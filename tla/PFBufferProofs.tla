--------------------------- MODULE PFBufferProofs ---------------------------
(***************************************************************************)
(* Every operation of the buffer manager keeps the pool consistent,        *)
(* whatever the sizes, the replacement strategy and the calls that fail.   *)
(*                                                                         *)
(* The difficulty is in the middle of PFbufGet and PFbufAlloc: the frame   *)
(* PFbufInternalAlloc returns is in the used list and not yet in the page  *)
(* table.  HasSpare describes that state, and each operation is shown to   *)
(* lead from PoolOK to HasSpare and back.                                  *)
(***************************************************************************)
EXTENDS PFBuffer, TLAPS

-----------------------------------------------------------------------------
(***************************************************************************)
(* Lists of frames.                                                        *)
(***************************************************************************)

(* PFbufUnlink takes one frame out of a list, and leaves the others in     *)
(* their order.                                                            *)
LEMMA UnlinkAt ==
  ASSUME NEW S, NEW list \in Seq(S), IsInjective(list), NEW k \in DOMAIN list
  PROVE  /\ Unlink(list, list[k]) \in Seq(S)
         /\ Len(Unlink(list, list[k])) = Len(list) - 1
         /\ \A i \in 1 .. Len(list) - 1 : Unlink(list, list[k])[i] =
              IF i < k THEN list[i] ELSE list[i + 1]
<1> DEFINE at == CHOOSE i \in DOMAIN list : list[i] = list[k]
<1>1. at \in DOMAIN list /\ list[at] = list[k]
  OBVIOUS
<1>2. at = k
  BY <1>1 DEF IsInjective
<1>3. Unlink(list, list[k]) = SubSeq(list, 1, k - 1) \o SubSeq(list, k + 1, Len(list))
  BY <1>2 DEF Unlink, RemoveAt
<1> DEFINE before == SubSeq(list, 1, k - 1)
           after == SubSeq(list, k + 1, Len(list))
<1>4. Len(list) \in Nat /\ k \in 1 .. Len(list)
  OBVIOUS
<1>5. /\ before \in Seq(S) /\ Len(before) = k - 1
      /\ \A i \in 1 .. k - 1 : before[i] = list[i]
  BY <1>4
<1>6. /\ after \in Seq(S) /\ Len(after) = Len(list) - k
      /\ \A i \in 1 .. Len(list) - k : after[i] = list[i + k]
  BY <1>4
<1> HIDE DEF before, after
<1>7. /\ before \o after \in Seq(S)
      /\ Len(before \o after) = Len(list) - 1
      /\ \A i \in 1 .. Len(list) - 1 :
           (before \o after)[i] = IF i < k THEN before[i] ELSE after[i - (k - 1)]
  <2>1. (k - 1) + (Len(list) - k) = Len(list) - 1
    BY <1>4
  <2>2. /\ before \o after \in Seq(S)
        /\ Len(before \o after) = (k - 1) + (Len(list) - k)
        /\ \A i \in 1 .. (k - 1) + (Len(list) - k) :
             (before \o after)[i] = IF i <= k - 1 THEN before[i] ELSE after[i - (k - 1)]
    BY <1>5, <1>6
  <2>3. \A i \in 1 .. Len(list) - 1 : i <= k - 1 <=> i < k
    BY <1>4
  <2> QED
    BY <2>1, <2>2, <2>3
<1>8. \A i \in 1 .. Len(list) - 1 :
        (before \o after)[i] = IF i < k THEN list[i] ELSE list[i + 1]
  <2> TAKE i \in 1 .. Len(list) - 1
  <2>1. CASE i < k
    <3>1. i \in 1 .. k - 1
      BY <1>4, <2>1
    <3> QED
      BY <2>1, <3>1, <1>5, <1>7
  <2>2. CASE ~(i < k)
    <3>1. i - (k - 1) \in 1 .. Len(list) - k /\ (i - (k - 1)) + k = i + 1
      BY <1>4, <2>2
    <3>2. after[i - (k - 1)] = list[(i - (k - 1)) + k]
      BY <3>1, <1>6
    <3> QED
      BY <2>2, <3>1, <3>2, <1>7
  <2> QED
    BY <2>1, <2>2
<1> QED
  BY <1>3, <1>7, <1>8 DEF before, after

(* What is left in the list is what was there, without that frame.         *)
LEMMA UnlinkSet ==
  ASSUME NEW S, NEW list \in Seq(S), IsInjective(list), NEW bp \in ToSet(list)
  PROVE  /\ Unlink(list, bp) \in Seq(S)
         /\ IsInjective(Unlink(list, bp))
         /\ ToSet(Unlink(list, bp)) = ToSet(list) \ {bp}
<1>1. PICK k \in DOMAIN list : list[k] = bp
  BY DEF ToSet
<1> DEFINE rest == Unlink(list, bp)
<1>2. /\ rest \in Seq(S)
      /\ Len(rest) = Len(list) - 1
      /\ \A i \in 1 .. Len(list) - 1 : rest[i] = IF i < k THEN list[i] ELSE list[i + 1]
  BY <1>1, UnlinkAt
<1> HIDE DEF rest
<1>3. DOMAIN rest = 1 .. Len(list) - 1 /\ DOMAIN list = 1 .. Len(list) /\ Len(list) \in Nat
  BY <1>2
<1> DEFINE old(i) == IF i < k THEN i ELSE i + 1
<1>4. /\ \A i \in DOMAIN rest : old(i) \in DOMAIN list /\ old(i) # k /\ rest[i] = list[old(i)]
      /\ \A i, j \in DOMAIN rest : old(i) = old(j) => i = j
  BY <1>1, <1>2, <1>3
<1> HIDE DEF old
<1>5. /\ IsInjective(rest)
      /\ \A i \in DOMAIN rest : rest[i] \in ToSet(list) \ {bp}
  <2>1. \A i, j \in DOMAIN list : list[i] = list[j] => i = j
    BY DEF IsInjective
  <2>2. \A i, j \in DOMAIN rest : rest[i] = rest[j] => i = j
    BY <1>4, <2>1
  <2>3. \A i \in DOMAIN rest : list[old(i)] # bp /\ list[old(i)] \in ToSet(list)
    BY <1>1, <1>4, <2>1 DEF ToSet
  <2> QED
    BY <1>4, <2>2, <2>3 DEF IsInjective
<1>6. ASSUME NEW x \in ToSet(list) \ {bp}
      PROVE  x \in ToSet(rest)
  <2>1. PICK j \in DOMAIN list : list[j] = x /\ j # k
    BY <1>1 DEF ToSet
  <2>2. CASE j < k
    BY <2>1, <2>2, <1>2, <1>3 DEF ToSet
  <2>3. CASE j > k
    <3>1. j - 1 \in 1 .. Len(list) - 1 /\ rest[j - 1] = list[j]
      BY <2>1, <2>3, <1>2, <1>3
    <3> QED
      BY <3>1, <2>1, <1>3 DEF ToSet
  <2> QED
    BY <2>1, <2>2, <2>3, <1>3
<1>7. ToSet(rest) = ToSet(list) \ {bp}
  BY <1>5, <1>6 DEF ToSet
<1> QED
  BY <1>2, <1>5, <1>7 DEF rest

(* PFbufLinkHead and PFbufInsertFree put a frame in front of the others.   *)
LEMMA LinkHeadSet ==
  ASSUME NEW S, NEW list \in Seq(S), IsInjective(list),
         NEW bp \in S, bp \notin ToSet(list)
  PROVE  /\ LinkHead(list, bp) \in Seq(S)
         /\ IsInjective(LinkHead(list, bp))
         /\ ToSet(LinkHead(list, bp)) = ToSet(list) \cup {bp}
<1> DEFINE new == LinkHead(list, bp)
<1>1. /\ new \in Seq(S)
      /\ Len(new) = Len(list) + 1
      /\ \A i \in 1 .. Len(list) + 1 : new[i] = IF i = 1 THEN bp ELSE list[i - 1]
  BY DEF LinkHead
<1> HIDE DEF new
<1>2. DOMAIN new = 1 .. Len(list) + 1 /\ DOMAIN list = 1 .. Len(list) /\ Len(list) \in Nat
  BY <1>1
<1>3. IsInjective(new)
  <2> SUFFICES ASSUME NEW i \in DOMAIN new, NEW j \in DOMAIN new, new[i] = new[j]
               PROVE  i = j
    BY DEF IsInjective
  <2>1. \A m \in DOMAIN new : m # 1 => m - 1 \in DOMAIN list /\ new[m] = list[m - 1]
    BY <1>1, <1>2
  <2>2. CASE i = 1 \/ j = 1
    <3>1. \A m \in DOMAIN list : list[m] # bp
      BY DEF ToSet
    <3>2. \A m \in DOMAIN new : m # 1 => new[m] # bp
      BY <2>1, <3>1
    <3>3. new[1] = bp
      BY <1>1, <1>2
    <3> QED
      BY <2>2, <3>2, <3>3
  <2>3. CASE i # 1 /\ j # 1
    <3>1. i - 1 \in DOMAIN list /\ j - 1 \in DOMAIN list /\ list[i - 1] = list[j - 1]
      BY <2>1, <2>3
    <3> QED
      BY <3>1, <1>2 DEF IsInjective
  <2> QED
    BY <2>2, <2>3
<1>4. \A i \in DOMAIN new : new[i] \in ToSet(list) \cup {bp}
  <2>1. new[1] = bp
    BY <1>1, <1>2
  <2>2. \A i \in DOMAIN new : i # 1 => i - 1 \in DOMAIN list /\ new[i] = list[i - 1]
    BY <1>1, <1>2
  <2> QED
    BY <2>1, <2>2 DEF ToSet
<1>5. ASSUME NEW x \in ToSet(list) \cup {bp}
      PROVE  x \in ToSet(new)
  <2>1. CASE x = bp
    BY <2>1, <1>1, <1>2 DEF ToSet
  <2>2. CASE x \in ToSet(list)
    <3>1. PICK j \in DOMAIN list : list[j] = x
      BY <2>2 DEF ToSet
    <3>2. j + 1 \in DOMAIN new /\ new[j + 1] = x
      BY <3>1, <1>1, <1>2
    <3> QED
      BY <3>2 DEF ToSet
  <2> QED
    BY <2>1, <2>2
<1>6. ToSet(new) = ToSet(list) \cup {bp}
  BY <1>4, <1>5 DEF ToSet
<1> QED
  BY <1>1, <1>3, <1>6 DEF new

(* Taking the head of the free list.                                       *)
LEMMA TailSet ==
  ASSUME NEW S, NEW list \in Seq(S), IsInjective(list), list # <<>>
  PROVE  /\ Head(list) \in S /\ Head(list) \in ToSet(list)
         /\ Tail(list) \in Seq(S)
         /\ IsInjective(Tail(list))
         /\ ToSet(Tail(list)) = ToSet(list) \ {Head(list)}
<1> DEFINE t == Tail(list)
<1>1. /\ t \in Seq(S) /\ Len(t) = Len(list) - 1
      /\ \A i \in 1 .. Len(list) - 1 : t[i] = list[i + 1]
      /\ Head(list) = list[1] /\ 1 \in DOMAIN list
  OBVIOUS
<1> HIDE DEF t
<1>2. DOMAIN t = 1 .. Len(list) - 1 /\ DOMAIN list = 1 .. Len(list) /\ Len(list) \in Nat
  BY <1>1
<1>3. /\ \A i \in DOMAIN t : i + 1 \in DOMAIN list /\ i + 1 # 1 /\ t[i] = list[i + 1]
      /\ \A i, j \in DOMAIN t : i + 1 = j + 1 => i = j
  BY <1>1, <1>2
<1>4. /\ IsInjective(t)
      /\ \A i \in DOMAIN t : t[i] \in ToSet(list) \ {Head(list)}
  <2>1. \A i, j \in DOMAIN list : list[i] = list[j] => i = j
    BY DEF IsInjective
  <2>2. \A i, j \in DOMAIN t : t[i] = t[j] => i = j
    BY <1>3, <2>1
  <2>3. \A i \in DOMAIN t : list[i + 1] # list[1] /\ list[i + 1] \in ToSet(list)
    BY <1>1, <1>3, <2>1 DEF ToSet
  <2> QED
    BY <1>1, <1>3, <2>2, <2>3 DEF IsInjective
<1>5. ASSUME NEW x \in ToSet(list) \ {Head(list)}
      PROVE  x \in ToSet(t)
  <2>1. PICK j \in DOMAIN list : list[j] = x /\ j # 1
    BY <1>1 DEF ToSet
  <2>2. j - 1 \in DOMAIN t /\ t[j - 1] = x
    BY <2>1, <1>1, <1>2
  <2> QED
    BY <2>2 DEF ToSet
<1>6. Head(list) \in S /\ Head(list) \in ToSet(list)
  BY <1>1, <1>2 DEF ToSet
<1>7. ToSet(t) = ToSet(list) \ {Head(list)}
  BY <1>4, <1>5 DEF ToSet
<1> QED
  BY <1>1, <1>4, <1>6, <1>7 DEF t

-----------------------------------------------------------------------------
(***************************************************************************)
(* The state between two operations, and the state in the middle of one.   *)
(***************************************************************************)
PoolOK(p) ==
  /\ p \in Pool
  /\ ListsPartitionFrames(p)
  /\ TableFinds(p, ToSet(p.used))

(* bp is a frame that has been taken for a page it does not hold yet.      *)
HasSpare(p, bp) ==
  /\ p \in Pool
  /\ ListsPartitionFrames(p)
  /\ bp \in ToSet(p.used)
  /\ TableFinds(p, ToSet(p.used) \ {bp})

(* The descriptors whose pages the frames of S hold.                       *)
FdsIn(p, S) == {p.frame[bp].fd : bp \in S}

(* A page that is not in the page table of p is not in that of q.          *)
EntersNothing(p, q) ==
  \A id \in PageIds : p.hash[id] = NULL => q.hash[id] = NULL


(* FreshPage is a value of a frame, and NULL is no frame.                  *)
LEMMA FreshPageType == FreshPage \in BufferPage /\ NULL \notin Frames
BY SizesAssumption DEF FreshPage, BufferPage, FilePage, Links, Data, Fds, Pages,
   PAGE_USED, PAGE_LIST_END, NULL, Frames

(* A fixed shape for the fields of a pool.                                 *)
LEMMA PoolFields ==
  ASSUME NEW p \in Pool
  PROVE  /\ p.used \in Seq(Frames) /\ p.free \in Seq(Frames)
         /\ p.numb \in 0 .. MaxFrames /\ p.max \in 0 .. MaxFrames
         /\ p.strategy \in Strategies
         /\ p.frame \in [Frames -> BufferPage]
         /\ p.hash \in [PageIds -> Frames \cup {NULL}]
         /\ ToSet(p.used) \subseteq Frames /\ ToSet(p.free) \subseteq Frames
<1>1. /\ p.used \in Seq(Frames) /\ p.free \in Seq(Frames)
      /\ p.numb \in 0 .. MaxFrames /\ p.max \in 0 .. MaxFrames
      /\ p.strategy \in Strategies
      /\ p.frame \in [Frames -> BufferPage]
      /\ p.hash \in [PageIds -> Frames \cup {NULL}]
  BY DEF Pool
<1>2. \A s \in Seq(Frames) : ToSet(s) \subseteq Frames
  BY DEF ToSet
<1> QED
  BY <1>1, <1>2

(* PFwritefcn leaves a disk, whatever fails.                               *)
LEMMA WriteType ==
  ASSUME NEW d \in Disk, NEW u, NEW fd, NEW b \in BufferPage,
         NEW w \in WriteIfDirty(d, u, fd, b)
  PROVE  w.disk \in Disk
<1>1. ASSUME NEW f, NEW pg \in Pages, NEW fpage \in FilePage
      PROVE  WritePage(d, f, pg, fpage) \in Disk
  <2>1. \A q \in Pages : q < pg => Hole \in FilePage
    BY SizesAssumption DEF Hole, FilePage, Links, Data, Pages
  <2>2. CASE f \in Files
    <3>1. [q \in Pages |-> IF q = pg THEN fpage
                           ELSE IF q < pg /\ d[f][q] = Absent THEN Hole ELSE d[f][q]]
            \in [Pages -> FilePage \cup {Absent}]
      BY <2>1, <2>2 DEF Disk
    <3> QED
      BY <3>1 DEF WritePage, Disk
  <2>3. CASE f \notin Files
    BY <2>3 DEF WritePage, Disk
  <2> QED
    BY <2>2, <2>3
<1>2. b.page \in Pages /\ b.fpage \in FilePage
      /\ [b.fpage EXCEPT !.pagebuf = Junk] \in FilePage
  BY DEF BufferPage, FilePage, Data
<1> QED
  BY <1>1, <1>2 DEF WriteIfDirty, PFwritefcn

(* A used frame moves to the head of its list, and nothing else changes.   *)
LEMMA MoveToHeadLists ==
  ASSUME NEW p \in Pool, ListsPartitionFrames(p), NEW bp \in ToSet(p.used)
  PROVE  /\ MoveToHead(p, bp) \in Pool
         /\ ListsPartitionFrames(MoveToHead(p, bp))
         /\ ToSet(MoveToHead(p, bp).used) = ToSet(p.used)
         /\ MoveToHead(p, bp).free = p.free
         /\ MoveToHead(p, bp).frame = p.frame
         /\ MoveToHead(p, bp).hash = p.hash
<1> DEFINE rest == Unlink(p.used, bp)
           new == LinkHead(rest, bp)
<1>1. p.used \in Seq(Frames) /\ IsInjective(p.used) /\ bp \in Frames
  BY PoolFields DEF ListsPartitionFrames
<1>2. rest \in Seq(Frames) /\ IsInjective(rest) /\ ToSet(rest) = ToSet(p.used) \ {bp}
  BY <1>1, UnlinkSet
<1>3. new \in Seq(Frames) /\ IsInjective(new) /\ ToSet(new) = ToSet(rest) \cup {bp}
  BY <1>1, <1>2, LinkHeadSet
<1>4. ToSet(new) = ToSet(p.used)
  BY <1>2, <1>3
<1>5. MoveToHead(p, bp) = [p EXCEPT !.used = new]
  BY DEF MoveToHead
<1> HIDE DEF rest, new
<1>6. /\ [p EXCEPT !.used = new] \in Pool
      /\ [p EXCEPT !.used = new].used = new
      /\ [p EXCEPT !.used = new].free = p.free
      /\ [p EXCEPT !.used = new].numb = p.numb
      /\ [p EXCEPT !.used = new].frame = p.frame
      /\ [p EXCEPT !.used = new].hash = p.hash
  BY <1>3 DEF Pool
<1> QED
  BY <1>3, <1>4, <1>5, <1>6 DEF ListsPartitionFrames

(* A used frame goes to the free list.                                     *)
LEMMA FreeFrameLists ==
  ASSUME NEW p \in Pool, ListsPartitionFrames(p), NEW bp \in ToSet(p.used)
  PROVE  /\ FreeFrame(p, bp) \in Pool
         /\ ListsPartitionFrames(FreeFrame(p, bp))
         /\ FreeFrame(p, bp).used = Unlink(p.used, bp)
         /\ ToSet(FreeFrame(p, bp).used) = ToSet(p.used) \ {bp}
         /\ FreeFrame(p, bp).frame = [p.frame EXCEPT ![bp] = FreshPage]
         /\ FreeFrame(p, bp).hash = p.hash
<1> DEFINE rest == Unlink(p.used, bp)
           free == LinkHead(p.free, bp)
           new == FreeFrame(p, bp)
<1>1. /\ p.used \in Seq(Frames) /\ IsInjective(p.used) /\ bp \in Frames
      /\ p.free \in Seq(Frames) /\ IsInjective(p.free)
      /\ bp \notin ToSet(p.free)
  BY PoolFields DEF ListsPartitionFrames
<1>2. rest \in Seq(Frames) /\ IsInjective(rest) /\ ToSet(rest) = ToSet(p.used) \ {bp}
  BY <1>1, UnlinkSet
<1>3. free \in Seq(Frames) /\ IsInjective(free) /\ ToSet(free) = ToSet(p.free) \cup {bp}
  BY <1>1, LinkHeadSet
<1>4. new = [p EXCEPT !.used = rest, !.free = free, !.frame[bp] = FreshPage]
  BY DEF FreeFrame
<1> HIDE DEF rest, free, new
<1>5. /\ new \in Pool
      /\ new.used = rest /\ new.free = free /\ new.numb = p.numb
      /\ new.frame = [p.frame EXCEPT ![bp] = FreshPage]
      /\ new.hash = p.hash
  BY <1>1, <1>2, <1>3, <1>4, FreshPageType DEF Pool
<1>6. ListsPartitionFrames(new)
  BY <1>2, <1>3, <1>5 DEF ListsPartitionFrames
<1> QED
  BY <1>2, <1>5, <1>6 DEF rest, new

-----------------------------------------------------------------------------
(***************************************************************************)
(* PFbufInternalAlloc.                                                     *)
(***************************************************************************)

(* What PFbufInternalAlloc hands over: a spare frame, or an error and a    *)
(* pool as good as before.                                                 *)
Allocated(p, t) ==
  /\ t.disk \in Disk
  /\ EntersNothing(p, t.pool)
  /\ IF t.err = "OK"
     THEN /\ HasSpare(t.pool, t.bp)
          /\ FdsIn(t.pool, ToSet(t.pool.used) \ {t.bp}) \subseteq FdsIn(p, ToSet(p.used))
     ELSE /\ PoolOK(t.pool)
          /\ FdsIn(t.pool, ToSet(t.pool.used)) \subseteq FdsIn(p, ToSet(p.used))

(* PFbufInternalAlloc, a frame from the free list: the pool is consistent, *)
(* and the frame at its head enters nothing.                               *)
LEMMA AllocFromFreeOK ==
  ASSUME NEW p, PoolOK(p), NEW d \in Disk, NEW t \in AllocFromFree(p, d)
  PROVE  Allocated(p, t)
<1> DEFINE bp == Head(p.free)
           new == LinkHead(p.used, bp)
           rest == Tail(p.free)
<1>1. /\ p.free # <<>>
      /\ t = Outcome("OK", [p EXCEPT !.free = rest, !.used = new], d, bp)
  BY DEF AllocFromFree
<1>2. /\ p \in Pool
      /\ p.used \in Seq(Frames) /\ IsInjective(p.used)
      /\ p.free \in Seq(Frames) /\ IsInjective(p.free)
      /\ ToSet(p.used) \cap ToSet(p.free) = {}
      /\ ToSet(p.used) \cup ToSet(p.free) = 1 .. p.numb
  BY PoolFields DEF PoolOK, ListsPartitionFrames
<1>3. /\ bp \in Frames /\ bp \in ToSet(p.free)
      /\ rest \in Seq(Frames) /\ IsInjective(rest)
      /\ ToSet(rest) = ToSet(p.free) \ {bp}
  BY <1>1, <1>2, TailSet
<1>4. bp \notin ToSet(p.used)
  BY <1>2, <1>3
<1>5. new \in Seq(Frames) /\ IsInjective(new) /\ ToSet(new) = ToSet(p.used) \cup {bp}
  BY <1>2, <1>3, <1>4, LinkHeadSet
<1> HIDE DEF bp, new, rest
<1> DEFINE q == [p EXCEPT !.free = rest, !.used = new]
<1>6. /\ q \in Pool /\ q.used = new /\ q.free = rest
      /\ q.numb = p.numb /\ q.frame = p.frame /\ q.hash = p.hash
  BY <1>2, <1>3, <1>5 DEF Pool
<1> HIDE DEF q
<1>7. ListsPartitionFrames(q)
  BY <1>2, <1>3, <1>4, <1>5, <1>6 DEF ListsPartitionFrames
<1>8. ToSet(q.used) \ {bp} = ToSet(p.used)
  BY <1>4, <1>5, <1>6
<1>9. TableFinds(q, ToSet(q.used) \ {bp})
  BY <1>6, <1>8 DEF PoolOK, TableFinds, PFhashFind
<1>10. bp \in ToSet(q.used)
  BY <1>5, <1>6
<1>11. FdsIn(q, ToSet(q.used) \ {bp}) = FdsIn(p, ToSet(p.used))
  BY <1>6, <1>8 DEF FdsIn
<1>12. t.disk = d /\ t.pool = q /\ t.err = "OK" /\ t.bp = bp
  BY <1>1 DEF Outcome, q
<1> QED
  BY <1>6, <1>7, <1>9, <1>10, <1>11, <1>12 DEF Allocated, HasSpare, EntersNothing

(* PFbufInternalAlloc, a new frame: PFnumbpage stays within the frames     *)
(* there are.                                                              *)
LEMMA AllocByMallocOK ==
  ASSUME NEW p, PoolOK(p), NEW d \in Disk, NEW t \in AllocByMalloc(p, d)
  PROVE  Allocated(p, t)
<1> DEFINE bp == p.numb + 1
           new == LinkHead(p.used, bp)
           q == [p EXCEPT !.numb = bp, !.used = new]
<1>1. /\ p.free = <<>> /\ ~(p.numb >= p.max)
      /\ t \in {Outcome("OK", q, d, bp), Outcome("NOMEM", p, d, NULL)}
  BY DEF AllocByMalloc
<1>2. /\ p \in Pool
      /\ p.used \in Seq(Frames) /\ IsInjective(p.used)
      /\ p.numb \in 0 .. MaxFrames /\ p.max \in 0 .. MaxFrames
      /\ ToSet(p.used) \cup ToSet(p.free) = 1 .. p.numb
      /\ ToSet(p.used) \cap ToSet(p.free) = {} /\ IsInjective(p.free)
  BY PoolFields DEF PoolOK, ListsPartitionFrames
<1>3. bp \in Frames /\ bp \in 0 .. MaxFrames /\ bp \notin ToSet(p.used)
      /\ bp \notin ToSet(p.free)
      /\ 1 .. bp = (1 .. p.numb) \cup {bp}
  BY <1>1, <1>2, SizesAssumption DEF Frames
<1>4. new \in Seq(Frames) /\ IsInjective(new) /\ ToSet(new) = ToSet(p.used) \cup {bp}
  BY <1>2, <1>3, LinkHeadSet
<1> HIDE DEF new, bp
<1>5. /\ q \in Pool /\ q.used = new /\ q.free = p.free
      /\ q.numb = bp /\ q.frame = p.frame /\ q.hash = p.hash
  BY <1>2, <1>3, <1>4 DEF Pool
<1> HIDE DEF q
<1>6. CASE t = Outcome("OK", q, d, bp)
  <2>1. ListsPartitionFrames(q)
    BY <1>2, <1>3, <1>4, <1>5 DEF ListsPartitionFrames
  <2>2. ToSet(q.used) \ {bp} = ToSet(p.used) /\ bp \in ToSet(q.used)
    BY <1>3, <1>4, <1>5
  <2>3. TableFinds(q, ToSet(q.used) \ {bp})
    BY <1>5, <2>2 DEF PoolOK, TableFinds, PFhashFind
  <2>4. FdsIn(q, ToSet(q.used) \ {bp}) = FdsIn(p, ToSet(p.used))
    BY <1>5, <2>2 DEF FdsIn
  <2>5. t.disk = d /\ t.pool = q /\ t.err = "OK" /\ t.bp = bp
    BY <1>6 DEF Outcome
  <2> QED
    BY <1>5, <2>1, <2>2, <2>3, <2>4, <2>5 DEF Allocated, HasSpare, EntersNothing
<1>7. CASE t = Outcome("NOMEM", p, d, NULL)
  <2>1. t.disk = d /\ t.pool = p /\ t.err = "NOMEM"
    BY <1>7 DEF Outcome
  <2> QED
    BY <2>1 DEF Allocated, EntersNothing
<1> QED
  BY <1>1, <1>6, <1>7

(* The page of the frame v of p is taken out of the page table.            *)
WithoutPage(p, v) ==
  PFhashDelete([p EXCEPT !.frame[v].dirty = FALSE], p.frame[v].fd, p.frame[v].page)

(* The frame is then a spare one, and every other is what it was.          *)
LEMMA WithoutPageSpare ==
  ASSUME NEW p, PoolOK(p), NEW v \in ToSet(p.used)
  PROVE  /\ HasSpare(WithoutPage(p, v), v)
         /\ EntersNothing(p, WithoutPage(p, v))
         /\ WithoutPage(p, v).used = p.used
         /\ \A bp \in ToSet(p.used) \ {v} : WithoutPage(p, v).frame[bp] = p.frame[bp]
<1> DEFINE b == p.frame[v]
           Clean == [p EXCEPT !.frame[v].dirty = FALSE]
           q == WithoutPage(p, v)
<1>1. /\ p \in Pool /\ ListsPartitionFrames(p) /\ TableFinds(p, ToSet(p.used))
      /\ v \in Frames /\ b \in BufferPage /\ ToSet(p.used) \subseteq Frames
      /\ p.frame \in [Frames -> BufferPage]
      /\ p.hash \in [PageIds -> Frames \cup {NULL}]
  BY PoolFields DEF PoolOK
<1>2. p.hash[<<b.fd, b.page>>] = v /\ <<b.fd, b.page>> \in PageIds
  BY <1>1 DEF TableFinds, PFhashFind, BufferPage, PageIds
<1>3. /\ Clean \in Pool
      /\ Clean.used = p.used /\ Clean.free = p.free /\ Clean.numb = p.numb
      /\ Clean.hash = p.hash
      /\ Clean.frame = [p.frame EXCEPT ![v].dirty = FALSE]
  BY <1>1 DEF Pool, BufferPage
<1>4. q = PFhashDelete(Clean, b.fd, b.page)
  BY DEF WithoutPage
<1> HIDE DEF Clean, q
<1>5. /\ q \in Pool
      /\ q.used = p.used /\ q.free = p.free /\ q.numb = p.numb
      /\ q.frame = Clean.frame
      /\ q.hash = [p.hash EXCEPT ![<<b.fd, b.page>>] = NULL]
  BY <1>3, <1>4 DEF PFhashDelete, Pool
<1>6. ListsPartitionFrames(q)
  BY <1>1, <1>5 DEF ListsPartitionFrames
<1>7. \A bp \in ToSet(p.used) \ {v} : q.frame[bp] = p.frame[bp]
  BY <1>1, <1>3, <1>5
<1>8. ASSUME NEW bp \in ToSet(p.used) \ {v}
      PROVE  q.hash[<<q.frame[bp].fd, q.frame[bp].page>>] = bp
  <2>1. bp \in Frames /\ p.hash[<<p.frame[bp].fd, p.frame[bp].page>>] = bp
    BY <1>1 DEF TableFinds, PFhashFind
  <2>2. <<p.frame[bp].fd, p.frame[bp].page>> # <<b.fd, b.page>>
    BY <2>1, <1>2
  <2>3. <<p.frame[bp].fd, p.frame[bp].page>> \in PageIds
    BY <2>1, <1>1 DEF PageIds, BufferPage
  <2> QED
    BY <2>1, <2>2, <2>3, <1>1, <1>5, <1>7
<1>9. ASSUME NEW id \in PageIds, q.hash[id] # NULL
      PROVE  /\ q.hash[id] \in ToSet(p.used) \ {v}
             /\ q.frame[q.hash[id]].fd = id[1] /\ q.frame[q.hash[id]].page = id[2]
  <2>1. id # <<b.fd, b.page>> /\ q.hash[id] = p.hash[id]
    BY <1>1, <1>5, <1>9
  <2>2. /\ p.hash[id] \in ToSet(p.used)
        /\ p.frame[p.hash[id]].fd = id[1] /\ p.frame[p.hash[id]].page = id[2]
    BY <2>1, <1>1, <1>9 DEF TableFinds
  <2>3. p.hash[id] # v
    BY <2>1, <2>2 DEF PageIds
  <2> QED
    BY <2>1, <2>2, <2>3, <1>7
<1>10. TableFinds(q, ToSet(q.used) \ {v})
  BY <1>5, <1>8, <1>9 DEF TableFinds, PFhashFind
<1>11. EntersNothing(p, q)
  BY <1>1, <1>5 DEF EntersNothing
<1> QED
  BY <1>5, <1>6, <1>7, <1>10, <1>11 DEF HasSpare, q

(* The frame is written out and taken from its page; if the write fails,   *)
(* it keeps both its page and its place.                                   *)
LEMMA EvictOK ==
  ASSUME NEW p, PoolOK(p), NEW d \in Disk, NEW u, NEW v \in ToSet(p.used),
         NEW t \in Evict(p, d, u, v)
  PROVE  Allocated(p, t)
<1> DEFINE b == p.frame[v]
           q == WithoutPage(p, v)
           Taken == MoveToHead(q, v)
<1>1. /\ TableFinds(p, ToSet(p.used)) /\ v \in Frames /\ b \in BufferPage
  BY PoolFields DEF PoolOK
<1>2. PFhashFind(p, b.fd, b.page) # NULL
  BY <1>1, FreshPageType DEF TableFinds
<1>3. PICK w \in WriteIfDirty(d, u, b.fd, b) :
        t = IF w.err # "OK" THEN Outcome(w.err, p, w.disk, NULL)
            ELSE Outcome("OK", Taken, w.disk, v)
  BY <1>2 DEF Evict, WithoutPage
<1>4. w.disk \in Disk
  BY <1>1, WriteType
<1>5. CASE w.err # "OK"
  <2>1. t.disk = w.disk /\ t.pool = p /\ t.err = w.err
    BY <1>3, <1>5 DEF Outcome
  <2> QED
    BY <2>1, <1>4, <1>5 DEF Allocated, EntersNothing
<1>6. CASE w.err = "OK"
  <2>1. /\ HasSpare(q, v) /\ EntersNothing(p, q) /\ q.used = p.used
        /\ \A bp \in ToSet(p.used) \ {v} : q.frame[bp] = p.frame[bp]
    BY WithoutPageSpare
  <2>2. t.disk = w.disk /\ t.pool = Taken /\ t.err = "OK" /\ t.bp = v
    BY <1>3, <1>6 DEF Outcome
  <2> HIDE DEF q
  <2>3. /\ Taken \in Pool /\ ListsPartitionFrames(Taken)
        /\ ToSet(Taken.used) = ToSet(p.used)
        /\ Taken.frame = q.frame /\ Taken.hash = q.hash
    BY <2>1, MoveToHeadLists DEF HasSpare
  <2> HIDE DEF Taken
  <2>4. HasSpare(Taken, v)
    BY <2>1, <2>3 DEF HasSpare, TableFinds, PFhashFind
  <2>5. FdsIn(Taken, ToSet(Taken.used) \ {v}) \subseteq FdsIn(p, ToSet(p.used))
    BY <2>1, <2>3 DEF FdsIn
  <2>6. EntersNothing(p, Taken)
    BY <2>1, <2>3 DEF EntersNothing
  <2> QED
    BY <2>2, <2>4, <2>5, <2>6, <1>4 DEF Allocated
<1> QED
  BY <1>5, <1>6

(* PFbufInternalAlloc as a whole, from the three ways to find a frame.     *)
LEMMA InternalAllocOK ==
  ASSUME NEW p, PoolOK(p), NEW d \in Disk, NEW u,
         NEW t \in PFbufInternalAlloc(p, d, u)
  PROVE  Allocated(p, t)
<1>1. CASE t \in AllocFromFree(p, d)
  BY <1>1, AllocFromFreeOK
<1>2. CASE t \in AllocByMalloc(p, d)
  BY <1>2, AllocByMallocOK
<1>3. CASE t \in AllocByEviction(p, d, u)
  <2>1. CASE t = Outcome("NOBUF", p, d, NULL)
    <3>1. t.disk = d /\ t.pool = p /\ t.err = "NOBUF"
      BY <2>1 DEF Outcome
    <3> QED
      BY <3>1 DEF Allocated, EntersNothing
  <2>2. CASE \E v \in Victim(p) : t \in Evict(p, d, u, v)
    <3>1. Victim(p) \subseteq ToSet(p.used)
      BY DEF Victim, ToSet
    <3> QED
      BY <2>2, <3>1, EvictOK
  <2> QED
    BY <1>3, <2>1, <2>2 DEF AllocByEviction
<1> QED
  BY <1>1, <1>2, <1>3 DEF PFbufInternalAlloc

-----------------------------------------------------------------------------
(***************************************************************************)
(* The operations pf.c calls.                                              *)
(***************************************************************************)

(* After an operation on a page of fd the pool is consistent, and has no   *)
(* pages of other files than before.                                       *)
Kept(p, t, fd) ==
  /\ t.disk \in Disk
  /\ PoolOK(t.pool)
  /\ FdsIn(t.pool, ToSet(t.pool.used)) \subseteq FdsIn(p, ToSet(p.used)) \cup {fd}

(* The page is in the frame t.bp, and fixed.                               *)
Fixes(t, fd, pg) ==
  /\ t.bp \in ToSet(t.pool.used)
  /\ PFhashFind(t.pool, fd, pg) = t.bp
  /\ t.pool.frame[t.bp].fixed

(* The frame bp of p becomes b.                                            *)
WithFrame(p, bp, b) == [p EXCEPT !.frame[bp] = b]

(* r is q with a page of fd in the spare frame bp.                         *)
Entered(q, r, bp, fd, pg, page) ==
  /\ PoolOK(r) /\ bp \in ToSet(r.used)
  /\ r.hash[<<fd, pg>>] = bp /\ r.frame[bp] = page
  /\ FdsIn(r, ToSet(r.used)) \subseteq FdsIn(q, ToSet(q.used) \ {bp}) \cup {fd}

(* A spare frame that gets a page, and its entry in the page table, makes  *)
(* the pool consistent.                                                    *)
LEMMA EnterSpare ==
  ASSUME NEW q, NEW bp, HasSpare(q, bp), NEW fd \in Fds, NEW pg \in Pages,
         q.hash[<<fd, pg>>] = NULL,
         NEW page \in BufferPage, page.fd = fd, page.page = pg
  PROVE  Entered(q, WithFrame(PFhashInsert(q, fd, pg, bp), bp, page), bp, fd, pg, page)
<1> DEFINE r == WithFrame(PFhashInsert(q, fd, pg, bp), bp, page)
<1>1. /\ q \in Pool /\ ListsPartitionFrames(q) /\ TableFinds(q, ToSet(q.used) \ {bp})
      /\ bp \in ToSet(q.used) /\ ToSet(q.used) \subseteq Frames
      /\ q.frame \in [Frames -> BufferPage]
      /\ q.hash \in [PageIds -> Frames \cup {NULL}]
      /\ <<fd, pg>> \in PageIds
  BY PoolFields DEF HasSpare, PageIds
<1>2. /\ r \in Pool
      /\ r.used = q.used /\ r.free = q.free /\ r.numb = q.numb
      /\ r.frame = [q.frame EXCEPT ![bp] = page]
      /\ r.hash = [q.hash EXCEPT ![<<fd, pg>>] = bp]
  BY <1>1 DEF WithFrame, PFhashInsert, Pool
<1> HIDE DEF r
<1>3. ListsPartitionFrames(r)
  BY <1>1, <1>2 DEF ListsPartitionFrames
<1>4. r.hash[<<fd, pg>>] = bp /\ r.frame[bp] = page /\ bp \in ToSet(r.used)
  BY <1>1, <1>2
<1>5. \A other \in ToSet(q.used) \ {bp} : r.frame[other] = q.frame[other]
  BY <1>1, <1>2
<1>6. ASSUME NEW other \in ToSet(r.used)
      PROVE  r.hash[<<r.frame[other].fd, r.frame[other].page>>] = other
  <2>1. CASE other = bp
    BY <2>1, <1>4
  <2>2. CASE other # bp
    <3>1. /\ q.hash[<<q.frame[other].fd, q.frame[other].page>>] = other
          /\ other \in Frames
      BY <2>2, <1>1, <1>2 DEF TableFinds, PFhashFind
    <3>2. <<q.frame[other].fd, q.frame[other].page>> # <<fd, pg>>
      BY <3>1, FreshPageType
    <3>3. <<q.frame[other].fd, q.frame[other].page>> \in PageIds
      BY <3>1, <1>1 DEF PageIds, BufferPage
    <3> QED
      BY <3>1, <3>2, <3>3, <2>2, <1>1, <1>2, <1>5
  <2> QED
    BY <2>1, <2>2
<1>7. ASSUME NEW id \in PageIds, r.hash[id] # NULL
      PROVE  /\ r.hash[id] \in ToSet(r.used)
             /\ r.frame[r.hash[id]].fd = id[1] /\ r.frame[r.hash[id]].page = id[2]
  <2>1. CASE id = <<fd, pg>>
    BY <2>1, <1>4
  <2>2. CASE id # <<fd, pg>>
    <3>1. r.hash[id] = q.hash[id]
      BY <2>2, <1>1, <1>2
    <3>2. /\ q.hash[id] \in ToSet(q.used) \ {bp}
          /\ q.frame[q.hash[id]].fd = id[1] /\ q.frame[q.hash[id]].page = id[2]
      BY <3>1, <1>1, <1>7 DEF TableFinds
    <3> QED
      BY <3>1, <3>2, <1>2, <1>5
  <2> QED
    BY <2>1, <2>2
<1>8. TableFinds(r, ToSet(r.used))
  BY <1>6, <1>7 DEF TableFinds, PFhashFind
<1>9. FdsIn(r, ToSet(r.used)) \subseteq FdsIn(q, ToSet(q.used) \ {bp}) \cup {fd}
  BY <1>2, <1>4, <1>5 DEF FdsIn
<1> QED
  BY <1>2, <1>3, <1>4, <1>8, <1>9 DEF PoolOK, Entered, r

(* A frame that is in no entry of the page table goes to the free list.    *)
LEMMA FreeSpare ==
  ASSUME NEW q, NEW bp, HasSpare(q, bp)
  PROVE  /\ PoolOK(FreeFrame(q, bp))
         /\ FdsIn(FreeFrame(q, bp), ToSet(FreeFrame(q, bp).used))
              = FdsIn(q, ToSet(q.used) \ {bp})
<1> DEFINE r == FreeFrame(q, bp)
<1>1. /\ q \in Pool /\ ListsPartitionFrames(q) /\ bp \in ToSet(q.used)
      /\ TableFinds(q, ToSet(q.used) \ {bp})
      /\ ToSet(q.used) \subseteq Frames /\ q.frame \in [Frames -> BufferPage]
  BY PoolFields DEF HasSpare
<1>2. /\ r \in Pool /\ ListsPartitionFrames(r)
      /\ ToSet(r.used) = ToSet(q.used) \ {bp}
      /\ r.frame = [q.frame EXCEPT ![bp] = FreshPage] /\ r.hash = q.hash
  BY <1>1, FreeFrameLists
<1> HIDE DEF r
<1>3. \A other \in ToSet(r.used) : r.frame[other] = q.frame[other]
  BY <1>1, <1>2
<1>4. TableFinds(r, ToSet(r.used))
  <2>1. \A other \in ToSet(r.used) :
          r.hash[<<r.frame[other].fd, r.frame[other].page>>] = other
    BY <1>1, <1>2, <1>3 DEF TableFinds, PFhashFind
  <2>2. \A id \in PageIds : r.hash[id] # NULL =>
          /\ r.hash[id] \in ToSet(r.used)
          /\ r.frame[r.hash[id]].fd = id[1] /\ r.frame[r.hash[id]].page = id[2]
    BY <1>1, <1>2, <1>3 DEF TableFinds
  <2> QED
    BY <2>1, <2>2 DEF TableFinds, PFhashFind
<1>5. FdsIn(r, ToSet(r.used)) = FdsIn(q, ToSet(q.used) \ {bp})
  BY <1>2, <1>3 DEF FdsIn
<1> QED
  BY <1>2, <1>4, <1>5 DEF PoolOK, r

(* The error paths of PFbufGet and PFbufAlloc put the frame back and leave *)
(* the pool consistent.                                                    *)
LEMMA GiveBackOK ==
  ASSUME NEW p, NEW t, Allocated(p, t), t.err = "OK", NEW fd, NEW e, e # "OK"
  PROVE  Kept(p, GiveBack(t, e), fd) /\ GiveBack(t, e).err = e
<1>1. /\ HasSpare(t.pool, t.bp) /\ t.disk \in Disk
      /\ FdsIn(t.pool, ToSet(t.pool.used) \ {t.bp}) \subseteq FdsIn(p, ToSet(p.used))
  BY DEF Allocated
<1>2. /\ GiveBack(t, e).pool = FreeFrame(t.pool, t.bp)
      /\ GiveBack(t, e).disk = t.disk /\ GiveBack(t, e).err = e
  BY DEF GiveBack, Outcome
<1> QED
  BY <1>1, <1>2, FreeSpare DEF Kept

(* An operation that only reorders the used list, or changes the flags or  *)
(* the data of a frame, keeps the pool consistent.                         *)
LEMMA SamePages ==
  ASSUME NEW p, PoolOK(p), NEW q \in Pool, ListsPartitionFrames(q),
         ToSet(q.used) = ToSet(p.used), q.hash = p.hash,
         \A bp \in ToSet(p.used) :
           q.frame[bp].fd = p.frame[bp].fd /\ q.frame[bp].page = p.frame[bp].page
  PROVE  PoolOK(q) /\ FdsIn(q, ToSet(q.used)) = FdsIn(p, ToSet(p.used))
<1>1. TableFinds(q, ToSet(q.used))
  BY DEF PoolOK, TableFinds, PFhashFind
<1>2. FdsIn(q, ToSet(q.used)) = FdsIn(p, ToSet(p.used))
  BY DEF FdsIn
<1> QED
  BY <1>1, <1>2 DEF PoolOK

(* q is p with b, for the same page, in the frame bp.                      *)
FrameSet(p, q, bp, b) ==
  /\ PoolOK(q) /\ FdsIn(q, ToSet(q.used)) = FdsIn(p, ToSet(p.used))
  /\ q.used = p.used /\ q.hash = p.hash /\ q.frame = [p.frame EXCEPT ![bp] = b]
  /\ bp \in Frames /\ q.frame[bp] = b

(* The same, where the change is to one frame.                             *)
LEMMA SetFrame ==
  ASSUME NEW p, PoolOK(p), NEW bp \in ToSet(p.used),
         NEW b \in BufferPage, b.fd = p.frame[bp].fd, b.page = p.frame[bp].page
  PROVE  FrameSet(p, WithFrame(p, bp, b), bp, b)
<1> DEFINE q == WithFrame(p, bp, b)
<1>1. /\ p \in Pool /\ ListsPartitionFrames(p)
      /\ ToSet(p.used) \subseteq Frames /\ p.frame \in [Frames -> BufferPage]
  BY PoolFields DEF PoolOK
<1>2. /\ q \in Pool
      /\ q.used = p.used /\ q.free = p.free /\ q.numb = p.numb /\ q.hash = p.hash
      /\ q.frame = [p.frame EXCEPT ![bp] = b]
  BY <1>1 DEF WithFrame, Pool
<1> HIDE DEF q
<1>3. ListsPartitionFrames(q)
  BY <1>1, <1>2 DEF ListsPartitionFrames
<1>4. \A other \in ToSet(p.used) :
        q.frame[other].fd = p.frame[other].fd /\ q.frame[other].page = p.frame[other].page
  BY <1>1, <1>2
<1>5. PoolOK(q) /\ FdsIn(q, ToSet(q.used)) = FdsIn(p, ToSet(p.used))
  BY <1>2, <1>3, <1>4, SamePages
<1> QED
  BY <1>1, <1>2, <1>5 DEF q, FrameSet

(* PFbufGet: on a hit and on a miss, through an eviction and through every *)
(* failure after it.                                                       *)
LEMMA GetOK ==
  ASSUME NEW p, PoolOK(p), NEW d \in Disk, NEW u, NEW fd \in Fds, u[fd] \in Files,
         NEW pg \in Pages, NEW t \in PFbufGet(p, d, u, fd, pg)
  PROVE  Kept(p, t, fd) /\ (t.err = "OK" => Fixes(t, fd, pg))
<1> DEFINE bp == PFhashFind(p, fd, pg)
<1>1. /\ p \in Pool /\ ListsPartitionFrames(p) /\ TableFinds(p, ToSet(p.used))
      /\ ToSet(p.used) \subseteq Frames /\ p.frame \in [Frames -> BufferPage]
      /\ p.hash \in [PageIds -> Frames \cup {NULL}] /\ <<fd, pg>> \in PageIds
  BY PoolFields DEF PoolOK, PageIds
<1>2. CASE bp # NULL
  <2>1. bp \in ToSet(p.used)
    BY <1>1, <1>2 DEF TableFinds, PFhashFind
  <2>2. CASE t = Outcome("PAGEFIXED", p, d, bp)
    BY <2>2 DEF Outcome, Kept
  <2>3. CASE t = Outcome("OK", [p EXCEPT !.frame[bp].fixed = TRUE], d, bp)
    <3> DEFINE b == [p.frame[bp] EXCEPT !.fixed = TRUE]
               q == WithFrame(p, bp, b)
    <3>1. /\ b \in BufferPage /\ b.fixed
          /\ b.fd = p.frame[bp].fd /\ b.page = p.frame[bp].page
      BY <1>1, <2>1 DEF BufferPage
    <3>2. t.disk = d /\ t.pool = q /\ t.bp = bp
      BY <2>3 DEF Outcome, WithFrame
    <3>3. p.hash[<<fd, pg>>] = bp
      BY DEF PFhashFind
    <3> HIDE DEF b, bp
    <3>4. FrameSet(p, q, bp, b)
      BY <2>1, <3>1, SetFrame
    <3> HIDE DEF q
    <3> QED
      BY <2>1, <3>1, <3>2, <3>3, <3>4 DEF FrameSet, Kept, Fixes, PFhashFind
  <2> QED
    BY <1>2, <2>2, <2>3 DEF PFbufGet
<1>3. CASE bp = NULL
  <2>1. PICK a \in PFbufInternalAlloc(p, d, u) :
          t \in IF a.err # "OK" THEN {a} ELSE GetMiss(a, u, fd, pg)
    BY <1>3 DEF PFbufGet
  <2>2. Allocated(p, a)
    BY <2>1, InternalAllocOK
  <2>3. CASE a.err # "OK"
    BY <2>1, <2>2, <2>3 DEF Allocated, Kept
  <2>4. CASE a.err = "OK" /\ \E e : e # "OK" /\ t = GiveBack(a, e)
    BY <2>2, <2>4, GiveBackOK
  <2>5. CASE /\ a.err = "OK" /\ a.disk[u[fd]][pg] # Absent
             /\ t = GetLoaded(a, u, fd, pg)
    <3> DEFINE page == [fd |-> fd, page |-> pg, fixed |-> TRUE, dirty |-> FALSE,
                        fpage |-> a.disk[u[fd]][pg]]
               r == WithFrame(PFhashInsert(a.pool, fd, pg, a.bp), a.bp, page)
    <3>1. /\ a.disk \in Disk /\ HasSpare(a.pool, a.bp)
          /\ FdsIn(a.pool, ToSet(a.pool.used) \ {a.bp}) \subseteq FdsIn(p, ToSet(p.used))
          /\ a.pool.hash[<<fd, pg>>] = NULL
      BY <1>1, <1>3, <2>2, <2>5 DEF Allocated, EntersNothing, PFhashFind
    <3>2. /\ page \in BufferPage /\ page.fixed
          /\ page.fd = fd /\ page.page = pg
      BY <3>1, <2>5 DEF BufferPage, Disk
    <3>3. t.disk = a.disk /\ t.pool = r /\ t.bp = a.bp
      BY <2>5 DEF GetLoaded, Outcome, WithFrame
    <3> HIDE DEF page
    <3>4. Entered(a.pool, r, a.bp, fd, pg, page)
      BY <3>1, <3>2, EnterSpare
    <3> HIDE DEF r
    <3> QED
      BY <3>1, <3>2, <3>3, <3>4 DEF Entered, Kept, Fixes, PFhashFind
  <2>6. CASE a.err = "OK"
    <3>1. PICK r \in PFreadfcn(a.disk, u, fd, pg) :
            t \in IF r # "OK" THEN {GiveBack(a, r)}
                  ELSE {GetLoaded(a, u, fd, pg)} \cup
                       {GiveBack(a, e) : e \in HashInsertErrors}
      BY <2>1, <2>6 DEF GetMiss
    <3>2. CASE r # "OK"
      BY <2>4, <2>6, <3>1, <3>2
    <3>3. CASE r = "OK"
      <4>1. a.disk[u[fd]][pg] # Absent
        BY <3>3 DEF PFreadfcn
      <4>2. \A e \in HashInsertErrors : e # "OK"
        BY DEF HashInsertErrors
      <4> QED
        BY <2>4, <2>5, <2>6, <3>1, <3>3, <4>1, <4>2
    <3> QED
      BY <3>2, <3>3
  <2> QED
    BY <2>3, <2>6
<1> QED
  BY <1>2, <1>3

(* PFbufAlloc: the new page is not in the buffer, and is when it is done.  *)
LEMMA AllocOK ==
  ASSUME NEW p, PoolOK(p), NEW d \in Disk, NEW u, NEW fd \in Fds, NEW pg \in Pages,
         NEW t \in PFbufAlloc(p, d, u, fd, pg)
  PROVE  Kept(p, t, fd) /\ (t.err = "OK" => Fixes(t, fd, pg))
<1>1. <<fd, pg>> \in PageIds
  BY DEF PageIds
<1>2. CASE PFhashFind(p, fd, pg) # NULL
  <2>1. t = Outcome("PAGEINBUF", p, d, NULL)
    BY <1>2 DEF PFbufAlloc
  <2> QED
    BY <2>1 DEF Outcome, Kept
<1>3. CASE PFhashFind(p, fd, pg) = NULL
  <2>1. PICK a \in PFbufInternalAlloc(p, d, u) :
          t \in IF a.err # "OK" THEN {a}
                ELSE {AllocEntered(a, fd, pg)} \cup
                     {GiveBack(a, e) : e \in HashInsertErrors}
    BY <1>3 DEF PFbufAlloc
  <2>2. Allocated(p, a)
    BY <2>1, InternalAllocOK
  <2>3. CASE a.err # "OK"
    BY <2>1, <2>2, <2>3 DEF Allocated, Kept
  <2>4. CASE a.err = "OK" /\ \E e \in HashInsertErrors : t = GiveBack(a, e)
    <3>1. PICK e \in HashInsertErrors : t = GiveBack(a, e)
      BY <2>4
    <3>2. e # "OK"
      BY DEF HashInsertErrors
    <3>3. Kept(p, GiveBack(a, e), fd) /\ GiveBack(a, e).err = e
      BY <2>2, <2>4, <3>2, GiveBackOK
    <3> QED
      BY <3>1, <3>2, <3>3
  <2>5. CASE a.err = "OK" /\ t = AllocEntered(a, fd, pg)
    <3> DEFINE page == [FreshPage EXCEPT !.fd = fd, !.page = pg, !.fixed = TRUE]
               r == WithFrame(PFhashInsert(a.pool, fd, pg, a.bp), a.bp, page)
    <3>1. /\ a.disk \in Disk /\ HasSpare(a.pool, a.bp)
          /\ FdsIn(a.pool, ToSet(a.pool.used) \ {a.bp}) \subseteq FdsIn(p, ToSet(p.used))
          /\ a.pool.hash[<<fd, pg>>] = NULL
      BY <1>1, <1>3, <2>2, <2>5 DEF Allocated, EntersNothing, PFhashFind
    <3>2. /\ page \in BufferPage /\ page.fixed
          /\ page.fd = fd /\ page.page = pg
      BY FreshPageType DEF BufferPage
    <3>3. t.disk = a.disk /\ t.pool = r /\ t.bp = a.bp
      BY <2>5 DEF AllocEntered, Outcome, WithFrame
    <3> HIDE DEF page
    <3>4. Entered(a.pool, r, a.bp, fd, pg, page)
      BY <3>1, <3>2, EnterSpare
    <3> HIDE DEF r
    <3> QED
      BY <3>1, <3>2, <3>3, <3>4 DEF Entered, Kept, Fixes, PFhashFind
  <2> QED
    BY <2>1, <2>3, <2>4, <2>5
<1> QED
  BY <1>2, <1>3

(* PFbufUnfix succeeds exactly for a page that is fixed.                   *)
LEMMA UnfixOK ==
  ASSUME NEW p, PoolOK(p), NEW d \in Disk, NEW fd \in Fds, NEW pg \in Pages,
         NEW dirty \in BOOLEAN, NEW t, t = PFbufUnfix(p, d, fd, pg, dirty)
  PROVE  /\ Kept(p, t, fd)
         /\ FdsIn(t.pool, ToSet(t.pool.used)) = FdsIn(p, ToSet(p.used))
         /\ t.err = "OK" <=> /\ PFhashFind(p, fd, pg) # NULL
                             /\ p.frame[PFhashFind(p, fd, pg)].fixed
<1> DEFINE bp == PFhashFind(p, fd, pg)
<1>1. CASE bp # NULL /\ p.frame[bp].fixed
  <2> DEFINE b == [p.frame[bp] EXCEPT !.dirty = p.frame[bp].dirty \/ dirty,
                                      !.fixed = FALSE]
             q == WithFrame(p, bp, b)
  <2>1. /\ p.frame \in [Frames -> BufferPage] /\ bp \in ToSet(p.used) /\ bp \in Frames
    BY <1>1, PoolFields DEF PoolOK, TableFinds, PFhashFind, PageIds
  <2>2. /\ b \in BufferPage /\ b.fd = p.frame[bp].fd /\ b.page = p.frame[bp].page
    BY <2>1 DEF BufferPage
  <2>3. t = Outcome("OK", MoveToHead(q, bp), d, NULL)
    BY <1>1 DEF PFbufUnfix, WithFrame
  <2> HIDE DEF b, bp
  <2>4. FrameSet(p, q, bp, b)
    BY <2>1, <2>2, SetFrame
  <2> HIDE DEF q
  <2>5. /\ q \in Pool /\ ListsPartitionFrames(q) /\ bp \in ToSet(q.used)
    BY <2>1, <2>4 DEF FrameSet, PoolOK
  <2>6. /\ MoveToHead(q, bp) \in Pool
        /\ ListsPartitionFrames(MoveToHead(q, bp))
        /\ ToSet(MoveToHead(q, bp).used) = ToSet(q.used)
        /\ MoveToHead(q, bp).frame = q.frame
        /\ MoveToHead(q, bp).hash = q.hash
    BY <2>5, MoveToHeadLists
  <2>7. /\ PoolOK(MoveToHead(q, bp))
        /\ FdsIn(MoveToHead(q, bp), ToSet(MoveToHead(q, bp).used)) = FdsIn(q, ToSet(q.used))
    BY <2>4, <2>6, SamePages DEF FrameSet
  <2>8. t.pool = MoveToHead(q, bp) /\ t.disk = d /\ t.err = "OK"
    BY <2>3 DEF Outcome
  <2> QED
    BY <1>1, <2>4, <2>7, <2>8 DEF FrameSet, Kept, bp
<1>2. CASE bp = NULL \/ ~p.frame[bp].fixed
  <2>1. t.pool = p /\ t.disk = d /\ t.err # "OK"
    BY <1>2 DEF PFbufUnfix, Outcome
  <2> QED
    BY <1>2, <2>1 DEF Kept
<1> QED
  BY <1>1, <1>2

(* PFbufUsed, likewise; the page stays where it is and fixed.              *)
LEMMA UsedOK ==
  ASSUME NEW p, PoolOK(p), NEW d \in Disk, NEW fd \in Fds, NEW pg \in Pages,
         NEW t, t = PFbufUsed(p, d, fd, pg)
  PROVE  /\ Kept(p, t, fd)
         /\ FdsIn(t.pool, ToSet(t.pool.used)) = FdsIn(p, ToSet(p.used))
         /\ ToSet(t.pool.used) = ToSet(p.used)
         /\ t.err = "OK" <=> /\ PFhashFind(p, fd, pg) # NULL
                             /\ p.frame[PFhashFind(p, fd, pg)].fixed
<1> DEFINE bp == PFhashFind(p, fd, pg)
<1>1. CASE bp # NULL /\ p.frame[bp].fixed
  <2> DEFINE b == [p.frame[bp] EXCEPT !.dirty = TRUE]
             q == WithFrame(p, bp, b)
  <2>1. /\ p.frame \in [Frames -> BufferPage] /\ bp \in ToSet(p.used) /\ bp \in Frames
    BY <1>1, PoolFields DEF PoolOK, TableFinds, PFhashFind, PageIds
  <2>2. /\ b \in BufferPage /\ b.fd = p.frame[bp].fd /\ b.page = p.frame[bp].page
    BY <2>1 DEF BufferPage
  <2>3. t = Outcome("OK", MoveToHead(q, bp), d, NULL)
    BY <1>1 DEF PFbufUsed, WithFrame
  <2> HIDE DEF b, bp
  <2>4. FrameSet(p, q, bp, b)
    BY <2>1, <2>2, SetFrame
  <2> HIDE DEF q
  <2>5. /\ q \in Pool /\ ListsPartitionFrames(q) /\ bp \in ToSet(q.used)
    BY <2>1, <2>4 DEF FrameSet, PoolOK
  <2>6. /\ MoveToHead(q, bp) \in Pool
        /\ ListsPartitionFrames(MoveToHead(q, bp))
        /\ ToSet(MoveToHead(q, bp).used) = ToSet(q.used)
        /\ MoveToHead(q, bp).frame = q.frame
        /\ MoveToHead(q, bp).hash = q.hash
    BY <2>5, MoveToHeadLists
  <2>7. /\ PoolOK(MoveToHead(q, bp))
        /\ FdsIn(MoveToHead(q, bp), ToSet(MoveToHead(q, bp).used)) = FdsIn(q, ToSet(q.used))
    BY <2>4, <2>6, SamePages DEF FrameSet
  <2>8. t.pool = MoveToHead(q, bp) /\ t.disk = d /\ t.err = "OK"
    BY <2>3 DEF Outcome
  <2> QED
    BY <1>1, <2>4, <2>6, <2>7, <2>8 DEF FrameSet, Kept, bp
<1>2. CASE bp = NULL \/ ~p.frame[bp].fixed
  <2>1. t.pool = p /\ t.disk = d /\ t.err # "OK"
    BY <1>2 DEF PFbufUsed, Outcome
  <2> QED
    BY <1>2, <2>1 DEF Kept
<1> QED
  BY <1>1, <1>2

(* One iteration of PFbufReleaseFile: the frame is released if it is one   *)
(* of fd, and the internal error that would end the program is not met.    *)
LEMMA ReleaseOK ==
  ASSUME NEW p, PoolOK(p), NEW d \in Disk, NEW u, NEW fd \in Fds,
         NEW bp \in ToSet(p.used), NEW t \in ReleaseFrame(p, d, u, fd, bp)
  PROVE  /\ t.disk \in Disk /\ PoolOK(t.pool) /\ t.err # "EXIT"
         /\ t.err = "OK" => /\ t.pool.used = Unlink(p.used, bp)
                            /\ \A other \in ToSet(p.used) \ {bp} :
                                 t.pool.frame[other] = p.frame[other]
         /\ t.err = "SKIP" => p.frame[bp].fd # fd
         /\ t.err # "OK" => t.pool = p
<1> DEFINE b == p.frame[bp]
           q == WithoutPage(p, bp)
           r == FreeFrame(q, bp)
<1>1. /\ TableFinds(p, ToSet(p.used)) /\ bp \in Frames /\ b \in BufferPage
  BY PoolFields DEF PoolOK
<1>2. CASE b.fd # fd
  <2>1. t = Outcome("SKIP", p, d, bp)
    BY <1>2 DEF ReleaseFrame
  <2> QED
    BY <1>2, <2>1 DEF Outcome
<1>3. CASE b.fd = fd /\ b.fixed
  <2>1. t = Outcome("PAGEFIXED", p, d, bp)
    BY <1>3 DEF ReleaseFrame
  <2> QED
    BY <2>1 DEF Outcome
<1>4. CASE b.fd = fd /\ ~b.fixed
  <2>1. PFhashFind(p, fd, b.page) # NULL
    BY <1>1, <1>4, FreshPageType DEF TableFinds
  <2>2. PICK w \in WriteIfDirty(d, u, fd, b) :
          t = IF w.err # "OK" THEN Outcome(w.err, p, w.disk, bp)
              ELSE Outcome("OK", r, w.disk, bp)
    BY <1>4, <2>1 DEF ReleaseFrame, WithoutPage
  <2>3. w.disk \in Disk
    BY <1>1, WriteType
  <2>4. w.err \in {"OK", "UNIX", "INCOMPLETEWRITE"}
    BY DEF WriteIfDirty, PFwritefcn
  <2>5. CASE w.err # "OK"
    <3>1. t.disk = w.disk /\ t.pool = p /\ t.err = w.err
      BY <2>2, <2>5 DEF Outcome
    <3> QED
      BY <2>3, <2>4, <2>5, <3>1
  <2>6. CASE w.err = "OK"
    <3>1. /\ HasSpare(q, bp) /\ q.used = p.used
          /\ \A other \in ToSet(p.used) \ {bp} : q.frame[other] = p.frame[other]
      BY WithoutPageSpare
    <3> HIDE DEF q
    <3>2. PoolOK(r)
      BY <3>1, FreeSpare
    <3>3. /\ r.used = Unlink(q.used, bp)
          /\ r.frame = [q.frame EXCEPT ![bp] = FreshPage]
      BY <3>1, FreeFrameLists DEF HasSpare
    <3>4. q.frame \in [Frames -> BufferPage] /\ ToSet(p.used) \subseteq Frames
      BY <3>1, PoolFields DEF HasSpare, PoolOK
    <3>5. t.disk = w.disk /\ t.pool = r /\ t.err = "OK"
      BY <2>2, <2>6 DEF Outcome
    <3> HIDE DEF r
    <3>6. \A other \in ToSet(p.used) \ {bp} : r.frame[other] = p.frame[other]
      BY <3>1, <3>3, <3>4
    <3> QED
      BY <2>3, <3>1, <3>2, <3>3, <3>5, <3>6
  <2> QED
    BY <2>5, <2>6
<1> QED
  BY <1>2, <1>3, <1>4

-----------------------------------------------------------------------------
(***************************************************************************)
(* What the operations of the buffer manager do to the pages: to the one   *)
(* they are called for, and to every other page while they look for a      *)
(* frame.                                                                  *)
(*                                                                         *)
(* PFBufferProofs shows that the pool stays a pool.  Here, p and d are the *)
(* pool and the disk before an operation, q and e those after it, and      *)
(* Carried says all that may have happened to a page the operation was not *)
(* called for: nothing, the file getting longer around it, or an eviction. *)
(***************************************************************************)

(* The frame that holds the page id, where there is one.                   *)
FrameOf(p, id) == p.frame[p.hash[id]]

(* The page is in the same frame as before, and the frame is unchanged.    *)
Same(p, q, id) ==
  /\ q.hash[id] = p.hash[id]
  /\ p.hash[id] # NULL => FrameOf(q, id) = FrameOf(p, id)

Stored(d, u, id) == d[u[id[1]]][id[2]]

(* The page was evicted: written to its file if it was dirty.              *)
Evicted(p, d, q, e, u, id) ==
  /\ p.hash[id] # NULL /\ ~FrameOf(p, id).fixed
  /\ q.hash[id] = NULL
  /\ Stored(e, u, id) = IF FrameOf(p, id).dirty THEN FrameOf(p, id).fpage
                        ELSE Stored(d, u, id)

(* A torn page replaces one that is dirty in its frame, a hole one that is *)
(* not in the file.                                                        *)
Overwritten(p, d, e, u, id) ==
  /\ Stored(e, u, id) # Absent
  /\ \/ Stored(d, u, id) = Absent
     \/ p.hash[id] # NULL /\ FrameOf(p, id).dirty

Carried(p, d, q, e, u, id) ==
  \/ Same(p, q, id) /\ Stored(e, u, id) = Stored(d, u, id)
  \/ Same(p, q, id) /\ Overwritten(p, d, e, u, id)
  \/ Evicted(p, d, q, e, u, id)

(* Pages of the files that are open.                                       *)
OpenIds(u) == {id \in PageIds : u[id[1]] \in Files}

(* The disk is written to only through a dirty frame of the file.          *)
WritesDirty(p, d, e, u) ==
  \A f \in Files : e[f] # d[f] =>
    \E id \in PageIds : p.hash[id] # NULL /\ FrameOf(p, id).dirty /\ u[id[1]] = f

(* What the callers see to: frames are of open files, and a file that has  *)
(* a dirty frame is open only once.                                        *)
Owned(p, u) ==
  \A id \in PageIds : p.hash[id] # NULL =>
    /\ u[id[1]] \in Files
    /\ FrameOf(p, id).dirty => \A fd \in Fds : u[fd] = u[id[1]] => fd = id[1]

CarriesAll(p, d, q, e, u) ==
  /\ \A id \in OpenIds(u) : Carried(p, d, q, e, u, id)
  /\ WritesDirty(p, d, e, u)

-----------------------------------------------------------------------------
(***************************************************************************)
(* The disk.                                                               *)
(***************************************************************************)

(* A page of a file is not Absent.                                         *)
LEMMA PageNotAbsent == Absent \notin FilePage /\ Hole \in FilePage
BY AbsentAssumption, SizesAssumption
   DEF FilePage, Hole, Links, Data, Pages, PAGE_USED, PAGE_LIST_END

(* PFwritefcn: the page is replaced, and the pages it skips become holes.  *)
LEMMA WriteEffect ==
  ASSUME NEW d \in Disk, NEW f \in Files, NEW pg \in Pages, NEW fpage \in FilePage
  PROVE  /\ WritePage(d, f, pg, fpage) \in Disk
         /\ \A g \in Files : g # f => WritePage(d, f, pg, fpage)[g] = d[g]
         /\ \A q \in Pages : WritePage(d, f, pg, fpage)[f][q] =
              IF q = pg THEN fpage
              ELSE IF q < pg /\ d[f][q] = Absent THEN Hole ELSE d[f][q]
<1> DEFINE page == [q \in Pages |-> IF q = pg THEN fpage
                      ELSE IF q < pg /\ d[f][q] = Absent THEN Hole ELSE d[f][q]]
<1>1. page \in [Pages -> FilePage \cup {Absent}]
  BY PageNotAbsent DEF Disk
<1>2. WritePage(d, f, pg, fpage) = [d EXCEPT ![f] = page]
  BY DEF WritePage
<1>3. \A q \in Pages : page[q] = IF q = pg THEN fpage
                      ELSE IF q < pg /\ d[f][q] = Absent THEN Hole ELSE d[f][q]
  OBVIOUS
<1> HIDE DEF page
<1> QED
  BY <1>1, <1>2, <1>3 DEF Disk

(* Writing the page id, which is dirty in its frame, with what the frame   *)
(* holds or with a torn page: the other pages of open files are what they  *)
(* were, or holes.                                                         *)
LEMMA WriteOthers ==
  ASSUME NEW p \in Pool, NEW d \in Disk, NEW u, Owned(p, u),
         NEW id \in PageIds, p.hash[id] # NULL, FrameOf(p, id).dirty,
         NEW fpage \in FilePage, NEW e, e = WritePage(d, u[id[1]], id[2], fpage)
  PROVE  /\ e \in Disk /\ Stored(e, u, id) = fpage
         /\ \A other \in OpenIds(u) \ {id} :
              Stored(e, u, other) = Stored(d, u, other) \/ Overwritten(p, d, e, u, other)
         /\ WritesDirty(p, d, e, u)
<1> DEFINE f == u[id[1]]
<1>1. /\ id[1] \in Fds /\ id[2] \in Pages /\ f \in Files
      /\ \A fd \in Fds : u[fd] = f => fd = id[1]
  BY DEF Owned, PageIds
<1>2. /\ e \in Disk
      /\ \A g \in Files : g # f => e[g] = d[g]
      /\ \A q \in Pages : e[f][q] =
           IF q = id[2] THEN fpage
           ELSE IF q < id[2] /\ d[f][q] = Absent THEN Hole ELSE d[f][q]
  BY <1>1, WriteEffect
<1>3. Stored(e, u, id) = fpage
  BY <1>1, <1>2 DEF Stored
<1>4. ASSUME NEW other \in OpenIds(u) \ {id}
      PROVE  Stored(e, u, other) = Stored(d, u, other) \/ Overwritten(p, d, e, u, other)
  <2>1. other[1] \in Fds /\ other[2] \in Pages /\ u[other[1]] \in Files
    BY DEF OpenIds, PageIds
  <2>2. CASE u[other[1]] # f
    BY <2>1, <2>2, <1>2 DEF Stored
  <2>3. CASE u[other[1]] = f
    <3>1. other[1] = id[1] /\ other[2] # id[2]
      BY <1>1, <2>1, <2>3 DEF OpenIds, PageIds
    <3>2. e[f][other[2]] = IF other[2] < id[2] /\ d[f][other[2]] = Absent
                           THEN Hole ELSE d[f][other[2]]
      BY <1>2, <2>1, <3>1
    <3> QED
      BY <3>2, <2>3, PageNotAbsent DEF Stored, Overwritten
  <2> QED
    BY <2>2, <2>3
<1>5. WritesDirty(p, d, e, u)
  BY <1>2 DEF WritesDirty
<1> QED
  BY <1>2, <1>3, <1>4, <1>5

(* The write of a frame before its page leaves it.                         *)
LEMMA WrittenBack ==
  ASSUME NEW p, PoolOK(p), NEW d \in Disk, NEW u, Owned(p, u),
         NEW v \in ToSet(p.used), NEW id, id = <<p.frame[v].fd, p.frame[v].page>>,
         NEW w \in WriteIfDirty(d, u, p.frame[v].fd, p.frame[v])
  PROVE  /\ id \in OpenIds(u) /\ p.hash[id] = v /\ v # NULL /\ v \in Frames
         /\ \A other \in OpenIds(u) \ {id} :
              \/ Stored(w.disk, u, other) = Stored(d, u, other)
              \/ Overwritten(p, d, w.disk, u, other)
         /\ WritesDirty(p, d, w.disk, u)
         /\ IF w.err = "OK"
            THEN Stored(w.disk, u, id) = IF p.frame[v].dirty THEN p.frame[v].fpage
                                         ELSE Stored(d, u, id)
            ELSE \/ Stored(w.disk, u, id) = Stored(d, u, id)
                 \/ Overwritten(p, d, w.disk, u, id)
<1> DEFINE b == p.frame[v]
<1>1. /\ p \in Pool /\ TableFinds(p, ToSet(p.used)) /\ v \in Frames /\ b \in BufferPage
  BY PoolFields DEF PoolOK
<1>2. p.hash[id] = v /\ v # NULL /\ id \in PageIds
  BY <1>1, FreshPageType DEF TableFinds, PFhashFind, PageIds, BufferPage
<1>3. id \in OpenIds(u) /\ id[1] = b.fd /\ id[2] = b.page
  BY <1>2 DEF OpenIds, Owned
<1>4. CASE ~b.dirty
  <2>1. w.disk = d /\ w.err = "OK"
    BY <1>4 DEF WriteIfDirty
  <2> QED
    BY <2>1, <1>1, <1>2, <1>3, <1>4 DEF WritesDirty
<1>5. CASE b.dirty
  <2>1. b.fpage \in FilePage /\ [b.fpage EXCEPT !.pagebuf = Junk] \in FilePage
    BY <1>1 DEF BufferPage, FilePage, Data
  <2>2. /\ p.hash[id] # NULL /\ FrameOf(p, id).dirty
        /\ w \in PFwritefcn(d, u, id[1], id[2], b.fpage)
    BY <1>2, <1>3, <1>5 DEF FrameOf, WriteIfDirty
  <2>3. CASE w = [err |-> "OK", disk |-> WritePage(d, u[id[1]], id[2], b.fpage)]
    <3>1. w.disk = WritePage(d, u[id[1]], id[2], b.fpage) /\ w.err = "OK"
      BY <2>3
    <3> QED
      BY <3>1, <2>1, <2>2, <1>1, <1>2, <1>3, <1>5, WriteOthers
  <2>4. CASE w = [err |-> "UNIX", disk |-> d]
    <3>1. w.disk = d /\ w.err = "UNIX"
      BY <2>4
    <3> QED
      BY <3>1, <1>1, <1>2, <1>3 DEF WritesDirty
  <2>5. CASE w = [err |-> "INCOMPLETEWRITE",
                  disk |-> WritePage(d, u[id[1]], id[2],
                                     [b.fpage EXCEPT !.pagebuf = Junk])]
    <3> DEFINE torn == [b.fpage EXCEPT !.pagebuf = Junk]
    <3>1. w.disk = WritePage(d, u[id[1]], id[2], torn) /\ w.err = "INCOMPLETEWRITE"
      BY <2>5
    <3>2. torn \in FilePage
      BY <2>1
    <3> HIDE DEF torn
    <3>3. /\ Stored(w.disk, u, id) = torn
          /\ \A other \in OpenIds(u) \ {id} :
               \/ Stored(w.disk, u, other) = Stored(d, u, other)
               \/ Overwritten(p, d, w.disk, u, other)
          /\ WritesDirty(p, d, w.disk, u)
      BY <3>1, <3>2, <2>2, <1>1, <1>2, WriteOthers
    <3>4. Overwritten(p, d, w.disk, u, id)
      BY <3>2, <3>3, <2>2, PageNotAbsent DEF Overwritten
    <3> QED
      BY <3>1, <3>3, <3>4, <1>1, <1>2, <1>3
  <2> QED
    BY <2>2, <2>3, <2>4, <2>5 DEF PFwritefcn
<1> QED
  BY <1>4, <1>5

-----------------------------------------------------------------------------
(***************************************************************************)
(* Looking for a frame.                                                    *)
(***************************************************************************)

(* The page of the frame v leaves the page table; the others stay.         *)
LEMMA WithoutPageOthers ==
  ASSUME NEW p, PoolOK(p), NEW v \in ToSet(p.used),
         NEW id, id = <<p.frame[v].fd, p.frame[v].page>>
  PROVE  /\ WithoutPage(p, v).hash[id] = NULL
         /\ \A other \in PageIds \ {id} : Same(p, WithoutPage(p, v), other)
<1> DEFINE q == WithoutPage(p, v)
<1>1. /\ p \in Pool /\ TableFinds(p, ToSet(p.used)) /\ v \in Frames
      /\ p.frame[v] \in BufferPage /\ p.hash \in [PageIds -> Frames \cup {NULL}]
      /\ p.frame \in [Frames -> BufferPage]
  BY PoolFields DEF PoolOK
<1>2. p.hash[id] = v /\ id \in PageIds
  BY <1>1 DEF TableFinds, PFhashFind, PageIds, BufferPage
<1>3. /\ q.hash = [p.hash EXCEPT ![id] = NULL]
      /\ q.frame = [p.frame EXCEPT ![v].dirty = FALSE]
  BY <1>1 DEF WithoutPage, PFhashDelete, Pool
<1> HIDE DEF q
<1>4. ASSUME NEW other \in PageIds \ {id}
      PROVE  Same(p, q, other)
  <2>1. q.hash[other] = p.hash[other]
    BY <1>1, <1>3
  <2>2. p.hash[other] # NULL => p.hash[other] # v
    BY <1>1, <1>2 DEF TableFinds, PageIds
  <2>3. p.hash[other] # NULL => q.frame[p.hash[other]] = p.frame[p.hash[other]]
    BY <1>1, <1>3, <2>2
  <2> QED
    BY <2>1, <2>3 DEF Same, FrameOf
<1> QED
  BY <1>1, <1>2, <1>3, <1>4 DEF q

(* What is carried by an operation stays carried if the page is left alone *)
(* after it.                                                               *)
LEMMA CarriedSame ==
  ASSUME NEW p, NEW d, NEW q, NEW e, NEW u, NEW id, NEW r,
         Carried(p, d, q, e, u, id), Same(q, r, id)
  PROVE  Carried(p, d, r, e, u, id)
BY DEF Carried, Same, Evicted, FrameOf

(* An eviction.                                                            *)
LEMMA EvictCarries ==
  ASSUME NEW p, PoolOK(p), NEW d \in Disk, NEW u, Owned(p, u),
         NEW v \in ToSet(p.used), ~p.frame[v].fixed, NEW t \in Evict(p, d, u, v)
  PROVE  CarriesAll(p, d, t.pool, t.disk, u)
<1> DEFINE b == p.frame[v]
           id == <<b.fd, b.page>>
           q == WithoutPage(p, v)
           Taken == MoveToHead(q, v)
<1>1. TableFinds(p, ToSet(p.used)) /\ v \in Frames
  BY PoolFields DEF PoolOK
<1>2. PFhashFind(p, b.fd, b.page) # NULL
  BY <1>1, FreshPageType DEF TableFinds
<1>3. PICK w \in WriteIfDirty(d, u, b.fd, b) :
        t = IF w.err # "OK" THEN Outcome(w.err, p, w.disk, NULL)
            ELSE Outcome("OK", Taken, w.disk, v)
  BY <1>2 DEF Evict, WithoutPage
<1>4. /\ id \in OpenIds(u) /\ p.hash[id] = v /\ v # NULL
      /\ \A other \in OpenIds(u) \ {id} :
           \/ Stored(w.disk, u, other) = Stored(d, u, other)
           \/ Overwritten(p, d, w.disk, u, other)
      /\ WritesDirty(p, d, w.disk, u)
      /\ IF w.err = "OK"
         THEN Stored(w.disk, u, id) = IF b.dirty THEN b.fpage ELSE Stored(d, u, id)
         ELSE \/ Stored(w.disk, u, id) = Stored(d, u, id)
              \/ Overwritten(p, d, w.disk, u, id)
  BY WrittenBack
<1>5. CASE w.err # "OK"
  <2>1. t.pool = p /\ t.disk = w.disk
    BY <1>3, <1>5 DEF Outcome
  <2> QED
    BY <2>1, <1>4, <1>5 DEF CarriesAll, Carried, Same
<1>6. CASE w.err = "OK"
  <2>1. t.pool = Taken /\ t.disk = w.disk
    BY <1>3, <1>6 DEF Outcome
  <2>2. Taken.hash = q.hash /\ Taken.frame = q.frame
    BY WithoutPageSpare, MoveToHeadLists DEF HasSpare
  <2>3. q.hash[id] = NULL /\ \A other \in PageIds \ {id} : Same(p, q, other)
    BY WithoutPageOthers
  <2> HIDE DEF q, Taken
  <2>4. Evicted(p, d, t.pool, t.disk, u, id)
    BY <2>1, <2>2, <2>3, <1>4, <1>6 DEF Evicted, FrameOf
  <2>5. \A other \in OpenIds(u) \ {id} : Same(p, t.pool, other)
    BY <2>1, <2>2, <2>3 DEF Same, FrameOf, OpenIds
  <2> QED
    BY <2>1, <2>4, <2>5, <1>4 DEF CarriesAll, Carried
<1> QED
  BY <1>5, <1>6

(* A pool with the same page table and frames, and the same disk.          *)
LEMMA CarriesStill ==
  ASSUME NEW p, NEW d, NEW u, NEW q, q.hash = p.hash, q.frame = p.frame
  PROVE  CarriesAll(p, d, q, d, u)
BY DEF CarriesAll, Carried, Same, FrameOf, WritesDirty

(* PFbufInternalAlloc: whichever way a frame is found, or not found.       *)
LEMMA InternalAllocCarries ==
  ASSUME NEW p, PoolOK(p), NEW d \in Disk, NEW u, Owned(p, u),
         NEW t \in PFbufInternalAlloc(p, d, u)
  PROVE  CarriesAll(p, d, t.pool, t.disk, u)
<1> USE DEF Outcome
<1>1. CASE t \in AllocFromFree(p, d) \/ t \in AllocByMalloc(p, d)
  <2>1. \A used, free, n :
          /\ [p EXCEPT !.free = free, !.used = used].hash = p.hash
          /\ [p EXCEPT !.free = free, !.used = used].frame = p.frame
          /\ [p EXCEPT !.numb = n, !.used = used].hash = p.hash
          /\ [p EXCEPT !.numb = n, !.used = used].frame = p.frame
    BY DEF PoolOK, Pool
  <2>2. CASE t \in AllocFromFree(p, d)
    <3>1. t = Outcome("OK", [p EXCEPT !.free = Tail(p.free),
                                      !.used = LinkHead(p.used, Head(p.free))],
                      d, Head(p.free))
      BY <2>2 DEF AllocFromFree
    <3>2. t.pool.hash = p.hash /\ t.pool.frame = p.frame /\ t.disk = d
      BY <2>1, <3>1
    <3> QED
      BY <3>2, CarriesStill
  <2>3. CASE t \in AllocByMalloc(p, d)
    <3> DEFINE n == p.numb + 1
               used == LinkHead(p.used, n)
    <3>1. \/ t = Outcome("OK", [p EXCEPT !.numb = n, !.used = used], d, n)
          \/ t = Outcome("NOMEM", p, d, NULL)
      BY <2>3 DEF AllocByMalloc
    <3> HIDE DEF n, used
    <3>2. CASE t = Outcome("OK", [p EXCEPT !.numb = n, !.used = used], d, n)
      <4>1. t.pool = [p EXCEPT !.numb = n, !.used = used] /\ t.disk = d
        BY <3>2
      <4> QED
        BY <2>1, <4>1, CarriesStill
    <3>3. CASE t = Outcome("NOMEM", p, d, NULL)
      BY <3>3, CarriesStill
    <3> QED
      BY <3>1, <3>2, <3>3
  <2> QED
    BY <1>1, <2>2, <2>3
<1>2. CASE t \in AllocByEviction(p, d, u)
  <2>1. CASE t = Outcome("NOBUF", p, d, NULL)
    BY <2>1, CarriesStill
  <2>2. CASE \E v \in Victim(p) : t \in Evict(p, d, u, v)
    <3>1. \A v \in Victim(p) : v \in ToSet(p.used) /\ ~p.frame[v].fixed
      BY DEF Victim, ToSet
    <3> QED
      BY <2>2, <3>1, EvictCarries
  <2> QED
    BY <1>2, <2>1, <2>2 DEF AllocByEviction
<1> QED
  BY <1>1, <1>2 DEF PFbufInternalAlloc

(* The spare frame is in no entry of the page table, so it can be put back *)
(* without touching a page.                                                *)
LEMMA FreeSpareOthers ==
  ASSUME NEW q, NEW bp, HasSpare(q, bp)
  PROVE  \A id \in PageIds : Same(q, FreeFrame(q, bp), id)
<1>1. /\ ListsPartitionFrames(q) /\ bp \in ToSet(q.used) /\ bp \in Frames
      /\ TableFinds(q, ToSet(q.used) \ {bp}) /\ q \in Pool
      /\ q.frame \in [Frames -> BufferPage]
      /\ q.hash \in [PageIds -> Frames \cup {NULL}]
  BY PoolFields DEF HasSpare
<1>2. /\ FreeFrame(q, bp).frame = [q.frame EXCEPT ![bp] = FreshPage]
      /\ FreeFrame(q, bp).hash = q.hash
  BY <1>1, FreeFrameLists
<1>3. \A id \in PageIds : q.hash[id] # NULL => q.hash[id] # bp /\ q.hash[id] \in Frames
  BY <1>1 DEF TableFinds
<1> QED
  BY <1>1, <1>2, <1>3 DEF Same, FrameOf

(* It can also be given to a page without touching another.                *)
LEMMA EnterSpareOthers ==
  ASSUME NEW q, NEW bp, HasSpare(q, bp), NEW fd \in Fds, NEW pg \in Pages,
         NEW page \in BufferPage, NEW r,
         r = WithFrame(PFhashInsert(q, fd, pg, bp), bp, page)
  PROVE  /\ r.hash[<<fd, pg>>] = bp /\ r.frame[bp] = page
         /\ \A id \in PageIds \ {<<fd, pg>>} : Same(q, r, id)
<1>1. /\ q \in Pool /\ bp \in ToSet(q.used) /\ bp \in Frames
      /\ TableFinds(q, ToSet(q.used) \ {bp})
      /\ q.frame \in [Frames -> BufferPage]
      /\ q.hash \in [PageIds -> Frames \cup {NULL}] /\ <<fd, pg>> \in PageIds
  BY PoolFields DEF HasSpare, PageIds
<1>2. /\ r.frame = [q.frame EXCEPT ![bp] = page]
      /\ r.hash = [q.hash EXCEPT ![<<fd, pg>>] = bp]
  BY <1>1 DEF WithFrame, PFhashInsert, Pool
<1>3. \A id \in PageIds : q.hash[id] # NULL => q.hash[id] # bp /\ q.hash[id] \in Frames
  BY <1>1 DEF TableFinds
<1> QED
  BY <1>1, <1>2, <1>3 DEF Same, FrameOf

-----------------------------------------------------------------------------
(***************************************************************************)
(* The operations pf.c calls.                                              *)
(***************************************************************************)

(* All pages but id are carried, and id is in the frame t.bp.              *)
Places(p, d, t, u, id) ==
  /\ \A other \in OpenIds(u) \ {id} : Carried(p, d, t.pool, t.disk, u, other)
  /\ WritesDirty(p, d, t.disk, u)
  /\ t.pool.hash[id] = t.bp /\ t.bp # NULL

(* PFbufGet fixes the page: where it was, or read from its file, clean.    *)
GetsPage(p, d, t, u, id) ==
  /\ Places(p, d, t, u, id)
  /\ FrameOf(t.pool, id).fixed
  /\ IF p.hash[id] # NULL
     THEN /\ t.disk = d /\ t.bp = p.hash[id] /\ ~FrameOf(p, id).fixed
          /\ FrameOf(t.pool, id) = [FrameOf(p, id) EXCEPT !.fixed = TRUE]
     ELSE /\ ~FrameOf(t.pool, id).dirty
          /\ FrameOf(t.pool, id).fpage = Stored(t.disk, u, id)
          /\ \/ Stored(t.disk, u, id) = Stored(d, u, id)
             \/ Stored(d, u, id) = Absent

(* A frame given back after a failure: every page is carried.              *)
LEMMA GiveBackCarries ==
  ASSUME NEW p, NEW d, NEW u, NEW a, NEW e, CarriesAll(p, d, a.pool, a.disk, u),
         HasSpare(a.pool, a.bp)
  PROVE  CarriesAll(p, d, GiveBack(a, e).pool, GiveBack(a, e).disk, u)
<1>1. \A id \in PageIds : Same(a.pool, FreeFrame(a.pool, a.bp), id)
  BY FreeSpareOthers
<1>2. GiveBack(a, e).pool = FreeFrame(a.pool, a.bp) /\ GiveBack(a, e).disk = a.disk
  BY DEF GiveBack, Outcome
<1> QED
  BY <1>1, <1>2, CarriedSame DEF CarriesAll, OpenIds

(* PFbufGet.                                                               *)
LEMMA GetCarries ==
  ASSUME NEW p, PoolOK(p), NEW d \in Disk, NEW u, Owned(p, u),
         NEW fd \in Fds, u[fd] \in Files, NEW pg \in Pages,
         NEW t \in PFbufGet(p, d, u, fd, pg)
  PROVE  IF t.err = "OK" THEN GetsPage(p, d, t, u, <<fd, pg>>)
         ELSE CarriesAll(p, d, t.pool, t.disk, u)
<1> DEFINE id == <<fd, pg>>
           bp == p.hash[id]
<1>1. /\ id \in OpenIds(u) /\ p.frame \in [Frames -> BufferPage]
      /\ p.hash \in [PageIds -> Frames \cup {NULL}] /\ p \in Pool
      /\ TableFinds(p, ToSet(p.used)) /\ u[id[1]] \in Files
  BY PoolFields DEF PoolOK, OpenIds, PageIds
<1>2. CASE bp # NULL
  <2>1. CASE t = Outcome("PAGEFIXED", p, d, bp)
    BY <2>1, CarriesStill DEF Outcome
  <2>2. CASE /\ ~p.frame[bp].fixed
             /\ t = Outcome("OK", [p EXCEPT !.frame[bp].fixed = TRUE], d, bp)
    <3> DEFINE q == [p EXCEPT !.frame[bp].fixed = TRUE]
    <3>1. /\ q.hash = p.hash /\ bp \in Frames /\ p.frame[bp] \in BufferPage
          /\ q.frame = [p.frame EXCEPT ![bp].fixed = TRUE]
      BY <1>1, <1>2 DEF Pool, OpenIds
    <3>2. t.pool = q /\ t.disk = d /\ t.bp = bp /\ t.err = "OK"
      BY <2>2 DEF Outcome
    <3> HIDE DEF q
    <3>3. q.frame[bp] = [p.frame[bp] EXCEPT !.fixed = TRUE] /\ q.frame[bp].fixed
      BY <3>1, <1>1 DEF BufferPage
    <3>4. \A other \in OpenIds(u) \ {id} : p.hash[other] # bp
      BY <1>1, <1>2 DEF TableFinds, OpenIds, PageIds
    <3>5. \A other \in OpenIds(u) \ {id} : Same(p, q, other)
      BY <3>1, <3>4, <1>1 DEF Same, FrameOf
    <3>6. Places(p, d, t, u, id)
      BY <3>1, <3>2, <3>5, <1>2 DEF Places, Carried, WritesDirty
    <3>7. /\ FrameOf(p, id) = p.frame[bp]
          /\ FrameOf(t.pool, id) = [FrameOf(p, id) EXCEPT !.fixed = TRUE]
          /\ FrameOf(t.pool, id).fixed
      BY <3>1, <3>2, <3>3 DEF FrameOf
    <3> HIDE DEF id
    <3>8. GetsPage(p, d, t, u, id)
      BY <2>2, <3>2, <3>6, <3>7, <1>2 DEF GetsPage
    <3> QED
      BY <3>2, <3>8 DEF id
  <2> QED
    BY <1>2, <2>1, <2>2 DEF PFbufGet, PFhashFind
<1>3. CASE bp = NULL
  <2>1. PICK a \in PFbufInternalAlloc(p, d, u) :
          t \in IF a.err # "OK" THEN {a} ELSE GetMiss(a, u, fd, pg)
    BY <1>3 DEF PFbufGet, PFhashFind
  <2>2. CarriesAll(p, d, a.pool, a.disk, u) /\ Allocated(p, a)
    BY <2>1, InternalAllocCarries, InternalAllocOK
  <2>3. CASE a.err # "OK"
    BY <2>1, <2>2, <2>3
  <2>4. CASE a.err = "OK" /\ \E e : e # "OK" /\ t = GiveBack(a, e)
    <3>1. PICK e : e # "OK" /\ t = GiveBack(a, e)
      BY <2>4
    <3>2. HasSpare(a.pool, a.bp)
      BY <2>2, <2>4 DEF Allocated
    <3>3. CarriesAll(p, d, GiveBack(a, e).pool, GiveBack(a, e).disk, u)
      BY <2>2, <3>2, GiveBackCarries
    <3>4. GiveBack(a, e).err = e
      BY DEF GiveBack, Outcome
    <3> QED
      BY <3>1, <3>3, <3>4
  <2>5. CASE /\ a.err = "OK" /\ a.disk[u[fd]][pg] # Absent
             /\ t = GetLoaded(a, u, fd, pg)
    <3> DEFINE page == [fd |-> fd, page |-> pg, fixed |-> TRUE, dirty |-> FALSE,
                        fpage |-> a.disk[u[fd]][pg]]
               r == WithFrame(PFhashInsert(a.pool, fd, pg, a.bp), a.bp, page)
    <3>1. a.disk \in Disk /\ HasSpare(a.pool, a.bp) /\ a.bp # NULL
      <4>1. a.disk \in Disk /\ HasSpare(a.pool, a.bp)
        BY <2>2, <2>5 DEF Allocated
      <4> QED
        BY <4>1, PoolFields, FreshPageType DEF HasSpare
    <3>2. /\ page \in BufferPage /\ page.fixed /\ ~page.dirty
          /\ page.fpage = Stored(a.disk, u, id)
      BY <3>1, <2>5 DEF BufferPage, Disk, Stored
    <3>3. t.disk = a.disk /\ t.pool = r /\ t.bp = a.bp /\ t.err = "OK"
      BY <2>5 DEF GetLoaded, Outcome, WithFrame
    <3> HIDE DEF page
    <3>4. /\ r.hash[id] = a.bp /\ r.frame[a.bp] = page
          /\ \A other \in PageIds \ {id} : Same(a.pool, r, other)
      BY <3>1, <3>2, EnterSpareOthers
    <3> HIDE DEF r
    <3>5. Places(p, d, t, u, id)
      BY <2>2, <3>1, <3>3, <3>4, CarriedSame DEF Places, CarriesAll, OpenIds
    <3>6. Carried(p, d, a.pool, a.disk, u, id)
      BY <2>2, <1>1 DEF CarriesAll
    <3>7. \/ Stored(a.disk, u, id) = Stored(d, u, id)
          \/ Stored(d, u, id) = Absent
      BY <3>6, <1>3 DEF Carried, Overwritten, Evicted
    <3> QED
      BY <3>2, <3>3, <3>4, <3>5, <3>7, <1>3 DEF GetsPage, FrameOf
  <2>6. CASE a.err = "OK"
    <3>1. PICK r \in PFreadfcn(a.disk, u, fd, pg) :
            t \in IF r # "OK" THEN {GiveBack(a, r)}
                  ELSE {GetLoaded(a, u, fd, pg)} \cup
                       {GiveBack(a, e) : e \in HashInsertErrors}
      BY <2>1, <2>6 DEF GetMiss
    <3>2. CASE r # "OK"
      BY <2>4, <2>6, <3>1, <3>2
    <3>3. CASE r = "OK"
      <4>1. a.disk[u[fd]][pg] # Absent
        BY <3>3 DEF PFreadfcn
      <4>2. \A e \in HashInsertErrors : e # "OK"
        BY DEF HashInsertErrors
      <4> QED
        BY <2>4, <2>5, <2>6, <3>1, <3>3, <4>1, <4>2
    <3> QED
      BY <3>2, <3>3
  <2> QED
    BY <2>3, <2>6
<1> QED
  BY <1>2, <1>3

(* A page with the number pg, not in the file fd yet.                      *)
NewPage(fd, pg) == [FreshPage EXCEPT !.fd = fd, !.page = pg, !.fixed = TRUE]

(* PFbufAlloc fixes a new page, whose data is what the frame held.         *)
LEMMA AllocCarries ==
  ASSUME NEW p, PoolOK(p), NEW d \in Disk, NEW u, Owned(p, u),
         NEW fd \in Fds, NEW pg \in Pages, NEW t \in PFbufAlloc(p, d, u, fd, pg)
  PROVE  IF t.err = "OK"
         THEN /\ Places(p, d, t, u, <<fd, pg>>) /\ p.hash[<<fd, pg>>] = NULL
              /\ FrameOf(t.pool, <<fd, pg>>) = NewPage(fd, pg)
         ELSE CarriesAll(p, d, t.pool, t.disk, u)
<1> DEFINE id == <<fd, pg>>
<1>1. CASE p.hash[id] # NULL
  <2>1. t = Outcome("PAGEINBUF", p, d, NULL)
    BY <1>1 DEF PFbufAlloc, PFhashFind
  <2> QED
    BY <2>1, CarriesStill DEF Outcome
<1>2. CASE p.hash[id] = NULL
  <2>1. PICK a \in PFbufInternalAlloc(p, d, u) :
          t \in IF a.err # "OK" THEN {a}
                ELSE {AllocEntered(a, fd, pg)} \cup
                     {GiveBack(a, e) : e \in HashInsertErrors}
    BY <1>2 DEF PFbufAlloc, PFhashFind
  <2>2. CarriesAll(p, d, a.pool, a.disk, u) /\ Allocated(p, a)
    BY <2>1, InternalAllocCarries, InternalAllocOK
  <2>3. CASE a.err # "OK"
    BY <2>1, <2>2, <2>3
  <2>4. CASE a.err = "OK" /\ \E e \in HashInsertErrors : t = GiveBack(a, e)
    <3>1. PICK e \in HashInsertErrors : t = GiveBack(a, e)
      BY <2>4
    <3>2. HasSpare(a.pool, a.bp)
      BY <2>2, <2>4 DEF Allocated
    <3>3. CarriesAll(p, d, GiveBack(a, e).pool, GiveBack(a, e).disk, u)
      BY <2>2, <3>2, GiveBackCarries
    <3>4. GiveBack(a, e).err = e /\ e # "OK"
      BY DEF GiveBack, Outcome, HashInsertErrors
    <3> QED
      BY <3>1, <3>3, <3>4
  <2>5. CASE a.err = "OK" /\ t = AllocEntered(a, fd, pg)
    <3> DEFINE page == [FreshPage EXCEPT !.fd = fd, !.page = pg, !.fixed = TRUE]
               r == WithFrame(PFhashInsert(a.pool, fd, pg, a.bp), a.bp, page)
    <3>1. a.disk \in Disk /\ HasSpare(a.pool, a.bp) /\ a.bp # NULL
      <4>1. a.disk \in Disk /\ HasSpare(a.pool, a.bp)
        BY <2>2, <2>5 DEF Allocated
      <4> QED
        BY <4>1, PoolFields, FreshPageType DEF HasSpare
    <3>2. page \in BufferPage
      BY FreshPageType DEF BufferPage
    <3>3. t.disk = a.disk /\ t.pool = r /\ t.bp = a.bp /\ t.err = "OK"
      BY <2>5 DEF AllocEntered, Outcome, WithFrame
    <3> HIDE DEF page
    <3>4. /\ r.hash[id] = a.bp /\ r.frame[a.bp] = page
          /\ \A other \in PageIds \ {id} : Same(a.pool, r, other)
      BY <3>1, <3>2, EnterSpareOthers
    <3> HIDE DEF r
    <3>5. Places(p, d, t, u, id)
      BY <2>2, <3>1, <3>3, <3>4, CarriedSame DEF Places, CarriesAll, OpenIds
    <3>6. FrameOf(t.pool, id) = page
      BY <3>3, <3>4 DEF FrameOf
    <3> QED
      BY <3>3, <3>5, <3>6, <1>2 DEF page, NewPage
  <2> QED
    BY <2>1, <2>3, <2>4, <2>5
<1> QED
  BY <1>1, <1>2

(* The frame of the page id becomes b, and nothing else changes.           *)
Changed(p, q, id, b) ==
  /\ q.hash = p.hash /\ p.hash[id] # NULL /\ FrameOf(q, id) = b
  /\ \A other \in PageIds \ {id} : Same(p, q, other)

(* Setting the frame of a page.                                            *)
LEMMA SetChanges ==
  ASSUME NEW p, PoolOK(p), NEW id \in PageIds, p.hash[id] # NULL,
         NEW b \in BufferPage
  PROVE  Changed(p, WithFrame(p, p.hash[id], b), id, b)
<1> DEFINE bp == p.hash[id]
           q == WithFrame(p, bp, b)
<1>1. /\ p \in Pool /\ TableFinds(p, ToSet(p.used)) /\ bp \in Frames
      /\ p.hash \in [PageIds -> Frames \cup {NULL}]
      /\ p.frame \in [Frames -> BufferPage]
  BY PoolFields DEF PoolOK
<1>2. q.hash = p.hash /\ q.frame = [p.frame EXCEPT ![bp] = b]
  BY <1>1 DEF WithFrame, Pool
<1> HIDE DEF q
<1>3. \A other \in PageIds \ {id} : p.hash[other] # bp
  BY <1>1 DEF TableFinds, PageIds
<1> QED
  BY <1>1, <1>2, <1>3 DEF Changed, Same, FrameOf, q

Unfixed(b, dirty) == [b EXCEPT !.dirty = b.dirty \/ dirty, !.fixed = FALSE]
Dirtied(b) == [b EXCEPT !.dirty = TRUE]

(* PFbufUnfix changes the flags of one page.                               *)
LEMMA UnfixChanges ==
  ASSUME NEW p, PoolOK(p), NEW d \in Disk, NEW fd \in Fds, NEW pg \in Pages,
         NEW dirty \in BOOLEAN, NEW t, t = PFbufUnfix(p, d, fd, pg, dirty)
  PROVE  /\ t.disk = d
         /\ t.err = "OK" =>
              Changed(p, t.pool, <<fd, pg>>, Unfixed(FrameOf(p, <<fd, pg>>), dirty))
         /\ t.err # "OK" => t.pool = p
<1> DEFINE id == <<fd, pg>>
           bp == p.hash[id]
<1>1. CASE bp # NULL /\ p.frame[bp].fixed
  <2> DEFINE b == Unfixed(p.frame[bp], dirty)
             q == WithFrame(p, bp, b)
  <2>1. /\ p.frame \in [Frames -> BufferPage] /\ bp \in ToSet(p.used) /\ bp \in Frames
        /\ id \in PageIds
    BY <1>1, PoolFields DEF PoolOK, TableFinds, PageIds
  <2>2. /\ b \in BufferPage /\ b.fd = p.frame[bp].fd /\ b.page = p.frame[bp].page
    BY <2>1 DEF BufferPage, Unfixed
  <2>3. t.pool = MoveToHead(q, bp) /\ t.disk = d
    BY <1>1 DEF PFbufUnfix, WithFrame, PFhashFind, Outcome, Unfixed
  <2>4. FrameSet(p, q, bp, b) /\ Changed(p, q, id, b)
    BY <2>1, <2>2, <1>1, SetFrame, SetChanges
  <2> HIDE DEF b, q
  <2>5. t.pool.frame = q.frame /\ t.pool.hash = q.hash
    BY <2>1, <2>3, <2>4, MoveToHeadLists DEF FrameSet, PoolOK
  <2>6. Changed(p, t.pool, id, b)
    BY <2>4, <2>5 DEF Changed, Same, FrameOf
  <2>7. t.err = "OK"
    BY <1>1 DEF PFbufUnfix, PFhashFind, Outcome
  <2> QED
    BY <2>3, <2>6, <2>7 DEF b, FrameOf
<1>2. CASE bp = NULL \/ ~p.frame[bp].fixed
  BY <1>2 DEF PFbufUnfix, PFhashFind, Outcome
<1> QED
  BY <1>1, <1>2

(* PFbufUsed marks it dirty.                                               *)
LEMMA UsedChanges ==
  ASSUME NEW p, PoolOK(p), NEW d \in Disk, NEW fd \in Fds, NEW pg \in Pages,
         NEW t, t = PFbufUsed(p, d, fd, pg)
  PROVE  /\ t.disk = d
         /\ t.err = "OK" =>
              Changed(p, t.pool, <<fd, pg>>, Dirtied(FrameOf(p, <<fd, pg>>)))
         /\ t.err # "OK" => t.pool = p
<1> DEFINE id == <<fd, pg>>
           bp == p.hash[id]
<1>1. CASE bp # NULL /\ p.frame[bp].fixed
  <2> DEFINE b == Dirtied(p.frame[bp])
             q == WithFrame(p, bp, b)
  <2>1. /\ p.frame \in [Frames -> BufferPage] /\ bp \in ToSet(p.used) /\ bp \in Frames
        /\ id \in PageIds
    BY <1>1, PoolFields DEF PoolOK, TableFinds, PageIds
  <2>2. /\ b \in BufferPage /\ b.fd = p.frame[bp].fd /\ b.page = p.frame[bp].page
    BY <2>1 DEF BufferPage, Dirtied
  <2>3. t.pool = MoveToHead(q, bp) /\ t.disk = d
    BY <1>1 DEF PFbufUsed, WithFrame, PFhashFind, Outcome, Dirtied
  <2>4. FrameSet(p, q, bp, b) /\ Changed(p, q, id, b)
    BY <2>1, <2>2, <1>1, SetFrame, SetChanges
  <2> HIDE DEF b, q
  <2>5. t.pool.frame = q.frame /\ t.pool.hash = q.hash
    BY <2>1, <2>3, <2>4, MoveToHeadLists DEF FrameSet, PoolOK
  <2>6. Changed(p, t.pool, id, b)
    BY <2>4, <2>5 DEF Changed, Same, FrameOf
  <2>7. t.err = "OK"
    BY <1>1 DEF PFbufUsed, PFhashFind, Outcome
  <2> QED
    BY <2>3, <2>6, <2>7 DEF b, FrameOf
<1>2. CASE bp = NULL \/ ~p.frame[bp].fixed
  BY <1>2 DEF PFbufUsed, PFhashFind, Outcome
<1> QED
  BY <1>1, <1>2

(* An iteration of PFbufReleaseFile carries every page: the frame it       *)
(* releases is evicted.                                                    *)
LEMMA ReleaseCarries ==
  ASSUME NEW p, PoolOK(p), NEW d \in Disk, NEW u, Owned(p, u), NEW fd \in Fds,
         NEW bp \in ToSet(p.used), NEW t \in ReleaseFrame(p, d, u, fd, bp)
  PROVE  CarriesAll(p, d, t.pool, t.disk, u)
<1> DEFINE b == p.frame[bp]
           id == <<b.fd, b.page>>
           q == WithoutPage(p, bp)
<1>1. CASE b.fd # fd \/ b.fixed
  <2>1. t.pool = p /\ t.disk = d
    BY <1>1 DEF ReleaseFrame, Outcome
  <2> QED
    BY <2>1, CarriesStill
<1>2. CASE b.fd = fd /\ ~b.fixed
  <2>1. PFhashFind(p, fd, b.page) # NULL
    <3>1. TableFinds(p, ToSet(p.used)) /\ bp \in Frames
      BY PoolFields DEF PoolOK
    <3> QED
      BY <3>1, <1>2, FreshPageType DEF TableFinds
  <2>2. PICK w \in WriteIfDirty(d, u, b.fd, b) :
          t = IF w.err # "OK" THEN Outcome(w.err, p, w.disk, bp)
              ELSE Outcome("OK", FreeFrame(q, bp), w.disk, bp)
    BY <1>2, <2>1 DEF ReleaseFrame, WithoutPage
  <2>3. /\ id \in OpenIds(u) /\ p.hash[id] = bp /\ bp # NULL
        /\ \A other \in OpenIds(u) \ {id} :
             \/ Stored(w.disk, u, other) = Stored(d, u, other)
             \/ Overwritten(p, d, w.disk, u, other)
        /\ WritesDirty(p, d, w.disk, u)
        /\ IF w.err = "OK"
           THEN Stored(w.disk, u, id) = IF b.dirty THEN b.fpage ELSE Stored(d, u, id)
           ELSE \/ Stored(w.disk, u, id) = Stored(d, u, id)
                \/ Overwritten(p, d, w.disk, u, id)
    BY WrittenBack
  <2>4. CASE w.err # "OK"
    <3>1. t.pool = p /\ t.disk = w.disk
      BY <2>2, <2>4 DEF Outcome
    <3> QED
      BY <3>1, <2>3, <2>4 DEF CarriesAll, Carried, Same
  <2>5. CASE w.err = "OK"
    <3>1. t.pool = FreeFrame(q, bp) /\ t.disk = w.disk
      BY <2>2, <2>5 DEF Outcome
    <3>2. q.hash[id] = NULL /\ \A other \in PageIds \ {id} : Same(p, q, other)
      BY WithoutPageOthers
    <3>3. HasSpare(q, bp)
      BY WithoutPageSpare
    <3> HIDE DEF q
    <3>4. \A other \in PageIds : Same(q, t.pool, other)
      BY <3>1, <3>3, FreeSpareOthers
    <3> HIDE DEF id
    <3>5. t.pool.hash[id] = NULL /\ \A other \in OpenIds(u) \ {id} : Same(p, t.pool, other)
      BY <2>3, <3>2, <3>4 DEF Same, FrameOf, OpenIds
    <3>6. Evicted(p, d, t.pool, t.disk, u, id)
      BY <3>1, <3>5, <2>3, <2>5, <1>2 DEF Evicted, FrameOf
    <3> QED
      BY <3>1, <3>5, <3>6, <2>3 DEF CarriesAll, Carried
  <2> QED
    BY <2>4, <2>5
<1> QED
  BY <1>1, <1>2

=============================================================================
