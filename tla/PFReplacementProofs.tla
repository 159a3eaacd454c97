------------------------- MODULE PFReplacementProofs -------------------------
(***************************************************************************)
(* The page that loses its frame is the one the strategy asks for, for     *)
(* every number of files, descriptors, pages and frames, and whatever      *)
(* calls fail.                                                             *)
(*                                                                         *)
(* The used list is not in the order of the pages' last uses: a page that  *)
(* PFbufGet finds stays where it is until it is unfixed.  But of the pages *)
(* that can be evicted, the one used later is ahead (OrderKnown), and only *)
(* these matter.  That is the inductive invariant: RecentOf reads `recent' *)
(* off the list.  A call uses one page: the others keep their order        *)
(* (KeepsOrder), and the page is then at the head of the list, or cannot   *)
(* be evicted (AtHead).  A page that loses its frame is the one the order  *)
(* of the list asks for (TakesVictim).                                     *)
(***************************************************************************)
EXTENDS PFReplacement, PFFileProofs

-----------------------------------------------------------------------------
(***************************************************************************)
(* The order of the frames in a list.                                      *)
(***************************************************************************)
Ahead(list, x, y) ==
  \E i, j \in DOMAIN list : i < j /\ list[i] = x /\ list[j] = y

(* PFbufUnlink leaves the other frames in their order.                     *)
LEMMA UnlinkAhead ==
  ASSUME NEW S, NEW list \in Seq(S), IsInjective(list), NEW bp \in ToSet(list),
         NEW x, NEW y, x # bp, y # bp
  PROVE  Ahead(Unlink(list, bp), x, y) <=> Ahead(list, x, y)
<1>1. PICK k \in DOMAIN list : list[k] = bp
  BY DEF ToSet
<1> DEFINE rest == Unlink(list, bp)
<1>2. /\ rest \in Seq(S)
      /\ Len(rest) = Len(list) - 1
      /\ \A i \in 1 .. Len(list) - 1 : rest[i] = IF i < k THEN list[i] ELSE list[i + 1]
  BY <1>1, UnlinkAt
<1> HIDE DEF rest
<1>3. /\ DOMAIN rest = 1 .. Len(list) - 1 /\ DOMAIN list = 1 .. Len(list)
      /\ Len(list) \in Nat /\ k \in 1 .. Len(list)
  BY <1>1, <1>2
<1>4. ASSUME Ahead(rest, x, y)
      PROVE  Ahead(list, x, y)
  <2>1. PICK i \in DOMAIN rest, j \in DOMAIN rest : i < j /\ rest[i] = x /\ rest[j] = y
    BY <1>4 DEF Ahead
  <2> DEFINE old(m) == IF m < k THEN m ELSE m + 1
  <2>2. \A m \in DOMAIN rest : old(m) \in DOMAIN list /\ list[old(m)] = rest[m]
    BY <1>2, <1>3
  <2>3. old(i) < old(j)
    BY <2>1, <1>3
  <2> HIDE DEF old
  <2> QED
    BY <2>1, <2>2, <2>3 DEF Ahead
<1>5. ASSUME Ahead(list, x, y)
      PROVE  Ahead(rest, x, y)
  <2>1. PICK i \in DOMAIN list, j \in DOMAIN list : i < j /\ list[i] = x /\ list[j] = y
    BY <1>5 DEF Ahead
  <2> DEFINE new(m) == IF m < k THEN m ELSE m - 1
  <2>2. \A m \in DOMAIN list : m # k => new(m) \in DOMAIN rest /\ rest[new(m)] = list[m]
    BY <1>2, <1>3
  <2>3. i # k /\ j # k
    BY <2>1, <1>1
  <2>4. new(i) < new(j)
    BY <2>1, <2>3, <1>3
  <2> HIDE DEF new
  <2> QED
    BY <2>1, <2>2, <2>3, <2>4 DEF Ahead
<1> QED
  BY <1>4, <1>5 DEF rest

(* PFbufLinkHead puts a frame ahead of the others, and leaves these in     *)
(* their order.                                                            *)
LEMMA LinkHeadAhead ==
  ASSUME NEW S, NEW list \in Seq(S), NEW bp \in S, bp \notin ToSet(list)
  PROVE  /\ \A x, y : x # bp /\ y # bp =>
              (Ahead(LinkHead(list, bp), x, y) <=> Ahead(list, x, y))
         /\ \A x \in ToSet(list) : Ahead(LinkHead(list, bp), bp, x)
         /\ \A x : ~Ahead(LinkHead(list, bp), x, bp)
<1> DEFINE new == LinkHead(list, bp)
<1>1. /\ new \in Seq(S)
      /\ Len(new) = Len(list) + 1
      /\ \A i \in 1 .. Len(list) + 1 : new[i] = IF i = 1 THEN bp ELSE list[i - 1]
  BY DEF LinkHead
<1> HIDE DEF new
<1>2. DOMAIN new = 1 .. Len(list) + 1 /\ DOMAIN list = 1 .. Len(list) /\ Len(list) \in Nat
  BY <1>1
<1>3. \A m \in DOMAIN list : list[m] # bp
  BY DEF ToSet
<1>4. \A m \in DOMAIN list : m + 1 \in DOMAIN new /\ new[m + 1] = list[m]
  BY <1>1, <1>2
<1>5. /\ 1 \in DOMAIN new /\ new[1] = bp
      /\ \A m \in DOMAIN new : m # 1 => m - 1 \in DOMAIN list /\ new[m] = list[m - 1]
  BY <1>1, <1>2
<1>6. \A m \in DOMAIN new : new[m] = bp => m = 1
  BY <1>3, <1>5
<1>7. ASSUME NEW x, NEW y, x # bp, y # bp
      PROVE  Ahead(new, x, y) <=> Ahead(list, x, y)
  <2>1. ASSUME Ahead(new, x, y)
        PROVE  Ahead(list, x, y)
    <3>1. PICK i \in DOMAIN new, j \in DOMAIN new : i < j /\ new[i] = x /\ new[j] = y
      BY <2>1 DEF Ahead
    <3>2. i - 1 \in DOMAIN list /\ list[i - 1] = x /\ j - 1 \in DOMAIN list /\ list[j - 1] = y
      BY <3>1, <1>5, <1>7
    <3>3. i - 1 < j - 1
      BY <3>1, <1>2
    <3> QED
      BY <3>2, <3>3 DEF Ahead
  <2>2. ASSUME Ahead(list, x, y)
        PROVE  Ahead(new, x, y)
    <3>1. PICK i \in DOMAIN list, j \in DOMAIN list : i < j /\ list[i] = x /\ list[j] = y
      BY <2>2 DEF Ahead
    <3>2. i + 1 < j + 1
      BY <3>1, <1>2
    <3> QED
      BY <3>1, <3>2, <1>4 DEF Ahead
  <2> QED
    BY <2>1, <2>2
<1>8. ASSUME NEW x \in ToSet(list)
      PROVE  Ahead(new, bp, x)
  <2>1. PICK m \in DOMAIN list : list[m] = x
    BY DEF ToSet
  <2>2. 1 < m + 1
    BY <1>2
  <2> QED
    BY <2>1, <2>2, <1>4, <1>5 DEF Ahead
<1>9. ASSUME NEW x, Ahead(new, x, bp)
      PROVE  FALSE
  <2>1. PICK i \in DOMAIN new, j \in DOMAIN new : i < j /\ new[j] = bp
    BY <1>9 DEF Ahead
  <2>2. j = 1
    BY <2>1, <1>6
  <2> QED
    BY <2>1, <2>2, <1>2
<1> QED
  BY <1>7, <1>8, <1>9 DEF new

(* Both: a used frame moves to the head.                                   *)
LEMMA MoveAhead ==
  ASSUME NEW p \in Pool, ListsPartitionFrames(p), NEW bp \in ToSet(p.used)
  PROVE  /\ \A x, y : x # bp /\ y # bp =>
              (Ahead(MoveToHead(p, bp).used, x, y) <=> Ahead(p.used, x, y))
         /\ \A x \in ToSet(p.used) \ {bp} : Ahead(MoveToHead(p, bp).used, bp, x)
         /\ \A x : ~Ahead(MoveToHead(p, bp).used, x, bp)
<1> DEFINE rest == Unlink(p.used, bp)
<1>1. p.used \in Seq(Frames) /\ IsInjective(p.used) /\ bp \in Frames
  BY PoolFields DEF ListsPartitionFrames
<1>2. rest \in Seq(Frames) /\ IsInjective(rest) /\ ToSet(rest) = ToSet(p.used) \ {bp}
  BY <1>1, UnlinkSet
<1>3. \A x, y : x # bp /\ y # bp => (Ahead(rest, x, y) <=> Ahead(p.used, x, y))
  BY <1>1, UnlinkAhead
<1>4. MoveToHead(p, bp).used = LinkHead(rest, bp)
  BY DEF MoveToHead, Pool
<1> HIDE DEF rest
<1>5. /\ \A x, y : x # bp /\ y # bp =>
           (Ahead(LinkHead(rest, bp), x, y) <=> Ahead(rest, x, y))
      /\ \A x \in ToSet(rest) : Ahead(LinkHead(rest, bp), bp, x)
      /\ \A x : ~Ahead(LinkHead(rest, bp), x, bp)
  BY <1>1, <1>2, LinkHeadAhead
<1> QED
  BY <1>2, <1>3, <1>4, <1>5

-----------------------------------------------------------------------------
(***************************************************************************)
(* What an operation of the buffer manager does to the order of the pages  *)
(* that can be evicted.                                                    *)
(***************************************************************************)
CanEvict(p) == {id \in PageIds : p.hash[id] # NULL /\ ~p.frame[p.hash[id]].fixed}

(* The page a was used after b, if the used list is right.                 *)
Later(p, a, b) == Ahead(p.used, p.hash[a], p.hash[b])

(* Of the pages not in S, no other can be evicted, and their order is the  *)
(* same.                                                                   *)
KeepsOrder(p, q, S) ==
  \A a, b \in CanEvict(q) \ S :
    a \in CanEvict(p) /\ b \in CanEvict(p) /\ (Later(q, a, b) <=> Later(p, a, b))

(* The page id is at the head, or cannot be evicted.                       *)
AtHead(q, id) ==
  id \in CanEvict(q) =>
    \A other \in CanEvict(q) :
      /\ ~Later(q, other, id)
      /\ other # id => Later(q, id, other)

(* A page that lost its frame was the one used longest ago, or last.       *)
TakesVictim(p, q) ==
  \A id \in CanEvict(p) : q.hash[id] = NULL =>
    \A other \in CanEvict(p) \ {id} :
      IF p.strategy = "LRU" THEN Later(p, other, id) ELSE Later(p, id, other)

(* Pages stay where they are, or leave the buffer, and frames stay in      *)
(* their order.                                                            *)
LEMMA KeepsBy ==
  ASSUME NEW p, NEW q, NEW S,
         \A id \in PageIds \ S : q.hash[id] = NULL \/ Same(p, q, id),
         \A a, b \in PageIds \ S : q.hash[a] # NULL /\ q.hash[b] # NULL =>
           (Ahead(q.used, q.hash[a], q.hash[b]) <=> Ahead(p.used, q.hash[a], q.hash[b]))
  PROVE  KeepsOrder(p, q, S)
<1> SUFFICES ASSUME NEW a \in CanEvict(q) \ S, NEW b \in CanEvict(q) \ S
             PROVE  a \in CanEvict(p) /\ b \in CanEvict(p)
                    /\ (Later(q, a, b) <=> Later(p, a, b))
  BY DEF KeepsOrder
<1>1. /\ a \in PageIds \ S /\ q.hash[a] # NULL /\ ~q.frame[q.hash[a]].fixed
      /\ b \in PageIds \ S /\ q.hash[b] # NULL /\ ~q.frame[q.hash[b]].fixed
  BY DEF CanEvict
<1>2. Same(p, q, a) /\ Same(p, q, b)
  BY <1>1
<1>3. /\ p.hash[a] = q.hash[a] /\ p.frame[p.hash[a]] = q.frame[q.hash[a]]
      /\ p.hash[b] = q.hash[b] /\ p.frame[p.hash[b]] = q.frame[q.hash[b]]
  BY <1>1, <1>2 DEF Same, FrameOf
<1>4. Later(q, a, b) <=> Later(p, a, b)
  BY <1>1, <1>3 DEF Later
<1> QED
  BY <1>1, <1>3, <1>4 DEF CanEvict

(* Two operations on the same page, one after the other.                   *)
LEMMA KeepsTrans ==
  ASSUME NEW p, NEW q, NEW r, NEW S, KeepsOrder(p, q, S), KeepsOrder(q, r, S)
  PROVE  KeepsOrder(p, r, S)
BY DEF KeepsOrder

(* If pages and frames stay, so does the order.                            *)
LEMMA KeepsSelf ==
  ASSUME NEW p, NEW q, q.used = p.used, q.hash = p.hash,
         \A id \in PageIds : p.hash[id] # NULL =>
           (q.frame[p.hash[id]].fixed <=> p.frame[p.hash[id]].fixed)
  PROVE  KeepsOrder(p, q, {}) /\ CanEvict(q) = CanEvict(p) /\ TakesVictim(p, q)
BY DEF KeepsOrder, CanEvict, Later, TakesVictim

LEMMA KeepsMore ==
  ASSUME NEW p, NEW q, KeepsOrder(p, q, {}), NEW S
  PROVE  KeepsOrder(p, q, S)
BY DEF KeepsOrder

(* A page that is gone after the second operation was gone after the first.*)
LEMMA TakesMore ==
  ASSUME NEW p, NEW q, NEW r, TakesVictim(p, q),
         \A id \in PageIds : r.hash[id] = NULL => q.hash[id] = NULL
  PROVE  TakesVictim(p, r)
BY DEF TakesVictim, CanEvict

-----------------------------------------------------------------------------
(***************************************************************************)
(* PFbufInternalAlloc.                                                     *)
(***************************************************************************)

(* The scan for a victim stops at the first frame that is not fixed: every *)
(* other such frame is on the far side of it.                              *)
LEMMA VictimFirst ==
  ASSUME NEW p \in Pool, NEW v \in Victim(p), NEW w \in ToSet(p.used),
         w # v, ~p.frame[w].fixed
  PROVE  IF p.strategy = "LRU" THEN Ahead(p.used, w, v) ELSE Ahead(p.used, v, w)
<1>1. p.used \in Seq(Frames) /\ DOMAIN p.used = 1 .. Len(p.used) /\ Len(p.used) \in Nat
  BY PoolFields
<1>2. PICK j \in DOMAIN p.used :
        /\ p.used[j] = v
        /\ \A k \in DOMAIN p.used : ~p.frame[p.used[k]].fixed =>
             IF p.strategy = "LRU" THEN k <= j ELSE j <= k
  BY DEF Victim
<1>3. PICK k \in DOMAIN p.used : p.used[k] = w
  BY DEF ToSet
<1>4. k # j /\ IF p.strategy = "LRU" THEN k <= j ELSE j <= k
  BY <1>2, <1>3
<1>5. IF p.strategy = "LRU" THEN k < j ELSE j < k
  BY <1>1, <1>4
<1> QED
  BY <1>2, <1>3, <1>5 DEF Ahead

(* Pages are in frames of the used list, no two in one.                    *)
LEMMA PagesInFrames ==
  ASSUME NEW p, PoolOK(p)
  PROVE  /\ \A id \in PageIds : p.hash[id] # NULL =>
              p.hash[id] \in ToSet(p.used) /\ p.hash[id] \in Frames
         /\ \A a, b \in PageIds : p.hash[a] # NULL /\ p.hash[a] = p.hash[b] => a = b
<1>1. TableFinds(p, ToSet(p.used)) /\ ToSet(p.used) \subseteq Frames
  BY PoolFields DEF PoolOK
<1> QED
  BY <1>1 DEF TableFinds, PageIds

(* A frame that had no page becomes the head of the list.                  *)
LEMMA LinkedKeeps ==
  ASSUME NEW p, PoolOK(p), NEW bp \in Frames, bp \notin ToSet(p.used),
         NEW q, q.used = LinkHead(p.used, bp), q.hash = p.hash, q.frame = p.frame
  PROVE  KeepsOrder(p, q, {}) /\ TakesVictim(p, q)
<1>1. p.used \in Seq(Frames)
  BY PoolFields DEF PoolOK
<1>2. \A x, y : x # bp /\ y # bp => (Ahead(q.used, x, y) <=> Ahead(p.used, x, y))
  BY <1>1, LinkHeadAhead
<1>3. \A id \in PageIds : q.hash[id] # NULL => q.hash[id] # bp
  BY PagesInFrames
<1>4. \A id \in PageIds : Same(p, q, id)
  BY DEF Same, FrameOf
<1>5. KeepsOrder(p, q, {})
  BY <1>2, <1>3, <1>4, KeepsBy
<1> QED
  BY <1>5 DEF TakesVictim, CanEvict

(* An eviction: the victim's page goes, and its frame to the head.         *)
LEMMA EvictKeeps ==
  ASSUME NEW p, PoolOK(p), NEW d \in Disk, NEW u, NEW v \in Victim(p),
         NEW t \in Evict(p, d, u, v)
  PROVE  KeepsOrder(p, t.pool, {}) /\ TakesVictim(p, t.pool)
<1> DEFINE b == p.frame[v]
           id == <<b.fd, b.page>>
           q == WithoutPage(p, v)
           Taken == MoveToHead(q, v)
<1>1. v \in ToSet(p.used) /\ ~b.fixed
  BY DEF Victim, ToSet
<1>2. TableFinds(p, ToSet(p.used)) /\ v \in Frames /\ p \in Pool
  BY <1>1, PoolFields DEF PoolOK
<1>3. PFhashFind(p, b.fd, b.page) = v /\ v # NULL
  BY <1>1, <1>2, FreshPageType DEF TableFinds
<1>4. PICK w \in WriteIfDirty(d, u, b.fd, b) :
        t = IF w.err # "OK" THEN Outcome(w.err, p, w.disk, NULL)
            ELSE Outcome("OK", Taken, w.disk, v)
  BY <1>3 DEF Evict, WithoutPage
<1>5. CASE w.err # "OK"
  <2>1. t.pool = p
    BY <1>4, <1>5 DEF Outcome
  <2> QED
    BY <2>1, KeepsSelf
<1>6. CASE w.err = "OK"
  <2>1. t.pool = Taken
    BY <1>4, <1>6 DEF Outcome
  <2>2. HasSpare(q, v) /\ q.used = p.used
    BY <1>1, WithoutPageSpare
  <2>3. q.hash[id] = NULL /\ \A other \in PageIds \ {id} : Same(p, q, other)
    BY <1>1, WithoutPageOthers
  <2>4. p.hash[id] = v
    BY <1>3 DEF PFhashFind
  <2> HIDE DEF q, id
  <2>5. Taken.frame = q.frame /\ Taken.hash = q.hash
    BY <2>2, MoveToHeadLists DEF HasSpare
  <2>6. \A x, y : x # v /\ y # v => (Ahead(Taken.used, x, y) <=> Ahead(p.used, x, y))
    BY <2>2, MoveAhead DEF HasSpare
  <2> HIDE DEF Taken
  <2>7. \A other \in PageIds : q.hash[other] # NULL => q.hash[other] # v
    BY <2>2 DEF HasSpare, TableFinds
  <2>8. \A other \in PageIds : Taken.hash[other] = NULL \/ Same(p, Taken, other)
    BY <2>3, <2>5 DEF Same, FrameOf
  <2>9. KeepsOrder(p, Taken, {})
    BY <2>5, <2>6, <2>7, <2>8, KeepsBy
  <2>10. ASSUME NEW gone \in CanEvict(p), Taken.hash[gone] = NULL,
                NEW other \in CanEvict(p) \ {gone}
         PROVE  IF p.strategy = "LRU" THEN Later(p, other, gone)
                ELSE Later(p, gone, other)
    <3>1. /\ gone \in PageIds /\ p.hash[gone] # NULL
          /\ other \in PageIds /\ p.hash[other] # NULL /\ ~p.frame[p.hash[other]].fixed
      BY <2>10 DEF CanEvict
    <3>2. gone = id
      BY <3>1, <2>3, <2>5, <2>10 DEF Same
    <3>3. p.hash[other] \in ToSet(p.used) /\ p.hash[other] # v
      BY <3>1, <3>2, <2>4, <2>10, PagesInFrames
    <3> QED
      BY <3>1, <3>2, <3>3, <2>4, <1>2, VictimFirst DEF Later
  <2>11. TakesVictim(p, Taken)
    BY <2>10 DEF TakesVictim
  <2> QED
    BY <2>1, <2>9, <2>11
<1> QED
  BY <1>5, <1>6

(* PFbufInternalAlloc, whichever way a frame is found.                     *)
LEMMA InternalAllocKeeps ==
  ASSUME NEW p, PoolOK(p), NEW d \in Disk, NEW u,
         NEW t \in PFbufInternalAlloc(p, d, u)
  PROVE  KeepsOrder(p, t.pool, {}) /\ TakesVictim(p, t.pool)
<1>1. /\ p \in Pool /\ p.used \in Seq(Frames) /\ p.free \in Seq(Frames)
      /\ p.numb \in 0 .. MaxFrames /\ p.max \in 0 .. MaxFrames
      /\ ToSet(p.used) \cap ToSet(p.free) = {}
      /\ ToSet(p.used) \cup ToSet(p.free) = 1 .. p.numb /\ IsInjective(p.free)
  BY PoolFields DEF PoolOK, ListsPartitionFrames
<1>2. CASE t \in AllocFromFree(p, d)
  <2> DEFINE bp == Head(p.free)
             rest == Tail(p.free)
             used == LinkHead(p.used, bp)
             q == [p EXCEPT !.free = rest, !.used = used]
  <2>1. p.free # <<>> /\ t = Outcome("OK", q, d, bp)
    BY <1>2 DEF AllocFromFree
  <2>2. bp \in Frames /\ bp \notin ToSet(p.used)
    BY <1>1, <2>1, TailSet
  <2>3. t.pool = q
    BY <2>1 DEF Outcome
  <2> HIDE DEF bp, rest, used
  <2>4. q.used = used /\ q.hash = p.hash /\ q.frame = p.frame
    BY <1>1 DEF Pool
  <2> HIDE DEF q
  <2> QED
    BY <2>2, <2>3, <2>4, LinkedKeeps DEF used
<1>3. CASE t \in AllocByMalloc(p, d)
  <2> DEFINE bp == p.numb + 1
             used == LinkHead(p.used, bp)
             q == [p EXCEPT !.numb = bp, !.used = used]
  <2>1. /\ ~(p.numb >= p.max)
        /\ t = Outcome("OK", q, d, bp) \/ t = Outcome("NOMEM", p, d, NULL)
    BY <1>3 DEF AllocByMalloc
  <2>2. bp \in Frames /\ bp \notin ToSet(p.used)
    BY <1>1, <2>1, SizesAssumption DEF Frames
  <2>3. t.pool = q \/ t.pool = p
    BY <2>1 DEF Outcome
  <2> HIDE DEF bp, used
  <2>4. q.used = used /\ q.hash = p.hash /\ q.frame = p.frame
    BY <1>1 DEF Pool
  <2> HIDE DEF q
  <2>5. CASE t.pool = q
    BY <2>2, <2>4, <2>5, LinkedKeeps DEF used
  <2>6. CASE t.pool = p
    BY <2>6, KeepsSelf
  <2> QED
    BY <2>3, <2>5, <2>6
<1>4. CASE t \in AllocByEviction(p, d, u)
  <2>1. CASE t = Outcome("NOBUF", p, d, NULL)
    <3>1. t.pool = p
      BY <2>1 DEF Outcome
    <3> QED
      BY <3>1, KeepsSelf
  <2>2. CASE \E v \in Victim(p) : t \in Evict(p, d, u, v)
    BY <2>2, EvictKeeps
  <2> QED
    BY <1>4, <2>1, <2>2 DEF AllocByEviction
<1> QED
  BY <1>2, <1>3, <1>4 DEF PFbufInternalAlloc


-----------------------------------------------------------------------------
(***************************************************************************)
(* The operations pf.c calls.                                              *)
(***************************************************************************)

(* A frame that is given back had no page.                                 *)
LEMMA FreeSpareKeeps ==
  ASSUME NEW q, NEW bp, HasSpare(q, bp)
  PROVE  KeepsOrder(q, FreeFrame(q, bp), {}) /\ FreeFrame(q, bp).hash = q.hash
<1> DEFINE r == FreeFrame(q, bp)
<1>1. /\ q \in Pool /\ ListsPartitionFrames(q) /\ bp \in ToSet(q.used)
      /\ q.used \in Seq(Frames) /\ IsInjective(q.used)
  BY PoolFields DEF HasSpare, ListsPartitionFrames
<1>2. r.used = Unlink(q.used, bp) /\ r.hash = q.hash
  BY <1>1, FreeFrameLists
<1>3. \A id \in PageIds : Same(q, r, id)
  BY FreeSpareOthers
<1> HIDE DEF r
<1>4. \A x, y : x # bp /\ y # bp => (Ahead(r.used, x, y) <=> Ahead(q.used, x, y))
  BY <1>1, <1>2, UnlinkAhead
<1>5. \A id \in PageIds : r.hash[id] # NULL => r.hash[id] # bp
  BY <1>2 DEF HasSpare, TableFinds
<1>6. KeepsOrder(q, r, {})
  BY <1>3, <1>4, <1>5, KeepsBy
<1> QED
  BY <1>2, <1>6 DEF r

(* A frame that is given to a page which is fixed.                         *)
LEMMA EnterSpareKeeps ==
  ASSUME NEW q, NEW bp, HasSpare(q, bp), NEW fd \in Fds, NEW pg \in Pages,
         NEW page \in BufferPage, page.fixed, NEW r,
         r = WithFrame(PFhashInsert(q, fd, pg, bp), bp, page)
  PROVE  /\ KeepsOrder(q, r, {<<fd, pg>>}) /\ <<fd, pg>> \notin CanEvict(r)
         /\ \A id \in PageIds : r.hash[id] = NULL => q.hash[id] = NULL
<1> DEFINE id == <<fd, pg>>
<1>1. bp \in Frames /\ q \in Pool
  BY PoolFields DEF HasSpare
<1>2. /\ r.hash[id] = bp /\ r.frame[bp] = page
      /\ \A other \in PageIds \ {id} : Same(q, r, other)
  BY EnterSpareOthers
<1>3. r.used = q.used
  BY <1>1 DEF WithFrame, PFhashInsert, Pool
<1> HIDE DEF id
<1>4. KeepsOrder(q, r, {id})
  BY <1>2, <1>3, KeepsBy
<1>5. id \notin CanEvict(r)
  BY <1>2 DEF CanEvict
<1>6. \A other \in PageIds : r.hash[other] = NULL => q.hash[other] = NULL
  BY <1>1, <1>2, FreshPageType DEF Same
<1> QED
  BY <1>4, <1>5, <1>6 DEF id

(* What PFbufGet and PFbufAlloc do: at most one frame is taken from its    *)
(* page, the right one, and the page id cannot be evicted now.             *)
Fetches(p, q, id) ==
  KeepsOrder(p, q, {id}) /\ TakesVictim(p, q) /\ id \notin CanEvict(q)

(* After PFbufInternalAlloc, a failure.                                    *)
LEMMA GiveBackFetches ==
  ASSUME NEW p, PoolOK(p), NEW d \in Disk, NEW u,
         NEW a \in PFbufInternalAlloc(p, d, u), a.err = "OK",
         NEW id \in PageIds, p.hash[id] = NULL, NEW e
  PROVE  Fetches(p, GiveBack(a, e).pool, id)
<1>1. HasSpare(a.pool, a.bp) /\ EntersNothing(p, a.pool)
  BY InternalAllocOK DEF Allocated
<1>2. GiveBack(a, e).pool = FreeFrame(a.pool, a.bp)
  BY DEF GiveBack, Outcome
<1> DEFINE r == FreeFrame(a.pool, a.bp)
<1>3. KeepsOrder(p, a.pool, {}) /\ TakesVictim(p, a.pool)
  BY InternalAllocKeeps
<1>4. KeepsOrder(a.pool, r, {}) /\ r.hash = a.pool.hash
  BY <1>1, FreeSpareKeeps
<1> HIDE DEF r
<1>5. KeepsOrder(p, r, {id})
  BY <1>3, <1>4, KeepsTrans, KeepsMore
<1>6. TakesVictim(p, r)
  BY <1>3, <1>4, TakesMore
<1>7. id \notin CanEvict(r)
  BY <1>1, <1>4 DEF EntersNothing, CanEvict
<1> QED
  BY <1>2, <1>5, <1>6, <1>7 DEF Fetches, r

(* After it, the page put into the frame.                                  *)
LEMMA EnterFetches ==
  ASSUME NEW p, PoolOK(p), NEW d \in Disk, NEW u,
         NEW a \in PFbufInternalAlloc(p, d, u), a.err = "OK",
         NEW fd \in Fds, NEW pg \in Pages, NEW page \in BufferPage, page.fixed,
         NEW r, r = WithFrame(PFhashInsert(a.pool, fd, pg, a.bp), a.bp, page)
  PROVE  Fetches(p, r, <<fd, pg>>)
<1> DEFINE id == <<fd, pg>>
<1>1. HasSpare(a.pool, a.bp)
  BY InternalAllocOK DEF Allocated
<1>2. KeepsOrder(p, a.pool, {}) /\ TakesVictim(p, a.pool)
  BY InternalAllocKeeps
<1>3. /\ KeepsOrder(a.pool, r, {id}) /\ id \notin CanEvict(r)
      /\ \A other \in PageIds : r.hash[other] = NULL => a.pool.hash[other] = NULL
  BY <1>1, EnterSpareKeeps
<1> HIDE DEF id
<1>4. KeepsOrder(p, r, {id})
  BY <1>2, <1>3, KeepsTrans, KeepsMore
<1>5. TakesVictim(p, r)
  BY <1>2, <1>3, TakesMore
<1> QED
  BY <1>3, <1>4, <1>5 DEF Fetches, id

(* PFbufInternalAlloc has failed.                                          *)
LEMMA FailFetches ==
  ASSUME NEW p, PoolOK(p), NEW d \in Disk, NEW u,
         NEW a \in PFbufInternalAlloc(p, d, u),
         NEW id \in PageIds, p.hash[id] = NULL
  PROVE  a.err # "OK" => Fetches(p, a.pool, id)
<1>1. KeepsOrder(p, a.pool, {}) /\ TakesVictim(p, a.pool)
  BY InternalAllocKeeps
<1>2. a.err # "OK" => EntersNothing(p, a.pool)
  BY InternalAllocOK DEF Allocated
<1> QED
  BY <1>1, <1>2, KeepsMore DEF Fetches, EntersNothing, CanEvict

(* PFbufGet.  A page it finds stays where it is in the list.               *)
LEMMA GetFetches ==
  ASSUME NEW p, PoolOK(p), NEW d \in Disk, NEW u, NEW fd \in Fds, u[fd] \in Files,
         NEW pg \in Pages, NEW t \in PFbufGet(p, d, u, fd, pg)
  PROVE  Fetches(p, t.pool, <<fd, pg>>)
<1> DEFINE id == <<fd, pg>>
           bp == p.hash[id]
<1>1. /\ p \in Pool /\ id \in PageIds /\ p.frame \in [Frames -> BufferPage]
      /\ p.hash \in [PageIds -> Frames \cup {NULL}]
  BY PoolFields DEF PoolOK, PageIds
<1>2. CASE bp # NULL
  <2>1. CASE p.frame[bp].fixed
    <3>1. t = Outcome("PAGEFIXED", p, d, bp)
      BY <1>2, <2>1 DEF PFbufGet, PFhashFind
    <3>2. t.pool = p
      BY <3>1 DEF Outcome
    <3>3. id \notin CanEvict(p)
      BY <2>1 DEF CanEvict
    <3> QED
      BY <3>2, <3>3, KeepsSelf, KeepsMore DEF Fetches
  <2>2. CASE ~p.frame[bp].fixed
    <3> DEFINE q == [p EXCEPT !.frame[bp].fixed = TRUE]
    <3>1. t = Outcome("OK", q, d, bp)
      BY <1>2, <2>2 DEF PFbufGet, PFhashFind
    <3>2. t.pool = q
      BY <3>1 DEF Outcome
    <3>3. /\ q.used = p.used /\ q.hash = p.hash
          /\ q.frame = [p.frame EXCEPT ![bp].fixed = TRUE] /\ bp \in Frames
      BY <1>1, <1>2 DEF Pool
    <3> HIDE DEF q
    <3>4. q.frame[bp].fixed /\ \A other \in Frames \ {bp} : q.frame[other] = p.frame[other]
      BY <3>3, <1>1 DEF BufferPage
    <3>5. \A other \in PageIds \ {id} : p.hash[other] # NULL =>
            p.hash[other] \in Frames \ {bp}
      BY <1>1, <1>2, PagesInFrames
    <3> HIDE DEF id
    <3>6. \A other \in PageIds \ {id} : Same(p, q, other)
      BY <3>3, <3>4, <3>5 DEF Same, FrameOf
    <3>7. KeepsOrder(p, q, {id})
      BY <3>3, <3>6, KeepsBy
    <3>8. id \notin CanEvict(q)
      BY <3>3, <3>4 DEF CanEvict
    <3>9. TakesVictim(p, q)
      BY <3>3 DEF TakesVictim, CanEvict
    <3> QED
      BY <3>2, <3>7, <3>8, <3>9 DEF Fetches, id
  <2> QED
    BY <2>1, <2>2
<1>3. CASE bp = NULL
  <2>1. PICK a \in PFbufInternalAlloc(p, d, u) :
          t \in IF a.err # "OK" THEN {a} ELSE GetMiss(a, u, fd, pg)
    BY <1>3 DEF PFbufGet, PFhashFind
  <2>2. CASE a.err # "OK"
    BY <2>1, <2>2, <1>1, <1>3, FailFetches
  <2>3. CASE a.err = "OK" /\ \E e : t = GiveBack(a, e)
    BY <2>3, <1>1, <1>3, GiveBackFetches
  <2>4. CASE /\ a.err = "OK" /\ a.disk[u[fd]][pg] # Absent
             /\ t = GetLoaded(a, u, fd, pg)
    <3> DEFINE page == [fd |-> fd, page |-> pg, fixed |-> TRUE, dirty |-> FALSE,
                        fpage |-> a.disk[u[fd]][pg]]
               r == WithFrame(PFhashInsert(a.pool, fd, pg, a.bp), a.bp, page)
    <3>1. a.disk \in Disk
      BY InternalAllocOK DEF Allocated
    <3>2. page \in BufferPage /\ page.fixed
      BY <3>1, <2>4 DEF BufferPage, Disk
    <3>3. t.pool = r
      BY <2>4 DEF GetLoaded, Outcome, WithFrame
    <3> HIDE DEF page
    <3> QED
      BY <3>2, <3>3, <2>4, EnterFetches
  <2>5. CASE a.err = "OK"
    <3>1. PICK r \in PFreadfcn(a.disk, u, fd, pg) :
            t \in IF r # "OK" THEN {GiveBack(a, r)}
                  ELSE {GetLoaded(a, u, fd, pg)} \cup
                       {GiveBack(a, e) : e \in HashInsertErrors}
      BY <2>1, <2>5 DEF GetMiss
    <3>2. CASE r # "OK"
      BY <2>3, <2>5, <3>1, <3>2
    <3>3. CASE r = "OK"
      <4>1. a.disk[u[fd]][pg] # Absent
        BY <3>3 DEF PFreadfcn
      <4> QED
        BY <2>3, <2>4, <2>5, <3>1, <3>3, <4>1
    <3> QED
      BY <3>2, <3>3
  <2> QED
    BY <2>2, <2>5
<1> QED
  BY <1>2, <1>3

(* PFbufAlloc.                                                             *)
LEMMA AllocFetches ==
  ASSUME NEW p, PoolOK(p), NEW d \in Disk, NEW u, NEW fd \in Fds, NEW pg \in Pages,
         NEW t \in PFbufAlloc(p, d, u, fd, pg)
  PROVE  Fetches(p, t.pool, <<fd, pg>>) \/ (t.pool = p /\ t.err # "OK")
<1> DEFINE id == <<fd, pg>>
<1>1. id \in PageIds
  BY DEF PageIds
<1>2. CASE p.hash[id] # NULL
  BY <1>2 DEF PFbufAlloc, PFhashFind, Outcome
<1>3. CASE p.hash[id] = NULL
  <2>1. PICK a \in PFbufInternalAlloc(p, d, u) :
          t \in IF a.err # "OK" THEN {a}
                ELSE {AllocEntered(a, fd, pg)} \cup
                     {GiveBack(a, e) : e \in HashInsertErrors}
    BY <1>3 DEF PFbufAlloc, PFhashFind
  <2>2. CASE a.err # "OK"
    BY <2>1, <2>2, <1>1, <1>3, FailFetches
  <2>3. CASE a.err = "OK" /\ \E e : t = GiveBack(a, e)
    BY <2>3, <1>1, <1>3, GiveBackFetches
  <2>4. CASE a.err = "OK" /\ t = AllocEntered(a, fd, pg)
    <3> DEFINE page == [FreshPage EXCEPT !.fd = fd, !.page = pg, !.fixed = TRUE]
               r == WithFrame(PFhashInsert(a.pool, fd, pg, a.bp), a.bp, page)
    <3>1. page \in BufferPage /\ page.fixed
      BY FreshPageType DEF BufferPage
    <3>2. t.pool = r
      BY <2>4 DEF AllocEntered, Outcome, WithFrame
    <3> HIDE DEF page
    <3> QED
      BY <3>1, <3>2, <2>4, EnterFetches
  <2> QED
    BY <2>1, <2>2, <2>3, <2>4
<1> QED
  BY <1>2, <1>3


(* The page id is used: it goes to the head, in the frame that becomes b.  *)
Touches(p, r, id, b) ==
  /\ KeepsOrder(p, r, {id}) /\ AtHead(r, id)
  /\ r.hash = p.hash /\ r.frame[p.hash[id]] = b

(* A page's frame changes and moves to the head of the list.               *)
LEMMA TouchUses ==
  ASSUME NEW p, PoolOK(p), NEW id \in PageIds, NEW bp, bp = p.hash[id], bp # NULL,
         NEW b \in BufferPage, b.fd = p.frame[bp].fd, b.page = p.frame[bp].page,
         NEW r, r = MoveToHead(WithFrame(p, bp, b), bp)
  PROVE  Touches(p, r, id, b)
<1> DEFINE q == WithFrame(p, bp, b)
<1>1. bp \in ToSet(p.used)
  BY PagesInFrames
<1>2. FrameSet(p, q, bp, b) /\ Changed(p, q, id, b)
  BY <1>1, SetFrame, SetChanges
<1>3. r = MoveToHead(q, bp)
  OBVIOUS
<1> HIDE DEF q
<1>4. /\ q \in Pool /\ ListsPartitionFrames(q) /\ bp \in ToSet(q.used)
      /\ q.used = p.used /\ q.hash = p.hash /\ q.frame[bp] = b
  BY <1>1, <1>2 DEF FrameSet, PoolOK
<1>5. r.frame = q.frame /\ r.hash = q.hash
  BY <1>3, <1>4, MoveToHeadLists
<1>6. /\ \A x, y : x # bp /\ y # bp => (Ahead(r.used, x, y) <=> Ahead(p.used, x, y))
      /\ \A x \in ToSet(p.used) \ {bp} : Ahead(r.used, bp, x)
      /\ \A x : ~Ahead(r.used, x, bp)
  BY <1>3, <1>4, MoveAhead
<1>7. \A other \in PageIds \ {id} : Same(p, r, other)
  BY <1>2, <1>5 DEF Changed, Same, FrameOf
<1>8. \A other \in PageIds \ {id} : p.hash[other] # NULL =>
        p.hash[other] # bp /\ p.hash[other] \in ToSet(p.used)
  BY PagesInFrames
<1>9. KeepsOrder(p, r, {id})
  BY <1>4, <1>5, <1>6, <1>7, <1>8, KeepsBy
<1>10. AtHead(r, id)
  <2>1. \A other \in CanEvict(r) : other \in PageIds /\ p.hash[other] # NULL
    BY <1>4, <1>5 DEF CanEvict
  <2>2. \A other \in PageIds : ~Later(r, other, id)
    BY <1>4, <1>5, <1>6 DEF Later
  <2>3. \A other \in PageIds \ {id} : p.hash[other] # NULL => Later(r, id, other)
    BY <1>4, <1>5, <1>6, <1>8 DEF Later
  <2> QED
    BY <2>1, <2>2, <2>3 DEF AtHead
<1> QED
  BY <1>4, <1>5, <1>9, <1>10 DEF Touches

(* The outcome t of an operation that moves the page id to the head.       *)
Moves(p, t, id) ==
  IF t.err = "OK"
  THEN KeepsOrder(p, t.pool, {id}) /\ AtHead(t.pool, id) /\ t.pool.hash = p.hash
  ELSE t.pool = p

(* PFbufUnfix.                                                             *)
LEMMA UnfixUses ==
  ASSUME NEW p, PoolOK(p), NEW d \in Disk, NEW fd \in Fds, NEW pg \in Pages,
         NEW dirty \in BOOLEAN, NEW t, t = PFbufUnfix(p, d, fd, pg, dirty)
  PROVE  Moves(p, t, <<fd, pg>>)
<1> DEFINE id == <<fd, pg>>
           bp == p.hash[id]
<1>1. CASE bp # NULL /\ p.frame[bp].fixed
  <2> DEFINE b == [p.frame[bp] EXCEPT !.dirty = p.frame[bp].dirty \/ dirty,
                                      !.fixed = FALSE]
  <2>1. id \in PageIds /\ bp \in Frames /\ p.frame[bp] \in BufferPage
    BY <1>1, PagesInFrames, PoolFields DEF PoolOK, PageIds
  <2>2. b \in BufferPage /\ b.fd = p.frame[bp].fd /\ b.page = p.frame[bp].page
    BY <2>1 DEF BufferPage
  <2>3. t = Outcome("OK", MoveToHead(WithFrame(p, bp, b), bp), d, NULL)
    BY <1>1 DEF PFbufUnfix, PFhashFind, WithFrame
  <2> HIDE DEF b, id
  <2>4. t.pool = MoveToHead(WithFrame(p, bp, b), bp) /\ t.err = "OK"
    BY <2>3 DEF Outcome
  <2>5. bp = p.hash[id]
    OBVIOUS
  <2> HIDE DEF bp
  <2>6. Touches(p, t.pool, id, b)
    BY ONLY PoolOK(p), <1>1, <2>1, <2>2, <2>4, <2>5, TouchUses
  <2> QED
    BY <2>4, <2>6 DEF id, Touches, Moves
<1>2. CASE bp = NULL \/ ~p.frame[bp].fixed
  BY <1>2 DEF PFbufUnfix, PFhashFind, Outcome, Moves
<1> QED
  BY <1>1, <1>2

(* PFbufUsed; the page stays fixed.                                        *)
LEMMA UsedUses ==
  ASSUME NEW p, PoolOK(p), NEW d \in Disk, NEW fd \in Fds, NEW pg \in Pages,
         NEW t, t = PFbufUsed(p, d, fd, pg)
  PROVE  /\ Moves(p, t, <<fd, pg>>)
         /\ t.err = "OK" => <<fd, pg>> \notin CanEvict(t.pool)
<1> DEFINE id == <<fd, pg>>
           bp == p.hash[id]
<1>1. CASE bp # NULL /\ p.frame[bp].fixed
  <2> DEFINE b == [p.frame[bp] EXCEPT !.dirty = TRUE]
  <2>1. id \in PageIds /\ bp \in Frames /\ p.frame[bp] \in BufferPage
    BY <1>1, PagesInFrames, PoolFields DEF PoolOK, PageIds
  <2>2. /\ b \in BufferPage /\ b.fd = p.frame[bp].fd /\ b.page = p.frame[bp].page
        /\ b.fixed
    BY <1>1, <2>1 DEF BufferPage
  <2>3. t = Outcome("OK", MoveToHead(WithFrame(p, bp, b), bp), d, NULL)
    BY <1>1 DEF PFbufUsed, PFhashFind, WithFrame
  <2> HIDE DEF b, id
  <2>4. t.pool = MoveToHead(WithFrame(p, bp, b), bp) /\ t.err = "OK"
    BY <2>3 DEF Outcome
  <2>5. bp = p.hash[id]
    OBVIOUS
  <2> HIDE DEF bp
  <2>6. Touches(p, t.pool, id, b)
    BY ONLY PoolOK(p), <1>1, <2>1, <2>2, <2>4, <2>5, TouchUses
  <2>7. id \notin CanEvict(t.pool)
    BY <2>2, <2>6 DEF CanEvict, Touches
  <2> QED
    BY <2>4, <2>6, <2>7 DEF id, Touches, Moves
<1>2. CASE bp = NULL \/ ~p.frame[bp].fixed
  BY <1>2 DEF PFbufUsed, PFhashFind, Outcome, Moves
<1> QED
  BY <1>1, <1>2

(* An iteration of PFbufReleaseFile.                                       *)
LEMMA ReleaseKeeps ==
  ASSUME NEW p, PoolOK(p), NEW d \in Disk, NEW u, NEW fd \in Fds,
         NEW bp \in ToSet(p.used), NEW t \in ReleaseFrame(p, d, u, fd, bp)
  PROVE  KeepsOrder(p, t.pool, {})
<1> DEFINE b == p.frame[bp]
           id == <<b.fd, b.page>>
           q == WithoutPage(p, bp)
<1>1. CASE b.fd # fd \/ b.fixed
  <2>1. t.pool = p
    BY <1>1 DEF ReleaseFrame, Outcome
  <2> QED
    BY <2>1, KeepsSelf
<1>2. CASE b.fd = fd /\ ~b.fixed
  <2>1. PFhashFind(p, fd, b.page) # NULL
    <3>1. TableFinds(p, ToSet(p.used)) /\ bp \in Frames
      BY PoolFields DEF PoolOK
    <3> QED
      BY <3>1, <1>2, FreshPageType DEF TableFinds
  <2>2. PICK w \in WriteIfDirty(d, u, b.fd, b) :
          t = IF w.err # "OK" THEN Outcome(w.err, p, w.disk, bp)
              ELSE Outcome("OK", FreeFrame(q, bp), w.disk, bp)
    BY <1>2, <2>1 DEF ReleaseFrame, WithoutPage
  <2>3. t.pool = p \/ t.pool = FreeFrame(q, bp)
    BY <2>2 DEF Outcome
  <2>4. q.hash[id] = NULL /\ \A other \in PageIds \ {id} : Same(p, q, other)
    BY WithoutPageOthers
  <2>5. HasSpare(q, bp) /\ q.used = p.used
    BY WithoutPageSpare
  <2> HIDE DEF q, id
  <2>6. KeepsOrder(p, q, {})
    BY <2>4, <2>5, KeepsBy
  <2>7. KeepsOrder(q, FreeFrame(q, bp), {})
    BY <2>5, FreeSpareKeeps
  <2> QED
    BY <2>3, <2>6, <2>7, KeepsTrans, KeepsSelf
<1> QED
  BY <1>1, <1>2

-----------------------------------------------------------------------------
(***************************************************************************)
(* The history.                                                            *)
(***************************************************************************)
RecentOf(p) ==
  {pair \in CanEvict(p) \X CanEvict(p) : Later(p, pair[1], pair[2])}

OrderKnown == recent = RecentOf(pool)

LEMMA EvictableIs ==
  /\ Evictable = CanEvict(pool)
  /\ Evictable' = CanEvict(pool')
<1>1. \A id \in PageIds : id = <<id[1], id[2]>>
  BY DEF PageIds
<1>2. Evictable = CanEvict(pool)
  BY <1>1 DEF Evictable, CanEvict, IsFixed, PFhashFind
<1>3. Evictable' = CanEvict(pool')
  BY <1>1 DEF Evictable, CanEvict, IsFixed, PFhashFind
<1> QED
  BY <1>2, <1>3

(* A step that uses the page id, or another that cannot be evicted.        *)
LEMMA UseKnown ==
  ASSUME OrderKnown, NEW id, KeepsOrder(pool, pool', {id}), AtHead(pool', id), Uses(id)
  PROVE  OrderKnown'
<1> DEFINE S == CanEvict(pool')
<1>1. recent' = {pair \in S \X S : \/ pair[1] = id /\ pair[2] # id
                                   \/ pair[2] # id /\ pair \in recent}
  BY EvictableIs DEF Uses
<1>2. ASSUME NEW a \in S, NEW b \in S
      PROVE  <<a, b>> \in recent' <=> Later(pool', a, b)
  <2>1. <<a, b>> \in recent' <=> \/ a = id /\ b # id
                                 \/ b # id /\ <<a, b>> \in recent
    BY <1>1
  <2>2. CASE b = id
    BY <2>1, <2>2 DEF AtHead
  <2>3. CASE b # id /\ a = id
    BY <2>1, <2>3 DEF AtHead
  <2>4. CASE b # id /\ a # id
    <3>1. a \in CanEvict(pool) /\ b \in CanEvict(pool)
          /\ (Later(pool', a, b) <=> Later(pool, a, b))
      BY <2>4 DEF KeepsOrder
    <3>2. <<a, b>> \in recent <=> Later(pool, a, b)
      BY <3>1 DEF OrderKnown, RecentOf
    <3> QED
      BY <2>1, <2>4, <3>1, <3>2
  <2> QED
    BY <2>2, <2>3, <2>4
<1>3. recent' \subseteq S \X S
  BY <1>1
<1> HIDE DEF S
<1>4. recent' = {pair \in S \X S : Later(pool', pair[1], pair[2])}
  BY <1>2, <1>3
<1> QED
  BY <1>4 DEF OrderKnown, RecentOf, S

LEMMA NoUseKnown ==
  ASSUME OrderKnown, KeepsOrder(pool, pool', {}), UsesNone
  PROVE  OrderKnown'
<1> DEFINE S == CanEvict(pool')
<1>1. recent' = recent \cap (S \X S)
  BY EvictableIs DEF UsesNone
<1>2. ASSUME NEW a \in S, NEW b \in S
      PROVE  <<a, b>> \in recent' <=> Later(pool', a, b)
  <2>1. a \in CanEvict(pool) /\ b \in CanEvict(pool)
        /\ (Later(pool', a, b) <=> Later(pool, a, b))
    BY DEF KeepsOrder
  <2>2. <<a, b>> \in recent <=> Later(pool, a, b)
    BY <2>1 DEF OrderKnown, RecentOf
  <2> QED
    BY <1>1, <2>1, <2>2
<1>3. recent' \subseteq S \X S
  BY <1>1
<1> HIDE DEF S
<1>4. recent' = {pair \in S \X S : Later(pool', pair[1], pair[2])}
  BY <1>2, <1>3
<1> QED
  BY <1>4 DEF OrderKnown, RecentOf, S

(* A victim taken in the order of the list is one taken in that of uses.   *)
LEMMA VictimKnown ==
  ASSUME OrderKnown, TakesVictim(pool, pool')
  PROVE  EvictsStep
<1> SUFFICES ASSUME NEW id \in CanEvict(pool), pool'.hash[id] = NULL,
                    NEW other \in CanEvict(pool) \ {id}
             PROVE  IF pool.strategy = "LRU" THEN <<other, id>> \in recent
                    ELSE <<id, other>> \in recent
  BY EvictableIs DEF EvictsStep
<1>1. IF pool.strategy = "LRU" THEN Later(pool, other, id) ELSE Later(pool, id, other)
  BY DEF TakesVictim
<1> QED
  BY <1>1 DEF OrderKnown, RecentOf


-----------------------------------------------------------------------------
(***************************************************************************)
(* The calls that use a page.                                              *)
(***************************************************************************)
UsesPage(p, q, id) == KeepsOrder(p, q, {id}) /\ AtHead(q, id) /\ TakesVictim(p, q)

LEMMA FetchesUses ==
  ASSUME NEW p, NEW q, NEW id, Fetches(p, q, id)
  PROVE  UsesPage(p, q, id)
BY DEF Fetches, UsesPage, AtHead

(* A get, and then an unfix of the same page.                              *)
LEMMA UnfixFetched ==
  ASSUME NEW p, NEW q, PoolOK(q), NEW d \in Disk, NEW fd \in Fds, NEW pg \in Pages,
         Fetches(p, q, <<fd, pg>>), NEW dirty \in BOOLEAN,
         NEW s, s = PFbufUnfix(q, d, fd, pg, dirty)
  PROVE  UsesPage(p, s.pool, <<fd, pg>>)
<1> DEFINE id == <<fd, pg>>
<1>3. Moves(q, s, id)
  BY UnfixUses
<1>1. CASE s.err = "OK"
  <2>1. KeepsOrder(q, s.pool, {id}) /\ AtHead(s.pool, id) /\ s.pool.hash = q.hash
    BY <1>1, <1>3 DEF Moves
  <2> HIDE DEF id
  <2>2. KeepsOrder(p, q, {id}) /\ TakesVictim(p, q)
    BY DEF Fetches, id
  <2>3. KeepsOrder(p, s.pool, {id})
    BY <2>1, <2>2, KeepsTrans
  <2>4. TakesVictim(p, s.pool)
    BY <2>1, <2>2, TakesMore
  <2> QED
    BY <2>1, <2>3, <2>4 DEF UsesPage, id
<1>2. CASE s.err # "OK"
  <2>1. s.pool = q
    BY <1>2, <1>3 DEF Moves
  <2> QED
    BY <2>1, FetchesUses
<1> QED
  BY <1>1, <1>2

(* Setting the link in the frame of a page.                                *)
LEMMA LinkKeeps ==
  ASSUME NEW p, PoolOK(p), NEW id \in PageIds, NEW bp, bp = p.hash[id], bp # NULL,
         NEW x \in Links, NEW q, q = [p EXCEPT !.frame[bp].fpage.nextfree = x]
  PROVE  /\ PoolOK(q) /\ q.hash = p.hash
         /\ KeepsOrder(p, q, {}) /\ CanEvict(q) = CanEvict(p)
<1>1. /\ p \in Pool /\ p.frame \in [Frames -> BufferPage]
      /\ p.hash \in [PageIds -> Frames \cup {NULL}] /\ bp \in Frames
  BY PoolFields DEF PoolOK
<1>2. PoolOK(q)
  BY LinkChanges
<1>3. /\ q.used = p.used /\ q.hash = p.hash
      /\ q.frame = [p.frame EXCEPT ![bp].fpage.nextfree = x]
  BY <1>1 DEF Pool
<1>4. \A v \in Frames : q.frame[v].fixed <=> p.frame[v].fixed
  BY <1>1, <1>3 DEF BufferPage
<1>5. \A other \in PageIds : p.hash[other] # NULL =>
        (q.frame[p.hash[other]].fixed <=> p.frame[p.hash[other]].fixed)
  BY <1>1, <1>4
<1> QED
  BY <1>2, <1>3, <1>5, KeepsSelf

(* It does not use the page, nor make it one that can be evicted.          *)
LEMMA LinkFetched ==
  ASSUME NEW p, NEW q, PoolOK(q), NEW id \in PageIds, Fetches(p, q, id),
         NEW bp, bp = q.hash[id], bp # NULL,
         NEW x \in Links, NEW r, r = [q EXCEPT !.frame[bp].fpage.nextfree = x]
  PROVE  Fetches(p, r, id) /\ PoolOK(r)
<1>1. /\ PoolOK(r) /\ r.hash = q.hash
      /\ KeepsOrder(q, r, {}) /\ CanEvict(r) = CanEvict(q)
  BY LinkKeeps
<1>2. KeepsOrder(q, r, {id})
  BY <1>1, KeepsMore
<1>3. /\ KeepsOrder(p, q, {id}) /\ TakesVictim(p, q) /\ id \notin CanEvict(q)
  BY DEF Fetches
<1>4. KeepsOrder(p, r, {id})
  BY ONLY <1>2, <1>3, KeepsTrans
<1>5. TakesVictim(p, r)
  BY ONLY <1>1, <1>3, TakesMore
<1>6. id \notin CanEvict(r)
  BY ONLY <1>1, <1>3
<1> QED
  BY ONLY <1>1, <1>4, <1>5, <1>6 DEF Fetches

(* What a get by an action of PFFile gives.                                *)
LEMMA GetByAction ==
  ASSUME IInv, NEW fd \in OpenFds, NEW pg \in Pages,
         NEW t \in PFbufGet(pool, disk, UnixFd, fd, pg)
  PROVE  /\ Fetches(pool, t.pool, <<fd, pg>>) /\ PoolOK(t.pool) /\ t.disk \in Disk
         /\ t.err = "OK" => t.bp = t.pool.hash[<<fd, pg>>] /\ t.bp # NULL
<1>1. PoolOK(pool) /\ disk \in Disk /\ fd \in Fds /\ UnixFd[fd] \in Files
  BY InvFacts
<1>2. Kept(pool, t, fd) /\ (t.err = "OK" => Fixes(t, fd, pg))
  BY <1>1, GetOK
<1>3. PoolOK(t.pool) /\ t.disk \in Disk
  BY <1>2 DEF Kept
<1>4. ToSet(t.pool.used) \subseteq Frames
  BY <1>3, PoolFields DEF PoolOK
<1>5. t.err = "OK" => t.bp = t.pool.hash[<<fd, pg>>] /\ t.bp # NULL
  BY <1>2, <1>4, FreshPageType DEF Fixes, PFhashFind
<1> QED
  BY <1>1, <1>3, <1>5, GetFetches

LEMMA GetThisPageUses ==
  ASSUME IInv, NEW fd \in Fds, NEW pg \in Pages, PF_GetThisPage(fd, pg)
  PROVE  UsesPage(pool, pool', <<fd, pg>>)
<1>1. fd \in OpenFds
  BY DEF PF_GetThisPage, PFinvalidFd
<1>2. PICK t \in PFbufGet(pool, disk, UnixFd, fd, pg) :
        IF t.err # "OK" \/ PageUsed(t) THEN Becomes(t) /\ UNCHANGED call
        ELSE UnfixOrExit(t, fd, pg)
  BY DEF PF_GetThisPage
<1>3. pool' = t.pool \/ pool' = PFbufUnfix(t.pool, t.disk, fd, pg, FALSE).pool
  BY <1>2 DEF Becomes, UnfixOrExit
<1>4. Fetches(pool, t.pool, <<fd, pg>>) /\ PoolOK(t.pool) /\ t.disk \in Disk
  BY <1>1, GetByAction
<1> QED
  BY <1>3, <1>4, FetchesUses, UnfixFetched

LEMMA NextPageScanUses ==
  ASSUME IInv, NextPageScan
  PROVE  UsesPage(pool, pool', <<call.fd, call.at>>)
<1> DEFINE fd == call.fd
           pg == call.at
<1>1. fd \in OpenFds /\ fd \in Fds /\ call \in Calls
  BY InvFacts DEF IInv, TypeOK, ScanOK, NextPageScan
<1>2. pg \in Pages
  BY <1>1, InvFacts DEF NextPageScan, Calls, Pages
<1>3. PICK t \in PFbufGet(pool, disk, UnixFd, fd, pg) :
        IF t.err # "OK" \/ PageUsed(t)
        THEN Becomes(t) /\ call' = Idle
        ELSE LET s == PFbufUnfix(t.pool, t.disk, fd, pg, FALSE)
             IN /\ Becomes(s)
                /\ call' = IF s.err = "OK" THEN [call EXCEPT !.at = call.at + 1]
                           ELSE Idle
  BY DEF NextPageScan
<1>4. pool' = t.pool \/ pool' = PFbufUnfix(t.pool, t.disk, fd, pg, FALSE).pool
  BY <1>3 DEF Becomes
<1> HIDE DEF fd, pg
<1>5. Fetches(pool, t.pool, <<fd, pg>>) /\ PoolOK(t.pool) /\ t.disk \in Disk
  BY <1>1, <1>2, GetByAction
<1>6. UsesPage(pool, pool', <<fd, pg>>)
  BY <1>1, <1>2, <1>4, <1>5, FetchesUses, UnfixFetched
<1> QED
  BY <1>6 DEF fd, pg

LEMMA DisposePageUses ==
  ASSUME IInv, NEW fd \in Fds, NEW pg \in Pages, PF_DisposePage(fd, pg)
  PROVE  UsesPage(pool, pool', <<fd, pg>>)
<1>1. fd \in OpenFds
  BY DEF PF_DisposePage, PFinvalidFd
<1>2. PICK t \in PFbufGet(pool, disk, UnixFd, fd, pg) :
        IF t.err # "OK" THEN Becomes(t) /\ UNCHANGED <<ftab, call>>
        ELSE IF ~PageUsed(t) THEN UnfixOrExit(t, fd, pg) /\ UNCHANGED ftab
        ELSE LET freed == [t.pool EXCEPT
                             !.frame[t.bp].fpage.nextfree = FirstFree(fd)]
             IN /\ Becomes(PFbufUnfix(freed, t.disk, fd, pg, TRUE))
                /\ ftab' = [ftab EXCEPT ![fd].hdr.firstfree = pg,
                                        ![fd].hdrchanged = TRUE]
                /\ UNCHANGED call
  BY DEF PF_DisposePage
<1>3. /\ Fetches(pool, t.pool, <<fd, pg>>) /\ PoolOK(t.pool) /\ t.disk \in Disk
      /\ t.err = "OK" => t.bp = t.pool.hash[<<fd, pg>>] /\ t.bp # NULL
  BY <1>1, GetByAction
<1>4. CASE pool' = t.pool
  BY <1>3, <1>4, FetchesUses
<1>5. CASE pool' = PFbufUnfix(t.pool, t.disk, fd, pg, FALSE).pool
  BY <1>3, <1>5, UnfixFetched
<1>6. CASE t.err = "OK" /\ PageUsed(t)
  <2> DEFINE freed == [t.pool EXCEPT !.frame[t.bp].fpage.nextfree = FirstFree(fd)]
  <2>1. pool' = PFbufUnfix(freed, t.disk, fd, pg, TRUE).pool
    BY <1>2, <1>6 DEF Becomes
  <2>2. <<fd, pg>> \in PageIds /\ FirstFree(fd) \in Links
    BY InvFacts DEF PageIds
  <2>3. Fetches(pool, freed, <<fd, pg>>) /\ PoolOK(freed)
    BY <2>2, <1>3, <1>6, LinkFetched
  <2> HIDE DEF freed
  <2> QED
    BY <2>1, <2>3, <1>3, UnfixFetched
<1> QED
  BY <1>2, <1>4, <1>5, <1>6 DEF Becomes, UnfixOrExit

LEMMA UnfixPageUses ==
  ASSUME IInv, NEW fd \in Fds, NEW pg \in Pages, NEW dirty \in BOOLEAN,
         PF_UnfixPage(fd, pg, dirty)
  PROVE  UsesPage(pool, pool', <<fd, pg>>)
<1> DEFINE t == PFbufUnfix(pool, disk, fd, pg, dirty)
<1>1. t.err = "OK" /\ pool' = t.pool
  BY DEF PF_UnfixPage, Becomes
<1>2. PoolOK(pool) /\ disk \in Disk
  BY InvFacts
<1>5. t = PFbufUnfix(pool, disk, fd, pg, dirty)
  OBVIOUS
<1> HIDE DEF t
<1>6. Moves(pool, t, <<fd, pg>>)
  BY <1>2, <1>5, UnfixUses
<1>3. /\ KeepsOrder(pool, t.pool, {<<fd, pg>>}) /\ AtHead(t.pool, <<fd, pg>>)
      /\ t.pool.hash = pool.hash
  BY <1>1, <1>6 DEF Moves
<1>4. TakesVictim(pool, pool')
  BY <1>1, <1>3 DEF TakesVictim, CanEvict
<1> QED
  BY <1>1, <1>3, <1>4 DEF UsesPage

LEMMA ModifyUses ==
  ASSUME IInv, NEW fd \in Fds, NEW pg \in Pages, NEW v \in Vals, Modify(fd, pg, v)
  PROVE  UsesPage(pool, pool', <<fd, pg>>)
<1> DEFINE bp == PFhashFind(pool, fd, pg)
<1>1. bp # NULL /\ pool.frame[bp].fixed
  BY DEF Modify, IsFixed
<1>2. pool' = [pool EXCEPT !.frame[bp].fpage.pagebuf = v]
  BY DEF Modify
<1>3. /\ pool \in Pool /\ PoolOK(pool) /\ pool.frame \in [Frames -> BufferPage]
      /\ <<fd, pg>> \in PageIds
  BY InvFacts DEF PoolOK, PageIds
<1>4. bp = pool.hash[<<fd, pg>>]
  BY DEF PFhashFind
<1>5. bp \in Frames
  BY <1>1, <1>3, <1>4, PagesInFrames
<1> HIDE DEF bp
<1>6. /\ pool'.used = pool.used /\ pool'.hash = pool.hash
      /\ pool'.frame = [pool.frame EXCEPT ![bp].fpage.pagebuf = v]
  BY <1>2, <1>3 DEF Pool
<1>7. \A w \in Frames : pool'.frame[w].fixed <=> pool.frame[w].fixed
  BY <1>3, <1>6 DEF BufferPage
<1>8. \A other \in PageIds : pool.hash[other] # NULL =>
        (pool'.frame[pool.hash[other]].fixed <=> pool.frame[pool.hash[other]].fixed)
  BY <1>3, <1>7, PagesInFrames
<1>9. /\ KeepsOrder(pool, pool', {}) /\ CanEvict(pool') = CanEvict(pool)
      /\ TakesVictim(pool, pool')
  BY <1>6, <1>8, KeepsSelf
<1>10. <<fd, pg>> \notin CanEvict(pool')
  BY <1>1, <1>4, <1>9 DEF CanEvict
<1> QED
  BY <1>9, <1>10, KeepsMore, FetchesUses DEF Fetches


-----------------------------------------------------------------------------
(***************************************************************************)
(* The calls that leave the pages they do not fix as they were.            *)
(***************************************************************************)
UsesNoPage(p, q) == KeepsOrder(p, q, {}) /\ TakesVictim(p, q)

LEMMA FetchesUsesNone ==
  ASSUME NEW p, NEW q, NEW id, Fetches(p, q, id)
  PROVE  UsesNoPage(p, q)
BY DEF Fetches, UsesNoPage, KeepsOrder

LEMMA SamePool ==
  ASSUME NEW p, NEW q, q = p
  PROVE  UsesNoPage(p, q)
BY KeepsSelf DEF UsesNoPage

(* PF_AllocPage leaves its page fixed: it cannot be evicted.               *)
LEMMA AllocFreeUses ==
  ASSUME IInv, NEW fd \in OpenFds, AllocFree(fd)
  PROVE  UsesNoPage(pool, pool')
<1> DEFINE pg == FirstFree(fd)
<1>1. CASE pg \notin Pages
  BY <1>1, SamePool DEF AllocFree
<1>2. CASE pg \in Pages
  <2>1. PICK t \in PFbufGet(pool, disk, UnixFd, fd, pg) :
          pool' = IF t.err # "OK" THEN t.pool ELSE MarkUsed(t.pool, t.bp)
    BY <1>2 DEF AllocFree
  <2>2. /\ Fetches(pool, t.pool, <<fd, pg>>) /\ PoolOK(t.pool)
        /\ t.err = "OK" => t.bp = t.pool.hash[<<fd, pg>>] /\ t.bp # NULL
    BY <1>2, GetByAction
  <2>3. <<fd, pg>> \in PageIds /\ PAGE_USED \in Links
    BY <1>2 DEF PageIds, OpenFds, Links
  <2>4. CASE t.err # "OK"
    BY <2>1, <2>2, <2>4, FetchesUsesNone
  <2>5. CASE t.err = "OK"
    <3>1. pool' = [t.pool EXCEPT !.frame[t.bp].fpage.nextfree = PAGE_USED]
      BY <2>1, <2>5 DEF MarkUsed
    <3>2. Fetches(pool, pool', <<fd, pg>>)
      BY <3>1, <2>2, <2>3, <2>5, LinkFetched
    <3> QED
      BY <3>2, FetchesUsesNone
  <2> QED
    BY <2>4, <2>5
<1> QED
  BY <1>1, <1>2

(* PFbufUsed of a page that was fetched.                                   *)
LEMMA UsedFetched ==
  ASSUME NEW p, NEW q, PoolOK(q), NEW d \in Disk, NEW fd \in Fds, NEW pg \in Pages,
         Fetches(p, q, <<fd, pg>>), NEW s, s = PFbufUsed(q, d, fd, pg)
  PROVE  Fetches(p, s.pool, <<fd, pg>>) /\ s.pool.hash = q.hash
<1> DEFINE id == <<fd, pg>>
<1>1. Moves(q, s, id) /\ (s.err = "OK" => id \notin CanEvict(s.pool))
  BY UsedUses
<1>2. /\ KeepsOrder(p, q, {id}) /\ TakesVictim(p, q) /\ id \notin CanEvict(q)
  BY DEF Fetches
<1> HIDE DEF id
<1>3. CASE s.err = "OK"
  <2>1. KeepsOrder(q, s.pool, {id}) /\ s.pool.hash = q.hash
    BY <1>1, <1>3 DEF Moves
  <2>2. KeepsOrder(p, s.pool, {id})
    BY ONLY <1>2, <2>1, KeepsTrans
  <2>3. TakesVictim(p, s.pool)
    BY ONLY <1>2, <2>1, TakesMore
  <2> QED
    BY <1>1, <1>3, <2>1, <2>2, <2>3 DEF Fetches, id
<1>4. CASE s.err # "OK"
  <2>1. s.pool = q
    BY <1>1, <1>4 DEF Moves
  <2> QED
    BY <2>1
<1> QED
  BY <1>3, <1>4

LEMMA AllocExtendUses ==
  ASSUME IInv, NEW fd \in OpenFds, AllocExtend(fd)
  PROVE  UsesNoPage(pool, pool')
<1> DEFINE pg == NumPages(fd)
<1>1. fd \in Fds /\ pg \in Pages /\ <<fd, pg>> \in PageIds /\ PAGE_USED \in Links
  BY InvFacts DEF AllocExtend, Pages, PageIds, Links
<1>2. PICK t \in PFbufAlloc(pool, disk, UnixFd, fd, pg) :
        pool' = IF t.err # "OK" THEN t.pool
                ELSE MarkUsed(PFbufUsed(t.pool, t.disk, fd, pg).pool, t.bp)
  BY DEF AllocExtend, Becomes
<1> HIDE DEF pg
<1>3. PoolOK(pool) /\ disk \in Disk
  BY InvFacts
<1>4. Kept(pool, t, fd) /\ (t.err = "OK" => Fixes(t, fd, pg))
  BY <1>1, <1>3, AllocOK
<1>5. Fetches(pool, t.pool, <<fd, pg>>) \/ (t.pool = pool /\ t.err # "OK")
  BY <1>1, <1>3, AllocFetches
<1>6. CASE t.err # "OK"
  BY <1>2, <1>5, <1>6, FetchesUsesNone, SamePool
<1>7. CASE t.err = "OK"
  <2>1. PoolOK(t.pool) /\ t.disk \in Disk
    BY <1>4 DEF Kept
  <2>2. t.bp = t.pool.hash[<<fd, pg>>] /\ t.bp # NULL
    <3>1. ToSet(t.pool.used) \subseteq Frames
      BY <2>1, PoolFields DEF PoolOK
    <3> QED
      BY <1>4, <1>7, <3>1, FreshPageType DEF Fixes, PFhashFind
  <2>3. PICK s : s = PFbufUsed(t.pool, t.disk, fd, pg)
    OBVIOUS
  <2>4. Fetches(pool, s.pool, <<fd, pg>>) /\ s.pool.hash = t.pool.hash
    BY <1>1, <1>5, <1>7, <2>1, <2>3, UsedFetched
  <2>5. PoolOK(s.pool)
    BY <1>1, <2>1, <2>3, UsedOK DEF Kept
  <2>6. pool' = [s.pool EXCEPT !.frame[t.bp].fpage.nextfree = PAGE_USED]
    BY <1>2, <1>7, <2>3 DEF MarkUsed
  <2>7. t.bp = s.pool.hash[<<fd, pg>>]
    BY <2>2, <2>4
  <2>8. Fetches(pool, pool', <<fd, pg>>)
    BY ONLY <1>1, <2>2, <2>4, <2>5, <2>6, <2>7, LinkFetched
  <2> QED
    BY <2>8, FetchesUsesNone
<1> QED
  BY <1>6, <1>7

LEMMA AllocPageUses ==
  ASSUME IInv, NEW fd \in Fds, PF_AllocPage(fd)
  PROVE  UsesNoPage(pool, pool')
BY AllocFreeUses, AllocExtendUses DEF PF_AllocPage, PFinvalidFd

(* PF_Init, with no file open: no frame has a page.                        *)
LEMMA PF_InitUses ==
  ASSUME IInv, NEW num_buffers, NEW strategy, PF_Init(num_buffers, strategy)
  PROVE  UsesNoPage(pool, pool')
<1>1. PoolOK(pool) /\ pool \in Pool
  BY InvFacts DEF PoolOK
<1>2. \A id \in PageIds : pool.hash[id] = NULL
  <2>1. ToSet(pool.used) = {}
    BY DEF IInv, FramesOfOpenFiles, PF_Init
  <2> QED
    BY <1>1, <2>1, PagesInFrames
<1>3. \A id \in PageIds : pool'.hash[id] = NULL
  BY <1>1 DEF PF_Init, Pool
<1> QED
  BY <1>2, <1>3 DEF UsesNoPage, KeepsOrder, TakesVictim, CanEvict

(* The other calls leave the pool alone.                                   *)
LEMMA OthersUse ==
  ASSUME UNCHANGED pool
  PROVE  UsesNoPage(pool, pool')
BY SamePool


(* An iteration of the loop that releases a closed file's frames.          *)
LEMMA CloseReleaseKeeps ==
  ASSUME IInv, CloseRelease
  PROVE  KeepsOrder(pool, pool', {}) /\ call.op = "close"
<1>1. call.op = "close" /\ call.at \in ToSet(pool.used)
  BY DEF IInv, WalkOK, CloseRelease
<1>2. PICK t \in ReleaseFrame(pool, disk, UnixFd, call.fd, call.at) : pool' = t.pool
  BY DEF CloseRelease, Becomes
<1>3. PoolOK(pool) /\ disk \in Disk /\ call.fd \in Fds
  BY InvFacts DEF IInv, TypeOK, Calls
<1> QED
  BY <1>1, <1>2, <1>3, ReleaseKeeps

-----------------------------------------------------------------------------
(***************************************************************************)
(* RSpec.                                                                  *)
(***************************************************************************)

(* The ghost does not restrict the calls.                                  *)
LEMMA RNextNext == [RNext]_rvars => [Next]_vars
BY DEF RNext, Next, CallStep, rvars

LEMMA RInitKnown == RInit => IInv /\ OrderKnown
<1> SUFFICES ASSUME RInit
             PROVE  IInv /\ OrderKnown
  OBVIOUS
<1>1. IInv
  BY InitInv DEF RInit
<1>2. CanEvict(pool) = {}
  BY DEF RInit, Init, CanEvict
<1> QED
  BY <1>1, <1>2 DEF OrderKnown, RecentOf, RInit

(* A step of a call that uses a page.                                      *)
LEMMA UseStep ==
  ASSUME OrderKnown, NEW id, UsesPage(pool, pool', id), Uses(id)
  PROVE  OrderKnown' /\ EvictsStep
BY UseKnown, VictimKnown DEF UsesPage

(* A step that uses none.                                                  *)
LEMMA NoUseStep ==
  ASSUME OrderKnown, UsesNoPage(pool, pool'), UsesNone
  PROVE  OrderKnown' /\ EvictsStep
BY NoUseKnown, VictimKnown DEF UsesNoPage

LEMMA RNextKnown ==
  ASSUME IInv, OrderKnown, RNext
  PROVE  OrderKnown' /\ EvictsStep
<1>1. ASSUME NEW fd \in Fds, NEW pg \in Pages, Uses(<<fd, pg>>),
             \/ PF_GetThisPage(fd, pg)
             \/ PF_DisposePage(fd, pg)
             \/ \E dirty \in BOOLEAN : PF_UnfixPage(fd, pg, dirty)
             \/ \E v \in Vals : Modify(fd, pg, v)
      PROVE  OrderKnown' /\ EvictsStep
  <2>1. UsesPage(pool, pool', <<fd, pg>>)
    BY <1>1, GetThisPageUses, DisposePageUses, UnfixPageUses, ModifyUses
  <2> QED
    BY <1>1, <2>1, UseStep
<1>2. CASE NextPageScan /\ Uses(<<call.fd, call.at>>)
  BY <1>2, NextPageScanUses, UseStep
<1>3. ASSUME UsesNone, NEW num_buffers, NEW strategy, PF_Init(num_buffers, strategy)
      PROVE  OrderKnown' /\ EvictsStep
  BY <1>3, PF_InitUses, NoUseStep
<1>4. ASSUME UsesNone, NEW fd \in Fds, PF_AllocPage(fd)
      PROVE  OrderKnown' /\ EvictsStep
  BY <1>4, AllocPageUses, NoUseStep
<1>5. CASE UsesNone /\ CloseRelease
  BY <1>5, CloseReleaseKeeps, NoUseKnown DEF EvictsStep
<1>6. CASE UsesNone /\ UNCHANGED pool
  BY <1>6, OthersUse, NoUseStep
<1>7. ASSUME UsesNone,
             \/ \E f \in Files : PF_CreateFile(f) \/ PF_DestroyFile(f)
             \/ \E f \in Files, mode \in Modes : PF_OpenFile(f, mode)
             \/ \E fd \in Fds : PF_CloseFile(fd)
             \/ \E fd \in Fds, from \in {-1} \cup Pages : PF_GetNextPage(fd, from)
             \/ CloseHeader \/ CloseHeaderFails \/ NextPageEOF
      PROVE  OrderKnown' /\ EvictsStep
  <2>1. UNCHANGED pool
    BY <1>7 DEF PF_CreateFile, PF_DestroyFile, PF_OpenFile, PF_CloseFile,
                PF_GetNextPage, CloseHeader, CloseHeaderFails, NextPageEOF
  <2> QED
    BY <1>6, <1>7, <2>1
<1> QED
  BY <1>1, <1>2, <1>3, <1>4, <1>5, <1>7 DEF RNext

(* A step that changes nothing loses no page.                              *)
LEMMA StutterKnown ==
  ASSUME OrderKnown, UNCHANGED rvars
  PROVE  OrderKnown' /\ EvictsStep
<1>1. pool' = pool /\ recent' = recent
  BY DEF rvars, vars
<1>2. OrderKnown'
  BY <1>1 DEF OrderKnown, RecentOf, CanEvict, Later
<1>3. UsesNoPage(pool, pool')
  BY <1>1, SamePool
<1> QED
  BY <1>2, <1>3, VictimKnown DEF UsesNoPage

LEMMA RStep ==
  IInv /\ OrderKnown /\ [RNext]_rvars => IInv' /\ OrderKnown' /\ EvictsStep
BY RNextNext, NextInv, RNextKnown, StutterKnown

(* `recent', which only the calls make, is the order of the used list.     *)
THEOREM HistoryIsTheList == RSpec => [](IInv /\ OrderKnown)
BY RInitKnown, RStep, PTL DEF RSpec

(* EvictsByStrategy: a page loses its frame to another (pfbuf.c:124-141)   *)
(* only if it is, of all those not fixed, the one used longest ago under   *)
(* LRU, and the one used last under MRU; also where the call fails then.   *)
THEOREM VictimByStrategy == RSpec => EvictsByStrategy
<1>1. IInv /\ OrderKnown /\ [RNext]_rvars => [EvictsStep]_rvars
  BY RStep
<1> QED
  BY <1>1, HistoryIsTheList, PTL DEF RSpec, EvictsByStrategy

=============================================================================
