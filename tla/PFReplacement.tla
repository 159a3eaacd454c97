--------------------------- MODULE PFReplacement ---------------------------
(***************************************************************************)
(* The replacement strategies.  PFbufGet leaves a page that is already     *)
(* buffered where it is in the used list, and only PFbufUnfix moves it to  *)
(* the head; that the list is nevertheless in the order of the pages' last *)
(* uses, as far as choosing a victim goes, is what is checked here.  The   *)
(* ghost `recent' records that order from the calls alone.                 *)
(***************************************************************************)
EXTENDS PFFileProps

VARIABLE recent   \* ghost: the <<a, b>> of evictable pages, a used after b

rvars == <<vars, recent>>

(* The pages in the buffer that no client has fixed.                       *)
Evictable == {id \in PageIds : pool.hash[id] # NULL /\ ~IsFixed(id[1], id[2])}

(* A step that uses the page id: of those evictable after it, id is the    *)
(* one used last, and the others keep their order.                         *)
Uses(id) ==
  recent' = {pair \in Evictable' \X Evictable' :
               \/ pair[1] = id /\ pair[2] # id
               \/ pair[2] # id /\ pair \in recent}

UsesNone == recent' = recent \cap (Evictable' \X Evictable')

RInit == Init /\ recent = {}

RNext ==
  \/ \E fd \in Fds, pg \in Pages :
       /\ \/ PF_GetThisPage(fd, pg)
          \/ PF_DisposePage(fd, pg)
          \/ \E dirty \in BOOLEAN : PF_UnfixPage(fd, pg, dirty)
          \/ \E v \in Vals : Modify(fd, pg, v)
       /\ Uses(<<fd, pg>>)
  \/ NextPageScan /\ Uses(<<call.fd, call.at>>)
  \/ /\ \/ \E arg \in InitArgs : PF_Init(arg[1], arg[2])
        \/ \E f \in Files : PF_CreateFile(f) \/ PF_DestroyFile(f)
        \/ \E f \in Files, mode \in Modes : PF_OpenFile(f, mode)
        \/ \E fd \in Fds : PF_CloseFile(fd) \/ PF_AllocPage(fd)
        \/ \E fd \in Fds, from \in {-1} \cup Pages : PF_GetNextPage(fd, from)
        \/ CloseRelease \/ CloseHeader \/ CloseHeaderFails \/ NextPageEOF
     /\ UsesNone

RSpec == RInit /\ [][RNext]_rvars

(* A call in progress runs on: the library has no other thread and never   *)
(* waits, so its next step is taken eventually.                            *)
RFairSpec == RSpec /\ WF_vars(CallStep)

(* pfbuf.c:124-141: when a page loses its frame to another page, it is the *)
(* page used longest ago (LRU) or last (MRU) of those that are not fixed.  *)
(* IMP.DOC:432: "searches from the back of the list of buffer pages.       *)
(* Whenever a page is used, it is moved to the head of the list."          *)
EvictsStep ==
  call.op # "close" =>
    \A id \in Evictable : pool'.hash[id] = NULL =>
      \A other \in Evictable \ {id} :
        IF pool.strategy = "LRU" THEN <<other, id>> \in recent
        ELSE <<id, other>> \in recent

EvictsByStrategy == [][EvictsStep]_rvars

=============================================================================
