---------------------------- MODULE AMScanProps ----------------------------
(***************************************************************************)
(* What must be true of index scans and bulk loads: AMScan with a history  *)
(* of what the scan still has to return.                                   *)
(***************************************************************************)
EXTENDS AMScan

VARIABLE
  todo  (* the entries that the scan has to return and has not yet         *)

varsH == <<scanVars, todo>>

Satisfies(key, op, value) ==
  CASE op = "ALL" -> TRUE
    [] op = "EQUAL" -> key = value[1]
    [] op = "LESS_THAN" -> key < value[1]
    [] op = "GREATER_THAN" -> key > value[1]
    [] op = "LESS_THAN_EQUAL" -> key <= value[1]
    [] op = "GREATER_THAN_EQUAL" -> key >= value[1]
    [] op = "NOT_EQUAL" -> key # value[1]

Opened == scan.status = "FREE" /\ scan'.status # "FREE"
Closed == scan.status # "FREE" /\ scan'.status = "FREE"
Found == scan.status # "FREE" /\ ~Closed /\ scan' # scan /\ "entry" \in DOMAIN ret'

InitH == InitScan /\ todo = {}

NextH ==
  /\ NextScan
  /\ todo' = IF Opened THEN {e \in Entries : Satisfies(e[1], scan'.op, scan'.value)}
             ELSE IF Closed THEN {}
             ELSE IF Found THEN todo \ {ret'.entry}
             ELSE todo

SpecH == InitH /\ [][NextH]_varsH

-----------------------------------------------------------------------------
SlotType ==
  /\ scan.status \in {"FREE", "FIRST", "BUSY", "LAST", "OVER"} /\ scan.op \in AllOps
  /\ {scan.pageNum, scan.nextpageNum, scan.lastpageNum} \subseteq {NoPage} \cup DOMAIN page
  /\ {scan.index, scan.actindex, scan.nextIndex, scan.lastIndex} \subseteq Nat
  /\ scan.value \in Seq(Values)
  /\ scan.nextvalue \in Seq(Keys)
  /\ scan.cell \in {NullCell, WildCell} \cup (Keys \X RecIds)

(* Every variable has its type, and what a scan has still to return is in  *)
(* the index.                                                              *)
ScanTypeOK ==
  /\ \A pg \in DOMAIN page :
       IF IsLeaf(page[pg]) THEN LeafType(page[pg]) ELSE InternalType(page[pg])
  /\ fixed \subseteq DOMAIN page /\ Cardinality(fixed) <= numBuffers
  /\ leftPageNum \in {NoPage} \cup DOMAIN page
  /\ call.op \in {"idle", "insert", "delete", "load"}
  /\ {call.at, call.up} \subseteq {NoPage} \cup DOMAIN page
  /\ LoadType /\ SlotType
  /\ Len(stack) <= MaxStack + NumPages
  /\ todo \subseteq Entries

(* The scans that start at the leaf that GetLeftPageNum takes for the      *)
(* leftmost one find it there.                                             *)
StartsRight ==
  \/ scan.op \in {"EQUAL", "GREATER_THAN", "GREATER_THAN_EQUAL"}
  \/ GetLeftPageNum = Level[Height][1]

(* am.h:314: AM_FindNextEntry returns an entry that satisfies the          *)
(* condition and was not returned before, the next in the order of the     *)
(* keys, also if the client deletes each entry it gets, over leaves that   *)
(* are or become empty on the way.  Not for <= and # (see the README).     *)
NextEntryInOrder ==
  [][Found /\ scan.op \notin {"LESS_THAN_EQUAL", "NOT_EQUAL"} /\ StartsRight =>
       /\ ret'.entry \in todo
       /\ \A e \in todo : ret'.entry[1] <= e[1]]_varsH

(* When such a scan upwards or over all keys is over, it has returned all  *)
(* that it has to.                                                         *)
EOFOnlyAtEnd ==
  /\ ret = EOF /\ StartsRight
  /\ scan.op \in {"ALL", "EQUAL", "GREATER_THAN", "GREATER_THAN_EQUAL"}
  => todo = {}

(* The leaf that a search for the value comes to has only smaller keys,    *)
(* and is not the last.                                                    *)
BehindItsLeaf(value) ==
  LET leaf == page[LeafFor(value)] IN
  leaf.next # AM_NULL_PAGE /\ \A i \in DOMAIN leaf.keys : leaf.keys[i].key < value

ScanCall == ret'.op \in {"open", "next"} /\ ret' # ret

(* With two buffers, and no page left fixed by an earlier call, opening a  *)
(* scan and finding the next entry do not fail for want of a page, except  *)
(* that a value behind the last key of its leaf is not found a place, and  *)
(* they leave no page fixed.                                               *)
TwoBuffersForScans ==
  [][ScanCall /\ scan'.op # "NOT_EQUAL" =>
       IF "err" \in DOMAIN ret' /\ ret'.err = "PF"
       THEN numBuffers < 2 \/ fixed # {} \/ BehindItsLeaf(scan'.value[1])
       ELSE fixed' = fixed]_varsH

(* am.h:314 AM_FindNextEntry: "Returns the record id of the next record    *)
(* that satisfies the conditions."                                         *)
ScanReturnsAll == ret = EOF => todo = {}

=============================================================================
