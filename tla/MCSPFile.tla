------------------------------ MODULE MCSPFile ------------------------------
(***************************************************************************)
(* Instances of the Slotted Page layer for TLC.  A page of 10 bytes with a *)
(* header of 2 and slots of 2 has room for a long record and a short one,  *)
(* which fill it, or for two short ones, but not for two long ones.  In    *)
(* ShortAndTooLong the long record and its slot are larger than a page.    *)
(***************************************************************************)
EXTENDS SPFileProps

CONSTANTS short, long

ShortAndLong == [r \in Records |-> IF r = short THEN 1 ELSE 3]
ShortAndTooLong == [r \in Records |-> IF r = short THEN 1 ELSE 7]

(* No page filled, two pages, and three with lines that do not fit.        *)
SomeTexts ==
  {<<NoRecord, short>>, <<short, long, long>>, <<long, NoRecord, long, long>>}
OneText == {<<long, long>>}
ShortText == {<<short, short>>}

=============================================================================
