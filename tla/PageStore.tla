----------------------------- MODULE PageStore -----------------------------
(***************************************************************************)
(* What the Paged File layer promises its clients (IMP.DOC): files of      *)
(* numbered pages, which are allocated, disposed of, fixed, modified and   *)
(* unfixed.  There are no buffers here, no free lists, no headers and no   *)
(* disk: a page that is allocated stays, with the data last written to it, *)
(* until it is disposed of, whatever happens to the frame it was in, and   *)
(* across any number of closes and opens of the file.                      *)
(*                                                                         *)
(* A file is the sequence-like function of its pages; a disposed page is   *)
(* Free, and may come back from an allocation with any contents.           *)
(***************************************************************************)
EXTENDS Integers

CONSTANTS
  Files,     (* the file names                       *)
  Fds,       (* the file descriptors                 *)
  Data,      (* the contents a page may have         *)
  MaxPages,  (* bound on the pages of a file         *)
  NoFile,    (* stands for no file                   *)
  Free       (* a page that was disposed of          *)

VARIABLES
  file,      (* the pages of each file, or NoFile                        *)
  open,      (* the file each descriptor is open on, or NoFile           *)
  fixed      (* the <<descriptor, page>> pairs the client holds          *)

vars == <<file, open, fixed>>

Contents == UNION {[0 .. n - 1 -> Data \cup {Free}] : n \in 0 .. MaxPages}

IsPage(fd, pg) ==
  open[fd] # NoFile /\ pg \in DOMAIN file[open[fd]] /\ file[open[fd]][pg] # Free

Init ==
  /\ file = [f \in Files |-> NoFile]
  /\ open = [fd \in Fds |-> NoFile]
  /\ fixed = {}

Create(f) ==
  /\ file[f] = NoFile
  /\ file' = [file EXCEPT ![f] = <<>>]
  /\ UNCHANGED <<open, fixed>>

Destroy(f) ==
  /\ file[f] # NoFile
  /\ \A fd \in Fds : open[fd] # f
  /\ file' = [file EXCEPT ![f] = NoFile]
  /\ UNCHANGED <<open, fixed>>

Open(fd, f) ==
  /\ open[fd] = NoFile /\ file[f] # NoFile
  /\ open' = [open EXCEPT ![fd] = f]
  /\ UNCHANGED <<file, fixed>>

(* It is an error to close a file with pages still fixed.                  *)
Close(fd) ==
  /\ open[fd] # NoFile
  /\ \A id \in fixed : id[1] # fd
  /\ open' = [open EXCEPT ![fd] = NoFile]
  /\ UNCHANGED <<file, fixed>>

Fix(fd, pg) ==
  /\ IsPage(fd, pg)
  /\ <<fd, pg>> \notin fixed
  /\ fixed' = fixed \cup {<<fd, pg>>}
  /\ UNCHANGED <<file, open>>

Unfix(fd, pg) ==
  /\ <<fd, pg>> \in fixed
  /\ fixed' = fixed \ {<<fd, pg>>}
  /\ UNCHANGED <<file, open>>

Modify(fd, pg, v) ==
  /\ <<fd, pg>> \in fixed
  /\ file' = [file EXCEPT ![open[fd]][pg] = v]
  /\ UNCHANGED <<open, fixed>>

(* The new page is fixed; it was free, or follows the last page.           *)
Alloc(fd, pg) ==
  /\ open[fd] # NoFile
  /\ <<fd, pg>> \notin fixed
  /\ fixed' = fixed \cup {<<fd, pg>>}
  /\ LET old == file[open[fd]] IN
     /\ IF pg \in DOMAIN old THEN old[pg] = Free
        ELSE DOMAIN old = 0 .. pg - 1 /\ \A q \in DOMAIN old : old[q] # Free
     /\ \E v \in Data : file' = [file EXCEPT ![open[fd]] =
          [q \in DOMAIN old \cup {pg} |-> IF q = pg THEN v ELSE old[q]]]
  /\ UNCHANGED open

(* Only a page that is not fixed can be disposed of.                       *)
Dispose(fd, pg) ==
  /\ IsPage(fd, pg)
  /\ <<fd, pg>> \notin fixed
  /\ file' = [file EXCEPT ![open[fd]][pg] = Free]
  /\ UNCHANGED <<open, fixed>>

(* A call that fails, at whatever point, changes nothing that can be seen. *)
Fail == UNCHANGED vars

Next ==
  \/ Fail
  \/ \E f \in Files : Create(f) \/ Destroy(f)
  \/ \E fd \in Fds, f \in Files : Open(fd, f)
  \/ \E fd \in Fds : Close(fd)
  \/ \E fd \in Fds, pg \in 0 .. MaxPages - 1 :
       Fix(fd, pg) \/ Unfix(fd, pg) \/ Alloc(fd, pg) \/ Dispose(fd, pg)
  \/ \E fd \in Fds, pg \in 0 .. MaxPages - 1, v \in Data : Modify(fd, pg, v)

Spec == Init /\ [][Next]_vars

=============================================================================
