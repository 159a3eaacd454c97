------------------------------ MODULE AMIndex ------------------------------
(***************************************************************************)
(* What an index of the Access Method layer promises (amlayer/include/     *)
(* am.h): it is a set of pairs of a key and a record id, and each call     *)
(* inserts one, deletes one, or says why not.                              *)
(***************************************************************************)
EXTENDS Integers

CONSTANTS Keys, RecIds

VARIABLES entries, call, ret

Idle == [op |-> "idle"]
Call(op, key, id) == [op |-> op, key |-> key, id |-> id]
OK(op) == [op |-> op]
Error(op, err) == [op |-> op, err |-> err]

Init == entries = {} /\ call = Idle /\ ret = OK("none")

Start(op, key, id) ==
  /\ call = Idle
  /\ call' = Call(op, key, id)
  /\ UNCHANGED <<ret, entries>>

Return(r) == call' = Idle /\ ret' = r

Pair == <<call.key, call.id>>

InsertEntry ==
  /\ call.op = "insert"
  /\ Return(OK("insert"))
  /\ entries' = entries \cup {Pair}

DeleteEntry ==
  /\ call.op = "delete"
  /\ Return(OK("delete"))
  /\ Pair \in entries /\ entries' = entries \ {Pair}

NotFound ==
  /\ call.op = "delete"
  /\ Return(Error("delete", "NOTFOUND"))
  /\ Pair \notin entries /\ UNCHANGED entries

(* An error of the Paged File layer, at once or in the course of the call. *)
(* An entry may or may not have been inserted, and no other entry changes. *)
Fails(op) ==
  /\ call = Idle \/ call.op = op
  /\ Return(Error(op, "PF"))
  /\ \/ UNCHANGED entries
     \/ call.op = "insert" /\ entries' = entries \cup {Pair}

Next ==
  \/ \E op \in {"insert", "delete"}, key \in Keys, id \in RecIds : Start(op, key, id)
  \/ InsertEntry \/ DeleteEntry \/ NotFound
  \/ \E op \in {"insert", "delete"} : Fails(op)

Spec == Init /\ [][Next]_<<ret, call, entries>>

=============================================================================
