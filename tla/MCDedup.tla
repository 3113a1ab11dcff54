------------------------------- MODULE MCDedup -------------------------------
(* DedupFilter instantiated for TLC. *)
EXTENDS DedupFilter, TLC

Message(id) == [kind |-> "message", self_id |-> 1, id |-> id, sub_type |-> "group",
                time |-> 0, extra |-> "none"]

Messages == {Message(1), Message(2)}

Symmetry == Permutations(Tasks)

=============================================================================
