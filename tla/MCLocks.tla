------------------------------ MODULE MCLocks -------------------------------
(* An instance of Locks for TLC: a model and its parent, one lock name. *)
EXTENDS Locks

ParentOf == [t \in Tables |-> IF t = "child" THEN {"parent"} ELSE {}]
Lists == {[read |-> {}, write |-> {"child"}],
          [read |-> {"parent"}, write |-> {}], Nothing}

=============================================================================
