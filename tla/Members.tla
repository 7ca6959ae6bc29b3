------------------------------- MODULE Members -------------------------------
(***************************************************************************)
(* What a list or set column promises: the value behaves like Python's     *)
(* list (or deque) or set, every update with ListF or SetF applies to the  *)
(* value that is stored then, and save() stores the whole value of the     *)
(* client's instance.  Columns implements it over comma-separated text.    *)
(***************************************************************************)
EXTENDS Integers, SequencesExt

CONSTANTS Clients, Legal(_, _)

VARIABLES kind, members, memory, last

Updated ==
    CASE last'.op = "append" -> Append(members, last'.arg)
      [] last'.op = "appendleft" -> <<last'.arg>> \o members
      [] last'.op = "pop" -> IF members = <<>> THEN <<>> ELSE Front(members)
      [] last'.op = "popleft" -> IF members = <<>> THEN <<>> ELSE Tail(members)
      [] last'.op = "add" -> members \cup {last'.arg}
      [] last'.op = "remove" -> members \ {last'.arg}
      [] last'.op = "save" -> memory[last'.by]

Changes == {"append", "appendleft", "pop", "popleft", "add", "remove", "save"}

Init ==
    /\ kind \in {"list", "set"}
    /\ members = IF kind = "list" THEN <<>> ELSE {}
    /\ \A c \in Clients : memory[c] = members
    /\ last.op = "none"

\* A refused change has no effect, and no legal value is refused by a save.
Change ==
    /\ last'.op \in Changes
    /\ members' = IF last'.done THEN Updated ELSE members
    /\ last'.op = "save" => last'.done = Legal(kind, memory[last'.by])
    /\ UNCHANGED <<kind, memory>>

\* The value that a client reads is the one stored; a form yields legal ones.
Read ==
    /\ last'.op \in {"load", "edit", "clean"}
    /\ last'.op = "load" => memory'[last'.by] = members
    /\ last'.op = "clean" =>
        IF last'.done THEN Legal(kind, memory'[last'.by]) ELSE UNCHANGED memory
    /\ \A c \in Clients \ {last'.by} : memory'[c] = memory[c]
    /\ UNCHANGED <<kind, members>>

Next == Change \/ Read

Spec == Init /\ [][Next]_<<kind, members, memory, last>>

=============================================================================
