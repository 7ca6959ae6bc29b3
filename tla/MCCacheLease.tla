---------------------------- MODULE MCCacheLease ----------------------------
(* An instance of CacheLease for TLC. *)
EXTENDS CacheLease

CONSTANTS c1, c2, c3

Jobs == {[kind |-> "small", n |-> 1]}
NoSets == {}
Lengths == {1, 2}
NoDeltas == {}
Unlimited == -1
MinusOne == -1
AddAndCull == [c \in Clients |-> IF c = c3 THEN {"cull"} ELSE {"add", "get"}]
SomeSkew == [c \in Clients |-> IF c = c1 THEN 0 ELSE 1]
NoCompression == [c \in Clients |-> FALSE]

=============================================================================
