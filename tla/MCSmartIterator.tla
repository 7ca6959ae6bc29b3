-------------------------- MODULE MCSmartIterator --------------------------
(* An instance of SmartIterator for TLC. *)
EXTENDS SmartIterator

Args(kind, a, b, reverse) ==
    [kind |-> kind, from |-> a, to |-> b, reverse |-> reverse]

\* Ranges of both directions, wider and narrower than the keys.  A given range
\* decides the direction by itself.
SomeRanges == {Args("none", 0, 0, FALSE), Args("none", 0, 0, TRUE),
               Args("all", 0, 0, FALSE), Args("all", 0, 0, TRUE),
               Args("tuple", 0, 2, FALSE), Args("tuple", 4, 2, FALSE)}

=============================================================================
