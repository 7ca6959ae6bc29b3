----------------------------- MODULE LikePattern -----------------------------
(***************************************************************************)
(* The operator LIKE of MySQL on sequences of characters, as far as the    *)
(* code uses it: % stands for any characters, _ for one, and a backslash,  *)
(* the default escape character, takes the meaning from what follows it.   *)
(***************************************************************************)
EXTENDS Integers, Sequences

\* Of the backslashes in a row the first escapes the second, the third the
\* fourth; one that ends the pattern stands for itself.
Backslash == "\\"
Escapes(p, j) ==
    /\ j \in 1..Len(p) - 1
    /\ \E i \in 1..j : /\ (j - i) % 2 = 0
                       /\ \A k \in i..j : p[k] = Backslash
                       /\ i > 1 => p[i - 1] # Backslash

\* How far in s the first j characters of the pattern p can reach, from where
\* the characters before do.
Reach(s, p, j, before) ==
    IF Escapes(p, j) THEN before
    ELSE IF Escapes(p, j - 1) \/ p[j] \notin {"%", "_"}
    THEN {k \in 1..Len(s) : k - 1 \in before /\ s[k] = p[j]}
    ELSE IF p[j] = "_" THEN {k \in 1..Len(s) : k - 1 \in before}
    ELSE {k \in 0..Len(s) : \E i \in before : i <= k}
Like(s, pattern) ==
    LET reach[j \in 0..Len(pattern)] ==
            IF j = 0 THEN {0} ELSE Reach(s, pattern, j, reach[j - 1])
    IN  Len(s) \in reach[Len(pattern)]

BeginsWith(s, prefix) ==
    Len(prefix) <= Len(s) /\ SubSeq(s, 1, Len(prefix)) = prefix

\* Nothing in s has a meaning of its own.
Plainly(s) == \A i \in DOMAIN s : s[i] \notin {"%", "_", Backslash}

=============================================================================
