---------------------------- MODULE RewriteQuery -----------------------------
(***************************************************************************)
(* rewrite_query(): marks in the text of a statement, which the query set  *)
(* methods put in its WHERE clause, become comments, SELECT hints and      *)
(* index hints.  A statement is a sequence of tokens:                      *)
(*   <<"keyword", "SELECT">>        the first token                        *)
(*   <<"comment", text>>            also optimizer hints                   *)
(*   <<"hint", "DISTINCT">>         a word of SelectHints                  *)
(*   <<"table", name>>              FROM or JOIN, the name, its alias      *)
(*   <<"index", table, text>>       an index hint                          *)
(*   <<"mark", "label", text>>, <<"mark", "hint", "SQL_CACHE">>,           *)
(*   <<"mark", "index", table, text>>, <<"mark", "unknown">>               *)
(*   <<"sql", text>>                anything else                          *)
(***************************************************************************)
EXTENDS Integers, SequencesExt

\* The grammar's groups of mutually exclusive hints, in its order.
SelectHints == <<{"ALL", "DISTINCT", "DISTINCTROW"}, {"HIGH_PRIORITY"},
    {"STRAIGHT_JOIN"}, {"SQL_SMALL_RESULT", "SQL_BIG_RESULT"},
    {"SQL_BUFFER_RESULT"}, {"SQL_CACHE", "SQL_NO_CACHE"},
    {"SQL_CALC_FOUND_ROWS"}>>
Groups == DOMAIN SelectHints

\* The elements of s that are in S, in their order.
Only(s, S) ==
    LET only[n \in 0..Len(s)] ==
            IF n = 0 THEN <<>>
            ELSE IF s[n] \in S THEN Append(only[n - 1], s[n]) ELSE only[n - 1]
    IN  only[Len(s)]

Of(kind, sql) == Only(sql, {t \in Range(sql) : t[1] = kind})
Without(kinds, sql) == Only(sql, {t \in Range(sql) : t[1] \notin kinds})
Marks(sort, sql) == Only(sql, {t \in Range(sql) : t[1] = "mark" /\ t[2] = sort})
HintsFrom(g, hints) == Only(hints, SelectHints[g])

\* query_start_re: the keyword, comments, and hints in the grammar's order.
Understood(sql) ==
    /\ sql # <<>> /\ sql[1][1] = "keyword"
    /\ sql[1][2] \in {"SELECT", "UPDATE", "DELETE"}
CommentsEnd(sql) ==
    CHOOSE i \in DOMAIN sql :
        /\ \A j \in 2..i : sql[j][1] = "comment"
        /\ i = Len(sql) \/ sql[i + 1][1] # "comment"
HintsEnd(sql) ==  \* per group, where the match of it ends
    LET end[g \in 0..Len(SelectHints)] ==
            IF g = 0 THEN CommentsEnd(sql)
            ELSE LET i == end[g - 1] IN
                 IF i < Len(sql) /\ sql[i + 1][1] = "hint"
                        /\ sql[i + 1][2] \in SelectHints[g]
                 THEN i + 1 ELSE i
    IN  end

\* The hint of a group: the last one to add, or else what was there.
ChosenAdded(there, add) ==  \* mutant: loses what was there
    IF add = <<>> THEN <<>> ELSE <<"hint", Last(add)>>
Chosen(there, add) == IF add = <<>> THEN there ELSE <<"hint", Last(add)>>

\* An index hint goes behind the first mention of its table.
AddIndexHint(sql, mark) ==
    LET mentions == {i \in 1..Len(sql) - 1 : sql[i] = <<"table", mark[3]>>}
        first == CHOOSE i \in mentions : \A j \in mentions : i <= j
    IN  IF mentions = {} THEN sql
        ELSE InsertAt(sql, first + 1, <<"index", mark[3], mark[4]>>)
AddIndexHints(sql, marks) ==
    LET add[n \in 0..Len(marks)] ==
            IF n = 0 THEN sql ELSE AddIndexHint(add[n - 1], marks[n])
    IN  add[Len(marks)]

ModifySql(sql, labels, hints, indexHints) ==
    LET select == sql[1][2] = "SELECT"
        end == HintsEnd(sql)
        there(g) == IF end[g] > end[g - 1] THEN sql[end[g]] ELSE <<>>
        chosen == [g \in Groups |-> Chosen(there(g), HintsFrom(g, hints))]
        rest == SubSeq(sql, end[Len(SelectHints)] + 1, Len(sql))
    IN  SubSeq(sql, 1, CommentsEnd(sql))
        \o [i \in DOMAIN labels |-> <<"comment", labels[i][3]>>]
        \o (IF select
            THEN Only(chosen, Range(chosen) \ {<<>>})
                 \o AddIndexHints(rest, indexHints)
            ELSE rest)

Rewrite(sql) ==
    LET plain == Without({"mark"}, sql)
        marks == Marks("hint", sql)
        hints == [i \in DOMAIN marks |-> marks[i][3]]
        labels == Marks("label", sql)
        indexHints == Marks("index", sql)
    IN  IF labels \o marks \o indexHints = <<>> \/ ~Understood(plain) THEN plain
        ELSE ModifySql(plain, labels, hints, indexHints)

-----------------------------------------------------------------------------
(* What a rewritten statement should be, said of the two statements whole. *)

GroupOf(hint) == CHOOSE g \in Groups : hint \in SelectHints[g]
Wanted(g, sql) ==
    LET marks == Marks("hint", sql) IN
    HintsFrom(g, [i \in DOMAIN marks |-> marks[i][3]])
Words(g, sql) ==
    Only(sql, {t \in Range(sql) : t[1] = "hint" /\ t[2] \in SelectHints[g]})

\* One hint of a group, the last asked for; comments before hints and hints
\* in the grammar's order.
HintsRight(before, after) ==
    IF before[1][2] = "SELECT"
    THEN /\ \A g \in Groups :
                Words(g, after) = IF Wanted(g, before) = <<>> THEN Words(g, before)
                                  ELSE <<<<"hint", Last(Wanted(g, before))>>>>
         /\ \A i \in 2..Len(after) :
                after[i][1] = "hint" =>
                    \/ after[i - 1][1] \in {"keyword", "comment"}
                    \/ /\ after[i - 1][1] = "hint"
                       /\ GroupOf(after[i - 1][2]) < GroupOf(after[i][2])
    ELSE \A g \in Groups : Words(g, after) = <<>>

\* Labels follow the comments that were there; every table that is named has
\* the index hints for it behind its first mention.
CommentsRight(before, after) ==
    LET labels == Marks("label", before) IN
    Of("comment", after) = Of("comment", before)
                \o [i \in DOMAIN labels |-> <<"comment", labels[i][3]>>]
IndexesRight(before, after) ==
    \A i \in DOMAIN after :
        after[i][1] = "index" =>
            \E j \in 1..i - 1 :
                /\ after[j] = <<"table", after[i][2]>>
                /\ \A k \in 1..j - 1 : after[k] # after[j]
                /\ \A k \in j + 1..i : after[k][1] = "index"

\* Nothing else of the statement changes, and no mark reaches the server.
Bare(sql) == Without({"mark", "comment", "hint", "index"}, sql)

RewriteRight(before, after) ==
    /\ Bare(after) = Bare(before) /\ Of("mark", after) = <<>>
    /\ IF Understood(before)
       THEN /\ HintsRight(before, after) /\ CommentsRight(before, after)
            /\ IndexesRight(before, after)
            /\ before[1][2] = "SELECT" =>
                \A m \in Range(Marks("index", before)) :
                    <<"table", m[3]>> \in Range(Front(Without({"mark"}, before)))
                        => <<"index", m[3], m[4]>> \in Range(after)
       ELSE after = Without({"mark"}, before)

=============================================================================
