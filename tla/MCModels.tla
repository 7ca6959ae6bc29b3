------------------------------ MODULE MCModels -------------------------------
(***************************************************************************)
(* Instances for TLC of QuerySets, Columns and DynamicColumns, and of      *)
(* RewriteQuery on raw statements: a behaviour runs one of them, which     *)
(* part names.                                                             *)
(***************************************************************************)
EXTENDS QuerySets, Columns, DynamicColumns

CONSTANT RawMarks

VARIABLE part

vars == <<queryVars, columnVars, dynamicVars, part>>

Fixed == /\ table.size = 2
         /\ \E c \in Connections : querySets = [v \in Names |-> All(c)]
Init ==
    /\ QuerySetsInit /\ ColumnsInit /\ DynamicInit
    /\ part \in {"queries", "columns", "dynamic", "raw"}
    /\ part # "queries" => Fixed
    /\ part # "columns" => kind = "list"
    /\ part # "dynamic" => spec = (<<"size">> :> <<"type", "int">>)

QueriesPart == /\ part = "queries" /\ QuerySetsNext
               /\ UNCHANGED <<columnVars, dynamicVars, part>>
ColumnsPart == /\ part = "columns" /\ ColumnsNext
               /\ UNCHANGED <<queryVars, dynamicVars, part>>
DynamicPart == /\ part = "dynamic" /\ DynamicNext
               /\ UNCHANGED <<queryVars, columnVars, part>>

\* Statements of other code: comments, hints in order, joins, any keyword.
Keywords == {"SELECT", "UPDATE", "EXPLAIN"}
Comments == {<<>>, <<<<"comment", "seen">>>>}
HintsThere == {<<>>, <<<<"hint", "DISTINCT">>>>,
               <<<<"hint", "DISTINCT">>, <<"hint", "SQL_CACHE">>>>}
Froms == {<<<<"table", "t">>>>, <<<<"table", "u">>, <<"table", "t">>>>,
          <<<<"table", "t">>, <<"table", "t">>>>}
MarkSeqs == UNION {[1..n -> RawMarks] : n \in 0..2}
RawPart ==
    /\ part = "raw" /\ calls = 0 /\ calls' = 1
    /\ \E k \in Keywords, c \in Comments, h \in HintsThere, f \in Froms,
          m1 \in MarkSeqs, m2 \in MarkSeqs :
        /\ Len(m1) <= 1
        /\ k # "SELECT" => h = <<>>
        /\ Send(<<<<"keyword", k>>>> \o c \o m1 \o h \o <<<<"sql", "columns">>>> \o f
                \o <<<<"sql", "WHERE">>>> \o m2)
    /\ UNCHANGED <<table, lastFound, querySets, fetching, said, columnVars,
                   dynamicVars, part>>

\* The calls of the model are used up.
Ended ==
    /\ \/ part = "raw" /\ calls = 1
       \/ part = "queries" /\ calls = MaxCalls /\ fetching = <<>>
    /\ UNCHANGED vars

Next == QueriesPart \/ ColumnsPart \/ DynamicPart \/ RawPart \/ Ended
Spec == Init /\ [][Next]_vars

SomeTables == {[size |-> 2, matching |-> 1, groups |-> 1, tableRows |-> 2],
               [size |-> 3, matching |-> 2, groups |-> 1, tableRows |-> 1]}
SomeHints == {<<"mark", "hint", "SQL_NO_CACHE">>}
SomeTries == {[fallBack |-> TRUE, minSize |-> 2], [fallBack |-> FALSE, minSize |-> 0]}
SomeRawMarks == {<<"mark", "hint", "SQL_NO_CACHE">>, <<"mark", "hint", "SQL_CACHE">>,
                 <<"mark", "hint", "STRAIGHT_JOIN">>, <<"mark", "label", "mine">>,
                 <<"mark", "index", "t", "USE i">>, <<"mark", "index", "u", "FORCE j">>,
                 <<"mark", "index", "t", "IGNORE k">>, <<"mark", "unknown">>}
Short == <<"a">>
Long == <<"b", "a">>
OneOrTwo == {Short, Long}
InPython == [k \in {"list", "set"} |->
    IF k = "list" THEN {<<Long, Short>>, <<Short, <<"a", ",", "a">>>>, <<Long, Long, Short>>}
    ELSE {{Long, Short}, {Short, <<>>}}]
Typed == {<<>>, Short \o <<",">> \o Long, Short \o <<",", " ">> \o Short,
          Short \o <<",", ",">> \o Short, <<" ">>, Short \o Long,
          Short \o <<",">> \o Short \o <<",">> \o Long}
Type(t) == <<"type", t>>
Scalar(t) == <<"value", t>>
Key(k) == <<k>>
Inner == {Key("size") :> Type("int") @@ Key("name") :> Type("str"), Key("size") :> Type("list")}
SomeSpecs ==
    {<<>>, Key("size") :> Type("int"), Key("day") :> Type("date"),
     <<"size", "CHAR">> :> Type("int"), Key("box") :> Type("dict"),
     Key("dumb") :> Type("str")}
        \cup Inner \cup {Key("box") :> <<"dict", s>> : s \in Inner}
SomeTransforms == {Key("dumb")}
Plain == {Key("size") :> Scalar(t) : t \in {"int", "bool", "str"}}
            \cup {Key("day") :> Scalar(t) : t \in {"date", "datetime"}}
            \cup {<<"size", "CHAR">> :> Scalar(t) : t \in {"int", "str"}}
            \cup {Key("dumb") :> Scalar("str")}
SomeMappings == {<<>>} \cup Plain \cup {Key("box") :> <<"dict", m>> : m \in Plain}
                      \cup {Key("box") :> Scalar("str")}
Symmetry == Permutations(Names) \cup Permutations(Connections)

=============================================================================
