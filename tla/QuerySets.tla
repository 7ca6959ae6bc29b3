------------------------------ MODULE QuerySets ------------------------------
(***************************************************************************)
(* The query sets of QuerySetMixin: hints, SQL_CALC_FOUND_ROWS with        *)
(* found_rows, and counts that may be approximate.  A program holds query  *)
(* sets in variables; a method that derives one makes a clone.  Statements *)
(* pass through rewrite_hook() to a table that other sessions change.      *)
(***************************************************************************)
EXTENDS RewriteQuery

CONSTANTS
    Names,      \* the program's variables
    Connections,
    Hints,      \* the marks that it asks for besides SQL_CALC_FOUND_ROWS
    Limits,     \* the slices it takes: upper bounds, 0 for [:0]
    Tries,      \* the options it gives to count_tries_approx():
                \* [fallBack, minSize]
    Tables,     \* what the table may hold: [size, matching, groups], and
                \* the estimate of INFORMATION_SCHEMA, tableRows
    MaxMarks,   \* bounds of the model: marks of a query set and
    MaxCalls,   \* calls of the program
    NoLimit, None, Absent,
    ValueError, RuntimeError

ASSUME QuerySetsAssumption ==
    /\ Limits \subseteq Nat /\ MaxMarks \in Nat /\ MaxCalls \in Nat
    /\ Tables \subseteq [size : Nat, matching : Nat, groups : Nat, tableRows : Nat]
    /\ \A t \in Tables : t.matching <= t.size /\ t.groups <= t.size
    /\ {NoLimit, None, Absent, ValueError, RuntimeError} \cap Nat = {}
    /\ Absent # None
ASSUME HintsAssumption == \A h \in Hints : h[1] = "mark"

VARIABLES
    table,
    lastFound,  \* per connection, what FOUND_ROWS() would answer
    querySets,
    fetching,   \* those whose rows are becoming instances, the latest last
    sent,       \* the latest statement, as Django made it and as it was sent
    said,       \* the latest answer
    calls

queryVars == <<table, lastFound, querySets, fetching, sent, said, calls>>

\* rows says which of the table's rows are asked for: all, some, or none, as
\* by none() and pk__in=[].  foundRows is the attribute _found_rows; trueTotal
\* and disturbed are for the properties: what it should be, and that a write
\* through the query set or a statement of the code that makes instances came
\* between.
All(c) == [db |-> c, marks |-> <<>>, rows |-> "all", grouped |-> FALSE,
           limit |-> NoLimit, tries |-> None, foundRows |-> Absent,
           resultCache |-> None, trueTotal |-> None, disturbed |-> FALSE]

QuerySetsInit ==
    /\ table \in Tables
    /\ lastFound = [c \in Connections |-> 0]
    /\ querySets \in [Names -> {All(c) : c \in Connections}]
    /\ fetching = <<>>
    /\ sent = [made |-> <<>>, got |-> <<>>]
    /\ said = [call |-> "none", answer |-> None]
    /\ calls = 0

\* A call on v is not made while v is fetched, but the code of instances (a
\* post_init handler, say) may use the others.
Calls(v) ==
    /\ calls < MaxCalls /\ calls' = calls + 1
    /\ v \notin Range(fetching)
Smaller(a, b) == IF a < b THEN a ELSE b

\* What the query set stands for: all rows, and those within the slice.
Matching(q) == IF q.rows = "all" THEN table.size
               ELSE IF q.rows = "some" THEN table.matching ELSE 0
Total(q) == IF q.grouped THEN Smaller(table.groups, Matching(q)) ELSE Matching(q)
Sliced(q) == IF q.limit = NoLimit THEN Total(q) ELSE Smaller(Total(q), q.limit)

\* Django sees that there can be no rows, and sends no statement.
Empty(q) == q.rows = "none" \/ q.limit = 0

\* The statements that Django makes; the marks are conditions in WHERE.
Distinct(q) == IF q.grouped THEN <<<<"hint", "DISTINCT">>>> ELSE <<>>
From == <<<<"table", "t">>, <<"sql", "WHERE">>>>
Select(q) == <<<<"keyword", "SELECT">>>> \o Distinct(q) \o <<<<"sql", "columns">>>>
             \o From \o q.marks \o <<<<"sql", "rest">>>>
SelectCount(q) ==
    <<<<"keyword", "SELECT">>, <<"sql", "COUNT(*)">>>>
    \o (IF q.grouped \/ q.limit # NoLimit
        THEN <<<<"sql", "FROM (SELECT ...">>>> \o From \o q.marks
             \o <<<<"sql", "LIMIT ...) subquery">>>>
        ELSE From \o q.marks \o <<<<"sql", "rest">>>>)
UpdateOf(q) == <<<<"keyword", "UPDATE">>, <<"sql", "t SET">>>> \o q.marks

\* rewrite_hook() is the innermost wrapper of execute().
Send(sql) == sent' = [made |-> sql, got |-> Rewrite(sql)]
Disturbed(c) ==
    [w \in Names |-> [querySets[w] EXCEPT
        !.disturbed = @ \/ (w \in Range(fetching) /\ querySets[w].db = c)]]
CalcsFoundRows(sql) == <<"hint", "SQL_CALC_FOUND_ROWS">> \in Range(sql)

-----------------------------------------------------------------------------
(* Methods that derive a query set.  They call _clone(). *)

CloneKeepsNumber(q) ==  \* mutant: the number of rows goes along
    [q EXCEPT !.resultCache = None, !.trueTotal = None]
Clone(q) ==
    [q EXCEPT !.resultCache = None, !.trueTotal = None, !.disturbed = FALSE,
              !.foundRows = IF @ = Absent THEN Absent ELSE None]

Derive(v, q) ==
    /\ Calls(v)
    /\ querySets' = [querySets EXCEPT ![v] = q]
    /\ said' = [call |-> "derive", answer |-> None]
    /\ UNCHANGED <<table, lastFound, fetching, sent>>

CopyTo(w, v) == Derive(w, Clone(querySets[v]))

\* Django refuses to filter a slice, and so to add marks to it.
Filter(v) ==
    /\ querySets[v].limit = NoLimit
    /\ Derive(v, [Clone(querySets[v]) EXCEPT
                    !.rows = IF @ = "none" THEN "none" ELSE "some"])

\* none(), which may be called on a slice, or pk__in=[].
ChooseNone(v) == Derive(v, [Clone(querySets[v]) EXCEPT !.rows = "none"])

\* values().distinct(), as all that select columns or groups.
Group(v) ==
    /\ querySets[v].limit = NoLimit
    /\ Derive(v, [Clone(querySets[v]) EXCEPT !.grouped = TRUE])

\* qs[:n] of a query set with results is a list.
Slice(v, n) ==
    /\ querySets[v].resultCache = None /\ querySets[v].limit = NoLimit
    /\ Derive(v, [Clone(querySets[v]) EXCEPT !.limit = n])

Hint(v, mark) ==
    /\ querySets[v].limit = NoLimit /\ Len(querySets[v].marks) < MaxMarks
    /\ Derive(v, [Clone(querySets[v]) EXCEPT !.marks = Append(@, mark)])

SqlCalcFoundRows(v) ==
    /\ querySets[v].limit = NoLimit /\ Len(querySets[v].marks) < MaxMarks
    /\ Derive(v, [Clone(querySets[v]) EXCEPT
                    !.marks = Append(@, <<"mark", "hint", "SQL_CALC_FOUND_ROWS">>),
                    !.foundRows = None])

\* Without activate the options are dropped.
CountTriesApprox(v, options) ==
    Derive(v, [Clone(querySets[v]) EXCEPT !.tries = options])

-----------------------------------------------------------------------------
(* Methods that send statements. *)

\* The setter of _result_cache asks for FOUND_ROWS() when there is no number
\* yet, also when Django sets the cache to None.
AsksFoundRows(q) == q.foundRows = None
WithResultCache(q, value) ==
    [q EXCEPT !.resultCache = value,
              !.foundRows = IF AsksFoundRows(q) THEN lastFound[q.db] ELSE @]
LastFoundAfterSet(q) ==
    IF AsksFoundRows(q) THEN [lastFound EXCEPT ![q.db] = 1] ELSE lastFound

\* What FOUND_ROWS() answers after a SELECT of the rows.
Found(q) == IF CalcsFoundRows(Rewrite(Select(q))) THEN Total(q) ELSE Sliced(q)

\* _fetch_all() executes the SELECT, makes instances of the rows ...
Evaluate(v) ==
    LET q == querySets[v] IN
    /\ Calls(v) /\ q.resultCache = None /\ ~Empty(q)
    /\ Send(Select(q))
    /\ lastFound' = [lastFound EXCEPT ![q.db] = Found(q)]
    /\ querySets' = [Disturbed(q.db) EXCEPT
                        ![v] = [@ EXCEPT !.trueTotal = <<Total(q), Sliced(q)>>]]
    /\ fetching' = Append(fetching, v)
    /\ said' = [call |-> "evaluate", answer |-> Sliced(q)]
    /\ UNCHANGED table

\* ... and then sets _result_cache.
Fetched ==
    /\ fetching # <<>>
    /\ LET v == Last(fetching)
           q == querySets[v]
       IN  /\ querySets' = [querySets EXCEPT
                    ![v] = [WithResultCache(q, q.trueTotal[2]) EXCEPT
                                !.trueTotal = @[1]]]
           /\ lastFound' = LastFoundAfterSet(q)
    /\ fetching' = Front(fetching)
    /\ UNCHANGED <<table, sent, said, calls>>

\* Of an empty query set it is set at once, with the number of a SELECT that
\* somebody else sent.
AfterAsking(q) == IF AsksFoundRows(q) THEN Disturbed(q.db) ELSE querySets
EvaluateEmpty(v) ==
    LET q == querySets[v] IN
    /\ Calls(v) /\ q.resultCache = None /\ Empty(q)
    /\ querySets' = [AfterAsking(q) EXCEPT
                ![v] = [WithResultCache(q, 0) EXCEPT !.trueTotal = Total(q)]]
    /\ lastFound' = LastFoundAfterSet(q)
    /\ said' = [call |-> "evaluate", answer |-> 0]
    /\ UNCHANGED <<table, fetching, sent>>

\* update() and delete() end with self._result_cache = None.
UpdateRows(v) ==
    LET q == querySets[v] IN
    /\ Calls(v) /\ q.limit = NoLimit
    /\ IF Empty(q) THEN UNCHANGED sent ELSE Send(UpdateOf(q))
    /\ querySets' = [IF Empty(q) THEN AfterAsking(q) ELSE Disturbed(q.db) EXCEPT
                ![v] = [WithResultCache(q, None) EXCEPT !.disturbed = TRUE]]
    /\ lastFound' = LastFoundAfterSet(q)
    /\ said' = [call |-> "update", answer |-> None]
    /\ UNCHANGED <<table, fetching>>

FoundRows(v) ==
    /\ Calls(v)
    /\ said' = [call |-> "found_rows",
                answer |-> CASE querySets[v].foundRows = Absent -> ValueError
                             [] querySets[v].foundRows = None -> RuntimeError
                             [] OTHER -> querySets[v].foundRows]
    /\ UNCHANGED <<table, lastFound, querySets, fetching, sent>>

\* iterator() passes the cache by; it is refused where found_rows would wait.
Iterator(v) ==
    LET q == querySets[v] IN
    /\ Calls(v)
    /\ said' = [call |-> "iterator",
                answer |-> IF q.foundRows = None THEN ValueError ELSE Sliced(q)]
    /\ IF q.foundRows = None \/ Empty(q)
       THEN UNCHANGED <<lastFound, querySets, sent>>
       ELSE /\ Send(Select(q))
            /\ lastFound' = [lastFound EXCEPT ![q.db] = Found(q)]
            /\ querySets' = Disturbed(q.db)
    /\ UNCHANGED <<table, fetching>>

\* can_approx_count(): marks in the WHERE clause do no harm.
CanApproxCountSlices(q) == q.rows = "all" /\ ~q.grouped  \* mutant
CanApproxCount(q) == q.rows = "all" /\ ~q.grouped /\ q.limit = NoLimit
IsApprox(q, options) ==
    /\ options # None /\ CanApproxCount(q)
    /\ options.minSize = 0 \/ table.tableRows >= options.minSize

\* count() with the options of count_tries_approx(), and approx_count() with
\* options of its own.  Both SELECTs that may be sent return one row; Django
\* counts the results that it has.
CountWith(v, options) ==
    LET q == querySets[v]
        looks == options # None /\ CanApproxCount(q)
        refuses == options # None /\ ~CanApproxCount(q) /\ ~options.fallBack
        asks == /\ ~refuses /\ ~IsApprox(q, options) /\ q.resultCache = None
                /\ ~Empty(q)
    IN
    /\ Calls(v)
    /\ said' = [call |-> "count",
                answer |-> IF refuses THEN ValueError
                           ELSE IF IsApprox(q, options) THEN table.tableRows
                           ELSE IF q.resultCache = None THEN Sliced(q)
                           ELSE q.resultCache]
    /\ IF asks THEN Send(SelectCount(q)) ELSE UNCHANGED sent
    /\ IF asks \/ looks
       THEN /\ lastFound' = [lastFound EXCEPT ![q.db] = 1]
            /\ querySets' = Disturbed(q.db)
       ELSE UNCHANGED <<lastFound, querySets>>
    /\ UNCHANGED <<table, fetching>>

Count(v) == CountWith(v, querySets[v].tries)

TableChanges ==
    /\ calls < MaxCalls
    /\ table' \in Tables
    /\ UNCHANGED <<lastFound, querySets, fetching, sent, said, calls>>

QuerySetsNext ==
    \/ \E v \in Names :
        \/ Filter(v) \/ ChooseNone(v) \/ Group(v) \/ SqlCalcFoundRows(v)
        \/ \E w \in Names \ {v} : CopyTo(w, v)
        \/ \E n \in Limits : Slice(v, n)
        \/ \E h \in Hints : Hint(v, h)
        \/ \E o \in Tries \cup {None} : CountTriesApprox(v, o)
        \/ \E o \in Tries : CountWith(v, o)
        \/ Evaluate(v) \/ EvaluateEmpty(v) \/ UpdateRows(v)
        \/ FoundRows(v) \/ Iterator(v) \/ Count(v)
    \/ Fetched \/ TableChanges

QuerySetsSpec == QuerySetsInit /\ [][QuerySetsNext]_queryVars

-----------------------------------------------------------------------------
(* Properties *)

\* found_rows of a query set that was evaluated is the number of rows that
\* its evaluation would have had without its slice, whatever other query
\* sets, counts and clones were used on the connection and whatever hints it
\* asked for - unless update() was called on it, or the code that makes the
\* instances sent statements on the same connection.  It does not hold of
\* empty query sets, for which no SELECT is sent: theirs is what the latest
\* SELECT on the connection found, whoever sent that.
FoundRowsRight ==
    \A v \in Names :
        LET q == querySets[v] IN
        ~q.disturbed /\ ~Empty(q) /\ v \notin Range(fetching) =>
            q.foundRows \in {Absent, q.trueTotal}

\* Each statement reaches the server with the hints that the query set asked
\* for, in valid places, and otherwise as Django made it.
HintsReachServer ==
    sent.made # <<>> => RewriteRight(sent.made, sent.got)

\* If the estimate of the server is right then so is every count, whatever
\* the query set and the options: only counts of the table are approximated.
OnlyTablesApproximated ==
    [][\A v \in Names, o \in Tries \cup {None} :
        table.tableRows = table.size /\ said'.call = "count" /\ CountWith(v, o) =>
            said'.answer \in {ValueError, Sliced(querySets[v]),
                              querySets[v].resultCache}
      ]_queryVars

=============================================================================
