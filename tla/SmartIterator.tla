--------------------------- MODULE SmartIterator ---------------------------
(***************************************************************************)
(* One iteration of SmartChunkedIterator (models/query.py) over a table    *)
(* that other sessions change meanwhile.                                   *)
(*                                                                         *)
(* The generator finds the first and last primary key in two queries, then *)
(* yields the rows between them in slices of a size that follows the       *)
(* measured speed.  Between two next() calls the consumer evaluates the    *)
(* chunk, updates it, or walks away.                                       *)
(*                                                                         *)
(* A row matches the queryset, or exists without matching.  The order of   *)
(* the rows within one chunk is left out.                                  *)
(***************************************************************************)
EXTENDS Integers, FiniteSets

CONSTANTS
    Pks,         \* primary keys that rows may have
    Ranges,      \* pk_range arguments, and is the queryset reversed:
                 \* [kind, from, to, reverse]
    ChunkSizes,  \* chunk_size arguments
    ChunkMin, ChunkMax,
    Rates,       \* what WeightedAverageRate.update() may return
    Unknown,     \* objects_done of "???"
    NotFetched   \* _result_cache of None

ASSUME KeysAssumption == Pks \subseteq Int /\ IsFiniteSet(Pks)
ASSUME RangesAssumption ==
    Ranges \subseteq [kind : {"none", "all", "tuple"}, from : Int, to : Int,
                       reverse : BOOLEAN]
ASSUME SizesAssumption ==
    /\ ChunkSizes \subseteq Int /\ ChunkMin \in Int /\ ChunkMax \in Int
    /\ 0 < ChunkMin /\ ChunkMin <= ChunkMax
    /\ Rates \subseteq Nat
ASSUME SentinelsAssumption ==
    Unknown \notin Nat /\ \A keys \in SUBSET Pks : keys # NotFetched

VARIABLES
    table,      \* per key: "absent", "match" or "other"
    counter,    \* the highest key that was ever used
    conf,       \* range, atomically, and auto: do new rows get keys above
                \* the counter?
    pc,         \* where the generator is
    first, last, current,  \* first_pk, last_pk, current_pk
    size,       \* chunk_size
    start, end,            \* start_pk, end_pk of the chunk
    result,     \* the chunk's _result_cache: keys, or NotFetched
    pending,    \* rows the consumer changed in the open transaction
    objects,    \* objects_done: a number or Unknown
    \* History
    passed,     \* keys in the slices of finished chunks
    counted,    \* keys of the rows fetched in finished chunks
    steady,     \* keys of rows that no other session has touched
    born        \* auto-increment keys given out after last was found

\* Variables that most actions leave alone together.
db == <<table, counter>>
bounds == <<first, last>>
slice == <<start, end, result>>
progress == <<size, objects>>
history == <<passed, counted>>
rows == <<steady, born>>
vars == <<db, conf, pc, bounds, current, slice, pending, progress, history,
          rows>>

Present == {k \in Pks : table[k] # "absent"}
Matching == {k \in Pks : table[k] = "match"}

-----------------------------------------------------------------------------
(* get_first_and_last() *)

\* The rows among which the first and the last key are looked for.
Base == IF conf.range.kind = "all" THEN Present ELSE Matching

Setting(lo, hi) ==
    /\ pc' = "loop"
    /\ first' = lo /\ last' = hi /\ current' = lo

\* From the smallest to the largest key, unless the queryset is reversed.
SettingOrdered(lo, hi) == IF conf.range.reverse THEN Setting(hi, lo)
                                          ELSE Setting(lo, hi)

Rest == <<db, conf, slice, pending, progress, history, rows>>

GivenRange ==
    /\ pc = "start" /\ conf.range.kind = "tuple"
    /\ Setting(conf.range.from, conf.range.to)
    /\ UNCHANGED Rest

FindMin ==
    /\ pc = "start" /\ conf.range.kind # "tuple"
    /\ IF Base = {}
       THEN SettingOrdered(0, 0)
       ELSE /\ pc' = "max"
            /\ \E k \in Base : first' = k /\ \A j \in Base : k <= j
            /\ UNCHANGED <<last, current>>
    /\ UNCHANGED Rest

\* The second query may find nothing any more.
FindMax ==
    /\ pc = "max"
    /\ IF Base = {}
       THEN SettingOrdered(first, first)
       ELSE \E k \in Base : /\ \A j \in Base : j <= k
                            /\ SettingOrdered(first, k)
    /\ UNCHANGED Rest

-----------------------------------------------------------------------------
(* The loop of __iter__ *)

Forward == first <= last
Continues == IF Forward THEN current <= last ELSE current >= last

Lesser(a, b) == IF a <= b THEN a ELSE b
Greater(a, b) == IF a >= b THEN a ELSE b

\* Mutant: both ends are inclusive.
SliceInclusive(a, b) == {k \in Pks : k \in a .. b \/ k \in b .. a}

\* The keys of the slice from a, inclusive, to b, exclusive.
Slice(a, b) == IF Forward THEN {k \in Pks : a <= k /\ k < b}
                          ELSE {k \in Pks : b < k /\ k <= a}
Chunk == Slice(start, end)

SliceEndUncut(a) == a                   \* mutant: goes on after last
\* Mutant: stops before last.
SliceEndBefore(a) == IF Forward THEN Lesser(a, last) ELSE Greater(a, last)
SliceEnd(a) == IF Forward THEN Lesser(a, last + 1) ELSE Greater(a, last - 1)

\* The load is low enough: the chunk is made and yielded.
YieldChunk ==
    /\ pc = "loop" /\ Continues
    /\ start' = current
    /\ current' = IF Forward THEN current + size ELSE current - size
    /\ end' = SliceEnd(current')
    /\ result' = NotFetched
    /\ pc' = "chunk"
    /\ UNCHANGED <<db, conf, bounds, progress, pending, history, rows>>

\* wait_until_load_low() raises a TimeoutError.
LoadStaysHigh ==
    /\ pc = "loop" /\ Continues
    /\ pc' = "stopped"
    /\ UNCHANGED <<db, conf, bounds, current, progress, slice, pending,
                   history, rows>>

Finish ==
    /\ pc = "loop" /\ ~Continues
    /\ pc' = "done"
    /\ UNCHANGED <<db, conf, bounds, current, progress, slice, pending,
                   history, rows>>

Constrained(n) == Greater(Lesser(n, ChunkMax), ChunkMin)

\* Mutant: the size follows the rate, whatever it is.
SizesOfRates == IF result = {} THEN {size} ELSE Rates

\* A chunk in which nothing was found says nothing about the speed.
AdjustedSizes ==
    IF result = {} THEN {Constrained(size)}
    ELSE {Constrained(IF n < 1 THEN 1 ELSE n) : n \in Rates}

\* Mutant: counts the keys of a chunk that was not fetched.
CountedAll == IF objects = Unknown THEN Unknown
              ELSE objects + Cardinality(IF result = NotFetched THEN Chunk
                                                                ELSE result)
Counted == IF objects = Unknown \/ result = NotFetched THEN Unknown
           ELSE objects + Cardinality(result)

\* next(): the transaction commits and the chunk size is adjusted.
NextChunk ==
    /\ pc = "chunk"
    /\ pc' = "loop"
    /\ pending' = {}
    /\ objects' = Counted
    /\ size' \in AdjustedSizes
    /\ passed' = passed \cup Chunk
    /\ counted' = counted \cup (IF result = NotFetched THEN {} ELSE result)
    /\ UNCHANGED <<db, conf, bounds, current, slice, rows>>

\* Mutant: the transaction commits.
CloseCommits ==
    /\ pc = "chunk"
    /\ pc' = "stopped"
    /\ pending' = {}
    /\ UNCHANGED <<db, conf, bounds, current, progress, slice, history, rows>>

\* The consumer breaks out of its loop or fails: the generator is closed, and
\* the GeneratorExit at its yield rolls the transaction back.
Close ==
    /\ pc = "chunk"
    /\ pc' = "stopped"
    /\ pending' = {}
    /\ table' = [k \in Pks |-> IF k \in pending THEN "match" ELSE table[k]]
    /\ UNCHANGED <<counter, conf, bounds, current, progress, slice, history,
                   rows>>

-----------------------------------------------------------------------------
(* The consumer, in a chunk *)

\* It evaluates the chunk, once; SmartIterator does so for it.
Fetch ==
    /\ pc = "chunk" /\ result = NotFetched
    /\ result' = Chunk \cap Matching
    /\ UNCHANGED <<db, conf, pc, bounds, current, progress, start, end,
                   pending, history, rows>>

\* chunk.update() of what the queryset filters on; it drops the results.
Update ==
    /\ pc = "chunk"
    /\ LET hit == Chunk \cap Matching
       IN  /\ table' = [k \in Pks |-> IF k \in hit THEN "other" ELSE table[k]]
           /\ pending' = IF conf.atomically THEN pending \cup hit ELSE {}
    /\ result' = NotFetched
    /\ UNCHANGED <<counter, conf, pc, bounds, current, progress, start, end,
                   history, rows>>

-----------------------------------------------------------------------------
(* Other sessions; rows of the open transaction are locked *)

Change(k, status) ==
    /\ k \notin pending /\ table[k] # status
    /\ table' = [table EXCEPT ![k] = status]
    /\ steady' = steady \ {k}
    /\ UNCHANGED <<conf, pc, bounds, current, progress, slice, pending,
                   history>>

Insert(k, status) ==
    /\ table[k] = "absent" /\ status # "absent"
    /\ conf.auto => k > counter
    /\ Change(k, status)
    /\ counter' = Greater(k, counter)
    /\ born' = IF conf.auto /\ pc \notin {"start", "max"} THEN born \cup {k}
                                                       ELSE born

Alter(k, status) ==
    /\ table[k] # "absent"
    /\ Change(k, status)
    /\ UNCHANGED <<counter, born>>

\* What they do after the end does not concern the iteration.
Others == pc \notin {"done", "stopped"} /\ \E k \in Pks, status \in {"absent", "match", "other"} :
    Insert(k, status) \/ Alter(k, status)

Ended == pc \in {"done", "stopped"} /\ UNCHANGED vars

-----------------------------------------------------------------------------

Init ==
    /\ table \in [Pks -> {"absent", "match", "other"}]
    /\ counter \in Present \cup {0} /\ \A k \in Present \cup {0} : k <= counter
    /\ conf \in [range : Ranges, atomically : BOOLEAN, auto : BOOLEAN]
    /\ pc = "start"
    /\ first = 0 /\ last = 0 /\ current = 0
    /\ \E n \in ChunkSizes : size = Constrained(n)
    /\ start = 0 /\ end = 0
    /\ result = NotFetched
    /\ pending = {}
    /\ objects = 0
    /\ passed = {} /\ counted = {} /\ born = {}
    /\ steady = Matching

Generator == \/ GivenRange \/ FindMin \/ FindMax
             \/ YieldChunk \/ LoadStaysHigh \/ Finish
Consumer == Fetch \/ Update \/ NextChunk \/ Close

Next == Generator \/ Consumer \/ Others \/ Ended

Spec == Init /\ [][Next]_vars

\* The generator runs when it is asked to, and the consumer asks for the next
\* chunk or stops; other sessions do as they please.
FairSpec ==
    Spec /\ WF_vars(Generator) /\ WF_vars(NextChunk \/ Close)

-----------------------------------------------------------------------------
(* Properties *)

\* The state is well-formed: sizes stay within chunk_min and chunk_max, and
\* what is rolled back are rows of the open chunk.
TypeOK ==
    /\ table \in [Pks -> {"absent", "match", "other"}]
    /\ counter \in Int /\ current \in Int /\ start \in Int /\ end \in Int
    /\ first \in Int /\ last \in Int
    /\ conf \in [range : Ranges, atomically : BOOLEAN, auto : BOOLEAN]
    /\ pc \in {"start", "max", "loop", "chunk", "done", "stopped"}
    /\ size \in ChunkMin .. ChunkMax
    /\ result = NotFetched \/ result \subseteq Pks
    /\ pending \subseteq Pks /\ (pc # "chunk" => pending = {})
    /\ objects \in Nat \cup {Unknown}
    /\ passed \subseteq Pks /\ counted \subseteq Pks
    /\ steady \subseteq Pks /\ born \subseteq Pks

\* The keys from first to last, in either direction.
Span == {k \in Pks : IF Forward THEN first <= k /\ k <= last
                                ELSE last <= k /\ k <= first}

\* A finished iteration has offered, in some chunk, every row that matched
\* from beginning to end and whose key is in the range, however the chunk size
\* changed and whatever was inserted, changed or deleted around it.  Unless
\* the range was given, that is every such row of the table.
Covered ==
    pc = "done" => /\ steady \cap Span \subseteq passed
                   /\ conf.range.kind # "tuple" => steady \subseteq passed

\* No key is offered twice: the slices of two chunks never overlap.
NoOverlap == pc = "chunk" => Chunk \cap passed = {}

\* "Don't process rows that didn't exist at start of iteration"
\* (query.py:437): with keys from an auto-increment column, no chunk holds a
\* row inserted after the last key was found, even if that row is gone.
NewRowsSkipped ==
    conf.auto /\ conf.range.kind # "tuple" =>
        /\ born \cap passed = {}
        /\ pc = "chunk" => born \cap Chunk = {}

\* A chunk is atomic: when the iteration was abandoned in one, by the consumer
\* or because the load stayed high, the rows of no unfinished chunk are changed.
UnfinishedChunkUndone ==
    conf.atomically /\ pc \in {"done", "stopped"} =>
        \A k \in steady \ passed : table[k] = "match"

\* A number in the report is the number of different rows handed out in the
\* finished chunks; it becomes "???" as soon as one was not fetched as it is.
ReportCounts == objects # Unknown => objects = Cardinality(counted)

\* The iteration comes to an end, even while rows keep changing.
Terminates == pc = "start" ~> pc \in {"done", "stopped"}

=============================================================================
