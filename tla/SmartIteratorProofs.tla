------------------------ MODULE SmartIteratorProofs ------------------------
(***************************************************************************)
(* The slices of an iteration are disjoint and leave no gap: a finished    *)
(* iteration has offered every row that matched all along, for any keys,   *)
(* ranges, chunk sizes and rates, and whatever other sessions do.          *)
(*                                                                         *)
(* The keys passed are always those of the span before the current key;    *)
(* and a row that nobody touches matches when the ends of the span are     *)
(* looked for, so that it lies between them.                               *)
(*                                                                         *)
(* The number in the report is that of different rows, because a chunk     *)
(* shares none with those before it and its result lies within it.         *)
(*                                                                         *)
(* A chunk takes the iteration on, so that it has finitely many steps.     *)
(***************************************************************************)
EXTENDS SmartIterator, FiniteSetTheorems, TLAPS

\* The keys of the span before key a, in the direction of the iteration.
Walked(a) == {k \in Span : IF Forward THEN k < a ELSE a < k}

\* Key a is within the span, or just after it.
Within(a) == IF Forward THEN first <= a ELSE a <= first

WalkInv ==
    /\ pc \in {"start", "max"} => passed = {}
    /\ pc = "loop" => passed = Walked(current) /\ Within(current)
    /\ pc = "chunk" => /\ passed = Walked(start) /\ Within(start)
                       /\ IF Forward THEN start <= last /\ start < current
                                     ELSE last <= start /\ current < start
                       /\ end = SliceEnd(current)
    /\ pc = "done" => passed = Span

SteadyInv ==
    /\ pc \in {"start", "max"} => steady \subseteq Matching
    /\ pc = "max" => \A k \in steady : first <= k
    /\ pc \notin {"start", "max"} /\ conf.range.kind # "tuple" =>
           steady \subseteq Span

-----------------------------------------------------------------------------
(* Type correctness *)

LEMMA ConstrainedInRange ==
    ASSUME NEW n \in Int
    PROVE  Constrained(n) \in ChunkMin .. ChunkMax
BY SizesAssumption DEF Constrained, Lesser, Greater

LEMMA AdjustedInRange ==
    ASSUME TypeOK
    PROVE  AdjustedSizes \subseteq ChunkMin .. ChunkMax
<1>1. size \in Int
  BY SizesAssumption DEF TypeOK
<1>2. CASE result = {}
  BY <1>1, <1>2, ConstrainedInRange DEF AdjustedSizes
<1>3. CASE result # {}
  <2>1. \A n \in Rates : (IF n < 1 THEN 1 ELSE n) \in Int
    BY SizesAssumption
  <2> QED
    BY <1>3, <2>1, ConstrainedInRange DEF AdjustedSizes
<1> QED
  BY <1>2, <1>3

LEMMA CountedType ==
    ASSUME TypeOK
    PROVE  Counted \in Nat \cup {Unknown}
<1>1. CASE objects = Unknown \/ result = NotFetched
  BY <1>1 DEF Counted
<1>2. CASE objects # Unknown /\ result # NotFetched
  <2>1. result \subseteq Pks /\ objects \in Nat
    BY <1>2 DEF TypeOK
  <2>2. Cardinality(result) \in Nat
    BY <2>1, KeysAssumption, FS_Subset, FS_CardinalityType
  <2> QED
    BY <1>2, <2>1, <2>2 DEF Counted
<1> QED
  BY <1>1, <1>2

LEMMA TypeInit == Init => TypeOK
<1> SUFFICES ASSUME Init PROVE TypeOK
  OBVIOUS
<1>1. size \in ChunkMin .. ChunkMax
  BY SizesAssumption, ConstrainedInRange DEF Init
<1>2. counter \in Int
  BY KeysAssumption DEF Init, Present
<1>3. steady \subseteq Pks
  BY DEF Init, Matching
<1> QED
  BY <1>1, <1>2, <1>3 DEF Init, TypeOK

LEMMA TypeStep == TypeOK /\ [Next]_vars => TypeOK'
<1> SUFFICES ASSUME TypeOK, [Next]_vars PROVE TypeOK'
  OBVIOUS
<1> USE DEF TypeOK, vars, db, bounds, slice, progress, history, rows
<1>1. CASE GivenRange
  <2>1. conf.range.from \in Int /\ conf.range.to \in Int
    BY RangesAssumption
  <2> QED
    BY <1>1, <2>1 DEF GivenRange, Setting, Rest
<1>2. CASE FindMin
  <2>1. Base \subseteq Int
    BY KeysAssumption DEF Base, Present, Matching
  <2> QED
    BY <1>2, <2>1 DEF FindMin, SettingOrdered, Setting, Rest
<1>3. CASE FindMax
  <2>1. Base \subseteq Int
    BY KeysAssumption DEF Base, Present, Matching
  <2> QED
    BY <1>3, <2>1 DEF FindMax, SettingOrdered, Setting, Rest
<1>4. CASE YieldChunk
  <2>1. size \in Int
    BY SizesAssumption
  <2>2. current' \in Int
    BY <1>4, <2>1 DEF YieldChunk
  <2>3. end' \in Int
    BY <1>4, <2>2 DEF YieldChunk, SliceEnd, Lesser, Greater
  <2> QED
    BY <1>4, <2>2, <2>3 DEF YieldChunk
<1>5. CASE LoadStaysHigh
  BY <1>5 DEF LoadStaysHigh
<1>6. CASE Finish
  BY <1>6 DEF Finish
<1>7. CASE Fetch
  <2>1. result' \subseteq Pks
    BY <1>7 DEF Fetch, Matching
  <2> QED
    BY <1>7, <2>1 DEF Fetch
<1>8. CASE Update
  <2>1. pending' \subseteq Pks
    BY <1>8 DEF Update, Matching
  <2>2. table' \in [Pks -> {"absent", "match", "other"}]
    BY <1>8 DEF Update
  <2> QED
    BY <1>8, <2>1, <2>2 DEF Update
<1>9. CASE NextChunk
  <2>1. Chunk \subseteq Pks
    BY DEF Chunk, Slice
  <2>2. size' \in ChunkMin .. ChunkMax
    BY <1>9, AdjustedInRange DEF NextChunk
  <2>3. objects' \in Nat \cup {Unknown}
    BY <1>9, CountedType DEF NextChunk
  <2>4. counted' \subseteq Pks
    BY <1>9 DEF NextChunk
  <2> QED
    BY <1>9, <2>1, <2>2, <2>3, <2>4 DEF NextChunk
<1>10. CASE Close
  <2>1. table' \in [Pks -> {"absent", "match", "other"}]
    BY <1>10 DEF Close
  <2> QED
    BY <1>10, <2>1 DEF Close
<1>11. CASE Others
  <2> PICK k \in Pks, status \in {"absent", "match", "other"} :
           Insert(k, status) \/ Alter(k, status)
    BY <1>11 DEF Others
  <2>1. Change(k, status)
    BY DEF Insert, Alter
  <2>2. table' \in [Pks -> {"absent", "match", "other"}] /\ steady' \subseteq Pks
    BY <2>1 DEF Change
  <2>3. counter' \in Int /\ born' \subseteq Pks
    BY KeysAssumption DEF Insert, Alter, Greater
  <2> QED
    BY <2>1, <2>2, <2>3 DEF Change
<1>12. CASE Ended \/ UNCHANGED vars
  BY <1>12 DEF Ended
<1> QED
  BY <1>1, <1>2, <1>3, <1>4, <1>5, <1>6, <1>7, <1>8, <1>9, <1>10, <1>11, <1>12
     DEF Next, Generator, Consumer

\* Sizes stay within chunk_min and chunk_max, and rows are only ever pending
\* while a chunk is open.
THEOREM IterationTypeCorrect == Spec => []TypeOK
<1> QED
  BY TypeInit, TypeStep, PTL DEF Spec

-----------------------------------------------------------------------------
(* The walk: WalkInv *)

\* Between two steps of the generator, others leave the walk alone.
LEMMA WalkUnchanged ==
    ASSUME WalkInv, UNCHANGED <<pc, bounds, current, start, end, passed>>
    PROVE  WalkInv'
BY DEF WalkInv, bounds, Walked, Within, Span, Forward, SliceEnd, Lesser, Greater

\* At the start nothing has been walked.
LEMMA WalkBegins ==
    ASSUME WalkInv, pc \in {"start", "max"}, passed' = passed,
           NEW lo \in Int, NEW hi \in Int, SettingOrdered(lo, hi) \/ Setting(lo, hi)
    PROVE  WalkInv'
<1>1. passed' = {}
  BY DEF WalkInv
<1>2. pc' = "loop" /\ current' = first' /\ first' \in Int /\ last' \in Int
  BY DEF SettingOrdered, Setting
<1>3. Within(current)'
  BY <1>2 DEF Within, Forward
<1>4. ASSUME NEW k \in Pks, k \in Walked(current)'
      PROVE  FALSE
  <2>1. k \in Int
    BY KeysAssumption
  <2>2. CASE Forward'
    BY <1>2, <1>4, <2>1, <2>2 DEF Walked, Span, Forward
  <2>3. CASE ~Forward'
    BY <1>2, <1>4, <2>1, <2>3 DEF Walked, Span, Forward
  <2> QED
    BY <2>2, <2>3
<1>5. Walked(current)' = {}
  BY <1>4 DEF Walked, Span
<1> QED
  BY <1>1, <1>2, <1>3, <1>5 DEF WalkInv

\* A chunk holds the keys of the span from its start up to the current key.
LEMMA ChunkInSpan ==
    ASSUME TypeOK, WalkInv, pc = "chunk"
    PROVE  Walked(start) \cup Chunk = Walked(current)
<1>1. /\ Within(start)
      /\ IF Forward THEN start <= last /\ start < current
                    ELSE last <= start /\ current < start
      /\ end = SliceEnd(current)
  BY DEF WalkInv
<1>2. /\ first \in Int /\ last \in Int /\ current \in Int /\ start \in Int
      /\ Pks \subseteq Int
  BY KeysAssumption DEF TypeOK
<1>3. ASSUME NEW k \in Pks, Forward
      PROVE  k \in Walked(start) \cup Chunk <=> k \in Walked(current)
  <2>1. /\ k \in Chunk <=> start <= k /\ k < end
        /\ \A a : k \in Walked(a) <=> first <= k /\ k <= last /\ k < a
    BY <1>3 DEF Chunk, Slice, Walked, Span
  <2>2. end = IF current <= last + 1 THEN current ELSE last + 1
    BY <1>1, <1>3 DEF SliceEnd, Lesser
  <2>3. first <= start /\ start <= last /\ start < current /\ k \in Int
    BY <1>1, <1>2, <1>3 DEF Within
  <2> QED
    BY <1>2, <2>1, <2>2, <2>3
<1>4. ASSUME NEW k \in Pks, ~Forward
      PROVE  k \in Walked(start) \cup Chunk <=> k \in Walked(current)
  <2>1. /\ k \in Chunk <=> end < k /\ k <= start
        /\ \A a : k \in Walked(a) <=> last <= k /\ k <= first /\ a < k
    BY <1>4 DEF Chunk, Slice, Walked, Span
  <2>2. end = IF current >= last - 1 THEN current ELSE last - 1
    BY <1>1, <1>4 DEF SliceEnd, Greater
  <2>3. start <= first /\ last <= start /\ current < start /\ k \in Int
    BY <1>1, <1>2, <1>4 DEF Within
  <2> QED
    BY <1>2, <2>1, <2>2, <2>3
<1>5. Chunk \subseteq Pks /\ \A a : Walked(a) \subseteq Pks
  BY DEF Chunk, Slice, Walked, Span
<1> QED
  BY <1>3, <1>4, <1>5

LEMMA WalkStep ==
    ASSUME TypeOK, WalkInv, [Next]_vars
    PROVE  WalkInv'
<1> USE DEF vars, db, bounds, slice, progress, history, rows
<1>1. CASE GivenRange
  <2>1. conf.range.from \in Int /\ conf.range.to \in Int
    BY RangesAssumption DEF TypeOK
  <2> QED
    BY <1>1, <2>1, WalkBegins DEF GivenRange, Rest
<1>2. CASE FindMin
  <2>1. CASE Base = {}
    BY <1>2, <2>1, WalkBegins DEF FindMin, Rest
  <2>2. CASE Base # {}
    BY <1>2, <2>2 DEF FindMin, Rest, WalkInv
  <2> QED
    BY <2>1, <2>2
<1>3. CASE FindMax
  <2>1. Base \subseteq Int /\ first \in Int
    BY KeysAssumption DEF Base, Present, Matching, TypeOK
  <2>2. \E hi \in Int : SettingOrdered(first, hi)
    BY <1>3, <2>1 DEF FindMax
  <2> QED
    BY <1>3, <2>1, <2>2, WalkBegins DEF FindMax, Rest
<1>4. CASE YieldChunk
  <2>1. size \in Int /\ size > 0 /\ current \in Int
    BY SizesAssumption DEF TypeOK
  <2>2. passed = Walked(current) /\ Within(current) /\ Continues
    BY <1>4 DEF YieldChunk, WalkInv
  <2>3. Walked(start)' = Walked(current) /\ (Forward' <=> Forward)
    BY <1>4 DEF YieldChunk, Walked, Span, Forward
  <2>4. Within(start)' /\ end' = SliceEnd(current)'
    BY <1>4, <2>2 DEF YieldChunk, Within, Forward, SliceEnd
  <2>5. IF Forward' THEN start' <= last' /\ start' < current'
                    ELSE last' <= start' /\ current' < start'
    BY <1>4, <2>1, <2>2, <2>3 DEF YieldChunk, Continues, TypeOK
  <2> QED
    BY <1>4, <2>2, <2>3, <2>4, <2>5 DEF YieldChunk, WalkInv
<1>5. CASE LoadStaysHigh
  BY <1>5 DEF LoadStaysHigh, WalkInv
<1>6. CASE Finish
  <2>1. passed = Walked(current) /\ ~Continues
    BY <1>6 DEF Finish, WalkInv
  <2>2. Walked(current) = Span
    <3>1. ASSUME NEW k \in Span
          PROVE  k \in Walked(current)
      <4>1. k \in Int /\ first \in Int /\ last \in Int /\ current \in Int
        BY KeysAssumption DEF Span, TypeOK
      <4>2. CASE Forward
        <5>1. k <= last /\ last < current
          BY <2>1, <4>1, <4>2 DEF Span, Continues
        <5> QED
          BY <4>1, <4>2, <5>1 DEF Walked
      <4>3. CASE ~Forward
        <5>1. last <= k /\ current < last
          BY <2>1, <4>1, <4>3 DEF Span, Continues
        <5> QED
          BY <4>1, <4>3, <5>1 DEF Walked
      <4> QED
        BY <4>2, <4>3
    <3> QED
      BY <3>1 DEF Walked
  <2>3. Span' = Span
    BY <1>6 DEF Finish, Span, Forward
  <2> QED
    BY <1>6, <2>1, <2>2, <2>3 DEF Finish, WalkInv
<1>7. CASE Fetch
  BY <1>7, WalkUnchanged DEF Fetch
<1>8. CASE Update
  BY <1>8, WalkUnchanged DEF Update
<1>9. CASE NextChunk
  <2>1. pc = "chunk" /\ passed' = passed \cup Chunk /\ passed = Walked(start)
    BY <1>9 DEF NextChunk, WalkInv
  <2>2. passed' = Walked(current)
    BY <2>1, ChunkInSpan
  <2>3. Within(current)
    BY <2>1 DEF WalkInv, Within, TypeOK, Forward
  <2>4. Walked(current)' = Walked(current) /\ (Within(current)' <=> Within(current))
    BY <1>9 DEF NextChunk, Walked, Within, Span, Forward
  <2> QED
    BY <1>9, <2>2, <2>3, <2>4 DEF NextChunk, WalkInv
<1>10. CASE Close
  BY <1>10 DEF Close, WalkInv
<1>11. CASE Others
  BY <1>11, WalkUnchanged DEF Others, Insert, Alter, Change
<1>12. CASE Ended \/ UNCHANGED vars
  BY <1>12, WalkUnchanged DEF Ended
<1> QED
  BY <1>1, <1>2, <1>3, <1>4, <1>5, <1>6, <1>7, <1>8, <1>9, <1>10, <1>11, <1>12
     DEF Next, Generator, Consumer

-----------------------------------------------------------------------------
(* Rows that nobody else touches: SteadyInv *)

LEMMA SteadyUnchanged ==
    ASSUME SteadyInv, UNCHANGED <<pc, bounds, conf>>, steady' \subseteq steady,
           pc \in {"start", "max"} =>
               \A k \in steady' : k \in Matching => k \in Matching'
    PROVE  SteadyInv'
BY DEF SteadyInv, bounds, Span, Forward

LEMMA SteadyStep ==
    ASSUME TypeOK, SteadyInv, [Next]_vars
    PROVE  SteadyInv'
<1> USE DEF vars, db, bounds, slice, progress, history, rows
<1>1. CASE GivenRange
  BY <1>1 DEF GivenRange, Setting, Rest, SteadyInv
<1>2. CASE FindMin
  <2>1. steady \subseteq Base /\ steady' = steady /\ table' = table
    BY <1>2 DEF FindMin, Rest, SteadyInv, Base, Present, Matching
  <2>2. CASE Base = {}
    BY <1>2, <2>1, <2>2 DEF FindMin, SettingOrdered, Setting, SteadyInv
  <2>3. CASE Base # {}
    <3>1. pc' = "max" /\ \A k \in steady : first' <= k
      BY <1>2, <2>1, <2>3 DEF FindMin
    <3>2. steady' \subseteq Matching'
      BY <1>2, <2>1 DEF FindMin, SteadyInv, Matching
    <3> QED
      BY <2>1, <3>1, <3>2 DEF SteadyInv
  <2> QED
    BY <2>2, <2>3
<1>3. CASE FindMax
  <2>1. steady \subseteq Base /\ steady' = steady /\ \A k \in steady : first <= k
    BY <1>3 DEF FindMax, Rest, SteadyInv, Base, Present, Matching
  <2>2. CASE Base = {}
    BY <1>3, <2>1, <2>2 DEF FindMax, SettingOrdered, Setting, SteadyInv
  <2>3. Base \subseteq Int /\ first \in Int /\ steady \subseteq Int
    BY KeysAssumption DEF Base, Present, Matching, TypeOK
  <2>4. CASE Base # {}
    <3>1. PICK hi \in Base : /\ \A j \in Base : j <= hi
                             /\ SettingOrdered(first, hi)
      BY <1>3, <2>4 DEF FindMax
    <3>2. \A k \in steady : first <= k /\ k <= hi
      BY <2>1, <3>1
    <3>3. CASE conf.range.reverse
      <4>1. pc' = "loop" /\ first' = hi /\ last' = first
        BY <3>1, <3>3 DEF SettingOrdered, Setting
      <4> QED
        BY <2>1, <2>3, <3>2, <4>1 DEF SteadyInv, Span, Forward, TypeOK
    <3>4. CASE ~conf.range.reverse
      <4>1. pc' = "loop" /\ first' = first /\ last' = hi
        BY <3>1, <3>4 DEF SettingOrdered, Setting
      <4> QED
        BY <2>1, <2>3, <3>2, <4>1 DEF SteadyInv, Span, Forward, TypeOK
    <3> QED
      BY <3>3, <3>4
  <2> QED
    BY <2>2, <2>4
<1>4. CASE YieldChunk
  BY <1>4 DEF YieldChunk, SteadyInv, Span, Forward
<1>5. CASE LoadStaysHigh
  BY <1>5 DEF LoadStaysHigh, SteadyInv, Span, Forward
<1>6. CASE Finish
  BY <1>6 DEF Finish, SteadyInv, Span, Forward
<1>7. CASE Fetch
  BY <1>7, SteadyUnchanged DEF Fetch
<1>8. CASE Update
  BY <1>8, SteadyUnchanged DEF Update
<1>9. CASE NextChunk
  BY <1>9 DEF NextChunk, SteadyInv, Span, Forward
<1>10. CASE Close
  BY <1>10 DEF Close, SteadyInv, Span, Forward
<1>11. CASE Others
  <2> PICK k \in Pks, status \in {"absent", "match", "other"} :
           Insert(k, status) \/ Alter(k, status)
    BY <1>11 DEF Others
  <2>1. Change(k, status)
    BY DEF Insert, Alter
  <2>2. steady' = steady \ {k} /\ UNCHANGED <<pc, bounds, conf>>
    BY <2>1 DEF Change
  <2>3. \A j \in steady' : j \in Matching => j \in Matching'
    BY <2>1, <2>2 DEF Change, Matching, TypeOK
  <2> QED
    BY <2>2, <2>3, SteadyUnchanged
<1>12. CASE Ended \/ UNCHANGED vars
  BY <1>12, SteadyUnchanged DEF Ended, Matching
<1> QED
  BY <1>1, <1>2, <1>3, <1>4, <1>5, <1>6, <1>7, <1>8, <1>9, <1>10, <1>11, <1>12
     DEF Next, Generator, Consumer

-----------------------------------------------------------------------------

LEMMA WalkInit == Init => WalkInv /\ SteadyInv
BY DEF Init, WalkInv, SteadyInv

LEMMA WalkCovers ==
    ASSUME TypeOK, WalkInv, SteadyInv
    PROVE  Covered /\ NoOverlap
<1>1. Covered
  BY DEF Covered, WalkInv, SteadyInv
<1>2. ASSUME NEW k \in Chunk, k \in Walked(start)
      PROVE  FALSE
  <2>1. k \in Int /\ start \in Int
    BY KeysAssumption DEF TypeOK, Chunk, Slice
  <2>2. CASE Forward
    BY <1>2, <2>1, <2>2 DEF Chunk, Slice, Walked
  <2>3. CASE ~Forward
    BY <1>2, <2>1, <2>3 DEF Chunk, Slice, Walked
  <2> QED
    BY <2>2, <2>3
<1> QED
  BY <1>1, <1>2 DEF NoOverlap, WalkInv

\* The inductive invariant of the iteration.
THEOREM IterationInvariant == Spec => [](TypeOK /\ WalkInv /\ SteadyInv)
<1>1. TypeOK /\ WalkInv /\ SteadyInv /\ [Next]_vars
         => (TypeOK /\ WalkInv /\ SteadyInv)'
  BY TypeStep, WalkStep, SteadyStep
<1>2. Init => TypeOK /\ WalkInv /\ SteadyInv
  BY TypeInit, WalkInit
<1> QED
  BY <1>1, <1>2, PTL DEF Spec

\* A finished iteration has offered every row of the range that matched from
\* beginning to end.
THEOREM IterationCovers == Spec => []Covered
<1>1. TypeOK /\ WalkInv /\ SteadyInv => Covered
  BY WalkCovers
<1> QED
  BY <1>1, IterationInvariant, PTL

\* No key is offered in two chunks.
THEOREM ChunksDisjoint == Spec => []NoOverlap
<1>1. TypeOK /\ WalkInv /\ SteadyInv => NoOverlap
  BY WalkCovers
<1> QED
  BY <1>1, IterationInvariant, PTL

-----------------------------------------------------------------------------
(* Abandoned chunks *)

\* What an open transaction changed are rows of its chunk, and no other
\* unpassed row was changed by the consumer.
UndoneInv ==
    /\ pc = "chunk" => pending \subseteq Chunk
    /\ conf.atomically =>
           \A k \in steady \ (passed \cup pending) : table[k] = "match"

\* Steps that leave table and consumer alone keep it.
LEMMA UndoneUnchanged ==
    ASSUME UndoneInv, pc' # "chunk" \/ pending = {},
           UNCHANGED <<conf, table, steady, passed, pending>>
    PROVE  UndoneInv'
BY DEF UndoneInv

LEMMA UndoneStep ==
    ASSUME TypeOK, UndoneInv, [Next]_vars
    PROVE  UndoneInv'
<1> USE DEF vars, db, bounds, slice, progress, history, rows
<1>1. CASE Generator
  <2>1. pending = {} /\ UNCHANGED <<conf, table, steady, passed, pending>>
    BY <1>1 DEF Generator, GivenRange, FindMin, FindMax, YieldChunk,
                LoadStaysHigh, Finish, Rest, TypeOK
  <2> QED
    BY <2>1, UndoneUnchanged
<1>2. CASE Fetch
  BY <1>2 DEF Fetch, UndoneInv, Chunk, Slice, Forward
<1>3. CASE Update
  <2>1. Chunk' = Chunk
    BY <1>3 DEF Update, Chunk, Slice, Forward
  <2>2. pending' \subseteq Chunk
    BY <1>3 DEF Update, UndoneInv
  <2>3. ASSUME conf'.atomically, NEW k \in steady' \ (passed' \cup pending')
        PROVE  table'[k] = "match"
    <3>1. conf.atomically /\ k \in Pks /\ pending' = pending \cup (Chunk \cap Matching)
      BY <1>3, <2>3 DEF Update, TypeOK
    <3>2. table[k] = "match" /\ k \notin Chunk \cap Matching
      BY <1>3, <2>3, <3>1 DEF Update, UndoneInv
    <3> QED
      BY <1>3, <3>1, <3>2 DEF Update
  <2> QED
    BY <2>1, <2>2, <2>3 DEF UndoneInv
<1>4. CASE NextChunk
  <2>1. pending \subseteq passed' /\ pc' # "chunk"
    BY <1>4 DEF NextChunk, UndoneInv
  <2> QED
    BY <1>4, <2>1 DEF NextChunk, UndoneInv
<1>5. CASE Close
  <2>1. ASSUME conf'.atomically, NEW k \in steady' \ (passed' \cup pending')
        PROVE  table'[k] = "match"
    <3>1. k \in Pks /\ (k \in pending \/ table[k] = "match")
      BY <1>5, <2>1 DEF Close, UndoneInv, TypeOK
    <3> QED
      BY <1>5, <3>1 DEF Close
  <2> QED
    BY <1>5, <2>1 DEF Close, UndoneInv
<1>6. CASE Others
  <2> PICK k \in Pks, status \in {"absent", "match", "other"} : Change(k, status)
    BY <1>6 DEF Others, Insert, Alter
  <2>1. Chunk' = Chunk
    BY DEF Change, Chunk, Slice, Forward
  <2>2. \A j \in steady' : j \in steady /\ table'[j] = table[j]
    BY DEF Change, TypeOK
  <2> QED
    BY <2>1, <2>2 DEF Change, UndoneInv
<1>7. CASE Ended \/ UNCHANGED vars
  BY <1>7 DEF Ended, UndoneInv, Chunk, Slice, Forward
<1> QED
  BY <1>1, <1>2, <1>3, <1>4, <1>5, <1>6, <1>7 DEF Next, Consumer

\* With atomically, an iteration that is abandoned or finished leaves no change
\* in the rows of an unfinished chunk.
THEOREM AbandonedChunkUndone == Spec => []UnfinishedChunkUndone
<1>1. Init => UndoneInv
  BY DEF Init, UndoneInv, Matching
<1>2. TypeOK /\ UndoneInv /\ [Next]_vars => UndoneInv'
  BY UndoneStep
<1>3. TypeOK /\ UndoneInv => UnfinishedChunkUndone
  BY DEF TypeOK, UndoneInv, UnfinishedChunkUndone
<1> QED
  BY <1>1, <1>2, <1>3, IterationTypeCorrect, PTL DEF Spec

-----------------------------------------------------------------------------
(* New rows *)

\* New auto-increment keys lie beyond both ends of the span, and what has been
\* passed lies within it.
NewRowsInv ==
    /\ 0 <= counter /\ \A k \in Present : k <= counter
    /\ passed \subseteq Span /\ pending \subseteq Present
    /\ pc \in {"start", "max"} => born = {}
    /\ pc = "max" => first <= counter
    /\ pc \notin {"start", "max"} /\ conf.auto /\ conf.range.kind # "tuple" =>
           /\ first <= counter /\ last <= counter
           /\ \A k \in born : first < k /\ last < k

LEMMA NewRowsUnchanged ==
    ASSUME NewRowsInv, UNCHANGED <<pc, bounds, conf, counter, passed, born>>,
           Present' \subseteq Present, pending' \subseteq Present'
    PROVE  NewRowsInv'
BY DEF NewRowsInv, bounds, Span, Forward

LEMMA NewRowsStep ==
    ASSUME TypeOK, WalkInv, NewRowsInv, [Next]_vars
    PROVE  NewRowsInv'
<1> USE DEF vars, db, bounds, slice, progress, history, rows
<1>1. CASE GivenRange
  BY <1>1 DEF GivenRange, Setting, Rest, NewRowsInv, WalkInv, Present
<1>2. CASE FindMin
  <2>1. /\ passed' = {} /\ born' = {} /\ pending' = {} /\ Present' = Present
        /\ UNCHANGED <<counter, conf>>
    BY <1>2 DEF FindMin, Rest, WalkInv, NewRowsInv, Present, TypeOK
  <2>2. CASE Base = {}
    <3>1. pc' = "loop" /\ first' = 0 /\ last' = 0
      BY <1>2, <2>2 DEF FindMin, SettingOrdered, Setting
    <3> QED
      BY <2>1, <3>1 DEF NewRowsInv
  <2>3. CASE Base # {}
    <3>1. pc' = "max" /\ first' \in Present
      BY <1>2, <2>3 DEF FindMin, Base, Present, Matching
    <3> QED
      BY <2>1, <3>1 DEF NewRowsInv
  <2> QED
    BY <2>2, <2>3
<1>3. CASE FindMax
  <2>1. /\ passed' = {} /\ born' = {} /\ pending' = {} /\ Present' = Present
        /\ UNCHANGED <<counter, conf>> /\ first <= counter
    BY <1>3 DEF FindMax, Rest, WalkInv, NewRowsInv, Present, TypeOK
  <2>2. PICK hi \in Present \cup {first} : SettingOrdered(first, hi)
    BY <1>3 DEF FindMax, Base, Present, Matching
  <2>3. hi <= counter
    BY <2>1, <2>2 DEF NewRowsInv
  <2>4. pc' = "loop" /\ first' <= counter /\ last' <= counter
    BY <2>1, <2>2, <2>3 DEF SettingOrdered, Setting
  <2> QED
    BY <2>1, <2>4 DEF NewRowsInv
<1>4. CASE YieldChunk
  BY <1>4 DEF YieldChunk, NewRowsInv, Span, Forward, Present
<1>5. CASE LoadStaysHigh
  BY <1>5 DEF LoadStaysHigh, NewRowsInv, Span, Forward, Present
<1>6. CASE Finish
  BY <1>6 DEF Finish, NewRowsInv, Span, Forward, Present
<1>7. CASE Fetch
  BY <1>7, NewRowsUnchanged DEF Fetch, Present, NewRowsInv
<1>8. CASE Update
  <2>1. Present' \subseteq Present
    BY <1>8 DEF Update, Present, Matching
  <2>2. pending' \subseteq Present'
    BY <1>8 DEF Update, NewRowsInv, Present, Matching
  <2> QED
    BY <1>8, <2>1, <2>2, NewRowsUnchanged DEF Update
<1>9. CASE NextChunk
  <2>1. Chunk \subseteq Span
    BY <1>9, ChunkInSpan DEF NextChunk, Walked
  <2>2. passed' \subseteq Span'
    BY <1>9, <2>1 DEF NextChunk, NewRowsInv, Span, Forward
  <2> QED
    BY <1>9, <2>2 DEF NextChunk, NewRowsInv, Present
<1>10. CASE Close
  <2>1. Present' \subseteq Present
    BY <1>10 DEF Close, NewRowsInv, Present
  <2> QED
    BY <1>10, <2>1 DEF Close, NewRowsInv, Span, Forward
<1>11. CASE Others
  <2> PICK k \in Pks, status \in {"absent", "match", "other"} :
           Insert(k, status) \/ Alter(k, status)
    BY <1>11 DEF Others
  <2>1. /\ Change(k, status) /\ Span' = Span
        /\ UNCHANGED <<pc, bounds, conf, passed>>
    BY DEF Insert, Alter, Change, Span, Forward
  <2>2. Present' \subseteq Present \cup {k} /\ pending' \subseteq Present'
    BY <2>1 DEF Change, Present, TypeOK, NewRowsInv
  <2>3. k \in Int /\ first \in Int /\ last \in Int /\ Present \subseteq Int
    BY KeysAssumption DEF Present, TypeOK
  <2>4. CASE Insert(k, status)
    <3>1. k <= counter' /\ counter <= counter' /\ counter' \in Int
      BY <2>3, <2>4 DEF Insert, Greater, TypeOK
    <3>2. \A j \in Present' : j <= counter'
      BY <2>2, <2>3, <3>1 DEF NewRowsInv, TypeOK
    <3>3. /\ born' \subseteq born \cup {k} /\ (conf.auto => counter < k)
          /\ pc \in {"start", "max"} => born' = born
      BY <2>4 DEF Insert
    <3>4. /\ 0 <= counter' /\ (first <= counter => first <= counter')
          /\ last <= counter => last <= counter'
      BY <2>3, <3>1 DEF NewRowsInv, TypeOK
    <3>5. pc \notin {"start", "max"} /\ conf.auto /\ conf.range.kind # "tuple" =>
             \A j \in born' : first < j /\ last < j
      BY <2>3, <3>3 DEF NewRowsInv, TypeOK
    <3> QED
      BY <2>1, <2>2, <3>2, <3>3, <3>4, <3>5 DEF NewRowsInv
  <2>5. CASE Alter(k, status)
    <3>1. k \in Present /\ UNCHANGED <<counter, born>>
      BY <2>5 DEF Alter, Present
    <3> QED
      BY <2>1, <2>2, <3>1, NewRowsUnchanged
  <2> QED
    BY <2>4, <2>5
<1>12. CASE Ended \/ UNCHANGED vars
  BY <1>12, NewRowsUnchanged DEF Ended, Present, NewRowsInv
<1> QED
  BY <1>1, <1>2, <1>3, <1>4, <1>5, <1>6, <1>7, <1>8, <1>9, <1>10, <1>11, <1>12
     DEF Next, Generator, Consumer

\* Keys from an auto-increment column that are given out after the last key was
\* found are in no chunk.
THEOREM NewRowsAreSkipped == Spec => []NewRowsSkipped
<1>1. Init => NewRowsInv
  BY DEF Init, NewRowsInv
<1>2. TypeOK /\ WalkInv /\ NewRowsInv /\ [Next]_vars => NewRowsInv'
  BY NewRowsStep
<1>3. TypeOK /\ WalkInv /\ NewRowsInv => NewRowsSkipped
  <2> SUFFICES ASSUME TypeOK, WalkInv, NewRowsInv,
                      conf.auto, conf.range.kind # "tuple"
               PROVE  born \cap passed = {} /\ (pc = "chunk" => born \cap Chunk = {})
    BY DEF NewRowsSkipped
  <2>1. ASSUME NEW k \in born, k \in Span
        PROVE  FALSE
    <3>1. k \in Int /\ first < k /\ last < k
      BY <2>1, KeysAssumption DEF NewRowsInv, TypeOK
    <3>2. k <= last \/ k <= first
      BY <2>1 DEF Span
    <3> QED
      BY <3>1, <3>2 DEF TypeOK
  <2>2. pc = "chunk" => Chunk \subseteq Span
    BY ChunkInSpan DEF Walked
  <2> QED
    BY <2>1, <2>2 DEF NewRowsInv
<1> QED
  BY <1>1, <1>2, <1>3, IterationInvariant, PTL DEF Spec

-----------------------------------------------------------------------------
(* The report *)

\* What was fetched is of the open chunk, what was counted has been passed; so
\* that a chunk adds rows that were not counted yet.
ReportInv ==
    /\ counted \subseteq passed
    /\ pc = "chunk" /\ result # NotFetched => result \subseteq Chunk
    /\ ReportCounts

LEMMA FiniteKeys ==
    ASSUME NEW S, S \subseteq Pks
    PROVE  IsFiniteSet(S) /\ Cardinality(S) \in Nat
BY KeysAssumption, FS_Subset, FS_CardinalityType

\* Adding the rows of one more chunk to the number of rows.
LEMMA CountMore ==
    ASSUME NEW S, NEW T, S \subseteq Pks, T \subseteq Pks, S \cap T = {}
    PROVE  Cardinality(S \cup T) = Cardinality(S) + Cardinality(T)
<1>1. /\ IsFiniteSet(S) /\ Cardinality(S) \in Nat
      /\ IsFiniteSet(T) /\ Cardinality(T) \in Nat
  BY FiniteKeys
<1>2. Cardinality(S \cap T) = 0
  BY FS_EmptySet
<1>3. Cardinality(S \cup T)
        = Cardinality(S) + Cardinality(T) - Cardinality(S \cap T)
  BY <1>1, FS_Union
<1> QED
  BY <1>1, <1>2, <1>3

LEMMA ReportUnchanged ==
    ASSUME ReportInv, UNCHANGED <<objects, history>>,
           pc' = "chunk" /\ result' # NotFetched => result' \subseteq Chunk'
    PROVE  ReportInv'
BY DEF ReportInv, ReportCounts, history

LEMMA ReportStep ==
    ASSUME TypeOK, NoOverlap, ReportInv, [Next]_vars
    PROVE  ReportInv'
<1> USE DEF vars, db, bounds, slice, progress, history, rows
<1>1. CASE Generator
  <2>1. /\ UNCHANGED <<objects, history>>
        /\ pc' = "chunk" => result' = NotFetched
    BY <1>1 DEF Generator, GivenRange, FindMin, FindMax, YieldChunk, Setting,
                SettingOrdered, LoadStaysHigh, Finish, Rest
  <2> QED
    BY <2>1, ReportUnchanged
<1>2. CASE Fetch
  BY <1>2, ReportUnchanged DEF Fetch, Chunk, Slice, Forward
<1>3. CASE Update
  BY <1>3, ReportUnchanged DEF Update
<1>4. CASE NextChunk
  <2>1. pc = "chunk" /\ pc' = "loop" /\ passed' = passed \cup Chunk
    BY <1>4 DEF NextChunk
  <2>2. CASE objects = Unknown \/ result = NotFetched
    <3>1. objects' = Unknown
      BY <1>4, <2>2 DEF NextChunk, Counted
    <3>2. counted' \subseteq passed'
      BY <1>4, <2>1 DEF NextChunk, ReportInv
    <3> QED
      BY <2>1, <3>1, <3>2 DEF ReportInv, ReportCounts
  <2>3. CASE objects # Unknown /\ result # NotFetched
    <3>1. objects' = objects + Cardinality(result) /\ counted' = counted \cup result
      BY <1>4, <2>3 DEF NextChunk, Counted
    <3>2. result \subseteq Chunk /\ counted \subseteq passed
          /\ objects = Cardinality(counted)
      BY <2>1, <2>3 DEF ReportInv, ReportCounts
    <3>3. counted \cap result = {}
      BY <2>1, <3>2 DEF NoOverlap
    <3>4. Cardinality(counted') = objects'
      BY <2>3, <3>1, <3>2, <3>3, CountMore DEF TypeOK
    <3> QED
      BY <2>1, <3>1, <3>2, <3>4 DEF ReportInv, ReportCounts
  <2> QED
    BY <2>2, <2>3
<1>5. CASE Close
  BY <1>5, ReportUnchanged DEF Close
<1>6. CASE Others
  <2>1. UNCHANGED <<pc, bounds, slice, objects, history>>
    BY <1>6 DEF Others, Insert, Alter, Change
  <2>2. Chunk' = Chunk
    BY <2>1 DEF Chunk, Slice, Forward
  <2> QED
    BY <2>1, <2>2, ReportUnchanged DEF ReportInv
<1>7. CASE Ended \/ UNCHANGED vars
  BY <1>7, ReportUnchanged DEF Ended, ReportInv, Chunk, Slice, Forward
<1> QED
  BY <1>1, <1>2, <1>3, <1>4, <1>5, <1>6, <1>7 DEF Next, Consumer

\* A number in the report is the number of different rows that were handed out.
THEOREM ReportsCount == Spec => []ReportCounts
<1>1. Init => ReportInv
  BY FS_EmptySet DEF Init, ReportInv, ReportCounts
<1>2. TypeOK /\ WalkInv /\ SteadyInv /\ ReportInv /\ [Next]_vars => ReportInv'
  BY WalkCovers, ReportStep
<1>3. ReportInv => ReportCounts
  BY DEF ReportInv
<1> QED
  BY <1>1, <1>2, <1>3, IterationInvariant, PTL DEF Spec

-----------------------------------------------------------------------------
(* Progress *)

\* The keys, whether or not rows have them, that the loop has not yet passed.
KeysAhead == IF Forward THEN Greater(last + 1 - current, 0)
                        ELSE Greater(current + 1 - last, 0)

\* No more than so many times can the generator run and the consumer go on.
StepsLeft == IF pc = "loop" THEN 2 * KeysAhead + 1
             ELSE IF pc = "chunk" THEN 2 * KeysAhead + 2
             ELSE 0

\* One query after the other, then ever fewer steps; what happens while the
\* generator waits makes them no more.
Advances ==
    \/ pc = "start" /\ pc' \in {"max", "loop"}
    \/ pc = "max" /\ pc' = "loop"
    \/ pc \in {"loop", "chunk"} /\ StepsLeft' < StepsLeft
    \/ pc' = pc /\ StepsLeft' = StepsLeft

Numbered == KeysAhead \in Nat /\ StepsLeft \in Nat

LEMMA AheadIsNumber == TypeOK => Numbered
<1> SUFFICES ASSUME TypeOK PROVE Numbered
  OBVIOUS
<1>1. first \in Int /\ last \in Int /\ current \in Int
  BY DEF TypeOK
<1>2. KeysAhead \in Nat
  BY <1>1 DEF KeysAhead, Greater, Forward
<1> QED
  BY <1>2 DEF Numbered, StepsLeft

LEMMA AdvanceStep == TypeOK /\ Numbered /\ Numbered' /\ [Next]_vars => Advances
<1> SUFFICES ASSUME TypeOK, Numbered, Numbered', [Next]_vars PROVE Advances
  OBVIOUS
<1>1. KeysAhead \in Nat /\ StepsLeft \in Nat /\ KeysAhead' \in Nat /\ StepsLeft' \in Nat
  BY DEF Numbered
<1>2. CASE GivenRange \/ FindMin \/ FindMax
  BY <1>2 DEF GivenRange, FindMin, FindMax, SettingOrdered, Setting, Advances
<1>3. CASE YieldChunk
  <2>1. /\ first \in Int /\ last \in Int /\ current \in Int /\ size \in Int /\ size > 0
        /\ first' = first /\ last' = last
    BY <1>3, SizesAssumption DEF TypeOK, YieldChunk, bounds
  <2>2. current' = IF Forward THEN current + size ELSE current - size
    BY <1>3 DEF YieldChunk
  <2>3. IF Forward THEN current <= last ELSE current >= last
    BY <1>3 DEF YieldChunk, Continues
  <2>4. KeysAhead' < KeysAhead
    BY <2>1, <2>2, <2>3 DEF KeysAhead, Greater, Forward
  <2>5. pc = "loop" /\ pc' = "chunk"
    BY <1>3 DEF YieldChunk
  <2>6. StepsLeft = 2 * KeysAhead + 1 /\ StepsLeft' = 2 * KeysAhead' + 2
    BY <2>5 DEF StepsLeft
  <2>7. \A m, n \in Nat : m < n => 2 * m + 2 < 2 * n + 1
    OBVIOUS
  <2>8. StepsLeft' < StepsLeft
    BY <1>1, <2>4, <2>6, <2>7
  <2> QED
    BY <2>5, <2>8 DEF Advances
<1>4. CASE NextChunk
  <2>1. KeysAhead' = KeysAhead /\ pc = "chunk" /\ pc' = "loop"
    BY <1>4 DEF NextChunk, bounds, KeysAhead, Forward
  <2>2. StepsLeft = 2 * KeysAhead + 2 /\ StepsLeft' = 2 * KeysAhead + 1
    BY <2>1 DEF StepsLeft
  <2> QED
    BY <1>1, <2>1, <2>2 DEF Advances
<1>5. CASE LoadStaysHigh \/ Finish \/ Close
  <2>1. pc \in {"loop", "chunk"} /\ pc' \in {"done", "stopped"}
    BY <1>5 DEF LoadStaysHigh, Finish, Close
  <2>2. StepsLeft' = 0
    BY <2>1 DEF StepsLeft
  <2>3. StepsLeft = 2 * KeysAhead + 1 \/ StepsLeft = 2 * KeysAhead + 2
    BY <2>1 DEF StepsLeft
  <2>4. StepsLeft' < StepsLeft
    BY <1>1, <2>2, <2>3
  <2> QED
    BY <2>1, <2>4 DEF Advances
<1>6. CASE Fetch \/ Update \/ Others \/ Ended \/ UNCHANGED vars
  <2>1. pc' = pc /\ UNCHANGED <<first, last, current>>
    BY <1>6 DEF Fetch, Update, Others, Insert, Alter, Change, Ended, vars, bounds
  <2> QED
    BY <2>1 DEF Advances, StepsLeft, KeysAhead, Forward
<1> QED
  BY <1>2, <1>3, <1>4, <1>5, <1>6 DEF Next, Generator, Consumer

\* An iteration is finite: each chunk brings current_pk nearer to the end of
\* the range, in either direction, whatever sizes the rates give and however
\* the table changes.  Once both ends are known, each step of the generator
\* and each next() of its consumer lowers StepsLeft, a natural number.
THEOREM IterationAdvances == Spec => [](StepsLeft \in Nat) /\ [][Advances]_vars
<1>1. TypeOK => Numbered
  BY AheadIsNumber
<1>2. TypeOK /\ Numbered /\ Numbered' /\ [Next]_vars => [Advances]_vars
  BY AdvanceStep
<1>3. Numbered => StepsLeft \in Nat
  BY DEF Numbered
<1> QED
  BY <1>1, <1>2, <1>3, IterationTypeCorrect, PTL DEF Spec

=============================================================================
