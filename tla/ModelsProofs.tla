---------------------------- MODULE ModelsProofs -----------------------------
(***************************************************************************)
(* Components of the models package whose state is text.                   *)
(*                                                                         *)
(* rewrite_query() is right for every statement that query_start_re        *)
(* understands as it is meant (RewriteIsRight): the match ends where the   *)
(* parts of the statement end (Matched), each group keeps its hint or gets *)
(* the last one asked for (ChosenRight), index hints stay behind the first *)
(* mention of their table while others are added (AllExtended), and what   *)
(* the properties say of a statement follows from its parts (RightParts).  *)
(* The statements of query sets are such statements (StatementParses).     *)
(*                                                                         *)
(* FOUND_ROWS() is right because the statement of a query set with         *)
(* SQL_CALC_FOUND_ROWS reaches the server with that hint (HintIsSent), and *)
(* because nothing but what sets disturbed comes between the evaluation    *)
(* and the question (QueriesInv).                                          *)
(***************************************************************************)
EXTENDS QuerySets, Induction, SequenceTheorems

-----------------------------------------------------------------------------
(* Sequences *)

LEMMA AppendRange ==
    ASSUME NEW V, NEW s \in Seq(V), NEW x \in V
    PROVE  Range(Append(s, x)) = Range(s) \cup {x}
<1>1. /\ Len(s) \in Nat /\ Len(Append(s, x)) = Len(s) + 1
      /\ \A i \in 1..Len(s) : Append(s, x)[i] = s[i]
      /\ Append(s, x)[Len(s) + 1] = x
      /\ DOMAIN s = 1..Len(s) /\ DOMAIN Append(s, x) = 1..Len(s) + 1
  OBVIOUS
<1>2. \A i : i \in 1..Len(s) + 1 <=> i \in 1..Len(s) \/ i = Len(s) + 1
  BY <1>1
<1> QED
  BY <1>1, <1>2 DEF Range

LEMMA NotEmpty ==
    ASSUME NEW V, NEW s \in Seq(V)
    PROVE  /\ s # <<>> => Len(s) \in Nat /\ Len(s) > 0 /\ s[1] \in Range(s)
           /\ \A x \in Range(s) : s # <<>>
           /\ s = <<>> => Range(s) = {}
<1>1. Len(s) \in Nat /\ DOMAIN s = 1..Len(s)
  OBVIOUS
<1>2. s # <<>> => Len(s) > 0 /\ 1 \in DOMAIN s
  BY <1>1
<1>3. s = <<>> => Range(s) = {}
  BY DEF Range
<1> QED
  BY <1>1, <1>2, <1>3 DEF Range

LEMMA ConcatRange ==
    ASSUME NEW V, NEW s \in Seq(V), NEW t \in Seq(V)
    PROVE  s \o t \in Seq(V) /\ Range(s \o t) = Range(s) \cup Range(t)
<1>1. /\ Len(s) \in Nat /\ Len(t) \in Nat /\ Len(s \o t) = Len(s) + Len(t)
      /\ DOMAIN s = 1..Len(s) /\ DOMAIN t = 1..Len(t)
      /\ DOMAIN (s \o t) = 1..Len(s) + Len(t)
      /\ \A i \in 1..Len(s) : (s \o t)[i] = s[i]
      /\ \A i \in 1..Len(t) : (s \o t)[Len(s) + i] = t[i]
  OBVIOUS
<1>2. ASSUME NEW i \in 1..Len(s) + Len(t)
      PROVE  (s \o t)[i] \in Range(s) \cup Range(t)
  <2>1. CASE i <= Len(s)
    BY <1>1, <2>1 DEF Range
  <2>2. CASE ~(i <= Len(s))
    <3>1. i - Len(s) \in 1..Len(t) /\ Len(s) + (i - Len(s)) = i
      BY <1>1, <2>2
    <3> QED
      BY <1>1, <3>1 DEF Range
  <2> QED
    BY <2>1, <2>2
<1>3. /\ \A i \in 1..Len(s) : i \in 1..Len(s) + Len(t)
      /\ \A i \in 1..Len(t) : Len(s) + i \in 1..Len(s) + Len(t)
  BY <1>1
<1>4. Range(s \o t) \subseteq Range(s) \cup Range(t)
  BY <1>1, <1>2 DEF Range
<1>5. Range(s) \subseteq Range(s \o t)
  BY <1>1, <1>3 DEF Range
<1>6. Range(t) \subseteq Range(s \o t)
  <2>1. ASSUME NEW i \in 1..Len(t) PROVE t[i] \in Range(s \o t)
    <3>1. Len(s) + i \in DOMAIN (s \o t) /\ (s \o t)[Len(s) + i] = t[i]
      BY <1>1, <1>3
    <3> QED
      BY <3>1 DEF Range
  <2> QED
    BY <1>1, <2>1 DEF Range
<1> QED
  BY <1>4, <1>5, <1>6

-----------------------------------------------------------------------------
(* Only(s, S) *)

Onlies(s, V, S, g) ==
    /\ g \in [0..Len(s) -> Seq(V)] /\ g[0] = <<>>
    /\ \A n \in 1..Len(s) :
          g[n] = IF s[n] \in S THEN Append(g[n - 1], s[n]) ELSE g[n - 1]
    /\ Only(s, S) = g[Len(s)]

LEMMA OnlyDefined ==
    ASSUME NEW V, NEW s \in Seq(V), NEW S
    PROVE  \E g : Onlies(s, V, S, g)
<1> DEFINE only == CHOOSE f :
             f = [n \in 0..Len(s) |->
                    IF n = 0 THEN <<>>
                    ELSE IF s[n] \in S THEN Append(f[n - 1], s[n]) ELSE f[n - 1]]
           F == [n \in 1..Len(s) |-> [x \in Seq(V) |->
                    IF s[n] \in S THEN Append(x, s[n]) ELSE x]]
<1>1. Only(s, S) = only[Len(s)]
  BY DEF Only
<1>2. Len(s) \in Nat /\ \A n \in 1..Len(s) : s[n] \in V
  OBVIOUS
<1>3. F \in [1..Len(s) -> [Seq(V) -> Seq(V)]] /\ <<>> \in Seq(V)
  BY <1>2
<1>4. \A n \in 1..Len(s), x \in Seq(V) :
          F[n][x] = IF s[n] \in S THEN Append(x, s[n]) ELSE x
  OBVIOUS
<1> HIDE DEF F
<1>5. PICK g : RecursTo(Len(s), Seq(V), <<>>, F, g)
  BY <1>2, <1>3, RecursionTo
<1>6. g \in [0..Len(s) -> Seq(V)] /\ g[0] = <<>>
  BY <1>5 DEF RecursTo
<1>7. ASSUME NEW n \in 1..Len(s)
      PROVE  g[n] = IF s[n] \in S THEN Append(g[n - 1], s[n]) ELSE g[n - 1]
  <2>1. n - 1 \in 0..Len(s)
    BY <1>2
  <2>2. g[n - 1] \in Seq(V)
    BY <1>6, <2>1
  <2>3. g[n] = F[n][g[n - 1]]
    BY <1>5 DEF RecursTo
  <2> QED
    BY <1>4, <2>2, <2>3
<1>8. ASSUME NEW n \in 0..Len(s)
      PROVE  g[n] = IF n = 0 THEN <<>>
                    ELSE IF s[n] \in S THEN Append(g[n - 1], s[n]) ELSE g[n - 1]
  <2>1. n = 0 \/ n \in 1..Len(s)
    BY <1>2
  <2> QED
    BY <1>6, <1>7, <2>1
<1>9. g = [n \in 0..Len(s) |->
              IF n = 0 THEN <<>>
              ELSE IF s[n] \in S THEN Append(g[n - 1], s[n]) ELSE g[n - 1]]
  <2> HIDE DEF only
  <2> QED
    BY <1>6, <1>8
<1>10. only = [n \in 0..Len(s) |->
              IF n = 0 THEN <<>>
              ELSE IF s[n] \in S THEN Append(only[n - 1], s[n]) ELSE only[n - 1]]
  BY <1>9
<1> HIDE DEF only
<1>11. DOMAIN only = 0..Len(s) /\ only[0] = <<>>
  BY <1>2, <1>10
<1>12. ASSUME NEW n \in 1..Len(s)
       PROVE  only[n] = IF s[n] \in S THEN Append(only[n - 1], s[n]) ELSE only[n - 1]
  <2>1. n \in 0..Len(s) /\ n # 0
    BY <1>2
  <2> QED
    BY <1>10, <2>1
<1> DEFINE Good == {n \in Nat : only[n] \in Seq(V)}
<1>13. 0..Len(s) \subseteq Good
  <2>1. 0 \in Good
    BY <1>11
  <2>2. ASSUME NEW n \in 1..Len(s), n - 1 \in Good PROVE n \in Good
    <3>1. only[n - 1] \in Seq(V) /\ s[n] \in V /\ n \in Nat
      BY <1>2, <2>2
    <3>2. Append(only[n - 1], s[n]) \in Seq(V)
      BY <3>1
    <3>3. only[n] \in Seq(V)
      BY <1>12, <3>1, <3>2
    <3> QED
      BY <3>1, <3>3
  <2> HIDE DEF Good
  <2> QED
    BY <1>2, <2>1, <2>2, InductionTo
<1>14. only \in [0..Len(s) -> Seq(V)]
  <2>1. only = [n \in 0..Len(s) |-> only[n]]
    BY <1>10, <1>11
  <2> QED
    BY <1>13, <2>1
<1> QED
  BY <1>1, <1>11, <1>12, <1>14 DEF Onlies


\* What Only keeps: the elements in S; and the first, if it is in S.
LEMMA OnlyKeeps ==
    ASSUME NEW V, NEW s \in Seq(V), NEW S
    PROVE  /\ Only(s, S) \in Seq(V)
           /\ Range(Only(s, S)) = Range(s) \cap S
           /\ s # <<>> /\ s[1] \in S => Only(s, S) # <<>> /\ Only(s, S)[1] = s[1]
<1>1. PICK g : Onlies(s, V, S, g)
  BY OnlyDefined
<1>2. /\ g \in [0..Len(s) -> Seq(V)] /\ g[0] = <<>>
      /\ \A n \in 1..Len(s) :
            g[n] = IF s[n] \in S THEN Append(g[n - 1], s[n]) ELSE g[n - 1]
      /\ Only(s, S) = g[Len(s)]
  BY <1>1 DEF Onlies
<1>3. Len(s) \in Nat /\ \A n \in 1..Len(s) : s[n] \in V
  OBVIOUS
<1> DEFINE Kept(n) == {s[i] : i \in 1..n} \cap S
           First(n) == n > 0 /\ s[1] \in S => g[n] # <<>> /\ g[n][1] = s[1]
           Good == {n \in 0..Len(s) : Range(g[n]) = Kept(n) /\ First(n)}
<1>4. 0 \in Good
  BY <1>2, <1>3 DEF Range
<1>5. ASSUME NEW n \in 1..Len(s), n - 1 \in Good
      PROVE  n \in Good
  <2>1. n - 1 \in 0..Len(s) /\ g[n - 1] \in Seq(V) /\ s[n] \in V
    BY <1>2, <1>3
  <2>2. Range(g[n - 1]) = Kept(n - 1) /\ First(n - 1)
    BY <1>5
  <2>3. {s[i] : i \in 1..n} = {s[i] : i \in 1..n - 1} \cup {s[n]}
    BY <1>3
  <2>4. CASE s[n] \in S
    <3>1. g[n] = Append(g[n - 1], s[n])
      BY <1>2, <2>4
    <3>2. Range(g[n]) = Range(g[n - 1]) \cup {s[n]}
      BY <2>1, <3>1, AppendRange
    <3>3. Range(g[n]) = Kept(n)
      BY <2>2, <2>3, <2>4, <3>2
    <3>4. First(n)
      <4>1. g[n] # <<>> /\ (g[n - 1] = <<>> => g[n][1] = s[n])
            /\ (g[n - 1] # <<>> => g[n][1] = g[n - 1][1])
        BY <2>1, <3>1, SMTT(30)
      <4>2. n = 1 \/ n - 1 > 0
        OBVIOUS
      <4>3. CASE n = 1
        <5>1. g[n - 1] = <<>>
          BY <1>2, <4>3
        <5> QED
          BY <4>1, <4>3, <5>1
      <4>4. CASE n - 1 > 0
        BY <2>2, <4>1, <4>4
      <4> QED
        BY <4>2, <4>3, <4>4
    <3> QED
      BY <2>1, <3>3, <3>4
  <2>5. CASE s[n] \notin S
    <3>1. g[n] = g[n - 1]
      BY <1>2, <2>5
    <3>2. Range(g[n]) = Kept(n)
      BY <2>2, <2>3, <2>5, <3>1
    <3>3. First(n)
      BY <1>3, <2>2, <2>5, <3>1
    <3> QED
      BY <2>1, <3>2, <3>3
  <2> QED
    BY <2>4, <2>5
<1>6. Len(s) \in Good
  <2> HIDE DEF Good
  <2>1. 0..Len(s) \subseteq Good
    BY <1>3, <1>4, <1>5, InductionTo
  <2> QED
    BY <1>3, <2>1
<1>7. Range(s) = {s[i] : i \in 1..Len(s)}
  BY <1>3 DEF Range
<1>8. s # <<>> => Len(s) > 0
  BY <1>3
<1> QED
  BY <1>2, <1>3, <1>6, <1>7, <1>8


-----------------------------------------------------------------------------
(* rewrite_query() keeps the hint SQL_CALC_FOUND_ROWS *)

\* Adding one index hint to a statement over V.
LEMMA AddOneIndexHint ==
    ASSUME NEW V, NEW s \in Seq(V), NEW mark, <<"index", mark[3], mark[4]>> \in V
    PROVE  AddIndexHint(s, mark) \in Seq(V)
<1> DEFINE mentions == {i \in 1..Len(s) - 1 : s[i] = <<"table", mark[3]>>}
           first == CHOOSE i \in mentions : \A j \in mentions : i <= j
<1>1. CASE mentions = {}
  BY <1>1 DEF AddIndexHint
<1>2. CASE mentions # {}
  <2>1. mentions \subseteq Nat /\ Len(s) \in Nat
    OBVIOUS
  <2>2. \E i \in mentions : \A j \in mentions : i <= j
    <3> HIDE DEF mentions
    <3> QED
      BY <1>2, <2>1, Least
  <2>3. first \in mentions
    <3> HIDE DEF mentions
    <3> QED
      BY <2>2
  <2>4. first \in 1..Len(s) - 1
    BY <2>3
  <2> DEFINE x == <<"index", mark[3], mark[4]>>
  <2>5. AddIndexHint(s, mark)
          = SubSeq(s, 1, (first + 1) - 1) \o <<x>> \o SubSeq(s, first + 1, Len(s))
    BY <1>2 DEF AddIndexHint, InsertAt
  <2> HIDE DEF first, x
  <2>6. SubSeq(s, 1, (first + 1) - 1) \in Seq(V) /\ SubSeq(s, first + 1, Len(s)) \in Seq(V)
    BY <2>1, <2>4
  <2>7. <<x>> \in Seq(V)
    BY DEF x
  <2> QED
    BY <2>5, <2>6, <2>7
<1> QED
  BY <1>1, <1>2

Adds(V, s, marks, g) ==
    /\ g \in [0..Len(marks) -> Seq(V)] /\ g[0] = s
    /\ \A n \in 1..Len(marks) : g[n] = AddIndexHint(g[n - 1], marks[n])
    /\ g[Len(marks)] = AddIndexHints(s, marks)

LEMMA AddIndexHintsDefined ==
    ASSUME NEW V, NEW s \in Seq(V), NEW M, NEW marks \in Seq(M),
           \A m \in M : <<"index", m[3], m[4]>> \in V
    PROVE  \E g : Adds(V, s, marks, g)
<1> DEFINE add == CHOOSE f :
             f = [n \in 0..Len(marks) |->
                    IF n = 0 THEN s ELSE AddIndexHint(f[n - 1], marks[n])]
           F == [n \in 1..Len(marks) |->
                    [x \in Seq(V) |-> AddIndexHint(x, marks[n])]]
<1>1. AddIndexHints(s, marks) = add[Len(marks)]
  BY DEF AddIndexHints
<1>2. Len(marks) \in Nat /\ \A n \in 1..Len(marks) : marks[n] \in M
  OBVIOUS
<1>3. ASSUME NEW n \in 1..Len(marks), NEW x \in Seq(V)
      PROVE  AddIndexHint(x, marks[n]) \in Seq(V)
  BY <1>2, AddOneIndexHint
<1>4. F \in [1..Len(marks) -> [Seq(V) -> Seq(V)]]
  BY <1>3
<1>5. \A n \in 1..Len(marks), x \in Seq(V) : F[n][x] = AddIndexHint(x, marks[n])
  OBVIOUS
<1> HIDE DEF F
<1>6. PICK g : RecursTo(Len(marks), Seq(V), s, F, g)
  BY <1>2, <1>4, RecursionTo
<1>7. g \in [0..Len(marks) -> Seq(V)] /\ g[0] = s
  BY <1>6 DEF RecursTo
<1>8. ASSUME NEW n \in 0..Len(marks)
      PROVE  g[n] = IF n = 0 THEN s ELSE AddIndexHint(g[n - 1], marks[n])
  <2>1. CASE n = 0
    BY <1>7, <2>1
  <2>2. CASE n # 0
    <3>1. n \in 1..Len(marks) /\ n - 1 \in 0..Len(marks)
      BY <1>2, <2>2
    <3>2. g[n - 1] \in Seq(V)
      BY <1>7, <3>1
    <3>3. g[n] = F[n][g[n - 1]]
      BY <1>6, <3>1 DEF RecursTo
    <3> QED
      BY <1>5, <2>2, <3>1, <3>2, <3>3
  <2> QED
    BY <2>1, <2>2
<1>9. g = [n \in 0..Len(marks) |->
              IF n = 0 THEN s ELSE AddIndexHint(g[n - 1], marks[n])]
  <2> HIDE DEF add
  <2> QED
    BY <1>7, <1>8
<1>10. add = [n \in 0..Len(marks) |->
              IF n = 0 THEN s ELSE AddIndexHint(add[n - 1], marks[n])]
  BY <1>9
<1> HIDE DEF add
<1>11. add[0] = s
  BY <1>2, <1>10
<1>12. ASSUME NEW n \in 1..Len(marks)
       PROVE  add[n] = AddIndexHint(add[n - 1], marks[n])
  <2>1. n \in 0..Len(marks) /\ n # 0
    BY <1>2
  <2> QED
    BY <1>10, <2>1
<1> DEFINE Good == {n \in Nat : add[n] \in Seq(V)}
<1>13. 0..Len(marks) \subseteq Good
  <2>1. 0 \in Good
    BY <1>11
  <2>2. ASSUME NEW n \in 1..Len(marks), n - 1 \in Good PROVE n \in Good
    BY <1>3, <1>12, <2>2, SMTT(30)
  <2> HIDE DEF Good
  <2> QED
    BY <1>2, <2>1, <2>2, InductionTo
<1>14. [n \in 0..Len(marks) |-> add[n]] \in [0..Len(marks) -> Seq(V)]
  BY <1>13
<1>15. add = [n \in 0..Len(marks) |-> add[n]]
  BY <1>10
<1> QED
  BY <1>1, <1>11, <1>12, <1>14, <1>15 DEF Adds

LEMMA AddIndexHintsType ==
    ASSUME NEW V, NEW s \in Seq(V), NEW M, NEW marks \in Seq(M),
           \A m \in M : <<"index", m[3], m[4]>> \in V
    PROVE  AddIndexHints(s, marks) \in Seq(V)
<1>1. PICK g : Adds(V, s, marks, g)
  BY AddIndexHintsDefined
<1>2. Len(marks) \in Nat
  OBVIOUS
<1> QED
  BY <1>1, <1>2 DEF Adds

LEMMA CommentsEndInside ==
    ASSUME NEW V, NEW sql \in Seq(V), sql # <<>>
    PROVE  CommentsEnd(sql) \in 1..Len(sql)
<1> DEFINE Ends(i) == i = Len(sql) \/ sql[i + 1][1] # "comment"
           S == {i \in 1..Len(sql) : Ends(i)}
<1>1. Len(sql) \in Nat /\ Len(sql) > 0 /\ DOMAIN sql = 1..Len(sql)
  OBVIOUS
<1>2. S \subseteq Nat /\ Len(sql) \in S
  BY <1>1
<1>3. PICK m \in S : \A i \in S : m <= i
  <2> HIDE DEF S
  <2> QED
    BY <1>2, Least
<1>4. ASSUME NEW j \in 2..m PROVE sql[j][1] = "comment"
  <2>0. m \in 1..Len(sql)
    OBVIOUS
  <2>1. j - 1 \in 1..Len(sql) /\ ~(m <= j - 1) /\ (j - 1) + 1 = j
    <3> HIDE DEF S
    <3> QED
      BY <1>1, <2>0
  <2>2. ~Ends(j - 1)
    BY <1>3, <2>1
  <2> QED
    BY <2>1, <2>2
<1>5. \E i \in DOMAIN sql : /\ \A j \in 2..i : sql[j][1] = "comment"
                            /\ i = Len(sql) \/ sql[i + 1][1] # "comment"
  BY <1>1, <1>3, <1>4
<1> QED
  BY <1>1, <1>5 DEF CommentsEnd

LEMMA HintGroups ==
    /\ Len(SelectHints) = 7 /\ Groups = 1..7
    /\ SelectHints[7] = {"SQL_CALC_FOUND_ROWS"}
BY DEF SelectHints, Groups


\* Whether the hint of group g is there, at i + 1.
HintAt(sql, g, i) ==
    i < Len(sql) /\ sql[i + 1][1] = "hint" /\ sql[i + 1][2] \in SelectHints[g]

LEMMA HintsEndNat ==
    ASSUME NEW V, NEW sql \in Seq(V), sql # <<>>
    PROVE  /\ \A g \in 0..Len(SelectHints) : HintsEnd(sql)[g] \in Nat
           /\ HintsEnd(sql)[0] = CommentsEnd(sql)
           /\ \A g \in 1..Len(SelectHints) :
                 HintsEnd(sql)[g] = IF HintAt(sql, g, HintsEnd(sql)[g - 1])
                                    THEN HintsEnd(sql)[g - 1] + 1
                                    ELSE HintsEnd(sql)[g - 1]
<1> DEFINE N == Len(SelectHints)
           More(i, g) == HintAt(sql, g, i)
           F == [g \in 1..N |-> [i \in Nat |-> IF More(i, g) THEN i + 1 ELSE i]]
           end == CHOOSE f :
             f = [g \in 0..Len(SelectHints) |->
                    IF g = 0 THEN CommentsEnd(sql)
                    ELSE LET i == f[g - 1] IN
                         IF i < Len(sql) /\ sql[i + 1][1] = "hint"
                                /\ sql[i + 1][2] \in SelectHints[g]
                         THEN i + 1 ELSE i]
<1>1. HintsEnd(sql) = end
  BY DEF HintsEnd
<1>2. N \in Nat /\ CommentsEnd(sql) \in Nat
  BY HintGroups, CommentsEndInside
<1> HIDE DEF N, More, HintAt
<1>3. F \in [1..N -> [Nat -> Nat]]
  OBVIOUS
<1>4. \A g \in 1..N, i \in Nat : F[g][i] = IF More(i, g) THEN i + 1 ELSE i
  OBVIOUS
<1> HIDE DEF F
<1>5. PICK h : RecursTo(N, Nat, CommentsEnd(sql), F, h)
  BY <1>2, <1>3, RecursionTo
<1>6. h \in [0..N -> Nat] /\ h[0] = CommentsEnd(sql)
  BY <1>5 DEF RecursTo
<1>7. ASSUME NEW g \in 0..N
      PROVE  h[g] = IF g = 0 THEN CommentsEnd(sql)
                    ELSE IF More(h[g - 1], g) THEN h[g - 1] + 1 ELSE h[g - 1]
  <2>1. CASE g = 0
    BY <1>6, <2>1
  <2>2. CASE g # 0
    <3>1. g \in 1..N /\ g - 1 \in 0..N
      BY <1>2, <2>2
    <3>2. h[g - 1] \in Nat
      BY <1>6, <3>1
    <3>3. h[g] = F[g][h[g - 1]]
      BY <1>5, <3>1 DEF RecursTo
    <3> QED
      BY <1>4, <2>2, <3>1, <3>2, <3>3
  <2> QED
    BY <2>1, <2>2
<1>8. h = [g \in 0..N |-> IF g = 0 THEN CommentsEnd(sql)
                          ELSE IF More(h[g - 1], g) THEN h[g - 1] + 1 ELSE h[g - 1]]
  <2> HIDE DEF end
  <2> QED
    BY <1>6, <1>7
<1>9. end = [g \in 0..N |-> IF g = 0 THEN CommentsEnd(sql)
                            ELSE IF More(end[g - 1], g) THEN end[g - 1] + 1
                                                        ELSE end[g - 1]]
  <2>1. h = [g \in 0..Len(SelectHints) |->
                    IF g = 0 THEN CommentsEnd(sql)
                    ELSE LET i == h[g - 1] IN
                         IF i < Len(sql) /\ sql[i + 1][1] = "hint"
                                /\ sql[i + 1][2] \in SelectHints[g]
                         THEN i + 1 ELSE i]
    BY <1>8 DEF N, More, HintAt
  <2>2. end = [g \in 0..Len(SelectHints) |->
                    IF g = 0 THEN CommentsEnd(sql)
                    ELSE LET i == end[g - 1] IN
                         IF i < Len(sql) /\ sql[i + 1][1] = "hint"
                                /\ sql[i + 1][2] \in SelectHints[g]
                         THEN i + 1 ELSE i]
    BY <2>1
  <2> HIDE DEF end
  <2> QED
    BY <2>2 DEF N, More, HintAt
<1> HIDE DEF end
<1>10. end[0] = CommentsEnd(sql)
  BY <1>2, <1>9
<1>11. ASSUME NEW g \in 1..N
       PROVE  end[g] = IF More(end[g - 1], g) THEN end[g - 1] + 1 ELSE end[g - 1]
  <2>1. g \in 0..N /\ g # 0
    BY <1>2
  <2> QED
    BY <1>9, <2>1
<1> DEFINE Good == {g \in Nat : end[g] \in Nat}
<1>12. 0..N \subseteq Good
  <2>1. 0 \in Good
    BY <1>2, <1>10
  <2>2. ASSUME NEW g \in 1..N, g - 1 \in Good PROVE g \in Good
    BY <1>11, <2>2
  <2> HIDE DEF Good
  <2> QED
    BY <1>2, <2>1, <2>2, InductionTo
<1>13. /\ \A g \in 0..N : end[g] \in Nat
       /\ end[0] = CommentsEnd(sql)
       /\ \A g \in 1..N : end[g] = IF More(end[g - 1], g) THEN end[g - 1] + 1
                                                        ELSE end[g - 1]
  BY <1>10, <1>11, <1>12
<1> QED
  BY <1>1, <1>13 DEF N, More

\* A SELECT that is marked with SQL_CALC_FOUND_ROWS is sent with this hint.
LEMMA HintIsSent ==
    ASSUME NEW V, NEW sql \in Seq(V), sql # <<>>,
           sql[1] = <<"keyword", "SELECT">>,
           <<"mark", "hint", "SQL_CALC_FOUND_ROWS">> \in Range(sql)
    PROVE  CalcsFoundRows(Rewrite(sql))
<1> DEFINE plain == Without({"mark"}, sql)
           marks == Marks("hint", sql)
           hints == [i \in DOMAIN marks |-> marks[i][3]]
           labels == Marks("label", sql)
           indexHints == Marks("index", sql)
           mark == <<"mark", "hint", "SQL_CALC_FOUND_ROWS">>
           hint == <<"hint", "SQL_CALC_FOUND_ROWS">>
<1>1. /\ plain \in Seq(V) /\ marks \in Seq(V) /\ labels \in Seq(V)
      /\ indexHints \in Seq(V)
  BY OnlyKeeps DEF Without, Marks
<1>2. mark \in Range(marks)
  BY OnlyKeeps DEF Marks
<1>3. plain # <<>> /\ plain[1] = <<"keyword", "SELECT">>
  <2>1. sql[1] \in Range(sql)
    BY NotEmpty
  <2>2. sql[1] \in {t \in Range(sql) : t[1] \notin {"mark"}}
    BY <2>1
  <2> QED
    BY <2>2, OnlyKeeps DEF Without
<1> HIDE DEF plain, marks, labels, indexHints
<1>4. labels \o marks \o indexHints # <<>>
  <2> DEFINE two == labels \o marks
  <2> HIDE DEF mark
  <2>1. two \in Seq(V) /\ mark \in Range(two)
    BY <1>1, <1>2, ConcatRange
  <2> HIDE DEF two
  <2>2. two \o indexHints \in Seq(V) /\ mark \in Range(two \o indexHints)
    BY <1>1, <2>1, ConcatRange
  <2>3. two \o indexHints # <<>>
    BY <2>2, NotEmpty
  <2> QED
    BY <2>3 DEF two
<1>5. Understood(plain)
  BY <1>3 DEF Understood
<1>6. Rewrite(sql) = ModifySql(plain, labels, hints, indexHints)
  BY <1>4, <1>5 DEF Rewrite, plain, marks, labels, indexHints
<1> DEFINE W == {m[3] : m \in V}
<1>7. hints \in Seq(W) /\ "SQL_CALC_FOUND_ROWS" \in Range(hints)
  <2>1. /\ DOMAIN marks = 1..Len(marks) /\ Len(marks) \in Nat
        /\ \A i \in DOMAIN marks : marks[i] \in V
    BY <1>1
  <2>2. hints \in [1..Len(marks) -> W]
    BY <2>1
  <2>3. PICK i \in DOMAIN marks : marks[i] = mark
    BY <1>2 DEF Range
  <2>4. i \in DOMAIN hints /\ hints[i] = "SQL_CALC_FOUND_ROWS"
    BY <2>3
  <2>5. hints \in Seq(W)
    BY <2>1, <2>2, SeqDef
  <2> HIDE DEF hints
  <2> QED
    BY <2>4, <2>5 DEF Range
<1> HIDE DEF hints, W
<1> DEFINE end == HintsEnd(plain)
           there(g) == IF end[g] > end[g - 1] THEN plain[end[g]] ELSE <<>>
           chosen == [g \in Groups |-> Chosen(there(g), HintsFrom(g, hints))]
           rest == SubSeq(plain, end[Len(SelectHints)] + 1, Len(plain))
           comments == SubSeq(plain, 1, CommentsEnd(plain))
           added == [i \in DOMAIN labels |-> <<"comment", labels[i][3]>>]
           words == Only(chosen, Range(chosen) \ {<<>>})
           indexed == AddIndexHints(rest, indexHints)
<1>8. Rewrite(sql) = comments \o added \o (words \o indexed)
  <2>1. Rewrite(sql) = comments \o added
            \o (IF plain[1][2] = "SELECT" THEN words \o indexed ELSE rest)
    BY <1>6 DEF ModifySql
  <2>2. plain[1][2] = "SELECT"
    BY <1>3
  <2> HIDE DEF comments, added, words, indexed, rest
  <2> QED
    BY <2>1, <2>2
<1>9. comments \in Seq(V) /\ rest \in Seq(V)
  <2>1. /\ CommentsEnd(plain) \in 1..Len(plain) /\ Len(plain) \in Nat
        /\ end[Len(SelectHints)] \in Nat
    BY <1>1, <1>3, CommentsEndInside, HintsEndNat, HintGroups
  <2> HIDE DEF end
  <2> QED
    BY <1>1, <2>1, SMTT(30)
<1>10. hint \in Range(words) /\ words \in Seq(Range(chosen))
  <2>1. /\ HintsFrom(7, hints) \in Seq(W)
        /\ Range(HintsFrom(7, hints)) = {"SQL_CALC_FOUND_ROWS"}
    BY <1>7, OnlyKeeps, HintGroups DEF HintsFrom
  <2>2. HintsFrom(7, hints) # <<>>
    BY <2>1, NotEmpty
  <2>3. Last(HintsFrom(7, hints)) \in Range(HintsFrom(7, hints))
    BY <2>1, <2>2 DEF Last, Range
  <2>4. chosen[7] = hint
    BY <2>1, <2>2, <2>3, HintGroups DEF Chosen
  <2>5. DOMAIN chosen = 1..7 /\ chosen = [g \in 1..7 |-> chosen[g]]
    BY HintGroups
  <2> HIDE DEF chosen
  <2>6. hint \in Range(chosen)
    BY <2>4, <2>5 DEF Range
  <2>7. chosen \in Seq(Range(chosen))
    <3>1. chosen \in [1..7 -> Range(chosen)]
      BY <2>5 DEF Range
    <3> QED
      BY <3>1, SeqDef
  <2>8. hint \in Range(chosen) \ {<<>>}
    BY <2>6
  <2> HIDE DEF hint
  <2> QED
    BY <2>7, <2>8, OnlyKeeps
<1> DEFINE X == V \cup {<<"index", m[3], m[4]>> : m \in V}
                  \cup {<<"comment", m[3]>> : m \in V} \cup Range(chosen)
<1>11. comments \in Seq(X) /\ rest \in Seq(X) /\ words \in Seq(X)
  <2>1. V \subseteq X /\ Range(chosen) \subseteq X
    OBVIOUS
  <2> HIDE DEF X, comments, rest, words, chosen
  <2> QED
    BY <1>9, <1>10, <2>1, SeqMonotonic
<1>12. indexed \in Seq(X)
  <2>1. \A m \in V : <<"index", m[3], m[4]>> \in X
    OBVIOUS
  <2> HIDE DEF X, rest
  <2> QED
    BY <1>1, <1>11, <2>1, AddIndexHintsType
<1>13. added \in Seq(X)
  <2>1. DOMAIN labels = 1..Len(labels) /\ Len(labels) \in Nat
        /\ \A i \in DOMAIN labels : labels[i] \in V
    BY <1>1
  <2>2. \A m \in V : <<"comment", m[3]>> \in X
    OBVIOUS
  <2> HIDE DEF X
  <2>3. added \in [1..Len(labels) -> X]
    BY <2>1, <2>2
  <2> QED
    BY <2>1, <2>3, SeqDef
<1> HIDE DEF comments, added, words, indexed, X
<1> HIDE DEF hint
<1>14. hint \in Range(comments \o added \o (words \o indexed))
  <2> DEFINE front == comments \o added
             back == words \o indexed
  <2>1. front \in Seq(X)
    BY <1>11, <1>13, ConcatRange
  <2>2. back \in Seq(X) /\ hint \in Range(back)
    BY <1>10, <1>11, <1>12, ConcatRange
  <2> HIDE DEF front, back
  <2>3. hint \in Range(front \o back)
    BY <2>1, <2>2, ConcatRange
  <2> QED
    BY <2>3 DEF front, back
<1> QED
  BY <1>8, <1>14 DEF CalcsFoundRows, hint

-----------------------------------------------------------------------------
(* Parts of sequences, and what Only() keeps of them *)

LEMMA Concats ==
    ASSUME NEW V, NEW a \in Seq(V), NEW b \in Seq(V)
    PROVE  /\ a \o b \in Seq(V) /\ Len(a \o b) = Len(a) + Len(b)
           /\ Len(a) \in Nat /\ Len(b) \in Nat
           /\ a \o <<>> = a /\ <<>> \o a = a
           /\ \A i \in 1..Len(a) : (a \o b)[i] = a[i]
           /\ \A i \in 1..Len(b) : (a \o b)[Len(a) + i] = b[i]
<1>1. /\ a \o b \in Seq(V) /\ Len(a \o b) = Len(a) + Len(b)
      /\ a \o <<>> = a /\ <<>> \o a = a
  BY ConcatProperties, ConcatEmptySeq
<1>2. Len(a) \in Nat /\ Len(b) \in Nat
  BY LenProperties
<1>3. /\ \A i \in 1..Len(a) : (a \o b)[i] = a[i]
      /\ \A i \in 1..Len(b) : (a \o b)[Len(a) + i] = b[i]
  OBVIOUS
<1> QED
  BY <1>1, <1>2, <1>3

LEMMA ConcatAppend ==
    ASSUME NEW V, NEW a \in Seq(V), NEW b \in Seq(V), NEW x \in V
    PROVE  a \o Append(b, x) = Append(a \o b, x)
<1>1. Append(b, x) = b \o <<x>> /\ <<x>> \in Seq(V)
  BY AppendIsConcat
<1>2. a \o b \in Seq(V)
  BY ConcatProperties
<1>3. Append(a \o b, x) = (a \o b) \o <<x>>
  BY <1>2, AppendIsConcat
<1>4. (a \o b) \o <<x>> = a \o (b \o <<x>>)
  BY <1>1, ConcatAssociative, SMTT(60)
<1> QED
  BY <1>1, <1>3, <1>4

\* One more element.
LEMMA OnlyAppend ==
    ASSUME NEW V, NEW s \in Seq(V), NEW x \in V, NEW S
    PROVE  /\ Only(Append(s, x), S) = IF x \in S THEN Append(Only(s, S), x) ELSE Only(s, S)
           /\ Only(<<>>, S) = <<>>
<1> DEFINE a == Append(s, x)
<1>1. /\ a \in Seq(V) /\ Len(s) \in Nat /\ Len(a) = Len(s) + 1 /\ a[Len(s) + 1] = x
      /\ \A i \in 1..Len(s) : a[i] = s[i]
  BY AppendProperties, LenProperties
<1> HIDE DEF a
<1>2. PICK g : Onlies(s, V, S, g)
  BY OnlyDefined
<1>3. PICK h : Onlies(a, V, S, h)
  BY <1>1, OnlyDefined
<1>4. /\ g[0] = <<>> /\ Only(s, S) = g[Len(s)]
      /\ \A n \in 1..Len(s) :
            g[n] = IF s[n] \in S THEN Append(g[n - 1], s[n]) ELSE g[n - 1]
  BY <1>2 DEF Onlies
<1>5. /\ h[0] = <<>> /\ Only(a, S) = h[Len(s) + 1]
      /\ \A n \in 1..Len(s) + 1 :
            h[n] = IF a[n] \in S THEN Append(h[n - 1], a[n]) ELSE h[n - 1]
  BY <1>1, <1>3 DEF Onlies
<1> DEFINE Good == {n \in Nat : h[n] = g[n]}
<1>6. 0..Len(s) \subseteq Good
  <2>1. 0 \in Good
    BY <1>4, <1>5
  <2>2. ASSUME NEW n \in 1..Len(s), n - 1 \in Good PROVE n \in Good
    <3>1. n \in 1..Len(s) + 1 /\ a[n] = s[n] /\ h[n - 1] = g[n - 1]
      BY <1>1, <2>2
    <3>2. h[n] = IF s[n] \in S THEN Append(g[n - 1], s[n]) ELSE g[n - 1]
      BY <1>5, <3>1
    <3> QED
      BY <1>4, <3>2
  <2> HIDE DEF Good
  <2> QED
    BY <1>1, <2>1, <2>2, InductionTo
<1>7. h[Len(s)] = Only(s, S)
  BY <1>1, <1>4, <1>6
<1>8. h[Len(s) + 1] = IF x \in S THEN Append(h[Len(s)], x) ELSE h[Len(s)]
  <2>1. Len(s) + 1 \in 1..Len(s) + 1 /\ (Len(s) + 1) - 1 = Len(s)
    BY <1>1
  <2> QED
    BY <1>1, <1>5, <2>1
<1>9. Only(<<>>, S) = <<>>
  <2>1. <<>> \in Seq(V) /\ Len(<<>>) = 0
    OBVIOUS
  <2>2. PICK e : Onlies(<<>>, V, S, e)
    BY <2>1, OnlyDefined
  <2> QED
    BY <2>1, <2>2 DEF Onlies
<1> QED
  BY <1>5, <1>7, <1>8, <1>9 DEF a

LEMMA OnlyNothing ==
    ASSUME NEW S
    PROVE  Only(<<>>, S) = <<>>
<1>1. <<>> \in Seq({}) /\ Len(<<>>) = 0
  OBVIOUS
<1>2. PICK g : Onlies(<<>>, {}, S, g)
  BY <1>1, OnlyDefined
<1> QED
  BY <1>1, <1>2 DEF Onlies

LEMMA OnlyConcat ==
    ASSUME NEW V, NEW a \in Seq(V), NEW b \in Seq(V), NEW S
    PROVE  Only(a \o b, S) = Only(a, S) \o Only(b, S)
<1> DEFINE Good == {t \in Seq(V) : Only(a \o t, S) = Only(a, S) \o Only(t, S)}
<1>0. \A t \in Seq(V) : Only(t, S) \in Seq(V)
  BY OnlyKeeps
<1>1. <<>> \in Good
  <2>1. <<>> \in Seq(V)
    OBVIOUS
  <2>2. a \o <<>> = a /\ Only(a, S) \o <<>> = Only(a, S)
    BY <1>0, ConcatEmptySeq
  <2>3. Only(<<>>, S) = <<>>
    <3>1. PICK e : Onlies(<<>>, V, S, e)
      BY <2>1, OnlyDefined
    <3>2. Len(<<>>) = 0
      OBVIOUS
    <3> QED
      BY <3>1, <3>2 DEF Onlies
  <2> QED
    BY <2>1, <2>2, <2>3
<1>2. ASSUME NEW t \in Seq(V), t \in Good, NEW x \in V PROVE Append(t, x) \in Good
  <2>1. Append(t, x) \in Seq(V) /\ a \o t \in Seq(V) /\ a \o Append(t, x) = Append(a \o t, x)
    BY AppendProperties, ConcatProperties, ConcatAppend
  <2>2. Only(Append(t, x), S) = IF x \in S THEN Append(Only(t, S), x) ELSE Only(t, S)
    BY OnlyAppend
  <2>5. Only(Append(a \o t, x), S)
              = IF x \in S THEN Append(Only(a \o t, S), x) ELSE Only(a \o t, S)
    BY <2>1, OnlyAppend, ZenonT(60)
  <2>3. Only(a, S) \o Append(Only(t, S), x) = Append(Only(a, S) \o Only(t, S), x)
    BY <1>0, ConcatAppend
  <2>4. Only(a \o t, S) = Only(a, S) \o Only(t, S)
    BY <1>2
  <2> QED
    BY <2>1, <2>2, <2>3, <2>4, <2>5
<1> HIDE DEF Good
<1>3. b \in Good
  BY <1>1, <1>2, SeqInduction
<1> QED
  BY <1>3 DEF Good

\* Only the elements of the sequence matter.
LEMMA OnlyMatters ==
    ASSUME NEW V, NEW s \in Seq(V), NEW S, NEW T, \A x \in V : x \in S <=> x \in T
    PROVE  Only(s, S) = Only(s, T)
<1> DEFINE Good == {t \in Seq(V) : Only(t, S) = Only(t, T)}
<1>1. <<>> \in Good
  <2>1. <<>> \in Seq(V) /\ Len(<<>>) = 0
    OBVIOUS
  <2>2. (\E e : Onlies(<<>>, V, S, e)) /\ (\E e : Onlies(<<>>, V, T, e))
    BY <2>1, OnlyDefined
  <2> QED
    BY <2>1, <2>2 DEF Onlies
<1>2. ASSUME NEW t \in Seq(V), t \in Good, NEW x \in V PROVE Append(t, x) \in Good
  <2>1. Append(t, x) \in Seq(V)
    BY AppendProperties
  <2>2. Only(Append(t, x), S) = IF x \in S THEN Append(Only(t, S), x) ELSE Only(t, S)
    BY OnlyAppend
  <2>3. Only(Append(t, x), T) = IF x \in T THEN Append(Only(t, T), x) ELSE Only(t, T)
    BY OnlyAppend
  <2>4. Only(t, S) = Only(t, T)
    BY <1>2
  <2>5. Only(Append(t, x), S) = Only(Append(t, x), T)
    BY <2>2, <2>3, <2>4
  <2> QED
    BY <2>1, <2>5
<1> HIDE DEF Good
<1>3. s \in Good
  BY <1>1, <1>2, SeqInduction
<1> QED
  BY <1>3 DEF Good

LEMMA OnlySame ==
    ASSUME NEW V, NEW s \in Seq(V), NEW S, NEW T, \A x \in Range(s) : x \in S <=> x \in T
    PROVE  Only(s, S) = Only(s, T)
<1>1. s \in Seq(Range(s))
  BY SeqOfRange
<1> QED
  BY <1>1, OnlyMatters

LEMMA OnlyAllOrNone ==
    ASSUME NEW V, NEW s \in Seq(V), NEW S
    PROVE  /\ V \subseteq S => Only(s, S) = s
           /\ (\A x \in V : x \notin S) => Only(s, S) = <<>>
<1> DEFINE Good == {t \in Seq(V) : /\ V \subseteq S => Only(t, S) = t
                                   /\ (\A x \in V : x \notin S) => Only(t, S) = <<>>}
<1>1. <<>> \in Good
  <2>1. <<>> \in Seq(V) /\ Len(<<>>) = 0
    OBVIOUS
  <2>2. \E e : Onlies(<<>>, V, S, e)
    BY <2>1, OnlyDefined
  <2> QED
    BY <2>1, <2>2 DEF Onlies
<1>2. ASSUME NEW t \in Seq(V), t \in Good, NEW x \in V PROVE Append(t, x) \in Good
  <2>1. Append(t, x) \in Seq(V)
    BY AppendProperties
  <2>2. Only(Append(t, x), S) = IF x \in S THEN Append(Only(t, S), x) ELSE Only(t, S)
    BY OnlyAppend
  <2> QED
    BY <1>2, <2>1, <2>2
<1> HIDE DEF Good
<1>3. s \in Good
  BY <1>1, <1>2, SeqInduction
<1> QED
  BY <1>3 DEF Good

LEMMA OnlyOnly ==
    ASSUME NEW V, NEW s \in Seq(V), NEW S, NEW T
    PROVE  Only(Only(s, S), T) = Only(s, S \cap T)
<1> DEFINE Good == {t \in Seq(V) : Only(Only(t, S), T) = Only(t, S \cap T)}
<1>1. <<>> \in Good
  <2>1. <<>> \in Seq(V) /\ Len(<<>>) = 0
    OBVIOUS
  <2>2. \A X : \E e : Onlies(<<>>, V, X, e)
    BY <2>1, OnlyDefined
  <2>3. \A X : Only(<<>>, X) = <<>>
    BY <2>1, <2>2 DEF Onlies
  <2> QED
    BY <2>1, <2>3
<1>2. ASSUME NEW t \in Seq(V), t \in Good, NEW x \in V PROVE Append(t, x) \in Good
  <2>1. Append(t, x) \in Seq(V) /\ Only(t, S) \in Seq(V)
    BY AppendProperties, OnlyKeeps
  <2>2. Only(Append(t, x), S) = IF x \in S THEN Append(Only(t, S), x) ELSE Only(t, S)
    BY OnlyAppend
  <2>3. Only(Append(t, x), S \cap T)
             = IF x \in S \cap T THEN Append(Only(t, S \cap T), x) ELSE Only(t, S \cap T)
    BY OnlyAppend
  <2>4. Only(Append(Only(t, S), x), T)
             = IF x \in T THEN Append(Only(Only(t, S), T), x) ELSE Only(Only(t, S), T)
    BY <2>1, OnlyAppend
  <2>5. Only(Only(t, S), T) = Only(t, S \cap T)
    BY <1>2
  <2>6. Only(Only(Append(t, x), S), T) = Only(Append(t, x), S \cap T)
    <3>1. CASE x \in S
      <4>1. Only(Only(Append(t, x), S), T) = Only(Append(Only(t, S), x), T)
        BY <2>2, <3>1
      <4>2. CASE x \in T
        BY <2>3, <2>4, <2>5, <3>1, <4>1, <4>2
      <4>3. CASE x \notin T
        BY <2>3, <2>4, <2>5, <3>1, <4>1, <4>3
      <4> QED
        BY <4>2, <4>3
    <3>2. CASE x \notin S
      BY <2>2, <2>3, <2>5, <3>2
    <3> QED
      BY <3>1, <3>2
  <2> QED
    BY <2>1, <2>6
<1> HIDE DEF Good
<1>3. s \in Good
  BY <1>1, <1>2, SeqInduction
<1> QED
  BY <1>3 DEF Good

\* A sequence of which one element at most is in S.
LEMMA OnlyOne ==
    ASSUME NEW V, NEW s \in Seq(V), NEW S, NEW i \in 1..Len(s),
           \A j \in 1..Len(s) : j # i => s[j] \notin S
    PROVE  Only(s, S) = IF s[i] \in S THEN <<s[i]>> ELSE <<>>
<1> DEFINE Lone(t, k) == \A j \in 1..Len(t) : j # k => t[j] \notin S
           Good == {t \in Seq(V) : \A k \in 1..Len(t) :
                        Lone(t, k) => Only(t, S) = IF t[k] \in S THEN <<t[k]>> ELSE <<>>}
<1>1. <<>> \in Good
  OBVIOUS
<1>2. ASSUME NEW t \in Seq(V), t \in Good, NEW x \in V PROVE Append(t, x) \in Good
  <2> DEFINE a == Append(t, x)
  <2>1. /\ a \in Seq(V) /\ Len(t) \in Nat /\ Len(a) = Len(t) + 1 /\ a[Len(t) + 1] = x
        /\ \A j \in 1..Len(t) : a[j] = t[j]
    BY AppendProperties, LenProperties
  <2>2. Only(a, S) = IF x \in S THEN Append(Only(t, S), x) ELSE Only(t, S)
    BY OnlyAppend
  <2> HIDE DEF a
  <2>3. ASSUME NEW k \in 1..Len(a), Lone(a, k)
        PROVE  Only(a, S) = IF a[k] \in S THEN <<a[k]>> ELSE <<>>
    <3>1. CASE k = Len(t) + 1
      <4>1. \A j \in 1..Len(t) : t[j] \notin S
        <5>1. ASSUME NEW j \in 1..Len(t) PROVE t[j] \notin S
          <6>1. j \in 1..Len(a) /\ j # k /\ a[j] = t[j]
            BY <2>1, <3>1
          <6> QED
            BY <2>3, <6>1
        <5> QED
          BY <5>1
      <4>2. \A y \in Range(t) : y \notin S
        <5>1. DOMAIN t = 1..Len(t)
          OBVIOUS
        <5> QED
          BY <4>1, <5>1 DEF Range
      <4>3. Only(t, S) = <<>>
        <5>1. t \in Seq(Range(t))
          BY SeqOfRange
        <5> QED
          BY <4>2, <5>1, OnlyAllOrNone
      <4>4. Append(<<>>, x) = <<x>>
        OBVIOUS
      <4> QED
        BY <2>1, <2>2, <3>1, <4>3, <4>4
    <3>2. CASE k # Len(t) + 1
      <4>1. k \in 1..Len(t) /\ a[k] = t[k]
        BY <2>1, <3>2
      <4>2. x \notin S
        <5>1. Len(t) + 1 \in 1..Len(a) /\ Len(t) + 1 # k
          BY <2>1, <3>2
        <5> QED
          BY <2>1, <2>3, <5>1
      <4>3. Lone(t, k)
        <5>1. ASSUME NEW j \in 1..Len(t), j # k PROVE t[j] \notin S
          <6>1. j \in 1..Len(a) /\ a[j] = t[j]
            BY <2>1
          <6> QED
            BY <2>3, <5>1, <6>1
        <5> QED
          BY <5>1
      <4> QED
        BY <1>2, <2>2, <4>1, <4>2, <4>3
    <3> QED
      BY <3>1, <3>2
  <2> QED
    BY <2>1, <2>3 DEF a
<1> HIDE DEF Good
<1>3. s \in Good
  BY <1>1, <1>2, SeqInduction
<1> QED
  BY <1>3 DEF Good

\* What is kept is in its order.
InOrder(s, t) ==
    \A i, j \in 1..Len(t) : i < j =>
        \E k, l \in 1..Len(s) : k < l /\ t[i] = s[k] /\ t[j] = s[l]
From1(s, t) == \A i \in 1..Len(t) : \E k \in 1..Len(s) : t[i] = s[k]

LEMMA OnlyInOrder ==
    ASSUME NEW V, NEW s \in Seq(V), NEW S
    PROVE  InOrder(s, Only(s, S)) /\ From1(s, Only(s, S))
<1> DEFINE Good == {t \in Seq(V) : InOrder(t, Only(t, S)) /\ From1(t, Only(t, S))}
<1>1. <<>> \in Good
  <2>1. <<>> \in Seq(V) /\ Len(<<>>) = 0
    OBVIOUS
  <2>2. \E e : Onlies(<<>>, V, S, e)
    BY <2>1, OnlyDefined
  <2>3. Only(<<>>, S) = <<>>
    BY <2>1, <2>2 DEF Onlies
  <2>4. \A i \in 1..0 : FALSE
    OBVIOUS
  <2> QED
    BY <2>1, <2>3, <2>4, Zenon DEF InOrder, From1
<1>2. ASSUME NEW t \in Seq(V), t \in Good, NEW x \in V PROVE Append(t, x) \in Good
  <2> DEFINE a == Append(t, x)
             o == Only(t, S)
             p == Only(a, S)
  <2>1. /\ a \in Seq(V) /\ Len(t) \in Nat /\ Len(a) = Len(t) + 1 /\ a[Len(t) + 1] = x
        /\ \A j \in 1..Len(t) : a[j] = t[j]
    BY AppendProperties, LenProperties
  <2>2. p = IF x \in S THEN Append(o, x) ELSE o
    BY OnlyAppend
  <2>3. o \in Seq(V) /\ Len(o) \in Nat /\ Len(Append(o, x)) = Len(o) + 1
        /\ Append(o, x)[Len(o) + 1] = x
        /\ \A j \in 1..Len(o) : Append(o, x)[j] = o[j]
    BY OnlyKeeps, AppendProperties, LenProperties
  <2>4. InOrder(t, o) /\ From1(t, o)
    BY <1>2
  <2> HIDE DEF a, o, p
  <2>5. InOrder(a, o) /\ From1(a, o)
    <3>1. \A k \in 1..Len(t) : k \in 1..Len(a) /\ a[k] = t[k]
      BY <2>1
    <3> QED
      BY <2>4, <3>1 DEF InOrder, From1
  <2>6. InOrder(a, Append(o, x)) /\ From1(a, Append(o, x))
    <3> DEFINE q == Append(o, x)
    <3>1. /\ Len(q) = Len(o) + 1 /\ q[Len(o) + 1] = x
          /\ \A j \in 1..Len(o) : q[j] = o[j]
      BY <2>3
    <3> HIDE DEF q
    <3>2. From1(a, q)
      <4>1. ASSUME NEW i \in 1..Len(q) PROVE \E k \in 1..Len(a) : q[i] = a[k]
        <5>1. CASE i \in 1..Len(o)
          BY <2>5, <3>1, <5>1 DEF From1
        <5>2. CASE i = Len(o) + 1
          <6>1. Len(t) + 1 \in 1..Len(a)
            BY <2>1
          <6> QED
            BY <2>1, <3>1, <5>2, <6>1
        <5> QED
          BY <2>3, <3>1, <5>1, <5>2
      <4> QED
        BY <4>1 DEF From1
    <3>3. InOrder(a, q)
      <4>1. ASSUME NEW i \in 1..Len(q), NEW j \in 1..Len(q), i < j
            PROVE  \E k, l \in 1..Len(a) : k < l /\ q[i] = a[k] /\ q[j] = a[l]
        <5>1. CASE j \in 1..Len(o)
          <6>1. i \in 1..Len(o) /\ q[i] = o[i] /\ q[j] = o[j]
            BY <2>3, <3>1, <4>1, <5>1
          <6>2. \E k, l \in 1..Len(a) : k < l /\ o[i] = a[k] /\ o[j] = a[l]
            BY <2>5, <4>1, <5>1, <6>1 DEF InOrder
          <6> QED
            BY <6>1, <6>2
        <5>2. CASE j = Len(o) + 1
          <6>1. i \in 1..Len(o)
            BY <2>3, <4>1, <5>2
          <6>2. PICK k \in 1..Len(t) : o[i] = t[k]
            BY <2>4, <6>1 DEF From1
          <6> DEFINE l == Len(t) + 1
          <6>3. k \in 1..Len(a) /\ l \in 1..Len(a) /\ k < l
            BY <2>1
          <6>4. q[i] = a[k] /\ q[j] = a[l]
            BY <2>1, <3>1, <5>2, <6>1, <6>2
          <6> HIDE DEF l
          <6>5. \E n \in 1..Len(a) : k < n /\ q[i] = a[k] /\ q[j] = a[n]
            BY <6>3, <6>4
          <6> QED
            BY <6>3, <6>5, ZenonT(30)
        <5> QED
          BY <2>3, <3>1, <5>1, <5>2
      <4> QED
        BY <4>1 DEF InOrder
    <3> QED
      BY <3>2, <3>3 DEF q
  <2> QED
    BY <2>1, <2>2, <2>5, <2>6 DEF a, o, p
<1> HIDE DEF Good
<1>3. s \in Good
  BY <1>1, <1>2, SeqInduction
<1> QED
  BY <1>3 DEF Good

-----------------------------------------------------------------------------
(* What query_start_re matches *)

\* The three parts of a concatenation.
LEMMA Parts ==
    ASSUME NEW V, NEW p \in Seq(V), NEW h \in Seq(V), NEW r \in Seq(V)
    PROVE  /\ p \o (h \o r) \in Seq(V)
           /\ Len(p \o (h \o r)) = Len(p) + Len(h) + Len(r)
           /\ \A i \in 1..Len(p) : (p \o (h \o r))[i] = p[i]
           /\ \A i \in 1..Len(h) : (p \o (h \o r))[Len(p) + i] = h[i]
           /\ \A i \in 1..Len(r) : (p \o (h \o r))[Len(p) + Len(h) + i] = r[i]
<1> DEFINE b == h \o r
           a == p \o b
<1>1. /\ b \in Seq(V) /\ Len(b) = Len(h) + Len(r)
      /\ \A i \in 1..Len(h) : b[i] = h[i]
      /\ \A i \in 1..Len(r) : b[Len(h) + i] = r[i]
  BY Concats
<1> HIDE DEF b
<1>0. b \in Seq(V)
  BY <1>1
<1>2. /\ a \in Seq(V) /\ Len(a) = Len(p) + Len(b)
      /\ \A i \in 1..Len(p) : a[i] = p[i]
      /\ \A i \in 1..Len(b) : a[Len(p) + i] = b[i]
  BY <1>0, Concats
<1> HIDE DEF a
<1>3. Len(p) \in Nat /\ Len(h) \in Nat /\ Len(r) \in Nat
  BY LenProperties
<1>4. ASSUME NEW i \in 1..Len(h) PROVE a[Len(p) + i] = h[i]
  <2>1. i \in 1..Len(b)
    BY <1>1, <1>3
  <2> QED
    BY <1>1, <1>2, <2>1
<1>5. ASSUME NEW i \in 1..Len(r) PROVE a[Len(p) + Len(h) + i] = r[i]
  <2>1. Len(h) + i \in 1..Len(b) /\ Len(p) + (Len(h) + i) = Len(p) + Len(h) + i
    BY <1>1, <1>3
  <2> QED
    BY <1>1, <1>2, <2>1
<1>6. Len(a) = Len(p) + Len(h) + Len(r)
  BY <1>1, <1>2, <1>3
<1> QED
  BY <1>2, <1>4, <1>5, <1>6 DEF a, b

\* The groups are disjoint.
HintOf(g, t) == t[1] = "hint" /\ t[2] \in SelectHints[g]
G(t) == GroupOf(t[2])
LEMMA GroupsApart ==
    ASSUME NEW g \in Groups, NEW t, HintOf(g, t)
    PROVE  /\ G(t) = g /\ g \in 1..7
           /\ \A h \in Groups : HintOf(h, t) => h = g
<1>1. ASSUME NEW h \in Groups, HintOf(h, t) PROVE h = g
  <2>1. Groups = 1..7 /\ g \in 1..7 /\ h \in 1..7
    BY HintGroups
  <2>2. /\ g = 1 \/ g = 2 \/ g = 3 \/ g = 4 \/ g = 5 \/ g = 6 \/ g = 7
        /\ h = 1 \/ h = 2 \/ h = 3 \/ h = 4 \/ h = 5 \/ h = 6 \/ h = 7
    BY <2>1
  <2>3. /\ SelectHints[1] = {"ALL", "DISTINCT", "DISTINCTROW"}
        /\ SelectHints[2] = {"HIGH_PRIORITY"}
        /\ SelectHints[3] = {"STRAIGHT_JOIN"}
        /\ SelectHints[4] = {"SQL_SMALL_RESULT", "SQL_BIG_RESULT"}
        /\ SelectHints[5] = {"SQL_BUFFER_RESULT"}
        /\ SelectHints[6] = {"SQL_CACHE", "SQL_NO_CACHE"}
        /\ SelectHints[7] = {"SQL_CALC_FOUND_ROWS"}
    BY DEF SelectHints
  <2>4. t[2] \in SelectHints[g] /\ t[2] \in SelectHints[h]
    BY <1>1 DEF HintOf
  <2> QED
    BY <2>2, <2>3, <2>4
<1>2. \A h \in Groups : t[2] \in SelectHints[h] <=> h = g
  BY <1>1 DEF HintOf
<1>3. G(t) = g
  BY <1>2 DEF G, GroupOf
<1> QED
  BY <1>1, <1>3, HintGroups

\* Hints as the grammar wants them.
InGrammar(h) ==
    /\ \A i \in 1..Len(h) : h[i] # <<>> /\ \E g \in Groups : HintOf(g, h[i])
    /\ \A i, j \in 1..Len(h) : i < j => G(h[i]) < G(h[j])

LEMMA InGroups ==
    ASSUME NEW h, InGrammar(h)
    PROVE  /\ \A i \in 1..Len(h) : /\ h[i][1] = "hint" /\ G(h[i]) \in 1..7
                                   /\ HintOf(G(h[i]), h[i])
           /\ \A g \in Groups, i \in 1..Len(h) : HintOf(g, h[i]) => G(h[i]) = g
<1>1. ASSUME NEW i \in 1..Len(h)
      PROVE  h[i][1] = "hint" /\ G(h[i]) \in 1..7 /\ HintOf(G(h[i]), h[i])
  <2>1. PICK g \in Groups : HintOf(g, h[i])
    BY DEF InGrammar
  <2>2. G(h[i]) = g /\ g \in 1..7
    BY <2>1, GroupsApart
  <2> QED
    BY <2>1, <2>2 DEF HintOf
<1>2. ASSUME NEW g \in Groups, NEW i \in 1..Len(h), HintOf(g, h[i]) PROVE G(h[i]) = g
  BY <1>2, GroupsApart
<1> QED
  BY <1>1, <1>2

IsComment(t) == t[1] = "comment"

LEMMA CommentsEndIs ==
    ASSUME NEW V, NEW sql \in Seq(V), NEW c \in 1..Len(sql),
           \A j \in 2..c : IsComment(sql[j]),
           c = Len(sql) \/ ~IsComment(sql[c + 1])
    PROVE  CommentsEnd(sql) = c
<1>1. DOMAIN sql = 1..Len(sql) /\ Len(sql) \in Nat
  OBVIOUS
<1>2. CommentsEnd(sql) = CHOOSE i \in 1..Len(sql) :
            (\A j \in 2..i : IsComment(sql[j])) /\ (i = Len(sql) \/ ~IsComment(sql[i + 1]))
  BY <1>1 DEF CommentsEnd, IsComment
<1>3. (\A j \in 2..c : IsComment(sql[j])) /\ (c = Len(sql) \/ ~IsComment(sql[c + 1]))
  OBVIOUS
<1>4. ASSUME NEW i \in 1..Len(sql),
             (\A j \in 2..i : IsComment(sql[j])) /\ (i = Len(sql) \/ ~IsComment(sql[i + 1]))
      PROVE  i = c
  <2>0. Len(sql) \in Nat
    BY <1>1
  <2> DEFINE n == Len(sql)
  <2> HIDE DEF n
  <2>4. i \in 1..n /\ c \in 1..n /\ n \in Nat
    BY <2>0 DEF n
  <2>1. i < c => i + 1 \in 2..c /\ i # n
    BY <2>4
  <2>2. c < i => c + 1 \in 2..i /\ c # n
    BY <2>4
  <2>3. i \in Nat /\ c \in Nat
    BY <2>4
  <2> QED
    BY <1>3, <1>4, <2>1, <2>2, <2>3 DEF n
<1> QED
  BY <1>2, <1>3, <1>4

\* The hints up to e are those of the groups below g: one step of the match.
LEMMA OneGroup ==
    ASSUME NEW c \in Nat, NEW m \in Nat, NEW e \in c..c + m, NEW g \in 1..7,
           NEW gr, \A i \in 1..m : gr[i] \in 1..7,
           \A i, j \in 1..m : i < j => gr[i] < gr[j],
           \A i \in 1..m : i <= e - c <=> gr[i] <= g - 1,
           NEW f, f = IF e < c + m /\ gr[e + 1 - c] = g THEN e + 1 ELSE e
    PROVE  /\ f \in c..c + m
           /\ \A i \in 1..m : i <= f - c <=> gr[i] <= g
<1> DEFINE k == e + 1 - c
<1>0. k \in 1..m + 1 /\ e = c + k - 1 /\ (e < c + m <=> k \in 1..m)
  OBVIOUS
<1> HIDE DEF k
<1>1. \A i \in 1..m : i < k <=> gr[i] < g
  BY <1>0
<1>2. ASSUME NEW i \in 1..m PROVE i <= f - c <=> gr[i] <= g
  <2>1. CASE e < c + m /\ gr[k] = g
    <3>1. f = c + k /\ k \in 1..m
      BY <1>0, <2>1 DEF k
    <3>2. i < k => gr[i] < g
      BY <1>1
    <3>3. k < i => gr[k] < gr[i]
      BY <3>1
    <3> QED
      BY <1>0, <2>1, <3>1, <3>2, <3>3
  <2>2. CASE ~(e < c + m /\ gr[k] = g)
    <3>1. f = c + k - 1
      BY <1>0, <2>2 DEF k
    <3>2. i < k => gr[i] < g
      BY <1>1
    <3>3. k <= i => gr[i] # g
      <4>1. CASE k = i
        BY <1>0, <2>2, <4>1
      <4>2. CASE k < i
        <5>1. k \in 1..m /\ gr[k] < gr[i]
          BY <1>0, <4>2
        <5>2. gr[k] >= g
          BY <1>1, <1>0, <5>1
        <5> QED
          BY <5>1, <5>2
      <4> QED
        BY <1>0, <4>1, <4>2
    <3>4. k <= i => gr[i] >= g
      BY <1>0, <1>1
    <3> QED
      BY <1>0, <3>1, <3>2, <3>3, <3>4
  <2> QED
    BY <2>1, <2>2
<1>3. f \in c..c + m
  BY <1>0
<1> QED
  BY <1>2, <1>3

IsHint(t) == t[1] = "hint"

\* What the match of query_start_re finds in a statement of the grammar.
LEMMA HintsEndIs ==
    ASSUME NEW V, NEW p \in Seq(V), NEW h \in Seq(V), NEW r \in Seq(V), p # <<>>,
           \A j \in 2..Len(p) : IsComment(p[j]), InGrammar(h),
           \A i \in 1..Len(r) : ~IsComment(r[i]) /\ ~IsHint(r[i]),
           NEW sql, sql = p \o (h \o r)
    PROVE  /\ CommentsEnd(sql) = Len(p)
           /\ \A g \in 0..7 :
                /\ HintsEnd(sql)[g] \in Len(p)..Len(p) + Len(h)
                /\ \A i \in 1..Len(h) : i <= HintsEnd(sql)[g] - Len(p) <=> G(h[i]) <= g
<1> DEFINE c == Len(p)
           m == Len(h)
           k == Len(r)
<1>1. c \in Nat /\ m \in Nat /\ k \in Nat
  BY LenProperties
<1>2. /\ sql \in Seq(V) /\ Len(sql) = c + m + k
      /\ \A i \in 1..c : sql[i] = p[i]
      /\ \A i \in 1..m : sql[c + i] = h[i]
      /\ \A i \in 1..k : sql[c + m + i] = r[i]
  BY Parts
<1>3. \A i \in 1..m : IsHint(h[i]) /\ ~IsComment(h[i]) /\ G(h[i]) \in 1..7
  BY InGroups DEF IsHint, IsComment
<1>4. c > 0
  <2>1. p # <<>> => Len(p) > 0
    BY EmptySeq, LenProperties
  <2> QED
    BY <2>1
<1>5. /\ \A j \in 2..c : IsComment(p[j])
      /\ \A i \in 1..k : ~IsComment(r[i]) /\ ~IsHint(r[i])
  OBVIOUS
<1> HIDE DEF c, m, k
<1>6. CommentsEnd(sql) = c
  <2>1. c \in 1..Len(sql)
    BY <1>1, <1>2, <1>4
  <2>2. ASSUME NEW j \in 2..c PROVE IsComment(sql[j])
    <3>1. j \in 1..c
      BY <1>1
    <3> QED
      BY <1>2, <1>5, <3>1
  <2>3. c = Len(sql) \/ ~IsComment(sql[c + 1])
    <3>1. CASE m > 0
      <4>1. 1 \in 1..m
        BY <1>1, <3>1
      <4> QED
        BY <1>2, <1>3, <4>1
    <3>2. CASE m <= 0 /\ k > 0
      <4>1. 1 \in 1..k /\ c + m + 1 = c + 1
        BY <1>1, <3>2
      <4> QED
        BY <1>2, <1>5, <4>1
    <3>3. CASE m <= 0 /\ k <= 0
      BY <1>1, <1>2, <3>3
    <3>4. (m > 0) \/ (m <= 0 /\ k > 0) \/ (m <= 0 /\ k <= 0)
      BY <1>1
    <3> QED
      BY <3>1, <3>2, <3>3, <3>4
  <2>4. sql \in Seq(V)
    BY <1>2
  <2> QED
    BY <2>1, <2>2, <2>3, <2>4, CommentsEndIs
<1> DEFINE end == HintsEnd(sql)
<1>7. /\ end[0] = c
      /\ \A g \in 1..7 : end[g] = IF HintAt(sql, g, end[g - 1]) THEN end[g - 1] + 1
                                  ELSE end[g - 1]
  <2>1. sql # <<>>
    BY <1>1, <1>2, <1>4, EmptySeq
  <2>2. sql \in Seq(V) /\ Len(SelectHints) = 7
    BY <1>2, HintGroups
  <2>3. \A g \in 1..Len(SelectHints) :
           end[g] = IF HintAt(sql, g, end[g - 1]) THEN end[g - 1] + 1 ELSE end[g - 1]
    BY <2>1, <2>2, HintsEndNat
  <2>4. end[0] = c
    BY <1>6, <2>1, <2>2, HintsEndNat
  <2> QED
    BY <2>2, <2>3, <2>4
<1> HIDE DEF end
<1>8. ASSUME NEW g \in 1..7, NEW e \in c..c + m
      PROVE  HintAt(sql, g, e) <=> e < c + m /\ G(h[e + 1 - c]) = g
  <2>0. Groups = 1..7
    BY HintGroups
  <2>1. CASE e < c + m
    <3>1. e + 1 - c \in 1..m /\ c + (e + 1 - c) = e + 1 /\ e < Len(sql)
      BY <1>1, <1>2, <2>1
    <3>2. sql[e + 1] = h[e + 1 - c]
      BY <1>2, <3>1
    <3> DEFINE t == h[e + 1 - c]
    <3>3. IsHint(t) /\ HintOf(G(t), t)
      BY <1>3, <3>1, InGroups DEF m
    <3>4. HintOf(g, t) => G(t) = g
      BY <2>0, GroupsApart
    <3>5. HintAt(sql, g, e) <=> HintOf(g, t)
      BY <3>1, <3>2 DEF HintAt, HintOf
    <3> HIDE DEF t
    <3>6. HintAt(sql, g, e) <=> G(t) = g
      BY <3>3, <3>4, <3>5
    <3> QED
      BY <2>1, <3>6 DEF t
  <2>2. CASE ~(e < c + m)
    <3>1. HintAt(sql, g, e) => e + 1 = c + m + 1 /\ 1 \in 1..k
      BY <1>1, <1>2, <2>2 DEF HintAt
    <3>2. HintAt(sql, g, e) => IsHint(sql[e + 1])
      BY DEF HintAt, IsHint
    <3> QED
      BY <1>2, <1>5, <2>2, <3>1, <3>2
  <2> QED
    BY <2>1, <2>2
<1>9. /\ \A i, j \in 1..m : i < j => G(h[i]) < G(h[j])
      /\ \A i \in 1..m : G(h[i]) \in 1..7
  BY <1>3 DEF InGrammar, m
<1> DEFINE Good == {g \in Nat : /\ end[g] \in c..c + m
                                /\ \A i \in 1..m : i <= end[g] - c <=> G(h[i]) <= g}
<1>10. 0..7 \subseteq Good
  <2>1. 0 \in Good
    <3>1. end[0] = c /\ c \in c..c + m
      BY <1>1, <1>7
    <3>2. ASSUME NEW i \in 1..m PROVE i <= c - c <=> G(h[i]) <= 0
      <4>1. ~(i <= c - c)
        BY <1>1
      <4>2. G(h[i]) \in 1..7
        BY <1>9
      <4>3. ~(G(h[i]) <= 0)
        BY <4>2
      <4> QED
        BY <4>1, <4>3
    <3> QED
      BY <3>1, <3>2
  <2>2. ASSUME NEW g \in 1..7, g - 1 \in Good PROVE g \in Good
    <3> DEFINE e == end[g - 1]
               f == end[g]
               gr == [i \in 1..m |-> G(h[i])]
    <3>1. e \in c..c + m /\ \A i \in 1..m : i <= e - c <=> gr[i] <= g - 1
      BY <2>2
    <3>2. /\ \A i \in 1..m : gr[i] \in 1..7 /\ gr[i] = G(h[i])
          /\ \A i, j \in 1..m : i < j => gr[i] < gr[j]
      BY <1>9
    <3> HIDE DEF e, f, gr
    <3>3. f = IF HintAt(sql, g, e) THEN e + 1 ELSE e
      BY <1>7 DEF e, f
    <3>4. f = IF e < c + m /\ gr[e + 1 - c] = g THEN e + 1 ELSE e
      <4>1. e < c + m => e + 1 - c \in 1..m
        BY <1>1, <3>1
      <4>2. HintAt(sql, g, e) <=> e < c + m /\ gr[e + 1 - c] = g
        BY <1>8, <3>1, <3>2, <4>1
      <4> QED
        BY <3>3, <4>2
    <3>5. f \in c..c + m /\ \A i \in 1..m : i <= f - c <=> gr[i] <= g
      <4>1. /\ c \in Nat /\ m \in Nat /\ e \in c..c + m
            /\ \A i \in 1..m : gr[i] \in 1..7
        BY <1>1, <3>1, <3>2
      <4>2. \A i, j \in 1..m : i < j => gr[i] < gr[j]
        BY <3>2
      <4>3. \A i \in 1..m : i <= e - c <=> gr[i] <= g - 1
        BY <3>1
      <4> QED
        BY <3>4, <4>1, <4>2, <4>3, OneGroup, Zenon
    <3> QED
      BY <3>2, <3>5 DEF f
  <2> HIDE DEF Good
  <2> QED
    BY <2>1, <2>2, InductionTo
<1> QED
  BY <1>6, <1>10 DEF c, m, end

LEMMA SubSeqIs ==
    ASSUME NEW V, NEW s \in Seq(V), NEW t \in Seq(V), NEW n \in Nat,
           n + Len(t) <= Len(s), \A i \in 1..Len(t) : s[n + i] = t[i]
    PROVE  SubSeq(s, n + 1, n + Len(t)) = t
<1> DEFINE l == Len(t)
           u == SubSeq(s, n + 1, n + l)
<1>1. l \in Nat /\ Len(s) \in Nat /\ \A i \in 1..Len(s) : s[i] \in V
  BY LenProperties, ElementOfSeq
<1>2. \A i \in n + 1..n + l : s[i] \in V
  BY <1>1
<1>3. /\ u \in Seq(V) /\ Len(u) = IF n + 1 <= n + l THEN n + l - (n + 1) + 1 ELSE 0
      /\ \A i \in 1..n + l - (n + 1) + 1 : u[i] = s[n + 1 + i - 1]
  <2>1. n + 1 \in Int /\ n + l \in Int
    BY <1>1
  <2> QED
    BY <1>2, <2>1, SubSeqProperties
<1> HIDE DEF u
<1>4. Len(u) = l /\ \A i \in 1..l : u[i] = s[n + i]
  <2> HIDE DEF l
  <2>1. Len(u) = l
    BY <1>1, <1>3
  <2>2. \A i \in 1..l : i \in 1..n + l - (n + 1) + 1 /\ n + 1 + i - 1 = n + i
    BY <1>1
  <2> QED
    BY <1>3, <2>1, <2>2
<1>5. \A i \in 1..Len(u) : u[i] = t[i]
  BY <1>4
<1>6. u \in Seq(V) /\ Len(u) = Len(t)
  BY <1>3, <1>4
<1>7. u = t
  BY <1>5, <1>6, SeqEqual
<1> QED
  BY <1>7 DEF u

\* t is the hint of group g in h, or there is none.
HintThere(h, g, t) ==
    \/ \E i \in 1..Len(h) : HintOf(g, h[i]) /\ t = h[i]
    \/ t = <<>> /\ \A i \in 1..Len(h) : ~HintOf(g, h[i])

\* sql is a keyword and comments p, hints h, and a rest r that is neither.
InParts(V, p, h, r, sql) ==
    /\ p \in Seq(V) /\ h \in Seq(V) /\ r \in Seq(V)
    /\ p # <<>> /\ \A j \in 2..Len(p) : IsComment(p[j])
    /\ InGrammar(h)
    /\ \A i \in 1..Len(r) : ~IsComment(r[i]) /\ ~IsHint(r[i])
    /\ sql = p \o (h \o r)
\* What query_start_re finds in sql are those parts.
MatchedAs(p, h, r, sql) ==
    LET end == HintsEnd(sql)
    IN  /\ SubSeq(sql, 1, CommentsEnd(sql)) = p
        /\ SubSeq(sql, end[Len(SelectHints)] + 1, Len(sql)) = r
        /\ \A g \in Groups :
             HintThere(h, g, IF end[g] > end[g - 1] THEN sql[end[g]] ELSE <<>>)

LEMMA Matched ==
    ASSUME NEW V, NEW p, NEW h, NEW r, NEW sql, InParts(V, p, h, r, sql)
    PROVE  MatchedAs(p, h, r, sql)
<1> DEFINE end == HintsEnd(sql)
<1>0. /\ p \in Seq(V) /\ h \in Seq(V) /\ r \in Seq(V) /\ p # <<>>
      /\ \A j \in 2..Len(p) : IsComment(p[j])
      /\ InGrammar(h)
      /\ \A i \in 1..Len(r) : ~IsComment(r[i]) /\ ~IsHint(r[i])
      /\ sql = p \o (h \o r) /\ end = HintsEnd(sql)
  BY DEF InParts
<1> HIDE DEF end
<1> USE <1>0
<1> DEFINE c == Len(p)
           m == Len(h)
           k == Len(r)
<1>1. c \in Nat /\ m \in Nat /\ k \in Nat
  BY LenProperties
<1>2. /\ sql \in Seq(V) /\ Len(sql) = c + m + k
      /\ \A i \in 1..c : sql[i] = p[i]
      /\ \A i \in 1..m : sql[c + i] = h[i]
      /\ \A i \in 1..k : sql[c + m + i] = r[i]
  BY Parts
<1>3. CommentsEnd(sql) = c
  BY HintsEndIs
<1>4. \A g \in 0..7 : /\ end[g] \in c..c + m
                      /\ \A i \in 1..m : i <= end[g] - c <=> G(h[i]) <= g
  BY HintsEndIs
<1>5. \A i \in 1..m : G(h[i]) \in 1..7 /\ HintOf(G(h[i]), h[i])
  BY InGroups
<1>6. \A i, j \in 1..m : i < j => G(h[i]) < G(h[j])
  BY DEF InGrammar
<1>7. \A g \in 1..7, i \in 1..m : HintOf(g, h[i]) => G(h[i]) = g
  BY InGroups, HintGroups
<1>8. SubSeq(sql, 1, c) = p
  <2>1. /\ 0 \in Nat /\ 0 + Len(p) <= Len(sql) /\ \A i \in 1..Len(p) : sql[0 + i] = p[i]
        /\ sql \in Seq(V)
    <3>1. \A i \in 1..c : 0 + i = i
      BY <1>1
    <3> QED
      BY <1>1, <1>2, <3>1
  <2>2. SubSeq(sql, 0 + 1, 0 + Len(p)) = p
    BY <2>1, SubSeqIs, Zenon
  <2>3. 0 + 1 = 1 /\ 0 + Len(p) = c
    BY <1>1
  <2> QED
    BY <2>2, <2>3
<1> HIDE DEF c, m, k
<1>9. SubSeq(sql, end[Len(SelectHints)] + 1, Len(sql)) = r
  <2>1. Len(SelectHints) = 7 /\ 7 \in 0..7
    BY HintGroups
  <2> DEFINE e == end[7]
  <2>2. e \in c..c + m /\ \A i \in 1..m : i <= e - c <=> G(h[i]) <= 7
    BY <1>4, <2>1
  <2> HIDE DEF e
  <2>3. m \in 1..m => m <= e - c
    <3>1. \A i \in 1..m : G(h[i]) \in 1..7
      BY <1>5
    <3>2. ASSUME NEW i \in 1..m PROVE G(h[i]) <= 7
      <4>1. G(h[i]) \in 1..7
        BY <3>1
      <4> QED
        BY <4>1
    <3> QED
      BY <2>2, <3>2, Zenon
  <2>4. e = c + m
    BY <1>1, <2>2, <2>3
  <2>5. /\ c + m \in Nat /\ c + m + Len(r) <= Len(sql)
        /\ \A i \in 1..Len(r) : sql[c + m + i] = r[i]
        /\ sql \in Seq(V)
    BY <1>1, <1>2 DEF k
  <2>6. SubSeq(sql, c + m + 1, c + m + Len(r)) = r
    BY <2>5, SubSeqIs, Zenon
  <2> QED
    BY <1>2, <2>1, <2>4, <2>6 DEF e, k
<1>10. ASSUME NEW g \in 1..7
       PROVE  HintThere(h, g, IF end[g] > end[g - 1] THEN sql[end[g]] ELSE <<>>)
  <2> DEFINE d == end[g - 1]
             e == end[g]
             t == IF e > d THEN sql[e] ELSE <<>>
  <2>1. /\ d \in c..c + m /\ \A i \in 1..m : i <= d - c <=> G(h[i]) <= g - 1
        /\ e \in c..c + m /\ \A i \in 1..m : i <= e - c <=> G(h[i]) <= g
    <3>1. g \in 0..7 /\ g - 1 \in 0..7
      OBVIOUS
    <3>2. d \in c..c + m /\ \A i \in 1..m : i <= d - c <=> G(h[i]) <= g - 1
      BY <1>4, <3>1, Zenon
    <3>3. e \in c..c + m /\ \A i \in 1..m : i <= e - c <=> G(h[i]) <= g
      BY <1>4, <3>1, Zenon
    <3> QED
      BY <3>2, <3>3
  <2> HIDE DEF d, e
  <2>2. CASE e > d
    <3> DEFINE i == e - c
    <3>1. i \in 1..m /\ c + i = e
      BY <1>1, <2>1, <2>2
    <3>2. ~(i <= d - c) /\ i <= e - c
      BY <1>1, <2>1, <2>2
    <3> HIDE DEF i
    <3>3. G(h[i]) = g
      <4>1. ~(G(h[i]) <= g - 1) /\ G(h[i]) <= g
        BY <2>1, <3>1, <3>2, Zenon
      <4>2. G(h[i]) \in 1..7
        BY <1>5, <3>1
      <4> QED
        BY <4>1, <4>2
    <3>4. HintOf(g, h[i])
      BY <1>5, <3>1, <3>3
    <3>5. t = h[i]
      BY <1>2, <2>2, <3>1
    <3> QED
      BY <3>1, <3>4, <3>5 DEF HintThere, m, d, e
  <2>3. CASE ~(e > d)
    <3>1. ASSUME NEW i \in 1..m PROVE ~HintOf(g, h[i])
      <4>1. G(h[i]) # g
        <5>1. i <= e - c => i <= d - c
          BY <1>1, <2>1, <2>3
        <5> QED
          BY <1>5, <2>1, <5>1
      <4> QED
        BY <1>7, <4>1
    <3> QED
      BY <2>3, <3>1 DEF HintThere, m, d, e
  <2> QED
    BY <2>2, <2>3
<1>11. \A g \in Groups :
          HintThere(h, g, IF end[g] > end[g - 1] THEN sql[end[g]] ELSE <<>>)
  BY <1>10, HintGroups
<1> QED
  BY <1>3, <1>8, <1>9, <1>11 DEF MatchedAs, end, c

-----------------------------------------------------------------------------
(* The hints that are chosen *)

LEMMA RangeAt ==
    ASSUME NEW V, NEW s \in Seq(V)
    PROVE  /\ \A i \in 1..Len(s) : s[i] \in Range(s)
           /\ \A x \in Range(s) : \E i \in 1..Len(s) : s[i] = x
           /\ Range(s) \subseteq V
<1>1. DOMAIN s = 1..Len(s) /\ \A i \in 1..Len(s) : s[i] \in V
  BY LenProperties, ElementOfSeq
<1> QED
  BY <1>1 DEF Range

LEMMA WordThere ==
    ASSUME NEW V, NEW h \in Seq(V), InGrammar(h), NEW g \in Groups, NEW t,
           HintThere(h, g, t)
    PROVE  Words(g, h) = IF t = <<>> THEN <<>> ELSE <<t>>
<1> DEFINE S == {x \in Range(h) : HintOf(g, x)}
<1>1. Words(g, h) = Only(h, S)
  BY DEF Words, HintOf
<1>2. CASE t = <<>> /\ \A i \in 1..Len(h) : ~HintOf(g, h[i])
  <2>1. h \in Seq(Range(h)) /\ \A x \in Range(h) : x \notin S
    BY <1>2, SeqOfRange, RangeAt
  <2> HIDE DEF S
  <2> QED
    BY <1>1, <1>2, <2>1, OnlyAllOrNone
<1>3. ASSUME NEW i \in 1..Len(h), HintOf(g, h[i]), t = h[i]
      PROVE  Words(g, h) = IF t = <<>> THEN <<>> ELSE <<t>>
  <2>1. h[i] # <<>> /\ h[i] \in S
    BY <1>3, RangeAt DEF InGrammar
  <2>2. ASSUME NEW j \in 1..Len(h), j # i PROVE h[j] \notin S
    <3>1. SUFFICES ASSUME HintOf(g, h[j]) PROVE FALSE
      OBVIOUS
    <3>2. G(h[j]) = g /\ G(h[i]) = g /\ g \in Nat
      BY <1>3, <3>1, GroupsApart
    <3>3. j \in Nat /\ i \in Nat
      BY LenProperties
    <3>4. j < i \/ i < j
      BY <2>2, <3>3
    <3>5. G(h[j]) < G(h[i]) \/ G(h[i]) < G(h[j])
      BY <3>4 DEF InGrammar
    <3> QED
      BY <3>2, <3>5
  <2> HIDE DEF S
  <2>3. Only(h, S) = <<h[i]>>
    BY <2>1, <2>2, OnlyOne
  <2> QED
    BY <1>1, <1>3, <2>1, <2>3
<1> QED
  BY <1>2, <1>3 DEF HintThere

\* The hints of a SELECT after they were modified.
\* chosen holds the hint of each group: the one of h, or the last of hints.
ChosenAmong(V, W, h, hints, chosen) ==
    /\ h \in Seq(V) /\ InGrammar(h) /\ hints \in Seq(W)
    /\ chosen = [g \in Groups |-> chosen[g]]
    /\ \A g \in Groups : \E t : /\ HintThere(h, g, t)
                                /\ chosen[g] = Chosen(t, HintsFrom(g, hints))
\* Then the words of chosen are in the order of the grammar.
ChosenAs(h, hints, chosen) ==
    LET w == Only(chosen, Range(chosen) \ {<<>>})
    IN  /\ w \in Seq(Range(chosen)) /\ InGrammar(w)
        /\ \A g \in Groups :
             Words(g, w) = IF HintsFrom(g, hints) = <<>> THEN Words(g, h)
                           ELSE <<<<"hint", Last(HintsFrom(g, hints))>>>>

LEMMA ChosenRight ==
    ASSUME NEW V, NEW h, NEW W, NEW hints, NEW chosen,
           ChosenAmong(V, W, h, hints, chosen)
    PROVE  ChosenAs(h, hints, chosen)
<1> DEFINE w == Only(chosen, Range(chosen) \ {<<>>})
<1>0. /\ h \in Seq(V) /\ InGrammar(h) /\ hints \in Seq(W)
      /\ chosen = [g \in Groups |-> chosen[g]]
      /\ \A g \in Groups : \E t : /\ HintThere(h, g, t)
                                  /\ chosen[g] = Chosen(t, HintsFrom(g, hints))
      /\ w = Only(chosen, Range(chosen) \ {<<>>})
  BY DEF ChosenAmong
<1> HIDE DEF w
<1> USE <1>0
<1> DEFINE C == Range(chosen)
           S == C \ {<<>>}
           Word(g) == IF HintsFrom(g, hints) = <<>> THEN Words(g, h)
                      ELSE <<<<"hint", Last(HintsFrom(g, hints))>>>>
<1>1. ASSUME NEW g \in Groups
      PROVE  /\ chosen[g] = <<>> \/ HintOf(g, chosen[g])
             /\ Word(g) = IF chosen[g] = <<>> THEN <<>> ELSE <<chosen[g]>>
  <2> DEFINE add == HintsFrom(g, hints)
  <2>1. add \in Seq(W) /\ Range(add) = Range(hints) \cap SelectHints[g]
    BY OnlyKeeps DEF HintsFrom
  <2> HIDE DEF add
  <2>2. PICK t : HintThere(h, g, t) /\ chosen[g] = Chosen(t, add)
    BY DEF add
  <2>3. CASE add = <<>>
    <3>1. chosen[g] = t
      BY <2>2, <2>3 DEF Chosen
    <3>2. t = <<>> \/ HintOf(g, t)
      BY <2>2 DEF HintThere
    <3>3. Words(g, h) = IF t = <<>> THEN <<>> ELSE <<t>>
      BY <2>2, WordThere
    <3> QED
      BY <2>3, <3>1, <3>2, <3>3 DEF add
  <2>4. CASE add # <<>>
    <3>1. chosen[g] = <<"hint", Last(add)>>
      BY <2>2, <2>4 DEF Chosen
    <3>2. Last(add) \in Range(add)
      BY <2>1, <2>4 DEF Last, Range
    <3>3. HintOf(g, chosen[g]) /\ chosen[g] # <<>>
      BY <2>1, <3>1, <3>2 DEF HintOf
    <3> QED
      BY <2>4, <3>1, <3>3 DEF add
  <2> QED
    BY <2>3, <2>4
<1> HIDE DEF Word
<1>2. chosen \in Seq(C) /\ Len(chosen) = 7
  <2>1. DOMAIN chosen = 1..7 /\ chosen \in [1..7 -> C]
    <3>1. chosen = [g \in 1..7 |-> chosen[g]]
      BY HintGroups
    <3>2. \A g \in 1..7 : chosen[g] \in C
      BY HintGroups DEF Range
    <3> QED
      BY <3>1, <3>2
  <2>2. chosen \in Seq(C)
    BY <2>1, SeqDef
  <2>3. DOMAIN chosen = 1..Len(chosen) /\ Len(chosen) \in Nat
    BY <2>2, LenProperties
  <2> QED
    BY <2>1, <2>2, <2>3
<1>3. w \in Seq(C) /\ Range(w) = S
  <2>1. Range(w) = C \cap S /\ w \in Seq(C)
    BY <1>2, OnlyKeeps
  <2> QED
    BY <2>1
<1>4. \A k \in 1..7 : chosen[k] # <<>> => HintOf(k, chosen[k]) /\ G(chosen[k]) = k
  BY <1>1, GroupsApart, HintGroups
<1>5. InGrammar(w)
  <2>1. ASSUME NEW i \in 1..Len(w)
        PROVE  w[i] # <<>> /\ \E g \in Groups : HintOf(g, w[i])
    <3>1. w[i] \in S
      <4>1. w[i] \in Range(w)
        BY <1>3, RangeAt
      <4> QED
        BY <1>3, <4>1
    <3>2. PICK k \in 1..Len(chosen) : w[i] = chosen[k]
      <4>1. w[i] \in Range(chosen) /\ chosen \in Seq(C)
        BY <1>2, <3>1
      <4>2. \A x \in Range(chosen) : \E k \in 1..Len(chosen) : chosen[k] = x
        BY <4>1, RangeAt
      <4> QED
        BY <4>1, <4>2
    <3> QED
      BY <1>2, <1>4, <3>1, <3>2, HintGroups
  <2>2. ASSUME NEW i \in 1..Len(w), NEW j \in 1..Len(w), i < j
        PROVE  G(w[i]) < G(w[j])
    <3>1. InOrder(chosen, w)
      BY <1>2, OnlyInOrder
    <3>2. PICK k, l \in 1..Len(chosen) : k < l /\ w[i] = chosen[k] /\ w[j] = chosen[l]
      BY <2>2, <3>1 DEF InOrder
    <3>3. G(w[i]) = k /\ G(w[j]) = l
      BY <1>2, <1>4, <2>1, <3>2
    <3> QED
      BY <3>2, <3>3
  <2> QED
    BY <2>1, <2>2 DEF InGrammar
<1>6. ASSUME NEW g \in Groups PROVE Words(g, w) = Word(g)
  <2> DEFINE T == {x \in Range(w) : HintOf(g, x)}
             B == S \cap T
  <2>1. Words(g, w) = Only(w, T)
    BY DEF Words, HintOf
  <2>2. g \in 1..Len(chosen) /\ g \in 1..7
    BY <1>2, HintGroups
  <2>3. \A j \in 1..Len(chosen) : j # g => chosen[j] \notin B
    <3>1. ASSUME NEW j \in 1..7, j # g PROVE chosen[j] \notin B
      <4>1. j \in Groups
        BY HintGroups
      <4> QED
        BY <1>4, <3>1, <4>1, GroupsApart
    <3> QED
      BY <1>2, <3>1
  <2>4. chosen[g] \in B <=> chosen[g] # <<>>
    <3>1. chosen[g] \in C
      BY <1>2, <2>2, RangeAt
    <3> QED
      BY <1>3, <1>4, <2>2, <3>1
  <2> HIDE DEF T, S
  <2>5. Only(w, T) = Only(chosen, B)
    <3>1. w = Only(chosen, S)
      BY DEF S
    <3>2. Only(Only(chosen, S), T) = Only(chosen, S \cap T)
      BY <1>2, OnlyOnly
    <3> QED
      BY <3>1, <3>2
  <2> HIDE DEF B
  <2>6. Only(chosen, B) = IF chosen[g] \in B THEN <<chosen[g]>> ELSE <<>>
    BY <1>2, <2>2, <2>3, OnlyOne
  <2> QED
    BY <1>1, <2>1, <2>4, <2>5, <2>6
<1>7. w \in Seq(Range(chosen)) /\ InGrammar(w)
  BY <1>3, <1>5
<1>8. \A g \in Groups :
         Words(g, w) = IF HintsFrom(g, hints) = <<>> THEN Words(g, h)
                       ELSE <<<<"hint", Last(HintsFrom(g, hints))>>>>
  BY <1>6 DEF Word
<1> QED
  BY <1>7, <1>8, Zenon DEF ChosenAs, w

-----------------------------------------------------------------------------
(* Index hints: each behind the first mention of its table *)

LEMMA OnlyWithout ==
    ASSUME NEW V, NEW p \in Seq(V), NEW q \in Seq(V), NEW x \in V, NEW S, x \notin S
    PROVE  Only((p \o <<x>>) \o q, S) = Only(p \o q, S)
<1> DEFINE o == <<x>>
           a == p \o o
<1>1. o \in Seq(V)
  OBVIOUS
<1>2. Only(o, S) = <<>>
  <2>1. o \in Seq({x}) /\ \A y \in {x} : y \notin S
    OBVIOUS
  <2> HIDE DEF o
  <2> QED
    BY <2>1, OnlyAllOrNone
<1> HIDE DEF o
<1>3. a \in Seq(V)
  BY <1>1, ConcatProperties
<1>4. Only(a, S) = Only(p, S) \o Only(o, S)
  BY <1>1, OnlyConcat
<1> HIDE DEF a
<1>5. Only(a \o q, S) = Only(a, S) \o Only(q, S)
  BY <1>3, OnlyConcat
<1>6. Only(p \o q, S) = Only(p, S) \o Only(q, S)
  BY OnlyConcat
<1>7. Only(p, S) \in Seq(V)
  BY OnlyKeeps
<1>8. Only(p, S) \o <<>> = Only(p, S)
  BY <1>7, ConcatEmptySeq
<1> QED
  BY <1>2, <1>4, <1>5, <1>6, <1>8 DEF a, o

\* r is s with x behind the first f.
InsertedAt(s, f, x, r) ==
    /\ Len(r) = Len(s) + 1
    /\ \A i \in 1..f : r[i] = s[i]
    /\ r[f + 1] = x
    /\ \A i \in f + 1..Len(s) : r[i + 1] = s[i]

LEMMA Inserted ==
    ASSUME NEW V, NEW s \in Seq(V), NEW x \in V, NEW f \in 1..Len(s),
           NEW r, r = InsertAt(s, f + 1, x)
    PROVE  /\ r \in Seq(V) /\ InsertedAt(s, f, x, r)
           /\ \A S : x \notin S => Only(r, S) = Only(s, S)
<1> DEFINE n == Len(s)
           p == SubSeq(s, 1, f)
           q == SubSeq(s, f + 1, n)
           o == <<x>>
<1>1. n \in Nat /\ f \in 1..n
  BY LenProperties
<1>2. \A i \in 1..n : s[i] \in V
  BY ElementOfSeq
<1> HIDE DEF n
<1>3. /\ p \in Seq(V) /\ Len(p) = f
      /\ \A i \in 1..f : p[i] = s[i]
  <2>1. /\ p \in Seq(V) /\ Len(p) = IF 1 <= f THEN f - 1 + 1 ELSE 0
        /\ \A i \in 1..f - 1 + 1 : p[i] = s[1 + i - 1]
    <3>1. 1 \in Int /\ f \in Int /\ \A i \in 1..f : s[i] \in V
      BY <1>1, <1>2
    <3> QED
      BY <3>1, SubSeqProperties
  <2>2. f - 1 + 1 = f /\ 1 <= f /\ \A i \in 1..f : 1 + i - 1 = i
    BY <1>1
  <2> HIDE DEF p
  <2> QED
    BY <2>1, <2>2
<1>4. /\ q \in Seq(V) /\ Len(q) = n - f
      /\ \A i \in 1..n - f : q[i] = s[f + i]
  <2>1. /\ q \in Seq(V) /\ Len(q) = IF f + 1 <= n THEN n - (f + 1) + 1 ELSE 0
        /\ \A i \in 1..n - (f + 1) + 1 : q[i] = s[f + 1 + i - 1]
    <3>1. f + 1 \in Int /\ n \in Int /\ \A i \in f + 1..n : s[i] \in V
      BY <1>1, <1>2
    <3> QED
      BY <3>1, SubSeqProperties
  <2> HIDE DEF q
  <2>2. n - (f + 1) + 1 = n - f /\ (f + 1 <= n \/ n - f = 0)
        /\ \A i \in 1..n - f : f + 1 + i - 1 = f + i
    BY <1>1
  <2> QED
    BY <2>1, <2>2
<1>5. r = (p \o o) \o q
  <2>1. (f + 1) - 1 = f
    BY <1>1
  <2> QED
    BY <2>1 DEF InsertAt, n
<1>6. s = p \o q
  <2>1. 1 \in 1..n + 1 /\ f \in 1 - 1..n /\ n \in f..n
    BY <1>1
  <2>2. p \o q = SubSeq(s, 1, n)
    BY <2>1, ConcatAdjacentSubSeq DEF n
  <2> QED
    BY <2>2, SubSeqFull DEF n
<1>7. o \in Seq(V) /\ Len(o) = 1 /\ o[1] = x
  OBVIOUS
<1> HIDE DEF p, q, o
<1> DEFINE a == p \o o
<1>8. /\ a \in Seq(V) /\ Len(a) = f + 1 /\ a[f + 1] = x
      /\ \A i \in 1..f : a[i] = s[i]
  <2>1. /\ p \o o \in Seq(V) /\ Len(p \o o) = Len(p) + Len(o)
        /\ \A i \in 1..Len(p) : (p \o o)[i] = p[i]
        /\ \A i \in 1..Len(o) : (p \o o)[Len(p) + i] = o[i]
    <3>1. p \in Seq(V) /\ o \in Seq(V)
      BY <1>3, <1>7
    <3> QED
      BY <3>1, Concats
  <2>2. 1 \in 1..Len(o)
    BY <1>7
  <2> QED
    BY <1>3, <1>7, <2>1, <2>2
<1> HIDE DEF a
<1>9. /\ a \o q \in Seq(V) /\ Len(a \o q) = Len(a) + Len(q)
      /\ \A i \in 1..Len(a) : (a \o q)[i] = a[i]
      /\ \A i \in 1..Len(q) : (a \o q)[Len(a) + i] = q[i]
  <2>1. a \in Seq(V) /\ q \in Seq(V)
    BY <1>4, <1>8
  <2> QED
    BY <2>1, Concats
<1>10. r = a \o q
  BY <1>5 DEF a
<1>11. r \in Seq(V) /\ Len(r) = n + 1
  <2>1. r \in Seq(V) /\ Len(r) = (f + 1) + (n - f)
    BY <1>4, <1>8, <1>9, <1>10
  <2>2. (f + 1) + (n - f) = n + 1
    BY <1>1
  <2> QED
    BY <2>1, <2>2
<1>12. /\ \A i \in 1..f : r[i] = s[i]
       /\ r[f + 1] = x
  <2>1. \A i \in 1..f + 1 : r[i] = a[i]
    BY <1>8, <1>9, <1>10
  <2> QED
    BY <1>1, <1>8, <2>1
<1>13. ASSUME NEW i \in f + 1..n PROVE r[i + 1] = s[i]
  <2>1. i - f \in 1..n - f /\ (f + 1) + (i - f) = i + 1 /\ f + (i - f) = i
    BY <1>1
  <2>2. r[(f + 1) + (i - f)] = q[i - f]
    BY <1>4, <1>8, <1>9, <1>10, <2>1
  <2> QED
    BY <1>4, <2>1, <2>2
<1>14. ASSUME NEW S, x \notin S PROVE Only(r, S) = Only(s, S)
  <2>1. p \in Seq(V) /\ q \in Seq(V)
    BY <1>3, <1>4
  <2>2. Only((p \o <<x>>) \o q, S) = Only(p \o q, S)
    BY <1>14, <2>1, OnlyWithout
  <2> QED
    BY <1>5, <1>6, <2>2 DEF o
<1> QED
  BY <1>11, <1>12, <1>13, <1>14 DEF n, InsertedAt

IsIndex(t) == t[1] = "index"
TableOf(t) == <<"table", t[2]>>
IndexOf(m) == <<"index", m[3], m[4]>>

\* What IndexesRight says of one statement.
PlacedAt(s, i) ==
    \E j \in 1..i - 1 :
        /\ s[j] = TableOf(s[i])
        /\ \A k \in 1..j - 1 : s[k] # s[j]
        /\ \A k \in j + 1..i : IsIndex(s[k])
Placed(s) == \A i \in 1..Len(s) : IsIndex(s[i]) => PlacedAt(s, i)

LEMMA NotATable ==
    ASSUME NEW t, NEW u
    PROVE  ~IsIndex(TableOf(t)) /\ (IsIndex(t) => t # TableOf(u))
BY DEF IsIndex, TableOf

LEMMA PlacedKeeps ==
    ASSUME NEW V, NEW s \in Seq(V), NEW x \in V, NEW f \in 1..Len(s),
           NEW r, r = InsertAt(s, f + 1, x), IsIndex(x), s[f] = TableOf(x),
           \A k \in 1..f - 1 : s[k] # s[f], Placed(s)
    PROVE  Placed(r)
<1> DEFINE n == Len(s)
<1>1. n \in Nat /\ f \in 1..n
  BY LenProperties
<1>2. /\ Len(r) = n + 1
      /\ \A i \in 1..f : r[i] = s[i]
      /\ r[f + 1] = x
      /\ \A i \in f + 1..n : r[i + 1] = s[i]
  <2>1. InsertedAt(s, f, x, r)
    BY Inserted
  <2> QED
    BY <2>1 DEF InsertedAt
<1>3. \A i \in 1..n : IsIndex(s[i]) => PlacedAt(s, i)
  BY DEF Placed
<1> HIDE DEF n
<1>4. ASSUME NEW i \in 1..n + 1, IsIndex(r[i]) PROVE PlacedAt(r, i)
  <2>1. CASE i <= f
    <3>1. i \in 1..f /\ i \in 1..n
      BY <1>1, <2>1
    <3>2. r[i] = s[i]
      BY <1>2, <3>1
    <3>3. PICK j \in 1..i - 1 :
             /\ s[j] = TableOf(s[i])
             /\ \A k \in 1..j - 1 : s[k] # s[j]
             /\ \A k \in j + 1..i : IsIndex(s[k])
      BY <1>3, <1>4, <3>1, <3>2 DEF PlacedAt
    <3>4. \A k \in 1..i : r[k] = s[k]
      <4>1. \A k \in 1..i : k \in 1..f
        BY <1>1, <3>1
      <4> QED
        BY <1>2, <4>1
    <3>5. /\ j \in 1..i /\ \A k \in 1..j - 1 : k \in 1..i
          /\ \A k \in j + 1..i : k \in 1..i
      BY <3>1
    <3>6. /\ r[j] = TableOf(r[i])
          /\ \A k \in 1..j - 1 : r[k] # r[j]
          /\ \A k \in j + 1..i : IsIndex(r[k])
      BY <3>2, <3>3, <3>4, <3>5
    <3> QED
      BY <3>6 DEF PlacedAt
  <2>2. CASE i = f + 1
    <3>1. r[f] = TableOf(r[i]) /\ r[i] = x
      BY <1>1, <1>2, <2>2
    <3>2. \A k \in 1..f - 1 : r[k] = s[k]
      BY <1>1, <1>2
    <3>3. \A k \in 1..f - 1 : r[k] # r[f]
      BY <1>1, <1>2, <3>2
    <3>4. \A k \in f + 1..i : IsIndex(r[k])
      <4>1. \A k \in f + 1..i : k = i
        BY <1>1, <2>2
      <4> QED
        BY <3>1, <4>1
    <3>5. f \in 1..i - 1
      BY <1>1, <2>2
    <3> QED
      BY <3>1, <3>3, <3>4, <3>5 DEF PlacedAt
  <2>3. CASE i > f + 1
    <3> DEFINE h == i - 1
    <3>1. h \in f + 1..n /\ h \in 1..n /\ i = h + 1
      BY <1>1, <2>3
    <3> HIDE DEF h
    <3>2. r[i] = s[h]
      BY <1>2, <3>1
    <3>3. PICK j \in 1..h - 1 :
             /\ s[j] = TableOf(s[h])
             /\ \A k \in 1..j - 1 : s[k] # s[j]
             /\ \A k \in j + 1..h : IsIndex(s[k])
      BY <1>3, <1>4, <3>1, <3>2 DEF PlacedAt
    <3>4. CASE j <= f
      <4>1. j \in 1..f /\ j \in 1..i - 1 /\ \A k \in 1..j - 1 : k \in 1..f
        BY <1>1, <3>1, <3>4
      <4>2. r[j] = TableOf(r[i]) /\ \A k \in 1..j - 1 : r[k] # r[j]
        BY <1>2, <3>2, <3>3, <4>1
      <4>3. ASSUME NEW k \in j + 1..i PROVE IsIndex(r[k])
        <5>1. CASE k <= f
          <6>1. k \in 1..f /\ k \in j + 1..h
            BY <1>1, <3>1, <4>1, <5>1
          <6> QED
            BY <1>2, <3>3, <6>1
        <5>2. CASE k = f + 1
          BY <1>2, <5>2
        <5>3. CASE k > f + 1
          <6>1. k - 1 \in f + 1..n /\ k - 1 \in j + 1..h /\ (k - 1) + 1 = k
            BY <1>1, <3>1, <4>1, <5>3
          <6> QED
            BY <1>2, <3>3, <6>1
        <5>4. k <= f \/ k = f + 1 \/ k > f + 1
          BY <1>1, <4>1
        <5> QED
          BY <5>1, <5>2, <5>3, <5>4
      <4> QED
        BY <4>1, <4>2, <4>3 DEF PlacedAt
    <3>5. CASE j > f
      <4>1. j \in f + 1..n /\ j + 1 \in 1..i - 1
        BY <1>1, <3>1, <3>5
      <4>2. r[j + 1] = s[j]
        BY <1>2, <4>1
      <4>3. ASSUME NEW k \in 1..(j + 1) - 1 PROVE r[k] # r[j + 1]
        <5>1. CASE k <= f
          <6>1. k \in 1..f /\ k \in 1..j - 1
            BY <1>1, <3>5, <4>1, <5>1
          <6> QED
            BY <1>2, <3>3, <4>2, <6>1
        <5>2. CASE k = f + 1
          BY <1>2, <3>3, <4>2, <5>2, NotATable
        <5>3. CASE k > f + 1
          <6>1. k - 1 \in f + 1..n /\ k - 1 \in 1..j - 1 /\ (k - 1) + 1 = k
            BY <1>1, <4>1, <5>3
          <6> QED
            BY <1>2, <3>3, <4>2, <6>1
        <5>4. k <= f \/ k = f + 1 \/ k > f + 1
          BY <1>1, <4>1
        <5> QED
          BY <5>1, <5>2, <5>3, <5>4
      <4>4. ASSUME NEW k \in (j + 1) + 1..i PROVE IsIndex(r[k])
        <5>1. k - 1 \in f + 1..n /\ k - 1 \in j + 1..h /\ (k - 1) + 1 = k
          BY <1>1, <3>1, <4>1
        <5> QED
          BY <1>2, <3>3, <5>1
      <4>5. r[j + 1] = TableOf(r[i])
        BY <3>2, <3>3, <4>2
      <4> QED
        BY <4>1, <4>3, <4>4, <4>5 DEF PlacedAt
    <3>6. j <= f \/ j > f
      BY <1>1, <3>1
    <3> QED
      BY <3>4, <3>5, <3>6
  <2>4. i <= f \/ i = f + 1 \/ i > f + 1
    BY <1>1
  <2> QED
    BY <2>1, <2>2, <2>3, <2>4
<1> QED
  BY <1>2, <1>4 DEF Placed

Mentioned(s, t) == \E i \in 1..Len(s) - 1 : s[i] = t

LEMMA OneAdded ==
    ASSUME NEW V, NEW s \in Seq(V), NEW m, NEW x, x = IndexOf(m)
    PROVE  \/ AddIndexHint(s, m) = s /\ ~Mentioned(s, TableOf(x))
           \/ \E f \in 1..Len(s) - 1 :
                /\ s[f] = TableOf(x) /\ \A k \in 1..f - 1 : s[k] # s[f]
                /\ AddIndexHint(s, m) = InsertAt(s, f + 1, x)
<1> DEFINE T == TableOf(x)
           mentions == {i \in 1..Len(s) - 1 : s[i] = T}
           first == CHOOSE i \in mentions : \A j \in mentions : i <= j
<1>1. T = <<"table", m[3]>> /\ x = <<"index", m[3], m[4]>>
  BY DEF TableOf, IndexOf
<1>2. AddIndexHint(s, m) = IF mentions = {} THEN s ELSE InsertAt(s, first + 1, x)
  <2> HIDE DEF T
  <2> QED
    BY <1>1 DEF AddIndexHint
<1>3. Len(s) \in Nat
  BY LenProperties
<1>4. CASE mentions = {}
  <2>1. ~Mentioned(s, T)
    BY <1>4 DEF Mentioned
  <2> QED
    BY <1>2, <1>4, <2>1
<1>5. CASE mentions # {}
  <2>1. mentions \subseteq Nat
    OBVIOUS
  <2>2. \E i \in mentions : \A j \in mentions : i <= j
    <3> HIDE DEF mentions
    <3> QED
      BY <1>5, <2>1, Least
  <2>3. first \in mentions /\ \A j \in mentions : first <= j
    <3> HIDE DEF mentions
    <3> QED
      BY <2>2
  <2> HIDE DEF first
  <2>4. first \in 1..Len(s) - 1 /\ s[first] = T
    BY <2>3
  <2>5. ASSUME NEW k \in 1..first - 1 PROVE s[k] # s[first]
    <3>1. k \in 1..Len(s) - 1 /\ ~(first <= k)
      BY <1>3, <2>4
    <3> QED
      BY <2>3, <2>4, <3>1
  <2> QED
    BY <1>2, <1>5, <2>4, <2>5
<1> QED
  BY <1>4, <1>5

\* r is s with index hints of X.
Extended(V, s, X, r) ==
    /\ r \in Seq(V) /\ Range(s) \subseteq Range(r) /\ Range(r) \subseteq Range(s) \cup X
    /\ Placed(s) => Placed(r)
    /\ \A t : Mentioned(s, t) => Mentioned(r, t)
    /\ \A S : X \cap S = {} => Only(r, S) = Only(s, S)

LEMMA OneExtended ==
    ASSUME NEW V, NEW s \in Seq(V), NEW m, NEW x \in V, x = IndexOf(m),
           NEW r, r = AddIndexHint(s, m)
    PROVE  /\ Extended(V, s, {x}, r)
           /\ Mentioned(s, TableOf(x)) => x \in Range(r)
<1>1. CASE r = s /\ ~Mentioned(s, TableOf(x))
  BY <1>1 DEF Extended
<1>2. ASSUME NEW f \in 1..Len(s) - 1, s[f] = TableOf(x),
             \A k \in 1..f - 1 : s[k] # s[f], r = InsertAt(s, f + 1, x)
      PROVE  Extended(V, s, {x}, r) /\ x \in Range(r)
  <2> DEFINE n == Len(s)
  <2>1. n \in Nat /\ f \in 1..n - 1
    BY LenProperties
  <2> HIDE DEF n
  <2>2. f \in 1..n
    BY <2>1
  <2>3. r \in Seq(V) /\ InsertedAt(s, f, x, r) /\ \A S : x \notin S => Only(r, S) = Only(s, S)
    BY <1>2, <2>2, Inserted DEF n
  <2>4. /\ Len(r) = n + 1
        /\ \A i \in 1..f : r[i] = s[i]
        /\ r[f + 1] = x
        /\ \A i \in f + 1..n : r[i + 1] = s[i]
    BY <2>3 DEF InsertedAt, n
  <2>5. IsIndex(x)
    BY DEF IsIndex, IndexOf
  <2>6. Placed(s) => Placed(r)
    BY <1>2, <2>2, <2>5, PlacedKeeps DEF n
  <2>7. \A i \in 1..n : \E k \in {i, i + 1} : k \in 1..n + 1 /\ r[k] = s[i]
    <3>1. ASSUME NEW i \in 1..n PROVE \E k \in {i, i + 1} : k \in 1..n + 1 /\ r[k] = s[i]
      <4>1. i \in 1..f \/ i \in f + 1..n
        BY <2>1
      <4>2. i \in 1..n + 1 /\ i + 1 \in 1..n + 1
        BY <2>1
      <4> QED
        BY <2>4, <4>1, <4>2
    <3> QED
      BY <3>1
  <2>8. \A k \in 1..n + 1 : r[k] = x \/ \E i \in 1..n : r[k] = s[i]
    <3>1. ASSUME NEW k \in 1..n + 1 PROVE r[k] = x \/ \E i \in 1..n : r[k] = s[i]
      <4>1. CASE k \in 1..f
        BY <2>1, <2>4, <4>1
      <4>2. CASE k = f + 1
        BY <2>4, <4>2
      <4>3. CASE k - 1 \in f + 1..n
        <5>1. (k - 1) + 1 = k /\ k - 1 \in 1..n
          BY <2>1, <4>3
        <5> QED
          BY <2>4, <4>3, <5>1
      <4> QED
        BY <2>1, <4>1, <4>2, <4>3
    <3> QED
      BY <3>1
  <2>9. DOMAIN s = 1..n /\ DOMAIN r = 1..n + 1
    BY <2>3, <2>4, LenProperties DEF n
  <2>10. Range(s) \subseteq Range(r) /\ Range(r) \subseteq Range(s) \cup {x} /\ x \in Range(r)
    <3>1. f + 1 \in 1..n + 1
      BY <2>1
    <3> QED
      BY <2>4, <2>7, <2>8, <2>9, <3>1, SMTT(30) DEF Range
  <2>11. ASSUME NEW t, Mentioned(s, t) PROVE Mentioned(r, t)
    <3>1. PICK i \in 1..n - 1 : s[i] = t
      BY <2>11 DEF Mentioned, n
    <3>2. i \in 1..n /\ {i, i + 1} \subseteq 1..(n + 1) - 1
      BY <2>1
    <3>3. \E k \in 1..(n + 1) - 1 : r[k] = t
      BY <2>7, <3>1, <3>2
    <3> QED
      BY <2>4, <3>3 DEF Mentioned
  <2>12. \A S : {x} \cap S = {} => Only(r, S) = Only(s, S)
    BY <2>3
  <2> QED
    BY <2>3, <2>6, <2>10, <2>11, <2>12 DEF Extended
<1> QED
  BY <1>1, <1>2, OneAdded

LEMMA ExtendedTwice ==
    ASSUME NEW V, NEW s \in Seq(V), NEW X, NEW r, Extended(V, s, X, r),
           NEW x \in X, NEW q, Extended(V, r, {x}, q)
    PROVE  Extended(V, s, X, q)
<1>1. q \in Seq(V) /\ Range(s) \subseteq Range(q) /\ Range(q) \subseteq Range(s) \cup X
  BY DEF Extended
<1>2. Placed(s) => Placed(q)
  BY DEF Extended
<1>3. \A t : Mentioned(s, t) => Mentioned(q, t)
  BY DEF Extended
<1>4. ASSUME NEW S, X \cap S = {} PROVE Only(q, S) = Only(s, S)
  <2>1. {x} \cap S = {}
    BY <1>4
  <2>2. Only(q, S) = Only(r, S)
    BY <2>1 DEF Extended
  <2>3. Only(r, S) = Only(s, S)
    BY <1>4 DEF Extended
  <2> QED
    BY <2>2, <2>3
<1> QED
  BY <1>1, <1>2, <1>3, <1>4 DEF Extended

\* AddIndexHints() changes nothing but the index hints, which stay where they
\* belong, and adds a hint for each table that is mentioned.
LEMMA AllExtended ==
    ASSUME NEW V, NEW s \in Seq(V), NEW M, NEW marks \in Seq(M),
           \A m \in M : IndexOf(m) \in V, NEW X, X = {IndexOf(m) : m \in M},
           NEW r, r = AddIndexHints(s, marks)
    PROVE  /\ Extended(V, s, X, r)
           /\ \A i \in 1..Len(marks) :
                Mentioned(s, TableOf(IndexOf(marks[i]))) => IndexOf(marks[i]) \in Range(r)
<1>1. PICK g : Adds(V, s, marks, g)
  <2>1. \A m \in M : <<"index", m[3], m[4]>> \in V
    BY DEF IndexOf
  <2> QED
    BY <2>1, AddIndexHintsDefined
<1>2. /\ g \in [0..Len(marks) -> Seq(V)] /\ g[0] = s /\ g[Len(marks)] = r
      /\ \A n \in 1..Len(marks) : g[n] = AddIndexHint(g[n - 1], marks[n])
  BY <1>1 DEF Adds
<1>3. Len(marks) \in Nat /\ \A n \in 1..Len(marks) : marks[n] \in M
  BY LenProperties, ElementOfSeq
<1> DEFINE Sent(n) == \A i \in 1..n : Mentioned(s, TableOf(IndexOf(marks[i])))
                                        => IndexOf(marks[i]) \in Range(g[n])
           Good == {n \in Nat : Extended(V, s, X, g[n]) /\ Sent(n)}
<1>4. 0 \in Good
  BY <1>2 DEF Extended
<1>5. ASSUME NEW n \in 1..Len(marks), n - 1 \in Good PROVE n \in Good
  <2> DEFINE x == IndexOf(marks[n])
             a == g[n - 1]
             b == g[n]
  <2>1. x \in V /\ x \in X
    BY <1>3
  <2>2. a \in Seq(V) /\ b = AddIndexHint(a, marks[n])
    BY <1>2, <1>3
  <2>3. Extended(V, s, X, a) /\ Sent(n - 1)
    BY <1>5
  <2> HIDE DEF x
  <2>4. Extended(V, a, {x}, b) /\ (Mentioned(a, TableOf(x)) => x \in Range(b))
    <3>1. x = IndexOf(marks[n])
      BY DEF x
    <3> HIDE DEF a, b
    <3> QED
      BY <2>1, <2>2, <3>1, OneExtended
  <2> HIDE DEF a, b
  <2>5. Extended(V, s, X, b)
    BY <2>1, <2>3, <2>4, ExtendedTwice
  <2>6. ASSUME NEW i \in 1..n, Mentioned(s, TableOf(IndexOf(marks[i])))
        PROVE  IndexOf(marks[i]) \in Range(b)
    <3>1. CASE i = n
      BY <2>3, <2>4, <2>6, <3>1 DEF Extended, x
    <3>2. CASE i # n
      <4>1. i \in 1..n - 1
        BY <3>2
      <4>2. IndexOf(marks[i]) \in Range(a)
        BY <2>3, <2>6, <4>1 DEF a
      <4> QED
        BY <2>4, <4>2 DEF Extended
    <3> QED
      BY <3>1, <3>2
  <2> QED
    BY <2>5, <2>6 DEF b
<1>6. Len(marks) \in Good
  <2> HIDE DEF Good
  <2>1. 0..Len(marks) \subseteq Good
    BY <1>3, <1>4, <1>5, InductionTo
  <2> QED
    BY <1>3, <2>1
<1> QED
  BY <1>2, <1>6

-----------------------------------------------------------------------------
(* The tokens of a statement by their kinds *)

LEMMA OnlyEdges ==
    ASSUME NEW V, NEW s \in Seq(V), NEW S
    PROVE  /\ Range(s) \subseteq S => Only(s, S) = s
           /\ Range(s) \cap S = {} => Only(s, S) = <<>>
<1>1. s \in Seq(Range(s))
  BY SeqOfRange
<1>2. Range(s) \cap S = {} => \A x \in Range(s) : x \notin S
  OBVIOUS
<1> QED
  BY <1>1, <1>2, OnlyAllOrNone

InThree(V, S) ==
    \A p, w, b \in Seq(V) :
        Only(p \o (w \o b), S) = Only(p, S) \o (Only(w, S) \o Only(b, S))
InTwo(V, S) == \A x, y \in Seq(V) : Only(x \o y, S) = Only(x, S) \o Only(y, S)

LEMMA OnlyTwo ==
    ASSUME NEW V, NEW S
    PROVE  InTwo(V, S)
BY OnlyConcat DEF InTwo

LEMMA OnlyThree ==
    ASSUME NEW V, NEW S
    PROVE  InThree(V, S)
<1>1. \A x, y \in Seq(V) : x \o y \in Seq(V)
  BY ConcatProperties
<1>2. \A x, y \in Seq(V) : Only(x \o y, S) = Only(x, S) \o Only(y, S)
  BY OnlyTwo DEF InTwo
<1>3. ASSUME NEW p \in Seq(V), NEW w \in Seq(V), NEW b \in Seq(V)
      PROVE  Only(p \o (w \o b), S) = Only(p, S) \o (Only(w, S) \o Only(b, S))
  <2>1. Only(p \o (w \o b), S) = Only(p, S) \o Only(w \o b, S)
    BY <1>1, <1>2, Zenon
  <2>2. Only(w \o b, S) = Only(w, S) \o Only(b, S)
    BY <1>2, Zenon
  <2> QED
    BY <2>1, <2>2, Zenon
<1> QED
  BY <1>3, Zenon DEF InThree

\* The filters of statements over X, by sets that do not depend on them.
OfKind(kind, X) == {t \in X : t[1] = kind}
NotOf(kinds, X) == {t \in X : t[1] \notin kinds}
OfGroup(g, X) == {t \in X : HintOf(g, t)}

LEMMA Filters ==
    ASSUME NEW X, NEW s \in Seq(X)
    PROVE  /\ \A kind : Of(kind, s) = Only(s, OfKind(kind, X))
           /\ \A kinds : Without(kinds, s) = Only(s, NotOf(kinds, X))
           /\ \A g : Words(g, s) = Only(s, OfGroup(g, X))
<1>1. Range(s) \subseteq X
  BY RangeAt
<1>2. ASSUME NEW kind PROVE Of(kind, s) = Only(s, OfKind(kind, X))
  <2> DEFINE S == {t \in Range(s) : t[1] = kind}
             T == OfKind(kind, X)
  <2>1. \A x \in Range(s) : x \in S <=> x \in T
    BY <1>1 DEF OfKind
  <2> HIDE DEF S, T
  <2>2. Only(s, S) = Only(s, T)
    BY <2>1, OnlySame
  <2> QED
    BY <2>2 DEF Of, S, T
<1>3. ASSUME NEW kinds PROVE Without(kinds, s) = Only(s, NotOf(kinds, X))
  <2> DEFINE S == {t \in Range(s) : t[1] \notin kinds}
             T == NotOf(kinds, X)
  <2>1. \A x \in Range(s) : x \in S <=> x \in T
    BY <1>1 DEF NotOf
  <2> HIDE DEF S, T
  <2>2. Only(s, S) = Only(s, T)
    BY <2>1, OnlySame
  <2> QED
    BY <2>2 DEF Without, S, T
<1>4. ASSUME NEW g PROVE Words(g, s) = Only(s, OfGroup(g, X))
  <2> DEFINE S == {t \in Range(s) : t[1] = "hint" /\ t[2] \in SelectHints[g]}
             T == OfGroup(g, X)
  <2>1. \A x \in Range(s) : x \in S <=> x \in T
    BY <1>1 DEF OfGroup, HintOf
  <2> HIDE DEF S, T
  <2>2. Only(s, S) = Only(s, T)
    BY <2>1, OnlySame
  <2> QED
    BY <2>2 DEF Words, S, T
<1> QED
  BY <1>2, <1>3, <1>4

NotMarks(X) == NotOf({"mark"}, X)
Other(t) == t[1] \notin {"mark", "comment", "hint", "index"}
Others(X) == NotOf({"mark", "comment", "hint", "index"}, X)

LEMMA Kinds ==
    ASSUME NEW X
    PROVE  /\ OfKind("comment", X) \subseteq NotMarks(X)
           /\ Others(X) \subseteq NotMarks(X)
           /\ \A g : OfGroup(g, X) \subseteq NotMarks(X)
BY DEF OfKind, NotMarks, Others, NotOf, OfGroup, HintOf

\* The statement without its marks keeps the rest.
LEMMA PlainKeeps ==
    ASSUME NEW X, NEW s \in Seq(X), NEW p, p = Without({"mark"}, s)
    PROVE  /\ p \in Seq(X)
           /\ Of("comment", p) = Of("comment", s)
           /\ Bare(p) = Bare(s)
           /\ \A g : Words(g, p) = Words(g, s)
<1>1. p = Only(s, NotMarks(X))
  BY Filters DEF NotMarks
<1>2. p \in Seq(X)
  BY <1>1, OnlyKeeps
<1>3. ASSUME NEW S, S \subseteq NotMarks(X) PROVE Only(p, S) = Only(s, S)
  <2>1. NotMarks(X) \cap S = S
    BY <1>3
  <2>2. Only(Only(s, NotMarks(X)), S) = Only(s, NotMarks(X) \cap S)
    BY OnlyOnly
  <2> QED
    BY <1>1, <2>1, <2>2
<1>4. Only(p, OfKind("comment", X)) = Only(s, OfKind("comment", X))
  BY <1>3, Kinds
<1>5. Only(p, Others(X)) = Only(s, Others(X))
  BY <1>3, Kinds
<1>6. \A g : Only(p, OfGroup(g, X)) = Only(s, OfGroup(g, X))
  BY <1>3, Kinds
<1> QED
  BY <1>2, <1>4, <1>5, <1>6, Filters DEF Bare, Others

\* The kinds of the parts of a statement and of what becomes of it.
Parted(X, p, h, r, l, w, b) ==
    /\ p \in Seq(X) /\ h \in Seq(X) /\ r \in Seq(X)
    /\ l \in Seq(X) /\ w \in Seq(X) /\ b \in Seq(X)
    /\ \A x \in Range(p) : x[1] \in {"keyword", "comment"}
    /\ \A x \in Range(h) : IsHint(x)
    /\ \A x \in Range(r) : Other(x)
    /\ \A x \in Range(l) : IsComment(x)
    /\ \A x \in Range(w) : IsHint(x)
    /\ \A x \in Range(b) : Other(x) \/ IsIndex(x)
    /\ Only(b, NotOf({"index"}, X)) = r

LEMMA Blanks ==
    ASSUME NEW V, NEW s \in Seq(V)
    PROVE  s \o <<>> = s /\ <<>> \o s = s /\ s \o (<<>> \o <<>>) = s
           /\ (<<>> \o <<>>) \o s = s
<1>1. s \o <<>> = s /\ <<>> \o s = s
  BY ConcatEmptySeq
<1>2. <<>> \o <<>> = <<>>
  OBVIOUS
<1> QED
  BY <1>1, <1>2

LEMMA PartsByKind ==
    ASSUME NEW X, NEW p, NEW h, NEW r, NEW l, NEW w, NEW b,
           Parted(X, p, h, r, l, w, b)
    PROVE  /\ Of("comment", (p \o l) \o (w \o b)) = Of("comment", p \o (h \o r)) \o l
           /\ Of("mark", (p \o l) \o (w \o b)) = <<>>
           /\ Of("mark", p \o (h \o r)) = <<>>
           /\ Bare((p \o l) \o (w \o b)) = Bare(p \o (h \o r))
           /\ \A g : /\ Words(g, (p \o l) \o (w \o b)) = Words(g, w)
                     /\ Words(g, p \o (h \o r)) = Words(g, h)
<1> DEFINE new == (p \o l) \o (w \o b)
           old == p \o (h \o r)
<1>1. /\ p \in Seq(X) /\ h \in Seq(X) /\ r \in Seq(X)
      /\ l \in Seq(X) /\ w \in Seq(X) /\ b \in Seq(X)
  BY DEF Parted
<1>2. new \in Seq(X) /\ old \in Seq(X)
  <2>1. p \o l \in Seq(X) /\ w \o b \in Seq(X) /\ h \o r \in Seq(X)
    BY <1>1, ConcatProperties
  <2> QED
    BY <1>1, <2>1, ConcatProperties
<1>3. \A S : /\ Only(new, S) = (Only(p, S) \o Only(l, S)) \o (Only(w, S) \o Only(b, S))
             /\ Only(old, S) = Only(p, S) \o (Only(h, S) \o Only(r, S))
  <2>1. ASSUME NEW S
        PROVE  Only(new, S) = (Only(p, S) \o Only(l, S)) \o (Only(w, S) \o Only(b, S))
    <3> DEFINE q == p \o l
    <3>1. q \in Seq(X)
      BY <1>1, ConcatProperties
    <3>2. InTwo(X, S) /\ InThree(X, S)
      BY OnlyTwo, OnlyThree
    <3>3. Only(q, S) = Only(p, S) \o Only(l, S)
      BY <1>1, <3>2, Zenon DEF InTwo
    <3> HIDE DEF q
    <3>4. Only(q \o (w \o b), S) = Only(q, S) \o (Only(w, S) \o Only(b, S))
      <4>1. q \in Seq(X) /\ w \in Seq(X) /\ b \in Seq(X)
        BY <1>1, <3>1
      <4>2. InThree(X, S)
        BY <3>2
      <4> QED
        BY <4>1, <4>2, Zenon DEF InThree
    <3> QED
      BY <3>3, <3>4, Zenon DEF q
  <2>2. ASSUME NEW S PROVE Only(old, S) = Only(p, S) \o (Only(h, S) \o Only(r, S))
    <3>1. InThree(X, S)
      BY OnlyThree
    <3>2. Only(p \o (h \o r), S) = Only(p, S) \o (Only(h, S) \o Only(r, S))
      <4>1. p \in Seq(X) /\ h \in Seq(X) /\ r \in Seq(X)
        BY <1>1
      <4> QED
        BY <3>1, <4>1, Zenon DEF InThree
    <3> QED
      BY <3>2, Zenon
  <2> QED
    BY <2>1, <2>2
<1> HIDE DEF new, old
<1>5. \A S : /\ Only(p, S) \in Seq(X) /\ Only(w, S) \in Seq(X) /\ Only(h, S) \in Seq(X)
             /\ Only(r, S) \in Seq(X)
  BY <1>1, OnlyKeeps
<1>6. \A S : /\ Range(p) \cap S = {} => Only(p, S) = <<>>
             /\ Range(h) \cap S = {} => Only(h, S) = <<>>
             /\ Range(r) \cap S = {} => Only(r, S) = <<>>
  BY <1>1, OnlyEdges
<1>7. \A S : /\ Range(l) \cap S = {} => Only(l, S) = <<>>
             /\ Range(w) \cap S = {} => Only(w, S) = <<>>
             /\ Range(b) \cap S = {} => Only(b, S) = <<>>
             /\ Range(l) \subseteq S => Only(l, S) = l
  BY <1>1, OnlyEdges
<1>8. Of("comment", new) = Of("comment", old) \o l
  <2> DEFINE S == OfKind("comment", X)
  <2>1. Range(l) \subseteq S
    BY <1>1, RangeAt DEF OfKind, Parted, IsComment
  <2>2. /\ Range(h) \cap S = {} /\ Range(r) \cap S = {}
        /\ Range(w) \cap S = {} /\ Range(b) \cap S = {}
    BY DEF OfKind, Parted, IsHint, Other, IsIndex
  <2>3. Of("comment", new) = Only(new, S) /\ Of("comment", old) = Only(old, S)
    BY <1>2, Filters
  <2> HIDE DEF S
  <2>4. Only(new, S) = (Only(p, S) \o l) \o (<<>> \o <<>>)
    BY <1>3, <1>7, <2>1, <2>2
  <2>5. Only(old, S) = Only(p, S) \o (<<>> \o <<>>)
    BY <1>3, <1>6, <2>2
  <2>6. Only(p, S) \in Seq(X) /\ Only(p, S) \o l \in Seq(X)
    BY <1>1, <1>5, ConcatProperties
  <2>7. Only(new, S) = Only(p, S) \o l
    BY <2>4, <2>6, Blanks
  <2>8. Only(old, S) = Only(p, S)
    BY <2>5, <2>6, Blanks
  <2> QED
    BY <2>3, <2>7, <2>8
<1>9. Of("mark", new) = <<>> /\ Of("mark", old) = <<>>
  <2> DEFINE S == OfKind("mark", X)
  <2>1. /\ Range(p) \cap S = {} /\ Range(h) \cap S = {} /\ Range(r) \cap S = {}
        /\ Range(l) \cap S = {} /\ Range(w) \cap S = {} /\ Range(b) \cap S = {}
    BY DEF OfKind, Parted, IsHint, IsComment, Other, IsIndex
  <2>2. Of("mark", new) = Only(new, S) /\ Of("mark", old) = Only(old, S)
    BY <1>2, Filters
  <2> HIDE DEF S
  <2>3. /\ Only(new, S) = (<<>> \o <<>>) \o (<<>> \o <<>>)
        /\ Only(old, S) = <<>> \o (<<>> \o <<>>)
    BY <1>3, <1>6, <1>7, <2>1
  <2>4. <<>> \in Seq(X) /\ <<>> \o <<>> = <<>>
    OBVIOUS
  <2> QED
    BY <2>2, <2>3, <2>4
<1>10. Bare(new) = Bare(old)
  <2> DEFINE S == Others(X)
             N == NotOf({"index"}, X)
  <2>1. /\ Range(h) \cap S = {} /\ Range(l) \cap S = {} /\ Range(w) \cap S = {}
    BY DEF Others, NotOf, Parted, IsHint, IsComment
  <2>2. N \cap S = S
    BY DEF Others, NotOf
  <2>3. Bare(new) = Only(new, S) /\ Bare(old) = Only(old, S)
    BY <1>2, Filters DEF Bare, Others
  <2>4. Only(b, N) = r
    BY DEF Parted
  <2> HIDE DEF S, N
  <2>5. Only(b, S) = Only(r, S)
    <3>1. Only(Only(b, N), S) = Only(b, N \cap S)
      BY <1>1, OnlyOnly
    <3> QED
      BY <2>2, <2>4, <3>1
  <2>6. Only(new, S) = (Only(p, S) \o <<>>) \o (<<>> \o Only(r, S))
    BY <1>3, <1>7, <2>1, <2>5
  <2>7. Only(old, S) = Only(p, S) \o (<<>> \o Only(r, S))
    BY <1>3, <1>6, <2>1
  <2>8. Only(p, S) \o <<>> = Only(p, S)
    BY <1>5, Blanks
  <2> QED
    BY <2>3, <2>6, <2>7, <2>8
<1>11. ASSUME NEW g PROVE Words(g, new) = Words(g, w) /\ Words(g, old) = Words(g, h)
  <2> DEFINE S == OfGroup(g, X)
  <2>1. /\ Range(p) \cap S = {} /\ Range(r) \cap S = {}
        /\ Range(l) \cap S = {} /\ Range(b) \cap S = {}
    BY DEF OfGroup, HintOf, Parted, IsComment, Other, IsIndex
  <2>2. /\ Words(g, new) = Only(new, S) /\ Words(g, old) = Only(old, S)
        /\ Words(g, w) = Only(w, S) /\ Words(g, h) = Only(h, S)
    BY <1>1, <1>2, Filters
  <2> HIDE DEF S
  <2>3. Only(new, S) = (<<>> \o <<>>) \o (Only(w, S) \o <<>>)
    BY <1>3, <1>6, <1>7, <2>1
  <2>4. Only(old, S) = <<>> \o (Only(h, S) \o <<>>)
    BY <1>3, <1>6, <2>1
  <2>5. Only(w, S) \o <<>> = Only(w, S) /\ (<<>> \o <<>>) \o Only(w, S) = Only(w, S)
    BY <1>5, Blanks
  <2>6. Only(h, S) \o <<>> = Only(h, S) /\ <<>> \o Only(h, S) = Only(h, S)
    BY <1>5, Blanks
  <2> QED
    BY <2>2, <2>3, <2>4, <2>5, <2>6
<1> QED
  BY <1>8, <1>9, <1>10, <1>11 DEF new, old

-----------------------------------------------------------------------------
(* Places of hints and index hints *)

Early(t) == t[1] \in {"keyword", "comment"}
\* Neither an index hint nor the table of one.
Apart(t) == ~IsIndex(t) /\ \A u : t # TableOf(u)

LEMMA EarlyApart ==
    /\ \A t : Early(t) => Apart(t) /\ ~IsHint(t)
    /\ \A t : IsHint(t) => Apart(t)
BY DEF Early, Apart, IsHint, IsIndex, TableOf

\* Hints come behind the comments, in the order of the groups.
HintsInPlace(a) ==
    \A i \in 2..Len(a) :
        IsHint(a[i]) => \/ Early(a[i - 1])
                        \/ IsHint(a[i - 1]) /\ G(a[i - 1]) < G(a[i])

LEMMA HintsPlaced ==
    ASSUME NEW X, NEW q \in Seq(X), NEW w \in Seq(X), NEW b \in Seq(X), q # <<>>,
           \A i \in 1..Len(q) : Early(q[i]), InGrammar(w),
           \A i \in 1..Len(b) : ~IsHint(b[i])
    PROVE  HintsInPlace(q \o (w \o b))
<1> DEFINE a == q \o (w \o b)
           c == Len(q)
           m == Len(w)
           k == Len(b)
<1>1. c \in Nat /\ m \in Nat /\ k \in Nat
  BY LenProperties
<1>2. /\ a \in Seq(X) /\ Len(a) = c + m + k
      /\ \A i \in 1..c : a[i] = q[i]
      /\ \A i \in 1..m : a[c + i] = w[i]
      /\ \A i \in 1..k : a[c + m + i] = b[i]
  BY Parts
<1>3. \A i \in 1..m : IsHint(w[i])
  BY InGroups DEF IsHint
<1>4. \A i, j \in 1..m : i < j => G(w[i]) < G(w[j])
  BY DEF InGrammar
<1>5. /\ \A i \in 1..c : Early(q[i]) /\ ~IsHint(q[i])
      /\ \A i \in 1..k : ~IsHint(b[i])
  BY EarlyApart
<1>6. c > 0
  <2>1. q # <<>> => Len(q) > 0
    BY EmptySeq, LenProperties
  <2> QED
    BY <2>1
<1> HIDE DEF a, c, m, k
<1>7. ASSUME NEW i \in 2..c + m + k, IsHint(a[i])
      PROVE  Early(a[i - 1]) \/ (IsHint(a[i - 1]) /\ G(a[i - 1]) < G(a[i]))
  <2>1. CASE i <= c
    <3>1. i \in 1..c
      BY <1>1, <2>1
    <3> QED
      BY <1>2, <1>5, <1>7, <3>1
  <2>2. CASE i = c + 1
    <3>1. i - 1 \in 1..c
      BY <1>1, <1>6, <2>2
    <3> QED
      BY <1>2, <1>5, <3>1
  <2>3. CASE i > c + 1 /\ i <= c + m
    <3> DEFINE j == i - c
    <3>1. j \in 1..m /\ j - 1 \in 1..m /\ j - 1 < j /\ c + j = i /\ c + (j - 1) = i - 1
      BY <1>1, <2>3
    <3> HIDE DEF j
    <3>2. a[i] = w[j] /\ a[i - 1] = w[j - 1]
      BY <1>2, <3>1
    <3>3. G(w[j - 1]) < G(w[j]) /\ IsHint(w[j - 1])
      BY <1>3, <1>4, <3>1
    <3> QED
      BY <3>2, <3>3
  <2>4. CASE i > c + m
    <3> DEFINE j == i - (c + m)
    <3>1. j \in 1..k /\ c + m + j = i
      BY <1>1, <2>4
    <3> HIDE DEF j
    <3>2. a[i] = b[j] /\ ~IsHint(b[j])
      BY <1>2, <1>5, <3>1
    <3> QED
      BY <1>7, <3>2
  <2>5. i <= c \/ i = c + 1 \/ (i > c + 1 /\ i <= c + m) \/ i > c + m
    BY <1>1
  <2> QED
    BY <2>1, <2>2, <2>3, <2>4, <2>5
<1>8. HintsInPlace(a)
  BY <1>2, <1>7 DEF HintsInPlace
<1> QED
  BY <1>8 DEF a

LEMMA PlacedBehind ==
    ASSUME NEW a, NEW b, NEW d \in Nat, NEW n \in Nat, Len(b) = n, Len(a) = d + n,
           \A i \in 1..d : Apart(a[i]), \A i \in 1..n : a[d + i] = b[i], Placed(b)
    PROVE  Placed(a)
<1>1. ASSUME NEW i \in 1..d + n, IsIndex(a[i]) PROVE PlacedAt(a, i)
  <2> DEFINE h == i - d
  <2>1. ~(i \in 1..d)
    BY <1>1 DEF Apart
  <2>2. h \in 1..n /\ d + h = i
    BY <2>1
  <2> HIDE DEF h
  <2>3. a[i] = b[h]
    BY <2>2
  <2>4. PICK j \in 1..h - 1 :
           /\ b[j] = TableOf(b[h])
           /\ \A k \in 1..j - 1 : b[k] # b[j]
           /\ \A k \in j + 1..h : IsIndex(b[k])
    BY <1>1, <2>2, <2>3 DEF Placed, PlacedAt
  <2>5. j \in 1..n /\ d + j \in 1..i - 1
    BY <2>2
  <2>6. a[d + j] = b[j] /\ a[d + j] = TableOf(a[i])
    BY <2>3, <2>4, <2>5
  <2>7. ASSUME NEW k \in 1..(d + j) - 1 PROVE a[k] # a[d + j]
    <3>1. CASE k <= d
      <4>1. k \in 1..d
        BY <2>5, <3>1
      <4> QED
        BY <2>6, <4>1 DEF Apart
    <3>2. CASE k > d
      <4>1. k - d \in 1..j - 1 /\ k - d \in 1..n /\ d + (k - d) = k
        BY <2>5, <3>2
      <4>2. a[k] = b[k - d]
        BY <4>1
      <4> QED
        BY <2>4, <2>6, <4>1, <4>2
    <3>3. k <= d \/ k > d
      BY <2>5
    <3> QED
      BY <3>1, <3>2, <3>3
  <2>8. ASSUME NEW k \in (d + j) + 1..i PROVE IsIndex(a[k])
    <3>1. k - d \in j + 1..h /\ k - d \in 1..n /\ d + (k - d) = k
      BY <2>2, <2>5
    <3>2. a[k] = b[k - d]
      BY <3>1
    <3> QED
      BY <2>4, <3>1, <3>2
  <2> QED
    BY <2>5, <2>6, <2>7, <2>8 DEF PlacedAt
<1> QED
  BY <1>1 DEF Placed

LEMMA IndexesPlaced ==
    ASSUME NEW X, NEW q \in Seq(X), NEW w \in Seq(X), NEW b \in Seq(X),
           \A i \in 1..Len(q) : Apart(q[i]), \A i \in 1..Len(w) : Apart(w[i]), Placed(b)
    PROVE  Placed(q \o (w \o b))
<1> DEFINE a == q \o (w \o b)
           c == Len(q)
           m == Len(w)
           k == Len(b)
<1>1. c \in Nat /\ m \in Nat /\ k \in Nat
  BY LenProperties
<1>2. /\ a \in Seq(X) /\ Len(a) = c + m + k
      /\ \A i \in 1..c : a[i] = q[i]
      /\ \A i \in 1..m : a[c + i] = w[i]
      /\ \A i \in 1..k : a[c + m + i] = b[i]
  BY Parts
<1>3. /\ \A i \in 1..c : Apart(q[i])
      /\ \A i \in 1..m : Apart(w[i])
  OBVIOUS
<1>4. Len(b) = k
  OBVIOUS
<1> HIDE DEF a, c, m, k
<1>5. ASSUME NEW i \in 1..c + m PROVE Apart(a[i])
  <2>1. CASE i <= c
    <3>1. i \in 1..c
      BY <1>1, <2>1
    <3> QED
      BY <1>2, <1>3, <3>1
  <2>2. CASE i > c
    <3>1. i - c \in 1..m /\ c + (i - c) = i
      BY <1>1, <2>2
    <3> QED
      BY <1>2, <1>3, <3>1
  <2>3. i <= c \/ i > c
    BY <1>1
  <2> QED
    BY <2>1, <2>2, <2>3
<1>6. c + m \in Nat
  BY <1>1
<1>7. Placed(a)
  BY <1>1, <1>2, <1>4, <1>5, <1>6, PlacedBehind
<1> QED
  BY <1>7 DEF a

\* A table that the statement mentions before its end is in its last part.
LEMMA MentionedBehind ==
    ASSUME NEW X, NEW q \in Seq(X), NEW w \in Seq(X), NEW b \in Seq(X),
           \A i \in 1..Len(q) : Apart(q[i]), \A i \in 1..Len(w) : Apart(w[i]),
           NEW u, TableOf(u) \in Range(Front(q \o (w \o b)))
    PROVE  Mentioned(b, TableOf(u))
<1> DEFINE a == q \o (w \o b)
           c == Len(q)
           m == Len(w)
           k == Len(b)
           n == c + m + k
           t == TableOf(u)
           f == Front(a)
<1>1. c \in Nat /\ m \in Nat /\ k \in Nat
  BY LenProperties
<1>2. /\ a \in Seq(X) /\ Len(a) = c + m + k
      /\ \A i \in 1..c : a[i] = q[i]
      /\ \A i \in 1..m : a[c + i] = w[i]
      /\ \A i \in 1..k : a[c + m + i] = b[i]
  BY Parts
<1>3. /\ \A i \in 1..c : Apart(q[i])
      /\ \A i \in 1..m : Apart(w[i])
      /\ t \in Range(f)
  OBVIOUS
<1>4. f = SubSeq(a, 1, n - 1)
  BY <1>2 DEF Front
<1>5. \A i \in 1..Len(a) : a[i] \in X
  BY <1>2, ElementOfSeq
<1>6. Len(b) = k
  OBVIOUS
<1> HIDE DEF a, c, m, k, t, f
<1>7. f \in Seq(X) /\ \A i \in 1..n - 1 : f[i] = a[i]
  <2>1. 1 \in Int /\ n - 1 \in Int /\ \A i \in 1..n - 1 : a[i] \in X
    BY <1>1, <1>2, <1>5
  <2> DEFINE e == n - 1
  <2> HIDE DEF e
  <2>2. /\ SubSeq(a, 1, e) \in Seq(X)
        /\ \A i \in 1..e - 1 + 1 : SubSeq(a, 1, e)[i] = a[1 + i - 1]
    BY <2>1, SubSeqProperties DEF e
  <2>3. e - 1 + 1 = e /\ \A i \in 1..e : 1 + i - 1 = i
    BY <2>1 DEF e
  <2> QED
    BY <1>4, <2>2, <2>3 DEF e
<1>8. Len(f) <= n - 1 \/ Len(f) = 0
  <2>1. 1 \in Int /\ n - 1 \in Int /\ \A i \in 1..n - 1 : a[i] \in X
    BY <1>1, <1>2, <1>5
  <2> DEFINE e == n - 1
  <2> HIDE DEF e
  <2>2. Len(SubSeq(a, 1, e)) = IF 1 <= e THEN e - 1 + 1 ELSE 0
    BY <2>1, SubSeqProperties DEF e
  <2> QED
    BY <1>4, <2>1, <2>2 DEF e
<1>9. PICK i \in 1..Len(f) : f[i] = t
  BY <1>3, <1>7, RangeAt
<1>10. i \in 1..n - 1 /\ a[i] = t
  <2>1. Len(f) \in Nat
    BY <1>7, LenProperties
  <2> QED
    BY <1>1, <1>7, <1>8, <1>9, <2>1
<1>11. i > c + m
  <2>1. CASE i <= c
    <3>1. i \in 1..c
      BY <1>1, <1>10, <2>1
    <3> QED
      BY <1>2, <1>3, <1>10, <3>1 DEF Apart, t
  <2>2. CASE i > c /\ i <= c + m
    <3>1. i - c \in 1..m /\ c + (i - c) = i
      BY <1>1, <1>10, <2>2
    <3> QED
      BY <1>2, <1>3, <1>10, <3>1 DEF Apart, t
  <2> QED
    BY <1>1, <1>10, <2>1, <2>2
<1>12. i - (c + m) \in 1..k - 1 /\ i - (c + m) \in 1..k /\ c + m + (i - (c + m)) = i
  BY <1>1, <1>10, <1>11
<1>13. b[i - (c + m)] = t
  BY <1>2, <1>10, <1>12
<1> QED
  BY <1>6, <1>12, <1>13 DEF Mentioned, t

-----------------------------------------------------------------------------
(* rewrite_query() does what it should *)

CommentsOf(labels) == [i \in DOMAIN labels |-> <<"comment", labels[i][3]>>]
\* The words of group g when those that sql asks for replace those of h.
WordsWanted(g, sql, h) ==
    IF Wanted(g, sql) = <<>> THEN Words(g, h)
    ELSE <<<<"hint", Last(Wanted(g, sql))>>>>

\* A statement of these parts is what the rewritten one should be.
LEMMA RightParts ==
    ASSUME NEW X, NEW sql \in Seq(X), NEW p, NEW h, NEW r, NEW l, NEW w, NEW b,
           Parted(X, p, h, r, l, w, b), Without({"mark"}, sql) = p \o (h \o r),
           p # <<>>, sql[1] = p[1], Understood(sql),
           InGrammar(h), InGrammar(w), Placed(b),
           l = CommentsOf(Marks("label", sql)),
           sql[1][2] = "SELECT" =>
             /\ \A g \in Groups : Words(g, w) = WordsWanted(g, sql, h)
             /\ \A m \in Range(Marks("index", sql)) :
                    Mentioned(r, TableOf(IndexOf(m))) => IndexOf(m) \in Range(b),
           sql[1][2] # "SELECT" => w = <<>>
    PROVE  RewriteRight(sql, (p \o l) \o (w \o b))
<1> DEFINE plain == p \o (h \o r)
           q == p \o l
           a == q \o (w \o b)
<1>1. /\ p \in Seq(X) /\ h \in Seq(X) /\ r \in Seq(X)
      /\ l \in Seq(X) /\ w \in Seq(X) /\ b \in Seq(X)
  BY DEF Parted
<1>2. /\ Of("comment", a) = Of("comment", plain) \o l
      /\ Of("mark", a) = <<>> /\ Bare(a) = Bare(plain)
      /\ \A g : Words(g, a) = Words(g, w) /\ Words(g, plain) = Words(g, h)
  BY PartsByKind
<1>3. /\ Of("comment", plain) = Of("comment", sql) /\ Bare(plain) = Bare(sql)
      /\ \A g : Words(g, plain) = Words(g, sql)
  <2>1. plain = Without({"mark"}, sql)
    OBVIOUS
  <2> HIDE DEF plain
  <2> QED
    BY <2>1, PlainKeeps
<1>4. Bare(a) = Bare(sql) /\ Of("mark", a) = <<>>
  BY <1>2, <1>3
<1>5. q \in Seq(X) /\ q # <<>> /\ \A i \in 1..Len(q) : Early(q[i])
  <2>1. q \in Seq(X) /\ Range(q) = Range(p) \cup Range(l)
    BY <1>1, ConcatRange
  <2>2. \A x \in Range(q) : Early(x)
    BY <2>1 DEF Parted, Early, IsComment
  <2>3. q # <<>>
    BY <1>1, ConcatEqualIffEmpty
  <2> HIDE DEF q
  <2>4. \A i \in 1..Len(q) : q[i] \in Range(q)
    BY <2>1, RangeAt
  <2> QED
    BY <2>1, <2>2, <2>3, <2>4
<1>6. /\ \A i \in 1..Len(q) : Apart(q[i])
      /\ \A i \in 1..Len(w) : Apart(w[i])
  <2>1. \A i \in 1..Len(w) : IsHint(w[i])
    BY InGroups DEF IsHint
  <2> HIDE DEF q
  <2> QED
    BY <1>5, <2>1, EarlyApart
<1>7. \A i \in 1..Len(b) : ~IsHint(b[i])
  <2>1. \A x \in Range(b) : ~IsHint(x)
    BY DEF Parted, Other, IsIndex, IsHint
  <2>2. \A i \in 1..Len(b) : b[i] \in Range(b)
    BY <1>1, RangeAt
  <2> QED
    BY <2>1, <2>2
<1>8. HintsInPlace(a)
  <2> HIDE DEF q
  <2> QED
    BY <1>1, <1>5, <1>7, HintsPlaced
<1>9. Placed(a) /\ a \in Seq(X)
  <2>1. w \o b \in Seq(X)
    BY <1>1, ConcatProperties
  <2> HIDE DEF q
  <2>2. q \o (w \o b) \in Seq(X)
    BY <1>5, <2>1, ConcatProperties
  <2> QED
    BY <1>1, <1>5, <1>6, <2>2, IndexesPlaced
<1>10. Range(b) \subseteq Range(a)
  <2>1. w \o b \in Seq(X) /\ Range(w \o b) = Range(w) \cup Range(b)
    BY <1>1, ConcatRange
  <2> DEFINE u == w \o b
  <2> HIDE DEF q, u
  <2>2. Range(q \o u) = Range(q) \cup Range(u)
    <3>1. u \in Seq(X) /\ q \in Seq(X)
      BY <1>5, <2>1 DEF u
    <3> QED
      BY <3>1, ConcatRange
  <2> QED
    BY <2>1, <2>2 DEF u
<1> HIDE DEF a
<1>11. HintsRight(sql, a)
  <2>1. CASE sql[1][2] = "SELECT"
    <3>1. ASSUME NEW g \in Groups
          PROVE  Words(g, a) = IF Wanted(g, sql) = <<>> THEN Words(g, sql)
                               ELSE <<<<"hint", Last(Wanted(g, sql))>>>>
      BY <1>2, <1>3, <2>1 DEF WordsWanted
    <3>2. ASSUME NEW i \in 2..Len(a), a[i][1] = "hint"
          PROVE  \/ a[i - 1][1] \in {"keyword", "comment"}
                 \/ /\ a[i - 1][1] = "hint"
                    /\ GroupOf(a[i - 1][2]) < GroupOf(a[i][2])
      BY <1>8, <3>2 DEF HintsInPlace, IsHint, Early, G
    <3> QED
      BY <2>1, <3>1, <3>2 DEF HintsRight
  <2>2. CASE sql[1][2] # "SELECT"
    <3>1. ASSUME NEW g PROVE Words(g, a) = <<>>
      <4>1. w \in Seq({}) /\ Words(g, w) = Only(w, OfGroup(g, X))
        BY <1>1, <2>2, Filters
      <4>2. Only(w, OfGroup(g, X)) = <<>>
        BY <4>1, OnlyAllOrNone
      <4> QED
        BY <1>2, <4>1, <4>2
    <3> QED
      BY <2>2, <3>1 DEF HintsRight
  <2> QED
    BY <2>1, <2>2
<1>12. CommentsRight(sql, a)
  BY <1>2, <1>3 DEF CommentsRight, CommentsOf
<1>13. IndexesRight(sql, a)
  <2>1. DOMAIN a = 1..Len(a)
    BY <1>9, LenProperties
  <2> QED
    BY <1>9, <2>1 DEF IndexesRight, Placed, PlacedAt, IsIndex, TableOf
<1>14. ASSUME sql[1][2] = "SELECT", NEW m \in Range(Marks("index", sql)),
              <<"table", m[3]>> \in Range(Front(Without({"mark"}, sql)))
       PROVE  <<"index", m[3], m[4]>> \in Range(a)
  <2> DEFINE u == IndexOf(m)
  <2>1. TableOf(u) = <<"table", m[3]>> /\ u = <<"index", m[3], m[4]>>
    BY DEF TableOf, IndexOf
  <2>2. TableOf(u) \in Range(Front(plain))
    BY <1>14, <2>1
  <2>3. Mentioned(r, TableOf(u))
    <3>1. \A i \in 1..Len(p) : Apart(p[i])
      <4>1. \A x \in Range(p) : Early(x)
        BY DEF Parted, Early
      <4>2. \A i \in 1..Len(p) : p[i] \in Range(p)
        BY <1>1, RangeAt
      <4> QED
        BY <4>1, <4>2, EarlyApart
    <3>2. \A i \in 1..Len(h) : Apart(h[i])
      <4>1. \A i \in 1..Len(h) : IsHint(h[i])
        BY InGroups DEF IsHint
      <4> QED
        BY <4>1, EarlyApart
    <3> HIDE DEF u
    <3> QED
      BY <1>1, <2>2, <3>1, <3>2, MentionedBehind
  <2>4. u \in Range(b)
    BY <1>14, <2>3
  <2> QED
    BY <1>10, <2>1, <2>4
<1>15. RewriteRight(sql, a)
  BY <1>4, <1>11, <1>12, <1>13, <1>14 DEF RewriteRight
<1> QED
  BY <1>15 DEF a

\* A statement that query_start_re understands as it is meant: without its
\* marks it is a keyword and comments, hints of a SELECT, and tokens that are
\* neither comments nor hints.
Parses(V, sql, p, h, r) ==
    /\ p \in Seq(V) /\ h \in Seq(V) /\ r \in Seq(V)
    /\ p # <<>> /\ p[1][1] = "keyword" /\ \A j \in 2..Len(p) : IsComment(p[j])
    /\ InGrammar(h) /\ (p[1][2] # "SELECT" => h = <<>>)
    /\ \A i \in 1..Len(r) : Other(r[i])
    /\ Without({"mark"}, sql) = p \o (h \o r)
    /\ sql # <<>> /\ sql[1] = p[1]

LEMMA ParsesKinds ==
    ASSUME NEW V, NEW sql, NEW p, NEW h, NEW r, Parses(V, sql, p, h, r)
    PROVE  /\ \A x \in Range(p) : x[1] \in {"keyword", "comment"}
           /\ \A x \in Range(h) : IsHint(x)
           /\ \A x \in Range(r) : Other(x)
<1>1. p \in Seq(V) /\ h \in Seq(V) /\ r \in Seq(V)
  BY DEF Parses
<1>2. ASSUME NEW x \in Range(p) PROVE x[1] \in {"keyword", "comment"}
  <2>1. PICK i \in 1..Len(p) : p[i] = x
    BY <1>1, RangeAt
  <2>2. i = 1 \/ i \in 2..Len(p)
    <3>1. Len(p) \in Nat
      BY <1>1, LenProperties
    <3> QED
      BY <3>1
  <2>3. p[1][1] = "keyword" /\ \A j \in 2..Len(p) : IsComment(p[j])
    BY DEF Parses
  <2> QED
    BY <2>1, <2>2, <2>3 DEF IsComment
<1>3. ASSUME NEW x \in Range(h) PROVE IsHint(x)
  <2>1. PICK i \in 1..Len(h) : h[i] = x
    BY <1>1, <1>3, RangeAt
  <2>2. InGrammar(h)
    BY DEF Parses
  <2> QED
    BY <2>1, <2>2, InGroups DEF IsHint
<1>4. ASSUME NEW x \in Range(r) PROVE Other(x)
  <2>1. PICK i \in 1..Len(r) : r[i] = x
    BY <1>1, <1>4, RangeAt
  <2> QED
    BY <2>1 DEF Parses
<1> QED
  BY <1>2, <1>3, <1>4

\* The parts when nothing is added.
LEMMA PartsUnchanged ==
    ASSUME NEW V, NEW sql, NEW p, NEW h, NEW r, Parses(V, sql, p, h, r)
    PROVE  /\ Parted(V, p, h, r, <<>>, h, r) /\ Placed(r)
           /\ (p \o <<>>) \o (h \o r) = p \o (h \o r)
<1>1. p \in Seq(V) /\ h \in Seq(V) /\ r \in Seq(V) /\ <<>> \in Seq(V)
  BY DEF Parses
<1>2. \A x \in Range(r) : Other(x) /\ ~IsIndex(x)
  BY ParsesKinds DEF Other, IsIndex
<1>3. Only(r, NotOf({"index"}, V)) = r
  <2>1. Range(r) \subseteq NotOf({"index"}, V)
    BY <1>1, <1>2, RangeAt DEF NotOf, IsIndex
  <2> QED
    BY <1>1, <2>1, OnlyEdges
<1>4. \A x \in Range(<<>>) : IsComment(x)
  BY DEF Range
<1>5. Placed(r)
  <2>1. \A i \in 1..Len(r) : r[i] \in Range(r)
    BY <1>1, RangeAt
  <2> QED
    BY <1>2, <2>1 DEF Placed
<1>6. p \o <<>> = p
  BY <1>1, Blanks
<1>7. Parted(V, p, h, r, <<>>, h, r)
  BY <1>1, <1>2, <1>3, <1>4, ParsesKinds DEF Parted
<1> QED
  BY <1>5, <1>6, <1>7

LEMMA UnderstoodAlike ==
    ASSUME NEW V, NEW sql, NEW p, NEW h, NEW r, Parses(V, sql, p, h, r)
    PROVE  /\ Understood(Without({"mark"}, sql)) <=> Understood(sql)
           /\ Without({"mark"}, sql)[1] = sql[1]
<1> DEFINE s == p \o (h \o r)
<1>1. p \in Seq(V) /\ h \in Seq(V) /\ r \in Seq(V) /\ p # <<>>
  BY DEF Parses
<1>2. s[1] = p[1] /\ s # <<>>
  <2>1. s \in Seq(V) /\ Len(s) = Len(p) + Len(h) + Len(r)
        /\ \A i \in 1..Len(p) : s[i] = p[i]
    BY <1>1, Parts
  <2>2. Len(p) \in Nat /\ Len(p) > 0 /\ Len(h) \in Nat /\ Len(r) \in Nat
    BY <1>1, NotEmpty, LenProperties
  <2> HIDE DEF s
  <2>3. Len(s) > 0 /\ 1 \in 1..Len(p)
    BY <2>1, <2>2
  <2>4. s = <<>> => Len(s) = 0
    OBVIOUS
  <2> QED
    BY <2>1, <2>3, <2>4
<1> HIDE DEF s
<1>3. Without({"mark"}, sql) = s /\ sql # <<>> /\ sql[1] = p[1]
  BY DEF Parses, s
<1> QED
  BY <1>2, <1>3 DEF Understood

\* A statement that is sent as it is, but for its marks.
LEMMA PlainIsRight ==
    ASSUME NEW V, NEW sql \in Seq(V), NEW p, NEW h, NEW r, Parses(V, sql, p, h, r),
           ~Understood(sql)
    PROVE  RewriteRight(sql, Without({"mark"}, sql))
<1> DEFINE s == p \o (h \o r)
<1>1. Without({"mark"}, sql) = s
  BY DEF Parses
<1>2. Of("mark", s) = <<>>
  BY PartsUnchanged, PartsByKind
<1> HIDE DEF s
<1>3. Bare(s) = Bare(sql)
  BY <1>1, PlainKeeps
<1> QED
  BY <1>1, <1>2, <1>3 DEF RewriteRight

LEMMA NoMarksIsRight ==
    ASSUME NEW V, NEW sql \in Seq(V), NEW p, NEW h, NEW r, Parses(V, sql, p, h, r),
           Understood(sql), Marks("label", sql) = <<>>, Marks("hint", sql) = <<>>,
           Marks("index", sql) = <<>>
    PROVE  RewriteRight(sql, Without({"mark"}, sql))
<1>1. /\ Without({"mark"}, sql) = p \o (h \o r) /\ p # <<>> /\ sql[1] = p[1]
      /\ InGrammar(h) /\ (sql[1][2] # "SELECT" => h = <<>>)
  BY DEF Parses
<1>2. <<>> = CommentsOf(Marks("label", sql))
  <2>1. \A f : [i \in DOMAIN <<>> |-> f[i]] = <<>>
    OBVIOUS
  <2> QED
    BY <2>1 DEF CommentsOf
<1>3. \A g : Wanted(g, sql) = <<>>
  <2>1. [i \in DOMAIN <<>> |-> <<>>[i][3]] = <<>>
    OBVIOUS
  <2>2. \A S : Only(<<>>, S) = <<>>
    BY OnlyNothing
  <2> QED
    BY <2>1, <2>2 DEF Wanted, HintsFrom
<1>4. \A g : Words(g, h) = WordsWanted(g, sql, h)
  BY <1>3 DEF WordsWanted
<1>5. \A m \in Range(Marks("index", sql)) : FALSE
  BY DEF Range
<1>6. Parted(V, p, h, r, <<>>, h, r) /\ Placed(r)
  BY PartsUnchanged
<1>7. RewriteRight(sql, (p \o <<>>) \o (h \o r))
  BY <1>1, <1>2, <1>4, <1>5, <1>6, RightParts
<1>8. (p \o <<>>) \o (h \o r) = p \o (h \o r)
  BY PartsUnchanged
<1> QED
  BY <1>1, <1>7, <1>8

\* What ModifySql makes of the parts.
HintsOf(marks) == [i \in DOMAIN marks |-> marks[i][3]]
ThereIn(sql, g) ==
    LET end == HintsEnd(sql) IN IF end[g] > end[g - 1] THEN sql[end[g]] ELSE <<>>
ChosenOf(sql, hints) == [g \in Groups |-> Chosen(ThereIn(sql, g), HintsFrom(g, hints))]
WordsOf(chosen) == Only(chosen, Range(chosen) \ {<<>>})

LEMMA ParsesParts ==
    ASSUME NEW V, NEW sql, NEW p, NEW h, NEW r, Parses(V, sql, p, h, r),
           NEW plain, plain = Without({"mark"}, sql)
    PROVE  InParts(V, p, h, r, plain)
<1>1. /\ p \in Seq(V) /\ h \in Seq(V) /\ r \in Seq(V) /\ p # <<>>
      /\ \A j \in 2..Len(p) : IsComment(p[j])
      /\ InGrammar(h) /\ plain = p \o (h \o r)
  BY DEF Parses
<1>2. \A i \in 1..Len(r) : ~IsComment(r[i]) /\ ~IsHint(r[i])
  BY DEF Parses, Other, IsComment, IsHint
<1> QED
  BY <1>1, <1>2 DEF InParts

Modification(sql) ==
    ModifySql(Without({"mark"}, sql), Marks("label", sql),
              HintsOf(Marks("hint", sql)), Marks("index", sql))
ModifiedParts(sql, p, r) ==
    (p \o CommentsOf(Marks("label", sql)))
    \o (IF sql[1][2] = "SELECT"
        THEN WordsOf(ChosenOf(Without({"mark"}, sql), HintsOf(Marks("hint", sql))))
             \o AddIndexHints(r, Marks("index", sql))
        ELSE r)

LEMMA Modified ==
    ASSUME NEW V, NEW sql, NEW p, NEW h, NEW r, Parses(V, sql, p, h, r)
    PROVE  Modification(sql) = ModifiedParts(sql, p, r)
<1> DEFINE plain == Without({"mark"}, sql)
           labels == Marks("label", sql)
           marks == Marks("hint", sql)
           indexHints == Marks("index", sql)
<1>0. /\ Modification(sql) = ModifySql(plain, labels, HintsOf(marks), indexHints)
      /\ ModifiedParts(sql, p, r)
             = (p \o CommentsOf(labels))
               \o (IF sql[1][2] = "SELECT"
                   THEN WordsOf(ChosenOf(plain, HintsOf(marks)))
                        \o AddIndexHints(r, indexHints)
                   ELSE r)
      /\ plain = Without({"mark"}, sql)
  BY DEF Modification, ModifiedParts
<1> HIDE DEF plain, labels, marks, indexHints
<1> DEFINE end == HintsEnd(plain)
           hints == HintsOf(marks)
           chosen == [g \in Groups |->
                        Chosen(IF end[g] > end[g - 1] THEN plain[end[g]] ELSE <<>>,
                               HintsFrom(g, hints))]
           rest == SubSeq(plain, end[Len(SelectHints)] + 1, Len(plain))
           comments == SubSeq(plain, 1, CommentsEnd(plain))
           added == [i \in DOMAIN labels |-> <<"comment", labels[i][3]>>]
           words == Only(chosen, Range(chosen) \ {<<>>})
           indexed == AddIndexHints(rest, indexHints)
<1>1. ModifySql(plain, labels, hints, indexHints)
        = comments \o added \o (IF plain[1][2] = "SELECT" THEN words \o indexed ELSE rest)
  BY DEF ModifySql
<1>2. plain[1] = sql[1]
  BY <1>0, UnderstoodAlike
<1>3. comments = p /\ rest = r
  <2>1. MatchedAs(p, h, r, plain)
    BY <1>0, ParsesParts, Matched
  <2> QED
    BY <2>1 DEF MatchedAs
<1>4. added = CommentsOf(labels)
  BY DEF CommentsOf
<1>5. chosen = ChosenOf(plain, hints)
  BY DEF ChosenOf, ThereIn
<1> HIDE DEF comments, added, rest, chosen, hints
<1>6. words = WordsOf(ChosenOf(plain, hints)) /\ indexed = AddIndexHints(r, indexHints)
  BY <1>3, <1>5 DEF WordsOf
<1> HIDE DEF words, indexed
<1>7. ModifySql(plain, labels, hints, indexHints)
        = (p \o CommentsOf(labels))
          \o (IF sql[1][2] = "SELECT"
              THEN WordsOf(ChosenOf(plain, hints)) \o AddIndexHints(r, indexHints)
              ELSE r)
  BY <1>1, <1>2, <1>3, <1>4, <1>6
<1> QED
  BY <1>0, <1>7 DEF hints

\* The words of a SELECT, and their kind.
LEMMA WordsRight ==
    ASSUME NEW V, NEW sql \in Seq(V), NEW p, NEW h, NEW r, Parses(V, sql, p, h, r),
           NEW plain, plain = Without({"mark"}, sql),
           NEW chosen, chosen = ChosenOf(plain, HintsOf(Marks("hint", sql)))
    PROVE  /\ WordsOf(chosen) \in Seq(Range(chosen)) /\ InGrammar(WordsOf(chosen))
           /\ \A g \in Groups : Words(g, WordsOf(chosen)) = WordsWanted(g, sql, h)
<1> DEFINE marks == Marks("hint", sql)
           hints == HintsOf(marks)
           W == {m[3] : m \in V}
<1>1. marks \in Seq(V)
  BY OnlyKeeps DEF Marks
<1>2. \A g : HintsFrom(g, hints) = Wanted(g, sql)
  BY DEF Wanted, HintsOf
<1> HIDE DEF marks
<1>3. hints \in Seq(W)
  <2>1. /\ DOMAIN marks = 1..Len(marks) /\ Len(marks) \in Nat
        /\ \A i \in DOMAIN marks : marks[i] \in V
    BY <1>1
  <2>2. hints \in [1..Len(marks) -> W]
    BY <2>1 DEF HintsOf
  <2> HIDE DEF W, hints
  <2> QED
    BY <2>1, <2>2, SeqDef
<1>4. chosen = [g \in Groups |-> Chosen(ThereIn(plain, g), HintsFrom(g, hints))]
  BY DEF ChosenOf, marks
<1>5. \A g \in Groups : HintThere(h, g, ThereIn(plain, g))
  <2>1. MatchedAs(p, h, r, plain)
    BY ParsesParts, Matched
  <2> QED
    BY <2>1 DEF MatchedAs, ThereIn
<1> HIDE DEF hints, W
<1>6. h \in Seq(V) /\ InGrammar(h)
  BY DEF Parses
<1>7. /\ chosen = [g \in Groups |-> chosen[g]]
      /\ \A g \in Groups : chosen[g] = Chosen(ThereIn(plain, g), HintsFrom(g, hints))
  BY <1>4
<1>8. \A g \in Groups : \E t : /\ HintThere(h, g, t)
                               /\ chosen[g] = Chosen(t, HintsFrom(g, hints))
  BY <1>5, <1>7
<1> DEFINE w == WordsOf(chosen)
<1>9. w = Only(chosen, Range(chosen) \ {<<>>})
  BY DEF WordsOf
<1> HIDE DEF w
<1>10. ChosenAs(h, hints, chosen)
  <2>1. ChosenAmong(V, W, h, hints, chosen)
    BY <1>3, <1>6, <1>7, <1>8 DEF ChosenAmong
  <2> QED
    BY <2>1, ChosenRight
<1>11. /\ w \in Seq(Range(chosen)) /\ InGrammar(w)
       /\ \A g \in Groups :
                Words(g, w) = IF HintsFrom(g, hints) = <<>> THEN Words(g, h)
                              ELSE <<<<"hint", Last(HintsFrom(g, hints))>>>>
  BY <1>9, <1>10 DEF ChosenAs
<1> QED
  BY <1>2, <1>11 DEF WordsWanted, w

\* What the rewritten statement is made of besides its own tokens.
Made(V, chosen) == V \cup {IndexOf(m) : m \in V} \cup {<<"comment", m[3]>> : m \in V}
                     \cup Range(chosen)

\* b is r with the index hints that sql asks for.
Indexed(sql, r, X, b) ==
    /\ b \in Seq(X) /\ \A x \in Range(b) : Other(x) \/ IsIndex(x)
    /\ Only(b, NotOf({"index"}, X)) = r /\ Placed(b)
    /\ \A m \in Range(Marks("index", sql)) :
           Mentioned(r, TableOf(IndexOf(m))) => IndexOf(m) \in Range(b)

LEMMA IndexedRight ==
    ASSUME NEW V, NEW sql \in Seq(V), NEW r \in Seq(V),
           \A x \in Range(r) : Other(x),
           NEW X, V \subseteq X, \A m \in V : IndexOf(m) \in X,
           NEW b, b = AddIndexHints(r, Marks("index", sql))
    PROVE  Indexed(sql, r, X, b)
<1> DEFINE marks == Marks("index", sql)
           I == {IndexOf(m) : m \in V}
           S == NotOf({"index"}, X)
<1>1. r \in Seq(X) /\ \A i \in 1..Len(r) : r[i] \in Range(r)
  BY SeqMonotonic, RangeAt
<1>2. marks \in Seq(V)
  BY OnlyKeeps DEF Marks
<1>3. b = AddIndexHints(r, marks)
  OBVIOUS
<1>4. \A x \in I : IsIndex(x)
  BY DEF IndexOf, IsIndex
<1>5. I \cap S = {}
  BY <1>4 DEF NotOf, IsIndex
<1>6. Range(r) \subseteq S
  <2>1. \A x \in Range(r) : x \in X
    BY <1>1, RangeAt
  <2> QED
    BY <2>1 DEF NotOf, Other
<1>7. Placed(r)
  <2>1. \A x \in Range(r) : ~IsIndex(x)
    BY DEF Other, IsIndex
  <2> QED
    BY <1>1, <2>1 DEF Placed
<1> HIDE DEF marks, S
<1>8. /\ Extended(X, r, I, b)
      /\ \A i \in 1..Len(marks) :
            Mentioned(r, TableOf(IndexOf(marks[i]))) => IndexOf(marks[i]) \in Range(b)
  <2>1. \A m \in V : IndexOf(m) \in X
    OBVIOUS
  <2> QED
    BY <1>1, <1>2, <1>3, <2>1, AllExtended
<1> HIDE DEF I
<1>9. b \in Seq(X) /\ Range(b) \subseteq Range(r) \cup I /\ Placed(b)
  BY <1>7, <1>8 DEF Extended
<1>10. Only(b, S) = r
  <2>1. Only(b, S) = Only(r, S)
    BY <1>5, <1>8 DEF Extended
  <2>2. Only(r, S) = r
    BY <1>1, <1>6, OnlyEdges
  <2> QED
    BY <2>1, <2>2
<1>11. \A x \in Range(b) : Other(x) \/ IsIndex(x)
  BY <1>4, <1>9
<1>12. \A m \in Range(marks) :
          Mentioned(r, TableOf(IndexOf(m))) => IndexOf(m) \in Range(b)
  <2>1. \A m \in Range(marks) : \E i \in 1..Len(marks) : marks[i] = m
    BY <1>2, RangeAt
  <2> QED
    BY <1>8, <2>1
<1> QED
  BY <1>9, <1>10, <1>11, <1>12 DEF Indexed, marks, S

LEMMA CommentsMade ==
    ASSUME NEW V, NEW sql \in Seq(V),
           NEW X, \A m \in V : <<"comment", m[3]>> \in X,
           NEW l, l = CommentsOf(Marks("label", sql))
    PROVE  l \in Seq(X) /\ \A x \in Range(l) : IsComment(x)
<1> DEFINE labels == Marks("label", sql)
<1>1. labels \in Seq(V)
  BY OnlyKeeps DEF Marks
<1> HIDE DEF labels
<1>2. /\ Len(labels) \in Nat /\ DOMAIN labels = 1..Len(labels)
      /\ \A i \in 1..Len(labels) : labels[i] \in V
  BY <1>1
<1>3. l = [i \in 1..Len(labels) |-> <<"comment", labels[i][3]>>]
  BY <1>2 DEF CommentsOf, labels
<1>4. l \in [1..Len(labels) -> X]
  BY <1>2, <1>3
<1>5. l \in Seq(X)
  BY <1>2, <1>4, SeqDef
<1>6. \A x \in Range(l) : IsComment(x)
  BY <1>3 DEF Range, IsComment
<1> QED
  BY <1>5, <1>6

\* A statement that is understood and modified.
LEMMA ModifiedIsRight ==
    ASSUME NEW V, NEW sql \in Seq(V), NEW p, NEW h, NEW r, Parses(V, sql, p, h, r),
           Understood(sql)
    PROVE  RewriteRight(sql, Modification(sql))
<1> DEFINE plain == Without({"mark"}, sql)
           labels == Marks("label", sql)
           hintMarks == Marks("hint", sql)
           hints == HintsOf(hintMarks)
           marks == Marks("index", sql)
           chosen == ChosenOf(plain, hints)
           select == sql[1][2] = "SELECT"
           X == Made(V, chosen)
           l == CommentsOf(labels)
           w == IF select THEN WordsOf(chosen) ELSE <<>>
           b == IF select THEN AddIndexHints(r, marks) ELSE r
<1>1. /\ V \subseteq X /\ \A m \in V : IndexOf(m) \in X
      /\ \A m \in V : <<"comment", m[3]>> \in X
      /\ Range(chosen) \subseteq X
  BY DEF Made
<1>2. /\ p \in Seq(V) /\ h \in Seq(V) /\ r \in Seq(V) /\ p # <<>>
      /\ InGrammar(h) /\ (~select => h = <<>>)
      /\ plain = p \o (h \o r) /\ sql[1] = p[1]
  BY DEF Parses
<1>3. /\ \A x \in Range(p) : x[1] \in {"keyword", "comment"}
      /\ \A x \in Range(h) : IsHint(x)
      /\ \A x \in Range(r) : Other(x)
  BY ParsesKinds
<1>4. WordsOf(chosen) \in Seq(Range(chosen)) /\ InGrammar(WordsOf(chosen))
      /\ \A g \in Groups : Words(g, WordsOf(chosen)) = WordsWanted(g, sql, h)
  BY WordsRight
<1>5. Modification(sql) = (p \o l) \o (w \o b)
  <2>1. Modification(sql)
          = (p \o l) \o (IF select THEN WordsOf(chosen) \o AddIndexHints(r, marks)
                         ELSE r)
    <3>1. Modification(sql) = ModifiedParts(sql, p, r)
      BY Modified
    <3> QED
      BY <3>1 DEF ModifiedParts
  <2>2. <<>> \o r = r
    BY <1>2, Blanks
  <2> QED
    BY <2>1, <2>2
<1> HIDE DEF X, select, l, chosen
<1>6. /\ b \in Seq(X) /\ \A x \in Range(b) : Other(x) \/ IsIndex(x)
      /\ Only(b, NotOf({"index"}, X)) = r /\ Placed(b)
      /\ select => \A m \in Range(marks) :
                      Mentioned(r, TableOf(IndexOf(m))) => IndexOf(m) \in Range(b)
  <2>1. CASE select
    <3>1. b = AddIndexHints(r, marks)
      BY <2>1
    <3>2. /\ V \subseteq X /\ \A m \in V : IndexOf(m) \in X
          /\ r \in Seq(V) /\ \A x \in Range(r) : Other(x)
      BY <1>1, <1>2, <1>3
    <3> HIDE DEF b
    <3>3. Indexed(sql, r, X, b)
      BY <3>1, <3>2, IndexedRight
    <3> QED
      BY <3>3 DEF Indexed
  <2>2. CASE ~select
    <3>1. b = r
      BY <2>2
    <3>2. r \in Seq(X)
      BY <1>1, <1>2, SeqMonotonic
    <3>3. \A x \in Range(r) : ~IsIndex(x)
      BY <1>3 DEF Other, IsIndex
    <3>4. Only(r, NotOf({"index"}, X)) = r
      <4>1. Range(r) \subseteq NotOf({"index"}, X)
        BY <3>2, <3>3, RangeAt DEF NotOf, IsIndex
      <4> QED
        BY <3>2, <4>1, OnlyEdges
    <3>5. Placed(r)
      <4>1. \A i \in 1..Len(r) : r[i] \in Range(r)
        BY <1>2, RangeAt
      <4> QED
        BY <3>3, <4>1 DEF Placed
    <3> HIDE DEF b
    <3> QED
      BY <1>3, <2>2, <3>1, <3>2, <3>4, <3>5
  <2> QED
    BY <2>1, <2>2
<1>7. /\ w \in Seq(X) /\ InGrammar(w)
      /\ select => \A g \in Groups : Words(g, w) = WordsWanted(g, sql, h)
      /\ ~select => w = <<>>
  <2>1. CASE select
    <3>1. w = WordsOf(chosen)
      BY <2>1
    <3>2. w \in Seq(X)
      BY <1>1, <1>4, <3>1, SeqMonotonic
    <3> HIDE DEF w
    <3> QED
      BY <1>4, <2>1, <3>1, <3>2
  <2>2. CASE ~select
    <3>1. w = <<>> /\ h = <<>>
      BY <1>2, <2>2
    <3>2. <<>> \in Seq(X)
      OBVIOUS
    <3> HIDE DEF w
    <3> QED
      BY <1>2, <2>2, <3>1, <3>2
  <2> QED
    BY <2>1, <2>2
<1> HIDE DEF w, b
<1>8. \A x \in Range(w) : IsHint(x)
  <2>1. \A i \in 1..Len(w) : IsHint(w[i])
    BY <1>7, InGroups DEF IsHint
  <2>2. \A x \in Range(w) : \E i \in 1..Len(w) : w[i] = x
    BY <1>7, RangeAt
  <2> QED
    BY <2>1, <2>2
<1>9. l \in Seq(X) /\ \A x \in Range(l) : IsComment(x)
  BY <1>1, CommentsMade DEF l
<1>10. sql \in Seq(X) /\ p \in Seq(X) /\ h \in Seq(X) /\ r \in Seq(X)
  BY <1>1, <1>2, SeqMonotonic
<1>11. Parted(X, p, h, r, l, w, b)
  BY <1>3, <1>6, <1>7, <1>8, <1>9, <1>10, Zenon DEF Parted
<1>12. RewriteRight(sql, (p \o l) \o (w \o b))
  <2>1. /\ select => /\ \A g \in Groups : Words(g, w) = WordsWanted(g, sql, h)
                     /\ \A m \in Range(Marks("index", sql)) :
                          Mentioned(r, TableOf(IndexOf(m))) => IndexOf(m) \in Range(b)
        /\ ~select => w = <<>>
    BY <1>6, <1>7
  <2>2. l = CommentsOf(Marks("label", sql))
    BY DEF l
  <2> QED
    BY <1>2, <1>6, <1>7, <1>10, <1>11, <2>1, <2>2, RightParts DEF select
<1> QED
  BY <1>5, <1>12

\* rewrite_query() does what it should to every statement that the grammar
\* of query_start_re describes, wherever its marks are and however many.
THEOREM RewriteIsRight ==
    ASSUME NEW V, NEW sql \in Seq(V), NEW p, NEW h, NEW r, Parses(V, sql, p, h, r)
    PROVE  RewriteRight(sql, Rewrite(sql))
<1> DEFINE plain == Without({"mark"}, sql)
           labels == Marks("label", sql)
           marks == Marks("hint", sql)
           indexHints == Marks("index", sql)
           none == labels \o marks \o indexHints = <<>>
<1>1. Rewrite(sql) = IF none \/ ~Understood(plain) THEN plain ELSE Modification(sql)
  BY DEF Rewrite, Modification, HintsOf
<1>2. Understood(plain) <=> Understood(sql)
  BY UnderstoodAlike
<1>3. none => labels = <<>> /\ marks = <<>> /\ indexHints = <<>>
  <2>1. labels \in Seq(V) /\ marks \in Seq(V) /\ indexHints \in Seq(V)
    BY OnlyKeeps DEF Marks
  <2> HIDE DEF labels, marks, indexHints
  <2>2. (labels \o marks) \in Seq(V)
    BY <2>1, ConcatProperties
  <2> DEFINE lm == labels \o marks
  <2> HIDE DEF lm
  <2>3. lm \o indexHints = <<>> => lm = <<>> /\ indexHints = <<>>
    <3>1. lm \in Seq(V)
      BY <2>2 DEF lm
    <3> QED
      BY <2>1, <3>1, ConcatEqualIffEmpty
  <2>4. lm = <<>> => labels = <<>> /\ marks = <<>>
    BY <2>1, ConcatEqualIffEmpty DEF lm
  <2> QED
    BY <2>3, <2>4 DEF lm
<1> HIDE DEF none
<1>4. CASE ~Understood(sql)
  BY <1>1, <1>2, <1>4, PlainIsRight
<1>5. CASE Understood(sql) /\ none
  BY <1>1, <1>3, <1>5, NoMarksIsRight
<1>6. CASE Understood(sql) /\ ~none
  BY <1>1, <1>2, <1>6, ModifiedIsRight
<1> QED
  BY <1>4, <1>5, <1>6

-----------------------------------------------------------------------------
(* Query sets *)

FoundRowsMark == <<"mark", "hint", "SQL_CALC_FOUND_ROWS">>

Query == [db : Connections, marks : Seq(Hints \cup {FoundRowsMark}),
          rows : {"all", "some", "none"}, grouped : BOOLEAN, limit : Limits \cup {NoLimit},
          tries : Tries \cup {None}, foundRows : Nat \cup {Absent, None},
          resultCache : Nat \cup {None},
          trueTotal : Nat \cup {None} \cup (Nat \X Nat), disturbed : BOOLEAN]

QueriesTyped ==
    /\ table \in Tables
    /\ lastFound \in [Connections -> Nat]
    /\ querySets \in [Names -> Query]
    /\ fetching \in Seq(Names)

\* The query sets that are fetched differ, and one that is fetched during the
\* fetch of another on its connection has disturbed it.
Stacked ==
    \A i, j \in DOMAIN fetching : i < j =>
        /\ fetching[i] # fetching[j]
        /\ querySets[fetching[i]].db = querySets[fetching[j]].db =>
               querySets[fetching[i]].disturbed

\* A query set has the attribute _found_rows only if it is marked.
Marked(q) == q.foundRows # Absent => FoundRowsMark \in Range(q.marks)

\* While the rows of q become instances, FOUND_ROWS() would answer with n.
WhileFetched(q, n) ==
    /\ q.trueTotal \in Nat \X Nat
    /\ ~q.disturbed => /\ q.foundRows \in {Absent, None}
                       /\ q.foundRows = None => n = q.trueTotal[1]

AtRest(q) ==
    ~q.disturbed /\ ~Empty(q) =>
                    /\ q.foundRows \in {Absent, q.trueTotal}
                    /\ q.resultCache = None => q.foundRows \in {Absent, None}

Numbered(v) ==
    /\ Marked(querySets[v])
    /\ v \in Range(fetching) =>
           WhileFetched(querySets[v], lastFound[querySets[v].db])
    /\ v \notin Range(fetching) => AtRest(querySets[v])

QueriesInv == QueriesTyped /\ Stacked /\ \A v \in Names : Numbered(v)


LEMMA QueryNumbers ==
    ASSUME QueriesTyped, NEW q \in Query
    PROVE  Total(q) \in Nat /\ Sliced(q) \in Nat
<1>1. table.size \in Nat /\ table.matching \in Nat /\ table.groups \in Nat
  BY QuerySetsAssumption DEF QueriesTyped
<1>2. q.limit \in Nat \cup {NoLimit}
  BY QuerySetsAssumption DEF Query
<1>3. Total(q) \in Nat
  BY <1>1 DEF Total, Matching, Smaller
<1> QED
  BY <1>2, <1>3 DEF Sliced, Smaller

LEMMA SelectIsSent ==
    ASSUME NEW q \in Query, Marked(q), q.foundRows # Absent
    PROVE  Found(q) = Total(q)
<1> DEFINE V == Hints \cup {FoundRowsMark, <<"keyword", "SELECT">>,
                            <<"hint", "DISTINCT">>, <<"sql", "columns">>,
                            <<"table", "t">>, <<"sql", "WHERE">>, <<"sql", "rest">>}
           before == <<<<"keyword", "SELECT">>>> \o Distinct(q)
                     \o <<<<"sql", "columns">>>> \o From
           rest == <<<<"sql", "rest">>>>
<1>1. Select(q) = before \o q.marks \o rest
  BY DEF Select
<1>2. /\ q.marks \in Seq(V) /\ FoundRowsMark \in Range(q.marks)
      /\ rest \in Seq(V)
  <2>1. Hints \cup {FoundRowsMark} \subseteq V /\ q.marks \in Seq(Hints \cup {FoundRowsMark})
    BY DEF Query
  <2>2. q.marks \in Seq(V)
    <3> HIDE DEF V
    <3> QED
      BY <2>1, SeqMonotonic
  <2> QED
    BY <2>2 DEF Marked
<1>3. before \in Seq(V) /\ Len(before) > 0 /\ before[1] = <<"keyword", "SELECT">>
  BY DEF Distinct, From
<1> HIDE DEF before, rest, V
<1> DEFINE first == before \o q.marks
<1>4. first \in Seq(V) /\ FoundRowsMark \in Range(first)
  BY <1>2, <1>3, ConcatRange
<1>5. Len(first) > 0 /\ first[1] = <<"keyword", "SELECT">>
  BY <1>2, <1>3
<1> HIDE DEF first
<1>6. first \o rest \in Seq(V) /\ FoundRowsMark \in Range(first \o rest)
  BY <1>2, <1>4, ConcatRange
<1>7. first \o rest # <<>> /\ (first \o rest)[1] = <<"keyword", "SELECT">>
  BY <1>2, <1>4, <1>5
<1>8. CalcsFoundRows(Rewrite(first \o rest))
  BY <1>6, <1>7, HintIsSent DEF FoundRowsMark
<1> QED
  BY <1>1, <1>8 DEF Found, first

-----------------------------------------------------------------------------

\* What a method that derives a query set makes.
Fresh(q) ==
    /\ q \in Query /\ Marked(q) /\ ~q.disturbed /\ q.trueTotal = None
    /\ q.foundRows \in {Absent, None}

LEMMA CloneIsFresh ==
    ASSUME NEW q \in Query, Marked(q)
    PROVE  Fresh(Clone(q))
<1> DEFINE n == IF q.foundRows = Absent THEN Absent ELSE None
           c == [q EXCEPT !.resultCache = None, !.trueTotal = None,
                          !.disturbed = FALSE, !.foundRows = n]
<1>1. Clone(q) = c
  BY DEF Clone, Query
<1>2. n \in {Absent, None} /\ (n # Absent => q.foundRows # Absent)
  OBVIOUS
<1> HIDE DEF n
<1>3. /\ c.marks = q.marks /\ c.foundRows = n
      /\ c.trueTotal = None /\ c.disturbed = FALSE
  BY DEF Query
<1>4. c \in Query
  BY <1>2 DEF Query
<1> HIDE DEF c
<1>5. Marked(c)
  BY <1>2, <1>3 DEF Marked
<1> QED
  BY <1>1, <1>2, <1>3, <1>4, <1>5 DEF Fresh

LEMMA DeriveKeeps ==
    ASSUME QueriesInv, NEW v \in Names, NEW q, Fresh(q), Derive(v, q)
    PROVE  QueriesInv'
<1>1. /\ v \notin Range(fetching)
      /\ UNCHANGED <<table, lastFound, fetching>>
      /\ querySets' = [querySets EXCEPT ![v] = q]
  BY DEF Derive, Calls
<1>2. /\ querySets'[v] = q /\ q \in Query
      /\ \A w \in Names \ {v} : querySets'[w] = querySets[w]
  BY <1>1 DEF QueriesInv, QueriesTyped, Fresh
<1>3. QueriesTyped'
  BY <1>1, <1>2 DEF QueriesInv, QueriesTyped
<1>4. \A i \in DOMAIN fetching : fetching[i] \in Names \ {v}
  BY <1>1 DEF QueriesInv, QueriesTyped, Range
<1>5. Stacked'
  BY <1>1, <1>2, <1>4 DEF QueriesInv, Stacked
<1>6. ASSUME NEW w \in Names PROVE Numbered(w)'
  <2>1. CASE w = v
    BY <1>1, <1>2, <2>1 DEF Fresh, Numbered, AtRest
  <2>2. CASE w # v
    <3>1. querySets'[w] = querySets[w] /\ Numbered(w)
      BY <1>2, <2>2 DEF QueriesInv
    <3> QED
      BY <1>1, <3>1 DEF Numbered
  <2> QED
    BY <2>1, <2>2
<1> QED
  BY <1>3, <1>5, <1>6 DEF QueriesInv

\* A statement on connection c disturbs those that are fetched there: what
\* FOUND_ROWS() answers on c does not matter to them.
LEMMA DisturbedKeeps ==
    ASSUME QueriesInv, NEW c,
           lastFound' \in [Connections -> Nat],
           \A d \in Connections \ {c} : lastFound'[d] = lastFound[d],
           NEW w \in Names, querySets'[w] = Disturbed(c)[w],
           w \in Range(fetching)' <=> w \in Range(fetching)
    PROVE  /\ Numbered(w)' /\ querySets'[w] \in Query
           /\ querySets'[w].db = querySets[w].db
           /\ querySets[w].disturbed => querySets'[w].disturbed
           /\ w \in Range(fetching) /\ querySets[w].db = c =>
                  querySets'[w].disturbed
<1> DEFINE q == querySets[w]
           b == w \in Range(fetching) /\ q.db = c
<1>1. q \in Query /\ Numbered(w)
  BY DEF QueriesInv, QueriesTyped
<1>2. querySets'[w] = [q EXCEPT !.disturbed = q.disturbed \/ b]
  BY DEF Disturbed
<1>3. b \in BOOLEAN
  OBVIOUS
<1>4. /\ querySets'[w] \in Query
      /\ querySets'[w].db = q.db /\ querySets'[w].marks = q.marks
      /\ querySets'[w].foundRows = q.foundRows
      /\ querySets'[w].resultCache = q.resultCache
      /\ querySets'[w].trueTotal = q.trueTotal
      /\ querySets'[w].disturbed = (q.disturbed \/ b)
      /\ querySets'[w].rows = q.rows /\ querySets'[w].limit = q.limit
  <2> HIDE DEF b
  <2> QED
    BY <1>1, <1>2, <1>3 DEF Query
<1> DEFINE r == querySets'[w]
<1> HIDE DEF r
<1>5. Marked(r)
  BY <1>1, <1>4 DEF Numbered, Marked, r
<1>6. w \in Range(fetching) => WhileFetched(r, lastFound'[r.db])
  <2> SUFFICES ASSUME w \in Range(fetching) PROVE WhileFetched(r, lastFound'[r.db])
    OBVIOUS
  <2>1. WhileFetched(q, lastFound[q.db])
    BY <1>1 DEF Numbered
  <2>2. q.db \in Connections
    BY <1>1 DEF Query
  <2>3. r.db = q.db /\ (~r.disturbed => ~q.disturbed /\ ~b)
    <3> HIDE DEF q, b
    <3> QED
      BY <1>4 DEF r
  <2>4. ~b => lastFound'[q.db] = lastFound[q.db]
    BY <2>2
  <2> QED
    BY <1>4, <2>1, <2>3, <2>4 DEF WhileFetched, r
<1>7. w \notin Range(fetching) => AtRest(r)
  BY <1>1, <1>4 DEF Numbered, AtRest, Empty, r
<1> QED
  BY <1>4, <1>5, <1>6, <1>7 DEF Numbered, r

LEMMA StackedKeeps ==
    ASSUME QueriesInv, UNCHANGED fetching,
           \A w \in Names : /\ querySets'[w].db = querySets[w].db
                            /\ querySets[w].disturbed => querySets'[w].disturbed
    PROVE  Stacked'
<1>1. \A i \in DOMAIN fetching : fetching[i] \in Names
  BY DEF QueriesInv, QueriesTyped
<1> QED
  BY <1>1 DEF QueriesInv, Stacked


LEMMA LastFoundKeepsType ==
    ASSUME QueriesInv, NEW c, NEW n \in Nat, lastFound' = [lastFound EXCEPT ![c] = n]
    PROVE  /\ lastFound' \in [Connections -> Nat]
           /\ \A d \in Connections \ {c} : lastFound'[d] = lastFound[d]
BY DEF QueriesInv, QueriesTyped

\* A statement of v that does not change v.
LEMMA StatementKeeps ==
    ASSUME QueriesInv, UNCHANGED <<table, fetching>>,
           NEW c, NEW n \in Nat, lastFound' = [lastFound EXCEPT ![c] = n],
           querySets' = Disturbed(c)
    PROVE  QueriesInv'
<1>1. /\ lastFound' \in [Connections -> Nat]
      /\ \A d \in Connections \ {c} : lastFound'[d] = lastFound[d]
  BY LastFoundKeepsType
<1>2. ASSUME NEW w \in Names
      PROVE  /\ Numbered(w)' /\ querySets'[w] \in Query
             /\ querySets'[w].db = querySets[w].db
             /\ querySets[w].disturbed => querySets'[w].disturbed
  BY <1>1, DisturbedKeeps
<1>3. Stacked'
  BY <1>2, StackedKeeps
<1>4. querySets' \in [Names -> Query]
  BY <1>2 DEF Disturbed
<1> QED
  BY <1>1, <1>2, <1>3, <1>4 DEF QueriesInv, QueriesTyped

LEMMA NothingKeeps ==
    ASSUME QueriesInv, table' \in Tables, UNCHANGED <<lastFound, querySets, fetching>>
    PROVE  QueriesInv'
BY DEF QueriesInv, QueriesTyped, Stacked, Numbered

LEMMA EvaluateKeeps ==
    ASSUME QueriesInv, NEW v \in Names, Evaluate(v)
    PROVE  QueriesInv'
<1> DEFINE q == querySets[v]
<1>1. q \in Query /\ Numbered(v) /\ q.resultCache = None /\ ~Empty(q)
  BY DEF Evaluate, QueriesInv, QueriesTyped
<1>2. v \notin Range(fetching) /\ fetching' = Append(fetching, v) /\ table' = table
      /\ fetching \in Seq(Names)
  BY DEF Evaluate, Calls, QueriesInv, QueriesTyped
<1>3. Total(q) \in Nat /\ Sliced(q) \in Nat /\ Found(q) \in Nat
  BY <1>1, QueryNumbers DEF QueriesInv, Found
<1>4. lastFound' = [lastFound EXCEPT ![q.db] = Found(q)]
  BY DEF Evaluate
<1>5. /\ lastFound' \in [Connections -> Nat]
      /\ \A d \in Connections \ {q.db} : lastFound'[d] = lastFound[d]
  BY <1>3, <1>4, LastFoundKeepsType
<1>6. querySets' = [Disturbed(q.db) EXCEPT
                        ![v] = [@ EXCEPT !.trueTotal = <<Total(q), Sliced(q)>>]]
  BY DEF Evaluate
<1>7. \A w \in Names \ {v} : querySets'[w] = Disturbed(q.db)[w]
  BY <1>6 DEF Disturbed
<1>8. /\ querySets'[v] \in Query
      /\ querySets'[v].db = q.db /\ querySets'[v].marks = q.marks
      /\ querySets'[v].foundRows = q.foundRows
      /\ querySets'[v].trueTotal = <<Total(q), Sliced(q)>>
      /\ querySets'[v].disturbed = q.disturbed
  <2> DEFINE t == <<Total(q), Sliced(q)>>
  <2>1. querySets'[v] = [q EXCEPT !.disturbed = q.disturbed \/ FALSE,
                                  !.trueTotal = t]
    BY <1>2, <1>6 DEF Disturbed
  <2>2. (q.disturbed \/ FALSE) = q.disturbed
    BY <1>1 DEF Query
  <2>3. t \in Nat \X Nat
    BY <1>3
  <2> HIDE DEF q, t
  <2>4. querySets'[v] = [q EXCEPT !.trueTotal = t]
    BY <1>1, <2>1, <2>2 DEF Query
  <2>5. querySets'[v] \in Query
    BY <1>1, <2>3, <2>4 DEF Query
  <2>6. /\ querySets'[v].db = q.db /\ querySets'[v].marks = q.marks
        /\ querySets'[v].foundRows = q.foundRows
        /\ querySets'[v].trueTotal = t
        /\ querySets'[v].disturbed = q.disturbed
    BY <1>1, <2>4 DEF Query
  <2> QED
    BY <2>5, <2>6 DEF t
<1>9. Range(fetching') = Range(fetching) \cup {v}
  BY <1>2, AppendRange
<1>10. Numbered(v)'
  <2> DEFINE r == querySets'[v]
  <2>1. q.foundRows = None => lastFound'[q.db] = Total(q)
    <3>1. q.foundRows = None => Found(q) = Total(q)
      BY <1>1, SelectIsSent, QuerySetsAssumption DEF Numbered
    <3>2. q.db \in Connections /\ lastFound \in [Connections -> Nat]
      BY <1>1 DEF Query, QueriesInv, QueriesTyped
    <3> QED
      BY <1>4, <3>1, <3>2
  <2>2. ~q.disturbed => q.foundRows \in {Absent, None}
    BY <1>1, <1>2 DEF Numbered, AtRest
  <2>3. Marked(r)
    BY <1>1, <1>8 DEF Numbered, Marked
  <2>4. WhileFetched(r, lastFound'[r.db])
    <3> HIDE DEF q, r
    <3> QED
      BY <1>3, <1>8, <2>1, <2>2 DEF WhileFetched, r
  <2> QED
    BY <1>9, <2>3, <2>4 DEF Numbered
<1>11. ASSUME NEW w \in Names \ {v}
       PROVE  /\ Numbered(w)' /\ querySets'[w] \in Query
              /\ querySets'[w].db = querySets[w].db
              /\ querySets[w].disturbed => querySets'[w].disturbed
              /\ w \in Range(fetching) /\ querySets[w].db = q.db => querySets'[w].disturbed
  BY <1>5, <1>7, <1>9, DisturbedKeeps
<1>12. Stacked'
  <2>1. DOMAIN fetching' = 1..Len(fetching) + 1 /\ Len(fetching) \in Nat
        /\ DOMAIN fetching = 1..Len(fetching)
        /\ fetching'[Len(fetching) + 1] = v
        /\ \A i \in 1..Len(fetching) : fetching'[i] = fetching[i]
    BY <1>2
  <2>2. \A i \in 1..Len(fetching) :
            fetching[i] \in Range(fetching) /\ fetching[i] \in Names \ {v}
    BY <1>2, <2>1 DEF Range
  <2>3. ASSUME NEW i \in DOMAIN fetching', NEW j \in DOMAIN fetching', i < j
        PROVE  /\ fetching'[i] # fetching'[j]
               /\ querySets'[fetching'[i]].db = querySets'[fetching'[j]].db =>
                    querySets'[fetching'[i]].disturbed
    <3>1. i \in 1..Len(fetching)
      BY <2>1, <2>3
    <3>2. CASE j \in 1..Len(fetching)
      <4>1. /\ fetching[i] # fetching[j]
            /\ querySets[fetching[i]].db = querySets[fetching[j]].db =>
                   querySets[fetching[i]].disturbed
        BY <2>1, <2>3, <3>1, <3>2 DEF QueriesInv, Stacked
      <4> QED
        BY <1>11, <2>1, <2>2, <3>1, <3>2, <4>1
    <3>3. CASE j = Len(fetching) + 1
      BY <1>8, <1>11, <2>1, <2>2, <3>1, <3>3
    <3> QED
      BY <2>1, <3>2, <3>3
  <2> QED
    BY <2>3 DEF Stacked
<1>13. querySets' \in [Names -> Query]
  <2>1. \A w \in Names : querySets'[w] \in Query
    BY <1>8, <1>11
  <2> QED
    BY <1>6, <2>1 DEF Disturbed
<1>14. table' \in Tables /\ fetching' \in Seq(Names)
  BY <1>2 DEF QueriesInv, QueriesTyped
<1>15. \A w \in Names : Numbered(w)'
  BY <1>10, <1>11
<1> QED
  BY <1>5, <1>12, <1>13, <1>14, <1>15 DEF QueriesInv, QueriesTyped

\* Setting _result_cache of v outside of a fetch.
LEMMA FetchedKeeps ==
    ASSUME QueriesInv, Fetched
    PROVE  QueriesInv'
<1> DEFINE v == Last(fetching)
           q == querySets[v]
           N == Len(fetching)
<1>1. /\ N \in Nat /\ N > 0 /\ v = fetching[N] /\ v \in Names
      /\ fetching \in Seq(Names) /\ DOMAIN fetching = 1..N
  BY DEF Fetched, QueriesInv, QueriesTyped, Last
<1>2. /\ fetching' = SubSeq(fetching, 1, N - 1) /\ table' = table
      /\ querySets' = [querySets EXCEPT
                    ![v] = [WithResultCache(q, q.trueTotal[2]) EXCEPT
                                !.trueTotal = @[1]]]
      /\ lastFound' = LastFoundAfterSet(q)
  BY DEF Fetched, Front
<1>3. /\ fetching' \in Seq(Names) /\ Len(fetching') = N - 1
      /\ DOMAIN fetching' = 1..N - 1
      /\ \A i \in 1..N - 1 : fetching'[i] = fetching[i]
  BY <1>1, <1>2
<1>4. \A i \in 1..N - 1 : /\ fetching[i] # v
                          /\ querySets[fetching[i]].db = q.db =>
                                 querySets[fetching[i]].disturbed
  BY <1>1 DEF QueriesInv, Stacked
<1>5. v \in Range(fetching) /\ v \notin Range(fetching')
      /\ \A w : w # v => (w \in Range(fetching') <=> w \in Range(fetching))
  BY <1>1, <1>3, <1>4 DEF Range
<1>6. q \in Query /\ Marked(q) /\ WhileFetched(q, lastFound[q.db])
      /\ q.db \in Connections /\ lastFound \in [Connections -> Nat]
  BY <1>1, <1>5 DEF QueriesInv, QueriesTyped, Numbered, Query
<1>7. PICK a \in Nat, b \in Nat : q.trueTotal = <<a, b>>
  BY <1>6 DEF WhileFetched
<1>8. /\ lastFound' \in [Connections -> Nat]
      /\ \A d \in Connections \ {q.db} : lastFound'[d] = lastFound[d]
  BY <1>2, <1>6 DEF LastFoundAfterSet
<1> DEFINE n == IF q.foundRows = None THEN lastFound[q.db] ELSE q.foundRows
<1>9. querySets'[v] = [q EXCEPT !.resultCache = b, !.foundRows = n, !.trueTotal = a]
  <2>1. querySets'[v] = [WithResultCache(q, b) EXCEPT !.trueTotal = <<a, b>>[1]]
    <3>1. WithResultCache(q, b).trueTotal = q.trueTotal
      BY <1>6 DEF WithResultCache, Query
    <3> QED
      BY <1>1, <1>2, <1>7, <3>1 DEF QueriesInv, QueriesTyped
  <2> QED
    BY <2>1 DEF WithResultCache, AsksFoundRows
<1>10. n \in Nat \cup {Absent, None} /\ n # None
       /\ (n = Absent <=> q.foundRows = Absent)
  BY <1>6, QuerySetsAssumption DEF Query
<1> DEFINE r == querySets'[v]
<1>11. /\ r \in Query /\ r.db = q.db /\ r.marks = q.marks /\ r.foundRows = n
       /\ r.trueTotal = a /\ r.resultCache = b /\ r.disturbed = q.disturbed
  <2> HIDE DEF n, q, v
  <2> QED
    BY <1>6, <1>9, <1>10 DEF Query
<1>12. \A w \in Names \ {v} : querySets'[w] = querySets[w]
  BY <1>2
<1>13. ASSUME NEW w \in Names PROVE Numbered(w)'
  <2>1. CASE w = v
    <3>1. Marked(r)
      BY <1>6, <1>10, <1>11 DEF Marked
    <3>2. AtRest(r)
      <4>1. b # None
        BY QuerySetsAssumption
      <4>2. ~q.disturbed => n = Absent \/ n = a
        <5>1. ~q.disturbed /\ q.foundRows = None => lastFound[q.db] = a
          BY <1>6, <1>7 DEF WhileFetched
        <5> QED
          BY <1>6, <5>1 DEF WhileFetched
      <4> HIDE DEF r, n, q
      <4> QED
        BY <1>11, <4>1, <4>2 DEF AtRest
    <3> QED
      BY <1>5, <2>1, <3>1, <3>2 DEF Numbered
  <2>2. CASE w # v
    <3>1. querySets'[w] = querySets[w] /\ Numbered(w)
      BY <1>12, <2>2 DEF QueriesInv
    <3>2. w \in Range(fetching) => WhileFetched(querySets[w], lastFound'[querySets[w].db])
      <4> SUFFICES ASSUME w \in Range(fetching)
                   PROVE  WhileFetched(querySets[w], lastFound'[querySets[w].db])
        OBVIOUS
      <4>1. WhileFetched(querySets[w], lastFound[querySets[w].db])
        BY <3>1 DEF Numbered
      <4>2. CASE querySets[w].db = q.db
        <5>1. PICK i \in 1..N - 1 : fetching[i] = w
          BY <1>3, <1>5, <2>2 DEF Range
        <5>2. querySets[w].disturbed
          BY <1>4, <4>2, <5>1
        <5> QED
          BY <4>1, <5>2 DEF WhileFetched
      <4>3. CASE querySets[w].db # q.db
        <5>1. querySets[w].db \in Connections
          BY DEF QueriesInv, QueriesTyped, Query
        <5> QED
          BY <1>8, <4>1, <4>3, <5>1
      <4> QED
        BY <4>2, <4>3
    <3> QED
      BY <1>5, <2>2, <3>1, <3>2 DEF Numbered
  <2> QED
    BY <2>1, <2>2
<1>14. Stacked'
  <2>1. ASSUME NEW i \in 1..N - 1, NEW j \in 1..N - 1, i < j
        PROVE  /\ fetching[i] # fetching[j]
               /\ querySets'[fetching[i]].db = querySets'[fetching[j]].db =>
                    querySets'[fetching[i]].disturbed
    <3>1. fetching[i] \in Names \ {v} /\ fetching[j] \in Names \ {v}
      BY <1>1, <1>4
    <3>2. /\ fetching[i] # fetching[j]
          /\ querySets[fetching[i]].db = querySets[fetching[j]].db =>
                 querySets[fetching[i]].disturbed
      BY <1>1, <2>1 DEF QueriesInv, Stacked
    <3> QED
      BY <1>12, <3>1, <3>2
  <2> QED
    BY <1>3, <2>1 DEF Stacked
<1>15. querySets' \in [Names -> Query]
  BY <1>2, <1>11, <1>12 DEF QueriesInv, QueriesTyped
<1> QED
  BY <1>2, <1>3, <1>8, <1>13, <1>14, <1>15 DEF QueriesInv, QueriesTyped


\* The result cache of v is set, outside of a fetch, and v becomes r: whose
\* number is not claimed to be right.
Becomes(v, r) ==
    /\ v \notin Range(fetching) /\ UNCHANGED <<table, fetching>>
    /\ r \in Query /\ Marked(r) /\ r.db = querySets[v].db
    /\ querySets[v].disturbed => r.disturbed
    /\ r.disturbed \/ Empty(r)
    /\ \/ /\ querySets' = [Disturbed(querySets[v].db) EXCEPT ![v] = r]
          /\ lastFound' = LastFoundAfterSet(querySets[v])
       \/ querySets' = [querySets EXCEPT ![v] = r] /\ UNCHANGED lastFound

LEMMA SetKeeps ==
    ASSUME QueriesInv, NEW v \in Names, NEW r, Becomes(v, r)
    PROVE  QueriesInv'
<1> DEFINE q == querySets[v]
<1>1. /\ q.db \in Connections
      /\ lastFound \in [Connections -> Nat] /\ querySets \in [Names -> Query]
  BY DEF QueriesInv, QueriesTyped, Query
<1>2. /\ v \notin Range(fetching) /\ UNCHANGED <<table, fetching>>
      /\ r \in Query /\ Marked(r) /\ r.db = q.db
      /\ q.disturbed => r.disturbed
      /\ AtRest(r)
  BY DEF Becomes, AtRest
<1>3. /\ lastFound' \in [Connections -> Nat]
      /\ \A d \in Connections \ {q.db} : lastFound'[d] = lastFound[d]
  BY <1>1 DEF Becomes, LastFoundAfterSet
<1>4. querySets'[v] = r
  BY <1>1 DEF Becomes, Disturbed
<1>5. ASSUME NEW w \in Names
      PROVE  /\ Numbered(w)' /\ querySets'[w] \in Query
             /\ querySets'[w].db = querySets[w].db
             /\ querySets[w].disturbed => querySets'[w].disturbed
  <2>1. CASE w = v
    BY <1>2, <1>4, <2>1 DEF Numbered
  <2>2. CASE w # v /\ querySets' = [Disturbed(q.db) EXCEPT ![v] = r]
    <3>1. querySets'[w] = Disturbed(q.db)[w]
      BY <2>2 DEF Disturbed
    <3> QED
      BY <1>2, <1>3, <3>1, DisturbedKeeps
  <2>3. CASE w # v /\ querySets' = [querySets EXCEPT ![v] = r] /\ lastFound' = lastFound
    <3>1. querySets'[w] = querySets[w] /\ Numbered(w) /\ querySets[w] \in Query
      BY <1>1, <2>3 DEF QueriesInv
    <3> QED
      BY <1>2, <2>3, <3>1 DEF Numbered
  <2> QED
    BY <2>1, <2>2, <2>3 DEF Becomes
<1>6. Stacked'
  BY <1>2, <1>5, StackedKeeps
<1>7. querySets' \in [Names -> Query]
  <2>1. \A w \in Names : querySets'[w] \in Query
    BY <1>5
  <2>2. querySets' = [w \in Names |-> querySets'[w]]
    BY <1>1 DEF Becomes, Disturbed
  <2> QED
    BY <2>1, <2>2
<1> QED
  BY <1>2, <1>3, <1>5, <1>6, <1>7 DEF QueriesInv, QueriesTyped

\* A query set with the result cache x, the total t and the mark d.
SetTo(q, x, t, d) ==
    [WithResultCache(q, x) EXCEPT !.trueTotal = t, !.disturbed = d]

LEMMA WhenSet ==
    ASSUME QueriesInv, NEW v \in Names, NEW x \in Nat \cup {None},
           NEW t \in Nat \cup {None} \cup (Nat \X Nat), NEW d \in BOOLEAN
    PROVE  LET q == querySets[v]
               r == SetTo(q, x, t, d)
           IN  /\ r \in Query /\ Marked(r) /\ r.db = q.db
               /\ r.disturbed = d /\ r.rows = q.rows /\ r.limit = q.limit
<1> DEFINE q == querySets[v]
           n == IF q.foundRows = None THEN lastFound[q.db] ELSE q.foundRows
           r == SetTo(q, x, t, d)
<1>1. /\ q \in Query /\ Marked(q) /\ q.db \in Connections
      /\ lastFound \in [Connections -> Nat]
  BY DEF QueriesInv, QueriesTyped, Numbered, Query
<1>2. r = [q EXCEPT !.resultCache = x, !.foundRows = n, !.trueTotal = t,
                    !.disturbed = d]
  BY DEF SetTo, WithResultCache, AsksFoundRows
<1>3. n \in Nat \cup {Absent, None} /\ (n # Absent => q.foundRows # Absent)
  BY <1>1, QuerySetsAssumption DEF Query
<1> HIDE DEF n, q, r
<1>4. /\ r \in Query /\ r.db = q.db /\ r.marks = q.marks /\ r.foundRows = n
      /\ r.disturbed = d /\ r.rows = q.rows /\ r.limit = q.limit
  BY <1>1, <1>2, <1>3 DEF Query
<1>5. Marked(r)
  BY <1>1, <1>3, <1>4 DEF Marked
<1> QED
  BY <1>4, <1>5 DEF q, r

LEMMA UpdateRowsKeeps ==
    ASSUME QueriesInv, NEW v \in Names, UpdateRows(v)
    PROVE  QueriesInv'
<1> DEFINE q == querySets[v]
           r == SetTo(q, None, q.trueTotal, TRUE)
<1>1. q \in Query /\ q.trueTotal \in Nat \cup {None} \cup (Nat \X Nat)
  BY DEF QueriesInv, QueriesTyped, Query
<1>2. [WithResultCache(q, None) EXCEPT !.disturbed = TRUE] = r
  BY <1>1 DEF SetTo, WithResultCache, Query
<1>3. r \in Query /\ Marked(r) /\ r.db = q.db /\ r.disturbed
  BY <1>1, WhenSet
<1>4. /\ v \notin Range(fetching) /\ UNCHANGED <<table, fetching>>
      /\ querySets' = [IF Empty(q) THEN AfterAsking(q) ELSE Disturbed(q.db)
                          EXCEPT ![v] = r]
      /\ lastFound' = LastFoundAfterSet(q)
  BY <1>2 DEF UpdateRows, Calls
<1>5. \/ querySets' = [Disturbed(q.db) EXCEPT ![v] = r]
      \/ querySets' = [querySets EXCEPT ![v] = r] /\ lastFound' = lastFound
  BY <1>4 DEF AfterAsking, LastFoundAfterSet
<1>6. Becomes(v, r)
  BY <1>3, <1>4, <1>5 DEF Becomes
<1> QED
  BY <1>6, SetKeeps

LEMMA EvaluateEmptyKeeps ==
    ASSUME QueriesInv, NEW v \in Names, EvaluateEmpty(v)
    PROVE  QueriesInv'
<1> DEFINE q == querySets[v]
           r == SetTo(q, 0, Total(q), q.disturbed)
<1>1. q \in Query /\ q.disturbed \in BOOLEAN /\ Total(q) \in Nat /\ Empty(q)
  BY QueryNumbers DEF EvaluateEmpty, QueriesInv, QueriesTyped, Query
<1>2. [WithResultCache(q, 0) EXCEPT !.trueTotal = Total(q)] = r
  BY <1>1 DEF SetTo, WithResultCache, Query
<1>3. /\ r \in Query /\ Marked(r) /\ r.db = q.db /\ r.disturbed = q.disturbed
      /\ r.rows = q.rows /\ r.limit = q.limit
  <2>1. PICK t, d : t = Total(q) /\ d = q.disturbed
    OBVIOUS
  <2>2. t \in Nat \cup {None} \cup (Nat \X Nat) /\ d \in BOOLEAN
        /\ 0 \in Nat \cup {None}
    BY <1>1, <2>1
  <2>3. LET s == SetTo(q, 0, t, d)
        IN  /\ s \in Query /\ Marked(s) /\ s.db = q.db
            /\ s.disturbed = d /\ s.rows = q.rows /\ s.limit = q.limit
    BY <2>2, WhenSet
  <2> QED
    BY <2>1, <2>3
<1>4. Empty(r)
  BY <1>1, <1>3 DEF Empty
<1>5. /\ v \notin Range(fetching) /\ UNCHANGED <<table, fetching>>
      /\ querySets' = [AfterAsking(q) EXCEPT ![v] = r]
      /\ lastFound' = LastFoundAfterSet(q)
  BY <1>2 DEF EvaluateEmpty, Calls
<1>6. \/ querySets' = [Disturbed(q.db) EXCEPT ![v] = r]
      \/ querySets' = [querySets EXCEPT ![v] = r] /\ lastFound' = lastFound
  BY <1>5 DEF AfterAsking, LastFoundAfterSet
<1>7. Becomes(v, r)
  BY <1>3, <1>4, <1>5, <1>6 DEF Becomes
<1> QED
  BY <1>7, SetKeeps

LEMMA CountKeeps ==
    ASSUME QueriesInv, NEW v \in Names, NEW o, CountWith(v, o)
    PROVE  QueriesInv'
<1>1. UNCHANGED <<table, fetching>>
      /\ \/ UNCHANGED <<lastFound, querySets>>
         \/ /\ lastFound' = [lastFound EXCEPT ![querySets[v].db] = 1]
            /\ querySets' = Disturbed(querySets[v].db)
  BY DEF CountWith
<1> QED
  BY <1>1, StatementKeeps, NothingKeeps DEF QueriesInv, QueriesTyped

LEMMA IteratorKeeps ==
    ASSUME QueriesInv, NEW v \in Names, Iterator(v)
    PROVE  QueriesInv'
<1>1. querySets[v] \in Query
  BY DEF QueriesInv, QueriesTyped
<1>2. Found(querySets[v]) \in Nat
  BY <1>1, QueryNumbers DEF QueriesInv, Found
<1>3. UNCHANGED <<table, fetching>>
      /\ \/ UNCHANGED <<lastFound, querySets>>
         \/ /\ lastFound' = [lastFound EXCEPT ![querySets[v].db] = Found(querySets[v])]
            /\ querySets' = Disturbed(querySets[v].db)
  BY DEF Iterator
<1> QED
  BY <1>2, <1>3, StatementKeeps, NothingKeeps DEF QueriesInv, QueriesTyped

\* What the methods that derive a query set put in v.
LEMMA Derivations ==
    ASSUME QueriesInv, NEW v \in Names,
           \/ Filter(v) \/ ChooseNone(v) \/ Group(v) \/ SqlCalcFoundRows(v)
           \/ \E w \in Names \ {v} : CopyTo(w, v)
           \/ \E n \in Limits : Slice(v, n)
           \/ \E h \in Hints : Hint(v, h)
           \/ \E o \in Tries \cup {None} : CountTriesApprox(v, o)
    PROVE  QueriesInv'
<1> DEFINE q == querySets[v]
           k == Clone(q)
<1>1. q \in Query /\ Marked(q)
  BY DEF QueriesInv, QueriesTyped, Numbered
<1>2. Fresh(k)
  BY <1>1, CloneIsFresh
<1>3. CASE Filter(v)
  <2>1. Fresh([k EXCEPT !.rows = IF @ = "none" THEN "none" ELSE "some"])
    <3> HIDE DEF k
    <3> QED
      BY <1>2 DEF Fresh, Query, Marked
  <2> QED
    BY <1>3, <2>1, DeriveKeeps DEF Filter
<1>4. CASE Group(v)
  <2>1. Fresh([k EXCEPT !.grouped = TRUE])
    <3> HIDE DEF k
    <3> QED
      BY <1>2 DEF Fresh, Query, Marked
  <2> QED
    BY <1>4, <2>1, DeriveKeeps DEF Group
<1>5. ASSUME NEW x \in Hints \cup {FoundRowsMark}
      PROVE  /\ Append(k.marks, x) \in Seq(Hints \cup {FoundRowsMark})
             /\ Range(Append(k.marks, x)) = Range(k.marks) \cup {x}
  <2>1. k.marks \in Seq(Hints \cup {FoundRowsMark})
    BY <1>2 DEF Fresh, Query
  <2> HIDE DEF k
  <2> QED
    BY <2>1, AppendRange
<1>6. CASE SqlCalcFoundRows(v)
  <2> DEFINE r == [k EXCEPT !.marks = Append(@, FoundRowsMark), !.foundRows = None]
  <2>1. Fresh(r)
    <3> HIDE DEF k
    <3>1. r \in Query /\ r.marks = Append(k.marks, FoundRowsMark) /\ ~r.disturbed
          /\ r.trueTotal = None /\ r.foundRows = None
      BY <1>2, <1>5 DEF Fresh, Query
    <3> QED
      BY <1>5, <3>1 DEF Fresh, Marked
  <2>2. Derive(v, r)
    BY <1>6 DEF SqlCalcFoundRows, FoundRowsMark
  <2> QED
    BY <2>1, <2>2, DeriveKeeps
<1>7. CASE \E w \in Names \ {v} : CopyTo(w, v)
  BY <1>2, <1>7, DeriveKeeps DEF CopyTo
<1>8. CASE \E n \in Limits : Slice(v, n)
  <2> PICK n \in Limits : Slice(v, n)
    BY <1>8
  <2>1. Fresh([k EXCEPT !.limit = n])
    <3> HIDE DEF k
    <3> QED
      BY <1>2 DEF Fresh, Query, Marked
  <2> QED
    BY <2>1, DeriveKeeps DEF Slice
<1>9. CASE \E h \in Hints : Hint(v, h)
  <2> PICK h \in Hints : Hint(v, h)
    BY <1>9
  <2> DEFINE r == [k EXCEPT !.marks = Append(@, h)]
  <2>1. Fresh(r)
    <3> HIDE DEF k
    <3>1. r \in Query /\ r.marks = Append(k.marks, h) /\ ~r.disturbed
          /\ r.trueTotal = None /\ r.foundRows = k.foundRows
      BY <1>2, <1>5 DEF Fresh, Query
    <3> QED
      BY <1>2, <1>5, <3>1 DEF Fresh, Marked
  <2> QED
    BY <2>1, DeriveKeeps DEF Hint
<1>10. CASE \E o \in Tries \cup {None} : CountTriesApprox(v, o)
  <2> PICK o \in Tries \cup {None} : CountTriesApprox(v, o)
    BY <1>10
  <2>1. Fresh([k EXCEPT !.tries = o])
    <3> HIDE DEF k
    <3> QED
      BY <1>2 DEF Fresh, Query, Marked
  <2> QED
    BY <2>1, DeriveKeeps DEF CountTriesApprox
<1>11. CASE ChooseNone(v)
  <2>1. Fresh([k EXCEPT !.rows = "none"])
    <3> HIDE DEF k
    <3> QED
      BY <1>2 DEF Fresh, Query, Marked
  <2> QED
    BY <1>11, <2>1, DeriveKeeps DEF ChooseNone
<1> QED
  BY <1>3, <1>4, <1>6, <1>7, <1>8, <1>9, <1>10, <1>11

LEMMA QueriesStart == QuerySetsInit => QueriesInv
<1> SUFFICES ASSUME QuerySetsInit PROVE QueriesInv
  OBVIOUS
<1>1. \A v \in Names : \E c \in Connections : querySets[v] = All(c)
  BY DEF QuerySetsInit
<1>2. ASSUME NEW c \in Connections
      PROVE  All(c) \in Query /\ Marked(All(c)) /\ AtRest(All(c))
  BY DEF All, Query, Marked, AtRest
<1>3. querySets \in [Names -> Query]
  <2>1. \A v \in Names : querySets[v] \in Query
    BY <1>1, <1>2
  <2>2. querySets = [v \in Names |-> querySets[v]]
    BY DEF QuerySetsInit
  <2> QED
    BY <2>1, <2>2
<1>4. \A v \in Names : Marked(querySets[v]) /\ AtRest(querySets[v])
  BY <1>1, <1>2
<1>5. fetching = <<>> /\ Range(fetching) = {}
  BY DEF QuerySetsInit, Range
<1> QED
  BY <1>3, <1>4, <1>5
     DEF QuerySetsInit, QueriesInv, QueriesTyped, Stacked, Numbered

LEMMA QueriesStep == QueriesInv /\ [QuerySetsNext]_queryVars => QueriesInv'
<1> SUFFICES ASSUME QueriesInv, [QuerySetsNext]_queryVars PROVE QueriesInv'
  OBVIOUS
<1>1. ASSUME NEW v \in Names,
             \/ Filter(v) \/ ChooseNone(v) \/ Group(v) \/ SqlCalcFoundRows(v)
             \/ \E w \in Names \ {v} : CopyTo(w, v)
             \/ \E n \in Limits : Slice(v, n)
             \/ \E h \in Hints : Hint(v, h)
             \/ \E o \in Tries \cup {None} : CountTriesApprox(v, o)
             \/ \E o \in Tries : CountWith(v, o)
             \/ Evaluate(v) \/ EvaluateEmpty(v) \/ UpdateRows(v)
             \/ FoundRows(v) \/ Iterator(v) \/ Count(v)
      PROVE  QueriesInv'
  <2>1. CASE FoundRows(v)
    BY <2>1, NothingKeeps DEF FoundRows, QueriesInv, QueriesTyped
  <2>2. CASE Count(v) \/ \E o \in Tries : CountWith(v, o)
    BY <2>2, CountKeeps DEF Count
  <2>3. CASE Evaluate(v)
    BY <2>3, EvaluateKeeps
  <2>4. CASE UpdateRows(v)
    BY <2>4, UpdateRowsKeeps
  <2>5. CASE Iterator(v)
    BY <2>5, IteratorKeeps
  <2>6. CASE EvaluateEmpty(v)
    BY <2>6, EvaluateEmptyKeeps
  <2> QED
    BY <1>1, <2>1, <2>2, <2>3, <2>4, <2>5, <2>6, Derivations
<1>2. CASE Fetched
  BY <1>2, FetchedKeeps
<1>3. CASE TableChanges
  BY <1>3, NothingKeeps DEF TableChanges
<1>4. CASE UNCHANGED queryVars
  BY <1>4, NothingKeeps DEF queryVars, QueriesInv, QueriesTyped
<1> QED
  BY <1>1, <1>2, <1>3, <1>4 DEF QuerySetsNext

\* found_rows of an evaluated query set that is not empty, and that nothing
\* disturbed, is the number of rows that its evaluation would have had without
\* its slice.
THEOREM FoundRowsAreRight == QuerySetsSpec => []FoundRowsRight
<1>1. QueriesInv => FoundRowsRight
  BY DEF QueriesInv, Numbered, AtRest, FoundRowsRight
<1> QED
  BY <1>1, QueriesStart, QueriesStep, PTL DEF QuerySetsSpec

\* With a right estimate every count is right: only the rows of a whole table
\* are approximated.
THEOREM ApproximationsOfTables == QuerySetsSpec => OnlyTablesApproximated
<1>1. ASSUME NEW v \in Names, NEW o, table.tableRows = table.size,
             said'.call = "count", CountWith(v, o)
      PROVE  said'.answer \in {ValueError, Sliced(querySets[v]),
                               querySets[v].resultCache}
  <2> DEFINE q == querySets[v]
  <2>1. CASE IsApprox(q, o)
    <3>1. Sliced(q) = table.size
      BY <2>1 DEF IsApprox, CanApproxCount, Sliced, Total, Matching
    <3> QED
      BY <1>1, <2>1, <3>1 DEF CountWith
  <2>2. CASE ~IsApprox(q, o)
    BY <1>1, <2>2 DEF CountWith
  <2> QED
    BY <2>1, <2>2
<1>2. [QuerySetsNext]_queryVars =>
          [\A v \in Names, o \in Tries \cup {None} :
              table.tableRows = table.size /\ said'.call = "count" /\ CountWith(v, o) =>
                  said'.answer \in {ValueError, Sliced(querySets[v]),
                                    querySets[v].resultCache}]_queryVars
  BY <1>1
<1> QED
  BY <1>2, PTL DEF QuerySetsSpec, OnlyTablesApproximated

-----------------------------------------------------------------------------
(* The statements of query sets *)

\* A statement with marks behind its head, of which none is in the others.
Headed(V, k, h, a, m, b) ==
    /\ k \in V /\ h \in Seq(V) /\ a \in Seq(V) /\ m \in Seq(V) /\ b \in Seq(V)
    /\ k[1] = "keyword" /\ InGrammar(h) /\ (k[2] # "SELECT" => h = <<>>)
    /\ \A x \in Range(a) \cup Range(b) : Other(x)
    /\ \A x \in Range(m) : x[1] = "mark"
Statement(k, h, a, m, b) == (<<k>> \o (h \o a)) \o (m \o b)

Regrouped(V, p, h, a, b) == (p \o (h \o a)) \o b = p \o (h \o (a \o b))

LEMMA Reassociated ==
    ASSUME NEW V, NEW p \in Seq(V), NEW h \in Seq(V), NEW a \in Seq(V), NEW b \in Seq(V)
    PROVE  Regrouped(V, p, h, a, b)
<1> DEFINE ha == h \o a
           ab == a \o b
<1>1. ha \in Seq(V) /\ ab \in Seq(V)
  BY ConcatProperties
<1>2. ha \o b = h \o ab
  BY ConcatAssociative, SMTT(60)
<1> HIDE DEF ha
<1>3. (p \o ha) \o b = p \o (ha \o b)
  BY <1>1, ConcatAssociative, SMTT(60)
<1> QED
  BY <1>2, <1>3 DEF ha, Regrouped

PartsIn(V) ==
    \A p, h, r \in Seq(V) :
        /\ p \o (h \o r) \in Seq(V)
        /\ Len(p \o (h \o r)) = Len(p) + Len(h) + Len(r)
        /\ \A i \in 1..Len(p) : (p \o (h \o r))[i] = p[i]
LEMMA AllParts == ASSUME NEW V PROVE PartsIn(V)
BY Parts DEF PartsIn

LEMMA StatementParses ==
    ASSUME NEW V, NEW k, NEW h, NEW a, NEW m, NEW b, Headed(V, k, h, a, m, b)
    PROVE  /\ Statement(k, h, a, m, b) \in Seq(V)
           /\ Parses(V, Statement(k, h, a, m, b), <<k>>, h, a \o b)
<1> DEFINE p == <<k>>
           head == p \o (h \o a)
           sql == head \o (m \o b)
           S == NotOf({"mark"}, V)
           r == a \o b
<1>1. /\ p \in Seq(V) /\ h \in Seq(V) /\ a \in Seq(V) /\ m \in Seq(V) /\ b \in Seq(V)
      /\ Len(p) = 1 /\ p[1] = k /\ p # <<>>
  BY DEF Headed
<1>2. k[1] = "keyword" /\ InGrammar(h) /\ (k[2] # "SELECT" => h = <<>>)
  BY DEF Headed
<1> HIDE DEF p
<1>3. head \in Seq(V) /\ Len(head) = Len(p) + Len(h) + Len(a) /\ head[1] = k
  <2>1. Len(h) \in Nat /\ Len(a) \in Nat /\ 1 \in 1..Len(p)
    BY <1>1, LenProperties
  <2>2. PartsIn(V)
    BY AllParts
  <2>3. head \in Seq(V) /\ Len(head) = Len(p) + Len(h) + Len(a) /\ head[1] = p[1]
    <3>1. p \in Seq(V) /\ h \in Seq(V) /\ a \in Seq(V)
      BY <1>1
    <3>2. /\ head \in Seq(V) /\ Len(head) = Len(p) + Len(h) + Len(a)
          /\ \A i \in 1..Len(p) : head[i] = p[i]
      BY <2>2, <3>1, Zenon DEF PartsIn
    <3> QED
      BY <2>1, <3>2
  <2> QED
    BY <1>1, <2>3
<1>4. Range(head) = Range(p) \cup Range(h) \cup Range(a)
  <2> DEFINE ha == h \o a
  <2>1. ha \in Seq(V) /\ Range(ha) = Range(h) \cup Range(a)
    BY <1>1, ConcatRange
  <2> HIDE DEF ha
  <2>2. Range(p \o ha) = Range(p) \cup Range(ha)
    BY <1>1, <2>1, ConcatRange
  <2> QED
    BY <2>1, <2>2 DEF ha
<1>5. Range(p) = {k}
  BY DEF Range, p
<1>6. \A x \in Range(h) : IsHint(x)
  <2>1. \A x \in Range(h) : \E i \in 1..Len(h) : h[i] = x
    BY <1>1, RangeAt
  <2> QED
    BY <1>2, <2>1, InGroups DEF IsHint
<1>7. Range(head) \subseteq S /\ Range(b) \subseteq S /\ Range(m) \cap S = {}
  <2>1. Range(head) \subseteq V /\ Range(b) \subseteq V
    BY <1>1, <1>3, RangeAt
  <2>2. /\ \A x \in Range(head) : x[1] # "mark"
        /\ \A x \in Range(b) : x[1] # "mark"
        /\ \A x \in Range(m) : x[1] = "mark"
    BY <1>2, <1>4, <1>5, <1>6 DEF Headed, Other, IsHint
  <2> HIDE DEF head
  <2> QED
    BY <2>1, <2>2 DEF NotOf
<1> HIDE DEF head, S
<1>8. sql \in Seq(V) /\ sql # <<>> /\ sql[1] = k
  <2>1. /\ sql \in Seq(V) /\ Len(sql) = Len(head) + Len(m) + Len(b)
        /\ \A i \in 1..Len(head) : sql[i] = head[i]
    <3>1. PartsIn(V)
      BY AllParts
    <3>2. head \in Seq(V) /\ m \in Seq(V) /\ b \in Seq(V)
      BY <1>1, <1>3
    <3> QED
      BY <3>1, <3>2, Zenon DEF PartsIn
  <2>2. Len(head) > 0 /\ Len(head) \in Nat /\ Len(m) \in Nat /\ Len(b) \in Nat
    BY <1>1, <1>3, LenProperties
  <2> HIDE DEF sql
  <2>3. Len(sql) > 0 /\ 1 \in 1..Len(head)
    BY <2>1, <2>2
  <2>4. sql = <<>> => Len(sql) = 0
    OBVIOUS
  <2> QED
    BY <1>3, <2>1, <2>3, <2>4
<1>9. Only(sql, S) = head \o b
  <2>1. InThree(V, S)
    BY OnlyThree
  <2>2. Only(sql, S) = Only(head, S) \o (Only(m, S) \o Only(b, S))
    BY <1>1, <1>3, <2>1 DEF InThree
  <2>3. Only(head, S) = head /\ Only(b, S) = b /\ Only(m, S) = <<>>
    BY <1>1, <1>3, <1>7, OnlyEdges
  <2>4. <<>> \o b = b
    BY <1>1, Blanks
  <2> HIDE DEF sql
  <2> QED
    BY <2>2, <2>3, <2>4
<1> HIDE DEF sql
<1>10. Without({"mark"}, sql) = p \o (h \o r)
  <2>1. Without({"mark"}, sql) = Only(sql, S)
    BY <1>8, Filters DEF S
  <2>2. head \o b = p \o (h \o r)
    <3>1. p \in Seq(V) /\ h \in Seq(V) /\ a \in Seq(V) /\ b \in Seq(V)
      BY <1>1
    <3>2. Regrouped(V, p, h, a, b)
      BY <3>1, Reassociated
    <3> QED
      BY <3>2 DEF head, Regrouped
  <2> QED
    BY <1>9, <2>1, <2>2
<1>11. r \in Seq(V) /\ \A i \in 1..Len(r) : Other(r[i])
  <2>1. r \in Seq(V) /\ Range(r) = Range(a) \cup Range(b)
    BY <1>1, ConcatRange
  <2> HIDE DEF r
  <2>2. \A i \in 1..Len(r) : r[i] \in Range(r)
    BY <2>1, RangeAt
  <2> QED
    BY <2>1, <2>2 DEF Headed
<1>12. \A j \in 2..Len(p) : IsComment(p[j])
  BY <1>1
<1> HIDE DEF r
<1>13. Parses(V, sql, p, h, r)
  BY <1>1, <1>2, <1>8, <1>10, <1>11, <1>12 DEF Parses
<1> QED
  BY <1>8, <1>13 DEF sql, head, p, r, Statement

\* The tokens of the statements that Django makes.
Keys == {<<"keyword", "SELECT">>, <<"keyword", "UPDATE">>}
Texts == {"columns", "WHERE", "rest", "COUNT(*)", "FROM (SELECT ...",
          "LIMIT ...) subquery", "t SET"}
Plains == {<<"sql", t>> : t \in Texts} \cup {<<"table", "t">>}
MarkTokens == Hints \cup {FoundRowsMark}
Tokens == Keys \cup Plains \cup MarkTokens \cup {<<"hint", "DISTINCT">>}

LEMMA TokenKinds ==
    /\ \A k \in Keys : k[1] = "keyword"
    /\ \A x \in Plains : Other(x)
    /\ \A x \in MarkTokens : x[1] = "mark"
    /\ Keys \subseteq Tokens /\ Plains \subseteq Tokens /\ MarkTokens \subseteq Tokens
<1>1. \A k \in Keys : k[1] = "keyword"
  BY DEF Keys
<1>2. ASSUME NEW x \in Plains PROVE Other(x)
  <2>1. x[1] = "sql" \/ x[1] = "table"
    BY DEF Plains
  <2> QED
    BY <2>1 DEF Other
<1>3. \A x \in MarkTokens : x[1] = "mark"
  BY HintsAssumption DEF MarkTokens, FoundRowsMark
<1> QED
  BY <1>1, <1>2, <1>3 DEF Tokens

LEMMA DistinctInGrammar ==
    ASSUME NEW q
    PROVE  Distinct(q) \in Seq(Tokens) /\ InGrammar(Distinct(q)) /\ InGrammar(<<>>)
<1> DEFINE t == <<"hint", "DISTINCT">>
<1>1. InGrammar(<<>>)
  BY DEF InGrammar
<1>2. HintOf(1, t) /\ t # <<>> /\ 1 \in Groups /\ t \in Tokens
  <2>1. SelectHints[1] = {"ALL", "DISTINCT", "DISTINCTROW"}
    BY DEF SelectHints
  <2> QED
    BY <2>1, HintGroups DEF HintOf, Tokens
<1> HIDE DEF t
<1>3. InGrammar(<<t>>) /\ <<t>> \in Seq(Tokens)
  <2>1. Len(<<t>>) = 1 /\ <<t>>[1] = t
    OBVIOUS
  <2>2. \A i \in 1..1 : i = 1
    OBVIOUS
  <2> QED
    BY <1>2, <2>1, <2>2 DEF InGrammar
<1>4. Distinct(q) = <<t>> \/ Distinct(q) = <<>>
  BY DEF Distinct, t
<1>5. <<>> \in Seq(Tokens)
  OBVIOUS
<1> QED
  BY <1>1, <1>3, <1>4, <1>5

\* A statement of these tokens is rewritten as it should be.
LEMMA StatementIsRight ==
    ASSUME NEW k \in Keys, NEW h \in Seq(Tokens), NEW a \in Seq(Plains),
           NEW m \in Seq(MarkTokens), NEW b \in Seq(Plains),
           InGrammar(h), k[2] # "SELECT" => h = <<>>
    PROVE  RewriteRight(Statement(k, h, a, m, b), Rewrite(Statement(k, h, a, m, b)))
<1>1. a \in Seq(Tokens) /\ m \in Seq(Tokens) /\ b \in Seq(Tokens) /\ k \in Tokens
  BY TokenKinds, SeqMonotonic
<1>2. Range(a) \subseteq Plains /\ Range(b) \subseteq Plains /\ Range(m) \subseteq MarkTokens
  BY RangeAt
<1>3. Headed(Tokens, k, h, a, m, b)
  BY <1>1, <1>2, TokenKinds DEF Headed
<1> DEFINE sql == Statement(k, h, a, m, b)
<1>4. sql \in Seq(Tokens) /\ Parses(Tokens, sql, <<k>>, h, a \o b)
  BY <1>3, StatementParses
<1> HIDE DEF sql
<1>5. RewriteRight(sql, Rewrite(sql))
  BY <1>4, RewriteIsRight
<1> QED
  BY <1>5 DEF sql

-----------------------------------------------------------------------------

Assoc(V, x, y, z) == (x \o y) \o z = x \o (y \o z)
LEMMA Associated ==
    ASSUME NEW V, NEW x \in Seq(V), NEW y \in Seq(V), NEW z \in Seq(V)
    PROVE  Assoc(V, x, y, z) /\ x \o y \in Seq(V)
BY ConcatAssociative, SMTT(60) DEF Assoc

SelectParted(V, p, h, c, f, m, b) ==
    ((((p \o h) \o c) \o f) \o m) \o b = (p \o (h \o (c \o f))) \o (m \o b)
CountParted(V, p, c, f, m, b) ==
    (p \o c) \o ((f \o m) \o b) = (p \o (<<>> \o (c \o f))) \o (m \o b)

LEMMA SelectParts ==
    ASSUME NEW V, NEW p \in Seq(V), NEW h \in Seq(V), NEW c \in Seq(V),
           NEW f \in Seq(V), NEW m \in Seq(V), NEW b \in Seq(V)
    PROVE  SelectParted(V, p, h, c, f, m, b)
<1> DEFINE ph == p \o h
           cf == c \o f
           head == (ph \o c) \o f
<1>1. ph \in Seq(V) /\ cf \in Seq(V)
  BY Associated
<1>2. ph \o cf = p \o (h \o cf)
  <2>1. Assoc(V, p, h, cf)
    BY <1>1, Associated
  <2> QED
    BY <2>1 DEF Assoc
<1> HIDE DEF ph
<1>3. head = ph \o cf
  <2>1. Assoc(V, ph, c, f)
    BY <1>1, Associated
  <2> QED
    BY <2>1 DEF Assoc
<1>4. ph \o c \in Seq(V)
  BY <1>1, Associated
<1> DEFINE phc == ph \o c
<1> HIDE DEF phc
<1>5. phc \o f \in Seq(V)
  BY <1>4, Associated DEF phc
<1>6. head \in Seq(V)
  BY <1>5 DEF phc
<1> HIDE DEF head
<1>7. (head \o m) \o b = head \o (m \o b)
  <2>1. Assoc(V, head, m, b)
    BY <1>6, Associated
  <2> QED
    BY <2>1 DEF Assoc
<1> QED
  BY <1>2, <1>3, <1>7 DEF head, ph, SelectParted

LEMMA CountParts ==
    ASSUME NEW V, NEW p \in Seq(V), NEW c \in Seq(V), NEW f \in Seq(V),
           NEW m \in Seq(V), NEW b \in Seq(V)
    PROVE  CountParted(V, p, c, f, m, b)
<1> DEFINE pc == p \o c
           mb == m \o b
           cf == c \o f
<1>1. pc \in Seq(V) /\ mb \in Seq(V) /\ cf \in Seq(V)
  BY Associated
<1>2. (f \o m) \o b = f \o mb
  <2>1. Assoc(V, f, m, b)
    BY Associated
  <2> QED
    BY <2>1 DEF Assoc
<1>3. pc \o f = p \o cf
  <2>1. Assoc(V, p, c, f)
    BY Associated
  <2> QED
    BY <2>1 DEF Assoc
<1>4. <<>> \o cf = cf
  BY <1>1, Blanks
<1> HIDE DEF pc, mb, cf
<1>5. (pc \o f) \o mb = pc \o (f \o mb)
  <2>1. Assoc(V, pc, f, mb)
    BY <1>1, Associated
  <2> QED
    BY <2>1 DEF Assoc
<1> QED
  BY <1>2, <1>3, <1>4, <1>5 DEF pc, mb, cf, CountParted

LEMMA Pairs ==
    ASSUME NEW x, NEW y
    PROVE  <<x, y>> = <<x>> \o <<y>>
<1> DEFINE V == {x, y}
           a == <<x>>
           b == <<y>>
           s == <<x, y>>
<1>1. a \in Seq(V) /\ b \in Seq(V) /\ s \in Seq(V)
  OBVIOUS
<1>2. Len(a) = 1 /\ a[1] = x /\ Len(b) = 1 /\ b[1] = y
      /\ Len(s) = 2 /\ s[1] = x /\ s[2] = y
  OBVIOUS
<1> HIDE DEF V, a, b, s
<1>3. /\ a \o b \in Seq(V) /\ Len(a \o b) = 2
      /\ (a \o b)[1] = x /\ (a \o b)[2] = y
  <2>1. /\ a \o b \in Seq(V) /\ Len(a \o b) = Len(a) + Len(b)
        /\ \A i \in 1..Len(a) : (a \o b)[i] = a[i]
        /\ \A i \in 1..Len(b) : (a \o b)[Len(a) + i] = b[i]
    BY <1>1, Concats
  <2> DEFINE c == a \o b
  <2> HIDE DEF c
  <2>2. 1 \in 1..Len(a) /\ 1 \in 1..Len(b) /\ Len(a) + 1 = 2 /\ Len(a) + Len(b) = 2
    BY <1>2
  <2>3. c \in Seq(V) /\ Len(c) = 2 /\ c[1] = a[1] /\ c[2] = b[1]
    <3>1. c[1] = a[1]
      BY <2>1, <2>2 DEF c
    <3>2. c[Len(a) + 1] = b[1]
      BY <2>1, <2>2 DEF c
    <3> QED
      BY <2>1, <2>2, <3>1, <3>2 DEF c
  <2> QED
    BY <1>2, <2>3 DEF c
<1>4. \A i \in 1..2 : i = 1 \/ i = 2
  OBVIOUS
<1>5. s = a \o b
  BY <1>1, <1>2, <1>3, <1>4, SeqEqual
<1> QED
  BY <1>5 DEF a, b, s

LEMMA SelectIsRight ==
    ASSUME NEW q \in Query
    PROVE  RewriteRight(Select(q), Rewrite(Select(q)))
<1> DEFINE k == <<"keyword", "SELECT">>
           h == Distinct(q)
           c == <<<<"sql", "columns">>>>
           b == <<<<"sql", "rest">>>>
<1>1. /\ k \in Keys /\ k[2] = "SELECT" /\ c \in Seq(Plains) /\ b \in Seq(Plains)
      /\ From \in Seq(Plains)
  BY DEF Keys, Plains, Texts, From
<1>2. q.marks \in Seq(MarkTokens)
  BY DEF Query, MarkTokens
<1>3. h \in Seq(Tokens) /\ InGrammar(h)
  BY DistinctInGrammar
<1>4. Select(q) = ((((<<k>> \o h) \o c) \o From) \o q.marks) \o b
  BY DEF Select
<1> HIDE DEF k, h, c, b
<1>5. /\ <<k>> \in Seq(Tokens) /\ c \in Seq(Tokens) /\ From \in Seq(Tokens)
      /\ q.marks \in Seq(Tokens) /\ b \in Seq(Tokens)
  <2>1. k \in Tokens
    BY <1>1, TokenKinds
  <2> QED
    BY <1>1, <1>2, <2>1, TokenKinds, SeqMonotonic
<1>6. Select(q) = Statement(k, h, c \o From, q.marks, b)
  <2>1. SelectParted(Tokens, <<k>>, h, c, From, q.marks, b)
    BY <1>3, <1>5, SelectParts
  <2> QED
    BY <1>4, <2>1 DEF SelectParted, Statement
<1>7. c \o From \in Seq(Plains)
  BY <1>1, Associated
<1> QED
  BY <1>1, <1>2, <1>3, <1>6, <1>7, StatementIsRight

LEMMA CountIsRight ==
    ASSUME NEW q \in Query
    PROVE  RewriteRight(SelectCount(q), Rewrite(SelectCount(q)))
<1> DEFINE k == <<"keyword", "SELECT">>
           c == <<<<"sql", "COUNT(*)">>>>
           s == <<<<"sql", "FROM (SELECT ...">>>>
           e == <<<<"sql", "LIMIT ...) subquery">>>>
           b == <<<<"sql", "rest">>>>
           m == q.marks
<1>1. /\ k \in Keys /\ k[2] = "SELECT" /\ c \in Seq(Plains) /\ s \in Seq(Plains)
      /\ e \in Seq(Plains) /\ b \in Seq(Plains) /\ From \in Seq(Plains)
  BY DEF Keys, Plains, Texts, From
<1>2. m \in Seq(MarkTokens)
  BY DEF Query, MarkTokens
<1>3. <<k, c[1]>> = <<k>> \o c
  OBVIOUS
<1>4. \/ SelectCount(q) = (<<k>> \o c) \o (((s \o From) \o m) \o e)
      \/ SelectCount(q) = (<<k>> \o c) \o ((From \o m) \o b)
  BY <1>3 DEF SelectCount
<1> HIDE DEF k, c, s, e, b, m
<1>5. k \in Tokens /\ <<k>> \in Seq(Tokens) /\ m \in Seq(Tokens) /\ c \in Seq(Tokens)
  BY <1>1, <1>2, TokenKinds, SeqMonotonic
<1>6. <<>> \in Seq(Tokens) /\ InGrammar(<<>>)
  BY DistinctInGrammar
<1>7. ASSUME NEW f \in Seq(Plains), NEW d \in Seq(Plains),
             SelectCount(q) = (<<k>> \o c) \o ((f \o m) \o d)
      PROVE  RewriteRight(SelectCount(q), Rewrite(SelectCount(q)))
  <2>1. f \in Seq(Tokens) /\ d \in Seq(Tokens)
    BY TokenKinds, SeqMonotonic
  <2>2. SelectCount(q) = Statement(k, <<>>, c \o f, m, d)
    <3>1. CountParted(Tokens, <<k>>, c, f, m, d)
      BY <1>5, <2>1, CountParts
    <3> QED
      BY <1>7, <3>1 DEF CountParted, Statement
  <2>3. c \o f \in Seq(Plains)
    BY <1>1, Associated
  <2> QED
    BY <1>1, <1>2, <1>6, <2>2, <2>3, StatementIsRight
<1>8. s \o From \in Seq(Plains)
  BY <1>1, Associated
<1> QED
  BY <1>1, <1>4, <1>7, <1>8

LEMMA UpdateIsRight ==
    ASSUME NEW q \in Query
    PROVE  RewriteRight(UpdateOf(q), Rewrite(UpdateOf(q)))
<1> DEFINE k == <<"keyword", "UPDATE">>
           c == <<<<"sql", "t SET">>>>
           m == q.marks
<1>1. k \in Keys /\ c \in Seq(Plains)
  BY DEF Keys, Plains, Texts
<1>2. m \in Seq(MarkTokens)
  BY DEF Query, MarkTokens
<1>3. UpdateOf(q) = (<<k>> \o c) \o m
  <2>1. <<k, <<"sql", "t SET">>>> = <<k>> \o c
    <3> HIDE DEF k
    <3> QED
      BY Pairs
  <2> QED
    BY <2>1 DEF UpdateOf
<1> HIDE DEF k, c, m
<1>4. m \in Seq(Tokens) /\ c \in Seq(Tokens)
  BY <1>1, <1>2, TokenKinds, SeqMonotonic
<1>5. <<>> \in Seq(Tokens) /\ InGrammar(<<>>) /\ <<>> \in Seq(Plains)
  BY DistinctInGrammar
<1>6. <<>> \o c = c /\ m \o <<>> = m
  BY <1>4, Blanks
<1>7. UpdateOf(q) = Statement(k, <<>>, c, m, <<>>)
  BY <1>3, <1>6 DEF Statement
<1> QED
  BY <1>1, <1>2, <1>5, <1>7, StatementIsRight

-----------------------------------------------------------------------------
LEMMA SentIsRight ==
    ASSUME QueriesInv, HintsReachServer, [QuerySetsNext]_queryVars
    PROVE  HintsReachServer'
<1>1. ASSUME NEW s, Send(s), RewriteRight(s, Rewrite(s)) PROVE HintsReachServer'
  BY <1>1 DEF Send, HintsReachServer
<1>2. ASSUME UNCHANGED sent PROVE HintsReachServer'
  BY <1>2 DEF HintsReachServer
<1>3. \A v \in Names : querySets[v] \in Query
  BY DEF QueriesInv, QueriesTyped
<1>4. ASSUME NEW v \in Names, Evaluate(v) PROVE HintsReachServer'
  BY <1>1, <1>3, <1>4, SelectIsRight DEF Evaluate
<1>5. ASSUME NEW v \in Names, UpdateRows(v) PROVE HintsReachServer'
  <2>1. Send(UpdateOf(querySets[v])) \/ UNCHANGED sent
    BY <1>5 DEF UpdateRows
  <2> QED
    BY <1>1, <1>2, <1>3, <2>1, UpdateIsRight
<1>6. ASSUME NEW v \in Names, Iterator(v) PROVE HintsReachServer'
  <2>1. Send(Select(querySets[v])) \/ UNCHANGED sent
    BY <1>6 DEF Iterator
  <2> QED
    BY <1>1, <1>2, <1>3, <2>1, SelectIsRight
<1>7. ASSUME NEW v \in Names, NEW o, CountWith(v, o) PROVE HintsReachServer'
  <2>1. Send(SelectCount(querySets[v])) \/ UNCHANGED sent
    BY <1>7 DEF CountWith
  <2> QED
    BY <1>1, <1>2, <1>3, <2>1, CountIsRight
<1>8. CASE UNCHANGED queryVars
  BY <1>2, <1>8 DEF queryVars
<1>9. ASSUME NEW v \in Names, NEW q, Derive(v, q) PROVE HintsReachServer'
  BY <1>2, <1>9 DEF Derive
<1>10. CASE Fetched \/ TableChanges
  BY <1>2, <1>10 DEF Fetched, TableChanges
<1>11. CASE \E v \in Names : FoundRows(v) \/ EvaluateEmpty(v)
  BY <1>2, <1>11 DEF FoundRows, EvaluateEmpty
<1> QED
  BY <1>4, <1>5, <1>6, <1>7, <1>8, <1>9, <1>10, <1>11
  DEF QuerySetsNext, Filter, ChooseNone, Group, SqlCalcFoundRows, CopyTo, Slice, Hint,
      CountTriesApprox, Count

\* Every statement that a query set sends reaches the server with the hints,
\* comments and index hints that were asked for, in valid places, without
\* marks, and otherwise as Django made it.
THEOREM HintsAreSent == QuerySetsSpec => []HintsReachServer
<1>1. QuerySetsInit => HintsReachServer
  BY DEF QuerySetsInit, HintsReachServer
<1>2. QueriesInv /\ HintsReachServer /\ [QuerySetsNext]_queryVars => HintsReachServer'
  BY SentIsRight
<1> QED
  BY <1>1, <1>2, QueriesStart, QueriesStep, PTL DEF QuerySetsSpec

=============================================================================
