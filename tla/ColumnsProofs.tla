---------------------------- MODULE ColumnsProofs ----------------------------
(***************************************************************************)
(* List and set columns: the text is the value, for any members that fit,  *)
(* any number of clients and any order of their updates, forms and saves.  *)
(*                                                                         *)
(* A column is the join of members that have text and no commas            *)
(* (ColumnsInv); Split takes such a text apart again (SplitJoin).  So what *)
(* each SQL expression does to the text is what it does to the members     *)
(* (AppendIs, PopIs, AddIs, RemoveIs, ...), which are those of the value   *)
(* (UpdateStep); a save stores the value or refuses it, whatever the order *)
(* that a set is written in (SameLength).                                  *)
(*                                                                         *)
(* Dynamic columns: what the tests of the spec and of a mapping pass, the  *)
(* lookups read.  The three recurse along the spec; each is shown to obey  *)
(* its equation (ChecksEquation, ...), and the rest is induction on it.    *)
(***************************************************************************)
EXTENDS Columns, DynamicColumns, Induction, FiniteSetTheorems

-----------------------------------------------------------------------------
(* Join *)

Comma == <<",">>

LEMMA OneElement ==
    ASSUME NEW V, NEW x \in V
    PROVE  <<x>> \in Seq(V) /\ Len(<<x>>) = 1 /\ <<x>>[1] = x /\ <<>> \in Seq(V)
OBVIOUS

LEMMA CommaIsText ==
    /\ "," \in Chars
    /\ Comma \in Seq(Chars) /\ <<>> \in Seq(Chars)
    /\ Len(Comma) = 1 /\ Comma[1] = ","
<1>1. "," \in Chars
  BY TextsAssumption
<1>2. \A c \in Chars : <<c>> \in Seq(Chars) /\ Len(<<c>>) = 1 /\ <<c>>[1] = c
                        /\ <<>> \in Seq(Chars)
  BY OneElement
<1> QED
  BY <1>1, <1>2 DEF Comma

\* The text of one more member.
Joined(t, n, x) == IF n = 1 THEN x ELSE t \o Comma \o x

Joins(m, g) ==
    /\ g \in [0..Len(m) -> Seq(Chars)] /\ g[0] = <<>>
    /\ \A n \in 1..Len(m) : g[n] = Joined(g[n - 1], n, m[n])
    /\ Join(m) = g[Len(m)]

LEMMA JoinedIsText ==
    ASSUME NEW t \in Seq(Chars), NEW n, NEW x \in Seq(Chars)
    PROVE  Joined(t, n, x) \in Seq(Chars)
BY CommaIsText, ConcatProperties DEF Joined

LEMMA JoinDefined ==
    ASSUME NEW m \in Seq(Seq(Chars))
    PROVE  \E g : Joins(m, g)
<1> DEFINE N == Len(m)
           join == CHOOSE f : f = [n \in 0..N |->
                      IF n = 0 THEN <<>>
                      ELSE IF n = 1 THEN m[1]
                      ELSE f[n - 1] \o <<",">> \o m[n]]
           F == [n \in 1..N |-> [t \in Seq(Chars) |-> Joined(t, n, m[n])]]
<1>1. Join(m) = join[N]
  BY DEF Join
<1>2. N \in Nat /\ \A n \in 1..N : m[n] \in Seq(Chars)
  OBVIOUS
<1> HIDE DEF N
<1>3. F \in [1..N -> [Seq(Chars) -> Seq(Chars)]] /\ <<>> \in Seq(Chars)
  BY <1>2, JoinedIsText
<1>4. \A n \in 1..N, t \in Seq(Chars) : F[n][t] = Joined(t, n, m[n])
  OBVIOUS
<1> HIDE DEF F
<1>5. PICK g : RecursTo(N, Seq(Chars), <<>>, F, g)
  BY <1>2, <1>3, RecursionTo
<1>6. g \in [0..N -> Seq(Chars)] /\ g[0] = <<>>
  BY <1>5 DEF RecursTo
<1>7. ASSUME NEW n \in 1..N PROVE g[n] = Joined(g[n - 1], n, m[n])
  <2>1. n - 1 \in 0..N
    BY <1>2
  <2>2. g[n - 1] \in Seq(Chars)
    BY <1>6, <2>1
  <2>3. g[n] = F[n][g[n - 1]]
    BY <1>5 DEF RecursTo
  <2> QED
    BY <1>4, <2>2, <2>3
<1>8. ASSUME NEW n \in 0..N
      PROVE  g[n] = IF n = 0 THEN <<>>
                    ELSE IF n = 1 THEN m[1]
                    ELSE g[n - 1] \o <<",">> \o m[n]
  <2>1. n = 0 \/ n \in 1..N
    BY <1>2
  <2> QED
    BY <1>6, <1>7, <2>1 DEF Joined, Comma
<1>9. g = [n \in 0..N |->
              IF n = 0 THEN <<>>
              ELSE IF n = 1 THEN m[1]
              ELSE g[n - 1] \o <<",">> \o m[n]]
  <2> HIDE DEF join
  <2> QED
    BY <1>6, <1>8
<1>10. join = [n \in 0..N |->
              IF n = 0 THEN <<>>
              ELSE IF n = 1 THEN m[1]
              ELSE join[n - 1] \o <<",">> \o m[n]]
  BY <1>9
<1> HIDE DEF join
<1>11. DOMAIN join = 0..N /\ join[0] = <<>>
  <2>1. 0 \in 0..N
    BY <1>2
  <2> QED
    BY <1>10, <2>1
<1>12. ASSUME NEW n \in 1..N
       PROVE  join[n] = Joined(join[n - 1], n, m[n])
  <2>1. n \in 0..N /\ n # 0
    BY <1>2
  <2> QED
    BY <1>10, <2>1 DEF Joined, Comma
<1> DEFINE Good == {n \in Nat : join[n] \in Seq(Chars)}
<1>13. 0..N \subseteq Good
  <2>1. 0 \in Good
    BY <1>3, <1>11
  <2>2. ASSUME NEW n \in 1..N, n - 1 \in Good PROVE n \in Good
    <3>1. join[n - 1] \in Seq(Chars) /\ m[n] \in Seq(Chars) /\ n \in Nat
      BY <1>2, <2>2
    <3>2. join[n] \in Seq(Chars)
      BY <1>12, <3>1, JoinedIsText
    <3> QED
      BY <3>1, <3>2
  <2> HIDE DEF Good
  <2> QED
    BY <1>2, <2>1, <2>2, InductionTo
<1>14. join \in [0..N -> Seq(Chars)]
  <2>1. join = [n \in 0..N |-> join[n]]
    BY <1>10, <1>11
  <2> QED
    BY <1>13, <2>1
<1> QED
  BY <1>1, <1>11, <1>12, <1>14 DEF Joins, N

\* Join, one member at a time.
LEMMA JoinAppend ==
    ASSUME NEW m \in Seq(Seq(Chars)), NEW x \in Seq(Chars)
    PROVE  Join(Append(m, x)) = IF m = <<>> THEN x ELSE Join(m) \o Comma \o x
<1> DEFINE a == Append(m, x)
           N == Len(m)
<1>1. /\ N \in Nat /\ a \in Seq(Seq(Chars)) /\ Len(a) = N + 1
      /\ \A n \in 1..N : a[n] = m[n]
      /\ a[N + 1] = x
      /\ m = <<>> <=> N = 0
  OBVIOUS
<1> HIDE DEF a
<1>2. PICK g : Joins(m, g)
  BY JoinDefined
<1>3. PICK h : Joins(a, h)
  BY <1>1, JoinDefined
<1>4. /\ g[0] = <<>> /\ Join(m) = g[N]
      /\ \A n \in 1..N : g[n] = Joined(g[n - 1], n, m[n])
  BY <1>2 DEF Joins
<1>5. /\ h[0] = <<>> /\ Join(a) = h[N + 1]
      /\ \A n \in 1..N + 1 : h[n] = Joined(h[n - 1], n, a[n])
  BY <1>1, <1>3 DEF Joins
<1> DEFINE Same == {n \in Nat : g[n] = h[n]}
<1>6. 0 \in Same
  BY <1>4, <1>5
<1>7. ASSUME NEW n \in 1..N, n - 1 \in Same PROVE n \in Same
  <2>1. n \in 1..N + 1 /\ n \in Nat
    BY <1>1
  <2> QED
    BY <1>1, <1>4, <1>5, <1>7, <2>1
<1>8. N \in Same
  <2> HIDE DEF Same
  <2>1. 0..N \subseteq Same
    BY <1>1, <1>6, <1>7, InductionTo
  <2> QED
    BY <1>1, <2>1
<1>9. Join(a) = Joined(Join(m), N + 1, x)
  <2>1. h[N + 1] = Joined(h[(N + 1) - 1], N + 1, a[N + 1])
    BY <1>1, <1>5
  <2>2. (N + 1) - 1 = N
    BY <1>1
  <2> QED
    BY <1>1, <1>4, <1>5, <1>8, <2>1, <2>2
<1> QED
  BY <1>1, <1>9 DEF Joined, a

LEMMA JoinIsText ==
    ASSUME NEW m \in Seq(Seq(Chars))
    PROVE  Join(m) \in Seq(Chars) /\ Join(<<>>) = <<>>
<1>1. ASSUME NEW k \in Seq(Seq(Chars))
      PROVE  Join(k) \in Seq(Chars) /\ (Len(k) = 0 => Join(k) = <<>>)
  <2>1. PICK g : Joins(k, g)
    BY JoinDefined
  <2>2. Len(k) \in Nat
    OBVIOUS
  <2>3. Len(k) \in 0..Len(k)
    BY <2>2
  <2>4. Join(k) = g[Len(k)] /\ g \in [0..Len(k) -> Seq(Chars)] /\ g[0] = <<>>
    BY <2>1 DEF Joins
  <2> QED
    BY <2>3, <2>4
<1>2. <<>> \in Seq(Seq(Chars)) /\ Len(<<>>) = 0
  OBVIOUS
<1> QED
  BY <1>1, <1>2

LEMMA Regroup ==
    ASSUME NEW a \in Seq(Chars), NEW b \in Seq(Chars), NEW c \in Seq(Chars)
    PROVE  (a \o b) \o c = a \o (b \o c)
BY ConcatAssociative, SMTT(60)

LEMMA Concat ==
    ASSUME NEW a \in Seq(Chars), NEW b \in Seq(Chars)
    PROVE  /\ a \o b \in Seq(Chars) /\ Len(a \o b) = Len(a) + Len(b)
           /\ a \o <<>> = a /\ <<>> \o a = a
BY ConcatProperties, ConcatEmptySeq

LEMMA AppendText ==
    ASSUME NEW a \in Seq(Chars), NEW c \in Chars
    PROVE  /\ Append(a, c) \in Seq(Chars) /\ <<c>> \in Seq(Chars)
           /\ Append(a, c) = a \o <<c>>
BY AppendProperties, AppendIsConcat, OneElement

LEMMA AppendMember ==
    ASSUME NEW q \in Seq(Seq(Chars)), NEW y \in Seq(Chars)
    PROVE  /\ Append(q, y) \in Seq(Seq(Chars)) /\ Append(q, y) # <<>>
           /\ <<>> \in Seq(Seq(Chars)) /\ Append(<<>>, y) = <<y>>
BY AppendProperties

-----------------------------------------------------------------------------
(* Split *)

Parts == Seq(Seq(Chars)) \ {<<>>}

LEMMA AppendParts ==
    ASSUME NEW q \in Seq(Seq(Chars)), NEW y \in Seq(Chars)
    PROVE  Append(q, y) \in Parts
BY AppendProperties DEF Parts

LEMMA PartsAppended ==
    ASSUME NEW p \in Parts
    PROVE  \E q \in Seq(Seq(Chars)), y \in Seq(Chars) : p = Append(q, y)
BY SequenceEmptyOrAppend DEF Parts

LEMMA LongerByComma == ASSUME NEW p PROVE Longer(p, ",") = Append(p, <<>>)
BY DEF Longer

LastLonger(p, c) == [p EXCEPT ![Len(p)] = Append(@, c)]

LEMMA LongerLast ==
    ASSUME NEW q \in Seq(Seq(Chars)), NEW y \in Seq(Chars), NEW c \in Chars
    PROVE  LastLonger(Append(q, y), c) = Append(q, Append(y, c))
<1> DEFINE p == Append(q, y)
           r == Append(q, Append(y, c))
           l == [p EXCEPT ![Len(p)] = Append(@, c)]
<1>1. Append(y, c) \in Seq(Chars)
  OBVIOUS
<1>2. /\ p \in Seq(Seq(Chars)) /\ Len(q) \in Nat /\ Len(p) = Len(q) + 1
      /\ p[Len(p)] = y /\ \A i \in 1..Len(q) : p[i] = q[i]
  OBVIOUS
<1>3. /\ r \in Seq(Seq(Chars)) /\ Len(r) = Len(q) + 1
      /\ r[Len(q) + 1] = Append(y, c) /\ \A i \in 1..Len(q) : r[i] = q[i]
  BY <1>1
<1>4. l = [p EXCEPT ![Len(p)] = Append(y, c)]
  BY <1>2
<1> HIDE DEF p, r
<1>5. Len(p) \in 1..Len(p)
  BY <1>2
<1>6. /\ l \in Seq(Seq(Chars)) /\ Len(l) = Len(p)
      /\ \A i \in 1..Len(p) : l[i] = IF i = Len(p) THEN Append(y, c) ELSE p[i]
  <2> HIDE DEF l
  <2> QED
    BY <1>1, <1>2, <1>4, <1>5, ExceptSeq
<1> HIDE DEF l
<1>7. ASSUME NEW i \in 1..Len(l) PROVE l[i] = r[i]
  <2>1. i = Len(p) \/ i \in 1..Len(q)
    BY <1>2, <1>6
  <2> QED
    BY <1>2, <1>3, <1>6, <2>1
<1>8. l = r
  BY <1>2, <1>3, <1>6, <1>7, SeqEqual
<1> QED
  BY <1>8 DEF LastLonger, l, p, r

LEMMA LongerIs ==
    ASSUME NEW q \in Seq(Seq(Chars)), NEW y \in Seq(Chars), NEW c \in Chars, c # ","
    PROVE  Longer(Append(q, y), c) = Append(q, Append(y, c))
<1>1. LastLonger(Append(q, y), c) = Append(q, Append(y, c))
  BY LongerLast
<1>2. \A p : Longer(p, c) = LastLonger(p, c)
  BY DEF Longer, LastLonger
<1> QED
  BY <1>1, <1>2

LEMMA LongerIsParts ==
    ASSUME NEW p \in Parts, NEW c \in Chars
    PROVE  Longer(p, c) \in Parts
<1>1. PICK q \in Seq(Seq(Chars)), y \in Seq(Chars) : p = Append(q, y)
  BY PartsAppended
<1>2. Append(y, c) \in Seq(Chars) /\ <<>> \in Seq(Chars) /\ p \in Seq(Seq(Chars))
  BY DEF Parts
<1>3. c = "," => Longer(p, c) = Append(p, <<>>)
  BY LongerByComma
<1> QED
  BY <1>1, <1>2, <1>3, LongerIs, AppendParts

Splits(s, g) ==
    /\ g \in [0..Len(s) -> Parts] /\ g[0] = << <<>> >>
    /\ \A n \in 1..Len(s) : g[n] = Longer(g[n - 1], s[n])
    /\ Split(s) = g[Len(s)]

LEMMA SplitDefined ==
    ASSUME NEW s \in Seq(Chars)
    PROVE  \E g : Splits(s, g)
<1> DEFINE N == Len(s)
           split == CHOOSE f : f = [n \in 0..N |->
                      IF n = 0 THEN << <<>> >> ELSE Longer(f[n - 1], s[n])]
           F == [n \in 1..N |-> [p \in Parts |-> Longer(p, s[n])]]
<1>1. Split(s) = split[N]
  BY DEF Split
<1>2. N \in Nat /\ \A n \in 1..N : s[n] \in Chars
  OBVIOUS
<1> HIDE DEF N
<1>a. << <<>> >> \in Parts
  BY DEF Parts
<1>3. F \in [1..N -> [Parts -> Parts]]
  BY <1>2, LongerIsParts
<1>4. \A n \in 1..N, p \in Parts : F[n][p] = Longer(p, s[n])
  OBVIOUS
<1> HIDE DEF F
<1>5. PICK g : RecursTo(N, Parts, << <<>> >>, F, g)
  BY <1>2, <1>3, <1>a, RecursionTo
<1>6. g \in [0..N -> Parts] /\ g[0] = << <<>> >>
  BY <1>5 DEF RecursTo
<1>7. ASSUME NEW n \in 1..N PROVE g[n] = Longer(g[n - 1], s[n])
  <2>1. n - 1 \in 0..N
    BY <1>2
  <2>2. g[n - 1] \in Parts
    BY <1>6, <2>1
  <2>3. g[n] = F[n][g[n - 1]]
    BY <1>5 DEF RecursTo
  <2> QED
    BY <1>4, <2>2, <2>3
<1>8. ASSUME NEW n \in 0..N
      PROVE  g[n] = IF n = 0 THEN << <<>> >> ELSE Longer(g[n - 1], s[n])
  <2>1. n = 0 \/ n \in 1..N
    BY <1>2
  <2> QED
    BY <1>6, <1>7, <2>1
<1>9. g = [n \in 0..N |-> IF n = 0 THEN << <<>> >> ELSE Longer(g[n - 1], s[n])]
  <2> HIDE DEF split
  <2> QED
    BY <1>6, <1>8
<1>10. split = [n \in 0..N |->
                   IF n = 0 THEN << <<>> >> ELSE Longer(split[n - 1], s[n])]
  BY <1>9
<1> HIDE DEF split
<1>11. DOMAIN split = 0..N /\ split[0] = << <<>> >>
  <2>1. 0 \in 0..N
    BY <1>2
  <2> QED
    BY <1>10, <2>1
<1>12. ASSUME NEW n \in 1..N PROVE split[n] = Longer(split[n - 1], s[n])
  <2>1. n \in 0..N /\ n # 0
    BY <1>2
  <2> QED
    BY <1>10, <2>1
<1> DEFINE Good == {n \in Nat : split[n] \in Parts}
<1>13. 0..N \subseteq Good
  <2>1. 0 \in Good
    BY <1>a, <1>11
  <2>2. ASSUME NEW n \in 1..N, n - 1 \in Good PROVE n \in Good
    <3>1. split[n - 1] \in Parts /\ s[n] \in Chars /\ n \in Nat
      BY <1>2, <2>2
    <3>2. split[n] \in Parts
      BY <1>12, <3>1, LongerIsParts
    <3> QED
      BY <3>1, <3>2
  <2> HIDE DEF Good
  <2> QED
    BY <1>2, <2>1, <2>2, InductionTo
<1>14. split \in [0..N -> Parts]
  <2>1. split = [n \in 0..N |-> split[n]]
    BY <1>10, <1>11
  <2> QED
    BY <1>13, <2>1
<1> QED
  BY <1>1, <1>11, <1>12, <1>14 DEF Splits, N

\* Split, one character at a time.
LEMMA SplitAppend ==
    ASSUME NEW s \in Seq(Chars), NEW c \in Chars
    PROVE  Split(Append(s, c)) = Longer(Split(s), c)
<1> DEFINE a == Append(s, c)
           N == Len(s)
<1>1. /\ N \in Nat /\ a \in Seq(Chars) /\ Len(a) = N + 1
      /\ \A n \in 1..N : a[n] = s[n]
      /\ a[N + 1] = c
  OBVIOUS
<1> HIDE DEF a
<1>2. PICK g : Splits(s, g)
  BY SplitDefined
<1>3. PICK h : Splits(a, h)
  BY <1>1, SplitDefined
<1>4. /\ g[0] = << <<>> >> /\ Split(s) = g[N]
      /\ \A n \in 1..N : g[n] = Longer(g[n - 1], s[n])
  BY <1>2 DEF Splits
<1>5. /\ h[0] = << <<>> >> /\ Split(a) = h[N + 1]
      /\ \A n \in 1..N + 1 : h[n] = Longer(h[n - 1], a[n])
  BY <1>1, <1>3 DEF Splits
<1> DEFINE Same == {n \in Nat : g[n] = h[n]}
<1>6. 0 \in Same
  BY <1>4, <1>5
<1>7. ASSUME NEW n \in 1..N, n - 1 \in Same PROVE n \in Same
  <2>1. n \in 1..N + 1 /\ n \in Nat
    BY <1>1
  <2> QED
    BY <1>1, <1>4, <1>5, <1>7, <2>1
<1>8. N \in Same
  <2> HIDE DEF Same
  <2>1. 0..N \subseteq Same
    BY <1>1, <1>6, <1>7, InductionTo
  <2> QED
    BY <1>1, <2>1
<1>9. h[N + 1] = Longer(h[(N + 1) - 1], a[N + 1])
  BY <1>1, <1>5
<1>10. (N + 1) - 1 = N
  BY <1>1
<1> QED
  BY <1>1, <1>4, <1>5, <1>8, <1>9, <1>10 DEF a

LEMMA SplitIsParts ==
    ASSUME NEW s \in Seq(Chars)
    PROVE  Split(s) \in Parts /\ Split(<<>>) = << <<>> >>
<1>1. ASSUME NEW t \in Seq(Chars)
      PROVE  Split(t) \in Parts /\ (Len(t) = 0 => Split(t) = << <<>> >>)
  <2>1. PICK g : Splits(t, g)
    BY SplitDefined
  <2>2. Len(t) \in Nat
    OBVIOUS
  <2>3. Len(t) \in 0..Len(t)
    BY <2>2
  <2>4. Split(t) = g[Len(t)] /\ g \in [0..Len(t) -> Parts] /\ g[0] = << <<>> >>
    BY <2>1 DEF Splits
  <2> QED
    BY <2>3, <2>4
<1>2. <<>> \in Seq(Chars) /\ Len(<<>>) = 0
  OBVIOUS
<1> QED
  BY <1>1, <1>2

-----------------------------------------------------------------------------
(* Join and Split are inverse, for members without commas *)

LEMMA CommasOf ==
    ASSUME NEW s \in Seq(Chars), NEW c \in Chars
    PROVE  /\ Commas(<<>>) = {}
           /\ Commas(s) \subseteq 1..Len(s)
           /\ Commas(Append(s, c)) = IF c = "," THEN Commas(s) \cup {Len(s) + 1}
                                     ELSE Commas(s)
<1>1. Commas(<<>>) = {}
  BY DEF Commas
<1>2. /\ Len(s) \in Nat /\ DOMAIN s = 1..Len(s)
      /\ DOMAIN Append(s, c) = 1..Len(s) + 1
      /\ \A i \in 1..Len(s) : Append(s, c)[i] = s[i]
      /\ Append(s, c)[Len(s) + 1] = c
  OBVIOUS
<1>3. \A i : i \in 1..Len(s) + 1 <=> i \in 1..Len(s) \/ i = Len(s) + 1
  BY <1>2
<1>4. \A i : i \in Commas(Append(s, c)) <=>
                 i \in Commas(s) \/ (i = Len(s) + 1 /\ c = ",")
  BY <1>2, <1>3 DEF Commas
<1> QED
  BY <1>1, <1>2, <1>4 DEF Commas

NoCommas(m) == \A i \in 1..Len(m) : Commas(m[i]) = {}

LEMMA NoCommasAppend ==
    ASSUME NEW m \in Seq(Seq(Chars)), NEW x \in Seq(Chars)
    PROVE  /\ NoCommas(Append(m, x)) <=> NoCommas(m) /\ Commas(x) = {}
           /\ NoCommas(<<>>)
<1>1. /\ Len(m) \in Nat /\ Len(Append(m, x)) = Len(m) + 1
      /\ \A i \in 1..Len(m) : Append(m, x)[i] = m[i]
      /\ Append(m, x)[Len(m) + 1] = x
  OBVIOUS
<1>2. \A i : i \in 1..Len(m) + 1 <=> i \in 1..Len(m) \/ i = Len(m) + 1
  BY <1>1
<1>3. NoCommas(<<>>)
  BY DEF NoCommas
<1>4. NoCommas(Append(m, x)) => NoCommas(m) /\ Commas(x) = {}
  <2> SUFFICES ASSUME \A i \in 1..Len(m) + 1 : Commas(Append(m, x)[i]) = {}
               PROVE  (\A i \in 1..Len(m) : Commas(m[i]) = {}) /\ Commas(x) = {}
    BY <1>1 DEF NoCommas
  <2> QED
    BY <1>1, <1>2
<1>5. NoCommas(m) /\ Commas(x) = {} => NoCommas(Append(m, x))
  <2> SUFFICES ASSUME \A i \in 1..Len(m) : Commas(m[i]) = {}, Commas(x) = {}
               PROVE  \A i \in 1..Len(m) + 1 : Commas(Append(m, x)[i]) = {}
    BY <1>1 DEF NoCommas
  <2> QED
    BY <1>1, <1>2
<1> QED
  BY <1>3, <1>4, <1>5

\* The parts of a text have no commas.
LEMMA SplitNoCommas ==
    ASSUME NEW s \in Seq(Chars)
    PROVE  NoCommas(Split(s))
<1> DEFINE S == {t \in Seq(Chars) : NoCommas(Split(t))}
<1>1. <<>> \in S
  <2>1. Split(<<>>) = Append(<<>>, <<>>) /\ <<>> \in Seq(Seq(Chars)) /\ <<>> \in Seq(Chars)
    BY SplitIsParts
  <2>2. Commas(<<>>) = {}
    BY DEF Commas
  <2> QED
    BY <2>1, <2>2, NoCommasAppend
<1>2. ASSUME NEW t \in Seq(Chars), t \in S, NEW c \in Chars PROVE Append(t, c) \in S
  <2>1. PICK q \in Seq(Seq(Chars)), y \in Seq(Chars) : Split(t) = Append(q, y)
    BY SplitIsParts, PartsAppended
  <2>2. Split(Append(t, c)) = Longer(Split(t), c) /\ Append(t, c) \in Seq(Chars)
    BY SplitAppend
  <2>3. NoCommas(Append(q, y)) /\ Commas(<<>>) = {}
    BY <1>2, <2>1, CommasOf
  <2>4. Append(q, y) \in Seq(Seq(Chars)) /\ <<>> \in Seq(Chars) /\ Append(y, c) \in Seq(Chars)
    BY AppendMember, AppendText, CommaIsText
  <2>5. CASE c = ","
    <3>1. Longer(Split(t), c) = Append(Append(q, y), <<>>)
      BY <2>1, <2>5, LongerByComma
    <3>2. NoCommas(Append(Append(q, y), <<>>))
      BY <2>3, <2>4, NoCommasAppend
    <3> QED
      BY <2>2, <3>1, <3>2
  <2>6. CASE c # ","
    <3>1. Longer(Split(t), c) = Append(q, Append(y, c))
      BY <2>1, <2>6, LongerIs
    <3>2. NoCommas(q) /\ Commas(Append(y, c)) = {}
      BY <2>3, <2>6, NoCommasAppend, CommasOf
    <3>3. NoCommas(Append(q, Append(y, c)))
      BY <2>4, <3>2, NoCommasAppend
    <3> QED
      BY <2>2, <3>1, <3>3
  <2> QED
    BY <2>5, <2>6
<1> HIDE DEF S
<1>3. Seq(Chars) \subseteq S
  BY <1>1, <1>2, SeqInduction
<1> QED
  BY <1>3 DEF S

\* What was split joins to the text again.
LEMMA JoinSplit ==
    ASSUME NEW s \in Seq(Chars)
    PROVE  Join(Split(s)) = s
<1> DEFINE S == {t \in Seq(Chars) : Join(Split(t)) = t}
<1>1. <<>> \in S
  <2>1. Split(<<>>) = Append(<<>>, <<>>) /\ <<>> \in Seq(Seq(Chars)) /\ <<>> \in Seq(Chars)
    BY SplitIsParts
  <2> QED
    BY <2>1, JoinAppend
<1>2. ASSUME NEW t \in Seq(Chars), t \in S, NEW c \in Chars PROVE Append(t, c) \in S
  <2>1. PICK q \in Seq(Seq(Chars)), y \in Seq(Chars) : Split(t) = Append(q, y)
    BY SplitIsParts, PartsAppended
  <2>2. Split(Append(t, c)) = Longer(Split(t), c) /\ Append(t, c) \in Seq(Chars)
    BY SplitAppend
  <2>3. /\ Append(q, y) \in Seq(Seq(Chars)) /\ Append(q, y) # <<>>
        /\ <<>> \in Seq(Chars) /\ Append(y, c) \in Seq(Chars)
        /\ Append(y, c) = y \o <<c>> /\ Append(t, c) = t \o <<c>>
        /\ <<c>> \in Seq(Chars)
    BY AppendText, AppendMember, CommaIsText
  <2>4. Join(Append(q, y)) = t
    BY <1>2, <2>1
  <2>5. CASE c = ","
    <3>1. Longer(Split(t), c) = Append(Append(q, y), <<>>)
      BY <2>1, <2>5, LongerByComma
    <3>2. Join(Append(Append(q, y), <<>>)) = t \o Comma \o <<>>
      BY <2>3, <2>4, JoinAppend
    <3>3. t \o Comma \o <<>> = t \o <<c>>
      BY <2>3, <2>5, CommaIsText, Concat DEF Comma
    <3> QED
      BY <2>2, <2>3, <3>1, <3>2, <3>3
  <2>6. CASE c # ","
    <3>1. Longer(Split(t), c) = Append(q, Append(y, c))
      BY <2>1, <2>6, LongerIs
    <3>2. CASE q = <<>>
      BY <2>2, <2>3, <2>4, <3>1, <3>2, JoinAppend, ZenonT(60)
    <3>3. CASE q # <<>>
      <4>1. Join(q) \in Seq(Chars) /\ Comma \in Seq(Chars)
        BY JoinIsText, CommaIsText
      <4>2. Join(Append(q, Append(y, c))) = (Join(q) \o Comma) \o (y \o <<c>>)
        BY <2>3, <3>3, JoinAppend
      <4>3. t = (Join(q) \o Comma) \o y
        BY <2>4, <3>3, JoinAppend
      <4>4. Join(q) \o Comma \in Seq(Chars)
        BY <4>1, Concat
      <4>5. ((Join(q) \o Comma) \o y) \o <<c>> = (Join(q) \o Comma) \o (y \o <<c>>)
        BY <2>3, <4>4, Regroup
      <4> QED
        BY <2>2, <2>3, <3>1, <4>2, <4>3, <4>5
    <3> QED
      BY <3>2, <3>3
  <2> QED
    BY <2>5, <2>6
<1> HIDE DEF S
<1>3. Seq(Chars) \subseteq S
  BY <1>1, <1>2, SeqInduction
<1> QED
  BY <1>3 DEF S

\* A text without commas is one part, and the last one of a longer text.
LEMMA SplitPlain ==
    ASSUME NEW x \in Seq(Chars), Commas(x) = {}, NEW s \in Seq(Chars)
    PROVE  Split(x) = <<x>> /\ Split(s \o Comma \o x) = Append(Split(s), x)
<1> DEFINE S == {t \in Seq(Chars) : Commas(t) = {} =>
                   Split(t) = <<t>> /\ Split(s \o Comma \o t) = Append(Split(s), t)}
           u == s \o Comma
<1>1. u = Append(s, ",") /\ u \in Seq(Chars) /\ "," \in Chars
  BY CommaIsText, AppendText, Concat DEF Comma
<1> HIDE DEF u
<1>2. <<>> \in S
  <2>1. u \o <<>> = u /\ <<>> \in Seq(Chars)
    BY <1>1, CommaIsText, Concat
  <2>2. Split(u) = Longer(Split(s), ",")
    BY <1>1, SplitAppend
  <2>3. Split(u) = Append(Split(s), <<>>)
    BY <2>2, LongerByComma
  <2> QED
    BY <2>1, <2>3, SplitIsParts DEF u
<1>3. ASSUME NEW t \in Seq(Chars), t \in S, NEW c \in Chars PROVE Append(t, c) \in S
  <2>1. Append(t, c) \in Seq(Chars) /\ Append(t, c) = t \o <<c>> /\ <<c>> \in Seq(Chars)
    BY AppendText
  <2> SUFFICES ASSUME Commas(Append(t, c)) = {}
               PROVE  /\ Split(Append(t, c)) = <<Append(t, c)>>
                      /\ Split(u \o Append(t, c)) = Append(Split(s), Append(t, c))
    BY <2>1 DEF u
  <2>2. c # "," /\ Commas(t) = {}
    BY CommasOf
  <2>a. Append(<<>>, t) = <<t>> /\ Append(<<>>, Append(t, c)) = <<Append(t, c)>>
    BY <2>1, AppendMember
  <2>b. Split(t) = <<t>> /\ Split(u \o t) = Append(Split(s), t)
    BY <1>3, <2>2 DEF u
  <2>3. Split(t) = Append(<<>>, t) /\ Split(u \o t) = Append(Split(s), t)
    BY <2>a, <2>b
  <2>4. u \o Append(t, c) = Append(u \o t, c) /\ u \o t \in Seq(Chars)
    <3>a. u \in Seq(Chars) /\ t \in Seq(Chars) /\ <<c>> \in Seq(Chars)
      BY <1>1, <2>1
    <3>1. (u \o t) \o <<c>> = u \o (t \o <<c>>)
      BY <3>a, Regroup, SMTT(60)
    <3>2. u \o t \in Seq(Chars)
      BY <1>1, Concat
    <3> QED
      BY <2>1, <3>1, <3>2, AppendText
  <2>5. Split(s) \in Seq(Seq(Chars)) /\ <<>> \in Seq(Seq(Chars))
    BY SplitIsParts DEF Parts
  <2>6. Split(Append(t, c)) = Longer(Append(<<>>, t), c)
    BY <2>3, SplitAppend
  <2>7. Split(Append(u \o t, c)) = Longer(Append(Split(s), t), c)
    BY <2>3, <2>4, SplitAppend
  <2>8. Longer(Append(<<>>, t), c) = Append(<<>>, Append(t, c))
    BY <2>2, <2>5, LongerIs
  <2>9. Longer(Append(Split(s), t), c) = Append(Split(s), Append(t, c))
    BY <2>2, <2>5, LongerIs
  <2> QED
    BY <2>4, <2>6, <2>7, <2>8, <2>9, <2>a
<1> HIDE DEF S
<1>4. Seq(Chars) \subseteq S
  BY <1>2, <1>3, SeqInduction
<1> QED
  BY <1>4 DEF S

\* Members without commas are the parts of the text that joins them.
LEMMA SplitJoin ==
    ASSUME NEW m \in Parts, NoCommas(m)
    PROVE  Split(Join(m)) = m
<1> DEFINE S == {k \in Seq(Seq(Chars)) : k # <<>> /\ NoCommas(k) => Split(Join(k)) = k}
<1>1. <<>> \in S
  OBVIOUS
<1>2. ASSUME NEW k \in Seq(Seq(Chars)), k \in S, NEW x \in Seq(Chars)
      PROVE  Append(k, x) \in S
  <2> SUFFICES ASSUME NoCommas(Append(k, x))
               PROVE  Split(Join(Append(k, x))) = Append(k, x)
    OBVIOUS
  <2>1. NoCommas(k) /\ Commas(x) = {}
    BY NoCommasAppend
  <2>2. Join(k) \in Seq(Chars)
    BY JoinIsText
  <2>3. CASE k = <<>>
    <3>1. Join(Append(k, x)) = x /\ Append(k, x) = <<x>>
      BY <2>3, JoinAppend, AppendMember
    <3> QED
      BY <2>1, <2>2, <3>1, SplitPlain
  <2>4. CASE k # <<>>
    <3>1. Join(Append(k, x)) = Join(k) \o Comma \o x
      BY <2>4, JoinAppend
    <3>2. Split(Join(k)) = k
      BY <1>2, <2>1, <2>4
    <3> QED
      BY <2>1, <2>2, <3>1, <3>2, SplitPlain
  <2> QED
    BY <2>3, <2>4
<1> HIDE DEF S
<1>3. Seq(Seq(Chars)) \subseteq S
  BY <1>1, <1>2, SeqInduction
<1> QED
  BY <1>3 DEF S, Parts

-----------------------------------------------------------------------------
(* Lists of members, and their texts *)

Solid(m) == \A i \in 1..Len(m) : m[i] # <<>>

Lists == {m \in Seq(Seq(Chars)) : Solid(m) /\ NoCommas(m)}

LEMMA SolidAppend ==
    ASSUME NEW m \in Seq(Seq(Chars)), NEW x \in Seq(Chars)
    PROVE  Solid(Append(m, x)) <=> Solid(m) /\ x # <<>>
<1>1. /\ Len(m) \in Nat /\ Len(Append(m, x)) = Len(m) + 1
      /\ \A i \in 1..Len(m) : Append(m, x)[i] = m[i]
      /\ Append(m, x)[Len(m) + 1] = x
  OBVIOUS
<1>2. \A i : i \in 1..Len(m) + 1 <=> i \in 1..Len(m) \/ i = Len(m) + 1
  BY <1>1
<1>3. Solid(Append(m, x)) => Solid(m) /\ x # <<>>
  <2> SUFFICES ASSUME \A i \in 1..Len(m) + 1 : Append(m, x)[i] # <<>>
               PROVE  (\A i \in 1..Len(m) : m[i] # <<>>) /\ x # <<>>
    BY <1>1 DEF Solid
  <2> QED
    BY <1>1, <1>2
<1>4. Solid(m) /\ x # <<>> => Solid(Append(m, x))
  <2> SUFFICES ASSUME \A i \in 1..Len(m) : m[i] # <<>>, x # <<>>
               PROVE  \A i \in 1..Len(m) + 1 : Append(m, x)[i] # <<>>
    BY <1>1 DEF Solid
  <2> QED
    BY <1>1, <1>2
<1> QED
  BY <1>3, <1>4

LEMMA ListsAppend ==
    ASSUME NEW m \in Seq(Seq(Chars)), NEW x \in Seq(Chars)
    PROVE  /\ Append(m, x) \in Lists <=> m \in Lists /\ x # <<>> /\ Commas(x) = {}
           /\ <<>> \in Lists
<1>1. Append(m, x) \in Seq(Seq(Chars)) /\ <<>> \in Seq(Seq(Chars))
  BY AppendMember
<1>2. NoCommas(<<>>)
  BY NoCommasAppend
<1>3. Solid(<<>>)
  BY DEF Solid
<1> QED
  BY <1>1, <1>2, <1>3, NoCommasAppend, SolidAppend DEF Lists

\* A sequence of members of lists is a list.
LEMMA ListsMade ==
    ASSUME NEW m \in Lists, NEW r \in Seq(Seq(Chars)),
           \A i \in 1..Len(r) : \E j \in 1..Len(m) : r[i] = m[j]
    PROVE  r \in Lists
BY DEF Lists, Solid, NoCommas

LEMMA JoinOfSome ==
    ASSUME NEW m \in Lists
    PROVE  /\ m \in Seq(Seq(Chars)) /\ Join(m) \in Seq(Chars)
           /\ Join(m) = <<>> <=> m = <<>>
<1>1. m \in Seq(Seq(Chars)) /\ Join(m) \in Seq(Chars) /\ Join(<<>>) = <<>>
  BY JoinIsText DEF Lists
<1>2. ASSUME m # <<>> PROVE Join(m) # <<>>
  <2>1. PICK q \in Seq(Seq(Chars)), x \in Seq(Chars) : m = Append(q, x)
    BY <1>1, <1>2, SequenceEmptyOrAppend
  <2>2. x # <<>>
    BY <2>1, ListsAppend
  <2>3. CASE q = <<>>
    BY <2>1, <2>2, <2>3, JoinAppend
  <2>4. CASE q # <<>>
    <3>1. Join(m) = Join(q) \o Comma \o x
      BY <2>1, <2>4, JoinAppend
    <3>2. Join(q) \in Seq(Chars) /\ Comma \in Seq(Chars) /\ Len(Comma) = 1
      BY JoinIsText, CommaIsText
    <3>3. Join(q) \o Comma \in Seq(Chars)
      BY <3>2, Concat
    <3>4. (Join(q) \o Comma) \o x = <<>> => x = <<>>
      BY <3>3, ConcatEqualIffEmpty
    <3> QED
      BY <2>2, <3>1, <3>4
  <2> QED
    BY <2>3, <2>4
<1> QED
  BY <1>1, <1>2

\* The text of a list is read back as that list.
LEMMA MembersOfJoin ==
    ASSUME NEW m \in Lists
    PROVE  MembersOf(Join(m)) = m
<1>1. CASE m = <<>>
  BY <1>1, JoinOfSome DEF MembersOf
<1>2. CASE m # <<>>
  <2>1. Join(m) # <<>>
    BY <1>2, JoinOfSome
  <2>2. Split(Join(m)) = m
    BY <1>2, SplitJoin DEF Lists, Parts
  <2> QED
    BY <2>1, <2>2 DEF MembersOf
<1> QED
  BY <1>1, <1>2

LEMMA ConcatMembers ==
    ASSUME NEW a \in Seq(Seq(Chars)), NEW b \in Seq(Seq(Chars))
    PROVE  /\ a \o b \in Seq(Seq(Chars)) /\ Len(a \o b) = Len(a) + Len(b)
           /\ a \o <<>> = a /\ <<>> \o a = a
           /\ a \o b = <<>> <=> a = <<>> /\ b = <<>>
           /\ \A x \in Seq(Chars) : a \o Append(b, x) = Append(a \o b, x)
<1>1. /\ a \o b \in Seq(Seq(Chars)) /\ Len(a \o b) = Len(a) + Len(b)
      /\ a \o <<>> = a /\ <<>> \o a = a
  BY ConcatProperties, ConcatEmptySeq
<1>2. a \o b = <<>> <=> a = <<>> /\ b = <<>>
  BY ConcatEqualIffEmpty
<1>3. ASSUME NEW x \in Seq(Chars) PROVE a \o Append(b, x) = Append(a \o b, x)
  <2>1. <<x>> \in Seq(Seq(Chars))
    BY OneElement
  <2>2. Append(b, x) = b \o <<x>> /\ Append(a \o b, x) = (a \o b) \o <<x>>
    BY <1>1, AppendIsConcat
  <2>3. (a \o b) \o <<x>> = a \o (b \o <<x>>)
    BY <2>1, ConcatAssociative, SMTT(60)
  <2> QED
    BY <2>2, <2>3
<1> QED
  BY <1>1, <1>2, <1>3

LEMMA JoinConcat ==
    ASSUME NEW a \in Seq(Seq(Chars)), NEW b \in Seq(Seq(Chars))
    PROVE  Join(a \o b) = IF a = <<>> THEN Join(b)
                          ELSE IF b = <<>> THEN Join(a)
                          ELSE Join(a) \o Comma \o Join(b)
<1>1. CASE a = <<>>
  BY <1>1, ConcatMembers
<1>2. CASE a # <<>>
  <2> DEFINE S == {k \in Seq(Seq(Chars)) :
                     k # <<>> => Join(a \o k) = Join(a) \o Comma \o Join(k)}
             u == Join(a) \o Comma
  <2>0. Join(a) \in Seq(Chars) /\ Comma \in Seq(Chars) /\ u \in Seq(Chars)
    BY JoinIsText, CommaIsText, Concat
  <2> HIDE DEF u
  <2>1. <<>> \in S
    OBVIOUS
  <2>2. ASSUME NEW k \in Seq(Seq(Chars)), k \in S, NEW x \in Seq(Chars)
        PROVE  Append(k, x) \in S
    <3>1. /\ Append(k, x) \in Seq(Seq(Chars)) /\ a \o k \in Seq(Seq(Chars))
          /\ a \o k # <<>> /\ a \o Append(k, x) = Append(a \o k, x)
          /\ a \o <<>> = a
      BY <1>2, AppendMember, ConcatMembers, SMTT(30)
    <3>2. Join(a \o Append(k, x)) = Join(a \o k) \o Comma \o x
      BY <3>1, JoinAppend
    <3>3. CASE k = <<>>
      <4>1. Join(Append(k, x)) = x
        BY <3>3, JoinAppend
      <4> QED
        BY <3>1, <3>2, <3>3, <4>1 DEF u
    <3>4. CASE k # <<>>
      <4>1. Join(a \o k) = u \o Join(k)
        BY <2>2, <3>4 DEF u
      <4>2. Join(Append(k, x)) = Join(k) \o Comma \o x
        BY <3>4, JoinAppend
      <4>3. Join(k) \in Seq(Chars) /\ Join(k) \o Comma \in Seq(Chars)
        BY <2>0, JoinIsText, Concat
      <4>4. (u \o Join(k)) \o Comma = u \o (Join(k) \o Comma)
        BY <2>0, <4>3, Regroup, ZenonT(60)
      <4>5. (u \o (Join(k) \o Comma)) \o x = u \o ((Join(k) \o Comma) \o x)
        BY <2>0, <4>3, Regroup, ZenonT(60)
      <4> QED
        BY <3>1, <3>2, <4>1, <4>2, <4>4, <4>5 DEF u
    <3> QED
      BY <3>3, <3>4
  <2> HIDE DEF S
  <2>3. Seq(Seq(Chars)) \subseteq S
    BY <2>1, <2>2, SeqInduction
  <2>4. a \o <<>> = a
    BY ConcatMembers
  <2> QED
    BY <1>2, <2>3, <2>4 DEF S
<1> QED
  BY <1>1, <1>2

\* The commas of a text are one less than its parts.
LEMMA CommasAndParts ==
    ASSUME NEW s \in Seq(Chars)
    PROVE  /\ IsFiniteSet(Commas(s)) /\ Cardinality(Commas(s)) \in Nat
           /\ Len(Split(s)) = Cardinality(Commas(s)) + 1
<1> DEFINE S == {t \in Seq(Chars) : /\ IsFiniteSet(Commas(t))
                                    /\ Len(Split(t)) = Cardinality(Commas(t)) + 1}
<1>1. <<>> \in S
  <2>1. Commas(<<>>) = {} /\ <<>> \in Seq(Chars)
    BY CommaIsText, CommasOf
  <2>2. Len(Split(<<>>)) = 1
    <3>1. Split(<<>>) = << <<>> >>
      BY CommaIsText, SplitIsParts
    <3> QED
      BY <3>1
  <2>3. IsFiniteSet(Commas(<<>>)) /\ Cardinality(Commas(<<>>)) = 0
    BY <2>1, FS_EmptySet
  <2>4. Len(Split(<<>>)) = Cardinality(Commas(<<>>)) + 1
    <3>1. 1 = 0 + 1
      OBVIOUS
    <3> QED
      BY <2>2, <2>3, <3>1, Zenon
  <2> QED
    BY <2>1, <2>3, <2>4, Zenon
<1>2. ASSUME NEW t \in Seq(Chars), t \in S, NEW c \in Chars PROVE Append(t, c) \in S
  <2>1. PICK q \in Seq(Seq(Chars)), y \in Seq(Chars) : Split(t) = Append(q, y)
    BY SplitIsParts, PartsAppended
  <2>2. Split(Append(t, c)) = Longer(Split(t), c) /\ Append(t, c) \in Seq(Chars)
    BY SplitAppend, AppendText
  <2>3. Append(y, c) \in Seq(Chars) /\ <<>> \in Seq(Chars)
    BY AppendText, CommaIsText
  <2>4. IsFiniteSet(Commas(t)) /\ Len(Append(q, y)) = Cardinality(Commas(t)) + 1
    BY <1>2, <2>1
  <2>5. Len(Append(q, y)) = Len(q) + 1 /\ Len(q) \in Nat
        /\ Len(Append(q, Append(y, c))) = Len(q) + 1
        /\ Len(Append(Append(q, y), <<>>)) = (Len(q) + 1) + 1
    BY <2>3, AppendMember, AppendProperties
  <2>6. CASE c = ","
    <3>1. Longer(Split(t), c) = Append(Append(q, y), <<>>)
      BY <2>1, <2>6, LongerByComma
    <3>2. Commas(Append(t, c)) = Commas(t) \cup {Len(t) + 1}
      BY <2>6, CommasOf
    <3>3. Len(t) + 1 \notin Commas(t)
      <4>1. Len(t) \in Nat
        BY LenProperties
      <4>2. Commas(t) \subseteq 1..Len(t)
        BY CommasOf
      <4> QED
        BY <4>1, <4>2
    <3>4. /\ IsFiniteSet(Commas(Append(t, c)))
          /\ Cardinality(Commas(Append(t, c))) = Cardinality(Commas(t)) + 1
      <4>1. \A K, x : IsFiniteSet(K) /\ x \notin K =>
                /\ IsFiniteSet(K \cup {x})
                /\ Cardinality(K \cup {x}) = Cardinality(K) + 1
        BY FS_AddElement
      <4> QED
        BY <2>4, <3>2, <3>3, <4>1
    <3> QED
      BY <2>2, <2>4, <2>5, <3>1, <3>4
  <2>7. CASE c # ","
    <3>1. Longer(Split(t), c) = Append(q, Append(y, c))
      BY <2>1, <2>7, LongerIs
    <3>2. Commas(Append(t, c)) = Commas(t)
      BY <2>7, CommasOf
    <3> QED
      BY <2>2, <2>4, <2>5, <3>1, <3>2
  <2> QED
    BY <2>6, <2>7
<1> HIDE DEF S
<1>3. s \in S
  BY <1>1, <1>2, SeqInduction
<1>4. IsFiniteSet(Commas(s)) /\ Len(Split(s)) = Cardinality(Commas(s)) + 1
  BY <1>3 DEF S
<1> QED
  BY <1>4, FS_CardinalityType

\* LENGTH(s) - LENGTH(REPLACE(s, ',', '')) of the text of a list
LEMMA CommasOfList ==
    ASSUME NEW m \in Lists
    PROVE  /\ Len(m) \in Nat
           /\ Cardinality(Commas(Join(m))) = IF m = <<>> THEN 0 ELSE Len(m) - 1
           /\ Commas(Join(m)) = {} <=> Len(m) <= 1
           /\ SetLength(Join(m)) = Len(m)
<1> DEFINE s == Join(m)
           n == Cardinality(Commas(s))
<1>1. m \in Seq(Seq(Chars)) /\ s \in Seq(Chars) /\ (s = <<>> <=> m = <<>>)
  BY JoinOfSome
<1>2. Len(m) \in Nat /\ (m = <<>> <=> Len(m) = 0)
  BY <1>1
<1>3. IsFiniteSet(Commas(s)) /\ Len(Split(s)) = n + 1 /\ n \in Nat
  BY <1>1, CommasAndParts
<1>4. n = 0 <=> Commas(s) = {}
  BY <1>3, FS_EmptySet
<1>5. SetLength(s) = n + (IF s = <<>> THEN 0 ELSE 1)
  BY DEF SetLength
<1>6. CASE m = <<>>
  <2>1. Commas(s) = {}
    <3> HIDE DEF s
    <3> QED
      BY <1>1, <1>6 DEF Commas
  <2> HIDE DEF s, n
  <2> QED
    BY <1>1, <1>2, <1>4, <1>5, <1>6, <2>1 DEF n, s
<1>7. CASE m # <<>>
  <2>1. Split(s) = m
    BY <1>1, <1>7, SplitJoin DEF Lists, Parts
  <2>2. n = Len(m) - 1
    <3> HIDE DEF s, n
    <3> QED
      BY <1>2, <1>3, <2>1
  <2>3. SetLength(s) = Len(m) /\ (Commas(s) = {} <=> Len(m) <= 1)
    <3> HIDE DEF s, n
    <3> QED
      BY <1>1, <1>2, <1>4, <1>5, <1>7, <2>2
  <2> QED
    BY <1>2, <1>7, <2>2, <2>3
<1> QED
  BY <1>6, <1>7

-----------------------------------------------------------------------------
(* The expressions on the text of a list *)

LEMMA ItemsAreMembers ==
    ASSUME NEW x \in Items
    PROVE  /\ x \in Seq(Chars) /\ x # <<>> /\ Commas(x) = {}
           /\ <<x>> \in Lists /\ <<x>> # <<>> /\ Join(<<x>>) = x
<1>1. x \in Seq(Chars) /\ x # <<>> /\ \A i \in DOMAIN x : x[i] # ","
  BY ColumnsAssumption
<1>2. Commas(x) = {}
  BY <1>1 DEF Commas
<1>a. x \in Seq(Chars)
  BY <1>1
<1>3. /\ Append(<<>>, x) = <<x>> /\ <<>> \in Seq(Seq(Chars))
      /\ Append(<<>>, x) # <<>>
  BY <1>a, AppendMember
<1>4. Append(<<>>, x) \in Lists
  BY <1>1, <1>2, <1>3, ListsAppend
<1>5. Join(Append(<<>>, x)) = x
  BY <1>1, <1>3, JoinAppend
<1> QED
  BY <1>1, <1>2, <1>3, <1>4, <1>5

\* CONCAT_WS leaves the NULLs out.
LEMMA ConcatWsIs ==
    ASSUME NEW a \in Seq(Chars), NEW b \in Seq(Chars)
    PROVE  /\ ConcatWs(a, b) = a \o Comma \o b
           /\ ConcatWs(a, Null) = a /\ ConcatWs(Null, b) = b
           /\ ConcatWs(Null, Null) = <<>>
<1>1. a # Null /\ b # Null
  BY TextsAssumption
<1>2. /\ <<a>> = Append(<<>>, a) /\ <<b>> = Append(<<>>, b)
      /\ <<>> \in Seq(Seq(Chars)) /\ <<a>> \in Seq(Seq(Chars)) /\ <<b>> \in Seq(Seq(Chars))
      /\ <<a>> # <<>>
  BY AppendMember, OneElement
<1>3. /\ <<a>> \o <<>> = <<a>> /\ <<>> \o <<b>> = <<b>> /\ <<>> \o <<>> = <<>>
      /\ <<a>> \o <<b>> = Append(<<a>>, b)
  BY <1>2, ConcatMembers
<1>4. Join(<<a>>) = a /\ Join(<<b>>) = b
  BY <1>2, JoinAppend
<1>5. Join(Append(<<a>>, b)) = a \o Comma \o b
  BY <1>2, <1>4, JoinAppend
<1>6. Join(<<>>) = <<>>
  BY <1>2, JoinIsText
<1>7. ConcatWs(a, b) = Join(<<a>> \o <<b>>)
  BY <1>1 DEF ConcatWs
<1>8. ConcatWs(a, Null) = Join(<<a>> \o <<>>)
  BY <1>1 DEF ConcatWs
<1>9. ConcatWs(Null, b) = Join(<<>> \o <<b>>)
  BY <1>1 DEF ConcatWs
<1>10. ConcatWs(Null, Null) = Join(<<>> \o <<>>)
  BY DEF ConcatWs
<1> QED
  BY <1>3, <1>4, <1>5, <1>6, <1>7, <1>8, <1>9, <1>10

LEMMA ConcatWsOfLists ==
    ASSUME NEW a \in Lists, NEW b \in Lists
    PROVE  ConcatWs(NullIfEmpty(Join(a)), NullIfEmpty(Join(b))) = Join(a \o b)
<1>1. /\ a \in Seq(Seq(Chars)) /\ b \in Seq(Seq(Chars))
      /\ Join(a) \in Seq(Chars) /\ Join(b) \in Seq(Chars)
      /\ Join(a) = <<>> <=> a = <<>>
      /\ Join(b) = <<>> <=> b = <<>>
  BY JoinOfSome
<1>2. Join(a \o b) = IF a = <<>> THEN Join(b) ELSE IF b = <<>> THEN Join(a)
                     ELSE Join(a) \o Comma \o Join(b)
  BY <1>1, JoinConcat
<1>3. NullIfEmpty(Join(a)) = (IF a = <<>> THEN Null ELSE Join(a))
  BY <1>1 DEF NullIfEmpty
<1>4. NullIfEmpty(Join(b)) = (IF b = <<>> THEN Null ELSE Join(b))
  BY <1>1 DEF NullIfEmpty
<1>5. /\ ConcatWs(Join(a), Join(b)) = Join(a) \o Comma \o Join(b)
      /\ ConcatWs(Join(a), Null) = Join(a) /\ ConcatWs(Null, Join(b)) = Join(b)
      /\ ConcatWs(Null, Null) = <<>>
  BY <1>1, ConcatWsIs
<1> QED
  BY <1>1, <1>2, <1>3, <1>4, <1>5

LEMMA ListsConcat ==
    ASSUME NEW a \in Lists, NEW b \in Lists
    PROVE  a \o b \in Lists
<1> DEFINE S == {k \in Seq(Seq(Chars)) : k \in Lists => a \o k \in Lists}
<1>1. a \in Seq(Seq(Chars)) /\ b \in Seq(Seq(Chars))
  BY DEF Lists
<1>2. <<>> \in S
  BY <1>1, ConcatMembers, AppendMember
<1>3. ASSUME NEW k \in Seq(Seq(Chars)), k \in S, NEW x \in Seq(Chars)
      PROVE  Append(k, x) \in S
  <2> SUFFICES ASSUME Append(k, x) \in Lists PROVE a \o Append(k, x) \in Lists
    BY AppendMember
  <2>1. k \in Lists /\ x # <<>> /\ Commas(x) = {}
    BY ListsAppend
  <2>2. a \o k \in Lists /\ a \o k \in Seq(Seq(Chars))
    BY <1>3, <2>1 DEF Lists
  <2>3. a \o Append(k, x) = Append(a \o k, x)
    BY <1>1, ConcatMembers, SMTT(30)
  <2> QED
    BY <2>1, <2>2, <2>3, ListsAppend, ZenonT(60)
<1> HIDE DEF S
<1>4. b \in S
  BY <1>1, <1>2, <1>3, SeqInduction
<1> QED
  BY <1>4 DEF S

LEMMA AppendIs ==
    ASSUME NEW m \in Lists, NEW x \in Items
    PROVE  /\ AppendListF(Join(m), x) = Join(Append(m, x))
           /\ AppendLeftListF(Join(m), x) = Join(<<x>> \o m)
           /\ Append(m, x) \in Lists /\ <<x>> \o m \in Lists
<1>1. /\ x \in Seq(Chars) /\ x # <<>> /\ Commas(x) = {}
      /\ <<x>> \in Lists /\ Join(<<x>>) = x
  BY ItemsAreMembers
<1>2. m \o <<x>> = Append(m, x) /\ m \in Seq(Seq(Chars))
  BY <1>1, AppendIsConcat DEF Lists
<1>3. NullIfEmpty(x) = x
  BY <1>1 DEF NullIfEmpty
<1>4. ConcatWs(NullIfEmpty(Join(m)), NullIfEmpty(Join(<<x>>))) = Join(m \o <<x>>)
  BY <1>1, ConcatWsOfLists
<1>5. ConcatWs(NullIfEmpty(Join(<<x>>)), NullIfEmpty(Join(m))) = Join(<<x>> \o m)
  BY <1>1, ConcatWsOfLists
<1>6. m \o <<x>> \in Lists /\ <<x>> \o m \in Lists
  BY <1>1, ListsConcat
<1> QED
  BY <1>1, <1>2, <1>3, <1>4, <1>5, <1>6 DEF AppendListF, AppendLeftListF

\* SUBSTRING_INDEX counts members from either end.
LEMMA SubstringIndexIs ==
    ASSUME NEW m \in Lists, m # <<>>, NEW n \in 0..Len(m)
    PROVE  /\ SubstringIndex(Join(m), n) = Join(SubSeq(m, 1, n))
           /\ SubstringIndex(Join(m), -n) = Join(SubSeq(m, Len(m) - n + 1, Len(m)))
<1>1. m \in Seq(Seq(Chars)) /\ Len(m) \in Nat /\ Len(m) > 0
  BY DEF Lists
<1>2. Split(Join(m)) = m
  BY <1>1, SplitJoin DEF Lists, Parts
<1>3. SubstringIndex(Join(m), n) = Join(SubSeq(m, 1, n))
  <2>1. n >= 0 /\ (IF n < Len(m) THEN n ELSE Len(m)) = n
    BY <1>1
  <2> QED
    BY <1>2, <2>1 DEF SubstringIndex
<1>4. SubstringIndex(Join(m), -n) = Join(SubSeq(m, Len(m) - n + 1, Len(m)))
  <2>1. CASE n <= 0
    <3>0. -n = n
      BY <1>1, <2>1
    <3>1. Len(m) - n + 1 \in Int /\ Len(m) < Len(m) - n + 1
      BY <1>1, <2>1
    <3>2. SubSeq(m, Len(m) - n + 1, Len(m)) = <<>> /\ SubSeq(m, 1, 0) = <<>>
      BY <1>1, <3>1, SubSeqEmpty
    <3> QED
      <4>1. n = 0
        BY <1>1, <2>1
      <4> QED
        BY <1>3, <3>0, <3>2, <4>1
  <2>2. CASE ~(n <= 0)
    <3>1. ~(-n >= 0) /\ -(-n) = n /\ Len(m) + (-n) + 1 = Len(m) - n + 1
      BY <1>1, <2>2
    <3>2. (IF n < Len(m) THEN Len(m) - n + 1 ELSE 1) = Len(m) - n + 1
      BY <1>1
    <3> QED
      BY <1>2, <3>1, <3>2 DEF SubstringIndex
  <2> QED
    BY <2>1, <2>2
<1> QED
  BY <1>3, <1>4

LEMMA FrontOfAppend ==
    ASSUME NEW V, NEW q \in Seq(V), NEW x \in V
    PROVE  SubSeq(Append(q, x), 1, Len(Append(q, x)) - 1) = q
<1>1. Len(Append(q, x)) = Len(q) + 1 /\ Len(q) \in Nat
      /\ \A i \in 1..Len(q) : Append(q, x)[i] = q[i]
  BY AppendProperties
<1>2. Len(Append(q, x)) - 1 = Len(q)
  BY <1>1
<1>3. \A i \in 1..Len(q) : Append(q, x)[i] \in V
  BY <1>1
<1>4. /\ SubSeq(Append(q, x), 1, Len(q)) \in Seq(V)
      /\ Len(SubSeq(Append(q, x), 1, Len(q))) = Len(q)
      /\ \A i \in 1..Len(q) : SubSeq(Append(q, x), 1, Len(q))[i] = q[i]
  BY <1>1, <1>3, SubSeqProperties
<1> QED
  BY <1>1, <1>2, <1>4, SeqEqual

LEMMA PopIs ==
    ASSUME NEW m \in Lists
    PROVE  /\ m = <<>> => PopListF(Join(m)) = <<>>
           /\ m # <<>> => /\ PopListF(Join(m)) = Join(Front(m))
                          /\ Front(m) \in Lists
<1>1. m \in Seq(Seq(Chars)) /\ Join(m) \in Seq(Chars)
  BY JoinOfSome
<1>2. Len(m) \in Nat /\ (Commas(Join(m)) = {} <=> Len(m) <= 1)
  BY CommasOfList
<1>3. ASSUME Len(m) <= 1 PROVE PopListF(Join(m)) = <<>>
  <2>1. SubSeq(Join(m), 1, 0) = <<>>
    BY SubSeqEmpty
  <2> QED
    BY <1>2, <1>3, <2>1 DEF PopListF
<1>4. ASSUME m # <<>>
      PROVE  PopListF(Join(m)) = Join(Front(m)) /\ Front(m) \in Lists
  <2>1. PICK q \in Seq(Seq(Chars)), x \in Seq(Chars) : m = Append(q, x)
    BY <1>1, <1>4, SequenceEmptyOrAppend
  <2>2. Front(m) = q /\ q \in Lists
    BY <2>1, FrontOfAppend, ListsAppend DEF Front
  <2>3. Len(m) = Len(q) + 1 /\ Len(q) \in Nat /\ m[Len(m)] = x
    BY <2>1
  <2>4. CASE q = <<>>
    BY <1>3, <2>2, <2>3, <2>4, JoinOfSome
  <2>5. CASE q # <<>>
    <3>1. Join(m) = Join(q) \o Comma \o x
      BY <2>1, <2>5, JoinAppend
    <3>2. SubstringIndex(Join(m), -1) = x
      <4>1. 1 \in 0..Len(m)
        BY <2>3
      <4>2. SubstringIndex(Join(m), -1) = Join(SubSeq(m, Len(m) - 1 + 1, Len(m)))
        BY <1>4, <4>1, SubstringIndexIs
      <4>3. Len(m) - 1 + 1 = Len(m) /\ Len(m) \in 1..Len(m)
        BY <2>3
      <4>4. SubSeq(m, Len(m), Len(m)) = <<x>>
        <5>1. \A i \in Len(m)..Len(m) : m[i] \in Seq(Chars)
          BY <1>1, <4>3
        <5>2. /\ SubSeq(m, Len(m), Len(m)) \in Seq(Seq(Chars))
              /\ Len(SubSeq(m, Len(m), Len(m))) = 1
              /\ SubSeq(m, Len(m), Len(m))[1] = m[Len(m)]
          <6>1. Len(m) \in Int /\ Len(m) - Len(m) + 1 = 1 /\ Len(m) + 1 - 1 = Len(m)
            BY <1>2
          <6>2. /\ SubSeq(m, Len(m), Len(m)) \in Seq(Seq(Chars))
                /\ Len(SubSeq(m, Len(m), Len(m))) = Len(m) - Len(m) + 1
                /\ \A i \in 1..Len(m) - Len(m) + 1 :
                      SubSeq(m, Len(m), Len(m))[i] = m[Len(m) + i - 1]
            BY <5>1, <6>1, SubSeqProperties
          <6> QED
            BY <6>1, <6>2
        <5>3. /\ <<x>> \in Seq(Seq(Chars)) /\ Len(<<x>>) = 1 /\ <<x>>[1] = x
          BY OneElement
        <5> DEFINE l == SubSeq(m, Len(m), Len(m))
                   r == <<x>>
        <5>4. l \in Seq(Seq(Chars)) /\ Len(l) = 1 /\ l[1] = x
          BY <2>3, <5>2
        <5> HIDE DEF l, r
        <5>5. r \in Seq(Seq(Chars)) /\ Len(r) = 1 /\ r[1] = x
          BY <5>3 DEF r
        <5>6. l = r
          BY <5>4, <5>5, SeqEqual
        <5> QED
          BY <5>6 DEF l, r
      <4>5. <<x>> = Append(<<>>, x) /\ <<>> \in Seq(Seq(Chars))
        BY AppendMember
      <4> QED
        BY <4>2, <4>3, <4>4, <4>5, JoinAppend
    <3>a. Join(q) \in Seq(Chars) /\ Join(q) # <<>>
      BY <2>2, <2>5, JoinOfSome
    <3>b. Len(Join(q)) \in Nat /\ Len(x) \in Nat
      BY <3>a
    <3>c. Comma \in Seq(Chars) /\ Len(Comma) = 1
      BY CommaIsText
    <3>3. /\ Join(q) \in Seq(Chars) /\ Join(q) # <<>> /\ Len(Join(q)) \in Nat
          /\ Len(x) \in Nat /\ Comma \in Seq(Chars) /\ Len(Comma) = 1
      BY <3>a, <3>b, <3>c
    <3>d. Comma \o x \in Seq(Chars) /\ Len(Comma \o x) = 1 + Len(x)
      BY <3>3, Concat
    <3>e. (Join(q) \o Comma) \o x = Join(q) \o (Comma \o x)
      BY <3>3, Regroup
    <3>4. Join(m) = Join(q) \o (Comma \o x) /\ Comma \o x \in Seq(Chars)
          /\ Len(Comma \o x) = 1 + Len(x)
      BY <3>1, <3>d, <3>e
    <3>5. Len(Join(m)) = Len(Join(q)) + (1 + Len(x))
      <4> DEFINE b == Comma \o x
      <4>1. b \in Seq(Chars) /\ Len(b) = 1 + Len(x) /\ Join(m) = Join(q) \o b
        BY <3>4
      <4> HIDE DEF b
      <4>2. Len(Join(q) \o b) = Len(Join(q)) + Len(b)
        BY <3>3, <4>1, Concat
      <4> QED
        BY <4>1, <4>2
    <3>6. Len(Join(m)) - Len(x) - 1 = Len(Join(q)) /\ Len(Join(q)) > 0
      BY <3>3, <3>5
    <3>7. SubSeq(Join(m), 1, Len(Join(q))) = Join(q)
      <4>1. 1 \in 1..Len(Join(q)) /\ Len(Join(q)) \in 1..Len(Join(q))
        BY <3>3, <3>6
      <4>2. SubSeq(Join(q) \o (Comma \o x), 1, Len(Join(q))) = SubSeq(Join(q), 1, Len(Join(q)))
        BY <3>3, <3>4, <4>1, SubSeqOfConcat1
      <4>3. SubSeq(Join(q), 1, Len(Join(q))) = Join(q)
        BY <3>3, SubSeqFull
      <4> QED
        BY <3>4, <4>2, <4>3
    <3>8. Commas(Join(m)) # {}
      <4>1. Len(q) # 0
        BY <2>5
      <4> QED
        BY <1>2, <2>3, <4>1
    <3> QED
      BY <2>2, <3>2, <3>6, <3>7, <3>8 DEF PopListF
  <2> QED
    BY <2>4, <2>5
<1>5. m = <<>> => Len(m) <= 1
  BY <1>2
<1> QED
  BY <1>3, <1>4, <1>5

LEMMA ListFacts ==
    ASSUME NEW m \in Lists
    PROVE  /\ m \in Seq(Seq(Chars)) /\ Len(m) \in Nat
           /\ m = <<>> <=> Len(m) = 0
           /\ \A i \in 1..Len(m) : m[i] \in Seq(Chars) /\ m[i] # <<>> /\ Commas(m[i]) = {}
<1>1. m \in Seq(Seq(Chars))
  BY DEF Lists
<1>2. Len(m) \in Nat /\ (m = <<>> <=> Len(m) = 0) /\ \A i \in 1..Len(m) : m[i] \in Seq(Chars)
  BY <1>1
<1>3. \A i \in 1..Len(m) : m[i] # <<>> /\ Commas(m[i]) = {}
  BY DEF Lists, Solid, NoCommas
<1> QED
  BY <1>1, <1>2, <1>3

LEMMA OneMember ==
    ASSUME NEW x \in Seq(Chars), x # <<>>, Commas(x) = {}
    PROVE  <<x>> \in Lists /\ Join(<<x>>) = x
<1>1. Append(<<>>, x) = <<x>> /\ <<>> \in Seq(Seq(Chars))
  BY AppendMember
<1>2. Append(<<>>, x) \in Lists
  BY <1>1, ListsAppend
<1>3. Join(Append(<<>>, x)) = x
  BY <1>1, JoinAppend
<1> QED
  BY <1>1, <1>2, <1>3

LEMMA HeadAndTail ==
    ASSUME NEW V, NEW m \in Seq(V), m # <<>>
    PROVE  m = <<m[1]>> \o Tail(m) /\ Tail(m) \in Seq(V) /\ Len(Tail(m)) = Len(m) - 1
<1>1. /\ Tail(m) \in Seq(V) /\ Len(Tail(m)) = Len(m) - 1
      /\ \A i \in 1..Len(Tail(m)) : Tail(m)[i] = m[i + 1]
  BY HeadTailProperties
<1>2. Len(m) \in Nat /\ Len(m) > 0 /\ m[1] \in V
  OBVIOUS
<1>3. <<m[1]>> \in Seq(V) /\ Len(<<m[1]>>) = 1 /\ <<m[1]>>[1] = m[1]
  BY <1>2, OneElement
<1> DEFINE a == <<m[1]>>
           t == Tail(m)
<1> HIDE DEF a, t
<1>4. /\ a \o t \in Seq(V) /\ Len(a \o t) = Len(m)
      /\ \A i \in 1..Len(m) : (a \o t)[i] = IF i <= 1 THEN a[i] ELSE t[i - 1]
  BY <1>1, <1>2, <1>3, ConcatProperties DEF a, t
<1>5. ASSUME NEW i \in 1..Len(m) PROVE (a \o t)[i] = m[i]
  <2>1. CASE i <= 1
    BY <1>2, <1>3, <1>4, <2>1 DEF a
  <2>2. CASE ~(i <= 1)
    <3>1. i - 1 \in 1..Len(t) /\ (i - 1) + 1 = i
      BY <1>1, <1>2, <2>2 DEF t
    <3> QED
      BY <1>1, <1>4, <2>2, <3>1 DEF t
  <2> QED
    BY <2>1, <2>2
<1>6. a \o t = m
  BY <1>4, <1>5, SeqEqual
<1> QED
  BY <1>1, <1>6 DEF a, t

LEMMA AfterBeginning ==
    ASSUME NEW V, NEW a \in Seq(V), NEW b \in Seq(V), Len(b) >= 1
    PROVE  SubSeq(a \o b, Len(a) + 1, Len(a) + Len(b)) = b
<1>1. Len(a) \in Nat /\ Len(b) \in Nat
  BY LenProperties
<1>2. /\ Len(a) + 1 \in Len(a) + 1..Len(a) + Len(b)
      /\ Len(a) + Len(b) \in Len(a) + 1..Len(a) + Len(b)
      /\ Len(a) + 1 - Len(a) = 1 /\ Len(a) + Len(b) - Len(a) = Len(b)
  BY <1>1
<1>3. SubSeq(a \o b, Len(a) + 1, Len(a) + Len(b))
        = SubSeq(b, Len(a) + 1 - Len(a), Len(a) + Len(b) - Len(a))
  BY <1>2, SubSeqOfConcat2
<1> QED
  BY <1>2, <1>3, SubSeqFull

LEMMA ConcatAt ==
    ASSUME NEW V, NEW a \in Seq(V), NEW b \in Seq(V)
    PROVE  /\ a \o b \in Seq(V) /\ Len(a \o b) = Len(a) + Len(b)
           /\ Len(a) \in Nat /\ Len(b) \in Nat
           /\ \A i \in 1..Len(a) : (a \o b)[i] = a[i]
           /\ \A i \in 1..Len(b) : (a \o b)[Len(a) + i] = b[i]
OBVIOUS

Sep == ","

LEMMA CommasAre ==
    ASSUME NEW s \in Seq(Chars)
    PROVE  \A i : i \in Commas(s) <=> i \in 1..Len(s) /\ s[i] = Sep
<1>1. DOMAIN s = 1..Len(s)
  OBVIOUS
<1> QED
  BY <1>1 DEF Commas, Sep

LEMMA CommaAt == Comma \in Seq(Chars) /\ Len(Comma) = 1 /\ Comma[1] = Sep
BY CommaIsText DEF Sep

LEMMA PopLeftIs ==
    ASSUME NEW m \in Lists
    PROVE  /\ m = <<>> => PopLeftListF(Join(m)) = <<>>
           /\ m # <<>> => /\ PopLeftListF(Join(m)) = Join(Tail(m))
                          /\ Tail(m) \in Lists
<1>1. /\ m \in Seq(Seq(Chars)) /\ Len(m) \in Nat /\ (m = <<>> <=> Len(m) = 0)
      /\ \A i \in 1..Len(m) : m[i] \in Seq(Chars) /\ m[i] # <<>> /\ Commas(m[i]) = {}
  BY ListFacts
<1>2. Commas(Join(m)) = {} <=> Len(m) <= 1
  BY CommasOfList
<1>3. ASSUME Len(m) <= 1 PROVE PopLeftListF(Join(m)) = <<>>
  BY <1>2, <1>3 DEF PopLeftListF
<1>4. ASSUME m # <<>>
      PROVE  PopLeftListF(Join(m)) = Join(Tail(m)) /\ Tail(m) \in Lists
  <2> DEFINE h == m[1]
             t == Tail(m)
  <2>1. /\ m = <<h>> \o t /\ t \in Seq(Seq(Chars)) /\ Len(t) = Len(m) - 1
    BY <1>1, <1>4, HeadAndTail
  <2>2. h \in Seq(Chars) /\ h # <<>> /\ Commas(h) = {}
    <3>1. 1 \in 1..Len(m)
      BY <1>1, <1>4
    <3> QED
      BY <1>1, <3>1
  <2>3. t \in Lists
    <3>1. \A i \in 1..Len(t) : i + 1 \in 1..Len(m) /\ t[i] = m[i + 1]
      BY <1>1, <1>4, <2>1, HeadTailProperties
    <3> HIDE DEF t
    <3> QED
      BY <2>1, <3>1, ListsMade
  <2> HIDE DEF h, t
  <2>4. <<h>> \in Lists /\ Join(<<h>>) = h
    BY <2>2, OneMember
  <2>5. CASE Len(m) <= 1
    <3>1. t = <<>>
      BY <1>1, <1>4, <2>1, <2>5
    <3> QED
      BY <1>3, <2>3, <2>5, <3>1, JoinOfSome DEF t
  <2>6. CASE ~(Len(m) <= 1)
    <3>1. t # <<>> /\ <<h>> # <<>> /\ <<h>> \in Seq(Seq(Chars))
      BY <1>1, <2>1, <2>4, <2>6 DEF Lists
    <3> DEFINE u == h \o Comma
               s == Join(m)
               j == Join(t)
    <3>2. s = u \o j
      BY <2>1, <2>4, <3>1, JoinConcat
    <3>3. Comma \in Seq(Chars) /\ Len(Comma) = 1 /\ Comma[1] = Sep
      BY CommaAt
    <3>4. /\ u \in Seq(Chars) /\ Len(u) = Len(h) + 1 /\ Len(h) \in Nat
          /\ \A i \in 1..Len(h) : u[i] = h[i]
          /\ u[Len(h) + 1] = Sep
      <4>1. /\ u \in Seq(Chars) /\ Len(u) = Len(h) + Len(Comma) /\ Len(h) \in Nat
            /\ \A i \in 1..Len(h) : u[i] = h[i]
            /\ \A i \in 1..Len(Comma) : u[Len(h) + i] = Comma[i]
        <5>1. h \in Seq(Chars) /\ Comma \in Seq(Chars)
          BY <2>2, <3>3
        <5> QED
          BY <5>1, ConcatAt
      <4>2. 1 \in 1..Len(Comma)
        BY <3>3
      <4> HIDE DEF u
      <4> QED
        BY <3>3, <4>1, <4>2
    <3>5. j \in Seq(Chars) /\ j # <<>>
      BY <2>3, <3>1, JoinOfSome
    <3> HIDE DEF u, s, j
    <3>6. /\ s \in Seq(Chars) /\ Len(s) = Len(u) + Len(j) /\ Len(j) \in Nat
          /\ \A i \in 1..Len(u) : s[i] = u[i]
      BY <3>2, <3>4, <3>5, ConcatAt
    <3>7. Len(h) + 1 \in Commas(s)
      <4>1. Len(h) + 1 \in 1..Len(u) /\ Len(h) + 1 \in 1..Len(s)
        BY <3>4, <3>6
      <4> QED
        BY <3>4, <3>6, <4>1, CommasAre
    <3>8. ASSUME NEW i \in Commas(s) PROVE i \in Nat /\ Len(h) + 1 <= i
      <4>1. s[i] = Sep /\ i \in 1..Len(s)
        BY <3>6, CommasAre
      <4>2. CASE i \in 1..Len(h)
        <5>1. i \in 1..Len(u)
          BY <3>4, <4>2
        <5>2. h[i] = Sep
          BY <3>4, <3>6, <4>1, <4>2, <5>1
        <5>3. i \in Commas(h)
          BY <2>2, <4>2, <5>2, CommasAre
        <5> QED
          BY <2>2, <5>3
      <4>3. CASE i \notin 1..Len(h)
        BY <3>4, <4>1, <4>3
      <4> QED
        BY <4>2, <4>3
    <3> DEFINE first == CHOOSE i \in Commas(s) : \A k \in Commas(s) : i <= k
    <3>9. first = Len(h) + 1
      <4>1. first \in Commas(s) /\ \A k \in Commas(s) : first <= k
        BY <3>7, <3>8
      <4> HIDE DEF first
      <4>2. first <= Len(h) + 1 /\ Len(h) + 1 <= first /\ first \in Nat
        BY <3>7, <3>8, <4>1
      <4> QED
        BY <3>4, <4>2
    <3>10. SubSeq(s, first + 1, Len(s)) = j
      <4>1. SubSeq(u \o j, Len(u) + 1, Len(u) + Len(j)) = j
        <5>1. u \in Seq(Chars) /\ j \in Seq(Chars) /\ Len(j) >= 1
          BY <3>4, <3>5
        <5> QED
          BY <5>1, AfterBeginning
      <4>2. first + 1 = Len(u) + 1
        <5> HIDE DEF first
        <5> QED
          BY <3>4, <3>6, <3>9
      <4> HIDE DEF first
      <4> QED
        BY <3>2, <3>6, <4>1, <4>2
    <3>11. Commas(s) # {}
      BY <3>7
    <3>12. PopLeftListF(s) = j
      BY <3>10, <3>11 DEF PopLeftListF
    <3> QED
      BY <2>3, <3>12 DEF s, j, t
  <2> QED
    BY <2>5, <2>6
<1>5. m = <<>> => Len(m) <= 1
  BY <1>1
<1> QED
  BY <1>3, <1>4, <1>5

\* FIND_IN_SET: the first of the members that are x, or 0.
FoundAt(m, x, p) ==
    \/ p = 0 /\ \A i \in 1..Len(m) : m[i] # x
    \/ p \in 1..Len(m) /\ m[p] = x /\ \A i \in 1..p - 1 : m[i] # x

LEMMA FindIs ==
    ASSUME NEW m \in Lists, NEW x
    PROVE  FoundAt(m, x, FindInSet(x, Join(m)))
<1> DEFINE at == {i \in DOMAIN m : m[i] = x}
           first == CHOOSE i \in at : \A j \in at : i <= j
<1>1. MembersOf(Join(m)) = m
  BY MembersOfJoin
<1>2. FindInSet(x, Join(m)) = IF at = {} THEN 0 ELSE first
  BY <1>1 DEF FindInSet
<1>3. DOMAIN m = 1..Len(m) /\ Len(m) \in Nat
  BY ListFacts
<1>4. \A i : i \in at <=> i \in 1..Len(m) /\ m[i] = x
  BY <1>3
<1> HIDE DEF at
<1>5. CASE at = {}
  BY <1>2, <1>4, <1>5 DEF FoundAt
<1>6. CASE at # {}
  <2>1. \E i \in at : \A j \in at : i <= j
    <3>1. at \subseteq Nat
      BY <1>3, <1>4
    <3> QED
      BY <1>6, <3>1, Least
  <2>2. first \in at /\ \A j \in at : first <= j
    BY <2>1
  <2> HIDE DEF first
  <2>3. first \in 1..Len(m) /\ m[first] = x
    BY <1>4, <2>2
  <2>4. ASSUME NEW i \in 1..first - 1 PROVE m[i] # x
    <3>1. i \in 1..Len(m) /\ ~(first <= i)
      BY <1>3, <2>3
    <3> QED
      BY <1>4, <2>2, <3>1
  <2> QED
    BY <1>2, <1>6, <2>3, <2>4 DEF FoundAt
<1> QED
  BY <1>5, <1>6

LEMMA RangeIs ==
    ASSUME NEW V, NEW m \in Seq(V)
    PROVE  \A x : x \in Range(m) <=> \E i \in 1..Len(m) : m[i] = x
<1>1. DOMAIN m = 1..Len(m)
  OBVIOUS
<1> QED
  BY <1>1 DEF Range

\* SetF's add
LEMMA AddIs ==
    ASSUME NEW m \in Lists, NEW x \in Items
    PROVE  AddSetF(Join(m), x) = IF x \in Range(m) THEN Join(m) ELSE Join(Append(m, x))
<1> DEFINE p == FindInSet(x, Join(m))
<1>1. FoundAt(m, x, p)
  BY FindIs
<1>2. AddSetF(Join(m), x) = IF p # 0 THEN Join(m) ELSE AppendListF(Join(m), x)
  BY DEF AddSetF, AppendListF
<1>3. AppendListF(Join(m), x) = Join(Append(m, x))
  BY AppendIs
<1>4. m \in Seq(Seq(Chars)) /\ Len(m) \in Nat
  BY ListFacts
<1> HIDE DEF p
<1>5. p = 0 <=> x \notin Range(m)
  BY <1>1, <1>4, RangeIs DEF FoundAt
<1> QED
  BY <1>2, <1>3, <1>5

\* A list without its member at p
Without(m, p) == SubSeq(m, 1, p - 1) \o SubSeq(m, p + 1, Len(m))

CutAt(V, m, p, a, b, c) ==
    /\ a \in Seq(V) /\ Len(a) = p - 1 /\ \A i \in 1..p - 1 : a[i] = m[i]
    /\ b \in Seq(V) /\ Len(b) = Len(m) - p /\ \A i \in 1..Len(m) - p : b[i] = m[p + i]
    /\ c \in Seq(V) /\ Len(c) = Len(m) - 1
    /\ \A i \in 1..p - 1 : c[i] = m[i]
    /\ \A i \in p..Len(m) - 1 : c[i] = m[i + 1]

LEMMA WithoutIs ==
    ASSUME NEW V, NEW m \in Seq(V), NEW p \in 1..Len(m)
    PROVE  CutAt(V, m, p, SubSeq(m, 1, p - 1), SubSeq(m, p + 1, Len(m)), Without(m, p))
<1> DEFINE a == SubSeq(m, 1, p - 1)
           b == SubSeq(m, p + 1, Len(m))
<1>1. Len(m) \in Nat /\ p \in Int /\ p - 1 \in Int /\ p + 1 \in Int
      /\ \A i \in 1..Len(m) : m[i] \in V
  OBVIOUS
<1>2. /\ a \in Seq(V) /\ Len(a) = p - 1
      /\ \A i \in 1..p - 1 : a[i] = m[i]
  <2>1. \A i \in 1..p - 1 : m[i] \in V
    BY <1>1
  <2>2. /\ a \in Seq(V) /\ Len(a) = IF 1 <= p - 1 THEN (p - 1) - 1 + 1 ELSE 0
        /\ \A i \in 1..(p - 1) - 1 + 1 : a[i] = m[1 + i - 1]
    BY <1>1, <2>1, SubSeqProperties
  <2> HIDE DEF a
  <2>3. (IF 1 <= p - 1 THEN (p - 1) - 1 + 1 ELSE 0) = p - 1 /\ (p - 1) - 1 + 1 = p - 1
    BY <1>1
  <2>4. \A i \in 1..p - 1 : 1 + i - 1 = i
    BY <1>1
  <2> QED
    BY <2>2, <2>3, <2>4
<1>3. /\ b \in Seq(V) /\ Len(b) = Len(m) - p
      /\ \A i \in 1..Len(m) - p : b[i] = m[p + i]
  <2>1. \A i \in p + 1..Len(m) : m[i] \in V
    BY <1>1
  <2>2. /\ b \in Seq(V)
        /\ Len(b) = IF p + 1 <= Len(m) THEN Len(m) - (p + 1) + 1 ELSE 0
        /\ \A i \in 1..Len(m) - (p + 1) + 1 : b[i] = m[p + 1 + i - 1]
    BY <1>1, <2>1, SubSeqProperties
  <2> HIDE DEF b
  <2>3. /\ (IF p + 1 <= Len(m) THEN Len(m) - (p + 1) + 1 ELSE 0) = Len(m) - p
        /\ Len(m) - (p + 1) + 1 = Len(m) - p
    BY <1>1
  <2>4. \A i \in 1..Len(m) - p : p + 1 + i - 1 = p + i
    BY <1>1
  <2> QED
    BY <2>2, <2>3, <2>4
<1> HIDE DEF a, b
<1>4. /\ a \o b \in Seq(V) /\ Len(a \o b) = Len(m) - 1
      /\ \A i \in 1..p - 1 : (a \o b)[i] = m[i]
      /\ \A i \in 1..Len(m) - p : (a \o b)[(p - 1) + i] = m[p + i]
  <2>1. /\ a \o b \in Seq(V) /\ Len(a \o b) = Len(a) + Len(b)
        /\ \A i \in 1..Len(a) : (a \o b)[i] = a[i]
        /\ \A i \in 1..Len(b) : (a \o b)[Len(a) + i] = b[i]
    <3>1. a \in Seq(V) /\ b \in Seq(V)
      BY <1>2, <1>3
    <3> QED
      BY <3>1, ConcatAt
  <2> QED
    BY <1>1, <1>2, <1>3, <2>1
<1>5. ASSUME NEW i \in p..Len(m) - 1 PROVE (a \o b)[i] = m[i + 1]
  <2>1. PICK k : k = i - p + 1
    OBVIOUS
  <2>2. k \in 1..Len(m) - p /\ (p - 1) + k = i /\ p + k = i + 1
    BY <1>1, <2>1
  <2>3. (a \o b)[(p - 1) + k] = m[p + k]
    BY <1>4, <2>2
  <2> QED
    BY <2>2, <2>3
<1> QED
  BY <1>2, <1>3, <1>4, <1>5 DEF CutAt, Without, a, b

\* SetF's remove, of any list: the first of the members that are x goes.
LEMMA RemoveIs ==
    ASSUME NEW m \in Lists, NEW x
    PROVE  \/ /\ x \notin Range(m) /\ RemoveSetF(Join(m), x) = Join(m)
           \/ \E p \in 1..Len(m) : /\ m[p] = x /\ Without(m, p) \in Lists
                                   /\ RemoveSetF(Join(m), x) = Join(Without(m, p))
<1> DEFINE s == Join(m)
           p == FindInSet(x, s)
           n == Cardinality(Commas(s)) + (IF s = <<>> THEN 0 ELSE 1)
           before == SubstringIndex(s, p - 1)
           after == SubstringIndex(s, -(n - p))
<1>1. FoundAt(m, x, p)
  BY FindIs
<1>2. /\ m \in Seq(Seq(Chars)) /\ Len(m) \in Nat
  BY ListFacts
<1>3. n = Len(m)
  BY CommasOfList DEF SetLength
<1>4. RemoveSetF(s, x) = IF p = 0 THEN s
                         ELSE ConcatWs(NullIfEmpty(before), NullIfEmpty(after))
  BY DEF RemoveSetF
<1> HIDE DEF p, n
<1>5. CASE p = 0
  BY <1>1, <1>2, <1>4, <1>5, RangeIs DEF FoundAt
<1>6. CASE p # 0
  <2>1. p \in 1..Len(m) /\ m[p] = x
    BY <1>1, <1>6 DEF FoundAt
  <2>2. m # <<>> /\ p - 1 \in 0..Len(m) /\ n - p \in 0..Len(m)
    BY <1>2, <1>3, <2>1
  <2> DEFINE a == SubSeq(m, 1, p - 1)
             b == SubSeq(m, p + 1, Len(m))
  <2>3. before = Join(a)
    BY <2>2, SubstringIndexIs
  <2>4. after = Join(b)
    <3>1. after = Join(SubSeq(m, Len(m) - (n - p) + 1, Len(m)))
      BY <2>2, SubstringIndexIs
    <3>2. Len(m) - (n - p) + 1 = p + 1
      BY <1>2, <1>3, <2>1
    <3> QED
      BY <3>1, <3>2
  <2>5. a \in Lists /\ b \in Lists
    <3>1. /\ a \in Seq(Seq(Chars)) /\ b \in Seq(Seq(Chars))
          /\ Len(a) = p - 1 /\ Len(b) = Len(m) - p
          /\ \A i \in 1..p - 1 : a[i] = m[i]
          /\ \A i \in 1..Len(m) - p : b[i] = m[p + i]
      <4>1. CutAt(Seq(Chars), m, p, a, b, Without(m, p))
        BY <1>2, <2>1, WithoutIs
      <4> HIDE DEF a, b
      <4> QED
        BY <4>1 DEF CutAt
    <3> HIDE DEF a, b
    <3>2. \A i \in 1..Len(a) : i \in 1..Len(m) /\ a[i] = m[i]
      BY <1>2, <2>1, <3>1
    <3>3. \A i \in 1..Len(b) : p + i \in 1..Len(m) /\ b[i] = m[p + i]
      BY <1>2, <2>1, <3>1
    <3>4. a \in Lists
      BY <3>1, <3>2, ListsMade
    <3>5. b \in Lists
      BY <3>1, <3>3, ListsMade
    <3> QED
      BY <3>4, <3>5
  <2> HIDE DEF a, b, before, after
  <2>6. ConcatWs(NullIfEmpty(Join(a)), NullIfEmpty(Join(b))) = Join(a \o b)
        /\ a \o b \in Lists
    BY <2>5, ConcatWsOfLists, ListsConcat
  <2>7. RemoveSetF(s, x) = Join(a \o b)
    BY <1>4, <1>6, <2>3, <2>4, <2>6
  <2>8. a \o b = Without(m, p)
    BY DEF Without, a, b
  <2> QED
    BY <2>1, <2>6, <2>7, <2>8
<1> QED
  BY <1>5, <1>6

-----------------------------------------------------------------------------
(* Sets, and the lists of their members in some order *)

Distinct(m) == \A i, j \in 1..Len(m) : m[i] = m[j] => i = j

LEMMA DistinctAppend ==
    ASSUME NEW V, NEW m \in Seq(V), NEW x \in V
    PROVE  /\ Range(Append(m, x)) = Range(m) \cup {x}
           /\ Distinct(m) /\ x \notin Range(m) => Distinct(Append(m, x))
<1> DEFINE a == Append(m, x)
<1>1. /\ a \in Seq(V) /\ Len(a) = Len(m) + 1 /\ Len(m) \in Nat
      /\ \A i \in 1..Len(m) : a[i] = m[i]
      /\ a[Len(m) + 1] = x
  OBVIOUS
<1> HIDE DEF a
<1>2. \A i : i \in 1..Len(a) <=> i \in 1..Len(m) \/ i = Len(m) + 1
  BY <1>1
<1>3. \A y : y \in Range(a) <=> \E i \in 1..Len(a) : a[i] = y
  BY <1>1, RangeIs
<1>4. \A y : y \in Range(m) <=> \E i \in 1..Len(m) : m[i] = y
  BY RangeIs
<1>5. \A y : y \in Range(a) <=> y \in Range(m) \/ y = x
  BY <1>1, <1>2, <1>3, <1>4
<1>6. Distinct(m) /\ x \notin Range(m) => Distinct(a)
  BY <1>1, <1>2, <1>4 DEF Distinct
<1> QED
  BY <1>5, <1>6 DEF a

LEMMA DistinctWithout ==
    ASSUME NEW V, NEW m \in Seq(V), Distinct(m), NEW p \in 1..Len(m)
    PROVE  /\ Distinct(Without(m, p))
           /\ Range(Without(m, p)) = Range(m) \ {m[p]}
<1> DEFINE c == Without(m, p)
           from(i) == IF i < p THEN i ELSE i + 1
<1>1. CutAt(V, m, p, SubSeq(m, 1, p - 1), SubSeq(m, p + 1, Len(m)), c)
  BY WithoutIs
<1>2. /\ c \in Seq(V) /\ Len(c) = Len(m) - 1 /\ Len(m) \in Nat
      /\ \A i \in 1..p - 1 : c[i] = m[i]
      /\ \A i \in p..Len(m) - 1 : c[i] = m[i + 1]
  BY <1>1 DEF CutAt
<1> HIDE DEF c
<1>3. ASSUME NEW i \in 1..Len(c)
      PROVE  from(i) \in 1..Len(m) /\ from(i) # p /\ c[i] = m[from(i)]
  <2>1. CASE i < p
    <3>1. i \in 1..p - 1 /\ i \in 1..Len(m)
      BY <2>1
    <3> QED
      BY <1>2, <2>1, <3>1
  <2>2. CASE ~(i < p)
    <3>1. i \in p..Len(m) - 1 /\ i + 1 \in 1..Len(m) /\ i + 1 # p
      BY <1>2, <2>2
    <3> QED
      BY <1>2, <2>2, <3>1
  <2> QED
    BY <2>1, <2>2
<1>4. \A i, j \in 1..Len(c) : from(i) = from(j) => i = j
  BY <1>2
<1>5. ASSUME NEW k \in 1..Len(m), k # p
      PROVE  \E i \in 1..Len(c) : from(i) = k
  <2>1. CASE k < p
    <3>1. k \in 1..Len(c) /\ from(k) = k
      BY <1>2, <2>1
    <3> QED
      BY <3>1
  <2>2. CASE ~(k < p)
    <3>1. k - 1 \in 1..Len(c) /\ from(k - 1) = k
      BY <1>2, <1>5, <2>2
    <3> QED
      BY <3>1
  <2> QED
    BY <2>1, <2>2
<1> HIDE DEF from
<1>6. Distinct(c)
  BY <1>3, <1>4 DEF Distinct
<1>7. \A y : y \in Range(c) <=> \E i \in 1..Len(c) : c[i] = y
  BY <1>2, RangeIs
<1>8. \A y : y \in Range(m) <=> \E i \in 1..Len(m) : m[i] = y
  BY RangeIs
<1>9. \A i \in 1..Len(m) : m[i] = m[p] => i = p
  BY DEF Distinct
<1>10. \A y : y \in Range(c) <=> y \in Range(m) /\ y # m[p]
  <2>1. ASSUME NEW i \in 1..Len(c) PROVE c[i] \in Range(m) /\ c[i] # m[p]
    <3>1. from(i) \in 1..Len(m) /\ from(i) # p /\ c[i] = m[from(i)]
      BY <1>3
    <3> QED
      BY <1>8, <1>9, <3>1
  <2>2. ASSUME NEW k \in 1..Len(m), m[k] # m[p] PROVE m[k] \in Range(c)
    <3>1. k # p
      BY <2>2
    <3>2. PICK i \in 1..Len(c) : from(i) = k
      BY <1>5, <3>1
    <3>3. c[i] = m[k]
      BY <1>3, <3>2
    <3> QED
      BY <1>7, <3>3
  <2> QED
    BY <1>7, <1>8, <2>1, <2>2
<1> QED
  BY <1>6, <1>10 DEF c

LEMMA DistinctSize ==
    ASSUME NEW V, NEW m \in Seq(V)
    PROVE  /\ IsFiniteSet(Range(m)) /\ Cardinality(Range(m)) \in Nat
           /\ Cardinality(Range(m)) <= Len(m)
           /\ Cardinality(Range(m)) = Len(m) <=> Distinct(m)
<1>1. Len(m) \in Nat /\ DOMAIN m = 1..Len(m) /\ m \in [1..Len(m) -> V]
  BY LenProperties
<1>2. m \in Surjection(1..Len(m), Range(m))
  BY <1>1 DEF Surjection, Range
<1>3. IsFiniteSet(1..Len(m)) /\ Cardinality(1..Len(m)) = Len(m)
  <2>1. 1 \in Int /\ Len(m) \in Int
    BY <1>1
  <2>2. IsFiniteSet(1..Len(m))
        /\ Cardinality(1..Len(m)) = IF 1 > Len(m) THEN 0 ELSE Len(m) - 1 + 1
    BY <2>1, FS_Interval
  <2> QED
    BY <1>1, <2>2
<1>4. /\ IsFiniteSet(Range(m))
      /\ Cardinality(Range(m)) <= Cardinality(1..Len(m))
      /\ Cardinality(Range(m)) = Cardinality(1..Len(m))
             <=> m \in Injection(1..Len(m), Range(m))
  BY <1>2, <1>3, FS_Surjection
<1>5. m \in Injection(1..Len(m), Range(m)) <=> Distinct(m)
  BY <1>1, <1>2 DEF Injection, IsInjective, Surjection, Distinct
<1> QED
  BY <1>3, <1>4, <1>5, FS_CardinalityType

\* o lists the members of the set v in some order.
Orders(v, o) ==
    /\ o \in Seq(Seq(Chars)) /\ Len(o) = Cardinality(v) /\ Distinct(o) /\ Range(o) = v

LEMMA OrdersOfSet ==
    ASSUME NEW v, v \subseteq Seq(Chars), IsFiniteSet(v)
    PROVE  /\ \A o \in SetToSeqs(v) : Orders(v, o)
           /\ SetToSeq(v) \in SetToSeqs(v)
<1> DEFINE n == Cardinality(v)
<1>1. n \in Nat /\ ExistsBijection(1..n, v)
  BY FS_CardinalityType
<1> HIDE DEF n
<1>2. IsFiniteSet(1..n) /\ Cardinality(1..n) = n
  <2>1. 1 \in Int /\ n \in Int
    BY <1>1
  <2>2. IsFiniteSet(1..n) /\ Cardinality(1..n) = IF 1 > n THEN 0 ELSE n - 1 + 1
    BY <2>1, FS_Interval
  <2> QED
    BY <1>1, <2>2
<1>3. ASSUME NEW o \in SetToSeqs(v) PROVE Orders(v, o)
  <2>1. o \in [1..n -> v] /\ \A i, j \in 1..n : i # j => o[i] # o[j]
    BY DEF SetToSeqs, n
  <2>2. DOMAIN o = 1..n /\ o \in Seq(Seq(Chars)) /\ Len(o) = n
    BY <1>1, <2>1
  <2>3. Distinct(o)
    BY <2>1, <2>2 DEF Distinct
  <2>4. o \in Injection(1..n, v)
    BY <2>1, <2>2 DEF Injection, IsInjective
  <2>5. o \in Surjection(1..n, v)
    BY <1>2, <2>4, FS_Injection DEF n
  <2>6. Range(o) = v
    BY <2>1, <2>2, <2>5 DEF Surjection, Range
  <2> QED
    BY <2>2, <2>3, <2>6 DEF Orders, n
<1>4. SetToSeq(v) \in SetToSeqs(v)
  <2>1. PICK f : f \in Bijection(1..n, v)
    BY <1>1 DEF ExistsBijection
  <2>2. f \in [1..n -> v] /\ IsInjective(f)
    BY <2>1 DEF Bijection, Injection
  <2>3. SetToSeq(v) \in [1..n -> v] /\ IsInjective(SetToSeq(v))
    BY <2>2 DEF SetToSeq, n
  <2> DEFINE o == SetToSeq(v)
  <2> HIDE DEF o
  <2>4. o \in [1..n -> v] /\ \A i, j \in 1..n : i # j => o[i] # o[j]
    BY <2>3 DEF IsInjective, o
  <2>5. SetToSeqs(v) = {f1 \in [1..n -> v] : \A i, j \in 1..n : i # j => f1[i] # f1[j]}
    BY DEF SetToSeqs, n
  <2>6. o \in SetToSeqs(v)
    BY <2>4, <2>5
  <2> QED
    BY <2>6 DEF o
<1> QED
  BY <1>3, <1>4

-----------------------------------------------------------------------------
(* How long the texts are *)

LEMMA LengthComma ==
    ASSUME NEW s \in Seq(Chars)
    PROVE  s \o Comma \in Seq(Chars) /\ Len(s \o Comma) = Len(s) + 1
<1>1. Comma \in Seq(Chars)
  BY CommaAt
<1>2. s \o Comma \in Seq(Chars) /\ Len(s \o Comma) = Len(s) + Len(Comma)
  BY <1>1, Concat
<1>3. Len(Comma) = 1
  BY CommaAt
<1> QED
  BY <1>2, <1>3

LEMMA LengthAppend ==
    ASSUME NEW m \in Seq(Seq(Chars)), NEW x \in Seq(Chars)
    PROVE  /\ Len(Join(Append(m, x))) =
                  IF m = <<>> THEN Len(x) ELSE Len(Join(m)) + 1 + Len(x)
           /\ Len(Join(m)) \in Nat /\ Len(x) \in Nat
<1>1. Join(m) \in Seq(Chars) /\ Comma \in Seq(Chars) /\ Len(Comma) = 1
  BY JoinIsText, CommaIsText
<1>2. Len(Join(m)) \in Nat /\ Len(x) \in Nat
  BY <1>1
<1>3. CASE m = <<>>
  BY <1>2, <1>3, JoinAppend
<1>4. CASE m # <<>>
  <2>1. Join(Append(m, x)) = (Join(m) \o Comma) \o x
    BY <1>4, JoinAppend
  <2>2. Join(m) \o Comma \in Seq(Chars) /\ Len(Join(m) \o Comma) = Len(Join(m)) + 1
    BY <1>1, LengthComma
  <2>3. Len((Join(m) \o Comma) \o x) = Len(Join(m) \o Comma) + Len(x)
    BY <2>2, Concat
  <2> QED
    BY <1>2, <1>4, <2>1, <2>2, <2>3
<1> QED
  BY <1>3, <1>4

LEMMA LengthConcat ==
    ASSUME NEW a \in Seq(Seq(Chars)), NEW b \in Seq(Seq(Chars))
    PROVE  /\ Len(Join(a \o b)) = IF a = <<>> THEN Len(Join(b))
                                  ELSE IF b = <<>> THEN Len(Join(a))
                                  ELSE Len(Join(a)) + 1 + Len(Join(b))
           /\ Len(Join(a)) \in Nat /\ Len(Join(b)) \in Nat
<1>1. Join(a) \in Seq(Chars) /\ Join(b) \in Seq(Chars)
      /\ Comma \in Seq(Chars) /\ Len(Comma) = 1
  BY JoinIsText, CommaIsText
<1>2. Len(Join(a)) \in Nat /\ Len(Join(b)) \in Nat
  BY <1>1
<1>3. Join(a) \o Comma \in Seq(Chars) /\ Len(Join(a) \o Comma) = Len(Join(a)) + 1
  BY <1>1, LengthComma
<1>4. Len((Join(a) \o Comma) \o Join(b)) = Len(Join(a) \o Comma) + Len(Join(b))
  BY <1>1, <1>3, Concat
<1> QED
  BY <1>2, <1>3, <1>4, JoinConcat

\* What a member adds to the length of the text
LEMMA LengthWithout ==
    ASSUME NEW m \in Seq(Seq(Chars)), NEW p \in 1..Len(m)
    PROVE  Len(Join(m)) = Len(Join(Without(m, p))) + Len(m[p])
                              + (IF Len(m) = 1 THEN 0 ELSE 1)
<1> DEFINE a == SubSeq(m, 1, p - 1)
           b == SubSeq(m, p + 1, Len(m))
           x == m[p]
<1>1. CutAt(Seq(Chars), m, p, a, b, Without(m, p))
  BY WithoutIs
<1>2. x \in Seq(Chars) /\ Len(m) \in Nat /\ Without(m, p) = a \o b
  BY DEF Without
<1> HIDE DEF a, b, x
<1>3. /\ a \in Seq(Seq(Chars)) /\ Len(a) = p - 1
      /\ b \in Seq(Seq(Chars)) /\ Len(b) = Len(m) - p
      /\ \A i \in 1..p - 1 : a[i] = m[i]
      /\ \A i \in 1..Len(m) - p : b[i] = m[p + i]
  BY <1>1 DEF CutAt
<1> DEFINE l == Append(a, x)
<1>4. /\ l \in Seq(Seq(Chars)) /\ Len(l) = p /\ l[p] = x
      /\ \A i \in 1..p - 1 : l[i] = a[i]
  BY <1>2, <1>3
<1> HIDE DEF l
<1>5. m = l \o b
  <2>1. /\ l \o b \in Seq(Seq(Chars)) /\ Len(l \o b) = Len(l) + Len(b)
        /\ \A i \in 1..Len(l) : (l \o b)[i] = l[i]
        /\ \A i \in 1..Len(b) : (l \o b)[Len(l) + i] = b[i]
    <3>1. l \in Seq(Seq(Chars)) /\ b \in Seq(Seq(Chars))
      BY <1>3, <1>4
    <3> QED
      BY <3>1, ConcatAt
  <2>2. Len(l \o b) = Len(m)
    BY <1>2, <1>3, <1>4, <2>1
  <2>3. ASSUME NEW i \in 1..Len(m) PROVE (l \o b)[i] = m[i]
    <3>1. CASE i \in 1..p - 1
      BY <1>3, <1>4, <2>1, <3>1
    <3>2. CASE i = p
      BY <1>4, <2>1, <3>2 DEF x
    <3>3. CASE i \notin 1..p - 1 /\ i # p
      <4>1. PICK k : k = i - p
        OBVIOUS
      <4>2. k \in 1..Len(b) /\ k \in 1..Len(m) - p /\ p + k = i /\ Len(l) + k = i
        <5>1. i \in p + 1..Len(m)
          BY <1>2, <3>3
        <5>2. k \in 1..Len(m) - p /\ p + k = i
          BY <1>2, <4>1, <5>1
        <5> QED
          BY <1>3, <1>4, <5>2
      <4> QED
        BY <1>3, <2>1, <4>2, ZenonT(60)
    <3> QED
      BY <3>1, <3>2, <3>3
  <2> QED
    BY <2>1, <2>2, <2>3, SeqEqual
<1>6. l # <<>> /\ (a = <<>> <=> Len(a) = 0) /\ (b = <<>> <=> Len(b) = 0)
  BY <1>3, <1>4
<1>7. /\ Len(Join(l)) = IF a = <<>> THEN Len(x) ELSE Len(Join(a)) + 1 + Len(x)
      /\ Len(Join(a)) \in Nat /\ Len(x) \in Nat
  BY <1>2, <1>3, LengthAppend DEF l
<1>8. /\ Len(Join(l \o b)) = IF b = <<>> THEN Len(Join(l))
                             ELSE Len(Join(l)) + 1 + Len(Join(b))
      /\ Len(Join(b)) \in Nat
  BY <1>3, <1>4, <1>6, LengthConcat
<1>9. Len(Join(a \o b)) = IF a = <<>> THEN Len(Join(b))
                          ELSE IF b = <<>> THEN Len(Join(a))
                          ELSE Len(Join(a)) + 1 + Len(Join(b))
  BY <1>3, LengthConcat
<1>10. Join(<<>>) = <<>> /\ Len(<<>>) = 0
  BY <1>3, JoinIsText
<1>11. Len(m) = 1 <=> a = <<>> /\ b = <<>>
  <2>1. p \in Nat /\ 1 <= p /\ p <= Len(m) /\ Len(m) \in Nat
    BY <1>2
  <2>2. Len(m) = 1 => p = 1 /\ Len(a) = 0 /\ Len(b) = 0
    BY <1>3, <2>1
  <2>3. Len(a) = 0 /\ Len(b) = 0 => Len(m) = 1
    BY <1>3, <2>1
  <2> QED
    BY <1>6, <2>2, <2>3
<1> DEFINE la == Len(Join(a))
           lb == Len(Join(b))
           lx == Len(x)
<1>12. /\ la \in Nat /\ lb \in Nat /\ lx \in Nat
       /\ a = <<>> => la = 0
       /\ b = <<>> => lb = 0
  BY <1>7, <1>8, <1>10
<1>13. /\ Len(Join(l)) = IF a = <<>> THEN lx ELSE la + 1 + lx
       /\ Len(Join(m)) = IF b = <<>> THEN Len(Join(l)) ELSE Len(Join(l)) + 1 + lb
       /\ Len(Join(Without(m, p))) =
              IF a = <<>> THEN lb ELSE IF b = <<>> THEN la ELSE la + 1 + lb
  BY <1>2, <1>5, <1>7, <1>8, <1>9
<1> HIDE DEF la, lb, lx
<1>14. Len(Join(m)) = Len(Join(Without(m, p))) + lx
                          + (IF a = <<>> /\ b = <<>> THEN 0 ELSE 1)
  BY <1>12, <1>13
<1> QED
  BY <1>11, <1>14 DEF lx, x

\* The order of a set's members does not matter to the length of its text.
LEMMA SameLength ==
    ASSUME NEW v, NEW o, NEW r, Orders(v, o), Orders(v, r)
    PROVE  Len(Join(o)) = Len(Join(r))
<1> DEFINE L == {m \in Seq(Seq(Chars)) : Distinct(m)}
           S == {n \in Nat : \A f, g \in L :
                   Len(f) = n /\ Len(g) = n /\ Range(f) = Range(g)
                       => Len(Join(f)) = Len(Join(g))}
<1>1. 0 \in S
  <2> SUFFICES ASSUME NEW f \in L, NEW g \in L, Len(f) = 0, Len(g) = 0
               PROVE  Len(Join(f)) = Len(Join(g))
    OBVIOUS
  <2>1. f = <<>> /\ g = <<>>
    OBVIOUS
  <2> QED
    BY <2>1
<1>2. ASSUME NEW n \in Nat, n \in S PROVE n + 1 \in S
  <2> SUFFICES ASSUME NEW f \in L, NEW g \in L, Len(f) = n + 1, Len(g) = n + 1,
                      Range(f) = Range(g)
               PROVE  Len(Join(f)) = Len(Join(g))
    OBVIOUS
  <2>1. f \in Seq(Seq(Chars)) /\ Distinct(f) /\ g \in Seq(Seq(Chars)) /\ Distinct(g)
    OBVIOUS
  <2>2. 1 \in 1..Len(f)
    OBVIOUS
  <2>3. f[1] \in Range(g)
    BY <2>1, <2>2, RangeIs
  <2>4. PICK p \in 1..Len(g) : g[p] = f[1]
    BY <2>1, <2>3, RangeIs
  <2> DEFINE h == Without(f, 1)
             k == Without(g, p)
  <2>5. Distinct(h) /\ Range(h) = Range(f) \ {f[1]}
    BY <2>1, <2>2, DistinctWithout
  <2>6. Distinct(k) /\ Range(k) = Range(g) \ {g[p]}
    BY <2>1, <2>4, DistinctWithout
  <2>7. h \in Seq(Seq(Chars)) /\ Len(h) = n
    <3>1. CutAt(Seq(Chars), f, 1, SubSeq(f, 1, 1 - 1), SubSeq(f, 1 + 1, Len(f)), h)
      BY <2>1, <2>2, WithoutIs
    <3> QED
      BY <3>1 DEF CutAt
  <2>8. k \in Seq(Seq(Chars)) /\ Len(k) = n
    <3>1. CutAt(Seq(Chars), g, p, SubSeq(g, 1, p - 1), SubSeq(g, p + 1, Len(g)), k)
      BY <2>1, WithoutIs
    <3> QED
      BY <3>1 DEF CutAt
  <2>9. Len(Join(f)) = Len(Join(h)) + Len(f[1]) + (IF Len(f) = 1 THEN 0 ELSE 1)
    BY <2>1, <2>2, LengthWithout
  <2>10. Len(Join(g)) = Len(Join(k)) + Len(g[p]) + (IF Len(g) = 1 THEN 0 ELSE 1)
    BY <2>1, LengthWithout
  <2> HIDE DEF h, k
  <2>11. Len(Join(h)) = Len(Join(k))
    BY <1>2, <2>4, <2>5, <2>6, <2>7, <2>8
  <2> QED
    BY <2>4, <2>9, <2>10, <2>11
<1> HIDE DEF S
<1>3. Nat \subseteq S
  BY <1>1, <1>2, Induction
<1>4. o \in L /\ r \in L /\ Len(o) \in Nat /\ Len(r) = Len(o) /\ Range(o) = Range(r)
  BY DEF Orders
<1> QED
  BY <1>3, <1>4 DEF S

\* Members that are short enough, and few enough, fit.
LEMMA ShortEnough ==
    ASSUME NEW m \in Seq(Seq(Chars)), Len(m) <= Size,
           \A i \in 1..Len(m) : Len(m[i]) <= BaseMaxLength
    PROVE  Fits(Join(m))
<1> DEFINE B == BaseMaxLength
           S == {k \in Seq(Seq(Chars)) :
                   (\A i \in 1..Len(k) : Len(k[i]) <= B)
                       => Len(Join(k)) + 1 <= Len(k) * B + Len(k) + (IF k = <<>> THEN 1 ELSE 0)}
<1>1. B \in Nat /\ Size \in Nat /\ MaxLength \in Nat /\ Size * B + Size - 1 <= MaxLength
  BY ColumnsAssumption DEF Checked
<1> HIDE DEF B
<1>2. <<>> \in S
  <2>1. <<>> \in Seq(Seq(Chars)) /\ Len(<<>>) = 0 /\ Join(<<>>) = <<>>
    BY JoinIsText, EmptySeq
  <2>2. 0 * B = 0
    BY <1>1
  <2> QED
    BY <2>1, <2>2
<1>3. ASSUME NEW k \in Seq(Seq(Chars)), k \in S, NEW x \in Seq(Chars)
      PROVE  Append(k, x) \in S
  <2> DEFINE a == Append(k, x)
  <2>1. /\ a \in Seq(Seq(Chars)) /\ Len(a) = Len(k) + 1 /\ Len(k) \in Nat /\ a # <<>>
        /\ \A i \in 1..Len(k) : a[i] = k[i]
        /\ a[Len(k) + 1] = x
        /\ k = <<>> <=> Len(k) = 0
    BY AppendMember, AppendProperties
  <2>2. /\ Len(Join(a)) = IF k = <<>> THEN Len(x) ELSE Len(Join(k)) + 1 + Len(x)
        /\ Len(Join(k)) \in Nat /\ Len(x) \in Nat
    BY LengthAppend
  <2> HIDE DEF a
  <2> SUFFICES ASSUME \A i \in 1..Len(a) : Len(a[i]) <= B
               PROVE  Len(Join(a)) + 1 <= Len(a) * B + Len(a) + (IF a = <<>> THEN 1 ELSE 0)
    BY <2>1 DEF a
  <2>3. Len(x) <= B
    <3>1. Len(k) + 1 \in 1..Len(a)
      BY <2>1
    <3> QED
      BY <2>1, <3>1
  <2>4. \A i \in 1..Len(k) : Len(k[i]) <= B
    <3>1. \A i \in 1..Len(k) : i \in 1..Len(a)
      BY <2>1
    <3> QED
      BY <2>1, <3>1
  <2>5. Len(Join(k)) + 1 <= Len(k) * B + Len(k) + (IF k = <<>> THEN 1 ELSE 0)
    BY <1>3, <2>4
  <2>6. Len(a) * B = Len(k) * B + B /\ Len(k) * B \in Nat
    BY <1>1, <2>1
  <2> QED
    <3>1. Len(Join(a)) + 1 <= Len(a) * B + Len(a)
      BY <1>1, <2>1, <2>2, <2>3, <2>5, <2>6, SMTT(30)
    <3>2. (IF a = <<>> THEN 1 ELSE 0) = 0 /\ Len(a) * B + Len(a) \in Nat
      BY <1>1, <2>1, <2>6
    <3> QED
      BY <3>1, <3>2
<1> HIDE DEF S
<1>4. m \in S
  BY <1>2, <1>3, SeqInduction
<1>5. Len(Join(m)) + 1 <= Len(m) * B + Len(m) + (IF m = <<>> THEN 1 ELSE 0)
  BY <1>4 DEF S, B
<1>6. Len(m) \in Nat /\ Join(m) \in Seq(Chars) /\ Len(Join(m)) \in Nat
      /\ (m = <<>> <=> Len(m) = 0)
  BY JoinIsText
<1>7. Len(m) * B <= Size * B
  <2>1. PICK k \in Nat : Size = Len(m) + k
    <3>1. Size - Len(m) \in Nat /\ Size = Len(m) + (Size - Len(m))
      BY <1>1, <1>6
    <3> QED
      BY <3>1
  <2>2. (Len(m) + k) * B = Len(m) * B + k * B /\ k * B \in Nat /\ Len(m) * B \in Nat
    BY <1>1, <1>6
  <2> QED
    BY <2>1, <2>2
<1>8. CASE m = <<>>
  <2>1. Len(Join(m)) = 0
    BY <1>8, JoinIsText, EmptySeq
  <2>2. 0 <= MaxLength
    BY <1>1
  <2> QED
    BY <2>1, <2>2, Zenon DEF Fits
<1>9. CASE m # <<>>
  <2>1. Len(m) * B \in Nat /\ Size * B \in Nat
    BY <1>1, <1>6
  <2> QED
    <3> DEFINE x == Len(m) * B
               y == Size * B
               l == Len(Join(m))
    <3>1. l + 1 <= x + Len(m) /\ x <= y /\ y + Size - 1 <= MaxLength /\ x \in Nat /\ y \in Nat
      <4>1. (IF m = <<>> THEN 1 ELSE 0) = 0 /\ x + Len(m) \in Nat
        BY <1>6, <1>9, <2>1
      <4>2. l + 1 <= x + Len(m) + 0
        BY <1>5, <4>1
      <4> QED
        BY <1>1, <1>7, <2>1, <4>1, <4>2
    <3>2. l \in Nat /\ Len(m) \in Nat /\ Size \in Nat /\ MaxLength \in Nat
      BY <1>1, <1>6
    <3> HIDE DEF x, y, l
    <3>3. l <= MaxLength
      BY <3>1, <3>2
    <3> QED
      BY <3>3 DEF Fits, l
<1> QED
  BY <1>8, <1>9

-----------------------------------------------------------------------------
(* Legal values, and what forms make of what is typed *)

LEMMA Greatest ==
    ASSUME NEW n \in Nat, NEW S, S \subseteq 1..n, S # {}
    PROVE  \E i \in S : \A j \in S : i >= j
<1> DEFINE back == {n - j : j \in S}
<1>1. back \subseteq Nat /\ back # {}
  <2>1. PICK i \in S : TRUE
    OBVIOUS
  <2>2. n - i \in back
    BY <2>1
  <2>3. back \subseteq Nat
    OBVIOUS
  <2> QED
    BY <2>2, <2>3
<1>2. \A j \in S : n - j \in back
  OBVIOUS
<1>3. \A k \in back : \E i \in S : k = n - i
  OBVIOUS
<1> HIDE DEF back
<1>4. PICK k \in back : \A m \in back : k <= m
  BY <1>1, Least
<1>5. PICK i \in S : k = n - i
  BY <1>3, <1>4
<1>6. ASSUME NEW j \in S PROVE i >= j
  <2>1. n - i <= n - j
    BY <1>2, <1>4, <1>5
  <2>2. i \in 1..n /\ j \in 1..n
    OBVIOUS
  <2> QED
    BY <2>1, <2>2
<1> QED
  BY <1>6

LEMMA StripKeeps ==
    ASSUME NEW s \in Seq(Chars)
    PROVE  /\ Strip(s) \in Seq(Chars)
           /\ Commas(s) = {} => Commas(Strip(s)) = {}
<1> DEFINE solid == {i \in DOMAIN s : s[i] # " "}
<1>1. DOMAIN s = 1..Len(s) /\ Len(s) \in Nat /\ \A i \in 1..Len(s) : s[i] \in Chars
  OBVIOUS
<1>2. solid \subseteq 1..Len(s) /\ solid \subseteq Nat
  <2>1. solid \subseteq DOMAIN s
    OBVIOUS
  <2> HIDE DEF solid
  <2> QED
    BY <1>1, <2>1
<1>3. Strip(s) = IF solid = {} THEN <<>> ELSE SubSeq(s, Min(solid), Max(solid))
  BY DEF Strip
<1> HIDE DEF solid
<1>4. CASE solid = {}
  <2>1. Commas(<<>>) = {}
    BY DEF Commas
  <2>2. <<>> \in Seq(Chars)
    BY EmptySeq
  <2> QED
    BY <1>3, <1>4, <2>1, <2>2
<1>5. CASE solid # {}
  <2> DEFINE a == Min(solid)
             b == Max(solid)
             r == SubSeq(s, a, b)
  <2>1. a \in solid
    <3>1. \E i \in solid : \A j \in solid : i <= j
      BY <1>2, <1>5, Least
    <3> QED
      BY <3>1 DEF Min
  <2>2. b \in solid
    <3>1. \E i \in solid : \A j \in solid : i >= j
      BY <1>1, <1>2, <1>5, Greatest
    <3> QED
      BY <3>1 DEF Max
  <2>3. a \in 1..Len(s) /\ b \in 1..Len(s)
    BY <1>2, <2>1, <2>2
  <2> HIDE DEF a, b
  <2>4. /\ r \in Seq(Chars)
        /\ Len(r) = IF a <= b THEN b - a + 1 ELSE 0
        /\ \A i \in 1..b - a + 1 : r[i] = s[a + i - 1]
    <3>1. \A i \in a..b : s[i] \in Chars
      BY <1>1, <2>3
    <3> QED
      BY <2>3, <3>1, SubSeqProperties
  <2> HIDE DEF r
  <2>5. ASSUME NEW i \in 1..Len(r) PROVE \E j \in 1..Len(s) : r[i] = s[j]
    <3>1. a <= b
      BY <2>3, <2>4
    <3>2. Len(r) = b - a + 1
      BY <2>4, <3>1
    <3>3. i \in 1..b - a + 1 /\ a + i - 1 \in 1..Len(s)
      BY <1>1, <2>3, <3>2
    <3> QED
      BY <2>4, <3>3
  <2>6. ASSUME Commas(s) = {} PROVE Commas(r) = {}
    <3>1. ASSUME NEW i \in Commas(r) PROVE FALSE
      <4>1. i \in 1..Len(r) /\ r[i] = Sep
        BY <2>4, CommasAre
      <4>2. PICK j \in 1..Len(s) : r[i] = s[j]
        BY <2>5, <4>1
      <4>3. j \in Commas(s)
        BY <4>1, <4>2, CommasAre
      <4> QED
        BY <2>6, <4>3
    <3> QED
      BY <3>1
  <2> QED
    BY <1>3, <1>5, <2>4, <2>6 DEF r, a, b
<1> QED
  BY <1>4, <1>5

LEMMA StorableLists ==
    ASSUME NEW m \in Seq(Seq(Chars))
    PROVE  (\A v \in Range(m) : v # <<>> /\ Commas(v) = {}) <=> m \in Lists
<1>1. \A v : v \in Range(m) <=> \E i \in 1..Len(m) : m[i] = v
  BY RangeIs
<1> QED
  BY <1>1 DEF Lists, Solid, NoCommas

LEMMA LegalLists ==
    ASSUME NEW m \in Seq(Seq(Chars))
    PROVE  LegalValue("list", m) <=> m \in Lists /\ Fits(Join(m))
BY StorableLists DEF LegalValue, Storable

LEMMA LegalSets ==
    ASSUME NEW v, v \subseteq Seq(Chars), IsFiniteSet(v), NEW o, Orders(v, o)
    PROVE  LegalValue("set", v) <=> o \in Lists /\ Fits(Join(o))
<1>1. Orders(v, SetToSeq(v))
  BY OrdersOfSet
<1>2. Len(Join(o)) = Len(Join(SetToSeq(v)))
  BY <1>1, SameLength
<1>3. Fits(Join(o)) <=> Fits(Join(SetToSeq(v)))
  BY <1>2 DEF Fits
<1>4. o \in Seq(Seq(Chars)) /\ Range(o) = v
  BY DEF Orders
<1>5. LegalValue("set", v) <=> /\ \A x \in v : x # <<>> /\ Commas(x) = {}
                              /\ Fits(Join(SetToSeq(v)))
  BY DEF LegalValue, Storable
<1>6. (\A x \in v : x # <<>> /\ Commas(x) = {}) <=> o \in Lists
  BY <1>4, StorableLists
<1> QED
  BY <1>3, <1>5, <1>6

Held(k) == IF k = "list" THEN Seq(Seq(Chars))
           ELSE {v \in SUBSET Seq(Chars) : IsFiniteSet(v)}

\* A form has a value of the field's type, and without errors a legal one.
LEMMA CleanedIs ==
    ASSUME kind \in {"list", "set"}, NEW typed \in Seq(Chars)
    PROVE  /\ Cleaned(typed).value \in Held(kind)
           /\ NoErrors(Cleaned(typed)) => LegalValue(kind, Cleaned(typed).value)
<1> DEFINE items == MembersOf(typed)
           values == [i \in DOMAIN items |-> Strip(items[i])]
           f == Cleaned(typed)
<1>1. items \in Seq(Seq(Chars)) /\ NoCommas(items)
  <2>1. Split(typed) \in Seq(Seq(Chars)) /\ NoCommas(Split(typed))
    BY SplitIsParts, SplitNoCommas DEF Parts
  <2>2. <<>> \in Seq(Seq(Chars)) /\ NoCommas(<<>>)
    <3>1. \A i \in 1..0 : FALSE
      OBVIOUS
    <3>2. Len(<<>>) = 0
      OBVIOUS
    <3> QED
      BY <3>1, <3>2, EmptySeq DEF NoCommas
  <2> QED
    BY <2>1, <2>2 DEF MembersOf
<1>2. /\ f.value = IF kind = "list" THEN values ELSE Range(values)
      /\ f.duplicate = (kind = "set" /\ Cardinality(Range(values)) < Len(values))
      /\ f.invalid = (\E i \in DOMAIN values :
                        \/ Len(values[i]) > BaseMaxLength
                        \/ BaseRequired /\ values[i] = <<>>)
      /\ f.tooMany = (Len(values) > Size)
  BY DEF Cleaned
<1> HIDE DEF items
<1>3. Len(items) \in Nat /\ DOMAIN items = 1..Len(items)
      /\ \A i \in 1..Len(items) : items[i] \in Seq(Chars) /\ Commas(items[i]) = {}
  <2>1. Len(items) \in Nat /\ DOMAIN items = 1..Len(items)
        /\ \A i \in 1..Len(items) : items[i] \in Seq(Chars)
    BY <1>1
  <2> QED
    BY <1>1, <2>1 DEF NoCommas
<1>4. \A i \in 1..Len(items) : Strip(items[i]) \in Seq(Chars) /\ Commas(Strip(items[i])) = {}
  BY <1>3, StripKeeps
<1>5. /\ values \in Seq(Seq(Chars)) /\ Len(values) = Len(items) /\ DOMAIN values = 1..Len(items)
      /\ \A i \in 1..Len(items) : values[i] = Strip(items[i])
  BY <1>3, <1>4
<1> HIDE DEF values, f
<1>6. f.value \in Held(kind)
  <2>1. Range(values) \subseteq Seq(Chars)
    BY <1>5, RangeOfSeq
  <2>2. IsFiniteSet(Range(values))
    BY <1>5, DistinctSize
  <2> QED
    BY <1>2, <1>5, <2>1, <2>2 DEF Held
<1>7. ASSUME NoErrors(f) PROVE LegalValue(kind, f.value)
  <2>1. ~f.duplicate /\ ~f.invalid /\ ~f.tooMany
    BY <1>7 DEF NoErrors
  <2>2. \A i \in 1..Len(values) : ~(Len(values[i]) > BaseMaxLength) /\ values[i] # <<>>
    <3>1. BaseRequired
      BY ColumnsAssumption
    <3>2. f.invalid = (\E i \in DOMAIN values :
                        \/ Len(values[i]) > BaseMaxLength
                        \/ BaseRequired /\ values[i] = <<>>)
      BY <1>2
    <3>3. DOMAIN values = 1..Len(values)
      BY <1>5
    <3> QED
      BY <2>1, <3>1, <3>2, <3>3
  <2>3. \A i \in 1..Len(values) : values[i] \in Seq(Chars) /\ Commas(values[i]) = {}
    BY <1>4, <1>5
  <2>4. values \in Lists
    BY <1>5, <2>2, <2>3 DEF Lists, Solid, NoCommas
  <2>5. Fits(Join(values))
    <3>1. Len(values) <= Size
      <4>1. Size \in Nat
        BY ColumnsAssumption
      <4>2. Len(values) \in Nat
        BY <1>3, <1>5
      <4>3. ~(Len(values) > Size)
        BY <1>2, <2>1
      <4> QED
        BY <4>1, <4>2, <4>3
    <3>2. ASSUME NEW i \in 1..Len(values) PROVE Len(values[i]) <= BaseMaxLength
      <4>1. BaseMaxLength \in Nat
        BY ColumnsAssumption
      <4>2. Len(values[i]) \in Nat
        BY <2>3, LenProperties
      <4> QED
        BY <2>2, <4>1, <4>2
    <3> QED
      BY <1>5, <3>1, <3>2, ShortEnough
  <2>6. CASE kind = "list"
    BY <1>2, <1>5, <2>4, <2>5, <2>6, LegalLists
  <2>7. CASE kind = "set"
    <3>1. ~(Cardinality(Range(values)) < Len(values))
      BY <1>2, <2>1, <2>7
    <3>2. /\ IsFiniteSet(Range(values)) /\ Cardinality(Range(values)) \in Nat
          /\ Cardinality(Range(values)) <= Len(values)
          /\ Cardinality(Range(values)) = Len(values) <=> Distinct(values)
      BY <1>5, DistinctSize
    <3>3. Cardinality(Range(values)) = Len(values)
      BY <1>3, <1>5, <3>1, <3>2
    <3>4. Orders(Range(values), values) /\ Range(values) \subseteq Seq(Chars)
      BY <1>5, <3>2, <3>3, RangeOfSeq DEF Orders
    <3>5. LegalValue("set", Range(values))
      BY <2>4, <2>5, <3>2, <3>4, LegalSets
    <3> QED
      BY <1>2, <2>7, <3>5
  <2> QED
    BY <2>6, <2>7
<1> QED
  BY <1>6, <1>7 DEF f

-----------------------------------------------------------------------------
(* The invariant *)

\* A column is the join of a list of members that have text and no commas,
\* without duplicates in a set.
Holds(k, m) == m \in Lists /\ (k = "set" => Distinct(m))
ValueOf(k, m) == IF k = "list" THEN m ELSE Range(m)

ColumnsInv ==
    /\ kind \in {"list", "set"}
    /\ \E m : Holds(kind, m) /\ text = Join(m)
    /\ Fits(text)
    /\ memory \in [Clients -> Held(kind)]

\* A text that holds a value.
Makes(k, new, v) == \E m : Holds(k, m) /\ new = Join(m) /\ ValueOf(k, m) = v

LEMMA ReadBack ==
    ASSUME NEW k \in {"list", "set"}, NEW m, Holds(k, m)
    PROVE  /\ ValueOf(k, MembersOf(Join(m))) = ValueOf(k, m)
           /\ ValueOf(k, m) \in Held(k)
<1>1. m \in Lists /\ m \in Seq(Seq(Chars))
  BY ListFacts DEF Holds
<1>2. MembersOf(Join(m)) = m
  BY <1>1, MembersOfJoin
<1>3. Range(m) \subseteq Seq(Chars) /\ IsFiniteSet(Range(m))
  <2>1. Range(m) \subseteq Seq(Chars)
    BY <1>1, RangeOfSeq
  <2>2. IsFiniteSet(Range(m))
    BY <1>1, DistinctSize
  <2> QED
    BY <2>1, <2>2
<1> QED
  BY <1>1, <1>2, <1>3 DEF ValueOf, Held

LEMMA ListUpdates ==
    ASSUME NEW m \in Lists, NEW x \in Items
    PROVE  /\ Makes("list", AppendListF(Join(m), x), Append(m, x))
           /\ Makes("list", AppendLeftListF(Join(m), x), <<x>> \o m)
           /\ Makes("list", PopListF(Join(m)), IF m = <<>> THEN <<>> ELSE Front(m))
           /\ Makes("list", PopLeftListF(Join(m)), IF m = <<>> THEN <<>> ELSE Tail(m))
<1>1. \A n \in Lists : Makes("list", Join(n), n)
  BY DEF Makes, Holds, ValueOf
<1>2. <<>> \in Lists /\ Join(<<>>) = <<>>
  <2>1. x \in Seq(Chars) /\ m \in Seq(Seq(Chars))
    BY ItemsAreMembers, ListFacts
  <2> QED
    BY <2>1, ListsAppend, JoinIsText
<1>3. /\ Makes("list", AppendListF(Join(m), x), Append(m, x))
      /\ Makes("list", AppendLeftListF(Join(m), x), <<x>> \o m)
  BY <1>1, AppendIs
<1>4. Makes("list", PopListF(Join(m)), IF m = <<>> THEN <<>> ELSE Front(m))
  BY <1>1, <1>2, PopIs
<1>5. Makes("list", PopLeftListF(Join(m)), IF m = <<>> THEN <<>> ELSE Tail(m))
  BY <1>1, <1>2, PopLeftIs
<1> QED
  BY <1>3, <1>4, <1>5

LEMMA SetUpdates ==
    ASSUME NEW m \in Lists, Distinct(m), NEW x \in Items
    PROVE  /\ Makes("set", AddSetF(Join(m), x), Range(m) \cup {x})
           /\ Makes("set", RemoveSetF(Join(m), x), Range(m) \ {x})
<1>1. \A n \in Lists : Distinct(n) => Makes("set", Join(n), Range(n))
  BY DEF Makes, Holds, ValueOf
<1>2. m \in Seq(Seq(Chars)) /\ x \in Seq(Chars)
  BY ItemsAreMembers, ListFacts
<1>3. Makes("set", AddSetF(Join(m), x), Range(m) \cup {x})
  <2>1. CASE x \in Range(m)
    <3>1. Range(m) \cup {x} = Range(m)
      BY <2>1
    <3> QED
      BY <1>1, <2>1, <3>1, AddIs
  <2>2. CASE x \notin Range(m)
    <3>1. Range(Append(m, x)) = Range(m) \cup {x} /\ Distinct(Append(m, x))
      BY <1>2, <2>2, DistinctAppend
    <3>2. Append(m, x) \in Lists
      BY AppendIs
    <3>3. Makes("set", Join(Append(m, x)), Range(m) \cup {x})
      BY <1>1, <3>1, <3>2
    <3> QED
      BY <2>2, <3>3, AddIs
  <2> QED
    BY <2>1, <2>2
<1>4. Makes("set", RemoveSetF(Join(m), x), Range(m) \ {x})
  <2>1. CASE x \notin Range(m) /\ RemoveSetF(Join(m), x) = Join(m)
    <3>1. Range(m) \ {x} = Range(m)
      BY <2>1
    <3> QED
      BY <1>1, <2>1, <3>1
  <2>2. ASSUME NEW p \in 1..Len(m), m[p] = x, Without(m, p) \in Lists,
               RemoveSetF(Join(m), x) = Join(Without(m, p))
        PROVE  Makes("set", RemoveSetF(Join(m), x), Range(m) \ {x})
    <3>1. Distinct(Without(m, p)) /\ Range(Without(m, p)) = Range(m) \ {x}
      BY <1>2, <2>2, DistinctWithout
    <3> QED
      BY <1>1, <2>2, <3>1
  <2> QED
    BY <2>1, <2>2, RemoveIs
<1> QED
  BY <1>3, <1>4

\* What the column holds decides what is read back from it.
LEMMA Stored ==
    ASSUME NEW k \in {"list", "set"}, NEW s, NEW v, Makes(k, s, v)
    PROVE  (IF k = "list" THEN MembersOf(s) ELSE Range(MembersOf(s))) = v
<1>1. PICK m : Holds(k, m) /\ s = Join(m) /\ ValueOf(k, m) = v
  BY DEF Makes
<1> QED
  BY <1>1, ReadBack DEF ValueOf

\* An update, when what it computes holds some value.
LEMMA UpdateStep ==
    ASSUME ColumnsInv, NEW c, NEW op, NEW x, NEW new, NEW v,
           Makes(kind, new, v), Update(c, op, x, new)
    PROVE  /\ ColumnsInv'
           /\ ToPython(text)' = IF last'.done THEN v ELSE ToPython(text)
           /\ last'.op = op /\ last'.arg = x
           /\ UNCHANGED <<kind, memory>>
<1>1. /\ text' = IF Fits(new) THEN new ELSE text
      /\ last' = [op |-> op, by |-> c, arg |-> x, done |-> Fits(new)]
      /\ UNCHANGED <<kind, memory>>
  BY DEF Update, Did
<1>2. last'.op = op /\ last'.arg = x /\ last'.done = Fits(new)
  BY <1>1
<1>3. kind \in {"list", "set"}
  BY DEF ColumnsInv
<1>4. ColumnsInv'
  <2>1. \E m : Holds(kind, m) /\ text' = Join(m)
    BY <1>1 DEF ColumnsInv, Makes
  <2>2. Fits(text')
    BY <1>1 DEF ColumnsInv
  <2> QED
    BY <1>1, <2>1, <2>2 DEF ColumnsInv
<1>5. ToPython(text)' = IF last'.done THEN v ELSE ToPython(text)
  <2>1. CASE Fits(new)
    <3>1. (IF kind = "list" THEN MembersOf(new) ELSE Range(MembersOf(new))) = v
      BY <1>3, Stored
    <3> QED
      BY <1>1, <1>2, <2>1, <3>1 DEF ToPython
  <2>2. CASE ~Fits(new)
    BY <1>1, <1>2, <2>2 DEF ToPython
  <2> QED
    BY <2>1, <2>2
<1> QED
  BY <1>1, <1>2, <1>4, <1>5

-----------------------------------------------------------------------------
(* Saving *)

LEMMA SaveIs ==
    ASSUME ColumnsInv, NEW c \in Clients
    PROVE  /\ SaveRefused(c) <=> ~LegalValue(kind, memory[c])
           /\ ~SaveRefused(c) =>
                \A s \in Texts(memory[c]) : Makes(kind, s, memory[c]) /\ Fits(s)
<1> DEFINE v == memory[c]
<1>1. kind \in {"list", "set"} /\ v \in Held(kind)
  BY DEF ColumnsInv
<1>2. SaveRefused(c) <=> ~Storable(kind, v) \/ \A s \in Texts(v) : ~Fits(s)
  BY DEF SaveRefused
<1> HIDE DEF v
<1>3. CASE kind = "list"
  <2>1. Texts(v) = {Join(v)} /\ v \in Seq(Seq(Chars))
    BY <1>1, <1>3 DEF Texts, Held
  <2>2. SaveRefused(c) <=> ~LegalValue(kind, v)
    BY <1>2, <1>3, <2>1 DEF LegalValue
  <2>3. ASSUME ~SaveRefused(c) PROVE Makes(kind, Join(v), v) /\ Fits(Join(v))
    <3>1. v \in Lists /\ Fits(Join(v))
      BY <1>3, <2>1, <2>2, <2>3, LegalLists
    <3> QED
      BY <1>3, <3>1 DEF Makes, Holds, ValueOf
  <2> QED
    BY <2>1, <2>2, <2>3 DEF v
<1>4. CASE kind = "set"
  <2>1. Texts(v) = {Join(order) : order \in SetToSeqs(v)}
    BY <1>4 DEF Texts
  <2>2. v \subseteq Seq(Chars) /\ IsFiniteSet(v)
    BY <1>1, <1>4 DEF Held
  <2>3. /\ \A o \in SetToSeqs(v) : Orders(v, o)
        /\ SetToSeq(v) \in SetToSeqs(v)
    BY <2>2, OrdersOfSet
  <2>4. \A o \in SetToSeqs(v) : Fits(Join(o)) <=> Fits(Join(SetToSeq(v)))
    <3>1. \A o \in SetToSeqs(v) : Len(Join(o)) = Len(Join(SetToSeq(v)))
      BY <2>3, SameLength
    <3> QED
      BY <3>1 DEF Fits
  <2>5. (\A s \in Texts(v) : ~Fits(s)) <=> ~Fits(Join(SetToSeq(v)))
    BY <2>1, <2>3, <2>4
  <2>6. SaveRefused(c) <=> ~LegalValue(kind, v)
    BY <1>2, <1>4, <2>5 DEF LegalValue
  <2>7. ASSUME ~SaveRefused(c), NEW o \in SetToSeqs(v)
        PROVE  Makes(kind, Join(o), v) /\ Fits(Join(o))
    <3>1. o \in Lists /\ Fits(Join(o))
      BY <1>4, <2>2, <2>3, <2>6, <2>7, LegalSets
    <3>2. Distinct(o) /\ Range(o) = v
      BY <2>3 DEF Orders
    <3> QED
      BY <1>4, <3>1, <3>2 DEF Makes, Holds, ValueOf
  <2> QED
    BY <2>1, <2>6, <2>7 DEF v
<1> QED
  BY <1>1, <1>3, <1>4

LEMMA SaveStep ==
    ASSUME ColumnsInv, NEW c \in Clients, Save(c)
    PROVE  /\ ColumnsInv'
           /\ ToPython(text)' = IF last'.done THEN memory[c] ELSE ToPython(text)
           /\ last'.op = "save" /\ last'.by = c
           /\ last'.done = LegalValue(kind, memory[c])
           /\ UNCHANGED <<kind, memory>>
<1>1. /\ IF SaveRefused(c) THEN UNCHANGED text ELSE text' \in Texts(memory[c])
      /\ last' = [op |-> "save", by |-> c, arg |-> Null, done |-> ~SaveRefused(c)]
      /\ UNCHANGED <<kind, memory>>
  BY DEF Save, Did
<1>2. last'.op = "save" /\ last'.by = c /\ last'.done = ~SaveRefused(c)
  BY <1>1
<1>3. last'.done = LegalValue(kind, memory[c])
  <2>1. LegalValue(kind, memory[c]) \in BOOLEAN
    BY DEF LegalValue
  <2> QED
    BY <1>2, <2>1, SaveIs
<1>4. kind \in {"list", "set"}
  BY DEF ColumnsInv
<1>5. CASE SaveRefused(c)
  <2>1. text' = text /\ kind' = kind /\ memory' = memory
    BY <1>1, <1>5
  <2>2. ToPython(text)' = ToPython(text) /\ ColumnsInv'
    BY <2>1 DEF ToPython, ColumnsInv
  <2> QED
    BY <1>2, <1>3, <1>5, <2>1, <2>2
<1>6. CASE ~SaveRefused(c)
  <2>1. Makes(kind, text', memory[c]) /\ Fits(text')
    BY <1>1, <1>6, SaveIs
  <2>2. \E m : Holds(kind, m) /\ text' = Join(m)
    BY <2>1 DEF Makes
  <2>3. ColumnsInv'
    BY <1>1, <2>1, <2>2 DEF ColumnsInv
  <2>4. (IF kind = "list" THEN MembersOf(text') ELSE Range(MembersOf(text'))) = memory[c]
    BY <1>4, <2>1, Stored
  <2>5. ToPython(text)' = memory[c]
    BY <1>1, <2>4 DEF ToPython
  <2> QED
    BY <1>1, <1>2, <1>3, <1>6, <2>3, <2>5
<1> QED
  BY <1>5, <1>6

-----------------------------------------------------------------------------
(* Reading and editing *)

LEMMA ToPythonIs ==
    ASSUME ColumnsInv
    PROVE  ToPython(text) \in Held(kind)
<1>1. PICK m : Holds(kind, m) /\ text = Join(m)
  BY DEF ColumnsInv
<1>2. kind \in {"list", "set"}
  BY DEF ColumnsInv
<1>3. /\ ValueOf(kind, MembersOf(Join(m))) = ValueOf(kind, m)
      /\ ValueOf(kind, m) \in Held(kind)
  BY <1>1, <1>2, ReadBack
<1>4. ToPython(text) = ValueOf(kind, MembersOf(text))
  BY DEF ToPython, ValueOf
<1> QED
  BY <1>1, <1>3, <1>4

\* A step that only changes what one client holds.
LEMMA MemoryStep ==
    ASSUME ColumnsInv, NEW c \in Clients, NEW v \in Held(kind),
           memory' = [memory EXCEPT ![c] = v], UNCHANGED <<kind, text>>
    PROVE  /\ ColumnsInv'
           /\ ToPython(text)' = ToPython(text)
           /\ memory'[c] = v
           /\ \A d \in Clients \ {c} : memory'[d] = memory[d]
<1>1. memory \in [Clients -> Held(kind)]
  BY DEF ColumnsInv
<1>2. memory' \in [Clients -> Held(kind)]
  BY <1>1
<1>3. memory'[c] = v /\ \A d \in Clients \ {c} : memory'[d] = memory[d]
  BY <1>1
<1>4. ColumnsInv'
  BY <1>2 DEF ColumnsInv
<1>5. ToPython(text)' = ToPython(text)
  BY DEF ToPython
<1> QED
  BY <1>3, <1>4, <1>5

LEMMA EditedAreHeld ==
    ASSUME kind \in {"list", "set"}, NEW v \in Values[kind]
    PROVE  v \in Held(kind)
<1>1. kind = "list" => v \in Seq(Seq(Chars))
  BY TextsAssumption
<1>2. kind = "set" => IsFiniteSet(v) /\ v \subseteq Seq(Chars)
  BY TextsAssumption
<1> QED
  BY <1>1, <1>2 DEF Held

-----------------------------------------------------------------------------
(* Every step *)

\* A step that changes the value as the abstract specification says.
LEMMA ChangeIs ==
    ASSUME last'.op \in M!Changes,
           ToPython(text)' = (IF last'.done THEN M!Updated ELSE ToPython(text)),
           last'.op # "save", UNCHANGED <<kind, memory>>
    PROVE  M!Change
BY DEF M!Change

LEMMA ListStep ==
    ASSUME ColumnsInv, NEW c \in Clients, NEW x \in Items, UpdateList(c, x)
    PROVE  ColumnsInv' /\ M!Change
<1>1. PICK m : Holds(kind, m) /\ text = Join(m)
  BY DEF ColumnsInv
<1>2. kind = "list" /\ m \in Lists
  BY <1>1 DEF UpdateList, Holds
<1>3. ToPython(text) = m
  BY <1>1, <1>2, MembersOfJoin DEF ToPython
<1>4. /\ Makes(kind, AppendListF(text, x), Append(m, x))
      /\ Makes(kind, AppendLeftListF(text, x), <<x>> \o m)
      /\ Makes(kind, PopListF(text), IF m = <<>> THEN <<>> ELSE Front(m))
      /\ Makes(kind, PopLeftListF(text), IF m = <<>> THEN <<>> ELSE Tail(m))
  BY <1>1, <1>2, ListUpdates
<1>5. CASE Update(c, "append", x, AppendListF(text, x))
  <2>1. /\ ColumnsInv' /\ last'.op = "append" /\ last'.arg = x
        /\ ToPython(text)' = IF last'.done THEN Append(m, x) ELSE ToPython(text)
        /\ UNCHANGED <<kind, memory>>
    BY <1>4, <1>5, UpdateStep
  <2>2. M!Updated = Append(ToPython(text), last'.arg)
    BY <2>1 DEF M!Updated
  <2>3. ToPython(text)' = IF last'.done THEN M!Updated ELSE ToPython(text)
    BY <1>3, <2>1, <2>2
  <2>4. last'.op \in M!Changes /\ last'.op # "save"
    BY <2>1 DEF M!Changes
  <2> QED
    BY <2>1, <2>3, <2>4, ChangeIs
<1>6. CASE Update(c, "appendleft", x, AppendLeftListF(text, x))
  <2>1. /\ ColumnsInv' /\ last'.op = "appendleft" /\ last'.arg = x
        /\ ToPython(text)' = IF last'.done THEN <<x>> \o m ELSE ToPython(text)
        /\ UNCHANGED <<kind, memory>>
    BY <1>4, <1>6, UpdateStep
  <2>2. M!Updated = <<last'.arg>> \o ToPython(text)
    BY <2>1 DEF M!Updated
  <2>3. ToPython(text)' = IF last'.done THEN M!Updated ELSE ToPython(text)
    BY <1>3, <2>1, <2>2
  <2>4. last'.op \in M!Changes /\ last'.op # "save"
    BY <2>1 DEF M!Changes
  <2> QED
    BY <2>1, <2>3, <2>4, ChangeIs
<1>7. CASE Update(c, "pop", Null, PopListF(text))
  <2> DEFINE v == IF m = <<>> THEN <<>> ELSE Front(m)
  <2>1. /\ ColumnsInv' /\ last'.op = "pop"
        /\ ToPython(text)' = IF last'.done THEN v ELSE ToPython(text)
        /\ UNCHANGED <<kind, memory>>
    BY <1>4, <1>7, UpdateStep
  <2>2. M!Updated = IF ToPython(text) = <<>> THEN <<>> ELSE Front(ToPython(text))
    BY <2>1 DEF M!Updated, M!Front, Front
  <2>3. ToPython(text)' = IF last'.done THEN M!Updated ELSE ToPython(text)
    BY <1>3, <2>1, <2>2
  <2>4. last'.op \in M!Changes /\ last'.op # "save"
    BY <2>1 DEF M!Changes
  <2> QED
    BY <2>1, <2>3, <2>4, ChangeIs
<1>8. CASE Update(c, "popleft", Null, PopLeftListF(text))
  <2> DEFINE v == IF m = <<>> THEN <<>> ELSE Tail(m)
  <2>1. Makes(kind, PopLeftListF(text), v)
    BY <1>4
  <2> HIDE DEF v
  <2>2. /\ ColumnsInv' /\ last'.op = "popleft"
        /\ ToPython(text)' = IF last'.done THEN v ELSE ToPython(text)
        /\ UNCHANGED <<kind, memory>>
    BY <1>8, <2>1, UpdateStep
  <2>3. M!Updated = IF ToPython(text) = <<>> THEN <<>> ELSE Tail(ToPython(text))
    BY <2>2 DEF M!Updated
  <2>4. ToPython(text)' = IF last'.done THEN M!Updated ELSE ToPython(text)
    BY <1>3, <2>2, <2>3 DEF v
  <2>5. last'.op \in M!Changes /\ last'.op # "save"
    BY <2>2 DEF M!Changes
  <2> QED
    BY <2>2, <2>4, <2>5, ChangeIs
<1> QED
  BY <1>5, <1>6, <1>7, <1>8 DEF UpdateList

LEMMA SetStep ==
    ASSUME ColumnsInv, NEW c \in Clients, NEW x \in Items, UpdateSet(c, x)
    PROVE  ColumnsInv' /\ M!Change
<1>1. PICK m : Holds(kind, m) /\ text = Join(m)
  BY DEF ColumnsInv
<1>2. kind = "set" /\ m \in Lists /\ Distinct(m)
  BY <1>1 DEF UpdateSet, Holds
<1>3. ToPython(text) = Range(m)
  BY <1>1, <1>2, MembersOfJoin DEF ToPython
<1>4. /\ Makes(kind, AddSetF(text, x), Range(m) \cup {x})
      /\ Makes(kind, RemoveSetF(text, x), Range(m) \ {x})
  BY <1>1, <1>2, SetUpdates
<1>5. CASE Update(c, "add", x, AddSetF(text, x))
  <2>1. /\ ColumnsInv' /\ last'.op = "add" /\ last'.arg = x
        /\ ToPython(text)' = IF last'.done THEN Range(m) \cup {x} ELSE ToPython(text)
        /\ UNCHANGED <<kind, memory>>
    BY <1>4, <1>5, UpdateStep
  <2>2. M!Updated = ToPython(text) \cup {last'.arg}
    BY <2>1 DEF M!Updated
  <2>3. ToPython(text)' = IF last'.done THEN M!Updated ELSE ToPython(text)
    BY <1>3, <2>1, <2>2
  <2>4. last'.op \in M!Changes /\ last'.op # "save"
    BY <2>1 DEF M!Changes
  <2> QED
    BY <2>1, <2>3, <2>4, ChangeIs
<1>6. CASE Update(c, "remove", x, RemoveSetF(text, x))
  <2>1. /\ ColumnsInv' /\ last'.op = "remove" /\ last'.arg = x
        /\ ToPython(text)' = IF last'.done THEN Range(m) \ {x} ELSE ToPython(text)
        /\ UNCHANGED <<kind, memory>>
    BY <1>4, <1>6, UpdateStep
  <2>2. M!Updated = ToPython(text) \ {last'.arg}
    BY <2>1 DEF M!Updated
  <2>3. ToPython(text)' = IF last'.done THEN M!Updated ELSE ToPython(text)
    BY <1>3, <2>1, <2>2
  <2>4. last'.op \in M!Changes /\ last'.op # "save"
    BY <2>1 DEF M!Changes
  <2> QED
    BY <2>1, <2>3, <2>4, ChangeIs
<1> QED
  BY <1>5, <1>6 DEF UpdateSet

LEMMA SaveRefines ==
    ASSUME ColumnsInv, NEW c \in Clients, Save(c)
    PROVE  ColumnsInv' /\ M!Change
<1>1. /\ ColumnsInv'
      /\ ToPython(text)' = IF last'.done THEN memory[c] ELSE ToPython(text)
      /\ last'.op = "save" /\ last'.by = c
      /\ last'.done = LegalValue(kind, memory[c])
      /\ UNCHANGED <<kind, memory>>
  BY SaveStep
<1>2. M!Updated = memory[last'.by]
  BY <1>1 DEF M!Updated
<1>3. ToPython(text)' = IF last'.done THEN M!Updated ELSE ToPython(text)
  BY <1>1, <1>2
<1>4. last'.op \in M!Changes
  BY <1>1 DEF M!Changes
<1>5. last'.done = LegalValue(kind, memory[last'.by])
  BY <1>1
<1> QED
  BY <1>1, <1>3, <1>4, <1>5 DEF M!Change

LEMMA ReadsRefine ==
    ASSUME ColumnsInv, NEW c \in Clients,
           \/ Load(c)
           \/ \E v \in Values[kind] : Edit(c, v)
           \/ \E t \in TypedTexts : Clean(c, t)
    PROVE  ColumnsInv' /\ M!Read
<1>1. kind \in {"list", "set"}
  BY DEF ColumnsInv
<1>2. CASE Load(c)
  <2>1. /\ memory' = [memory EXCEPT ![c] = ToPython(text)]
        /\ UNCHANGED <<kind, text>>
        /\ last'.op = "load" /\ last'.by = c
    BY <1>2 DEF Load, Did
  <2>2. ToPython(text) \in Held(kind)
    BY ToPythonIs
  <2>3. /\ ColumnsInv' /\ ToPython(text)' = ToPython(text)
        /\ memory'[c] = ToPython(text)
        /\ \A d \in Clients \ {c} : memory'[d] = memory[d]
    BY <2>1, <2>2, MemoryStep
  <2> QED
    BY <2>1, <2>3 DEF M!Read
<1>3. ASSUME NEW v \in Values[kind], Edit(c, v)
      PROVE  ColumnsInv' /\ M!Read
  <2>1. /\ memory' = [memory EXCEPT ![c] = v]
        /\ UNCHANGED <<kind, text>>
        /\ last'.op = "edit" /\ last'.by = c
    BY <1>3 DEF Edit, Did
  <2>2. v \in Held(kind)
    BY <1>1, EditedAreHeld
  <2>3. /\ ColumnsInv' /\ ToPython(text)' = ToPython(text)
        /\ \A d \in Clients \ {c} : memory'[d] = memory[d]
    BY <2>1, <2>2, MemoryStep
  <2> QED
    BY <2>1, <2>3 DEF M!Read
<1>4. ASSUME NEW t \in TypedTexts, Clean(c, t)
      PROVE  ColumnsInv' /\ M!Read
  <2> DEFINE f == Cleaned(t)
  <2>1. /\ memory' = IF NoErrors(f) THEN [memory EXCEPT ![c] = f.value] ELSE memory
        /\ UNCHANGED <<kind, text>>
        /\ last' = [op |-> "clean", by |-> c, arg |-> Null, done |-> NoErrors(f)]
    BY <1>4 DEF Clean, Did
  <2>2. last'.op = "clean" /\ last'.by = c /\ last'.done = NoErrors(f)
    BY <2>1
  <2>3. f.value \in Held(kind) /\ (NoErrors(f) => LegalValue(kind, f.value))
    <3>1. t \in Seq(Chars)
      BY TextsAssumption
    <3> QED
      BY <1>1, <3>1, CleanedIs
  <2> HIDE DEF f
  <2>4. CASE NoErrors(f)
    <3>1. memory' = [memory EXCEPT ![c] = f.value] /\ UNCHANGED <<kind, text>>
      BY <2>1, <2>4
    <3>2. /\ ColumnsInv' /\ ToPython(text)' = ToPython(text)
          /\ memory'[c] = f.value
          /\ \A d \in Clients \ {c} : memory'[d] = memory[d]
      BY <2>3, <3>1, MemoryStep
    <3>3. LegalValue(kind, memory'[last'.by])
      BY <2>2, <2>3, <2>4, <3>2
    <3> QED
      BY <2>2, <2>4, <3>1, <3>2, <3>3 DEF M!Read
  <2>5. CASE ~NoErrors(f)
    <3>1. memory' = memory /\ kind' = kind /\ text' = text
      BY <2>1, <2>5
    <3>2. ColumnsInv' /\ ToPython(text)' = ToPython(text)
      BY <3>1 DEF ColumnsInv, ToPython
    <3> QED
      BY <2>2, <2>5, <3>1, <3>2 DEF M!Read
  <2> QED
    BY <2>4, <2>5
<1> QED
  BY <1>2, <1>3, <1>4

LEMMA ColumnsStart ==
    ASSUME ColumnsInit
    PROVE  ColumnsInv /\ M!Init
<1>1. /\ kind \in {"list", "set"} /\ text = <<>>
      /\ memory = [c \in Clients |-> ToPython(<<>>)]
      /\ last.op = "none"
  BY DEF ColumnsInit
<1>2. Join(<<>>) = <<>> /\ <<>> \in Lists /\ <<>> \in Seq(Seq(Chars))
  <2>1. <<>> \in Seq(Seq(Chars)) /\ <<>> \in Seq(Chars)
    BY EmptySeq
  <2> QED
    BY <2>1, JoinIsText, ListsAppend
<1>3. Range(<<>>) = {}
  BY DEF Range
<1>4. MembersOf(<<>>) = <<>>
  BY DEF MembersOf
<1>5. ToPython(<<>>) = IF kind = "list" THEN <<>> ELSE {}
  BY <1>3, <1>4 DEF ToPython
<1>6. Distinct(<<>>) /\ Fits(<<>>)
  <2>1. Len(<<>>) = 0
    OBVIOUS
  <2>2. MaxLength \in Nat
    BY ColumnsAssumption
  <2>3. 0 <= MaxLength
    BY <2>2
  <2>4. \A i \in 1..0 : FALSE
    OBVIOUS
  <2> QED
    BY <2>1, <2>3, <2>4, Zenon DEF Distinct, Fits
<1>7. ToPython(<<>>) \in Held(kind)
  <2>1. IsFiniteSet({}) /\ {} \subseteq Seq(Chars)
    BY FS_EmptySet
  <2> QED
    BY <1>1, <1>2, <1>5, <2>1 DEF Held
<1>8. ColumnsInv
  <2>1. Holds(kind, <<>>)
    BY <1>2, <1>6 DEF Holds
  <2>2. \E m : Holds(kind, m) /\ text = Join(m)
    BY <1>1, <1>2, <2>1
  <2>3. memory \in [Clients -> Held(kind)]
    BY <1>1, <1>7
  <2> QED
    BY <1>1, <1>6, <2>2, <2>3 DEF ColumnsInv
<1>9. M!Init
  BY <1>1, <1>5 DEF M!Init
<1> QED
  BY <1>8, <1>9

LEMMA ColumnsStep ==
    ASSUME ColumnsInv, ColumnsNext
    PROVE  ColumnsInv' /\ M!Next
<1>1. PICK c \in Clients :
        \/ \E x \in Items : UpdateList(c, x) \/ UpdateSet(c, x)
        \/ \E v \in Values[kind] : Edit(c, v)
        \/ \E t \in TypedTexts : Clean(c, t)
        \/ Load(c) \/ Save(c)
  BY DEF ColumnsNext
<1>2. CASE \E x \in Items : UpdateList(c, x) \/ UpdateSet(c, x)
  BY <1>2, ListStep, SetStep DEF M!Next
<1>3. CASE \/ \E v \in Values[kind] : Edit(c, v)
           \/ \E t \in TypedTexts : Clean(c, t)
           \/ Load(c)
  BY <1>3, ReadsRefine DEF M!Next
<1>4. CASE Save(c)
  BY <1>4, SaveRefines DEF M!Next
<1> QED
  BY <1>1, <1>2, <1>3, <1>4

LEMMA ColumnsStutter ==
    ASSUME ColumnsInv, UNCHANGED columnVars
    PROVE  ColumnsInv' /\ UNCHANGED <<kind, ToPython(text), memory, last>>
BY DEF ColumnsInv, columnVars, ToPython

LEMMA ColumnsInvariant == ColumnsSpec => []ColumnsInv
<1>1. ColumnsInit => ColumnsInv
  BY ColumnsStart
<1>2. ColumnsInv /\ [ColumnsNext]_columnVars => ColumnsInv'
  BY ColumnsStep, ColumnsStutter
<1> QED
  BY <1>1, <1>2, PTL DEF ColumnsSpec

\* Whatever updates, loads, forms and saves interleave, the text is the join
\* of members with text and without commas, a set's without duplicates, so
\* that from_db_value() reads back what was written.
THEOREM ColumnsAreWellFormed == ColumnsSpec => []WellFormed
<1>1. ASSUME ColumnsInv PROVE WellFormed
  <2>1. PICK m : Holds(kind, m) /\ text = Join(m)
    BY <1>1 DEF ColumnsInv
  <2>2. m \in Lists /\ MembersOf(text) = m
    BY <2>1, MembersOfJoin DEF Holds
  <2>3. \A i \in DOMAIN m : m[i] # <<>>
    <3>1. m \in Seq(Seq(Chars)) /\ \A i \in 1..Len(m) : m[i] # <<>>
      BY <2>2, ListFacts
    <3>2. DOMAIN m = 1..Len(m)
      BY <3>1
    <3> QED
      BY <3>1, <3>2
  <2>4. kind = "set" => Cardinality(ToPython(text)) = Len(m)
    <3>1. kind = "set" => Distinct(m) /\ ToPython(text) = Range(m)
      BY <2>1, <2>2 DEF Holds, ToPython
    <3>2. Cardinality(Range(m)) = Len(m) <=> Distinct(m)
      BY <2>2, ListFacts, DistinctSize
    <3> QED
      BY <3>1, <3>2
  <2>5. Fits(text)
    BY <1>1 DEF ColumnsInv
  <2> QED
    BY <2>1, <2>2, <2>3, <2>4, <2>5 DEF WellFormed
<1> QED
  BY <1>1, ColumnsInvariant, PTL

LEMMA IndexIs ==
    ASSUME NEW m \in Lists, NEW x, NEW i \in 0..Len(m)
    PROVE  IndexLookup(Join(m), i, x) <=>
                /\ i < Len(m) /\ m[i + 1] = x
                /\ \A j \in 1..i : m[j] # x
<1> DEFINE p == FindInSet(x, Join(m))
<1>1. FoundAt(m, x, p) /\ Len(m) \in Nat
  BY FindIs, ListFacts
<1>2. IndexLookup(Join(m), i, x) <=> p = i + 1
  BY DEF IndexLookup
<1> HIDE DEF p
<1>3. ASSUME p = i + 1
      PROVE  i < Len(m) /\ m[i + 1] = x /\ \A j \in 1..i : m[j] # x
  <2>1. p \in 1..Len(m) /\ m[p] = x /\ \A j \in 1..p - 1 : m[j] # x
    BY <1>1, <1>3 DEF FoundAt
  <2>2. p - 1 = i /\ i < Len(m)
    BY <1>1, <1>3, <2>1
  <2> QED
    BY <1>3, <2>1, <2>2
<1>4. ASSUME i < Len(m), m[i + 1] = x, \A j \in 1..i : m[j] # x
      PROVE  p = i + 1
  <2>1. i + 1 \in 1..Len(m)
    BY <1>1, <1>4
  <2>2. p \in 1..Len(m) /\ m[p] = x /\ \A j \in 1..p - 1 : m[j] # x
    BY <1>1, <1>4, <2>1 DEF FoundAt
  <2>3. ~(p < i + 1)
    <3>1. p < i + 1 => p \in 1..i
      BY <1>1, <2>2
    <3> QED
      BY <1>4, <2>2, <3>1
  <2>4. ~(i + 1 < p)
    <3>1. i + 1 < p => i + 1 \in 1..p - 1
      BY <1>1, <2>2
    <3> QED
      BY <1>4, <2>2, <3>1
  <2> QED
    BY <1>1, <2>2, <2>3, <2>4
<1> QED
  BY <1>2, <1>3, <1>4

\* SetLength, contains and the lookup by index, which count commas and ask
\* FIND_IN_SET, answer on every text that the column may hold as they would
\* for the list or the set.
THEOREM LookupsAreRight == ColumnsSpec => []LookupsRight
<1>1. ASSUME ColumnsInv PROVE LookupsRight
  <2>1. PICK m : Holds(kind, m) /\ text = Join(m)
    BY <1>1 DEF ColumnsInv
  <2>2. m \in Lists /\ MembersOf(text) = m
    BY <2>1, MembersOfJoin DEF Holds
  <2>3. SetLength(text) = Len(m)
    BY <2>1, <2>2, CommasOfList
  <2>4. ASSUME NEW x \in Items
        PROVE  SetContains(text, x) = (x \in Range(m))
    <3>1. FoundAt(m, x, FindInSet(x, text)) /\ m \in Seq(Seq(Chars)) /\ Len(m) \in Nat
      BY <2>1, <2>2, FindIs, ListFacts
    <3>2. x \in Range(m) <=> \E i \in 1..Len(m) : m[i] = x
      BY <3>1, RangeIs
    <3>3. FindInSet(x, text) # 0 <=> \E i \in 1..Len(m) : m[i] = x
      BY <3>1 DEF FoundAt
    <3> QED
      BY <3>2, <3>3 DEF SetContains
  <2>5. ASSUME NEW x \in Items, NEW i \in 0..Len(m)
        PROVE  IndexLookup(text, i, x) =
                    /\ i < Len(m) /\ m[i + 1] = x
                    /\ \A j \in 1..i : m[j] # x
    <3>1. IndexLookup(text, i, x) <=>
                    /\ i < Len(m) /\ m[i + 1] = x
                    /\ \A j \in 1..i : m[j] # x
      BY <2>1, <2>2, IndexIs
    <3> QED
      BY <3>1 DEF IndexLookup
  <2> QED
    BY <2>2, <2>3, <2>4, <2>5 DEF LookupsRight
<1> QED
  BY <1>1, ColumnsInvariant, PTL

\* Every step of the text and its SQL is a step of a list or a set that
\* updates, saves and loads: no update is lost or applied to a stale value,
\* a refused one has no effect, and a save refuses only what cannot be held.
THEOREM ColumnsImplementMembers == ColumnsSpec => ImplementsMembers
<1>1. ColumnsInit => M!Init
  BY ColumnsStart
<1>2. ColumnsInv /\ [ColumnsNext]_columnVars
        => [M!Next]_<<kind, ToPython(text), memory, last>>
  BY ColumnsStep, ColumnsStutter
<1> QED
  BY <1>1, <1>2, ColumnsInvariant, PTL DEF ColumnsSpec, ImplementsMembers, M!Spec

-----------------------------------------------------------------------------
(* Dynamic columns: specs and their levels *)

\* The specs that a lookup by a spec goes on with: those in it, or none.
Within == [s \in Specs |-> Nested(s) \cup ({<<>>} \ {s})]

LEMMA SpecsFounded == Founded(Specs, Within)
<1>1. Within \in [Specs -> SUBSET Specs]
  BY DynamicAssumption DEF Within
<1>2. ASSUME NEW T \in (SUBSET Specs) \ {{}}
      PROVE  \E s \in T : Within[s] \cap T = {}
  <2>1. CASE <<>> \in T
    <3>1. DOMAIN <<>> = {}
      OBVIOUS
    <3>2. Within[<<>>] = {}
      BY <3>1, DynamicAssumption DEF Within, Nested
    <3> QED
      BY <2>1, <3>2
  <2>2. CASE <<>> \notin T
    BY <2>2, DynamicAssumption DEF Within
  <2> QED
    BY <2>1, <2>2
<1> QED
  BY <1>1, <1>2 DEF Founded

IsDict(e) == e[1] = "dict"

LEMMA NestedIn ==
    /\ \A s \in Specs : \A k \in DOMAIN s :
        IsDict(s[k]) => s[k][2] \in Within[s] /\ s[k][2] \in Specs
    /\ \A s \in Specs : \A k \in DOMAIN s : <<>> \in Within[s]
    /\ \A m \in Mappings : \A k \in DOMAIN m : IsDict(m[k]) => m[k][2] \in Mappings
<1>1. \A k : k \notin DOMAIN <<>>
  OBVIOUS
<1> QED
  BY <1>1, DynamicAssumption DEF Within, Nested, IsDict

\* One level of the check, with g for the specs in it.
ChecksLevel(t, g) ==
    \A k \in DOMAIN t : IF IsDict(t[k]) THEN g[t[k][2]] ELSE t[k][2] \in DOMAIN SpecMap

LEMMA ChecksEquation ==
    ASSUME NEW s \in Specs
    PROVE  SpecChecks(s) <=> \A k \in DOMAIN s :
               IF IsDict(s[k]) THEN SpecChecks(s[k][2]) ELSE s[k][2] \in DOMAIN SpecMap
<1> DEFINE F == [t \in Specs |-> [g \in [Specs -> BOOLEAN] |-> ChecksLevel(t, g)]]
           Is(f) == f = [t \in Specs |->
                        \A k \in DOMAIN t : IF t[k][1] = "dict" THEN f[t[k][2]]
                                            ELSE t[k][2] \in DOMAIN SpecMap]
           checks == CHOOSE f : Is(f)
<1>1. \A t \in Specs : SpecChecks(t) = checks[t]
  BY DEF SpecChecks
<1>2. Looks(Specs, BOOLEAN, Within, F)
  <2>1. F \in [Specs -> [[Specs -> BOOLEAN] -> BOOLEAN]]
    BY DEF ChecksLevel
  <2>2. ASSUME NEW t \in Specs, NEW g \in [Specs -> BOOLEAN], NEW h \in [Specs -> BOOLEAN],
               \A u \in Within[t] : g[u] = h[u]
        PROVE  F[t][g] = F[t][h]
    <3>1. F[t][g] = ChecksLevel(t, g) /\ F[t][h] = ChecksLevel(t, h)
      OBVIOUS
    <3>2. \A k \in DOMAIN t : IsDict(t[k]) => g[t[k][2]] = h[t[k][2]]
      BY <2>2, NestedIn
    <3>3. ChecksLevel(t, g) <=> ChecksLevel(t, h)
      BY ONLY <3>2, Zenon DEF ChecksLevel
    <3>4. ChecksLevel(t, g) \in BOOLEAN /\ ChecksLevel(t, h) \in BOOLEAN
      BY DEF ChecksLevel
    <3> QED
      BY <3>1, <3>3, <3>4
  <2> QED
    BY <2>1, <2>2, Zenon DEF Looks
<1>3. PICK c \in [Specs -> BOOLEAN] : \A t \in Specs : c[t] = F[t][c]
  <2> DEFINE V == BOOLEAN
             v == TRUE
  <2>1. v \in V /\ Looks(Specs, V, Within, F)
    BY <1>2
  <2> HIDE DEF F, V, v
  <2>2. \E f \in [Specs -> V] : \A t \in Specs : f[t] = F[t][f]
    BY <2>1, SpecsFounded, TreeRecursion
  <2> QED
    BY <2>2 DEF V
, SpecsFounded, TreeRecursion
<1>4. Is(c)
  <2>1. \A t \in Specs : c[t] = ChecksLevel(t, c)
    BY <1>3
  <2> QED
    BY <2>1, <1>3, Zenon DEF ChecksLevel, IsDict
<1>5. Is(checks)
  <2> HIDE DEF Is
  <2> QED
    BY <1>4
<1> HIDE DEF checks
<1>6. \A t \in Specs : checks[t] = ChecksLevel(t, checks)
  BY <1>5, Zenon DEF ChecksLevel, IsDict
<1>7. \A k \in DOMAIN s : IsDict(s[k]) => SpecChecks(s[k][2]) = checks[s[k][2]]
  BY <1>1, NestedIn
<1> QED
  BY <1>1, <1>6, <1>7, Zenon DEF ChecksLevel

\* One level of the test of a mapping, with g for the mappings in it.
FitsLevel(t, n, g) ==
    \A k \in DOMAIN t \cap DOMAIN n :
        IF IsDict(t[k]) THEN IsDict(n[k]) /\ n[k][2] \in g[t[k][2]]
        ELSE IsInstance(n[k], t[k][2])

LEMMA ValidEquation ==
    ASSUME NEW s \in Specs, NEW m \in Mappings
    PROVE  ValidateSpec(s, m) <=> \A k \in DOMAIN s \cap DOMAIN m :
               IF IsDict(s[k]) THEN IsDict(m[k]) /\ ValidateSpec(s[k][2], m[k][2])
               ELSE IsInstance(m[k], s[k][2])
<1> DEFINE V == SUBSET Mappings
           F == [t \in Specs |-> [g \in [Specs -> V] |-> {n \in Mappings : FitsLevel(t, n, g)}]]
           Is(f) == f = [t \in Specs |->
                {n \in Mappings : \A k \in DOMAIN t \cap DOMAIN n :
                    IF t[k][1] = "dict" THEN n[k][1] = "dict" /\ n[k][2] \in f[t[k][2]]
                    ELSE IsInstance(n[k], t[k][2])}]
           valid == CHOOSE f : Is(f)
<1>1. \A t, n : ValidateSpec(t, n) <=> n \in valid[t]
  BY DEF ValidateSpec
<1>2. Looks(Specs, V, Within, F)
  <2>1. F \in [Specs -> [[Specs -> V] -> V]]
    OBVIOUS
  <2>2. ASSUME NEW t \in Specs, NEW g \in [Specs -> V], NEW h \in [Specs -> V],
               \A u \in Within[t] : g[u] = h[u]
        PROVE  F[t][g] = F[t][h]
    <3>1. F[t][g] = {n \in Mappings : FitsLevel(t, n, g)}
          /\ F[t][h] = {n \in Mappings : FitsLevel(t, n, h)}
      OBVIOUS
    <3>2. \A k \in DOMAIN t : IsDict(t[k]) => g[t[k][2]] = h[t[k][2]]
      BY <2>2, NestedIn
    <3>3. \A n \in Mappings : FitsLevel(t, n, g) <=> FitsLevel(t, n, h)
      BY ONLY <3>2 DEF FitsLevel
    <3> QED
      BY <3>1, <3>3
  <2> QED
    BY <2>1, <2>2, Zenon DEF Looks
<1>3. PICK c \in [Specs -> V] : \A t \in Specs : c[t] = F[t][c]
  <2>1. {} \in V
    OBVIOUS
  <2> HIDE DEF F, V
  <2> QED
    BY <1>2, <2>1, SpecsFounded, TreeRecursion
<1>4. Is(c)
  <2>1. \A t \in Specs : c[t] = {n \in Mappings : FitsLevel(t, n, c)}
    BY <1>3
  <2> QED
    BY <2>1, <1>3, Zenon DEF FitsLevel, IsDict
<1>5. Is(valid)
  <2> HIDE DEF Is
  <2> QED
    BY <1>4
<1> HIDE DEF valid
<1>6. \A t \in Specs : valid[t] = {n \in Mappings : FitsLevel(t, n, valid)}
  BY <1>5, Zenon DEF FitsLevel, IsDict
<1>7. ValidateSpec(s, m) <=> FitsLevel(s, m, valid)
  BY <1>1, <1>6
<1> QED
  BY <1>1, <1>7, Zenon DEF FitsLevel

-----------------------------------------------------------------------------
(* Lookups *)

LEMMA TransformIs ==
    ASSUME NEW s \in Specs, NEW name \in DOMAIN s \ Registered
    PROVE  /\ GetTransform(s, name).key = name
           /\ GetTransform(s, name).subspec \in Within[s]
           /\ IsDict(s[name]) => /\ GetTransform(s, name).type = "BINARY"
                                 /\ GetTransform(s, name).subspec = s[name][2]
           /\ ~IsDict(s[name]) => GetTransform(s, name).subspec = <<>>
           /\ ~IsDict(s[name]) /\ s[name][2] \in DOMAIN SpecMap
                => GetTransform(s, name).type = SpecMap[s[name][2]]
BY NestedIn DEF GetTransform, IsDict

\* What is true of the lookups of one level, with g for the next.
ReadableLevel(r, n, g) ==
    /\ \A name \in DOMAIN r \ Registered :
        /\ GetTransform(r, name).key = name
        /\ GetTransform(r, name).type \in SqlTypes \cup {"BINARY"}
        /\ name \in DOMAIN n =>
            /\ Reads(GetTransform(r, name).type, n[name])
            /\ GetTransform(r, name).type = "BINARY"
                  => n[name][2] \in g[GetTransform(r, name).subspec]
    /\ \A name \in DOMAIN n, sql \in SqlTypes :
        name \o <<sql>> \notin DOMAIN r \cup Registered =>
            /\ GetTransform(r, name \o <<sql>>).key = name
            /\ GetTransform(r, name \o <<sql>>).type = sql

LEMMA ReadableEquation ==
    \E g : /\ \A s, m : Readable(s, m) <=> m \in g[s]
           /\ \A s \in Specs : \A m \in Mappings : m \in g[s] <=> ReadableLevel(s, m, g)
<1> DEFINE V == SUBSET Mappings
           F == [t \in Specs |-> [g \in [Specs -> V] |-> {n \in Mappings : ReadableLevel(t, n, g)}]]
           Is(f) == f = [r \in Specs |->
            {n \in Mappings :
                /\ \A name \in DOMAIN r \ Registered :
                    LET t == GetTransform(r, name) IN
                    /\ t.key = name /\ t.type \in SqlTypes \cup {"BINARY"}
                    /\ name \in DOMAIN n =>
                        /\ Reads(t.type, n[name])
                        /\ t.type = "BINARY" => n[name][2] \in f[t.subspec]
                /\ \A name \in DOMAIN n, sql \in SqlTypes :
                    name \o <<sql>> \notin DOMAIN r \cup Registered =>
                        /\ GetTransform(r, name \o <<sql>>).key = name
                        /\ GetTransform(r, name \o <<sql>>).type = sql}]
           readable == CHOOSE f : Is(f)
<1>1. \A t, n : Readable(t, n) <=> n \in readable[t]
  BY DEF Readable
<1>2. Looks(Specs, V, Within, F)
  <2>1. F \in [Specs -> [[Specs -> V] -> V]]
    OBVIOUS
  <2>2. ASSUME NEW t \in Specs, NEW g \in [Specs -> V], NEW h \in [Specs -> V],
               \A u \in Within[t] : g[u] = h[u]
        PROVE  F[t][g] = F[t][h]
    <3>1. F[t][g] = {n \in Mappings : ReadableLevel(t, n, g)}
          /\ F[t][h] = {n \in Mappings : ReadableLevel(t, n, h)}
      OBVIOUS
    <3>2. \A name \in DOMAIN t \ Registered : g[GetTransform(t, name).subspec] = h[GetTransform(t, name).subspec]
      BY <2>2, TransformIs
    <3>3. \A n \in Mappings : ReadableLevel(t, n, g) <=> ReadableLevel(t, n, h)
      BY ONLY <3>2, Zenon DEF ReadableLevel
    <3> QED
      BY <3>1, <3>3
  <2> QED
    BY <2>1, <2>2, Zenon DEF Looks
<1>3. PICK c \in [Specs -> V] : \A t \in Specs : c[t] = F[t][c]
  <2>1. {} \in V
    OBVIOUS
  <2> HIDE DEF F, V
  <2> QED
    BY <1>2, <2>1, SpecsFounded, TreeRecursion
<1>4. Is(c)
  <2>1. \A t \in Specs : c[t] = {n \in Mappings : ReadableLevel(t, n, c)}
    BY <1>3
  <2> QED
    BY <2>1, <1>3, Zenon DEF ReadableLevel
<1>5. Is(readable)
  <2> HIDE DEF Is
  <2> QED
    BY <1>4
<1> HIDE DEF readable
<1>6. \A t \in Specs : readable[t] = {n \in Mappings : ReadableLevel(t, n, readable)}
  BY <1>5, Zenon DEF ReadableLevel
<1> QED
  BY <1>1, <1>6

\* A name with a type behind it.
LEMMA NameAndType ==
    ASSUME NEW V, NEW name \in Seq(V), name # <<>>, NEW x \in V
    PROVE  /\ Len(name \o <<x>>) > 1
           /\ Last(name \o <<x>>) = x
           /\ Front(name \o <<x>>) = name
BY DEF Last, Front

LEMMA SpecMapIs ==
    \A t \in DOMAIN SpecMap : /\ SpecMap[t] \in SqlTypes \cup {"BINARY"}
                              /\ SpecMap[t] = "BINARY" <=> t = "dict"
BY DEF SqlTypes, SpecMap, Range

\* Keys of a mapping, with any type behind them.
LEMMA TypedLookups ==
    ASSUME NEW s, NEW m \in Mappings, NEW name \in DOMAIN m, NEW sql \in SqlTypes,
           name \o <<sql>> \notin DOMAIN s \cup Registered
    PROVE  /\ GetTransform(s, name \o <<sql>>).key = name
           /\ GetTransform(s, name \o <<sql>>).type = sql
<1> DEFINE V == STRING \cup SqlTypes
<1>1. name \in Seq(V) /\ name # <<>>
  <2>1. name \in Seq(STRING) /\ name # <<>>
    BY DynamicAssumption
  <2>2. \A n \in Seq(STRING) : n \in Seq(V)
    OBVIOUS
  <2> QED
    BY <2>1, <2>2
<1>2. sql \in V
  OBVIOUS
<1> HIDE DEF V
<1> DEFINE full == name \o <<sql>>
<1>3. Len(full) > 1 /\ Last(full) = sql /\ Front(full) = name
  BY <1>1, <1>2, NameAndType
<1> HIDE DEF full
<1>4. full \notin DOMAIN s /\ full \notin Registered
  BY DEF full
<1>5. GetTransform(s, full).key = name /\ GetTransform(s, full).type = sql
  BY <1>3, <1>4 DEF GetTransform
<1> QED
  BY <1>5 DEF full

\* The lookup of a key in a spec that passes check(), with a value that fits.
LEMMA KeyIsRead ==
    ASSUME NEW s \in Specs, SpecChecks(s), NEW m \in Mappings, ValidateSpec(s, m),
           NEW name \in (DOMAIN s \ Registered) \cap DOMAIN m
    PROVE  /\ Reads(GetTransform(s, name).type, m[name])
           /\ GetTransform(s, name).type = "BINARY" =>
                /\ IsDict(m[name])
                /\ SpecChecks(GetTransform(s, name).subspec)
                /\ ValidateSpec(GetTransform(s, name).subspec, m[name][2])
<1> DEFINE t == GetTransform(s, name)
           e == s[name]
           x == m[name]
<1>1. /\ IsDict(e) => t.type = "BINARY" /\ t.subspec = e[2]
      /\ ~IsDict(e) => t.subspec = <<>>
      /\ ~IsDict(e) /\ e[2] \in DOMAIN SpecMap => t.type = SpecMap[e[2]]
  BY TransformIs, Zenon
<1>2. IF IsDict(e) THEN SpecChecks(e[2]) ELSE e[2] \in DOMAIN SpecMap
  BY ChecksEquation, Zenon
<1>3. IF IsDict(e) THEN IsDict(x) /\ ValidateSpec(e[2], x[2]) ELSE IsInstance(x, e[2])
  BY ValidEquation, Zenon
<1>4. x[1] = "value" => x[2] # "dict"
  BY DynamicAssumption
<1>5. IsDict(x) => x[2] \in Mappings
  BY NestedIn
<1> HIDE DEF t, e, x
<1>6. CASE IsDict(e)
  <2>1. Reads(t.type, x)
    BY <1>1, <1>3, <1>6 DEF Reads, IsDict
  <2> QED
    BY <1>1, <1>2, <1>3, <1>6, <2>1, Zenon DEF t, x
<1>7. CASE ~IsDict(e)
  <2>1. e[2] \in DOMAIN SpecMap /\ t.type = SpecMap[e[2]] /\ t.subspec = <<>>
        /\ IsInstance(x, e[2])
    BY <1>1, <1>2, <1>3, <1>7, Zenon
  <2>2. t.type = "BINARY" <=> e[2] = "dict"
    BY <2>1, SpecMapIs
  <2>3. IsDict(x) <=> e[2] = "dict"
    BY <1>4, <2>1 DEF IsInstance, IsDict
  <2>4. Reads(t.type, x)
    BY <2>1, <2>2, <2>3 DEF Reads, IsDict
  <2>5. SpecChecks(<<>>) /\ (IsDict(x) => ValidateSpec(<<>>, x[2]))
    <3>1. \A k : k \notin DOMAIN <<>>
      OBVIOUS
    <3>2. <<>> \in Specs
      BY DynamicAssumption
    <3> QED
      BY <1>5, <3>1, <3>2, ChecksEquation, ValidEquation, Zenon
  <2> QED
    BY <2>1, <2>2, <2>3, <2>4, <2>5, Zenon DEF t, x
<1> QED
  BY <1>6, <1>7

\* A mapping that fits a spec that passes check() can be read back.
LEMMA FitsIsReadable ==
    \A s \in Specs : SpecChecks(s) =>
        \A m \in Mappings : ValidateSpec(s, m) => Readable(s, m)
<1> DEFINE P == {s \in Specs : SpecChecks(s) =>
                    \A m \in Mappings : ValidateSpec(s, m) => Readable(s, m)}
<1>1. PICK g : /\ \A s, m : Readable(s, m) <=> m \in g[s]
               /\ \A s \in Specs : \A m \in Mappings : m \in g[s] <=> ReadableLevel(s, m, g)
  BY ReadableEquation
<1>2. ASSUME NEW s \in Specs, Within[s] \subseteq P
      PROVE  s \in P
  <2> SUFFICES ASSUME SpecChecks(s), NEW m \in Mappings, ValidateSpec(s, m)
               PROVE  ReadableLevel(s, m, g)
    BY <1>1
  <2>1. ASSUME NEW name \in DOMAIN s \ Registered
        PROVE  /\ GetTransform(s, name).key = name
               /\ GetTransform(s, name).type \in SqlTypes \cup {"BINARY"}
               /\ GetTransform(s, name).subspec \in P
    <3>1. IF IsDict(s[name]) THEN SpecChecks(s[name][2]) ELSE s[name][2] \in DOMAIN SpecMap
      BY ChecksEquation, Zenon
    <3>2. GetTransform(s, name).type \in SqlTypes \cup {"BINARY"}
      BY <3>1, TransformIs, SpecMapIs
    <3> QED
      BY <1>2, <3>2, TransformIs
  <2>2. ASSUME NEW name \in DOMAIN s \ Registered, name \in DOMAIN m
        PROVE  /\ Reads(GetTransform(s, name).type, m[name])
               /\ GetTransform(s, name).type = "BINARY"
                     => m[name][2] \in g[GetTransform(s, name).subspec]
    <3> DEFINE t == GetTransform(s, name)
    <3>1. /\ Reads(t.type, m[name])
          /\ t.type = "BINARY" => /\ IsDict(m[name]) /\ SpecChecks(t.subspec)
                                  /\ ValidateSpec(t.subspec, m[name][2])
      BY <2>2, KeyIsRead, Zenon
    <3>2. IsDict(m[name]) => m[name][2] \in Mappings
      BY <2>2, NestedIn
    <3>3. t.subspec \in P
      BY <2>1
    <3> HIDE DEF t
    <3>4. t.type = "BINARY" => m[name][2] \in g[t.subspec]
      BY <1>1, <3>1, <3>2, <3>3
    <3> QED
      BY <3>1, <3>4 DEF t
  <2>3. \A name \in DOMAIN m, sql \in SqlTypes :
        name \o <<sql>> \notin DOMAIN s \cup Registered =>
            /\ GetTransform(s, name \o <<sql>>).key = name
            /\ GetTransform(s, name \o <<sql>>).type = sql
    BY TypedLookups, Zenon
  <2> QED
    BY <2>1, <2>2, <2>3, Zenon DEF ReadableLevel
<1> HIDE DEF P
<1>3. Specs \subseteq P
  BY <1>2, SpecsFounded, TreeInduction
<1> QED
  BY <1>3 DEF P

-----------------------------------------------------------------------------
(* Columns with a spec *)

\* What is stored fits the spec.
DynamicInv == spec \in Specs /\ stored \in Mappings /\ ValidateSpec(spec, stored)

\* A mapping in a dynamic column, at first an empty one and later what
\* get_prep_value() let pass, can be looked up at each level in the types of
\* its values, except for the keys that a registered transform hides.
THEOREM DynamicColumnsAreReadable == DynamicSpec => []DynamicReadable
<1>1. DynamicInit => DynamicInv
  <2>1. \A k : k \notin DOMAIN <<>>
    OBVIOUS
  <2> QED
    BY <2>1, ValidEquation, DynamicAssumption, Zenon DEF DynamicInit, DynamicInv
<1>2. DynamicInv /\ [DynamicNext]_dynamicVars => DynamicInv'
  <2> SUFFICES ASSUME DynamicInv, [DynamicNext]_dynamicVars PROVE DynamicInv'
    OBVIOUS
  <2>1. CASE UNCHANGED dynamicVars
    BY <2>1 DEF dynamicVars, DynamicInv
  <2>2. ASSUME NEW m \in Mappings, Store(m) PROVE DynamicInv'
    BY <2>2 DEF Store, DynamicInv
  <2> QED
    BY <2>1, <2>2 DEF DynamicNext
<1>3. DynamicInv => DynamicReadable
  BY FitsIsReadable DEF DynamicInv, DynamicReadable
<1> QED
  BY <1>1, <1>2, <1>3, PTL DEF DynamicSpec

=============================================================================
