------------------------------ MODULE Induction ------------------------------
(***************************************************************************)
(* Induction over numbers, sequences and trees, and functions defined by   *)
(* recursion.                                                              *)
(*                                                                         *)
(* The theorems of NaturalsInduction take the statement as an operator.    *)
(* Here it is a set, the numbers of which the statement is true; that the  *)
(* set has all numbers comes from their well-founded order.                *)
(***************************************************************************)
EXTENDS Integers, WellFoundedInduction, SequenceTheorems, TLAPS

\* A set of numbers has a least element.
LEMMA Least ==
    ASSUME NEW S, S \subseteq Nat, S # {}
    PROVE  \E m \in S : \A n \in S : m <= n
<1>1. PICK m \in S : \A n \in S : ~(<<n, m>> \in OpToRel(<, Nat))
  BY NatLessThanWellFounded, WFMin
<1>2. \A n \in S : n < m => <<n, m>> \in OpToRel(<, Nat)
  BY DEF OpToRel
<1>3. \A n \in S : n \in Nat /\ m \in Nat /\ ~(n < m)
  BY <1>1, <1>2
<1> QED
  BY <1>3

\* A set that has 0 and the successors of its elements has all numbers.
LEMMA Induction ==
    ASSUME NEW S, 0 \in S, \A n \in Nat : n \in S => n + 1 \in S
    PROVE  Nat \subseteq S
<1> SUFFICES ASSUME Nat \ S # {} PROVE FALSE
  OBVIOUS
<1>1. PICK m \in Nat \ S : \A n \in Nat \ S : m <= n
  BY Least
<1>2. m # 0 /\ m - 1 \in Nat
  BY <1>1
<1>3. m - 1 \in S
  BY <1>1, <1>2
<1> QED
  BY <1>2, <1>3

\* g begins with v and goes on with the functions of F.
Recurs(V, v, F, g) ==
    /\ g \in [Nat -> V] /\ g[0] = v
    /\ \A n \in Nat : g[n + 1] = F[n][g[n]]

\* f[n \in Nat] == IF n = 0 THEN v ELSE F[n - 1][f[n - 1]] defines a function.
LEMMA Recursion ==
    ASSUME NEW V, NEW v \in V, NEW F \in [Nat -> [V -> V]]
    PROVE  \E g : Recurs(V, v, F, g)
<1> DEFINE Upto(n, g) == /\ g \in [0..n -> V] /\ g[0] = v
                         /\ \A i \in 0..n - 1 : g[i + 1] = F[i][g[i]]
           S == {n \in Nat : \E g : Upto(n, g)}
<1>1. 0 \in S
  <2>1. Upto(0, [i \in 0..0 |-> v])
    OBVIOUS
  <2> QED
    BY <2>1
<1>2. ASSUME NEW n \in Nat, n \in S PROVE n + 1 \in S
  <2>1. PICK g : Upto(n, g)
    BY <1>2
  <2> DEFINE h == [i \in 0..n + 1 |-> IF i = n + 1 THEN F[n][g[n]] ELSE g[i]]
  <2>2. g[n] \in V /\ F[n] \in [V -> V] /\ F[n][g[n]] \in V
    BY <2>1
  <2>3. h \in [0..n + 1 -> V]
    BY <2>1, <2>2
  <2>4. h[0] = v /\ h[n + 1] = F[n][h[n]]
    BY <2>1
  <2>5. \A i \in 0..n - 1 : h[i + 1] = g[i + 1] /\ h[i] = g[i]
    OBVIOUS
  <2> HIDE DEF h
  <2>6. \A i \in 0..(n + 1) - 1 : h[i + 1] = F[i][h[i]]
    <3> TAKE i \in 0..(n + 1) - 1
    <3>1. i = n \/ i \in 0..n - 1
      OBVIOUS
    <3> QED
      BY <2>1, <2>4, <2>5, <3>1
  <2>7. Upto(n + 1, h)
    BY <2>3, <2>4, <2>6
  <2> QED
    BY <2>7
<1>3. Nat \subseteq S
  <2> HIDE DEF S
  <2> QED
    BY <1>1, <1>2, Induction
<1> DEFINE G == [n \in Nat |-> CHOOSE g : Upto(n, g)]
           H == [n \in Nat |-> G[n][n]]
<1>4. \A n \in Nat : Upto(n, G[n])
  BY <1>3
<1> HIDE DEF G, S
<1>5. ASSUME NEW n \in Nat
      PROVE  G[n + 1][n] = G[n][n]
  <2> DEFINE E == {i \in Nat : i <= n => G[n + 1][i] = G[n][i]}
  <2>1. Upto(n, G[n]) /\ Upto(n + 1, G[n + 1])
    BY <1>4
  <2>2. 0 \in E
    BY <2>1
  <2>3. ASSUME NEW i \in Nat, i \in E PROVE i + 1 \in E
    <3> SUFFICES ASSUME i + 1 <= n PROVE G[n + 1][i + 1] = G[n][i + 1]
      OBVIOUS
    <3>1. i \in 0..n - 1 /\ i \in 0..(n + 1) - 1
      OBVIOUS
    <3>2. G[n][i + 1] = F[i][G[n][i]] /\ G[n + 1][i + 1] = F[i][G[n + 1][i]]
      BY <2>1, <3>1
    <3> QED
      BY <2>3, <3>2
  <2> HIDE DEF E
  <2>4. n \in E
    BY <2>2, <2>3, Induction
  <2> QED
    BY <2>4 DEF E
<1>6. H \in [Nat -> V]
  BY <1>4
<1>7. H[0] = v
  BY <1>4
<1>8. ASSUME NEW n \in Nat PROVE H[n + 1] = F[n][H[n]]
  <2>1. Upto(n + 1, G[n + 1]) /\ n \in 0..(n + 1) - 1
    BY <1>4
  <2>2. G[n + 1][n + 1] = F[n][G[n + 1][n]]
    BY <2>1
  <2> QED
    BY <2>2, <1>5
<1> HIDE DEF H
<1> QED
  BY <1>6, <1>7, <1>8 DEF Recurs


RecursTo(N, V, v, F, g) ==
    /\ g \in [0..N -> V] /\ g[0] = v
    /\ \A n \in 1..N : g[n] = F[n][g[n - 1]]

\* f[n \in 0..N] == IF n = 0 THEN v ELSE F[n][f[n - 1]] defines a function.
LEMMA RecursionTo ==
    ASSUME NEW N \in Nat, NEW V, NEW v \in V, NEW F \in [1..N -> [V -> V]]
    PROVE  \E g : RecursTo(N, V, v, F, g)
<1> DEFINE G == [n \in Nat |-> IF n < N THEN F[n + 1] ELSE [x \in V |-> x]]
<1>1. G \in [Nat -> [V -> V]]
  <2>1. ASSUME NEW n \in Nat PROVE G[n] \in [V -> V]
    <3>1. CASE n < N
      <4>1. n + 1 \in 1..N
        BY <3>1
      <4> QED
        BY <3>1, <4>1
    <3>2. CASE ~(n < N)
      BY <3>2
    <3> QED
      BY <3>1, <3>2
  <2> QED
    BY <2>1
<1>2. \A n \in 1..N : n - 1 \in Nat /\ G[n - 1] = F[n]
  OBVIOUS
<1> HIDE DEF G
<1>3. PICK h : Recurs(V, v, G, h)
  BY <1>1, Recursion
<1>4. /\ h \in [Nat -> V] /\ h[0] = v
      /\ \A n \in Nat : h[n + 1] = G[n][h[n]]
  BY <1>3 DEF Recurs
<1> DEFINE g == [n \in 0..N |-> h[n]]
<1>5. \A n \in 0..N : g[n] = h[n]
  OBVIOUS
<1>6. g \in [0..N -> V]
  BY <1>4
<1> HIDE DEF g
<1>7. ASSUME NEW n \in 1..N
      PROVE  g[n] = F[n][g[n - 1]]
  <2>1. n \in 0..N /\ n - 1 \in 0..N /\ n - 1 \in Nat /\ n = (n - 1) + 1
    OBVIOUS
  <2>2. h[(n - 1) + 1] = G[n - 1][h[n - 1]]
    BY <1>4, <2>1
  <2> QED
    BY <1>2, <1>5, <2>1, <2>2
<1>8. g[0] = v
  BY <1>4, <1>5
<1> QED
  BY <1>6, <1>7, <1>8 DEF RecursTo

\* Induction up to N.
LEMMA InductionTo ==
    ASSUME NEW N \in Nat, NEW S, 0 \in S,
           \A n \in 1..N : n - 1 \in S => n \in S
    PROVE  0..N \subseteq S
<1> DEFINE T == {n \in Nat : n <= N => n \in S}
<1>1. 0 \in T
  OBVIOUS
<1>2. ASSUME NEW n \in Nat, n \in T PROVE n + 1 \in T
  <2> SUFFICES ASSUME n + 1 <= N PROVE n + 1 \in S
    OBVIOUS
  <2>1. n + 1 \in 1..N /\ (n + 1) - 1 = n /\ n \in S
    BY <1>2
  <2> QED
    BY <2>1
<1> HIDE DEF T
<1>3. Nat \subseteq T
  BY <1>1, <1>2, Induction
<1> QED
  BY <1>3 DEF T

\* Induction over sequences, by their last element.
LEMMA SeqInduction ==
    ASSUME NEW V, NEW S, <<>> \in S,
           \A s \in Seq(V) : s \in S => \A x \in V : Append(s, x) \in S
    PROVE  Seq(V) \subseteq S
<1> DEFINE T == {n \in Nat : \A s \in Seq(V) : Len(s) = n => s \in S}
<1>1. 0 \in T
  OBVIOUS
<1>2. ASSUME NEW n \in Nat, n \in T PROVE n + 1 \in T
  <2> SUFFICES ASSUME NEW s \in Seq(V), Len(s) = n + 1 PROVE s \in S
    OBVIOUS
  <2>1. s # <<>>
    OBVIOUS
  <2>2. PICK r \in Seq(V), x \in V : s = Append(r, x)
    BY <2>1, SequenceEmptyOrAppend
  <2>3. Len(r) = n
    BY <2>2
  <2> QED
    BY <1>2, <2>2, <2>3
<1>3. Nat \subseteq T
  <2> HIDE DEF T
  <2> QED
    BY <1>1, <1>2, Induction
<1> QED
  BY <1>3

-----------------------------------------------------------------------------
(* Recursion along a tree: x may use what the function is at B[x] *)

\* Each set of elements has one that needs no other of them.
Founded(S, B) ==
    /\ B \in [S -> SUBSET S]
    /\ \A T \in (SUBSET S) \ {{}} : \E x \in T : B[x] \cap T = {}

\* F[x] looks at a function no further than B[x].
Looks(S, V, B, F) ==
    /\ F \in [S -> [[S -> V] -> V]]
    /\ \A x \in S : \A g, h \in [S -> V] :
        (\A y \in B[x] : g[y] = h[y]) => F[x][g] = F[x][h]

\* g solves the equations of the elements of D, which need no others.
Solves(S, V, B, F, D, g) ==
    /\ D \subseteq S /\ g \in [S -> V]
    /\ \A x \in D : B[x] \subseteq D /\ g[x] = F[x][g]

\* Two solutions agree where both are.
LEMMA SolvedOnce ==
    ASSUME NEW S, NEW V, NEW B, NEW F, Founded(S, B), Looks(S, V, B, F),
           NEW D, NEW g, Solves(S, V, B, F, D, g),
           NEW E, NEW h, Solves(S, V, B, F, E, h)
    PROVE  \A x \in D \cap E : g[x] = h[x]
<1> DEFINE T == {x \in D \cap E : g[x] # h[x]}
<1> SUFFICES ASSUME T # {} PROVE FALSE
  OBVIOUS
<1>1. T \in (SUBSET S) \ {{}}
  BY DEF Solves
<1>2. PICK x \in T : B[x] \cap T = {}
  BY <1>1 DEF Founded
<1>3. B[x] \subseteq D \cap E /\ g[x] = F[x][g] /\ h[x] = F[x][h]
  BY DEF Solves
<1>4. \A y \in B[x] : g[y] = h[y]
  BY <1>2, <1>3
<1>5. x \in S /\ g \in [S -> V] /\ h \in [S -> V]
  BY DEF Solves
<1>6. F[x][g] = F[x][h]
  BY <1>4, <1>5 DEF Looks
<1> QED
  BY <1>3, <1>6

\* f[x \in S] == F[x][f] defines a function.
LEMMA TreeRecursion ==
    ASSUME NEW S, NEW V, NEW v \in V, NEW B, NEW F, Founded(S, B), Looks(S, V, B, F)
    PROVE  \E f \in [S -> V] : \A x \in S : f[x] = F[x][f]
<1> DEFINE At(x, g) == \E D : Solves(S, V, B, F, D, g) /\ x \in D
           R == {x \in S : \E g : At(x, g)}
           f == [x \in S |-> IF x \in R THEN (CHOOSE g : At(x, g))[x] ELSE v]
<1>1. ASSUME NEW D, NEW g, Solves(S, V, B, F, D, g), NEW x \in D
      PROVE  x \in R /\ f[x] = g[x]
  <2>1. x \in S /\ At(x, g)
    BY <1>1 DEF Solves
  <2> DEFINE h == CHOOSE h : At(x, h)
  <2>2. At(x, h)
    BY <2>1
  <2>3. x \in R /\ f[x] = h[x]
    BY <2>1
  <2> HIDE DEF h, R, f
  <2>4. PICK E : Solves(S, V, B, F, E, h) /\ x \in E
    BY <2>2
  <2>5. g[x] = h[x]
    BY <1>1, <2>4, SolvedOnce
  <2> QED
    BY <2>3, <2>5
<1>2. f \in [S -> V]
  <2>1. ASSUME NEW x \in R PROVE (CHOOSE g : At(x, g))[x] \in V
    <3>1. At(x, CHOOSE g : At(x, g))
      OBVIOUS
    <3> QED
      BY <3>1 DEF Solves
  <2> HIDE DEF R, At
  <2> QED
    BY <2>1
<1>3. ASSUME NEW x \in R
      PROVE  x \in S /\ B[x] \subseteq R /\ f[x] = F[x][f]
  <2>1. PICK g, D : Solves(S, V, B, F, D, g) /\ x \in D
    OBVIOUS
  <2>2. x \in S /\ g \in [S -> V] /\ B[x] \subseteq D /\ g[x] = F[x][g]
    BY <2>1 DEF Solves
  <2>3. \A y \in D : y \in R /\ f[y] = g[y]
    BY <1>1, <2>1
  <2> HIDE DEF R, f
  <2>4. F[x][f] = F[x][g]
    BY <1>2, <2>2, <2>3 DEF Looks
  <2> QED
    BY <2>1, <2>2, <2>3, <2>4
<1> HIDE DEF R, f
<1>4. S \subseteq R
  <2> SUFFICES ASSUME S \ R # {} PROVE FALSE
    OBVIOUS
  <2>1. PICK x \in S \ R : B[x] \cap (S \ R) = {}
    BY DEF Founded
  <2>2. B[x] \subseteq R /\ x \notin R
    BY <2>1 DEF Founded
  <2> DEFINE g == [f EXCEPT ![x] = F[x][f]]
  <2>3. F[x][f] \in V
    BY <1>2, <2>1 DEF Looks
  <2>4. g \in [S -> V] /\ g[x] = F[x][f] /\ \A y \in R : g[y] = f[y]
    BY <1>2, <1>3, <2>2, <2>3
  <2> HIDE DEF g
  <2>5. \A y \in R \cup {x} : B[y] \subseteq R
    BY <1>3, <2>2
  <2>6. ASSUME NEW y \in R \cup {x} PROVE y \in S /\ F[y][g] = F[y][f]
    <3>1. y \in S /\ \A z \in B[y] : g[z] = f[z]
      BY <1>3, <2>1, <2>4, <2>5
    <3> QED
      BY <1>2, <2>4, <3>1 DEF Looks
  <2>7. \A y \in R \cup {x} : g[y] = F[y][g]
    BY <1>3, <2>4, <2>6
  <2>8. Solves(S, V, B, F, R \cup {x}, g)
    BY <2>4, <2>5, <2>6, <2>7 DEF Solves
  <2>9. x \in R
    BY <1>1, <2>8
  <2> QED
    BY <2>2, <2>9
<1> QED
  BY <1>2, <1>3, <1>4

\* A set that has an element whenever it has what the element needs.
LEMMA TreeInduction ==
    ASSUME NEW S, NEW B, Founded(S, B), NEW P,
           \A x \in S : B[x] \subseteq P => x \in P
    PROVE  S \subseteq P
<1> SUFFICES ASSUME S \ P # {} PROVE FALSE
  OBVIOUS
<1>1. PICK x \in S \ P : B[x] \cap (S \ P) = {}
  BY DEF Founded
<1>2. B[x] \subseteq P
  BY <1>1 DEF Founded
<1> QED
  BY <1>1, <1>2

=============================================================================
