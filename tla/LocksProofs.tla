---------------------------- MODULE LocksProofs -----------------------------
(***************************************************************************)
(* Locks exclude each other, blocks keep them and leaving tells whether     *)
(* they were lost: for any number of clients, lock names, models with any   *)
(* parents, nested blocks and lost sessions.                                *)
(*                                                                         *)
(* For user locks, a session holds a lock exactly as often as its client    *)
(* is in blocks that this session entered, so a client that is inside owns  *)
(* the lock.  For table locks, the locks that a client holds in its block   *)
(* are those it asked for, and no two sessions' locks conflict.             *)
(***************************************************************************)
EXTENDS Locks, FiniteSetTheorems, FunctionTheorems, SequenceTheorems, TLAPS

Block == [name : Names, session : 0..MaxSessions]

\* The blocks for lock n that client c entered in its present session.
Held(c, n) ==
    {i \in 1..Depth(c) : entered[c][i] = [name |-> n, session |-> conn[c]]}

\* A session that was not opened yet has left no trace.
SessionsKnown ==
    /\ ConnectionInv /\ opened <= MaxSessions
    /\ \A n \in Names : userLocks[n].by <= opened
    /\ \A c \in Clients : \A i \in 1..Depth(c) :
           entered[c][i].session \in 1..opened

\* The sessions of nested blocks are in the order of opening.
BlocksInOrder ==
    \A c \in Clients : \A i \in 1..Depth(c) :
        /\ Connected(c) => entered[c][i].session <= conn[c]
        /\ \A j \in i..Depth(c) : entered[c][i].session <= entered[c][j].session

HoldsAsEntered ==
    \A c \in Clients, n \in Names :
        Connected(c) =>
            IF userLocks[n].by = conn[c]
            THEN Cardinality(Held(c, n)) = userLocks[n].depth
            ELSE Held(c, n) = {}

UserInv == TypeOK /\ SessionsKnown /\ BlocksInOrder /\ HoldsAsEntered

-----------------------------------------------------------------------------
(* Type correctness and sessions *)

\* Clients can have distinct sessions to begin with.
LEMMA FirstSessions ==
    ASSUME ConnectionInit
    PROVE  /\ opened \in Nat /\ conn \in [Clients -> 1..opened]
           /\ \A c, d \in Clients : conn[c] = conn[d] => c = d
<1>1. Cardinality(Clients) \in Nat
      /\ ExistsBijection(1..Cardinality(Clients), Clients)
  BY ClientsAssumption, FS_CardinalityType
<1>2. PICK f : f \in Bijection(Clients, 1..Cardinality(Clients))
  BY <1>1, Fun_ExistsBijSymmetric, Fun_ExistsBij
<1>3. /\ f \in [Clients -> 1..opened]
      /\ \A c, d \in Clients : f[c] = f[d] => c = d
  BY <1>2, Fun_BijectionProperties DEF ConnectionInit
<1> QED
  BY <1>1, <1>3 DEF ConnectionInit

LEMMA UserInit == Init => UserInv
<1> SUFFICES ASSUME Init
             PROVE  UserInv
  OBVIOUS
<1>1. /\ opened \in Nat /\ opened <= MaxSessions
      /\ conn \in [Clients -> 1..opened]
      /\ \A c, d \in Clients : conn[c] = conn[d] => c = d
  BY FirstSessions, ClientsAssumption DEF Init, ConnectionInit
<1>2. conn \in [Clients -> 0..MaxSessions] /\ conn \in [Clients -> 0..opened]
  BY <1>1, ClientsAssumption
<1>3. /\ entered = [c \in Clients |-> <<>>]
      /\ userLocks = [n \in Names |-> Free]
  BY DEF Init, UserLockInit
<1>4. entered \in [Clients -> Seq(Block)]
  BY <1>3
<1>5. TypeOK
  <2>1. answer \in {"returned", "raised"}
    BY DEF Init, ConnectionInit
  <2>2. /\ phase \in [Clients -> Phases] /\ autocommit \in [Clients -> BOOLEAN]
        /\ asked \in [Clients -> Requests \cup {Nothing}]
        /\ tableLocks \in [Clients -> [Tables -> {"none", "READ", "WRITE"}]]
        /\ dirty \in [Clients -> SUBSET Tables]
    BY DEF Init, TableLockInit, Phases, Unlocked
  <2>3. wanted \in [Clients -> Names \cup {NoName}]
    BY DEF Init, UserLockInit
  <2> QED
    BY <1>1, <1>2, <1>3, <1>4, <2>1, <2>2, <2>3 DEF TypeOK, Block
<1>6. \A c \in Clients : Depth(c) = 0
  BY <1>3 DEF Depth
<1>7. SessionsKnown
  BY <1>1, <1>2, <1>3, <1>6 DEF SessionsKnown, ConnectionInv, Free, NoSession
<1>9. BlocksInOrder
  BY <1>6 DEF BlocksInOrder
<1>8. HoldsAsEntered
  <2>1. \A c \in Clients, n \in Names :
            Held(c, n) = {} /\ userLocks[n].by = 0
    BY <1>3, <1>6 DEF Held, Free, NoSession
  <2> QED
    BY <2>1 DEF HoldsAsEntered, Connected, NoSession
<1> QED
  BY <1>5, <1>7, <1>8, <1>9 DEF UserInv

-----------------------------------------------------------------------------
(* User locks *)

LEMMA HeldIsFinite ==
    ASSUME TypeOK, NEW c \in Clients, NEW n
    PROVE  /\ Held(c, n) \subseteq 1..Depth(c) /\ Depth(c) \in Nat
           /\ IsFiniteSet(Held(c, n)) /\ Cardinality(Held(c, n)) \in Nat
<1>1. Depth(c) \in Nat
  BY DEF TypeOK, Depth
<1>2. IsFiniteSet(1..Depth(c)) /\ Held(c, n) \in SUBSET (1..Depth(c))
  BY <1>1, FS_Interval DEF Held
<1>3. IsFiniteSet(Held(c, n))
  BY <1>2, FS_Subset
<1> QED
  BY <1>1, <1>2, <1>3, FS_CardinalityType

\* Entering adds a block of the present session.
LEMMA EntersBlock ==
    ASSUME TypeOK, SessionsKnown, BlocksInOrder, NEW c \in Clients, NEW n \in Names,
           Connected(c), conn' = conn, opened' = opened,
           entered' = [entered EXCEPT ![c] =
                          Append(@, [name |-> n, session |-> conn[c]])]
    PROVE  /\ entered' \in [Clients -> Seq(Block)]
           /\ \A d \in Clients : \A i \in 1..Depth(d)' :
                  entered'[d][i].session \in 1..opened
           /\ BlocksInOrder'
           /\ \A d \in Clients, m \in Names :
                  IF d = c /\ m = n
                  THEN Cardinality(Held(d, m)') = Cardinality(Held(d, m)) + 1
                  ELSE Held(d, m)' = Held(d, m)
<1>1. entered \in [Clients -> Seq(Block)]
  BY DEF TypeOK, Block
<1>c. conn[c] \in 1..opened /\ conn[c] \in 0..MaxSessions
  BY DEF TypeOK, SessionsKnown, ConnectionInv, Connected, NoSession
<1> DEFINE b == [name |-> n, session |-> conn[c]]
           s == entered[c]
<1>2. b \in Block /\ s \in Seq(Block)
  BY <1>1, <1>c DEF Block
<1>3. /\ Append(s, b) \in Seq(Block) /\ Len(Append(s, b)) = Len(s) + 1
      /\ Len(s) \in Nat
      /\ \A i \in 1..Len(s) : Append(s, b)[i] = s[i]
      /\ Append(s, b)[Len(s) + 1] = b
  BY <1>2, AppendProperties, LenProperties
<1>4. /\ entered'[c] = Append(s, b)
      /\ \A d \in Clients \ {c} : entered'[d] = entered[d]
  BY <1>1
<1>5. entered' \in [Clients -> Seq(Block)]
  BY <1>1, <1>3
<1>6. \A i \in 1..(Len(s) + 1) : i \in 1..Len(s) \/ i = Len(s) + 1
  BY <1>3
<1>7. ASSUME NEW d \in Clients, NEW i \in 1..Depth(d)'
      PROVE  entered'[d][i].session \in 1..opened
  <2>1. CASE d # c
    BY <1>4, <1>7, <2>1 DEF SessionsKnown, Depth
  <2>2. CASE d = c
    BY <1>c, <1>3, <1>4, <1>6, <1>7, <2>2 DEF SessionsKnown, Depth
  <2> QED
    BY <2>1, <2>2
<1>8. ASSUME NEW d \in Clients \ {c}, NEW m
      PROVE  Held(d, m)' = Held(d, m)
  BY <1>4 DEF Held, Depth
<1>9. ASSUME NEW m \in Names \ {n}
      PROVE  Held(c, m)' = Held(c, m)
  <2>1. Held(c, m)' =
          {i \in 1..(Len(s) + 1) : Append(s, b)[i] = [name |-> m, session |-> conn[c]]}
    BY <1>3, <1>4 DEF Held, Depth
  <2>2. Held(c, m) = {i \in 1..Len(s) : s[i] = [name |-> m, session |-> conn[c]]}
    BY DEF Held, Depth
  <2>3. b # [name |-> m, session |-> conn[c]]
    BY <1>9
  <2> QED
    BY <1>3, <1>6, <2>1, <2>2, <2>3
<1>10. Cardinality(Held(c, n)') = Cardinality(Held(c, n)) + 1
  <2>1. Held(c, n)' = {i \in 1..(Len(s) + 1) : Append(s, b)[i] = b}
    BY <1>3, <1>4 DEF Held, Depth
  <2>2. Held(c, n) = {i \in 1..Len(s) : s[i] = b}
    BY DEF Held, Depth
  <2>3. Held(c, n)' = Held(c, n) \cup {Len(s) + 1} /\ Len(s) + 1 \notin Held(c, n)
    BY <1>3, <1>6, <2>1, <2>2
  <2> QED
    BY <2>3, HeldIsFinite, FS_AddElement
<1>11. BlocksInOrder'
  <2> SUFFICES ASSUME NEW d \in Clients, NEW i \in 1..Depth(d)'
               PROVE  /\ Connected(d) => entered'[d][i].session <= conn[d]
                      /\ \A j \in i..Depth(d)' :
                             entered'[d][i].session <= entered'[d][j].session
    BY DEF BlocksInOrder, Connected
  <2>1. CASE d # c
    BY <1>4, <2>1 DEF BlocksInOrder, Depth
  <2>2. CASE d = c
    <3>1. \A j \in 1..Len(s) : /\ s[j].session <= conn[c]
                              /\ \A k \in j..Len(s) : s[j].session <= s[k].session
      BY DEF BlocksInOrder, Depth
    <3>2. Depth(d)' = Len(s) + 1
      BY <1>3, <1>4, <2>2 DEF Depth
    <3>3. \A j \in i..(Len(s) + 1) : i \in 1..Len(s) =>
              j \in i..Len(s) \/ j = Len(s) + 1
      BY <1>3
    <3>4. i = Len(s) + 1 => \A j \in i..(Len(s) + 1) : j = Len(s) + 1
      BY <1>3
    <3>5. b.session = conn[c] /\ conn[c] <= conn[c]
      BY <1>c
    <3>6. CASE i \in 1..Len(s)
      <4>1. \A j \in i..Len(s) : j \in 1..Len(s)
        BY <1>3, <3>6
      <4> QED
        BY <1>3, <1>4, <2>2, <3>1, <3>2, <3>3, <3>5, <3>6, <4>1
    <3>7. CASE i = Len(s) + 1
      BY <1>3, <1>4, <2>2, <3>2, <3>4, <3>5, <3>7
    <3> QED
      BY <1>6, <3>2, <3>6, <3>7
  <2> QED
    BY <2>1, <2>2
<1> QED
  BY <1>5, <1>7, <1>8, <1>9, <1>10, <1>11

\* Leaving removes the innermost block, whichever session entered it.
LEMMA LeavesBlock ==
    ASSUME TypeOK, SessionsKnown, BlocksInOrder, NEW c \in Clients, Depth(c) > 0,
           conn' = conn, opened' = opened,
           entered' = [entered EXCEPT ![c] = SubSeq(@, 1, Len(@) - 1)]
    PROVE  /\ entered' \in [Clients -> Seq(Block)]
           /\ \A d \in Clients : \A i \in 1..Depth(d)' :
                  entered'[d][i].session \in 1..opened
           /\ BlocksInOrder'
           /\ Depth(c)' = Depth(c) - 1
           /\ \A d \in Clients \ {c} : Depth(d)' = Depth(d)
           /\ \A d \in Clients, m \in Names :
                  Held(d, m)' = IF d = c THEN Held(d, m) \ {Depth(c)}
                                         ELSE Held(d, m)
<1>1. entered \in [Clients -> Seq(Block)]
  BY DEF TypeOK, Block
<1> DEFINE s == entered[c]
           t == SubSeq(s, 1, Len(s) - 1)
<1>2. s \in Seq(Block) /\ Len(s) \in Nat /\ Len(s) > 0
  BY <1>1 DEF Depth
<1>3. \A i \in 1..(Len(s) - 1) : s[i] \in Block
  BY <1>2, ElementOfSeq
<1>4. /\ t \in Seq(Block) /\ Len(t) = Len(s) - 1
      /\ \A i \in 1..(Len(s) - 1) : t[i] = s[i]
  BY <1>2, <1>3, SubSeqProperties
<1>5. entered'[c] = t /\ \A d \in Clients \ {c} : entered'[d] = entered[d]
  BY <1>1
<1>6. entered' \in [Clients -> Seq(Block)]
  BY <1>1, <1>4
<1>7. ASSUME NEW d \in Clients, NEW i \in 1..Depth(d)'
      PROVE  entered'[d][i].session \in 1..opened
  <2>1. CASE d # c
    BY <1>5, <1>7, <2>1 DEF SessionsKnown, Depth
  <2>2. CASE d = c
    BY <1>2, <1>4, <1>5, <1>7, <2>2 DEF SessionsKnown, Depth
  <2> QED
    BY <2>1, <2>2
<1>8. ASSUME NEW d \in Clients \ {c}, NEW m
      PROVE  Held(d, m)' = Held(d, m)
  BY <1>5 DEF Held, Depth
<1>9. ASSUME NEW m \in Names
      PROVE  Held(c, m)' = Held(c, m) \ {Depth(c)}
  <2>1. Held(c, m)' =
          {i \in 1..(Len(s) - 1) : t[i] = [name |-> m, session |-> conn[c]]}
    BY <1>4, <1>5 DEF Held, Depth
  <2>2. Held(c, m) = {i \in 1..Len(s) : s[i] = [name |-> m, session |-> conn[c]]}
    BY DEF Held, Depth
  <2>3. \A i : i \in 1..(Len(s) - 1) <=> i \in 1..Len(s) /\ i # Len(s)
    BY <1>2
  <2> QED
    BY <1>4, <2>1, <2>2, <2>3 DEF Depth
<1>10. BlocksInOrder'
  <2> SUFFICES ASSUME NEW d \in Clients, NEW i \in 1..Depth(d)'
               PROVE  /\ Connected(d) => entered'[d][i].session <= conn[d]
                      /\ \A j \in i..Depth(d)' :
                             entered'[d][i].session <= entered'[d][j].session
    BY DEF BlocksInOrder, Connected
  <2>1. CASE d # c
    BY <1>5, <2>1 DEF BlocksInOrder, Depth
  <2>2. CASE d = c
    <3>1. \A j \in 1..Len(s) :
              /\ Connected(c) => s[j].session <= conn[c]
              /\ \A k \in j..Len(s) : s[j].session <= s[k].session
      BY DEF BlocksInOrder, Depth
    <3>2. Depth(d)' = Len(s) - 1
      BY <1>4, <1>5, <2>2 DEF Depth
    <3>3. /\ i \in 1..(Len(s) - 1) /\ i \in 1..Len(s)
          /\ \A j \in i..(Len(s) - 1) : j \in i..Len(s) /\ j \in 1..(Len(s) - 1)
      BY <1>2, <3>2
    <3> QED
      BY <1>4, <1>5, <2>2, <3>1, <3>2, <3>3
  <2> QED
    BY <2>1, <2>2
<1> QED
  BY <1>4, <1>5, <1>6, <1>7, <1>8, <1>9, <1>10 DEF Depth

\* A release touches one lock, if the session of the client holds it.
LEMMA ReleaseTypes ==
    ASSUME TypeOK, SessionsKnown, NEW c \in Clients, NEW n \in Names,
           ReleaseLock(c, n)
    PROVE  /\ userLocks' \in [Names -> [by : 1..MaxSessions, depth : Nat \ {0}]
                                          \cup {Free}]
           /\ answer' \in {"returned", "raised"}
           /\ \A m \in Names : userLocks'[m].by <= opened
           /\ \A m \in Names \ {n} : userLocks'[m] = userLocks[m]
           /\ answer' = "returned" <=> Connected(c) /\ userLocks[n].by = conn[c]
           /\ answer' # "returned" => userLocks' = userLocks
           /\ answer' = "returned" =>
                  userLocks'[n] = IF userLocks[n].depth = 1 THEN Free
                      ELSE [by |-> conn[c], depth |-> userLocks[n].depth - 1]
<1> DEFINE Held1 == [by : 1..MaxSessions, depth : Nat \ {0}]
           lock == userLocks[n]
<1>1. /\ userLocks \in [Names -> Held1 \cup {Free}] /\ opened \in Nat
      /\ \A m \in Names : userLocks[m].by <= opened
  BY DEF TypeOK, SessionsKnown
<1>2. CASE ~Connected(c) \/ lock.by # conn[c]
  <2>1. answer' = "raised" /\ userLocks' = userLocks
    BY <1>2 DEF ReleaseLock, Raises
  <2> QED
    BY <1>1, <1>2, <2>1
<1>3. CASE Connected(c) /\ lock.by = conn[c]
  <2>1. lock \in Held1
    BY <1>1, <1>3 DEF Connected, Free
  <2> DEFINE new == IF lock.depth = 1 THEN Free
                    ELSE [by |-> conn[c], depth |-> lock.depth - 1]
  <2>2. [lock EXCEPT !.depth = @ - 1] = [by |-> conn[c], depth |-> lock.depth - 1]
    BY <1>3, <2>1
  <2>3. answer' = "returned" /\ userLocks' = [userLocks EXCEPT ![n] = new]
    BY <1>3, <2>2 DEF ReleaseLock, Returns
  <2>4. new \in Held1 \cup {Free} /\ new.by <= opened
    BY <1>1, <1>3, <2>1 DEF Free, NoSession
  <2> QED
    BY <1>1, <1>3, <2>3, <2>4
<1> QED
  BY <1>2, <1>3

\* Other clients' blocks do not depend on the locks of this client's session.
LEMMA OthersHold ==
    ASSUME UserInv, NEW c \in Clients, NEW d \in Clients \ {c}, NEW m \in Names,
           Connected(d), conn' = conn, Held(d, m)' = Held(d, m),
           \/ userLocks'[m] = userLocks[m]
           \/ userLocks[m].by \in {NoSession, conn[c]}
              /\ userLocks'[m].by \in {NoSession, conn[c]}
    PROVE  IF userLocks'[m].by = conn'[d]
           THEN Cardinality(Held(d, m)') = userLocks'[m].depth
           ELSE Held(d, m)' = {}
<1>1. conn[d] # NoSession /\ conn[d] # conn[c]
  BY DEF UserInv, SessionsKnown, ConnectionInv, Connected
<1> QED
  BY <1>1 DEF UserInv, HoldsAsEntered

LEMMA AcquiredInv ==
    ASSUME UserInv, NEW c \in Clients, Acquired(c), UNCHANGED tableLockVars
    PROVE  UserInv'
<1> DEFINE n == wanted[c]
           lock == userLocks[n]
<1>1. n \in Names
  BY DEF Acquired, Idle, UserInv, TypeOK
<1>2. /\ Connected(c) /\ lock.by \in {NoSession, conn[c]}
      /\ userLocks' = [userLocks EXCEPT ![n] =
                          [by |-> conn[c], depth |-> @.depth + 1]]
      /\ entered' = [entered EXCEPT ![c] =
                        Append(@, [name |-> n, session |-> conn[c]])]
      /\ wanted' = [wanted EXCEPT ![c] = NoName]
      /\ answer' = "returned" /\ conn' = conn /\ opened' = opened
  BY DEF Acquired, Returns
<1>3. /\ entered' \in [Clients -> Seq(Block)]
      /\ \A d \in Clients : \A i \in 1..Depth(d)' :
             entered'[d][i].session \in 1..opened
      /\ BlocksInOrder'
      /\ \A d \in Clients, m \in Names :
             IF d = c /\ m = n
             THEN Cardinality(Held(d, m)') = Cardinality(Held(d, m)) + 1
             ELSE Held(d, m)' = Held(d, m)
  BY <1>1, <1>2, EntersBlock DEF UserInv
<1>4. /\ userLocks \in [Names -> [by : 1..MaxSessions, depth : Nat \ {0}]
                                    \cup {Free}]
      /\ conn[c] \in 1..MaxSessions /\ conn[c] <= opened
      /\ opened \in Nat /\ opened <= MaxSessions
  BY <1>2 DEF UserInv, TypeOK, SessionsKnown, ConnectionInv, Connected, NoSession
<1>5. lock.depth \in Nat
  BY <1>1, <1>4 DEF Free
<1>6. /\ userLocks'[n] = [by |-> conn[c], depth |-> lock.depth + 1]
      /\ \A m \in Names \ {n} : userLocks'[m] = userLocks[m]
      /\ userLocks' \in [Names -> [by : 1..MaxSessions, depth : Nat \ {0}]
                                     \cup {Free}]
  BY <1>1, <1>2, <1>4, <1>5
<1>7. TypeOK'
  BY <1>2, <1>3, <1>6 DEF UserInv, TypeOK, Block, tableLockVars
<1>8. SessionsKnown'
  BY <1>2, <1>3, <1>4, <1>6 DEF UserInv, SessionsKnown, ConnectionInv, Connected
<1>9. HoldsAsEntered'
  <2> SUFFICES ASSUME NEW d \in Clients, NEW m \in Names, Connected(d)
               PROVE  IF userLocks'[m].by = conn'[d]
                      THEN Cardinality(Held(d, m)') = userLocks'[m].depth
                      ELSE Held(d, m)' = {}
    BY <1>2 DEF HoldsAsEntered, Connected
  <2>1. CASE d # c
    BY <1>2, <1>3, <1>6, <2>1, OthersHold
  <2>2. CASE d = c /\ m # n
    BY <1>2, <1>3, <1>6, <2>2 DEF UserInv, HoldsAsEntered
  <2>3. CASE d = c /\ m = n
    <3>1. Cardinality(Held(c, n)) = lock.depth
      <4>1. CASE lock.by = conn[c]
        BY <1>1, <1>2, <4>1 DEF UserInv, HoldsAsEntered
      <4>2. CASE lock.by = NoSession
        <5>1. lock.depth = 0
          BY <1>1, <1>4, <4>2 DEF Free, NoSession
        <5>2. Held(c, n) = {}
          BY <1>1, <1>2, <4>2 DEF UserInv, HoldsAsEntered, Connected
        <5> QED
          BY <5>1, <5>2, FS_EmptySet
      <4> QED
        BY <1>2, <4>1, <4>2
    <3> QED
      BY <1>2, <1>3, <1>6, <2>3, <3>1
  <2> QED
    BY <2>1, <2>2, <2>3
<1> QED
  BY <1>3, <1>7, <1>8, <1>9 DEF UserInv

LEMMA ExitInv ==
    ASSUME UserInv, NEW c \in Clients, Exit(c), UNCHANGED tableLockVars
    PROVE  /\ UserInv'
           /\ Depth(c)' < Depth(c)
           /\ \A d \in Clients \ {c} : Depth(d)' = Depth(d)
           /\ answer' = "returned" <=>
                  Connected(c) /\ entered[c][Depth(c)].session = conn[c]
<1> DEFINE i == Depth(c)
           b == entered[c][i]
           n == b.name
<1>1. i \in Nat /\ i > 0 /\ b \in Block
  <2>1. entered[c] \in Seq(Block)
    BY DEF UserInv, TypeOK, Block
  <2> QED
    BY <2>1, ElementOfSeq DEF Exit, Depth
<1>2. n \in Names /\ b = [name |-> n, session |-> b.session]
  BY <1>1 DEF Block
<1>3. /\ entered' = [entered EXCEPT ![c] = SubSeq(@, 1, Len(@) - 1)]
      /\ ReleaseLock(c, n) /\ conn' = conn /\ opened' = opened
      /\ wanted' = wanted
  BY DEF Exit
<1>4. /\ entered' \in [Clients -> Seq(Block)]
      /\ \A d \in Clients : \A j \in 1..Depth(d)' :
             entered'[d][j].session \in 1..opened
      /\ BlocksInOrder'
      /\ Depth(c)' = i - 1
      /\ \A d \in Clients \ {c} : Depth(d)' = Depth(d)
      /\ \A d \in Clients, m \in Names :
             Held(d, m)' = IF d = c THEN Held(d, m) \ {i} ELSE Held(d, m)
  BY <1>1, <1>3, LeavesBlock DEF UserInv
<1>5. /\ userLocks' \in [Names -> [by : 1..MaxSessions, depth : Nat \ {0}]
                                     \cup {Free}]
      /\ answer' \in {"returned", "raised"}
      /\ \A m \in Names : userLocks'[m].by <= opened
      /\ \A m \in Names \ {n} : userLocks'[m] = userLocks[m]
      /\ answer' = "returned" <=> Connected(c) /\ userLocks[n].by = conn[c]
      /\ answer' # "returned" => userLocks' = userLocks
      /\ answer' = "returned" =>
             userLocks'[n] = IF userLocks[n].depth = 1 THEN Free
                 ELSE [by |-> conn[c], depth |-> userLocks[n].depth - 1]
  BY <1>2, <1>3, ReleaseTypes DEF UserInv
<1>6. TypeOK'
  BY <1>3, <1>4, <1>5 DEF UserInv, TypeOK, Block, tableLockVars
<1>7. SessionsKnown'
  BY <1>3, <1>4, <1>5 DEF UserInv, SessionsKnown, ConnectionInv, Connected
\* The block counts for its lock if its session is the present one.
<1>8. \A m \in Names : i \in Held(c, m) <=> m = n /\ b.session = conn[c]
  BY <1>1, <1>2 DEF Held
\* If it does not, no block of the present session is left.
<1>9. b.session # conn[c] /\ Connected(c) => \A m \in Names : Held(c, m) = {}
  <2> SUFFICES ASSUME b.session # conn[c], Connected(c),
                      NEW m \in Names, NEW j \in Held(c, m)
               PROVE  FALSE
    OBVIOUS
  <2>1. j \in 1..i /\ i \in 1..i /\ i \in j..i /\ entered[c][j].session = conn[c]
    BY <1>1 DEF Held
  <2>2. /\ entered[c][j].session <= b.session /\ b.session <= conn[c]
        /\ b.session \in Int /\ conn[c] \in Int
    BY <1>1, <2>1 DEF UserInv, BlocksInOrder, SessionsKnown, ConnectionInv
  <2> QED
    BY <2>1, <2>2
<1>10. answer' = "returned" <=> Connected(c) /\ b.session = conn[c]
  <2>1. ASSUME Connected(c), b.session = conn[c]
        PROVE  userLocks[n].by = conn[c]
    BY <1>2, <1>8, <2>1 DEF UserInv, HoldsAsEntered
  <2>2. ASSUME Connected(c), userLocks[n].by = conn[c]
        PROVE  Held(c, n) # {}
    <3>1. userLocks[n] # Free
      BY <2>2 DEF Connected, Free
    <3>2. userLocks[n].depth # 0
      BY <1>2, <3>1 DEF UserInv, TypeOK
    <3> QED
      BY <1>2, <2>2, <3>2, FS_EmptySet DEF UserInv, HoldsAsEntered
  <2> QED
    BY <1>2, <1>5, <1>9, <2>1, <2>2
<1> HIDE DEF n, b, i
<1>11. HoldsAsEntered'
  <2> SUFFICES ASSUME NEW d \in Clients, NEW m \in Names, Connected(d)
               PROVE  IF userLocks'[m].by = conn'[d]
                      THEN Cardinality(Held(d, m)') = userLocks'[m].depth
                      ELSE Held(d, m)' = {}
    BY <1>3 DEF HoldsAsEntered, Connected
  <2>1. CASE d # c
    <3>1. \/ userLocks'[m] = userLocks[m]
          \/ userLocks[m].by \in {NoSession, conn[c]}
             /\ userLocks'[m].by \in {NoSession, conn[c]}
      BY <1>5 DEF Free
    <3> QED
      BY <1>3, <1>4, <2>1, <3>1, OthersHold
  <2>2. CASE d = c /\ (m # n \/ b.session # conn[c])
    <3>1. Held(c, m)' = Held(c, m) \ {i}
      BY <1>4
    <3>2. i \notin Held(c, m)
      BY <1>8, <2>2
    <3>3. userLocks'[m] = userLocks[m]
      <4>1. CASE m # n
        BY <1>5, <4>1
      <4>2. CASE b.session # conn[c]
        BY <1>5, <1>10, <4>2
      <4> QED
        BY <2>2, <4>1, <4>2
    <3> QED
      BY <1>3, <2>2, <3>1, <3>2, <3>3 DEF UserInv, HoldsAsEntered
  <2>3. CASE d = c /\ m = n /\ b.session = conn[c]
    <3>1. /\ userLocks[m].by = conn[c] /\ i \in Held(c, m)
          /\ Cardinality(Held(c, m)) = userLocks[m].depth
      BY <1>5, <1>8, <1>10, <2>3 DEF UserInv, HoldsAsEntered
    <3>2. Held(c, m)' = Held(c, m) \ {i} /\ IsFiniteSet(Held(c, m))
      BY <1>4, HeldIsFinite DEF UserInv
    <3>3. /\ Cardinality(Held(c, m)') = userLocks[m].depth - 1
          /\ IsFiniteSet(Held(c, m)')
      BY <3>1, <3>2, FS_RemoveElement
    <3>4. conn'[c] = conn[c] /\ conn[c] # NoSession
      BY <1>3, <2>3 DEF Connected
    <3>5. CASE userLocks[m].depth = 1
      <4>1. userLocks'[m] = Free
        BY <1>5, <1>10, <2>3, <3>5
      <4>2. Held(c, m)' = {}
        BY <3>3, <3>5, FS_EmptySet
      <4> QED
        BY <2>3, <3>4, <4>1, <4>2 DEF Free
    <3>6. CASE userLocks[m].depth # 1
      <4>1. userLocks'[m] = [by |-> conn[c], depth |-> userLocks[m].depth - 1]
        BY <1>5, <1>10, <2>3, <3>6
      <4> QED
        BY <2>3, <3>3, <3>4, <4>1
    <3> QED
      BY <3>5, <3>6
  <2> QED
    BY <2>1, <2>2, <2>3
<1> QED
  BY <1>1, <1>4, <1>6, <1>7, <1>10, <1>11 DEF UserInv, b, i

\* Who is in no block for a lock does not hold it, and releases nothing.
LEMMA ReleaseUnheldInv ==
    ASSUME UserInv, NEW c \in Clients, NEW n \in Names, ReleaseUnheld(c, n),
           UNCHANGED tableLockVars
    PROVE  UserInv'
<1>1. /\ ReleaseLock(c, n) /\ conn' = conn /\ opened' = opened
      /\ wanted' = wanted /\ entered' = entered
  BY DEF ReleaseUnheld
<1>2. Held(c, n) = {}
  BY DEF ReleaseUnheld, Held
<1>3. ~(Connected(c) /\ userLocks[n].by = conn[c])
  <2> SUFFICES ASSUME Connected(c), userLocks[n].by = conn[c]
               PROVE  FALSE
    OBVIOUS
  <2>1. userLocks[n].depth = 0
    BY <1>2, FS_EmptySet DEF UserInv, HoldsAsEntered
  <2>2. userLocks[n] # Free
    BY DEF Connected, Free
  <2> QED
    BY <2>1, <2>2 DEF UserInv, TypeOK
<1>4. answer' \in {"returned", "raised"} /\ userLocks' = userLocks
  BY <1>1, <1>3, ReleaseTypes DEF UserInv
<1>5. TypeOK'
  BY <1>1, <1>4 DEF UserInv, TypeOK, tableLockVars
<1>6. SessionsKnown' /\ BlocksInOrder' /\ HoldsAsEntered'
  BY <1>1, <1>4 DEF UserInv, SessionsKnown, BlocksInOrder, HoldsAsEntered,
                    Held, Depth, Connected, ConnectionInv
<1> QED
  BY <1>5, <1>6 DEF UserInv

\* Steps that leave the sessions, the user locks and the blocks alone.
LEMMA BlocksUnchanged ==
    ASSUME UserInv, TypeOK',
           UNCHANGED <<conn, opened, userLocks, entered>>
    PROVE  UserInv'
<1>1. SessionsKnown' /\ BlocksInOrder' /\ HoldsAsEntered'
  BY DEF UserInv, SessionsKnown, BlocksInOrder, HoldsAsEntered,
         Held, Depth, Connected, ConnectionInv
<1> QED
  BY <1>1 DEF UserInv

LEMMA UserCallInv ==
    ASSUME UserInv, NEW c \in Clients, UserLockCalls(c)
    PROVE  UserInv'
<1>1. UNCHANGED tableLockVars
  BY DEF UserLockCalls
<1>2. CASE \E n \in Names : Acquire(c, n)
  <2>1. /\ UNCHANGED <<conn, opened, answer, userLocks, entered>>
        /\ wanted' \in [Clients -> Names \cup {NoName}]
    BY <1>2 DEF Acquire, UserInv, TypeOK
  <2>2. TypeOK'
    BY <1>1, <2>1 DEF UserInv, TypeOK, tableLockVars
  <2> QED
    BY <2>1, <2>2, BlocksUnchanged
<1>3. CASE \E n \in Names : ReleaseUnheld(c, n)
  BY <1>1, <1>3, ReleaseUnheldInv
<1>4. CASE Acquired(c)
  BY <1>1, <1>4, AcquiredInv
<1>5. CASE NotAcquired(c)
  <2>1. /\ UNCHANGED <<conn, opened, userLocks, entered>>
        /\ wanted' \in [Clients -> Names \cup {NoName}]
        /\ answer' = "raised"
    BY <1>5 DEF NotAcquired, GivesUp, Raises, UserInv, TypeOK
  <2>2. TypeOK'
    BY <1>1, <2>1 DEF UserInv, TypeOK, tableLockVars
  <2> QED
    BY <2>1, <2>2, BlocksUnchanged
<1>6. CASE Exit(c)
  BY <1>1, <1>6, ExitInv
<1> QED
  BY <1>2, <1>3, <1>4, <1>5, <1>6 DEF UserLockCalls

LEMMA SessionLostInv ==
    ASSUME UserInv, NEW c \in Clients, SessionLost(c)
    PROVE  UserInv'
<1>1. /\ Connected(c) /\ conn' = [conn EXCEPT ![c] = NoSession]
      /\ UNCHANGED <<opened, answer, wanted, entered, phase, autocommit, asked>>
      /\ userLocks' = [n \in Names |-> IF userLocks[n].by = conn[c]
                                       THEN Free ELSE userLocks[n]]
      /\ tableLocks' = [tableLocks EXCEPT ![c] = Unlocked]
      /\ dirty' = [dirty EXCEPT ![c] = {}]
  BY DEF SessionLost, Lost, FreeLocksOf, LoseTables
<1>2. Unlocked \in [Tables -> {"none", "READ", "WRITE"}]
  BY DEF Unlocked
<1>3. conn \in [Clients -> 0..opened] /\ conn \in [Clients -> 0..MaxSessions]
      /\ opened \in Nat
  BY DEF UserInv, SessionsKnown, ConnectionInv, TypeOK
<1>4. TypeOK'
  <2>1. conn' \in [Clients -> 0..MaxSessions]
    BY <1>1, <1>3, ClientsAssumption DEF NoSession
  <2>2. userLocks' \in [Names -> [by : 1..MaxSessions, depth : Nat \ {0}]
                                    \cup {Free}]
    BY <1>1 DEF UserInv, TypeOK
  <2>3. /\ tableLocks' \in [Clients -> [Tables -> {"none", "READ", "WRITE"}]]
        /\ dirty' \in [Clients -> SUBSET Tables]
    BY <1>1, <1>2 DEF UserInv, TypeOK
  <2> QED
    BY <1>1, <2>1, <2>2, <2>3 DEF UserInv, TypeOK
<1>5. \A d \in Clients : Connected(d)' => d # c /\ conn'[d] = conn[d] /\ Connected(d)
  BY <1>1, <1>3 DEF Connected
<1>6. SessionsKnown'
  <2>1. conn' \in [Clients -> 0..opened]
    BY <1>1, <1>3 DEF NoSession
  <2>2. \A d, e \in Clients : Connected(d)' /\ conn'[d] = conn'[e] => d = e
    <3> SUFFICES ASSUME NEW d \in Clients, NEW e \in Clients,
                        Connected(d)', conn'[d] = conn'[e]
                 PROVE  d = e
      OBVIOUS
    <3>1. e # c
      BY <1>1, <1>3 DEF Connected
    <3> QED
      BY <1>1, <1>3, <1>5, <3>1 DEF UserInv, SessionsKnown, ConnectionInv
  <2>3. \A n \in Names : userLocks'[n].by <= opened
    BY <1>1, <1>3 DEF Free, NoSession, UserInv, SessionsKnown
  <2> QED
    BY <1>1, <1>3, <2>1, <2>2, <2>3
       DEF UserInv, SessionsKnown, ConnectionInv, Depth
<1>7. BlocksInOrder'
  BY <1>1, <1>5 DEF UserInv, BlocksInOrder, Depth
<1>8. HoldsAsEntered'
  <2> SUFFICES ASSUME NEW d \in Clients, NEW m \in Names, Connected(d)'
               PROVE  IF userLocks'[m].by = conn'[d]
                      THEN Cardinality(Held(d, m)') = userLocks'[m].depth
                      ELSE Held(d, m)' = {}
    BY DEF HoldsAsEntered
  <2>1. d # c /\ conn'[d] = conn[d] /\ Connected(d) /\ conn[d] # conn[c]
    BY <1>1, <1>5 DEF UserInv, SessionsKnown, ConnectionInv
  <2>2. Held(d, m)' = Held(d, m)
    BY <1>1, <2>1 DEF Held, Depth
  <2>3. CASE userLocks[m].by = conn[c]
    BY <1>1, <2>1, <2>2, <2>3
       DEF Free, Connected, UserInv, HoldsAsEntered
  <2>4. CASE userLocks[m].by # conn[c]
    BY <1>1, <2>1, <2>2, <2>4 DEF UserInv, HoldsAsEntered
  <2> QED
    BY <2>3, <2>4
<1> QED
  BY <1>4, <1>6, <1>7, <1>8 DEF UserInv

\* A new session holds nothing and has entered nothing.
LEMMA ReconnectsInv ==
    ASSUME UserInv, NEW c \in Clients, Reconnects(c)
    PROVE  UserInv'
<1>1. /\ ~Connected(c) /\ opened < MaxSessions /\ opened' = opened + 1
      /\ conn' = [conn EXCEPT ![c] = opened + 1]
      /\ UNCHANGED <<answer, userLocks, wanted, entered, phase, autocommit,
                     asked, tableLocks, dirty>>
  BY DEF Reconnects, Reconnect, userLockVars, tableLockVars
<1>2. conn \in [Clients -> 0..opened] /\ conn \in [Clients -> 0..MaxSessions]
      /\ opened \in Nat /\ MaxSessions \in Nat
  BY ClientsAssumption DEF UserInv, SessionsKnown, ConnectionInv, TypeOK
<1>3. TypeOK'
  <2>1. conn' \in [Clients -> 0..MaxSessions] /\ opened' \in Nat
    BY <1>1, <1>2
  <2> QED
    BY <1>1, <2>1 DEF UserInv, TypeOK
<1>4. /\ conn'[c] = opened + 1
      /\ \A d \in Clients \ {c} : conn'[d] = conn[d] /\ Connected(d)' = Connected(d)
                                  /\ conn[d] <= opened
  BY <1>1, <1>2 DEF Connected
<1>5. SessionsKnown'
  <2>1. opened' \in Nat /\ opened' <= MaxSessions /\ conn' \in [Clients -> 0..opened']
    BY <1>1, <1>2
  <2>2. \A d, e \in Clients : Connected(d)' /\ conn'[d] = conn'[e] => d = e
    <3> SUFFICES ASSUME NEW d \in Clients, NEW e \in Clients,
                        Connected(d)', conn'[d] = conn'[e], d # e
                 PROVE  FALSE
      OBVIOUS
    <3>1. CASE d = c \/ e = c
      BY <1>2, <1>4, <3>1
    <3>2. CASE d # c /\ e # c
      BY <1>4, <3>2 DEF UserInv, SessionsKnown, ConnectionInv, Connected
    <3> QED
      BY <3>1, <3>2
  <2>3. \A n \in Names : userLocks'[n].by <= opened'
    <3>1. \A n \in Names : userLocks[n].by <= opened /\ userLocks[n].by \in Int
      BY DEF UserInv, SessionsKnown, TypeOK, Free, NoSession
    <3> QED
      BY <1>1, <1>2, <3>1
  <2>4. \A d \in Clients : \A i \in 1..Depth(d)' :
            entered'[d][i].session \in 1..opened'
    BY <1>1, <1>2 DEF UserInv, SessionsKnown, Depth
  <2> QED
    BY <2>1, <2>2, <2>3, <2>4 DEF SessionsKnown, ConnectionInv
<1>6. BlocksInOrder'
  <2> SUFFICES ASSUME NEW d \in Clients, NEW i \in 1..Depth(d)
               PROVE  /\ Connected(d)' => entered[d][i].session <= conn'[d]
                      /\ \A j \in i..Depth(d) :
                             entered[d][i].session <= entered[d][j].session
    BY <1>1 DEF BlocksInOrder, Depth
  <2>1. entered[d][i].session \in 1..opened
    BY DEF UserInv, SessionsKnown
  <2> QED
    BY <1>2, <1>4, <2>1 DEF UserInv, BlocksInOrder, Connected
<1>7. HoldsAsEntered'
  <2> SUFFICES ASSUME NEW d \in Clients, NEW m \in Names, Connected(d)'
               PROVE  IF userLocks[m].by = conn'[d]
                      THEN Cardinality(Held(d, m)') = userLocks[m].depth
                      ELSE Held(d, m)' = {}
    BY <1>1 DEF HoldsAsEntered
  <2>1. CASE d = c
    <3>1. userLocks[m].by <= opened /\ userLocks[m].by \in Int
      BY DEF UserInv, SessionsKnown, TypeOK, Free, NoSession
    <3>2. userLocks[m].by # conn'[d]
      BY <1>2, <1>4, <2>1, <3>1
    <3>3. \A i \in 1..Depth(c) : entered[c][i].session # opened + 1
      BY <1>2 DEF UserInv, SessionsKnown
    <3>4. Held(c, m)' = {}
      BY <1>1, <1>4, <3>3 DEF Held, Depth
    <3> QED
      BY <2>1, <3>2, <3>4
  <2>2. CASE d # c
    <3>1. Held(d, m)' = Held(d, m) /\ Connected(d) /\ conn'[d] = conn[d]
      BY <1>1, <1>4, <2>2 DEF Held, Depth
    <3> QED
      BY <3>1 DEF UserInv, HoldsAsEntered
  <2> QED
    BY <2>1, <2>2
<1> QED
  BY <1>3, <1>5, <1>6, <1>7 DEF UserInv

-----------------------------------------------------------------------------
(* Table locks *)

\* What a client believes of its block and what its session has go together.
Coherent(c) ==
    /\ phase[c] \in {"locking", "in"} => ~autocommit[c]
    /\ phase[c] = "unlocking" => autocommit[c]
    /\ autocommit[c] \/ phase[c] = "locking" => dirty[c] = {}
    /\ phase[c] = "in" => /\ Lockable(asked[c])
                          /\ Connected(c) => tableLocks[c] = Levels(asked[c])
                          /\ \A t \in dirty[c] : tableLocks[c][t] = "WRITE"
    /\ ~Connected(c) => tableLocks[c] = Unlocked /\ dirty[c] = {}

LocksExclude ==
    \A c, d \in Clients, t \in Tables :
        c # d /\ tableLocks[c][t] = "WRITE" => tableLocks[d][t] = "none"

TableInv == (\A c \in Clients : Coherent(c)) /\ LocksExclude

LEMMA LevelsType ==
    ASSUME NEW req
    PROVE  /\ Levels(req) \in [Tables -> {"none", "READ", "WRITE"}]
           /\ Lockable(req) => Levels(req) # Unlocked
<1>1. Levels(req) \in [Tables -> {"none", "READ", "WRITE"}]
  BY DEF Levels
<1>2. ASSUME Lockable(req)
      PROVE  Levels(req) # Unlocked
  <2>1. PICK t \in TablesOf(req.read) \cup TablesOf(req.write) : t \in Tables
    BY <1>2 DEF Lockable, TablesOf, WithParents
  <2>2. Levels(req)[t] # "none" /\ Unlocked[t] = "none"
    BY <2>1 DEF Levels, Unlocked
  <2> QED
    BY <2>2
<1> QED
  BY <1>1, <1>2

\* A step of client c leaves the others as they are, and their locks.
LEMMA OthersCoherent ==
    ASSUME TableInv, NEW c \in Clients,
           \A d \in Clients \ {c} :
               /\ conn'[d] = conn[d] /\ phase'[d] = phase[d]
               /\ autocommit'[d] = autocommit[d] /\ asked'[d] = asked[d]
               /\ tableLocks'[d] = tableLocks[d] /\ dirty'[d] = dirty[d],
           Coherent(c)',
           tableLocks'[c] \in {tableLocks[c], Unlocked}
    PROVE  TableInv'
<1>1. \A d \in Clients : Coherent(d)'
  <2> SUFFICES ASSUME NEW d \in Clients \ {c}
               PROVE  Coherent(d)'
    OBVIOUS
  <2>1. Coherent(d)
    BY DEF TableInv
  <2> QED
    BY <2>1 DEF Coherent, Connected
<1>2. \A t \in Tables : Unlocked[t] = "none"
  BY DEF Unlocked
<1>3. LocksExclude'
  BY <1>2 DEF TableInv, LocksExclude
<1> QED
  BY <1>1, <1>3 DEF TableInv

LEMMA WriteInv ==
    ASSUME TypeOK, TableInv, NEW c \in Clients, NEW t \in Tables, Write(c, t),
           UNCHANGED userLockVars
    PROVE  TypeOK' /\ TableInv'
<1> DEFINE T == WithParents(t)
<1>1. /\ T \subseteq Tables
      /\ phase[c] \in {"out", "atomic", "in"} /\ Connected(c)
      /\ \A u \in T : Writable(c, u)
      /\ dirty' = [dirty EXCEPT ![c] = IF autocommit[c] THEN {} ELSE @ \cup T]
      /\ answer' = "returned"
      /\ UNCHANGED <<conn, opened, phase, autocommit, asked, tableLocks>>
  BY DEF Write, WithParents, Returns
<1>2. TypeOK'
  BY <1>1 DEF TypeOK, userLockVars
<1>3. phase[c] = "in" => \A u \in T : tableLocks[c][u] = "WRITE"
  <2> SUFFICES ASSUME phase[c] = "in", NEW u \in T
               PROVE  tableLocks[c][u] = "WRITE"
    OBVIOUS
  <2>1. tableLocks[c] # Unlocked
    BY <1>1, LevelsType DEF TableInv, Coherent
  <2> QED
    BY <1>1, <2>1 DEF Writable
<1>4. Coherent(c)'
  <2>1. Coherent(c)
    BY DEF TableInv
  <2>2. dirty'[c] = IF autocommit[c] THEN {} ELSE dirty[c] \cup T
    BY <1>1 DEF TypeOK
  <2> QED
    BY <1>1, <1>3, <2>1, <2>2 DEF Coherent, Connected
<1>5. \A d \in Clients \ {c} : dirty'[d] = dirty[d]
  BY <1>1 DEF TypeOK
<1> QED
  BY <1>1, <1>2, <1>4, <1>5, OthersCoherent

LEMMA LockTablesInv ==
    ASSUME TypeOK, TableInv, NEW c \in Clients, LockTables(c),
           UNCHANGED userLockVars
    PROVE  TypeOK' /\ TableInv'
<1>1. /\ phase[c] = "locking" /\ phase' = [phase EXCEPT ![c] = "in"]
      /\ Connected(c) /\ Lockable(asked[c])
      /\ Grantable(c, Levels(asked[c]))
      /\ tableLocks' = [tableLocks EXCEPT ![c] = Levels(asked[c])]
      /\ dirty' = [dirty EXCEPT ![c] = {}]
      /\ answer' = "returned"
      /\ UNCHANGED <<conn, opened, autocommit, asked>>
  BY DEF LockTables, Goes, Returns
<1>2. Levels(asked[c]) \in [Tables -> {"none", "READ", "WRITE"}]
  BY LevelsType
<1>3. TypeOK'
  BY <1>1, <1>2 DEF TypeOK, userLockVars, Phases
<1>4. /\ phase'[c] = "in" /\ tableLocks'[c] = Levels(asked[c]) /\ dirty'[c] = {}
      /\ \A d \in Clients \ {c} :
             phase'[d] = phase[d] /\ tableLocks'[d] = tableLocks[d]
             /\ dirty'[d] = dirty[d]
  BY <1>1 DEF TypeOK
<1>5. \A d \in Clients : Coherent(d)'
  <2> SUFFICES ASSUME NEW d \in Clients
               PROVE  Coherent(d)'
    OBVIOUS
  <2>1. Coherent(d)
    BY DEF TableInv
  <2>2. CASE d = c
    BY <1>1, <1>4, <2>1, <2>2 DEF Coherent, Connected
  <2>3. CASE d # c
    BY <1>1, <1>4, <2>1, <2>3 DEF Coherent, Connected
  <2> QED
    BY <2>2, <2>3
<1>6. LocksExclude'
  <2> SUFFICES ASSUME NEW d \in Clients, NEW e \in Clients, NEW t \in Tables,
                      d # e, tableLocks'[d][t] = "WRITE"
               PROVE  tableLocks'[e][t] = "none"
    BY DEF LocksExclude
  <2>1. CASE d = c
    BY <1>1, <1>4, <2>1 DEF Grantable
  <2>2. CASE e = c
    <3>1. tableLocks[d][t] = "WRITE"
      BY <1>4, <2>2
    <3> QED
      BY <1>1, <1>2, <1>4, <2>2, <3>1 DEF Grantable
  <2>3. CASE d # c /\ e # c
    BY <1>4, <2>3 DEF TableInv, LocksExclude
  <2> QED
    BY <2>1, <2>2, <2>3
<1> QED
  BY <1>3, <1>5, <1>6 DEF TableInv

\* The other steps of a block change what its client believes, and may drop
\* all locks of its session.
LEMMA BlockStepInv ==
    ASSUME TypeOK, TableInv, NEW c \in Clients, UNCHANGED userLockVars,
           \/ \E req \in Requests : Enter(c, req)
           \/ Begin(c) \/ Commit(c) \/ EnterRefused(c) \/ LockTablesFails(c)
           \/ Leave(c) \/ CommitFails(c) \/ LeaveLost(c) \/ Unlock(c)
    PROVE  TypeOK' /\ TableInv'
<1>0. Coherent(c)
  BY DEF TableInv
<1>t. /\ Nothing \in Requests \cup {Nothing}
      /\ Unlocked \in [Tables -> {"none", "READ", "WRITE"}]
  BY DEF Unlocked
<1> USE DEF Goes, Phases
<1>1. CASE \E req \in Requests : Enter(c, req)
  <2>1. TypeOK'
    <3>1. /\ phase' \in [Clients -> Phases] /\ autocommit' \in [Clients -> BOOLEAN]
          /\ asked' \in [Clients -> Requests \cup {Nothing}]
      BY <1>1 DEF Enter, TypeOK
    <3>2. UNCHANGED <<conn, opened, answer, userLockVars, tableLocks, dirty>>
      BY <1>1 DEF Enter
    <3> QED
      BY <3>1, <3>2 DEF TypeOK, userLockVars
  <2>2. /\ phase'[c] = "locking" /\ autocommit[c] /\ ~autocommit'[c]
        /\ Connected(c) /\ UNCHANGED <<conn, opened, tableLocks, dirty>>
        /\ \A d \in Clients \ {c} :
               /\ phase'[d] = phase[d] /\ autocommit'[d] = autocommit[d]
               /\ asked'[d] = asked[d]
    BY <1>1 DEF Enter, RefusesEnter, TypeOK
  <2>3. Coherent(c)'
    BY <1>0, <2>2 DEF Coherent, Connected
  <2> QED
    BY <2>1, <2>2, <2>3, OthersCoherent
<1>2. CASE Begin(c)
  <2>1. TypeOK'
    BY <1>2 DEF Begin, TypeOK, userLockVars
  <2>2. /\ phase'[c] = "atomic" /\ autocommit[c] /\ Connected(c)
        /\ UNCHANGED <<conn, opened, asked, tableLocks, dirty>>
        /\ \A d \in Clients \ {c} :
               phase'[d] = phase[d] /\ autocommit'[d] = autocommit[d]
    BY <1>2 DEF Begin, TypeOK
  <2>3. Coherent(c)'
    BY <1>0, <2>2 DEF Coherent, Connected
  <2> QED
    BY <2>1, <2>2, <2>3, OthersCoherent
<1>3. CASE Commit(c)
  <2>1. TypeOK'
    BY <1>3 DEF Commit, ReturnsIf, TypeOK, userLockVars
  <2>2. /\ phase'[c] = "out" /\ dirty'[c] = {}
        /\ UNCHANGED <<conn, opened, asked, tableLocks>>
        /\ \A d \in Clients \ {c} :
               /\ phase'[d] = phase[d] /\ autocommit'[d] = autocommit[d]
               /\ dirty'[d] = dirty[d]
    BY <1>3 DEF Commit, TypeOK
  <2>3. Coherent(c)'
    BY <1>0, <2>2 DEF Coherent, Connected
  <2> QED
    BY <2>1, <2>2, <2>3, OthersCoherent
<1>4. CASE EnterRefused(c)
  <2>1. TypeOK'
    BY <1>4 DEF EnterRefused, Raises, TypeOK, userLockVars, tableLockVars
  <2>2. UNCHANGED <<conn, phase, autocommit, asked, tableLocks, dirty>>
    BY <1>4 DEF EnterRefused, tableLockVars
  <2>3. Coherent(c)'
    BY <1>0, <2>2 DEF Coherent, Connected
  <2> QED
    BY <2>1, <2>2, <2>3, OthersCoherent
<1>5. CASE LockTablesFails(c)
  <2>1. TypeOK'
    BY <1>5, <1>t DEF LockTablesFails, Raises, TypeOK, userLockVars
  <2>2. /\ phase[c] = "locking" /\ phase'[c] = "out"
        /\ UNCHANGED <<conn, opened, autocommit, tableLocks, dirty>>
        /\ \A d \in Clients \ {c} :
               phase'[d] = phase[d] /\ asked'[d] = asked[d]
    BY <1>5 DEF LockTablesFails, TypeOK
  <2>3. Coherent(c)'
    BY <1>0, <2>2 DEF Coherent, Connected
  <2> QED
    BY <2>1, <2>2, <2>3, OthersCoherent
<1>6. CASE Leave(c) \/ CommitFails(c) \/ LeaveLost(c)
  <2>1. PICK to \in {"unlocking", "out"} :
            /\ EndTransaction(c, to) /\ UNCHANGED tableLocks
            /\ answer' \in {answer, "raised"}
    BY <1>6 DEF Leave, LeaveEnds, CommitFails, LeaveLost, Raises
  <2>2. TypeOK'
    <3>1. /\ phase' \in [Clients -> Phases] /\ autocommit' \in [Clients -> BOOLEAN]
          /\ asked' \in [Clients -> Requests \cup {Nothing}]
          /\ dirty' \in [Clients -> SUBSET Tables]
      BY <1>t, <2>1 DEF EndTransaction, TypeOK
    <3>2. UNCHANGED <<conn, opened, userLocks, wanted, entered, tableLocks>>
      BY <2>1 DEF EndTransaction, userLockVars
    <3> QED
      BY <2>1, <3>1, <3>2 DEF TypeOK
  <2>3. /\ phase'[c] = to /\ autocommit'[c] /\ dirty'[c] = {}
        /\ UNCHANGED <<conn, opened, tableLocks>>
        /\ \A d \in Clients \ {c} :
               /\ phase'[d] = phase[d] /\ autocommit'[d] = autocommit[d]
               /\ dirty'[d] = dirty[d] /\ asked'[d] = asked[d]
    BY <2>1 DEF EndTransaction, TypeOK
  <2>4. Coherent(c)'
    BY <1>0, <2>1, <2>3 DEF Coherent, Connected
  <2> QED
    BY <2>2, <2>3, <2>4, OthersCoherent
<1>7. CASE Unlock(c)
  <2>1. TypeOK'
    BY <1>7, <1>t DEF Unlock, ReturnsIf, TypeOK, userLockVars
  <2>2. /\ phase'[c] = "out" /\ tableLocks'[c] = Unlocked
        /\ UNCHANGED <<conn, opened, autocommit, asked, dirty>>
        /\ \A d \in Clients \ {c} :
               phase'[d] = phase[d] /\ tableLocks'[d] = tableLocks[d]
    BY <1>7 DEF Unlock, TypeOK
  <2>3. Coherent(c)'
    BY <1>0, <2>2 DEF Coherent, Connected
  <2> QED
    BY <2>1, <2>2, <2>3, OthersCoherent
<1> QED
  BY <1>1, <1>2, <1>3, <1>4, <1>5, <1>6, <1>7

LEMMA TableCallInv ==
    ASSUME UserInv, TableInv, NEW c \in Clients, TableLockCalls(c)
    PROVE  UserInv' /\ TableInv'
<1>1. UNCHANGED userLockVars /\ TypeOK
  BY DEF TableLockCalls, UserInv
<1>2. CASE \E t \in Tables : Write(c, t)
  BY <1>1, <1>2, WriteInv, BlocksUnchanged DEF Write, userLockVars
<1>3. CASE LockTables(c)
  BY <1>1, <1>3, LockTablesInv, BlocksUnchanged DEF LockTables, userLockVars
<1>4. CASE \/ \E req \in Requests : Enter(c, req)
           \/ Begin(c) \/ Commit(c) \/ EnterRefused(c) \/ LockTablesFails(c)
           \/ Leave(c) \/ CommitFails(c) \/ LeaveLost(c) \/ Unlock(c)
  <2>1. UNCHANGED <<conn, opened>>
    BY <1>4 DEF Enter, Begin, Commit, EnterRefused, LockTablesFails, Leave,
                LeaveEnds, CommitFails, LeaveLost, EndTransaction, Unlock
  <2>2. TypeOK' /\ TableInv'
    BY <1>1, <1>4, BlockStepInv
  <2> QED
    BY <1>1, <2>1, <2>2, BlocksUnchanged DEF userLockVars
<1> QED
  BY <1>2, <1>3, <1>4 DEF TableLockCalls

LEMMA TableInit == Init => TableInv
<1> SUFFICES ASSUME Init
             PROVE  TableInv
  OBVIOUS
<1>1. \A c \in Clients : Connected(c)
  BY FirstSessions DEF Init, Connected, NoSession
<1>2. \A c \in Clients : /\ phase[c] = "out" /\ dirty[c] = {}
                         /\ tableLocks[c] = Unlocked
  BY DEF Init, TableLockInit
<1>3. LocksExclude
  BY <1>2 DEF LocksExclude, Unlocked
<1> QED
  BY <1>1, <1>2, <1>3 DEF TableInv, Coherent

LEMMA TablesUnchanged ==
    ASSUME TableInv, UNCHANGED <<conn, tableLockVars>>
    PROVE  TableInv'
BY DEF TableInv, LocksExclude, Coherent, Connected, tableLockVars

-----------------------------------------------------------------------------
(* The inductive invariant *)

LocksInv == UserInv /\ TableInv

LEMMA LocksStep == LocksInv /\ [Next]_vars => LocksInv'
<1> SUFFICES ASSUME UserInv, TableInv, [Next]_vars
             PROVE  UserInv' /\ TableInv'
  BY DEF LocksInv
<1>1. ASSUME NEW c \in Clients, UserLockCalls(c)
      PROVE  UserInv' /\ TableInv'
  <2>1. UNCHANGED <<conn, tableLockVars>>
    BY <1>1 DEF UserLockCalls, Acquire, ReleaseUnheld, Acquired, NotAcquired,
                GivesUp, Exit
  <2> QED
    BY <1>1, <2>1, UserCallInv, TablesUnchanged
<1>2. ASSUME NEW c \in Clients, TableLockCalls(c)
      PROVE  UserInv' /\ TableInv'
  BY <1>2, TableCallInv
<1>3. ASSUME NEW c \in Clients, SessionLost(c)
      PROVE  UserInv' /\ TableInv'
  <2>1. /\ conn' = [conn EXCEPT ![c] = NoSession]
        /\ UNCHANGED <<phase, autocommit, asked>>
        /\ tableLocks' = [tableLocks EXCEPT ![c] = Unlocked]
        /\ dirty' = [dirty EXCEPT ![c] = {}]
    BY <1>3 DEF SessionLost, Lost, LoseTables
  <2>2. /\ conn'[c] = NoSession /\ tableLocks'[c] = Unlocked /\ dirty'[c] = {}
        /\ \A d \in Clients \ {c} :
               /\ conn'[d] = conn[d] /\ tableLocks'[d] = tableLocks[d]
               /\ dirty'[d] = dirty[d]
    BY <2>1 DEF UserInv, TypeOK
  <2>3. Coherent(c)'
    BY <2>1, <2>2 DEF TableInv, Coherent, Connected
  <2> QED
    BY <1>3, <2>1, <2>2, <2>3, SessionLostInv, OthersCoherent
\* A client in a block is in atomic(), where no new session is opened.
<1>4. ASSUME NEW c \in Clients, Reconnects(c)
      PROVE  UserInv' /\ TableInv'
  <2>1. /\ ~Connected(c) /\ autocommit[c]
        /\ conn' = [conn EXCEPT ![c] = opened + 1]
        /\ UNCHANGED tableLockVars
    BY <1>4 DEF Reconnects, Reconnect
  <2>2. /\ tableLocks[c] = Unlocked /\ dirty[c] = {}
        /\ phase[c] \notin {"locking", "in"}
        /\ \A d \in Clients \ {c} : conn'[d] = conn[d]
    BY <2>1 DEF TableInv, Coherent, UserInv, TypeOK
  <2>3. Coherent(c)'
    BY <2>1, <2>2 DEF TableInv, Coherent, tableLockVars
  <2> QED
    BY <1>4, <2>1, <2>2, <2>3, ReconnectsInv, OthersCoherent DEF tableLockVars
<1>5. CASE UNCHANGED vars
  <2>1. TypeOK' /\ UNCHANGED <<conn, opened, userLocks, entered, tableLockVars>>
    BY <1>5 DEF vars, UserInv, TypeOK, userLockVars, tableLockVars
  <2> QED
    BY <2>1, BlocksUnchanged, TablesUnchanged
<1> QED
  BY <1>1, <1>2, <1>3, <1>4, <1>5 DEF Next

LEMMA LocksInvariant == Spec => []LocksInv
<1>1. Init => LocksInv
  BY UserInit, TableInit DEF LocksInv
<1> QED
  BY <1>1, LocksStep, PTL DEF Spec

-----------------------------------------------------------------------------
(* The properties *)

\* The variables of both kinds of locks keep their types.
THEOREM LocksTyped == Spec => []TypeOK
<1>1. LocksInv => TypeOK
  BY DEF LocksInv, UserInv
<1> QED
  BY <1>1, LocksInvariant, PTL

\* At most one client whose session lives is in with Lock(n), for any lock n.
THEOREM LockBodiesExclude == Spec => []OneInside
<1>1. LocksInv => OneInside
  <2> SUFFICES ASSUME LocksInv, NEW n \in Names,
                      NEW c \in Clients, NEW d \in Clients,
                      Connected(c), Connected(d), Inside(c, n), Inside(d, n)
               PROVE  c = d
    BY DEF OneInside
  <2>1. Held(c, n) # {} /\ Held(d, n) # {}
    BY DEF Inside, Held
  <2>2. userLocks[n].by = conn[c] /\ userLocks[n].by = conn[d]
    BY <2>1 DEF LocksInv, UserInv, HoldsAsEntered
  <2> QED
    BY <2>2 DEF LocksInv, UserInv, SessionsKnown, ConnectionInv
<1> QED
  BY <1>1, LocksInvariant, PTL


\* Leaving with Lock(n) returns exactly if the session that entered is still
\* there, even if another block holds the lock again in a new session.
THEOREM ExitsTellLoss == Spec => ExitTellsLoss
<1>1. LocksInv /\ [Next]_vars =>
          [\A c \in Clients :
              Depth(c)' < Depth(c) =>
                  (answer' = "returned" <=>
                      Connected(c) /\ entered[c][Depth(c)].session = conn[c])
            ]_<<conn, answer, userLockVars>>
  <2> SUFFICES ASSUME LocksInv, Next, NEW c \in Clients, Depth(c)' < Depth(c)
               PROVE  answer' = "returned" <=>
                          Connected(c) /\ entered[c][Depth(c)].session = conn[c]
    BY DEF vars
  <2>1. \A d \in Clients : Depth(d) \in Nat
    BY HeldIsFinite DEF LocksInv, UserInv
  <2>2. PICK d \in Clients : \/ UserLockCalls(d) \/ TableLockCalls(d)
                            \/ SessionLost(d) \/ Reconnects(d)
    BY DEF Next
  <2>3. entered' # entered
    BY <2>1 DEF Depth
  <2>4. UserLockCalls(d) /\ (Acquired(d) \/ Exit(d))
    BY <2>2, <2>3 DEF UserLockCalls, TableLockCalls, SessionLost, Reconnects,
                      Acquire, ReleaseUnheld, NotAcquired, GivesUp, userLockVars
  <2>5. CASE Exit(d)
    BY <2>1, <2>4, <2>5, ExitInv DEF UserLockCalls, LocksInv
  <2>6. CASE Acquired(d)
    <3>1. entered' = [entered EXCEPT ![d] =
                         Append(@, [name |-> wanted[d], session |-> conn[d]])]
      BY <2>6 DEF Acquired
    <3>2. /\ entered \in [Clients -> Seq(Block)]
          /\ [name |-> wanted[d], session |-> conn[d]] \in Block
      BY <2>6 DEF Acquired, Idle, LocksInv, UserInv, TypeOK, Block
    <3>3. Depth(d)' = Depth(d) + 1
      BY <3>1, <3>2, AppendProperties DEF Depth
    <3>4. \A e \in Clients \ {d} : Depth(e)' = Depth(e)
      BY <3>1, <3>2 DEF Depth
    <3> QED
      BY <2>1, <3>3, <3>4
  <2> QED
    BY <2>4, <2>5, <2>6
<1> QED
  BY <1>1, LocksInvariant, PTL DEF Spec, ExitTellsLoss

\* Whatever a with TableLock block changed is under a write lock until it is
\* committed, and LOCK TABLES finds nothing to commit.
THEOREM ChangesUnderLock == Spec => []DirtyUnderLock
<1>1. LocksInv => DirtyUnderLock
  BY DEF LocksInv, TableInv, Coherent, DirtyUnderLock
<1> QED
  BY <1>1, LocksInvariant, PTL

\* In its block a client holds the locks it asked for or has no session.
THEOREM BlocksKeepLocks == Spec => []BlockKeepsLocks
<1>1. LocksInv => BlockKeepsLocks
  BY DEF LocksInv, TableInv, Coherent, BlockKeepsLocks
<1> QED
  BY <1>1, LocksInvariant, PTL

\* Nobody else writes to a model, or to a table that it shares with its
\* parents and children, while a block that locked the model is running.
THEOREM LocksKeepOthersOut == Spec => OthersKeepOut
<1>1. LocksInv =>
          \A d \in Clients, t \in Tables :
              Write(d, t) =>
                  \A c \in Clients \ {d} :
                      phase[c] = "in" /\ Connected(c) =>
                          \A u \in asked[c].read \cup asked[c].write :
                              WithParents(u) \cap WithParents(t) = {}
  <2> SUFFICES ASSUME LocksInv, NEW d \in Clients, NEW t \in Tables, Write(d, t),
                      NEW c \in Clients \ {d}, phase[c] = "in", Connected(c),
                      NEW u \in asked[c].read \cup asked[c].write,
                      NEW x \in WithParents(u) \cap WithParents(t)
               PROVE  FALSE
    OBVIOUS
  <2>1. x \in Tables /\ Writable(d, x)
    BY DEF Write, WithParents
  <2>2. tableLocks[c] = Levels(asked[c])
    BY DEF LocksInv, TableInv, Coherent
  <2>3. Levels(asked[c])[x] # "none"
    BY <2>1 DEF Levels, TablesOf
  <2>4. tableLocks[d][x] = "WRITE" => tableLocks[c][x] = "none"
    BY <2>1 DEF LocksInv, TableInv, LocksExclude
  <2> QED
    BY <2>1, <2>2, <2>3, <2>4 DEF Writable
<1> QED
  BY <1>1, LocksInvariant, PTL DEF OthersKeepOut

\* Nothing but leaving the block, or losing the session, ends a transaction
\* with changes: TableLock refuses to start where LOCK TABLES would commit.
THEOREM NoCommitByLocking == Spec => NoImplicitCommit
<1>1. LocksInv /\ [Next]_vars =>
          [\A c \in Clients :
              dirty[c] # {} /\ dirty'[c] = {} =>
                  phase'[c] \in {"out", "unlocking"} \/ ~Connected(c)'
            ]_<<conn, answer, tableLockVars>>
  <2> SUFFICES ASSUME LocksInv, Next, NEW c \in Clients,
                      dirty[c] # {}, dirty'[c] = {}
               PROVE  phase'[c] \in {"out", "unlocking"} \/ ~Connected(c)'
    BY DEF vars
  <2>1. PICK d \in Clients : \/ UserLockCalls(d) \/ TableLockCalls(d)
                            \/ SessionLost(d) \/ Reconnects(d)
    BY DEF Next
  <2>2. TypeOK /\ Coherent(c)
    BY DEF LocksInv, UserInv, TableInv
  <2>3. ~UserLockCalls(d) /\ ~Reconnects(d)
    BY DEF UserLockCalls, Reconnects, tableLockVars
  <2>4. CASE SessionLost(d)
    BY <2>2, <2>4 DEF SessionLost, Lost, LoseTables, TypeOK, Connected
  <2>5. CASE TableLockCalls(d)
    <3>1. CASE \E t \in Tables : Write(d, t)
      BY <2>2, <3>1 DEF Write, TypeOK, Coherent
    <3>2. CASE LockTables(d)
      BY <2>2, <3>2 DEF LockTables, Goes, TypeOK, Coherent
    <3>3. CASE Commit(d)
      BY <2>2, <3>3 DEF Commit, Goes, TypeOK
    <3>4. CASE Leave(d) \/ CommitFails(d) \/ LeaveLost(d)
      BY <2>2, <3>4 DEF Leave, LeaveEnds, CommitFails, LeaveLost,
                        EndTransaction, Goes, TypeOK
    <3>5. CASE \/ \E req \in Requests : Enter(d, req)
               \/ Begin(d) \/ EnterRefused(d) \/ LockTablesFails(d) \/ Unlock(d)
      BY <3>5 DEF Enter, Begin, EnterRefused, LockTablesFails, Unlock,
                  tableLockVars
    <3> QED
      BY <2>5, <3>1, <3>2, <3>3, <3>4, <3>5 DEF TableLockCalls
  <2> QED
    BY <2>1, <2>3, <2>4, <2>5
<1> QED
  BY <1>1, LocksInvariant, PTL DEF Spec, NoImplicitCommit

=============================================================================
