-------------------------- MODULE CacheLeaseProofs --------------------------
(***************************************************************************)
(* add() with a timeout elects at most one client: for any number of       *)
(* clients and keys, any timeouts, and any fixed difference of the clocks.  *)
(*                                                                         *)
(* An active lease is backed by a row that expires no earlier.  A step     *)
(* keeps the rows that are live on every clock, because an add() or a cull *)
(* compares expiries with a time its own clock has reached; so a lease      *)
(* stays backed, and an add() that wins finds no backed lease.             *)
(***************************************************************************)
EXTENDS CacheLease, MySQLCacheProofs

\* A row is live when no clock has reached its expiry.
Live(k) == table[k] # NoRow /\ \A d \in Clients : table[k].expires > Now(d)

\* A step keeps the live rows, or lets them expire later.
KeepsLive ==
    \A k \in Keys : Live(k) => /\ table'[k] # NoRow
                               /\ table'[k].expires >= table[k].expires

-----------------------------------------------------------------------------

LEMMA ActiveIsLive ==
    ASSUME TypeOK, LeaseInv, NEW c \in Clients, NEW k \in Keys, Active(c, k)
    PROVE  Live(k)
<1>1. table[k] # NoRow /\ table[k].expires >= lease[c][k]
  BY DEF LeaseInv, LeaseBacked
<1>2. table[k].expires \in Int
  BY <1>1 DEF TypeOK, Row
<1>3. lease[c][k] \in Int
  BY DEF LeaseInv
<1>4. \A d \in Clients : table[k].expires > Now(d)
  BY <1>1, <1>2, <1>3, NowIsTime DEF Active
<1> QED
  BY <1>1, <1>4 DEF Live

\* A lease that is active after a step that leaves it alone was active before.
LEMMA ActiveBefore ==
    ASSUME TypeOK, LeaseInv, NEW c \in Clients, NEW k \in Keys,
           clock' \in Nat, clock' >= clock, lease'[c][k] = lease[c][k],
           Active(c, k)'
    PROVE  Active(c, k)
<1> SUFFICES ASSUME NEW d \in Clients
             PROVE  lease[c][k] > Now(d)
  BY DEF Active
<1>1. lease[c][k] > clock' + Skew[d]
  BY DEF Active, Now
<1> QED
  BY <1>1, ClocksAssumption DEF Now, TypeOK, LeaseInv

\* A step that wins no lease keeps the leases backed and exclusive, if it
\* keeps the live rows.
LEMMA LeasesKept ==
    ASSUME TypeOK, TypeOK', LeaseInv, lease' = lease, clock' >= clock, KeepsLive
    PROVE  LeaseBacked' /\ LeaseExclusive'
<1>1. ASSUME NEW c \in Clients, NEW k \in Keys, Active(c, k)'
      PROVE  Active(c, k)
  BY <1>1, ActiveBefore DEF TypeOK
<1>2. ASSUME NEW c \in Clients, NEW k \in Keys, Active(c, k)'
      PROVE  table'[k] # NoRow /\ table'[k].expires >= lease'[c][k]
  <2>1. Active(c, k) /\ Live(k)
    BY <1>1, <1>2, ActiveIsLive
  <2>2. /\ table[k] # NoRow /\ table[k].expires >= lease[c][k]
        /\ table'[k] # NoRow /\ table'[k].expires >= table[k].expires
    BY <2>1 DEF LeaseInv, LeaseBacked, KeepsLive
  <2>3. /\ table[k].expires \in Int /\ table'[k].expires \in Int
        /\ lease[c][k] \in Int
    BY <2>2 DEF TypeOK, Row, LeaseInv
  <2> QED
    BY <2>2, <2>3
<1>3. LeaseBacked'
  BY <1>2 DEF LeaseBacked
<1>4. LeaseExclusive'
  BY <1>1 DEF LeaseInv, LeaseExclusive
<1> QED
  BY <1>3, <1>4

-----------------------------------------------------------------------------
(* Control: LeaseControl is kept *)

LEMMA ReturnControl ==
    ASSUME TypeOK, LeaseControl, NEW c \in Clients, NEW ans, Return(c, ans),
           clock' = clock
    PROVE  LeaseControl'
<1>1. \A d \in Clients : Now(d)' = Now(d) /\ Now(d) \in Nat
  BY NowIsTime DEF Now
<1> QED
  BY <1>1 DEF LeaseControl, Return, TypeOK

LEMMA CullReturnsControl ==
    ASSUME TypeOK, LeaseControl, NEW c \in Clients, NEW n,
           CullReturns(c, n), clock' = clock, pc[c] # "idle"
    PROVE  LeaseControl'
<1>1. \A d \in Clients : Now(d)' = Now(d) /\ Now(d) \in Nat
  BY NowIsTime DEF Now
<1>2. CASE call[c].op = "cull"
  BY <1>2, ReturnControl DEF CullReturns
<1>3. CASE call[c].op # "cull"
  BY <1>1, <1>3 DEF CullReturns, Send, LeaseControl, TypeOK
<1> QED
  BY <1>2, <1>3

LEMMA BeginControl ==
    ASSUME TypeOK, LeaseControl, NEW c \in Clients, NEW op, NEW S, NEW values,
           NEW exp, NEW delta, NEW s \in {"execute", "cull_expired"},
           Begin(c, Arguments(op, S, values, exp, delta), s)
    PROVE  LeaseControl'
<1>1. \A d \in Clients : Now(d)' = Now(d) /\ Now(d) \in Nat
  BY NowIsTime DEF Begin, Now
<1>2. op \in Ops[c]
  BY DEF Begin, Arguments
<1>3. /\ call'[c].op = op
      /\ \A d \in Clients \ {c} : call'[d] = call[d]
  BY DEF Begin, Arguments, TypeOK
<1>4. /\ pc' = [pc EXCEPT ![c] = s]
      /\ now'[c] = Now(c) \/ now'[c] = 0
      /\ \A d \in Clients \ {c} : now'[d] = now[d]
  BY DEF Begin, Send, TypeOK
<1> QED
  BY <1>1, <1>2, <1>3, <1>4 DEF LeaseControl, TypeOK

LEMMA StepControl ==
    ASSUME TypeOK, LeaseControl, NEW c \in Clients, Calls(c) \/ Steps(c)
    PROVE  LeaseControl'
<1>w. ASSUME NEW op, NEW S, NEW obj, NEW t, BeginWrite(c, op, S, obj, t)
      PROVE  LeaseControl'
  <2>1. CASE HasExpiry(t)
    BY <1>w, <2>1, BeginControl DEF BeginWrite, MaybeCull
  <2>2. CASE ~HasExpiry(t)
    BY <1>w, <2>2, ReturnControl DEF BeginWrite
  <2> QED
    BY <2>1, <2>2
<1>1. CASE Set(c) \/ Add(c) \/ SetMany(c)
  BY <1>1, <1>w DEF Set, Add, SetMany
<1>2. CASE Touch(c)
  <2>1. PICK k \in Keys, t \in Timeouts : Touch(c)!(k, t)
    BY <1>2 DEF Touch
  <2>2. CASE HasExpiry(t)
    BY <2>1, <2>2, BeginControl
  <2>3. CASE ~HasExpiry(t)
    BY <2>1, <2>3, ReturnControl
  <2> QED
    BY <2>2, <2>3
<1>3. CASE Lookup(c) \/ LookupMany(c) \/ LookupPrefix(c)
  BY <1>3, BeginControl DEF Lookup, LookupMany, LookupPrefix, Plain
<1>4. CASE IncrDecr(c) \/ Clear(c) \/ Cull(c)
  BY <1>4, BeginControl DEF IncrDecr, Clear, Cull, Plain
<1>5. CASE CullExpired(c)
  BY <1>5, CullReturnsControl, LeaseAssumption DEF CullExpired
<1>6. CASE CullCount(c) \/ CullAll(c) \/ CullOffset(c) \/ CullBelow(c)
  BY <1>6 DEF CullCount, CullAll, CullOffset, CullBelow, LeaseControl
<1>7. CASE Executions(c)
  <2>1. clock' = clock /\ \E ans : Return(c, ans)
    BY <1>7 DEF Executions, ExecRejected, Rejects, ExecSet, ExecAdd, ExecGet,
                ExecHasKey, ExecDelete, ExecDelta, ExecClear, ExecTouch
  <2> QED
    BY <2>1, ReturnControl
<1> QED
  BY <1>1, <1>2, <1>3, <1>4, <1>5, <1>6, <1>7 DEF Calls, Steps, Culls

LEMMA StepKeepsClock ==
    ASSUME NEW c \in Clients, Calls(c) \/ Steps(c)
    PROVE  clock' = clock
<1>w. ASSUME NEW op, NEW S, NEW obj, NEW t, BeginWrite(c, op, S, obj, t)
      PROVE  clock' = clock
  BY <1>w DEF BeginWrite, Begin
<1>1. CASE Set(c) \/ Add(c) \/ SetMany(c)
  BY <1>1, <1>w DEF Set, Add, SetMany
<1>2. CASE Touch(c) \/ Lookup(c) \/ LookupMany(c) \/ LookupPrefix(c)
  BY <1>2 DEF Touch, Lookup, LookupMany, LookupPrefix, Begin
<1>3. CASE IncrDecr(c) \/ Clear(c) \/ Cull(c)
  BY <1>3 DEF IncrDecr, Clear, Cull, Begin
<1>4. CASE Culls(c)
  BY <1>4 DEF Culls, CullExpired, CullCount, CullAll, CullOffset, CullBelow
<1>5. CASE Executions(c)
  BY <1>5 DEF Executions, ExecRejected, Rejects, ExecSet, ExecAdd, ExecGet,
              ExecHasKey, ExecDelete, ExecDelta, ExecClear, ExecTouch
<1> QED
  BY <1>1, <1>2, <1>3, <1>4, <1>5 DEF Calls, Steps

-----------------------------------------------------------------------------
(* Effects: a step keeps the live rows and wins no lease, or is an add() *)

\* What every step but a winning add() does.
Harmless == KeepsLive /\ \A d \in Clients, k \in Keys : ~Acquires(d, k)

LEMMA SameTableKeepsLive ==
    ASSUME TypeOK, table' = table
    PROVE  KeepsLive
BY DEF KeepsLive, Live, TypeOK, Row

LEMMA CallsHarmless ==
    ASSUME TypeOK, NEW c \in Clients, Calls(c)
    PROVE  Harmless
<1>b. ASSUME NEW a, NEW s, Begin(c, a, s)
      PROVE  Harmless
  BY <1>b, SameTableKeepsLive DEF Begin, Harmless, Acquires, NoAnswer, Answer
<1>e. ASSUME NEW op, Return(c, Answered(op, "TypeError")), table' = table
      PROVE  Harmless
  BY <1>e, SameTableKeepsLive
     DEF Return, Answered, Answer, Harmless, Acquires
<1>w. ASSUME NEW op, NEW S, NEW obj, NEW t, BeginWrite(c, op, S, obj, t)
      PROVE  Harmless
  BY <1>b, <1>e, <1>w DEF BeginWrite
<1>1. CASE Set(c) \/ Add(c) \/ SetMany(c)
  BY <1>1, <1>w DEF Set, Add, SetMany
<1>2. CASE Touch(c)
  BY <1>2, <1>b, <1>e DEF Touch
<1>3. CASE Lookup(c) \/ LookupMany(c) \/ LookupPrefix(c)
  BY <1>3, <1>b DEF Lookup, LookupMany, LookupPrefix
<1>4. CASE IncrDecr(c) \/ Clear(c) \/ Cull(c)
  BY <1>4, <1>b DEF IncrDecr, Clear, Cull
<1> QED
  BY <1>1, <1>2, <1>3, <1>4 DEF Calls

LEMMA CullsHarmless ==
    ASSUME TypeOK, LeaseControl, NEW c \in Clients, Culls(c)
    PROVE  Harmless
<1>1. CullExpired(c)
  BY DEF Culls, CullCount, CullAll, CullOffset, CullBelow, LeaseControl
<1>2. table' = Without(Expired(now[c])) /\ CullReturns(c, 0)
  BY <1>1, LeaseAssumption DEF CullExpired
<1>3. KeepsLive
  <2> SUFFICES ASSUME NEW k \in Keys, Live(k)
               PROVE  table'[k] # NoRow /\ table'[k].expires >= table[k].expires
    BY DEF KeepsLive
  <2>1. table[k].expires \in Int /\ table[k].expires > Now(c)
    BY DEF Live, TypeOK, Row
  <2>2. now[c] \in Nat /\ now[c] <= Now(c) /\ Now(c) \in Nat
    BY NowIsTime DEF LeaseControl, TypeOK
  <2>3. k \notin Expired(now[c])
    BY <2>1, <2>2 DEF Expired
  <2>4. table'[k] = table[k]
    BY <1>2, <2>3 DEF Without
  <2> QED
    BY <2>1, <2>4 DEF Live
<1>4. answer'.op # "add"
  BY <1>2 DEF CullReturns, Return, AnsweredInt, Answer, NoAnswer
<1> QED
  BY <1>3, <1>4 DEF Harmless, Acquires

\* incr and decr leave a row with its expiry.
LEMMA DeltaKeepsLive ==
    ASSUME TypeOK, NEW c \in Clients, ExecDelta(c)
    PROVE  KeepsLive
<1>1. PICK k \in call[c].keys : ExecDelta(c)!2!(k)
  BY DEF ExecDelta
<1>2. k \in Keys
  BY DEF TypeOK, Call, CallRecord
<1> DEFINE n == table[k].value.obj.n + call[c].delta
           value == [form |-> "decimal", obj |-> Integer(n)]
<1>3. CASE table' = table
  BY <1>3, SameTableKeepsLive
<1>4. CASE table' # table
  <2>1. /\ table[k] # NoRow /\ Fits(n)
        /\ table' = [table EXCEPT ![k].value = value]
    BY <1>1, <1>4
  <2>2. value \in [form : Forms, obj : Object]
    BY <2>1, IntegerIsObject DEF Forms, Fits
  <2> HIDE DEF value
  <2>3. table[k] \in Row
    BY <1>2, <2>1 DEF TypeOK
  <2>4. /\ [table[k] EXCEPT !.value = value] \in Row
        /\ [table[k] EXCEPT !.value = value].expires = table[k].expires
    BY <2>2, <2>3 DEF Row
  <2>5. /\ table'[k] = [table[k] EXCEPT !.value = value]
        /\ \A j \in Keys \ {k} : table'[j] = table[j]
    BY <1>2, <2>1 DEF TypeOK
  <2>6. table'[k] # NoRow /\ table'[k].expires = table[k].expires
    BY <2>4, <2>5, NoRowAssumption
  <2>7. ASSUME NEW j \in Keys, table[j] # NoRow
        PROVE  table'[j] # NoRow /\ table'[j].expires >= table[j].expires
    <3>1. table[j].expires \in Int
      BY <2>7 DEF TypeOK, Row
    <3>2. table'[j] # NoRow /\ table'[j].expires = table[j].expires
      BY <2>5, <2>6, <2>7
    <3> QED
      BY <3>1, <3>2
  <2> QED
    BY <2>7 DEF KeepsLive, Live
<1> QED
  BY <1>3, <1>4

LEMMA OtherExecutionsHarmless ==
    ASSUME TypeOK, LeaseControl, NEW c \in Clients, Executions(c), ~ExecAdd(c)
    PROVE  Harmless
<1>0. pc[c] = "execute" =>
        call[c].op \in {"add", "get", "get_many", "get_with_prefix",
                        "keys_with_prefix", "has_key", "incr", "decr", "cull"}
  BY LeaseAssumption DEF LeaseControl
<1>1. ExecRejected(c) \/ ExecGet(c) \/ ExecHasKey(c) \/ ExecDelta(c)
  BY <1>0 DEF Executions, Executes, ExecSet, ExecDelete, ExecClear, ExecTouch
<1>2. answer'.op # "add"
  <2>1. CASE ExecRejected(c)
    BY <2>1 DEF ExecRejected, Rejects, Executes, Return, Answered, Answer
  <2>2. CASE ExecGet(c)
    BY <2>2 DEF ExecGet, Executes, Return, Selected, Answered, Answer
  <2>3. CASE ExecHasKey(c)
    BY <2>3 DEF ExecHasKey, Return, AnsweredBool, Answered, Answer
  <2>4. CASE ExecDelta(c)
    BY <2>4 DEF ExecDelta, Executes, Return, AnsweredInt, Answered, Answer
  <2> QED
    BY <1>1, <2>1, <2>2, <2>3, <2>4
<1>3. KeepsLive
  <2>1. CASE ExecRejected(c) \/ ExecGet(c) \/ ExecHasKey(c)
    BY <2>1, SameTableKeepsLive
       DEF ExecRejected, Rejects, ExecGet, ExecHasKey
  <2> QED
    BY <1>1, <2>1, DeltaKeepsLive
<1> QED
  BY <1>2, <1>3 DEF Harmless, Acquires

-----------------------------------------------------------------------------
(* The step of add() *)

\* An add() that loses changes nothing.
LEMMA LosingAddHarmless ==
    ASSUME TypeOK, NEW c \in Clients, ExecAdd(c), NEW k \in Keys,
           ExecAdd(c)!2!(k), call[c].values[k] \in Row,
           table[k] # NoRow, table[k].expires > now[c]
    PROVE  Harmless
<1>1. table[k] \in Row /\ now[c] \in Int
  BY DEF TypeOK
<1>2. UpdateIfExpired(table[k], call[c].values[k], now[c]) = table[k]
  BY <1>1, UpdateIsOneOfBoth
<1>3. table' = [table EXCEPT ![k] = UpdateIfExpired(table[k],
                                                    call[c].values[k], now[c])]
  OBVIOUS
<1>4. table' = table
  BY <1>2, <1>3 DEF TypeOK
<1>5. answer'.outcome # "True"
  BY DEF Return, AnsweredBool, Answered, Answer, Says444
<1> QED
  BY <1>4, <1>5, SameTableKeepsLive DEF Harmless, Acquires

\* An add() that wins replaces the row by one that backs its lease.
LEMMA WinningAddReplaces ==
    ASSUME TypeOK, NEW c \in Clients, ExecAdd(c), NEW k \in Keys,
           ExecAdd(c)!2!(k), call[c].values[k] \in Row,
           table[k] = NoRow \/ ~(table[k].expires > now[c])
    PROVE  /\ table' = [table EXCEPT ![k] = call[c].values[k]]
           /\ answer'.client = c
<1>1. CASE table[k] = NoRow
  BY <1>1 DEF Return, AnsweredBool, Answered, Answer
<1>2. CASE table[k] # NoRow
  <2>1. table[k] \in Row /\ now[c] \in Int
    BY <1>2 DEF TypeOK
  <2>2. UpdateIfExpired(table[k], call[c].values[k], now[c])
            = call[c].values[k]
    BY <1>2, <2>1, UpdateIsOneOfBoth
  <2>3. table' = [table EXCEPT ![k] = UpdateIfExpired(table[k],
                                                      call[c].values[k],
                                                      now[c])]
    BY <1>2
  <2>4. answer'.client = c
    BY <1>2 DEF Return, AnsweredBool, Answered, Answer
  <2> QED
    BY <2>2, <2>3, <2>4
<1> QED
  BY <1>1, <1>2

LEMMA WinningAddKeepsLeases ==
    ASSUME TypeOK, TypeOK', LeaseInv, LeaseNext, clock' = clock,
           NEW c \in Clients, NEW k \in call[c].keys, k \in Keys,
           call[c].values[k] \in Row,
           table' = [table EXCEPT ![k] = call[c].values[k]],
           answer'.client = c,
           table[k] = NoRow \/ ~(table[k].expires > now[c])
    PROVE  LeaseBacked' /\ LeaseExclusive'
<1>1. \A d \in Clients : ~Active(d, k)
  <2> SUFFICES ASSUME NEW d \in Clients, Active(d, k)
               PROVE  FALSE
    OBVIOUS
  <2>1. Live(k)
    BY ActiveIsLive
  <2>2. table[k].expires > Now(c) /\ now[c] <= Now(c)
    BY <2>1 DEF Live, LeaseInv, LeaseControl
  <2>3. table[k].expires \in Int /\ now[c] \in Int /\ Now(c) \in Int
    BY <2>1, NowIsTime DEF Live, TypeOK, Row
  <2> QED
    BY <2>1, <2>2, <2>3 DEF Live
<1>2. \A d \in Clients, j \in Keys :
        lease'[d][j] = IF Acquires(d, j) THEN call[d].values[j].expires
                                         ELSE lease[d][j]
  BY DEF LeaseNext
<1>3. \A d \in Clients, j \in Keys : Acquires(d, j) => d = c /\ j = k
  BY DEF Acquires
<1>4. ASSUME NEW d \in Clients, NEW j \in Keys, Active(d, j)'
      PROVE  \/ Acquires(d, j) /\ d = c /\ j = k
             \/ j # k /\ Active(d, j) /\ lease'[d][j] = lease[d][j]
  <2>1. CASE Acquires(d, j)
    BY <1>3, <2>1
  <2>2. CASE ~Acquires(d, j)
    <3>1. lease'[d][j] = lease[d][j]
      BY <1>2, <2>2
    <3>2. Active(d, j)
      BY <1>4, <3>1, ActiveBefore DEF TypeOK
    <3> QED
      BY <1>1, <3>1, <3>2
  <2> QED
    BY <2>1, <2>2
<1>5. ASSUME NEW d \in Clients, NEW j \in Keys, Active(d, j)'
      PROVE  table'[j] # NoRow /\ table'[j].expires >= lease'[d][j]
  <2>1. CASE Acquires(d, j)
    <3>1. table'[j] = call[c].values[k] /\ d = c /\ j = k
      BY <1>3, <2>1 DEF TypeOK
    <3>2. lease'[d][j] = call[c].values[k].expires
      BY <1>2, <2>1, <3>1
    <3>3. call[c].values[k].expires \in Int
      BY DEF Row
    <3> QED
      BY <3>1, <3>2, <3>3, NoRowAssumption
  <2>2. CASE ~Acquires(d, j)
    <3>1. j # k /\ Active(d, j) /\ lease'[d][j] = lease[d][j]
      BY <1>4, <1>5, <2>2
    <3>2. table'[j] = table[j]
      BY <3>1 DEF TypeOK
    <3> QED
      BY <3>1, <3>2 DEF LeaseInv, LeaseBacked
  <2> QED
    BY <2>1, <2>2
<1>6. LeaseBacked'
  BY <1>5 DEF LeaseBacked
<1>7. LeaseExclusive'
  <2> SUFFICES ASSUME NEW j \in Keys, NEW d \in Clients, NEW e \in Clients,
                      Active(d, j)', Active(e, j)'
               PROVE  d = e
    BY DEF LeaseExclusive
  <2>1. CASE j = k
    BY <1>4, <2>1
  <2>2. CASE j # k
    <3>1. Active(d, j) /\ Active(e, j)
      BY <1>4, <2>2
    <3> QED
      BY <3>1 DEF LeaseInv, LeaseExclusive
  <2> QED
    BY <2>1, <2>2
<1> QED
  BY <1>6, <1>7

-----------------------------------------------------------------------------
(* The theorem *)

LEMMA HarmlessKeepsInv ==
    ASSUME TypeOK, TypeOK', LeaseInv, LeaseNext, Harmless, LeaseControl',
           clock' >= clock
    PROVE  LeaseInv'
<1>1. lease' = lease
  BY DEF LeaseNext, Harmless, LeaseInv
<1> QED
  BY <1>1, LeasesKept DEF Harmless, LeaseInv

LEMMA AddKeepsInv ==
    ASSUME TypeOK, TypeOK', LeaseInv, LeaseNext, LeaseControl',
           NEW c \in Clients, ExecAdd(c)
    PROVE  LeaseInv'
<1>1. PICK k \in call[c].keys : ExecAdd(c)!2!(k)
  BY DEF ExecAdd
<1>2. /\ k \in Keys /\ call[c].values \in [Keys -> Row \cup {NoRow}]
      /\ call[c].values[k] \in Row
      /\ clock' = clock /\ clock \in Nat
  BY DEF TypeOK, Call, CallRecord, ExecAdd, Executes, Writes
<1>3. CASE table[k] # NoRow /\ table[k].expires > now[c]
  <2>1. Harmless
    BY <1>1, <1>2, <1>3, LosingAddHarmless
  <2>2. clock' >= clock
    BY <1>2
  <2> QED
    BY <2>1, <2>2, HarmlessKeepsInv
<1>4. CASE table[k] = NoRow \/ ~(table[k].expires > now[c])
  <2>1. /\ table' = [table EXCEPT ![k] = call[c].values[k]]
        /\ answer'.client = c
    BY <1>1, <1>2, <1>4, WinningAddReplaces
  <2>2. LeaseBacked' /\ LeaseExclusive'
    BY <1>2, <1>4, <2>1, WinningAddKeepsLeases
  <2>3. ASSUME NEW d \in Clients, NEW j \in Keys, Acquires(d, j)
        PROVE  call[d].values[j].expires \in Int
    BY <1>2, <2>1, <2>3 DEF Acquires, Row
  <2>4. lease' \in [Clients -> [Keys -> Int]]
    BY <2>3 DEF LeaseNext, LeaseInv
  <2> QED
    BY <2>2, <2>4 DEF LeaseInv
<1> QED
  BY <1>3, <1>4

LEMMA LeaseInductive ==
    ASSUME TypeOK, TypeOK', LeaseInv, [LeaseNext]_leaseVars
    PROVE  LeaseInv'
<1>1. CASE Tick /\ LeaseNext
  <2>1. clock \in Nat /\ clock' = clock + 1
    BY <1>1 DEF Tick, TypeOK
  <2>2. \A c \in Clients : now[c] \in Nat /\ Now(c)' >= now[c]
    BY <2>1, ClocksAssumption DEF LeaseInv, LeaseControl, Now, TypeOK
  <2>3. LeaseControl'
    BY <1>1, <2>2 DEF Tick, LeaseInv, LeaseControl
  <2>4. Harmless
    BY <1>1, SameTableKeepsLive DEF Tick, Harmless, Acquires, NoAnswer, Answer
  <2> QED
    BY <1>1, <2>1, <2>3, <2>4, HarmlessKeepsInv
<1>2. ASSUME NEW c \in Clients, Calls(c) \/ Steps(c), LeaseNext
      PROVE  LeaseInv'
  <2>1. LeaseControl'
    BY <1>2, StepControl DEF LeaseInv
  <2>2. clock' = clock /\ clock \in Nat
    BY <1>2, StepKeepsClock DEF TypeOK
  <2>3. CASE ExecAdd(c)
    BY <1>2, <2>1, <2>3, AddKeepsInv
  <2>4. CASE ~ExecAdd(c)
    <3>1. Harmless
      BY <1>2, <2>4, CallsHarmless, CullsHarmless, OtherExecutionsHarmless
         DEF LeaseInv, Steps
    <3> QED
      BY <1>2, <2>1, <2>2, <3>1, HarmlessKeepsInv
  <2> QED
    BY <2>3, <2>4
<1>3. CASE UNCHANGED leaseVars
  BY <1>3 DEF leaseVars, LeaseInv, LeaseControl, LeaseBacked, LeaseExclusive,
              Active, Now
<1> QED
  BY <1>1, <1>2, <1>3 DEF LeaseNext, Next

LEMMA LeaseStarts ==
    ASSUME LeaseInit
    PROVE  LeaseInv
<1>1. \A c \in Clients : Now(c) \in Nat /\ Now(c) > 0
  BY ClocksAssumption DEF LeaseInit, Init, Now
<1>2. \A c \in Clients, k \in Keys : ~Active(c, k)
  BY <1>1 DEF LeaseInit, Active
<1> QED
  BY <1>1, <1>2 DEF LeaseInit, Init, LeaseInv, LeaseControl, LeaseBacked,
                    LeaseExclusive

\* The inductive invariant holds throughout: in particular an active lease is
\* always backed by a row that expires no earlier.
THEOREM LeaseInvariant == LeaseSpec => []LeaseInv
<1>1. LeaseSpec => Spec
  <2>1. [LeaseNext]_leaseVars => [Next]_vars
    BY DEF LeaseNext, leaseVars, vars
  <2> QED
    BY <2>1, PTL DEF LeaseSpec, Spec, LeaseInit
<1>2. LeaseInit => LeaseInv
  BY LeaseStarts
<1>3. TypeOK /\ TypeOK' /\ LeaseInv /\ [LeaseNext]_leaseVars => LeaseInv'
  BY LeaseInductive
<1> QED
  BY <1>1, <1>2, <1>3, TypeCorrect, PTL DEF LeaseSpec

\* No client loses the row behind its active lease, to a cull of expired rows
\* or to the add() of another client.
THEOREM LeasesAreBacked == LeaseSpec => []LeaseBacked
<1>1. LeaseInv => LeaseBacked
  BY DEF LeaseInv
<1> QED
  BY <1>1, LeaseInvariant, PTL

\* A client that keeps a lease for as long as the timeout of its add() lasts
\* on every clock excludes all others: for any number of clients and keys, any
\* timeouts and fixed clock differences, while others add, read, count and
\* cull expired rows in between its statements.
THEOREM LeaseSafe == LeaseSpec => []LeaseExclusive
<1>1. LeaseInv => LeaseExclusive
  BY DEF LeaseInv
<1> QED
  BY <1>1, LeaseInvariant, PTL

=============================================================================
