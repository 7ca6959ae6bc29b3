-------------------------- MODULE MySQLCacheProofs --------------------------
(***************************************************************************)
(* Type correctness of MySQLCache, the readability of every row, what the  *)
(* arguments of a running call are (CallsFit), what culling guarantees, and *)
(* that the backend implements CacheContract, for any number of clients    *)
(* and keys and any options.                                               *)
(*                                                                         *)
(* The bound on the size of the table is not inductive.  A client that is  *)
(* about to insert a row has counted, and the share of the rows that it    *)
(* then found to be too many is gone or will go before it inserts.  So the *)
(* invariant Room bounds the size after v rows have gone, together with    *)
(* the inserts that wait for no more than v rows, for every v.             *)
(*                                                                         *)
(* The refinement rests on the same invariants: rows decode to what their  *)
(* types say, and the arguments, the phase and the times of a running call *)
(* fit together; then every statement is a step of the contract or a       *)
(* stutter.                                                                *)
(***************************************************************************)
EXTENDS CacheRefinement, FiniteSetTheorems, TLAPS

-----------------------------------------------------------------------------
(* Operators *)

LEMMA IntegerIsObject ==
    ASSUME NEW n \in IntMin..IntMax
    PROVE  Integer(n) \in Object
BY DEF Object

LEMMA EncodeMakesRow ==
    ASSUME NEW c \in Clients, NEW o \in Objects, NEW exp \in Int
    PROVE  Encode(c, o, exp) \in Row
BY DEF Encode, Row, Forms, Object

LEMMA ExpiryIsTime ==
    ASSUME TypeOK, NEW c \in Clients, NEW t \in Timeouts, HasExpiry(t)
    PROVE  Expiry(c, t) \in Int
BY ClocksAssumption, TimeoutsAssumption
   DEF Expiry, HasExpiry, Now, TypeOK

LEMMA NowIsTime ==
    ASSUME TypeOK, NEW c \in Clients
    PROVE  Now(c) \in Nat
BY ClocksAssumption DEF Now, TypeOK

LEMMA NoValuesIsTable == NoValues \in [Keys -> Row \cup {NoRow}]
BY DEF NoValues

LEMMA ArgumentsAreCall ==
    ASSUME NEW op \in Methods \cup {"none"}, NEW S, S \subseteq Keys,
           NEW values \in [Keys -> Row \cup {NoRow}],
           NEW exp \in Int, NEW delta \in Int,
           op \in Writes => \A k \in S : values[k] # NoRow
    PROVE  Arguments(op, S, values, exp, delta) \in Call
BY DEF Arguments, Call, CallRecord

LEMMA PlainIsCall ==
    ASSUME NEW op \in (Methods \cup {"none"}) \ Writes, NEW S, S \subseteq Keys
    PROVE  Plain(op, S) \in Call
BY NoValuesIsTable, ArgumentsAreCall DEF Plain

LEMMA NoCallIsCall == NoCall \in Call
BY PlainIsCall DEF NoCall, Writes

LEMMA RowsFinite ==
    ASSUME NEW S, S \subseteq Keys
    PROVE  Cardinality(S) \in Nat
BY KeysAssumption, FS_Subset, FS_CardinalityType

LEMMA WithoutIsTable ==
    ASSUME TypeOK, NEW S
    PROVE  Without(S) \in [Keys -> Row \cup {NoRow}]
BY DEF Without, TypeOK

\* A column-wise update of one row by another is again one of the two.
LEMMA UpdateIsOneOfBoth ==
    ASSUME NEW old \in Row, NEW new \in Row, NEW t \in Int
    PROVE  UpdateIfExpired(old, new, t) =
                IF old.expires > t THEN old ELSE new
BY DEF UpdateIfExpired, Row

-----------------------------------------------------------------------------
(* Type correctness, by the way an action ends *)

LEMMA BeginType ==
    ASSUME TypeOK, NEW c \in Clients, NEW a \in Call, NEW s \in Statements,
           Begin(c, a, s)
    PROVE  TypeOK'
<1>1. [a EXCEPT !.since = IF a.op \in Timed \cup {"incr", "decr"}
                          THEN Now(c) ELSE 0] \in Call
  BY NowIsTime DEF Call, CallRecord
<1>2. call' \in [Clients -> Call]
  BY <1>1 DEF Begin, TypeOK
<1>3. now' \in [Clients -> Nat] /\ pc' \in [Clients -> Statements]
  BY NowIsTime DEF Begin, Send, TypeOK
<1> QED
  BY <1>2, <1>3 DEF Begin, TypeOK

LEMMA ReturnType ==
    ASSUME TypeOK, NEW c \in Clients, NEW ans, Return(c, ans),
           clock' = clock, table' \in [Keys -> Row \cup {NoRow}]
    PROVE  TypeOK'
<1>1. call' \in [Clients -> Call]
  BY NoCallIsCall DEF Return, TypeOK
<1>2. cull' \in [Clients -> [num_deleted : Nat, num : Nat, max_key : Int]]
  BY DEF Return, TypeOK, NoCull
<1>3. now' \in [Clients -> Nat] /\ pc' \in [Clients -> Statements]
  BY DEF Return, TypeOK, Statements
<1> QED
  BY <1>1, <1>2, <1>3 DEF TypeOK

LEMMA CullReturnsType ==
    ASSUME TypeOK, NEW c \in Clients, NEW n, CullReturns(c, n),
           clock' = clock, table' \in [Keys -> Row \cup {NoRow}]
    PROVE  TypeOK'
<1>1. CASE call[c].op = "cull"
  BY <1>1, ReturnType DEF CullReturns
<1>2. CASE call[c].op # "cull"
  <2>1. now' \in [Clients -> Nat] /\ pc' \in [Clients -> Statements]
    BY <1>2, NowIsTime DEF CullReturns, Send, TypeOK, Statements
  <2>2. cull' \in [Clients -> [num_deleted : Nat, num : Nat, max_key : Int]]
    BY <1>2 DEF CullReturns, TypeOK, NoCull
  <2> QED
    BY <1>2, <2>1, <2>2 DEF CullReturns, TypeOK
<1> QED
  BY <1>1, <1>2

-----------------------------------------------------------------------------
(* Type correctness, by action *)

LEMMA BeginWriteType ==
    ASSUME TypeOK, NEW c \in Clients, NEW op \in Methods,
           op \in Writes, NEW S, S \subseteq Keys, NEW obj \in [S -> Objects],
           NEW t \in Timeouts, BeginWrite(c, op, S, obj, t)
    PROVE  TypeOK'
<1>1. CASE HasExpiry(t)
  <2> DEFINE exp == Expiry(c, t)
             rows == [k \in Keys |-> IF k \in S THEN Encode(c, obj[k], exp)
                                              ELSE NoRow]
             a == Arguments(op, S, rows, 0, 0)
  <2>1. exp \in Int
    BY <1>1, ExpiryIsTime
  <2>2. /\ rows \in [Keys -> Row \cup {NoRow}]
        /\ \A k \in S : rows[k] # NoRow
    <3> HIDE DEF exp
    <3>1. \A k \in S : Encode(c, obj[k], exp) \in Row
      BY <2>1, EncodeMakesRow
    <3> QED
      BY <3>1, NoRowAssumption
  <2>3. a \in Call
    <3> HIDE DEF rows
    <3> QED
      BY <2>2, ArgumentsAreCall
  <2>4. PICK s \in MaybeCull : Begin(c, a, s)
    BY <1>1 DEF BeginWrite
  <2>5. s \in Statements
    BY DEF MaybeCull, Statements
  <2> QED
    <3> HIDE DEF a
    <3> QED
      BY <2>3, <2>4, <2>5, BeginType
<1>2. CASE ~HasExpiry(t)
  BY <1>2, ReturnType DEF BeginWrite, TypeOK
<1> QED
  BY <1>1, <1>2

LEMMA CallsType ==
    ASSUME TypeOK, NEW c \in Clients, Calls(c)
    PROVE  TypeOK'
<1> USE KeysAssumption
<1>e. "execute" \in Statements /\ "cull_expired" \in Statements
  BY DEF Statements
<1>1. CASE Set(c)
  BY <1>1, BeginWriteType DEF Set, Methods, Writes
<1>2. CASE Add(c)
  BY <1>2, BeginWriteType DEF Add, Methods, Writes
<1>3. CASE SetMany(c)
  BY <1>3, BeginWriteType DEF SetMany, Methods, Writes
<1>4. CASE Touch(c)
  <2>1. PICK k \in Keys, t \in Timeouts : Touch(c)!(k, t)
    BY <1>4 DEF Touch
  <2>2. CASE HasExpiry(t)
    <3> DEFINE exp == Expiry(c, t)
    <3>1. /\ "touch" \in Methods /\ "touch" \notin Writes
          /\ {k} \subseteq Keys
      BY DEF Methods, Writes
    <3>2. exp \in Int
      BY <2>2, ExpiryIsTime
    <3>3. Arguments("touch", {k}, NoValues, exp, 0) \in Call
      <4> HIDE DEF exp
      <4> QED
        BY <3>1, <3>2, ArgumentsAreCall, NoValuesIsTable
    <3> QED
      BY <1>e, <2>1, <2>2, <3>3, BeginType
  <2>3. CASE ~HasExpiry(t)
    BY <2>1, <2>3, ReturnType DEF TypeOK
  <2> QED
    BY <2>2, <2>3
<1>5. CASE Lookup(c)
  <2>1. PICK op \in {"get", "has_key", "delete"}, k \in Keys :
            Begin(c, Plain(op, {k}), "execute")
    BY <1>5 DEF Lookup
  <2>2. Plain(op, {k}) \in Call
    BY PlainIsCall DEF Methods, Writes
  <2> QED
    BY <1>e, <2>1, <2>2, BeginType
<1>6. CASE LookupMany(c)
  <2>1. PICK op \in {"get_many", "delete_many"}, S \in Batches :
            Begin(c, Plain(op, S), "execute")
    BY <1>6 DEF LookupMany
  <2>2. Plain(op, S) \in Call
    BY PlainIsCall DEF Methods, Writes
  <2> QED
    BY <1>e, <2>1, <2>2, BeginType
<1>7. CASE LookupPrefix(c)
  <2>1. PICK op \in {"keys_with_prefix", "get_with_prefix",
                      "delete_with_prefix"}, S \in Patterns :
            Begin(c, Plain(op, S), "execute")
    BY <1>7 DEF LookupPrefix
  <2>2. Plain(op, S) \in Call
    BY PlainIsCall DEF Methods, Writes
  <2> QED
    BY <1>e, <2>1, <2>2, BeginType
<1>8. CASE IncrDecr(c)
  <2>1. PICK op \in {"incr", "decr"}, k \in Keys, d \in Deltas :
            Begin(c, Arguments(op, {k}, NoValues, 0,
                               IF op = "incr" THEN d ELSE -d), "execute")
    BY <1>8 DEF IncrDecr
  <2> DEFINE delta == IF op = "incr" THEN d ELSE -d
  <2>2. delta \in Int
    BY IntegersAssumption
  <2>3. Arguments(op, {k}, NoValues, 0, delta) \in Call
    <3> HIDE DEF delta
    <3> QED
      <4>1. op \in Methods /\ op \notin Writes /\ {k} \subseteq Keys
        BY DEF Methods, Writes
      <4> QED
        BY <2>2, <4>1, ArgumentsAreCall, NoValuesIsTable
  <2> QED
    BY <1>e, <2>1, <2>3, BeginType
<1>9. CASE Clear(c)
  <2>1. Plain("clear", {}) \in Call
    BY PlainIsCall DEF Methods, Writes
  <2> QED
    BY <1>e, <1>9, <2>1, BeginType DEF Clear
<1>10. CASE Cull(c)
  <2>1. Plain("cull", {}) \in Call
    BY PlainIsCall DEF Methods, Writes
  <2> QED
    BY <1>e, <1>10, <2>1, BeginType DEF Cull
<1> QED
  BY <1>1, <1>2, <1>3, <1>4, <1>5, <1>6, <1>7, <1>8, <1>9, <1>10 DEF Calls

LEMMA CullsType ==
    ASSUME TypeOK, NEW c \in Clients, Culls(c)
    PROVE  TypeOK'
<1>1. CASE CullExpired(c)
  <2> DEFINE gone == Expired(now[c])
  <2>1. table' = Without(gone) /\ clock' = clock
    BY <1>1 DEF CullExpired
  <2>2. table' \in [Keys -> Row \cup {NoRow}]
    BY <2>1, WithoutIsTable
  <2>3. Cardinality(gone) \in Nat
    BY RowsFinite DEF Expired, Rows
  <2>4. CASE MaxEntries = -1
    BY <1>1, <2>1, <2>2, <2>4, CullReturnsType DEF CullExpired
  <2>5. CASE MaxEntries # -1
    <3>1. /\ pc' = [pc EXCEPT ![c] = "cull_count"]
          /\ cull' = [cull EXCEPT ![c].num_deleted = Cardinality(gone)]
          /\ UNCHANGED <<call, now>>
      BY <1>1, <2>5 DEF CullExpired
    <3> HIDE DEF gone
    <3> QED
      BY <2>1, <2>2, <2>3, <3>1 DEF TypeOK, Statements
  <2> QED
    BY <2>4, <2>5
<1>2. CASE CullCount(c)
  <2> DEFINE num == Cardinality(Rows)
  <2>1. num \in Nat
    BY RowsFinite DEF Rows
  <2>2. CASE ~CullsAt(num)
    BY <1>2, <2>2, CullReturnsType DEF CullCount, TypeOK
  <2>3. CASE CullsAt(num)
    <3>1. /\ pc' = [pc EXCEPT ![c] = IF CullFrequency = 0 THEN "cull_all"
                                                         ELSE "cull_offset"]
          /\ cull' = [cull EXCEPT ![c].num = num]
          /\ UNCHANGED <<call, now, clock, table>>
      BY <1>2, <2>3 DEF CullCount
    <3> HIDE DEF num
    <3> QED
      BY <2>1, <3>1 DEF TypeOK, Statements
  <2> QED
    BY <2>2, <2>3
<1>3. CASE CullAll(c)
  BY <1>3, CullReturnsType, WithoutIsTable DEF CullAll
<1>4. CASE CullOffset(c)
  <2> DEFINE found == AtOffset(cull[c].num \div CullFrequency)
  <2>1. CASE found = {}
    BY <1>4, <2>1, ReturnType DEF CullOffset, TypeOK
  <2>2. CASE found # {}
    <3>1. PICK k \in found :
                /\ pc' = [pc EXCEPT ![c] = "cull_below"]
                /\ cull' = [cull EXCEPT ![c].max_key = k]
                /\ UNCHANGED <<call, now, clock, table>>
      BY <1>4, <2>2 DEF CullOffset
    <3>2. k \in Int
      BY KeysAssumption DEF AtOffset, Rows
    <3> HIDE DEF found
    <3> QED
      BY <3>1, <3>2 DEF TypeOK, Statements
  <2> QED
    BY <2>1, <2>2
<1>5. CASE CullBelow(c)
  BY <1>5, CullReturnsType, WithoutIsTable DEF CullBelow
<1> QED
  BY <1>1, <1>2, <1>3, <1>4, <1>5 DEF Culls

LEMMA ExecutionsType ==
    ASSUME TypeOK, NEW c \in Clients, Executions(c)
    PROVE  TypeOK'
<1>0. /\ call[c] \in CallRecord
      /\ call[c].op \in Writes => \A k \in call[c].keys :
                                    call[c].values[k] # NoRow
  BY DEF TypeOK, Call
<1>1. CASE ExecRejected(c)
  BY <1>1, ReturnType DEF ExecRejected, Rejects, TypeOK
<1>2. CASE ExecSet(c)
  <2>1. table' \in [Keys -> Row \cup {NoRow}]
    BY <1>0, <1>2 DEF ExecSet, CallRecord, TypeOK
  <2> QED
    BY <1>2, <2>1, ReturnType DEF ExecSet
<1>3. CASE ExecAdd(c)
  <2>1. PICK k \in call[c].keys : ExecAdd(c)!2!(k)
    BY <1>3 DEF ExecAdd
  <2>2. k \in Keys /\ call[c].values[k] \in Row
    BY <1>0, <1>3 DEF CallRecord, ExecAdd, Executes, Writes
  <2>3. table' \in [Keys -> Row \cup {NoRow}]
    <3>1. CASE table[k] = NoRow
      BY <2>1, <2>2, <3>1 DEF TypeOK
    <3>2. CASE table[k] # NoRow
      <4>1. UpdateIfExpired(table[k], call[c].values[k], now[c]) \in Row
        BY <2>2, <3>2, UpdateIsOneOfBoth DEF TypeOK
      <4> QED
        BY <2>1, <2>2, <3>2, <4>1 DEF TypeOK
    <3> QED
      BY <3>1, <3>2
  <2> QED
    BY <1>3, <2>1, <2>3, ReturnType DEF ExecAdd
<1>4. CASE ExecGet(c)
  BY <1>4, ReturnType DEF ExecGet, TypeOK
<1>5. CASE ExecHasKey(c)
  BY <1>5, ReturnType DEF ExecHasKey, TypeOK
<1>6. CASE ExecDelete(c)
  BY <1>6, ReturnType, WithoutIsTable DEF ExecDelete
<1>7. CASE ExecDelta(c)
  <2>1. PICK k \in call[c].keys : ExecDelta(c)!2!(k)
    BY <1>7 DEF ExecDelta
  <2> DEFINE n == table[k].value.obj.n + call[c].delta
  <2>2. k \in Keys
    BY <1>0 DEF CallRecord
  <2>3. CASE /\ ~(table[k] = NoRow \/ table[k].value_type # "i")
             /\ Fits(n)
    <3> DEFINE value == [form |-> "decimal", obj |-> Integer(n)]
    <3>1. value \in [form : Forms, obj : Object]
      BY <2>3, IntegerIsObject DEF Forms, Fits
    <3>2. table' = [table EXCEPT ![k].value = value]
      BY <2>1, <2>3
    <3>3. \E ans : Return(c, ans)
      BY <2>1, <2>3
    <3>4. table' \in [Keys -> Row \cup {NoRow}]
      <4> HIDE DEF value
      <4>1. table[k] \in Row
        BY <2>2, <2>3 DEF TypeOK
      <4>2. [table[k] EXCEPT !.value = value] \in Row
        BY <3>1, <4>1 DEF Row
      <4> QED
        BY <2>2, <3>2, <4>2 DEF TypeOK
    <3> QED
      BY <1>7, <3>3, <3>4, ReturnType DEF ExecDelta
  <2>4. CASE ~(/\ ~(table[k] = NoRow \/ table[k].value_type # "i")
               /\ Fits(n))
    BY <1>7, <2>1, <2>4, ReturnType DEF ExecDelta, TypeOK
  <2> QED
    BY <2>3, <2>4
<1>8. CASE ExecClear(c)
  BY <1>8, ReturnType, WithoutIsTable DEF ExecClear
<1>9. CASE ExecTouch(c)
  <2> DEFINE live == {k \in call[c].keys \cap Rows :
                        table[k].expires >= now[c]}
  <2>1. \A k \in live : [table[k] EXCEPT !.expires = call[c].exp] \in Row
    BY <1>0 DEF CallRecord, Rows, Row, TypeOK
  <2>2. table' = [k \in Keys |->
                    IF k \in live
                    THEN [table[k] EXCEPT !.expires = call[c].exp]
                    ELSE table[k]]
    BY <1>9 DEF ExecTouch
  <2>3. table' \in [Keys -> Row \cup {NoRow}]
    <3> HIDE DEF live
    <3> QED
      BY <2>1, <2>2 DEF TypeOK
  <2> QED
    BY <1>9, <2>3, ReturnType DEF ExecTouch
<1> QED
  BY <1>1, <1>2, <1>3, <1>4, <1>5, <1>6, <1>7, <1>8, <1>9 DEF Executions

\* Every reachable state is well typed: in particular a row is always a full
\* row, with a value, a type and an expiry, whatever mix of statements wrote
\* its columns, and an integer row stays in the range of SIGNED BIGINT.
THEOREM TypeCorrect == Spec => []TypeOK
<1>1. Init => TypeOK
  BY NoCallIsCall DEF Init, TypeOK, NoValues, NoCull, Statements
<1>2. TypeOK /\ [Next]_vars => TypeOK'
  <2> SUFFICES ASSUME TypeOK, [Next]_vars
               PROVE  TypeOK'
    OBVIOUS
  <2>1. CASE Tick
    BY <2>1 DEF Tick, TypeOK
  <2>2. ASSUME NEW c \in Clients, Calls(c)
        PROVE  TypeOK'
    BY <2>2, CallsType
  <2>3. ASSUME NEW c \in Clients, Culls(c)
        PROVE  TypeOK'
    BY <2>3, CullsType
  <2>4. ASSUME NEW c \in Clients, Executions(c)
        PROVE  TypeOK'
    BY <2>4, ExecutionsType
  <2>5. CASE UNCHANGED vars
    BY <2>5 DEF vars, TypeOK
  <2> QED
    BY <2>1, <2>2, <2>3, <2>4, <2>5 DEF Next, Steps
<1> QED
  BY <1>1, <1>2, PTL DEF Spec

-----------------------------------------------------------------------------
(* Readability.  The invariant says more of a row: its type is "i" exactly  *)
(* if its object is an integer that the database can count with.           *)

Sound(row) ==
    /\ Readable(row)
    /\ row.value_type = "i" <=> row.value.obj.kind = "int" /\ Fits(row.value.obj.n)
AllSound(rows) == \A k \in Keys : rows[k] # NoRow => Sound(rows[k])
TableSound == AllSound(table) /\ \A c \in Clients : AllSound(call[c].values)

LEMMA EncodeIsSound ==
    ASSUME NEW c \in Clients, NEW o \in Objects, NEW exp \in Int
    PROVE  Sound(Encode(c, o, exp))
BY DEF Encode, Sound, Readable

LEMMA BeginSound ==
    ASSUME TypeOK, TableSound, NEW c \in Clients, NEW a \in Call,
           NEW s, Begin(c, a, s), AllSound(a.values)
    PROVE  TableSound'
<1> DEFINE since == IF a.op \in Timed \cup {"incr", "decr"} THEN Now(c) ELSE 0
<1>1. call' = [call EXCEPT ![c] = [a EXCEPT !.since = since]]
  BY DEF Begin
<1>2. [a EXCEPT !.since = since].values = a.values
  BY DEF Call, CallRecord
<1>3. \A d \in Clients : AllSound(call'[d].values)
  <2> HIDE DEF since
  <2> QED
    BY <1>1, <1>2 DEF TypeOK, TableSound
<1>4. table' = table
  BY DEF Begin
<1> QED
  BY <1>3, <1>4 DEF TableSound, AllSound

LEMMA ReturnSound ==
    ASSUME TypeOK, TableSound, NEW c \in Clients, NEW ans, Return(c, ans),
           AllSound(table')
    PROVE  TableSound'
<1>1. call' = [call EXCEPT ![c] = NoCall]
  BY DEF Return
<1>2. AllSound(NoCall.values)
  BY DEF AllSound, NoCall, Plain, Arguments, NoValues
<1>3. \A d \in Clients : AllSound(call'[d].values)
  BY <1>1, <1>2 DEF TypeOK, TableSound
<1> QED
  BY <1>3 DEF TableSound, AllSound

LEMMA CullReturnsSound ==
    ASSUME TypeOK, TableSound, NEW c \in Clients, NEW n, CullReturns(c, n),
           AllSound(table')
    PROVE  TableSound'
<1>1. CASE call[c].op = "cull"
  BY <1>1, ReturnSound DEF CullReturns
<1>2. CASE call[c].op # "cull"
  BY <1>2 DEF CullReturns, TableSound, AllSound
<1> QED
  BY <1>1, <1>2

LEMMA WithoutSound ==
    ASSUME AllSound(table), NEW S
    PROVE  AllSound(Without(S))
BY DEF AllSound, Without

LEMMA BeginWriteSound ==
    ASSUME TypeOK, TableSound, NEW c \in Clients, NEW op \in Methods,
           op \in Writes, NEW S, S \subseteq Keys, NEW obj \in [S -> Objects],
           NEW t \in Timeouts, BeginWrite(c, op, S, obj, t)
    PROVE  TableSound'
<1>1. CASE HasExpiry(t)
  <2> DEFINE exp == Expiry(c, t)
             rows == [k \in Keys |-> IF k \in S THEN Encode(c, obj[k], exp)
                                              ELSE NoRow]
             a == Arguments(op, S, rows, 0, 0)
  <2>1. exp \in Int
    BY <1>1, ExpiryIsTime
  <2>2. /\ rows \in [Keys -> Row \cup {NoRow}]
        /\ \A k \in S : rows[k] # NoRow
        /\ AllSound(rows)
    <3> HIDE DEF exp
    <3>1. \A k \in S : /\ Encode(c, obj[k], exp) \in Row
                       /\ Sound(Encode(c, obj[k], exp))
      BY <2>1, EncodeMakesRow, EncodeIsSound
    <3> QED
      BY <3>1, NoRowAssumption DEF AllSound
  <2>3. a \in Call /\ AllSound(a.values)
    <3> HIDE DEF rows
    <3>1. a \in Call
      BY <2>2, ArgumentsAreCall
    <3> QED
      BY <2>2, <3>1 DEF Arguments
  <2>4. PICK s \in MaybeCull : Begin(c, a, s)
    BY <1>1 DEF BeginWrite
  <2> QED
    <3> HIDE DEF a
    <3> QED
      BY <2>3, <2>4, BeginSound
<1>2. CASE ~HasExpiry(t)
  BY <1>2, ReturnSound DEF BeginWrite, TableSound
<1> QED
  BY <1>1, <1>2

\* The calls that write no row begin with no values.
LEMMA BeginPlainSound ==
    ASSUME TypeOK, TableSound, NEW c \in Clients, NEW op, NEW S, NEW exp,
           NEW delta, NEW s, Begin(c, Arguments(op, S, NoValues, exp, delta), s)
    PROVE  TableSound'
<1> DEFINE a == Arguments(op, S, NoValues, exp, delta)
           since == IF a.op \in Timed \cup {"incr", "decr"} THEN Now(c) ELSE 0
<1>1. call' = [call EXCEPT ![c] = [a EXCEPT !.since = since]]
  BY DEF Begin
<1>2. [a EXCEPT !.since = since].values = NoValues
  BY DEF Arguments
<1>3. AllSound(NoValues)
  BY DEF AllSound, NoValues
<1>4. \A d \in Clients : AllSound(call'[d].values)
  <2> HIDE DEF a, since
  <2> QED
    BY <1>1, <1>2, <1>3 DEF TypeOK, TableSound
<1>5. table' = table
  BY DEF Begin
<1> QED
  BY <1>4, <1>5 DEF TableSound, AllSound

LEMMA CallsSound ==
    ASSUME TypeOK, TableSound, NEW c \in Clients, Calls(c)
    PROVE  TableSound'
<1> USE KeysAssumption
<1>1. CASE Set(c)
  BY <1>1, BeginWriteSound DEF Set, Methods, Writes
<1>2. CASE Add(c)
  BY <1>2, BeginWriteSound DEF Add, Methods, Writes
<1>3. CASE SetMany(c)
  BY <1>3, BeginWriteSound DEF SetMany, Methods, Writes
<1>4. CASE Touch(c)
  <2>1. PICK k \in Keys, t \in Timeouts : Touch(c)!(k, t)
    BY <1>4 DEF Touch
  <2>2. CASE HasExpiry(t)
    BY <2>1, <2>2, BeginPlainSound
  <2>3. CASE ~HasExpiry(t)
    BY <2>1, <2>3, ReturnSound DEF TableSound
  <2> QED
    BY <2>2, <2>3
<1>5. CASE Lookup(c)
  BY <1>5, BeginPlainSound DEF Lookup, Plain
<1>6. CASE LookupMany(c)
  BY <1>6, BeginPlainSound DEF LookupMany, Plain
<1>7. CASE LookupPrefix(c)
  BY <1>7, BeginPlainSound DEF LookupPrefix, Plain
<1>8. CASE IncrDecr(c)
  BY <1>8, BeginPlainSound DEF IncrDecr
<1>9. CASE Clear(c)
  BY <1>9, BeginPlainSound DEF Clear, Plain
<1>10. CASE Cull(c)
  BY <1>10, BeginPlainSound DEF Cull, Plain
<1> QED
  BY <1>1, <1>2, <1>3, <1>4, <1>5, <1>6, <1>7, <1>8, <1>9, <1>10 DEF Calls

LEMMA CullsSound ==
    ASSUME TypeOK, TableSound, NEW c \in Clients, Culls(c)
    PROVE  TableSound'
<1>0. AllSound(table)
  BY DEF TableSound
<1>1. CASE CullExpired(c)
  <2>1. AllSound(table')
    BY <1>0, <1>1, WithoutSound DEF CullExpired
  <2> QED
    BY <1>1, <2>1, CullReturnsSound DEF CullExpired, TableSound
<1>2. CASE CullCount(c)
  BY <1>0, <1>2, CullReturnsSound DEF CullCount, TableSound
<1>3. CASE CullAll(c)
  BY <1>0, <1>3, WithoutSound, CullReturnsSound DEF CullAll
<1>4. CASE CullOffset(c)
  BY <1>0, <1>4, ReturnSound DEF CullOffset, TableSound
<1>5. CASE CullBelow(c)
  BY <1>0, <1>5, WithoutSound, CullReturnsSound DEF CullBelow
<1> QED
  BY <1>1, <1>2, <1>3, <1>4, <1>5 DEF Culls

LEMMA ExecutionsSound ==
    ASSUME TypeOK, TableSound, NEW c \in Clients, Executions(c)
    PROVE  TableSound'
<1>0. /\ AllSound(table)
      /\ AllSound(call[c].values)
      /\ call[c] \in CallRecord
      /\ call[c].op \in Writes => \A k \in call[c].keys :
                                    call[c].values[k] # NoRow
  BY DEF TableSound, TypeOK, Call
<1>1. CASE ExecRejected(c)
  BY <1>0, <1>1, ReturnSound DEF ExecRejected, Rejects
<1>2. CASE ExecSet(c)
  <2>1. AllSound(table')
    BY <1>0, <1>2 DEF ExecSet, AllSound
  <2> QED
    BY <1>2, <2>1, ReturnSound DEF ExecSet
<1>3. CASE ExecAdd(c)
  <2>1. PICK k \in call[c].keys : ExecAdd(c)!2!(k)
    BY <1>3 DEF ExecAdd
  <2> DEFINE new == call[c].values[k]
  <2>2. k \in Keys /\ new \in Row /\ Sound(new)
    BY <1>0, <1>3, NoRowAssumption
       DEF CallRecord, ExecAdd, Executes, Writes, AllSound
  <2>3. AllSound(table')
    <3>1. CASE table[k] = NoRow
      BY <1>0, <2>1, <2>2, <3>1 DEF AllSound, TypeOK
    <3>2. CASE table[k] # NoRow
      <4>1. UpdateIfExpired(table[k], new, now[c]) \in {table[k], new}
        <5>1. table[k] \in Row /\ now[c] \in Int
          BY <2>2, <3>2 DEF TypeOK
        <5> QED
          BY <2>2, <5>1, UpdateIsOneOfBoth
      <4>2. table' = [table EXCEPT
                        ![k] = UpdateIfExpired(table[k], new, now[c])]
        BY <2>1, <3>2
      <4> QED
        BY <1>0, <2>2, <3>2, <4>1, <4>2 DEF AllSound, TypeOK
    <3> QED
      BY <3>1, <3>2
  <2> QED
    BY <1>3, <2>1, <2>3, ReturnSound DEF ExecAdd
<1>4. CASE ExecGet(c)
  BY <1>0, <1>4, ReturnSound DEF ExecGet
<1>5. CASE ExecHasKey(c)
  BY <1>0, <1>5, ReturnSound DEF ExecHasKey
<1>6. CASE ExecDelete(c)
  BY <1>0, <1>6, ReturnSound, WithoutSound DEF ExecDelete
<1>7. CASE ExecDelta(c)
  <2>1. PICK k \in call[c].keys : ExecDelta(c)!2!(k)
    BY <1>7 DEF ExecDelta
  <2> DEFINE n == table[k].value.obj.n + call[c].delta
  <2>2. k \in Keys
    BY <1>0 DEF CallRecord
  <2>3. CASE /\ ~(table[k] = NoRow \/ table[k].value_type # "i")
             /\ Fits(n)
    <3> DEFINE value == [form |-> "decimal", obj |-> Integer(n)]
    <3>1. table' = [table EXCEPT ![k].value = value]
      BY <2>1, <2>3
    <3>2. \E ans : Return(c, ans)
      BY <2>1, <2>3
    <3>3. AllSound(table')
      <4>0. /\ value.form = "decimal" /\ value.obj.kind = "int"
            /\ Fits(value.obj.n)
        BY <2>3 DEF Integer
      <4> HIDE DEF value
      <4>1. table[k] \in Row /\ table[k].value_type = "i"
        BY <2>2, <2>3 DEF TypeOK
      <4>2. Sound([table[k] EXCEPT !.value = value])
        BY <4>0, <4>1 DEF Row, Readable, Sound
      <4> QED
        BY <1>0, <2>2, <3>1, <4>2 DEF AllSound, TypeOK
    <3> QED
      BY <3>2, <3>3, ReturnSound
  <2>4. CASE ~(/\ ~(table[k] = NoRow \/ table[k].value_type # "i")
               /\ Fits(n))
    BY <1>0, <2>1, <2>4, ReturnSound
  <2> QED
    BY <2>3, <2>4
<1>8. CASE ExecClear(c)
  BY <1>0, <1>8, ReturnSound, WithoutSound DEF ExecClear
<1>9. CASE ExecTouch(c)
  <2>1. \A k \in Rows : Sound([table[k] EXCEPT !.expires = call[c].exp])
    BY <1>0 DEF AllSound, Sound, Readable, Rows, Row, TypeOK
  <2>2. AllSound(table')
    BY <1>0, <1>9, <2>1 DEF ExecTouch, AllSound, Rows
  <2> QED
    BY <1>9, <2>2, ReturnSound DEF ExecTouch
<1> QED
  BY <1>1, <1>2, <1>3, <1>4, <1>5, <1>6, <1>7, <1>8, <1>9 DEF Executions

LEMMA SoundStep == TypeOK /\ TableSound /\ [Next]_vars => TableSound'
<1> SUFFICES ASSUME TypeOK, TableSound, [Next]_vars
             PROVE  TableSound'
  OBVIOUS
<1>1. CASE Tick
  BY <1>1 DEF Tick, TableSound, AllSound
<1>2. ASSUME NEW c \in Clients, Calls(c)
      PROVE  TableSound'
  BY <1>2, CallsSound
<1>3. ASSUME NEW c \in Clients, Culls(c)
      PROVE  TableSound'
  BY <1>3, CullsSound
<1>4. ASSUME NEW c \in Clients, Executions(c)
      PROVE  TableSound'
  BY <1>4, ExecutionsSound
<1>5. CASE UNCHANGED vars
  BY <1>5 DEF vars, TableSound, AllSound
<1> QED
  BY <1>1, <1>2, <1>3, <1>4, <1>5 DEF Next, Steps

LEMMA AlwaysSound == Spec => []TableSound
<1>1. Init => TableSound
  BY DEF Init, TableSound, AllSound, NoCall, Plain, Arguments, NoValues
<1> QED
  BY <1>1, SoundStep, TypeCorrect, PTL DEF Spec

\* Every stored row can be decoded by every client, and so can every row that
\* a running call is about to write: value and value_type always belong
\* together although add() writes them by separate conditional assignments,
\* incr() rewrites only one of them and the clients compress differently.
THEOREM AlwaysReadable == Spec => []TableReadable
<1>1. TableSound => TableReadable
  BY DEF TableSound, AllSound, Sound, TableReadable, AllReadable
<1> QED
  BY <1>1, AlwaysSound, PTL

-----------------------------------------------------------------------------
(* The arguments of running calls *)

Culling == {"cull_expired", "cull_count", "cull_all", "cull_offset",
            "cull_below"}
OneKeyed == {"set", "add", "incr", "decr"}

\* What the phase of a call says of its arguments.
ArgumentsFit(c) ==
    /\ pc[c] = "idle" => call[c] = NoCall
    /\ pc[c] # "idle" => call[c].op \in Ops[c] \cap Methods
    /\ call[c].op \in OneKeyed => \E k \in Keys : call[c].keys = {k}
    /\ pc[c] \in Culling => call[c].op \in Writes \cup {"cull"}
    /\ pc[c] \in Culling \ {"cull_expired"} => MaxEntries # -1
    /\ pc[c] = "cull_offset" => CullFrequency # 0
    /\ cull[c].num_deleted <= Cardinality(Keys)

\* A statement compares expiries with a time since the call began.
TimesFit(c) ==
    /\ call[c].since <= Now(c)
    /\ pc[c] = "cull_expired" \/ (pc[c] = "execute" /\ call[c].op \in Timed) =>
           call[c].since <= now[c] /\ now[c] <= Now(c)

CallsFit == \A c \in Clients : ArgumentsFit(c) /\ TimesFit(c)

-----------------------------------------------------------------------------
(* How calls begin *)

\* The arguments of a call that begins with statement s.
Proper(a, s) ==
    /\ a.op \in Methods
    /\ a.op \in Writes => s \in MaybeCull
    /\ a.op \in OneKeyed => \E k \in Keys : a.keys = {k}
    /\ s = "cull_expired" => a.op \in Writes \cup {"cull"}

Begins(c) == \E a \in Call, s \in {"execute", "cull_expired"} :
                Begin(c, a, s) /\ Proper(a, s)
Refuses(c) == /\ pc[c] = "idle"
              /\ \E op \in Writes \cup {"touch"} :
                    Return(c, Answered(op, "TypeError"))
              /\ UNCHANGED <<clock, table>>

LEMMA BeginWriteBegins ==
    ASSUME TypeOK, NEW c \in Clients, NEW op \in {"set", "add", "set_many"},
           NEW S, S \subseteq Keys, op # "set_many" => \E k \in Keys : S = {k},
           NEW obj \in [S -> Objects],
           NEW t \in Timeouts, BeginWrite(c, op, S, obj, t)
    PROVE  Begins(c) \/ Refuses(c)
<1>0. op \in Methods /\ op \in Writes
  BY DEF Methods, Writes
<1>1. CASE HasExpiry(t)
  <2> DEFINE exp == Expiry(c, t)
             rows == [k \in Keys |-> IF k \in S THEN Encode(c, obj[k], exp)
                                              ELSE NoRow]
             a == Arguments(op, S, rows, 0, 0)
  <2>1. exp \in Int
    BY <1>1, ExpiryIsTime
  <2>2. /\ rows \in [Keys -> Row \cup {NoRow}]
        /\ \A k \in S : rows[k] # NoRow
    <3> HIDE DEF exp
    <3>1. \A k \in S : Encode(c, obj[k], exp) \in Row
      BY <2>1, EncodeMakesRow
    <3> QED
      BY <3>1, NoRowAssumption
  <2>3. a \in Call
    <3> HIDE DEF rows
    <3> QED
      BY <1>0, <2>2, ArgumentsAreCall
  <2>4. PICK s \in MaybeCull : Begin(c, a, s)
    BY <1>1 DEF BeginWrite
  <2>5. a.op = op /\ a.keys = S
    BY DEF Arguments
  <2>6. Proper(a, s)
    <3> HIDE DEF a
    <3> QED
      BY <1>0, <2>5 DEF Proper, OneKeyed
  <2> QED
    <3> HIDE DEF a
    <3> QED
      BY <2>3, <2>4, <2>6 DEF Begins, MaybeCull
<1>2. CASE ~HasExpiry(t)
  BY <1>0, <1>2 DEF BeginWrite, Refuses
<1> QED
  BY <1>1, <1>2

LEMMA PlainBegins ==
    ASSUME NEW c \in Clients, NEW op \in Methods \ (Writes \cup OneKeyed),
           NEW S, S \subseteq Keys, NEW s \in {"execute", "cull_expired"},
           s = "cull_expired" => op = "cull", Begin(c, Plain(op, S), s)
    PROVE  Begins(c)
<1>1. Plain(op, S) \in Call
  BY PlainIsCall
<1>2. Plain(op, S).op = op
  BY DEF Plain, Arguments
<1>3. Proper(Plain(op, S), s)
  BY <1>2 DEF Proper
<1> QED
  BY <1>1, <1>3 DEF Begins

LEMMA CallsBegin ==
    ASSUME TypeOK, NEW c \in Clients, Calls(c)
    PROVE  Begins(c) \/ Refuses(c)
<1> USE KeysAssumption
<1>1. CASE Set(c)
  BY <1>1, BeginWriteBegins DEF Set
<1>2. CASE Add(c)
  BY <1>2, BeginWriteBegins DEF Add
<1>3. CASE SetMany(c)
  BY <1>3, BeginWriteBegins DEF SetMany
<1>4. CASE Touch(c)
  <2>0. "touch" \in Methods /\ "touch" \notin Writes /\ "touch" \notin OneKeyed
    BY DEF Methods, Writes, OneKeyed
  <2>1. PICK k \in Keys, t \in Timeouts : Touch(c)!(k, t)
    BY <1>4 DEF Touch
  <2>2. CASE HasExpiry(t)
    <3> DEFINE exp == Expiry(c, t)
               a == Arguments("touch", {k}, NoValues, exp, 0)
    <3>1. exp \in Int
      BY <2>2, ExpiryIsTime
    <3>2. a \in Call
      <4> HIDE DEF exp
      <4> QED
        BY <2>0, <3>1, ArgumentsAreCall, NoValuesIsTable
    <3>3. Proper(a, "execute")
      BY <2>0 DEF Proper, Arguments
    <3>4. Begin(c, a, "execute")
      BY <2>1, <2>2
    <3> QED
      <4> HIDE DEF a
      <4> QED
        BY <3>2, <3>3, <3>4 DEF Begins
  <2>3. CASE ~HasExpiry(t)
    BY <2>0, <2>1, <2>3 DEF Refuses
  <2> QED
    BY <2>2, <2>3
<1>5. CASE Lookup(c)
  BY <1>5, PlainBegins DEF Lookup, Methods, Writes, OneKeyed
<1>6. CASE LookupMany(c)
  BY <1>6, PlainBegins DEF LookupMany, Methods, Writes, OneKeyed
<1>7. CASE LookupPrefix(c)
  BY <1>7, PlainBegins DEF LookupPrefix, Methods, Writes, OneKeyed
<1>8. CASE IncrDecr(c)
  <2>1. PICK op \in {"incr", "decr"}, k \in Keys, d \in Deltas :
            Begin(c, Arguments(op, {k}, NoValues, 0,
                               IF op = "incr" THEN d ELSE -d), "execute")
    BY <1>8 DEF IncrDecr
  <2> DEFINE delta == IF op = "incr" THEN d ELSE -d
             a == Arguments(op, {k}, NoValues, 0, delta)
  <2>2. delta \in Int
    BY IntegersAssumption
  <2>3. op \in Methods /\ op \notin Writes
    BY DEF Methods, Writes
  <2>4. a \in Call
    <3> HIDE DEF delta
    <3> QED
      BY <2>2, <2>3, ArgumentsAreCall, NoValuesIsTable
  <2>5. Proper(a, "execute")
    BY <2>3 DEF Proper, Arguments
  <2> QED
    <3>1. Begin(c, a, "execute")
      BY <2>1
    <3> HIDE DEF a
    <3> QED
      BY <2>4, <2>5, <3>1 DEF Begins
<1>9. CASE Clear(c)
  BY <1>9, PlainBegins DEF Clear, Methods, Writes, OneKeyed
<1>10. CASE Cull(c)
  BY <1>10, PlainBegins DEF Cull, Methods, Writes, OneKeyed
<1> QED
  BY <1>1, <1>2, <1>3, <1>4, <1>5, <1>6, <1>7, <1>8, <1>9, <1>10 DEF Calls

-----------------------------------------------------------------------------
(* The invariant *)

\* A step of c concerns the call of c only.
LEMMA OthersFit ==
    ASSUME CallsFit, NEW c \in Clients, clock' = clock,
           \A d \in Clients \ {c} : /\ pc'[d] = pc[d] /\ call'[d] = call[d]
                                    /\ now'[d] = now[d] /\ cull'[d] = cull[d],
           ArgumentsFit(c)', TimesFit(c)'
    PROVE  CallsFit'
<1> SUFFICES ASSUME NEW d \in Clients, d # c
             PROVE  ArgumentsFit(d)' /\ TimesFit(d)'
  BY DEF CallsFit
<1> QED
  BY DEF CallsFit, ArgumentsFit, TimesFit, Now

LEMMA BeginFits ==
    ASSUME TypeOK, CallsFit, NEW c \in Clients, NEW a \in Call,
           NEW s \in {"execute", "cull_expired"}, Begin(c, a, s), Proper(a, s)
    PROVE  CallsFit'
<1> DEFINE since == IF a.op \in Timed \cup {"incr", "decr"} THEN Now(c) ELSE 0
<1>1. /\ pc' = [pc EXCEPT ![c] = s]
      /\ call' = [call EXCEPT ![c] = [a EXCEPT !.since = since]]
      /\ now' = [now EXCEPT ![c] = IF a.op \in Timed \/ s = "cull_expired"
                                   THEN Now(c) ELSE 0]
      /\ cull' = cull /\ clock' = clock
  BY DEF Begin, Send
<1>2. Now(c) \in Nat /\ since \in {0, Now(c)}
  BY NowIsTime
<1>3. LET b == [a EXCEPT !.since = since]
      IN  b.op = a.op /\ b.keys = a.keys /\ b.since = since
  BY DEF Call, CallRecord
<1> HIDE DEF since
<1>4. /\ pc'[c] = s /\ cull'[c] = cull[c]
      /\ call'[c].op = a.op /\ call'[c].keys = a.keys /\ call'[c].since = since
      /\ a.op \in Timed \/ s = "cull_expired" => now'[c] = Now(c)
  BY <1>1, <1>3 DEF TypeOK
<1>5. \A d \in Clients \ {c} : /\ pc'[d] = pc[d] /\ call'[d] = call[d]
                               /\ now'[d] = now[d] /\ cull'[d] = cull[d]
  BY <1>1 DEF TypeOK
<1>6. ArgumentsFit(c)'
  <2>1. a.op \in Ops[c]
    BY DEF Begin
  <2> QED
    BY <1>4, <2>1 DEF ArgumentsFit, Proper, Culling, CallsFit
<1>7. TimesFit(c)'
  BY <1>1, <1>2, <1>4 DEF TimesFit, Now
<1> QED
  BY <1>1, <1>5, <1>6, <1>7, OthersFit

LEMMA ReturnFits ==
    ASSUME TypeOK, CallsFit, NEW c \in Clients, NEW ans, Return(c, ans),
           clock' = clock
    PROVE  CallsFit'
<1>1. /\ pc'[c] = "idle" /\ call'[c] = NoCall /\ cull'[c] = NoCull
      /\ \A d \in Clients \ {c} : /\ pc'[d] = pc[d] /\ call'[d] = call[d]
                                  /\ now'[d] = now[d] /\ cull'[d] = cull[d]
  BY DEF Return, TypeOK
<1>2. NoCall.op = "none" /\ NoCall.since = 0 /\ NoCull.num_deleted = 0
  BY DEF NoCall, Plain, Arguments, NoCull
<1>3. Now(c) \in Nat /\ Now(c)' = Now(c) /\ Cardinality(Keys) \in Nat
  BY NowIsTime, RowsFinite DEF Now
<1>4. ArgumentsFit(c)'
  BY <1>1, <1>2, <1>3 DEF ArgumentsFit, Culling, OneKeyed
<1>5. TimesFit(c)'
  BY <1>1, <1>2, <1>3 DEF TimesFit
<1> QED
  BY <1>1, <1>4, <1>5, OthersFit

LEMMA CullReturnsFits ==
    ASSUME TypeOK, CallsFit, NEW c \in Clients, pc[c] \in Culling,
           NEW n, CullReturns(c, n), clock' = clock
    PROVE  CallsFit'
<1>1. CASE call[c].op = "cull"
  BY <1>1, ReturnFits DEF CullReturns
<1>2. CASE call[c].op # "cull"
  <2>1. /\ pc'[c] = "execute" /\ call'[c] = call[c] /\ cull'[c] = NoCull
        /\ call[c].op \in Timed => now'[c] = Now(c)
        /\ \A d \in Clients \ {c} : /\ pc'[d] = pc[d] /\ call'[d] = call[d]
                                    /\ now'[d] = now[d] /\ cull'[d] = cull[d]
    BY <1>2 DEF CullReturns, Send, TypeOK
  <2>2. NoCull.num_deleted = 0 /\ Cardinality(Keys) \in Nat
    BY RowsFinite DEF NoCull
  <2>3. ArgumentsFit(c) /\ TimesFit(c) /\ Now(c)' = Now(c) /\ Now(c) \in Nat
    BY NowIsTime DEF CallsFit, Now
  <2>4. ArgumentsFit(c)'
    BY <2>1, <2>2, <2>3 DEF ArgumentsFit, Culling
  <2>5. TimesFit(c)'
    BY <2>1, <2>3 DEF TimesFit
  <2> QED
    BY <2>1, <2>4, <2>5, OthersFit
<1> QED
  BY <1>1, <1>2

LEMMA CullsFit ==
    ASSUME TypeOK, CallsFit, NEW c \in Clients, Culls(c)
    PROVE  CallsFit'
<1>0. ArgumentsFit(c) /\ TimesFit(c)
  BY DEF CallsFit
<1>1. CASE CullExpired(c)
  <2>1. CASE MaxEntries = -1
    BY <1>1, <2>1, CullReturnsFits DEF CullExpired, Culling
  <2>2. CASE MaxEntries # -1
    <3> DEFINE num == Cardinality(Expired(now[c]))
    <3>1. num \in Nat /\ Cardinality(Keys) \in Nat /\ num <= Cardinality(Keys)
      BY KeysAssumption, FS_Subset, FS_CardinalityType DEF Expired, Rows
    <3>2. /\ pc[c] = "cull_expired" /\ clock' = clock
          /\ pc' = [pc EXCEPT ![c] = "cull_count"]
          /\ cull' = [cull EXCEPT ![c].num_deleted = num]
          /\ UNCHANGED <<call, now>>
      BY <1>1, <2>2 DEF CullExpired
    <3> HIDE DEF num
    <3>3. pc'[c] = "cull_count" /\ cull'[c].num_deleted = num
      BY <3>2 DEF TypeOK
    <3>4. \A d \in Clients \ {c} : /\ pc'[d] = pc[d] /\ call'[d] = call[d]
                                   /\ now'[d] = now[d] /\ cull'[d] = cull[d]
      BY <3>2 DEF TypeOK
    <3>5. ArgumentsFit(c)'
      BY <1>0, <2>2, <3>1, <3>2, <3>3 DEF ArgumentsFit, Culling
    <3>6. TimesFit(c)'
      BY <1>0, <3>2, <3>3 DEF TimesFit, Now
    <3> QED
      BY <3>2, <3>4, <3>5, <3>6, OthersFit
  <2> QED
    BY <2>1, <2>2
<1>2. CASE CullCount(c)
  <2> DEFINE num == Cardinality(Rows)
  <2>1. CASE ~CullsAt(num)
    BY <1>2, <2>1, CullReturnsFits DEF CullCount, Culling
  <2>2. CASE CullsAt(num)
    <3>1. /\ pc[c] = "cull_count" /\ clock' = clock
          /\ pc' = [pc EXCEPT ![c] = IF CullFrequency = 0 THEN "cull_all"
                                                          ELSE "cull_offset"]
          /\ cull' = [cull EXCEPT ![c].num = num]
          /\ UNCHANGED <<call, now>>
      BY <1>2, <2>2 DEF CullCount
    <3> HIDE DEF num
    <3>2. /\ pc'[c] \in {"cull_all", "cull_offset"}
          /\ pc'[c] = "cull_offset" => CullFrequency # 0
          /\ cull'[c].num_deleted = cull[c].num_deleted
          /\ \A d \in Clients \ {c} : /\ pc'[d] = pc[d] /\ call'[d] = call[d]
                                      /\ now'[d] = now[d] /\ cull'[d] = cull[d]
      BY <3>1 DEF TypeOK
    <3>3. ArgumentsFit(c)'
      BY <1>0, <3>1, <3>2 DEF ArgumentsFit, Culling
    <3>4. TimesFit(c)'
      BY <1>0, <3>1, <3>2 DEF TimesFit, Now
    <3> QED
      BY <3>1, <3>2, <3>3, <3>4, OthersFit
  <2> QED
    BY <2>1, <2>2
<1>3. CASE CullAll(c)
  BY <1>3, CullReturnsFits DEF CullAll, Culling
<1>4. CASE CullOffset(c)
  <2> DEFINE found == AtOffset(cull[c].num \div CullFrequency)
  <2>1. CASE found = {}
    BY <1>4, <2>1, ReturnFits DEF CullOffset
  <2>2. CASE found # {}
    <3>1. PICK k \in found :
                /\ pc[c] = "cull_offset" /\ clock' = clock
                /\ pc' = [pc EXCEPT ![c] = "cull_below"]
                /\ cull' = [cull EXCEPT ![c].max_key = k]
                /\ UNCHANGED <<call, now>>
      BY <1>4, <2>2 DEF CullOffset
    <3> HIDE DEF found
    <3>2. /\ pc'[c] = "cull_below"
          /\ cull'[c].num_deleted = cull[c].num_deleted
          /\ \A d \in Clients \ {c} : /\ pc'[d] = pc[d] /\ call'[d] = call[d]
                                      /\ now'[d] = now[d] /\ cull'[d] = cull[d]
      BY <3>1 DEF TypeOK
    <3>3. ArgumentsFit(c)'
      BY <1>0, <3>1, <3>2 DEF ArgumentsFit, Culling
    <3>4. TimesFit(c)'
      BY <1>0, <3>1, <3>2 DEF TimesFit, Now
    <3> QED
      BY <3>1, <3>2, <3>3, <3>4, OthersFit
  <2> QED
    BY <2>1, <2>2
<1>5. CASE CullBelow(c)
  BY <1>5, CullReturnsFits DEF CullBelow, Culling
<1> QED
  BY <1>1, <1>2, <1>3, <1>4, <1>5 DEF Culls

\* Every final statement ends its call.
LEMMA ExecutionsReturn ==
    ASSUME NEW c \in Clients, Executions(c)
    PROVE  /\ \E ans : Return(c, ans)
           /\ clock' = clock
  BY DEF Executions, ExecRejected, Rejects, ExecSet, ExecAdd, ExecGet,
         ExecHasKey, ExecDelete, ExecDelta, ExecClear, ExecTouch

LEMMA FitStep == TypeOK /\ CallsFit /\ [Next]_vars => CallsFit'
<1> SUFFICES ASSUME TypeOK, CallsFit, [Next]_vars
             PROVE  CallsFit'
  OBVIOUS
<1>1. CASE Tick
  <2>1. \A c \in Clients : Now(c)' = Now(c) + 1 /\ Now(c) \in Nat
    BY <1>1, NowIsTime, ClocksAssumption DEF Tick, Now, TypeOK
  <2>2. \A c \in Clients : now[c] \in Nat /\ call[c].since \in Int
    BY DEF TypeOK, Call, CallRecord
  <2> QED
    BY <1>1, <2>1, <2>2 DEF Tick, CallsFit, ArgumentsFit, TimesFit
<1>2. ASSUME NEW c \in Clients, Calls(c)
      PROVE  CallsFit'
  <2>1. CASE Begins(c)
    BY <2>1, BeginFits DEF Begins
  <2>2. CASE Refuses(c)
    BY <2>2, ReturnFits DEF Refuses
  <2> QED
    BY <1>2, <2>1, <2>2, CallsBegin
<1>3. ASSUME NEW c \in Clients, Culls(c)
      PROVE  CallsFit'
  BY <1>3, CullsFit
<1>4. ASSUME NEW c \in Clients, Executions(c)
      PROVE  CallsFit'
  BY <1>4, ExecutionsReturn, ReturnFits
<1>5. CASE UNCHANGED vars
  BY <1>5 DEF vars, CallsFit, ArgumentsFit, TimesFit, Now
<1> QED
  BY <1>1, <1>2, <1>3, <1>4, <1>5 DEF Next, Steps

LEMMA AlwaysFit == Spec => []CallsFit
<1>1. Init => CallsFit
  <2> SUFFICES ASSUME Init, NEW c \in Clients
               PROVE  ArgumentsFit(c) /\ TimesFit(c)
    BY DEF CallsFit
  <2>1. Now(c) \in Nat /\ Cardinality(Keys) \in Nat
    BY ClocksAssumption, RowsFinite DEF Init, Now
  <2>2. NoCall.op = "none" /\ NoCall.since = 0 /\ NoCull.num_deleted = 0
    BY DEF NoCall, Plain, Arguments, NoCull
  <2> QED
    BY <2>1, <2>2 DEF Init, ArgumentsFit, TimesFit, Culling, OneKeyed
<1> QED
  BY <1>1, FitStep, TypeCorrect, PTL DEF Spec

-----------------------------------------------------------------------------
(* Culling *)

Writers == {c \in Clients :
                /\ pc[c] \in {"cull_offset", "cull_below", "execute"}
                /\ call[c].op \in Writes}

Below(c) == {k \in Rows : k < cull[c].max_key}

\* The rows that go before the client inserts its row.
Share(c) == IF pc[c] = "cull_offset" THEN cull[c].num \div CullFrequency
            ELSE IF pc[c] = "cull_below" THEN Cardinality(Below(c))
            ELSE 0

Ready(v) == {c \in Writers : Share(c) <= v}

Bound == LET n == Cardinality(Clients)
         IN  IF MaxEntries - 1 + n >= CullFrequency * n
             THEN MaxEntries - 1 + n ELSE CullFrequency * n

Room == \A v \in Nat :
            Cardinality(Rows) - v + Cardinality(Ready(v)) <= Bound

-----------------------------------------------------------------------------
(* Counting *)

LEMMA RowsCount ==
    ASSUME NEW S, S \subseteq Keys
    PROVE  /\ IsFiniteSet(S) /\ Cardinality(S) \in Nat
           /\ \A T \in SUBSET S : Cardinality(T) <= Cardinality(S)
BY KeysAssumption, FS_Subset, FS_CardinalityType

LEMMA SubsetsOfRows == Rows \subseteq Keys /\ Rows' \subseteq Keys
BY DEF Rows

\* With d rows fewer, a subset of the rows loses no more than d.
LEMMA FewerRows ==
    ASSUME NEW S, S \subseteq Keys, NEW T, T \subseteq S, NEW P, P \subseteq S
    PROVE  /\ Cardinality(S \ T) = Cardinality(S) - Cardinality(T)
           /\ Cardinality(S \ T) \in Nat
           /\ Cardinality(P) <= Cardinality(P \cap T) + Cardinality(S \ T)
<1>1. IsFiniteSet(S) /\ IsFiniteSet(T) /\ IsFiniteSet(P)
  BY RowsCount
<1>2. Cardinality(S \cap T) = Cardinality(T)
  <2>1. S \cap T = T
    OBVIOUS
  <2> QED
    BY <2>1
<1>3. Cardinality(S \ T) = Cardinality(S) - Cardinality(T)
  BY <1>1, <1>2, FS_Difference
<1>4. /\ Cardinality(P) \in Nat /\ Cardinality(S) \in Nat
      /\ Cardinality(T) \in Nat /\ Cardinality(S \ T) \in Nat
      /\ Cardinality(P \cap T) \in Nat /\ Cardinality(P \ T) \in Nat
  BY <1>1, RowsCount
<1>5. Cardinality(P \ T) = Cardinality(P) - Cardinality(P \cap T)
  BY <1>1, FS_Difference
<1>6. Cardinality(P \ T) <= Cardinality(S \ T)
  BY RowsCount
<1> QED
  BY <1>3, <1>4, <1>5, <1>6

LEMMA ReadyCount ==
    ASSUME IsFiniteSet(Clients), NEW v
    PROVE  /\ IsFiniteSet(Ready(v)) /\ Cardinality(Ready(v)) \in Nat
           /\ \A S \in SUBSET Ready(v) : Cardinality(S) <= Cardinality(Ready(v))
           /\ Cardinality(Ready(v)) <= Cardinality(Clients)
           /\ Cardinality(Clients) \in Nat
<1>1. Ready(v) \subseteq Clients
  BY DEF Ready, Writers
<1> QED
  BY <1>1, FS_Subset, FS_CardinalityType

LEMMA BoundIsInt ==
    ASSUME IsFiniteSet(Clients)
    PROVE  /\ Bound \in Int
           /\ Bound >= MaxEntries - 1 + Cardinality(Clients)
           /\ Bound >= CullFrequency * Cardinality(Clients)
<1>1. Cardinality(Clients) \in Nat
  BY FS_CardinalityType
<1> DEFINE n == Cardinality(Clients)
           f == CullFrequency * n
<1>2. f \in Int /\ MaxEntries \in Int
  BY <1>1, OptionsAssumption
<1>3. Bound = IF MaxEntries - 1 + n >= f THEN MaxEntries - 1 + n ELSE f
  BY DEF Bound
<1> HIDE DEF f
<1>4. Bound \in Int /\ Bound >= MaxEntries - 1 + n /\ Bound >= f
  BY <1>1, <1>2, <1>3
<1> QED
  BY <1>4 DEF f

LEMMA ShareIsNat ==
    ASSUME TypeOK, CallsFit, NEW c \in Clients
    PROVE  Share(c) \in Nat
<1>1. Cardinality(Below(c)) \in Nat
  BY RowsCount DEF Below, Rows
<1>2. ASSUME pc[c] = "cull_offset"
      PROVE  cull[c].num \div CullFrequency \in Nat
  <2>1. cull[c].num \in Nat /\ CullFrequency \in Nat \ {0}
    BY <1>2, OptionsAssumption DEF TypeOK, CallsFit, ArgumentsFit
  <2> QED
    BY <2>1
<1> QED
  BY <1>1, <1>2 DEF Share

-----------------------------------------------------------------------------
(* Room, when rows go *)

\* A client other than c is as it was.
Unmoved(c) == \A d \in Clients \ {c} :
                pc'[d] = pc[d] /\ call'[d] = call[d] /\ cull'[d] = cull[d]

LEMMA UnmovedWaits ==
    ASSUME TypeOK, CallsFit, NEW c \in Clients, Unmoved(c), NEW d \in Clients \ {c},
           Rows' \subseteq Rows, NEW v \in Nat, d \in Ready(v)'
    PROVE  d \in Ready(v + Cardinality(Rows \ Rows'))
<1> DEFINE gone == Cardinality(Rows \ Rows')
<1>1. pc'[d] = pc[d] /\ call'[d] = call[d] /\ cull'[d] = cull[d]
  BY DEF Unmoved
<1>2. d \in Writers /\ Share(d)' <= v
  BY <1>1 DEF Ready, Writers
<1>3. gone \in Nat
  BY SubsetsOfRows, RowsCount
<1>4. CASE pc[d] = "cull_below"
  <2>1. Share(d) = Cardinality(Below(d)) /\ Share(d)' = Cardinality(Below(d)')
    BY <1>1, <1>4 DEF Share
  <2>2. Below(d)' = Below(d) \cap Rows' /\ Below(d) \subseteq Rows
    BY <1>1 DEF Below
  <2>3. /\ Cardinality(Below(d)) <= Cardinality(Below(d) \cap Rows') + gone
        /\ Cardinality(Below(d)) \in Nat /\ Cardinality(Below(d) \cap Rows') \in Nat
    BY <2>2, SubsetsOfRows, FewerRows, RowsCount
  <2>4. Share(d) <= v + gone
    BY <1>2, <1>3, <2>1, <2>2, <2>3
  <2> QED
    BY <1>2, <2>4 DEF Ready
<1>5. CASE pc[d] = "cull_offset"
  <2>1. Share(d)' = Share(d) /\ Share(d) \in Nat
    BY <1>1, <1>5, ShareIsNat DEF Share
  <2> QED
    BY <1>2, <1>3, <2>1 DEF Ready
<1>6. CASE pc[d] \notin {"cull_below", "cull_offset"}
  <2>1. Share(d) = 0
    BY <1>6 DEF Share
  <2> QED
    BY <1>2, <1>3, <2>1 DEF Ready
<1> QED
  BY <1>4, <1>5, <1>6

LEMMA FewerRowsMakeRoom ==
    ASSUME IsFiniteSet(Clients), TypeOK, CallsFit, Room, NEW c \in Clients, Unmoved(c),
           Rows' \subseteq Rows,
           \A v \in Nat : c \in Ready(v)' =>
                            c \in Ready(v + Cardinality(Rows \ Rows'))
    PROVE  Room'
<1> DEFINE gone == Cardinality(Rows \ Rows')
<1>1. gone = Cardinality(Rows) - Cardinality(Rows') /\ gone \in Nat
      /\ Cardinality(Rows) \in Nat /\ Cardinality(Rows') \in Nat
  BY SubsetsOfRows, FewerRows, RowsCount
<1> SUFFICES ASSUME NEW v \in Nat
             PROVE  Cardinality(Rows') - v + Cardinality(Ready(v)') <= Bound
  BY DEF Room, Bound
<1>2. v + gone \in Nat
  BY <1>1
<1>3. Ready(v)' \subseteq Ready(v + gone)
  <2>1. ASSUME NEW d \in Ready(v)'
        PROVE  d \in Ready(v + gone)
    <3>1. d \in Clients
      BY DEF Ready, Writers
    <3> QED
      BY <3>1, UnmovedWaits
  <2> QED
    BY <2>1
<1>4. /\ Cardinality(Ready(v)') <= Cardinality(Ready(v + gone))
      /\ Cardinality(Ready(v + gone)) \in Nat
      /\ Cardinality(Ready(v)') \in Nat
  BY <1>3, ReadyCount, FS_Subset, FS_CardinalityType
<1>5. Cardinality(Rows) - (v + gone) + Cardinality(Ready(v + gone)) <= Bound
  BY <1>2 DEF Room
<1> HIDE DEF gone
<1> QED
  BY <1>1, <1>4, <1>5, BoundIsInt

-----------------------------------------------------------------------------
(* Room, when a row comes or a client comes to insert one *)

LEMMA InsertUsesRoom ==
    ASSUME IsFiniteSet(Clients), TypeOK, CallsFit, Room,
           NEW c \in Clients, Unmoved(c),
           pc[c] = "execute", call[c].op \in Writes, pc'[c] = "idle",
           Rows \subseteq Rows', Cardinality(Rows') <= Cardinality(Rows) + 1
    PROVE  Room'
<1>1. Cardinality(Rows) \in Nat /\ Cardinality(Rows') \in Nat
  BY SubsetsOfRows, RowsCount
<1> SUFFICES ASSUME NEW v \in Nat
             PROVE  Cardinality(Rows') - v + Cardinality(Ready(v)') <= Bound
  BY DEF Room, Bound
<1>2. c \in Ready(v)
  BY DEF Ready, Writers, Share
<1>3. ASSUME NEW d \in Ready(v)'
      PROVE  d \in Ready(v) \ {c}
  <2>1. d \in Clients \ {c} /\ d \in Writers' /\ Share(d)' <= v
    BY <1>3 DEF Ready, Writers
  <2>2. pc'[d] = pc[d] /\ call'[d] = call[d] /\ cull'[d] = cull[d]
    BY <2>1 DEF Unmoved
  <2>3. d \in Writers
    BY <2>1, <2>2 DEF Writers
  <2>4. CASE pc[d] = "cull_below"
    <3>1. Share(d) = Cardinality(Below(d)) /\ Share(d)' = Cardinality(Below(d)')
      BY <2>2, <2>4 DEF Share
    <3>2. Below(d) \subseteq Below(d)' /\ Below(d)' \subseteq Keys
      BY <2>2, SubsetsOfRows DEF Below
    <3>3. /\ Cardinality(Below(d)) <= Cardinality(Below(d)')
          /\ Cardinality(Below(d)) \in Nat /\ Cardinality(Below(d)') \in Nat
      BY <3>2, RowsCount
    <3> QED
      BY <2>1, <2>3, <3>1, <3>3 DEF Ready
  <2>5. CASE pc[d] # "cull_below"
    BY <2>1, <2>2, <2>3, <2>5 DEF Ready, Share
  <2> QED
    BY <2>4, <2>5
<1>4. /\ Cardinality(Ready(v)') <= Cardinality(Ready(v)) - 1
      /\ Cardinality(Ready(v)) \in Nat /\ Cardinality(Ready(v)') \in Nat
  <2>1. Cardinality(Ready(v) \ {c}) = Cardinality(Ready(v)) - 1
        /\ IsFiniteSet(Ready(v) \ {c})
    BY <1>2, ReadyCount, FS_RemoveElement
  <2>2. Ready(v)' \subseteq Ready(v) \ {c}
    BY <1>3
  <2> QED
    BY <2>1, <2>2, ReadyCount, FS_Subset, FS_CardinalityType
<1>5. Cardinality(Rows) - v + Cardinality(Ready(v)) <= Bound
  BY DEF Room
<1> QED
  BY <1>1, <1>4, <1>5, BoundIsInt

LEMMA ShareIsEnough ==
    ASSUME NEW s \in Nat, NEW F \in Nat \ {0}, NEW n \in Nat,
           NEW B \in Int, s <= B, F * n <= B
    PROVE  s - (s \div F) + n <= B
<1> DEFINE q == s \div F
<1>1. q \in Nat /\ s <= F * q + F - 1
  OBVIOUS
<1> HIDE DEF q
<1>2. CASE q >= n
  BY <1>1, <1>2
<1>3. CASE q < n
  <2>1. F * q + F - 1 - q = (F - 1) * (q + 1)
    BY <1>1
  <2>2. (F - 1) * (q + 1) <= (F - 1) * n
    BY <1>1, <1>3
  <2>3. (F - 1) * n + n = F * n
    OBVIOUS
  <2> DEFINE a == F * q
             b == (F - 1) * (q + 1)
             d == (F - 1) * n
             e == F * n
  <2>4. a \in Int /\ b \in Int /\ d \in Int /\ e \in Int
    BY <1>1
  <2>5. s <= a + F - 1 /\ a + F - 1 - q = b /\ b <= d /\ d + n = e /\ e <= B
    BY <1>1, <2>1, <2>2, <2>3
  <2> HIDE DEF a, b, d, e
  <2> QED
    BY <1>1, <2>4, <2>5 DEF q
<1> QED
  BY <1>1, <1>2, <1>3 DEF q

\* A client that has counted too many rows.
LEMMA CountLeavesRoom ==
    ASSUME IsFiniteSet(Clients), TypeOK, CallsFit, Room,
           NEW c \in Clients, Unmoved(c), Rows' = Rows, CullFrequency # 0,
           pc[c] = "cull_count", pc'[c] = "cull_offset",
           cull'[c].num = Cardinality(Rows)
    PROVE  Room'
<1> DEFINE s == Cardinality(Rows)
           q == s \div CullFrequency
<1>1. s \in Nat /\ CullFrequency \in Nat \ {0} /\ Cardinality(Clients) \in Nat
  BY SubsetsOfRows, RowsCount, OptionsAssumption, FS_CardinalityType
<1>2. q \in Nat
  BY <1>1
<1>3. s <= Bound
  <2>1. s - 0 + Cardinality(Ready(0)) <= Bound
    BY DEF Room
  <2> QED
    BY <1>1, <2>1, ReadyCount, BoundIsInt
<1>4. s - q + Cardinality(Clients) <= Bound
  BY <1>1, <1>3, BoundIsInt, ShareIsEnough
<1> SUFFICES ASSUME NEW v \in Nat
             PROVE  s - v + Cardinality(Ready(v)') <= Bound
  BY DEF Room, Bound
<1>5. /\ Cardinality(Ready(v)') \in Nat
      /\ Cardinality(Ready(v)') <= Cardinality(Clients)
      /\ IsFiniteSet(Ready(v)')
  <2>1. Ready(v)' \subseteq Clients
    BY DEF Ready, Writers
  <2> QED
    BY <2>1, FS_Subset, FS_CardinalityType
<1>6. CASE v >= q
  <2> HIDE DEF s, q
  <2> QED
    BY <1>1, <1>2, <1>4, <1>5, <1>6, BoundIsInt
<1>7. CASE v < q
  <2>1. Share(c)' = q
    BY DEF Share
  <2>2. c \notin Ready(v)'
    BY <1>2, <1>7, <2>1 DEF Ready
  <2>3. ASSUME NEW d \in Ready(v)'
        PROVE  d \in Ready(v)
    <3>1. d \in Clients \ {c}
      BY <2>2, <2>3 DEF Ready, Writers
    <3>2. pc'[d] = pc[d] /\ call'[d] = call[d] /\ cull'[d] = cull[d]
      BY <3>1 DEF Unmoved
    <3> QED
      BY <2>3, <3>2 DEF Ready, Writers, Share, Below
  <2>4. Cardinality(Ready(v)') <= Cardinality(Ready(v))
    BY <2>3, ReadyCount
  <2>5. s - v + Cardinality(Ready(v)) <= Bound
    BY DEF Room
  <2> HIDE DEF s, q
  <2> QED
    BY <1>1, <1>5, <2>4, <2>5, ReadyCount, BoundIsInt
<1> QED
  BY <1>2, <1>6, <1>7

\* A client that has counted few rows, or deleted all of them.
LEMMA FewRowsLeaveRoom ==
    ASSUME IsFiniteSet(Clients), Cardinality(Rows') <= MaxEntries - 1
    PROVE  Room'
<1>1. Cardinality(Rows') \in Nat /\ MaxEntries \in Int
  BY SubsetsOfRows, RowsCount, OptionsAssumption
<1> SUFFICES ASSUME NEW v \in Nat
             PROVE  Cardinality(Rows') - v + Cardinality(Ready(v)') <= Bound
  BY DEF Room, Bound
<1>2. /\ Cardinality(Ready(v)') \in Nat
      /\ Cardinality(Ready(v)') <= Cardinality(Clients)
      /\ Cardinality(Clients) \in Nat
  <2>1. Ready(v)' \subseteq Clients
    BY DEF Ready, Writers
  <2> QED
    BY <2>1, FS_Subset, FS_CardinalityType
<1> QED
  BY <1>1, <1>2, BoundIsInt

-----------------------------------------------------------------------------
(* Steps *)

LEMMA WithoutRows ==
    ASSUME NEW S, S \subseteq Rows, table' = Without(S)
    PROVE  Rows' = Rows \ S
BY DEF Rows, Without

\* A statement only removes rows, or it inserts rows for the keys of a write.
LEMMA ExecutionRows ==
    ASSUME TypeOK, NEW c \in Clients, Executions(c)
    PROVE  \/ Rows' \subseteq Rows
           \/ /\ pc[c] = "execute" /\ call[c].op \in Writes
              /\ Rows \subseteq Rows' /\ Rows' \subseteq Rows \cup call[c].keys
<1>0. /\ call[c] \in CallRecord
      /\ call[c].op \in Writes => \A k \in call[c].keys :
                                    call[c].values[k] # NoRow
  BY DEF TypeOK, Call
<1>1. CASE ExecSet(c)
  BY <1>0, <1>1 DEF ExecSet, Executes, Writes, Rows
<1>2. CASE ExecAdd(c)
  <2>1. pc[c] = "execute" /\ call[c].op \in Writes
    BY <1>2 DEF ExecAdd, Executes, Writes
  <2>2. PICK k \in call[c].keys : ExecAdd(c)!2!(k)
    BY <1>2 DEF ExecAdd
  <2>3. k \in Keys /\ call[c].values[k] \in Row
    BY <1>0, <2>1 DEF CallRecord
  <2>4. CASE table[k] = NoRow
    BY <2>1, <2>2, <2>3, <2>4, NoRowAssumption DEF Rows, TypeOK
  <2>5. CASE table[k] # NoRow
    <3> DEFINE row == UpdateIfExpired(table[k], call[c].values[k], now[c])
    <3>1. row \in Row
      BY <2>3, <2>5, UpdateIsOneOfBoth DEF TypeOK
    <3>2. table' = [table EXCEPT ![k] = row]
      BY <2>2, <2>5
    <3> HIDE DEF row
    <3> QED
      BY <2>1, <2>3, <2>5, <3>1, <3>2, NoRowAssumption DEF Rows, TypeOK
  <2> QED
    BY <2>4, <2>5
<1>3. CASE ExecDelete(c)
  BY <1>3 DEF ExecDelete, Without, Rows
<1>4. CASE ExecDelta(c)
  <2>1. PICK k \in call[c].keys : ExecDelta(c)!2!(k)
    BY <1>4 DEF ExecDelta
  <2>2. \/ table' = table
        \/ table[k] # NoRow /\ \E x : table' = [table EXCEPT ![k] = x]
    BY <2>1
  <2> QED
    BY <2>2 DEF Rows, TypeOK
<1>5. CASE ExecClear(c)
  BY <1>5 DEF ExecClear, Without, Rows
<1>6. CASE ExecTouch(c)
  BY <1>6 DEF ExecTouch, Rows
<1>7. CASE ExecRejected(c) \/ ExecGet(c) \/ ExecHasKey(c)
  BY <1>7 DEF ExecRejected, Rejects, ExecGet, ExecHasKey, Rows
<1> QED
  BY <1>1, <1>2, <1>3, <1>4, <1>5, <1>6, <1>7 DEF Executions

\* Every write culls, to a size of at least one, and writes one row.
EveryWriteCulls ==
    /\ IsFiniteSet(Clients)
    /\ CullChance = "always" /\ MaxEntries \notin {-1, 0}
    /\ \A c \in Clients : "set_many" \notin Ops[c]

LEMMA ReturnUnmoved ==
    ASSUME TypeOK, NEW c \in Clients, NEW ans, Return(c, ans)
    PROVE  Unmoved(c) /\ pc'[c] = "idle" /\ c \notin Writers'
BY DEF Return, TypeOK, Unmoved, Writers

LEMMA CullReturnsUnmoved ==
    ASSUME TypeOK, NEW c \in Clients, NEW n, CullReturns(c, n)
    PROVE  /\ Unmoved(c)
           /\ c \in Writers' => /\ pc'[c] = "execute" /\ Share(c)' = 0
                                /\ call[c].op \in Writes
<1>1. CASE call[c].op = "cull"
  BY <1>1, ReturnUnmoved DEF CullReturns
<1>2. CASE call[c].op # "cull"
  BY <1>2 DEF CullReturns, Send, TypeOK, Unmoved, Writers, Share
<1> QED
  BY <1>1, <1>2

LEMMA CallsKeepRoom ==
    ASSUME EveryWriteCulls, TypeOK, CallsFit, Room, NEW c \in Clients, Calls(c)
    PROVE  Room'
<1>1. Unmoved(c) /\ Rows' = Rows /\ c \notin Writers'
  <2>1. CASE Refuses(c)
    BY <2>1, ReturnUnmoved DEF Refuses, Rows
  <2>2. CASE Begins(c)
    <3>1. PICK a \in Call, s \in {"execute", "cull_expired"} :
                Begin(c, a, s) /\ Proper(a, s)
      BY <2>2 DEF Begins
    <3> DEFINE b == [a EXCEPT !.since = IF a.op \in Timed \cup {"incr", "decr"}
                                        THEN Now(c) ELSE 0]
    <3>2. /\ call' = [call EXCEPT ![c] = b] /\ pc' = [pc EXCEPT ![c] = s]
          /\ UNCHANGED <<table, cull>>
      BY <3>1 DEF Begin, Send
    <3>3. b.op = a.op
      BY DEF Call, CallRecord
    <3> HIDE DEF b
    <3>4. s = "execute" => a.op \notin Writes
      BY <3>1 DEF Proper, EveryWriteCulls, MaybeCull
    <3> QED
      BY <3>2, <3>3, <3>4 DEF TypeOK, Unmoved, Rows, Writers
  <2> QED
    BY <2>1, <2>2, CallsBegin
<1> QED
  BY <1>1, FewerRowsMakeRoom DEF Ready, EveryWriteCulls

LEMMA CullsKeepRoom ==
    ASSUME EveryWriteCulls, TypeOK, CallsFit, Room, NEW c \in Clients, Culls(c)
    PROVE  Room'
<1> USE DEF EveryWriteCulls
<1>0. IsFiniteSet(Clients) /\ MaxEntries \in Nat \ {0}
  BY OptionsAssumption
<1>1. CASE CullExpired(c)
  <2>1. Unmoved(c) /\ c \notin Writers'
    BY <1>1 DEF CullExpired, TypeOK, Unmoved, Writers
  <2>2. Rows' \subseteq Rows
    BY <1>1 DEF CullExpired, Without, Rows
  <2> QED
    BY <1>0, <2>1, <2>2, FewerRowsMakeRoom DEF Ready
<1>2. CASE CullCount(c)
  <2> DEFINE num == Cardinality(Rows)
  <2>0. Rows' = Rows /\ pc[c] = "cull_count" /\ num \in Nat
    BY <1>2, SubsetsOfRows, RowsCount DEF CullCount, Rows
  <2>1. CASE ~CullsAt(num)
    <3>1. Cardinality(Rows') <= MaxEntries - 1
      BY <1>0, <2>0, <2>1 DEF CullsAt
    <3> QED
      BY <1>0, <3>1, FewRowsLeaveRoom
  <2>2. CASE CullsAt(num)
    <3>1. /\ pc' = [pc EXCEPT ![c] = IF CullFrequency = 0 THEN "cull_all"
                                                          ELSE "cull_offset"]
          /\ cull' = [cull EXCEPT ![c].num = num]
          /\ UNCHANGED call
      BY <1>2, <2>2 DEF CullCount
    <3> HIDE DEF num
    <3>2. /\ Unmoved(c) /\ cull'[c].num = num
          /\ pc'[c] = IF CullFrequency = 0 THEN "cull_all" ELSE "cull_offset"
      BY <3>1 DEF TypeOK, Unmoved
    <3>3. CASE CullFrequency = 0
      <4>1. c \notin Writers'
        BY <3>2, <3>3 DEF Writers
      <4> QED
        BY <1>0, <2>0, <3>2, <4>1, FewerRowsMakeRoom DEF Ready
    <3>4. CASE CullFrequency # 0
      BY <1>0, <2>0, <3>2, <3>4, CountLeavesRoom DEF num
    <3> QED
      BY <3>3, <3>4
  <2> QED
    BY <2>1, <2>2
<1>3. CASE CullAll(c)
  <2>1. Rows' = {}
    BY <1>3 DEF CullAll, Without, Rows
  <2>2. Cardinality(Rows') <= MaxEntries - 1
    BY <1>0, <2>1, FS_EmptySet
  <2> QED
    BY <1>0, <2>2, FewRowsLeaveRoom
<1>4. CASE CullOffset(c)
  <2> DEFINE n == cull[c].num \div CullFrequency
             found == AtOffset(n)
  <2>0. Rows' = Rows /\ pc[c] = "cull_offset"
    BY <1>4 DEF CullOffset, Rows
  <2>1. CASE found = {}
    <3>1. Unmoved(c) /\ c \notin Writers'
      BY <1>4, <2>1, ReturnUnmoved DEF CullOffset
    <3> QED
      BY <1>0, <2>0, <3>1, FewerRowsMakeRoom DEF Ready
  <2>2. CASE found # {}
    <3>1. PICK k \in found :
                /\ pc' = [pc EXCEPT ![c] = "cull_below"]
                /\ cull' = [cull EXCEPT ![c].max_key = k]
                /\ UNCHANGED call
      BY <1>4, <2>2 DEF CullOffset
    <3>2. Cardinality({j \in Rows : j < k}) = n
      BY DEF AtOffset
    <3> HIDE DEF n, found
    <3>3. Unmoved(c) /\ pc'[c] = "cull_below" /\ cull'[c].max_key = k
          /\ call'[c] = call[c]
      BY <3>1 DEF TypeOK, Unmoved
    <3>4. Share(c) = n
      BY <2>0 DEF Share, n
    <3>5. Share(c)' = n
      <4>1. Below(c)' = {j \in Rows : j < k}
        BY <2>0, <3>3 DEF Below
      <4> QED
        BY <3>2, <3>3, <4>1 DEF Share
    <3>6. n \in Nat
      BY <3>4, ShareIsNat
    <3>7. Cardinality(Rows \ Rows') = 0
      BY <2>0, FS_EmptySet
    <3>8. ASSUME NEW v \in Nat, c \in Ready(v)'
          PROVE  c \in Ready(v + 0)
      BY <2>0, <3>3, <3>4, <3>5, <3>6, <3>8 DEF Ready, Writers
    <3> QED
      BY <1>0, <2>0, <3>3, <3>7, <3>8, FewerRowsMakeRoom
  <2> QED
    BY <2>1, <2>2
<1>5. CASE CullBelow(c)
  <2>1. /\ table' = Without(Below(c)) /\ pc[c] = "cull_below"
        /\ \E n : CullReturns(c, n)
    BY <1>5 DEF CullBelow, Below
  <2>2. Rows' = Rows \ Below(c) /\ Below(c) \subseteq Rows
    BY <2>1, WithoutRows DEF Below
  <2>3. Rows \ Rows' = Below(c)
    BY <2>2
  <2>4. Share(c) = Cardinality(Rows \ Rows') /\ Share(c) \in Nat
    BY <2>1, <2>3, ShareIsNat DEF Share
  <2>5. ASSUME NEW v \in Nat, c \in Ready(v)'
        PROVE  c \in Ready(v + Cardinality(Rows \ Rows'))
    <3>1. call[c].op \in Writes
      BY <2>1, <2>5, CullReturnsUnmoved DEF Ready
    <3>2. c \in Writers
      BY <2>1, <3>1 DEF Writers
    <3> QED
      BY <2>4, <3>2 DEF Ready
  <2> QED
    BY <1>0, <2>1, <2>2, <2>5, FewerRowsMakeRoom, CullReturnsUnmoved
<1> QED
  BY <1>1, <1>2, <1>3, <1>4, <1>5 DEF Culls

LEMMA ExecutionsKeepRoom ==
    ASSUME EveryWriteCulls, TypeOK, CallsFit, Room,
           NEW c \in Clients, Executions(c)
    PROVE  Room'
<1>0. /\ IsFiniteSet(Clients)
      /\ Unmoved(c) /\ pc'[c] = "idle" /\ c \notin Writers'
  BY ExecutionsReturn, ReturnUnmoved DEF EveryWriteCulls
<1>1. CASE Rows' \subseteq Rows
  BY <1>0, <1>1, FewerRowsMakeRoom DEF Ready
<1>2. CASE /\ pc[c] = "execute" /\ call[c].op \in Writes
           /\ Rows \subseteq Rows' /\ Rows' \subseteq Rows \cup call[c].keys
  <2>1. PICK k \in Keys : call[c].keys = {k}
    BY <1>2 DEF CallsFit, ArgumentsFit, OneKeyed, Writes, EveryWriteCulls
  <2>2. /\ Cardinality(Rows') <= Cardinality(Rows \cup {k})
        /\ Cardinality(Rows \cup {k}) <= Cardinality(Rows) + 1
        /\ Cardinality(Rows) \in Nat /\ Cardinality(Rows') \in Nat
        /\ Cardinality(Rows \cup {k}) \in Nat
    <3>1. Rows \cup {k} \subseteq Keys /\ Rows' \subseteq Rows \cup {k}
      BY <1>2, <2>1 DEF Rows
    <3> QED
      BY <3>1, SubsetsOfRows, RowsCount, FS_AddElement
  <2>3. Cardinality(Rows') <= Cardinality(Rows) + 1
    BY <2>2
  <2> QED
    BY <1>0, <1>2, <2>3, InsertUsesRoom
<1> QED
  BY <1>1, <1>2, ExecutionRows

LEMMA RoomStep ==
    ASSUME EveryWriteCulls, TypeOK, CallsFit, Room, [Next]_vars
    PROVE  Room'
<1>1. CASE Tick
  BY <1>1 DEF Tick, Room, Bound, Ready, Writers, Share, Below, Rows
<1>2. ASSUME NEW c \in Clients, Calls(c)
      PROVE  Room'
  BY <1>2, CallsKeepRoom
<1>3. ASSUME NEW c \in Clients, Culls(c)
      PROVE  Room'
  BY <1>3, CullsKeepRoom
<1>4. ASSUME NEW c \in Clients, Executions(c)
      PROVE  Room'
  BY <1>4, ExecutionsKeepRoom
<1>5. CASE UNCHANGED vars
  BY <1>5 DEF vars, Room, Bound, Ready, Writers, Share, Below, Rows
<1> QED
  BY <1>1, <1>2, <1>3, <1>4, <1>5 DEF Next, Steps

\* When every write culls and writes one row, the table stays bounded for any
\* number of clients, any MAX_ENTRIES and any CULL_FREQUENCY: although every
\* client inserts after a count that is stale, n clients exceed MAX_ENTRIES
\* by no more than n - 1 rows, or fill the table to CULL_FREQUENCY * n.
THEOREM SizeAlwaysBounded ==
    ASSUME EveryWriteCulls
    PROVE  Spec => []SizeBounded
<1>1. Init => Room
  <2> SUFFICES ASSUME Init, NEW v \in Nat
               PROVE  Cardinality(Rows) - v + Cardinality(Ready(v)) <= Bound
    BY DEF Room
  <2>1. Rows = {} /\ Ready(v) = {}
    BY DEF Init, Rows, NoValues, Ready, Writers
  <2>2. Cardinality(Clients) \in Nat /\ MaxEntries \in Nat
    BY OptionsAssumption, FS_CardinalityType DEF EveryWriteCulls
  <2>3. Bound >= 0 - 1 + Cardinality(Clients) /\ Bound >= 0 /\ Bound \in Int
    <3>1. MaxEntries >= 1
      BY <2>2 DEF EveryWriteCulls
    <3> QED
      BY <2>2, <3>1, BoundIsInt DEF EveryWriteCulls
  <2> QED
    BY <2>1, <2>3, FS_EmptySet
<1>2. TypeOK /\ CallsFit /\ Room /\ [Next]_vars => Room'
  BY RoomStep
<1>3. Room => SizeBounded
  <2> SUFFICES ASSUME Room
               PROVE  SizeBounded
    OBVIOUS
  <2>1. Cardinality(Rows) - 0 + Cardinality(Ready(0)) <= Bound
    BY DEF Room
  <2>2. Cardinality(Rows) \in Nat /\ Cardinality(Ready(0)) \in Nat
    BY SubsetsOfRows, RowsCount, ReadyCount DEF EveryWriteCulls
  <2>3. Cardinality(Rows) <= Bound
    BY <2>1, <2>2, BoundIsInt DEF EveryWriteCulls
  <2> QED
    BY <2>3 DEF Bound, SizeBounded
<1> QED
  BY <1>1, <1>2, <1>3, TypeCorrect, AlwaysFit, PTL DEF Spec

-----------------------------------------------------------------------------
(* The row at an offset *)

Lower(k) == {j \in Rows : j < k}
Rank(k) == Cardinality(Lower(k))

LEMMA RankBelow ==
    ASSUME NEW k \in Rows
    PROVE  /\ Rank(k) \in 0..(Cardinality(Rows) - 1)
           /\ \A i \in Rows : i < k => Rank(i) < Rank(k)
<1>0. Rows \subseteq Keys /\ Keys \subseteq Int
  BY KeysAssumption DEF Rows
<1>1. Cardinality(Lower(k)) \in Nat /\ Cardinality(Rows) \in Nat
  BY <1>0, RowsCount DEF Lower
<1>2. Cardinality(Lower(k)) < Cardinality(Rows)
  <2>1. Lower(k) \subseteq Rows /\ k \notin Lower(k)
    BY <1>0 DEF Lower
  <2>2. Cardinality(Lower(k)) <= Cardinality(Rows) /\ Lower(k) # Rows
    BY <1>0, <2>1, RowsCount
  <2>3. Cardinality(Rows) # Cardinality(Lower(k))
    BY <1>0, <2>1, <2>2, RowsCount, FS_Subset
  <2> QED
    BY <1>1, <2>2, <2>3
<1>3. ASSUME NEW i \in Rows, i < k
      PROVE  Cardinality(Lower(i)) < Cardinality(Lower(k))
  <2>0. i \in Int /\ k \in Int /\ \A j \in Rows : j \in Int
    BY <1>0
  <2>1. Lower(i) \subseteq Lower(k) /\ i \in Lower(k) /\ i \notin Lower(i) /\ Lower(k) \subseteq Keys
    <3>1. \A j \in Rows : j < i => j < k
      BY <1>3, <2>0
    <3>2. Lower(i) \subseteq Lower(k)
      BY <3>1 DEF Lower
    <3>3. i \in Lower(k) /\ i \notin Lower(i)
      BY <1>3, <2>0 DEF Lower
    <3>4. Lower(k) \subseteq Keys
      BY <1>0 DEF Lower
    <3> QED
      BY <3>2, <3>3, <3>4
  <2>2. Cardinality(Lower(i)) <= Cardinality(Lower(k)) /\ Lower(i) # Lower(k)
    BY <2>1, RowsCount
  <2>3. Cardinality(Lower(i)) \in Nat
    BY <1>0, RowsCount DEF Lower
  <2>4. Cardinality(Lower(k)) # Cardinality(Lower(i))
    BY <2>1, <2>2, RowsCount, FS_Subset
  <2> QED
    BY <1>1, <2>2, <2>3, <2>4
<1> QED
  BY <1>1, <1>2, <1>3 DEF Rank

\* Every offset below the number of rows has a row.
LEMMA OffsetFindsRow ==
    ASSUME NEW n \in 0..(Cardinality(Rows) - 1)
    PROVE  AtOffset(n) # {}
<1> DEFINE s == Cardinality(Rows)
           T == 0..(s - 1)
           rank == [k \in Rows |-> Rank(k)]
<1>0. Rows \subseteq Keys /\ Keys \subseteq Int /\ s \in Nat /\ IsFiniteSet(Rows)
  BY KeysAssumption, RowsCount DEF Rows
<1>1. rank \in [Rows -> T]
  BY RankBelow
<1>2. rank \in Injection(Rows, T)
  <2>1. ASSUME NEW i \in Rows, NEW k \in Rows, rank[i] = rank[k]
        PROVE  i = k
    <3>1. i \in Int /\ k \in Int
      BY <1>0
    <3>2. Rank(i) = Rank(k)
      BY <2>1
    <3>3. Rank(k) \in Int
      BY <1>0, RankBelow
    <3>4. ~(i < k)
      <4> SUFFICES ASSUME i < k PROVE Rank(i) < Rank(k)
        BY <3>2, <3>3
      <4> QED
        BY RankBelow
    <3>5. ~(k < i)
      <4> SUFFICES ASSUME k < i PROVE Rank(k) < Rank(i)
        BY <3>2, <3>3
      <4> QED
        BY RankBelow
    <3> QED
      BY <3>1, <3>4, <3>5
  <2> HIDE DEF rank
  <2> QED
    BY <1>1, <2>1 DEF Injection, IsInjective
<1>3. IsFiniteSet(T) /\ Cardinality(T) = s
  <2> HIDE DEF s
  <2>1. /\ IsFiniteSet(T)
        /\ Cardinality(T) = IF 0 > s - 1 THEN 0 ELSE (s - 1) - 0 + 1
    <3>1. 0 \in Int /\ s - 1 \in Int
      BY <1>0
    <3> QED
      BY <3>1, FS_Interval
  <2> QED
    BY <1>0, <2>1
<1>4. rank \in Surjection(Rows, T)
  <2> HIDE DEF rank, T
  <2> QED
    BY <1>2, <1>3, FS_Injection
<1>5. PICK k \in Rows : rank[k] = n
  BY <1>4 DEF Surjection
<1> QED
  BY <1>5 DEF AtOffset, Rank, Lower

-----------------------------------------------------------------------------
(* A client alone *)

Alone == \E c : Clients = {c}

\* What the client counted is still so.
CountHolds(c) ==
    /\ pc[c] = "cull_offset" => /\ cull[c].num = Cardinality(Rows)
                                /\ cull[c].num >= MaxEntries
    /\ pc[c] = "cull_below" =>
           Cardinality(Below(c)) = cull[c].num \div CullFrequency
CountsHold == \A c \in Clients : CountHolds(c)

LEMMA CountStep ==
    ASSUME Alone, TypeOK, CountsHold, [Next]_vars
    PROVE  CountsHold'
<1> SUFFICES ASSUME NEW c \in Clients, Clients = {c}
             PROVE  CountHolds(c)'
  BY DEF Alone, CountsHold
<1>0. CountHolds(c)
  BY DEF CountsHold
<1>1. CASE Tick
  BY <1>0, <1>1 DEF Tick, CountHolds, Rows, Below
<1>2. CASE UNCHANGED vars
  BY <1>0, <1>2 DEF vars, CountHolds, Rows, Below
<1>3. CASE pc'[c] \notin {"cull_offset", "cull_below"}
  BY <1>3 DEF CountHolds
<1>4. ASSUME Calls(c)
      PROVE  pc'[c] \notin {"cull_offset", "cull_below"}
  <2>1. CASE Refuses(c)
    BY <2>1, ReturnUnmoved DEF Refuses
  <2>2. CASE Begins(c)
    BY <2>2 DEF Begins, Begin, Send, TypeOK
  <2> QED
    BY <1>4, <2>1, <2>2, CallsBegin
<1>5. ASSUME Executions(c)
      PROVE  pc'[c] \notin {"cull_offset", "cull_below"}
  BY <1>5, ExecutionsReturn, ReturnUnmoved
<1>6. ASSUME NEW n, CullReturns(c, n)
      PROVE  pc'[c] \notin {"cull_offset", "cull_below"}
  <2>1. CASE call[c].op = "cull"
    BY <1>6, <2>1, ReturnUnmoved DEF CullReturns
  <2>2. CASE call[c].op # "cull"
    BY <1>6, <2>2 DEF CullReturns, Send, TypeOK
  <2> QED
    BY <2>1, <2>2
<1>7. ASSUME CullExpired(c) \/ CullAll(c) \/ CullBelow(c)
      PROVE  pc'[c] \notin {"cull_offset", "cull_below"}
  <2>1. CASE MaxEntries # -1 /\ CullExpired(c)
    BY <2>1 DEF CullExpired, TypeOK
  <2> QED
    BY <1>6, <1>7, <2>1 DEF CullExpired, CullAll, CullBelow
<1>8. CASE CullCount(c)
  <2> DEFINE num == Cardinality(Rows)
  <2>1. CASE ~CullsAt(num)
    BY <1>3, <1>6, <1>8, <2>1 DEF CullCount
  <2>2. CASE CullsAt(num)
    <3>1. /\ pc' = [pc EXCEPT ![c] = IF CullFrequency = 0 THEN "cull_all"
                                                          ELSE "cull_offset"]
          /\ cull' = [cull EXCEPT ![c].num = num]
          /\ table' = table
      BY <1>8, <2>2 DEF CullCount
    <3>2. Rows' = Rows
      BY <3>1 DEF Rows
    <3>3. num >= MaxEntries
      BY <2>2 DEF CullsAt
    <3> HIDE DEF num
    <3>4. cull'[c].num = num /\ pc'[c] \in {"cull_all", "cull_offset"}
      BY <3>1 DEF TypeOK
    <3> QED
      BY <3>2, <3>3, <3>4 DEF CountHolds, num
  <2> QED
    BY <2>1, <2>2
<1>9. CASE CullOffset(c)
  <2> DEFINE n == cull[c].num \div CullFrequency
             found == AtOffset(n)
  <2>1. CASE found = {}
    BY <1>3, <1>9, <2>1, ReturnUnmoved DEF CullOffset
  <2>2. CASE found # {}
    <3>1. PICK k \in found :
                /\ pc' = [pc EXCEPT ![c] = "cull_below"]
                /\ cull' = [cull EXCEPT ![c].max_key = k]
                /\ table' = table
      BY <1>9, <2>2 DEF CullOffset
    <3>2. Cardinality({j \in Rows : j < k}) = n
      BY DEF AtOffset
    <3> HIDE DEF found
    <3>3. /\ pc'[c] = "cull_below" /\ cull'[c].num = cull[c].num
          /\ Below(c)' = {j \in Rows : j < k}
      BY <3>1 DEF TypeOK, Below, Rows
    <3> QED
      BY <3>2, <3>3 DEF CountHolds
  <2> QED
    BY <2>1, <2>2
<1> QED
  BY <1>1, <1>2, <1>3, <1>4, <1>5, <1>7, <1>8, <1>9 DEF Next, Steps, Culls

LEMMA CountsAlwaysHold ==
    ASSUME Alone
    PROVE  Spec => []CountsHold
<1>1. Init => CountsHold
  BY DEF Init, CountsHold, CountHolds
<1>2. TypeOK /\ CountsHold /\ [Next]_vars => CountsHold'
  BY CountStep
<1> QED
  BY <1>1, <1>2, TypeCorrect, PTL DEF Spec

\* What the statements of a call answer.
LEMMA ExecutionAnswers ==
    ASSUME NEW c \in Clients, Executions(c)
    PROVE  answer'.op # "cull" /\ answer'.outcome # "TypeError"
<1>1. CASE ExecRejected(c)
  BY <1>1 DEF ExecRejected, Rejects, Executes, Return, Answered, Answer
<1>2. CASE ExecSet(c)
  BY <1>2 DEF ExecSet, Executes, Return, Answered, Answer
<1>3. CASE ExecAdd(c)
  BY <1>3 DEF ExecAdd, Return, AnsweredBool, Answered, Answer
<1>4. CASE ExecGet(c)
  BY <1>4 DEF ExecGet, Executes, Selected, Return, Answered, Answer
<1>5. CASE ExecHasKey(c)
  BY <1>5 DEF ExecHasKey, Return, AnsweredBool, Answered, Answer
<1>6. CASE ExecDelete(c)
  <2>1. CASE call[c].op = "delete"
    BY <1>6, <2>1 DEF ExecDelete, Return, AnsweredBool, Answered, Answer
  <2>2. CASE call[c].op = "delete_with_prefix"
    BY <1>6, <2>2 DEF ExecDelete, Return, AnsweredInt, Answer
  <2>3. CASE call[c].op = "delete_many"
    BY <1>6, <2>3 DEF ExecDelete, Return, Answered, Answer
  <2> QED
    BY <1>6, <2>1, <2>2, <2>3 DEF ExecDelete, Executes
<1>7. CASE ExecDelta(c)
  BY <1>7 DEF ExecDelta, Executes, Return, Answered, AnsweredInt, Answer
<1>8. CASE ExecClear(c)
  BY <1>8 DEF ExecClear, Return, Answered, Answer
<1>9. CASE ExecTouch(c)
  BY <1>9 DEF ExecTouch, Return, AnsweredBool, Answered, Answer
<1> QED
  BY <1>1, <1>2, <1>3, <1>4, <1>5, <1>6, <1>7, <1>8, <1>9 DEF Executions

LEMMA CullReturnAnswers ==
    ASSUME NEW c \in Clients, NEW n, CullReturns(c, n)
    PROVE  /\ answer'.outcome # "TypeError"
           /\ answer'.op = "cull" => answer'.client = c /\ answer'.n = n
BY DEF CullReturns, Return, AnsweredInt, NoAnswer, Answer

LEMMA CullOffsetAnswers ==
    ASSUME NEW c \in Clients, CullOffset(c)
    PROVE  IF AtOffset(cull[c].num \div CullFrequency) = {}
           THEN answer'.outcome = "TypeError" ELSE answer' = NoAnswer
BY DEF CullOffset, Return, Answered, Answer

\* No call begins with the TypeError of a timeout that is not a number.
LEMMA TimedCallsAnswer ==
    ASSUME \A t \in Timeouts : HasExpiry(t), NEW c \in Clients, Calls(c)
    PROVE  answer' = NoAnswer
BY ZenonT(60) DEF Calls, Set, Add, SetMany, Touch, Lookup, LookupMany, LookupPrefix,
       IncrDecr, Clear, Cull, BeginWrite, Begin

\* A client alone never fails to find the row that it culls below: no write
\* raises the TypeError of cull() and is lost, whatever the size of the table
\* and whatever CULL_FREQUENCY other than one.
THEOREM CullAloneCompletes ==
    ASSUME Alone, MaxEntries # 0, CullFrequency # 1,
           \A t \in Timeouts : HasExpiry(t)
    PROVE  Spec => []CullCompletes
<1> USE DEF CullCompletes
<1>1. Init => CullCompletes
  BY DEF Init, NoAnswer, Answer
<1>2. TypeOK /\ CallsFit /\ CountsHold /\ CullCompletes /\ [Next]_vars
        => CullCompletes'
  <2> SUFFICES ASSUME TypeOK, CallsFit, CountsHold, CullCompletes, [Next]_vars
               PROVE  answer'.outcome # "TypeError"
    OBVIOUS
  <2>0. NoAnswer.outcome # "TypeError"
    BY DEF NoAnswer, Answer
  <2>1. CASE Tick \/ UNCHANGED vars
    BY <2>0, <2>1 DEF Tick, vars
  <2>2. ASSUME NEW c \in Clients, Calls(c)
        PROVE  answer'.outcome # "TypeError"
    BY <2>0, <2>2, TimedCallsAnswer
  <2>3. ASSUME NEW c \in Clients, Executions(c)
        PROVE  answer'.outcome # "TypeError"
    BY <2>3, ExecutionAnswers
  <2>4. ASSUME NEW c \in Clients, Culls(c)
        PROVE  answer'.outcome # "TypeError"
    <3>1. CASE CullExpired(c) \/ CullCount(c) \/ CullAll(c) \/ CullBelow(c)
      BY <2>0, <3>1, CullReturnAnswers
         DEF CullExpired, CullCount, CullAll, CullBelow
    <3>2. CASE CullOffset(c)
      <4> DEFINE s == Cardinality(Rows)
                 F == CullFrequency
      <4>1. /\ cull[c].num = s /\ s >= MaxEntries
            /\ MaxEntries # -1 /\ F # 0
        BY <3>2 DEF CullOffset, CountsHold, CountHolds, CallsFit,
                    ArgumentsFit, Culling
      <4>2. s \in Nat \ {0} /\ F \in Nat \ {0, 1}
        BY <4>1, SubsetsOfRows, RowsCount, OptionsAssumption
      <4> HIDE DEF s, F
      <4>3. s \div F \in 0..(s - 1)
        BY <4>2
      <4>4. AtOffset(cull[c].num \div F) # {}
        BY <4>1, <4>3, OffsetFindsRow DEF s
      <4> QED
        BY <2>0, <3>2, <4>4, CullOffsetAnswers DEF F
    <3> QED
      BY <2>4, <3>1, <3>2 DEF Culls
  <2> QED
    BY <2>1, <2>2, <2>3, <2>4 DEF Next, Steps
<1> QED
  BY <1>1, <1>2, TypeCorrect, AlwaysFit, CountsAlwaysHold, PTL DEF Spec

\* A client alone deletes exactly the share of the rows that it counted, for
\* any MAX_ENTRIES and CULL_FREQUENCY.
THEOREM CullAloneFreesShare ==
    ASSUME Alone
    PROVE  Spec => CullFreesShare
<1> DEFINE Frees == \A c \in Clients :
                        pc[c] = "cull_below" /\ pc'[c] # "cull_below" =>
                            Cardinality(Rows) - Cardinality(Rows') =
                                cull[c].num \div CullFrequency
<1>1. TypeOK /\ CountsHold /\ [Next]_vars => [Frees]_vars
  <2> SUFFICES ASSUME TypeOK, CountsHold, [Next]_vars, NEW c \in Clients,
                      pc[c] = "cull_below", pc'[c] # "cull_below"
               PROVE  Cardinality(Rows) - Cardinality(Rows') =
                          cull[c].num \div CullFrequency
    OBVIOUS
  <2>1. \A d \in Clients : d = c
    BY DEF Alone
  <2>2. CullBelow(c)
    <3>1. ~Calls(c)
      BY DEF Calls, Set, Add, SetMany, Touch, Lookup, LookupMany, LookupPrefix,
             IncrDecr, Clear, Cull, BeginWrite, Begin
    <3>2. ~Executions(c)
      BY DEF Executions, ExecRejected, Rejects, ExecSet, ExecAdd, ExecGet,
             ExecHasKey, ExecDelete, ExecDelta, ExecClear, ExecTouch, Executes
    <3>3. ~Tick /\ ~UNCHANGED vars
      BY DEF Tick, vars
    <3>4. Culls(c)
      BY <2>1, <3>1, <3>2, <3>3 DEF Next, Steps
    <3> QED
      BY <3>4 DEF Culls, CullExpired, CullCount, CullAll, CullOffset
  <2>3. Rows' = Rows \ Below(c) /\ Below(c) \subseteq Rows
    BY <2>2, WithoutRows DEF CullBelow, Below
  <2>4. Cardinality(Below(c)) = cull[c].num \div CullFrequency
    BY DEF CountsHold, CountHolds
  <2>5. /\ Cardinality(Rows') = Cardinality(Rows) - Cardinality(Below(c))
        /\ Cardinality(Rows) \in Nat /\ Cardinality(Below(c)) \in Nat
    BY <2>3, SubsetsOfRows, FewerRows, RowsCount
  <2> QED
    BY <2>4, <2>5
<1> QED
  BY <1>1, TypeCorrect, CountsAlwaysHold, PTL DEF Spec, CullFreesShare

\* With MAX_ENTRIES a cull() answers the number of rows that its statements
\* deleted, whatever other clients insert and delete between them.
THEOREM CullAlwaysReports ==
    ASSUME MaxEntries # -1
    PROVE  Spec => CullReports
<1> DEFINE Reports == answer'.op = "cull" /\ answer'.outcome = "number" =>
                        answer'.n = cull[answer'.client].num_deleted
                                        + Cardinality(Rows \ Rows')
<1>1. TypeOK /\ [Next]_vars => [Reports]_vars
  <2> SUFFICES ASSUME TypeOK, Next, answer'.op = "cull",
                      answer'.outcome = "number"
               PROVE  answer'.n = cull[answer'.client].num_deleted
                                    + Cardinality(Rows \ Rows')
    OBVIOUS
  <2>0. NoAnswer.op = "none"
    BY DEF NoAnswer, Answer
  <2>1. PICK c \in Clients : Culls(c)
    <3>1. ~Tick
      BY <2>0 DEF Tick
    <3>2. ASSUME NEW c \in Clients
          PROVE  ~Executions(c)
      BY <3>2, ExecutionAnswers
    <3>3. ASSUME NEW c \in Clients, Calls(c)
          PROVE  FALSE
      <4>1. CASE Begins(c)
        BY <2>0, <4>1 DEF Begins, Begin
      <4>2. CASE Refuses(c)
        BY <4>2 DEF Refuses, Return, Answered, Answer
      <4> QED
        BY <3>3, <4>1, <4>2, CallsBegin
    <3> QED
      BY <3>1, <3>2, <3>3 DEF Next, Steps
  <2>2. cull[c].num_deleted \in Nat
    BY DEF TypeOK
  <2>3. ASSUME NEW n, CullReturns(c, n),
               n = cull[c].num_deleted + Cardinality(Rows \ Rows')
        PROVE  answer'.n = cull[answer'.client].num_deleted
                                + Cardinality(Rows \ Rows')
    BY <2>3, CullReturnAnswers
  <2>4. CASE CullCount(c)
    <3>1. Rows \ Rows' = {}
      BY <2>4 DEF CullCount, Rows
    <3>2. Cardinality(Rows \ Rows') = 0
      BY <3>1, FS_EmptySet
    <3>3. CullReturns(c, cull[c].num_deleted)
      BY <2>0, <2>4 DEF CullCount
    <3> QED
      BY <2>2, <2>3, <3>2, <3>3
  <2>5. CASE CullAll(c)
    <3>1. Rows \ Rows' = Rows
      BY <2>5 DEF CullAll, Without, Rows
    <3>2. CullReturns(c, cull[c].num_deleted + Cardinality(Rows))
      BY <2>5 DEF CullAll
    <3> QED
      BY <2>3, <3>1, <3>2
  <2>6. CASE CullBelow(c)
    <3>1. Rows \ Rows' = Below(c)
      BY <2>6, WithoutRows DEF CullBelow, Below
    <3>2. CullReturns(c, cull[c].num_deleted + Cardinality(Below(c)))
      BY <2>6 DEF CullBelow, Below
    <3> QED
      BY <2>3, <3>1, <3>2
  <2>7. ~CullExpired(c)
    BY <2>0 DEF CullExpired
  <2>8. ~CullOffset(c)
    BY <2>0, CullOffsetAnswers
  <2> QED
    BY <2>1, <2>4, <2>5, <2>6, <2>7, <2>8 DEF Culls
<1> QED
  BY <1>1, TypeCorrect, PTL DEF Spec, CullReports

-----------------------------------------------------------------------------
(* The refinement mapping *)

CacheInv == TypeOK /\ TableSound /\ CallsFit

LEMMA EntryOfRow ==
    ASSUME NEW row \in Row, Sound(row)
    PROVE  /\ EntryOf(row) = [obj |-> row.value.obj, expires |-> row.expires]
           /\ EntryOf(row) # NoRow
<1>1. EntryOf(row) = [obj |-> row.value.obj, expires |-> row.expires]
  BY NoRowAssumption DEF EntryOf, Decode, Sound
<1>2. row.value.obj \in Object /\ row.expires \in Int
  BY DEF Row
<1> QED
  BY <1>1, <1>2, NoEntryAssumption

LEMMA ContentOf ==
    ASSUME TypeOK, TableSound, NEW k \in Keys
    PROVE  /\ contentBar[k] = EntryOf(table[k])
           /\ table[k] = NoRow <=> contentBar[k] = NoRow
           /\ k \in Rows => /\ table[k] \in Row
                            /\ Sound(table[k])
                            /\ contentBar[k] = [obj |-> table[k].value.obj,
                                                expires |-> table[k].expires]
<1>1. contentBar[k] = EntryOf(table[k])
  BY DEF contentBar
<1>2. CASE table[k] = NoRow
  BY <1>1, <1>2 DEF EntryOf, Rows
<1>3. CASE table[k] # NoRow
  <2>1. table[k] \in Row /\ Sound(table[k])
    BY <1>3 DEF TypeOK, TableSound, AllSound
  <2> QED
    BY <1>1, <1>3, <2>1, EntryOfRow DEF Rows
<1> QED
  BY <1>2, <1>3

LEMMA RequestIs ==
    ASSUME NEW c \in Clients
    PROVE  /\ requestBar[c] = RequestOf(call[c])
           /\ requestBar[c].op = call[c].op
           /\ requestBar[c].keys = call[c].keys
           /\ requestBar[c].entries = [k \in Keys |-> EntryOf(call[c].values[k])]
           /\ requestBar[c].exp = call[c].exp
           /\ requestBar[c].delta = call[c].delta
           /\ requestBar[c].since = call[c].since
BY DEF requestBar, RequestOf

LEMMA NoCallIsIdle == RequestOf(NoCall) = Contract!Idle
BY DEF RequestOf, NoCall, Plain, Arguments, NoValues, EntryOf, Contract!Idle

LEMMA NoAnswerIsSilent == NoAnswer = Contract!Silent
BY DEF NoAnswer, Answer, Contract!Silent

\* The contract counts as the backend does.
LEMMA SameCount ==
    ASSUME NEW S
    PROVE  Contract!Cardinality(S) = Cardinality(S)
BY DEF Contract!Cardinality, Cardinality

\* The sets of keys that the contract's actions speak of.
LEMMA ViewsOf ==
    ASSUME TypeOK, TableSound
    PROVE  /\ Contract!Present = Rows
           /\ \A t : Contract!Visible(t) = {k \in Rows : table[k].expires >= t}
           /\ \A t : Contract!Held(t) = {k \in Rows : table[k].expires > t}
           /\ \A c \in Clients : Contract!Moments(c) = call[c].since..Now(c)
<1>1. Contract!Present = Rows
  BY ContentOf DEF Contract!Present, Rows
<1>2. ASSUME NEW k \in Rows
      PROVE  contentBar[k].expires = table[k].expires
  <2>1. contentBar[k] = [obj |-> table[k].value.obj,
                         expires |-> table[k].expires]
    BY ContentOf DEF Rows
  <2> QED
    BY <2>1
<1>3. \A c \in Clients : Contract!Moments(c) = call[c].since..Now(c)
  BY RequestIs DEF Contract!Moments, Now
<1> QED
  BY <1>1, <1>2, <1>3 DEF Contract!Visible, Contract!Held

\* A call that returns an answer of its own answers its request.
LEMMA ReturnAnswers ==
    ASSUME TypeOK, NEW c \in Clients, clock' = clock,
           NEW outcome, NEW n, NEW found,
           Return(c, Answer(call[c].op, outcome, n, found))
    PROVE  Contract!Answers(c, outcome, n, found)
<1>1. call' = [call EXCEPT ![c] = NoCall]
  BY DEF Return
<1>2. requestBar' = [requestBar EXCEPT ![c] = Contract!Idle]
  <2>1. \A d \in Clients : requestBar'[d] = IF d = c THEN Contract!Idle
                                            ELSE requestBar[d]
    BY <1>1, NoCallIsIdle DEF requestBar, RequestOf, TypeOK
  <2> QED
    BY <2>1 DEF requestBar
<1>3. answer' = [client |-> c, op |-> call[c].op, outcome |-> outcome,
                 n |-> n, found |-> found]
  BY DEF Return, Answer
<1> QED
  BY <1>2, <1>3, RequestIs DEF Contract!Answers

\* A statement that deletes rows forgets their entries.
LEMMA WithoutForgets ==
    ASSUME TypeOK, TableSound, NEW gone, gone \subseteq Rows, NEW t,
           MaxEntries # -1 \/ gone \subseteq Expired(t),
           t \in Int, table' = Without(gone)
    PROVE  Contract!ForgetMore(t)
<1>1. contentBar' = [k \in Keys |-> IF k \in gone THEN NoRow
                                    ELSE contentBar[k]]
  BY DEF contentBar, Without, EntryOf
<1>2. Contract!Present = Rows
  BY ViewsOf
<1>3. CASE MaxEntries # -1
  BY <1>1, <1>2, <1>3 DEF Contract!ForgetMore
<1>4. CASE gone \subseteq Expired(t)
  <2>1. \A k \in gone : k \notin Contract!Visible(t)
    <3>1. \A k \in Rows : table[k].expires \in Int
      BY DEF Rows, TypeOK, Row
    <3> QED
      BY <1>4, <3>1, ViewsOf DEF Expired
  <2> QED
    BY <1>1, <1>2, <2>1 DEF Contract!ForgetMore
<1> QED
  BY <1>3, <1>4

\* The table as it is.
LEMMA NothingForgotten ==
    ASSUME TypeOK, TableSound, table' = table, NEW t \in Int
    PROVE  Contract!ForgetMore(t)
<1>1. table' = Without({})
  BY DEF Without, TypeOK
<1> QED
  BY <1>1, WithoutForgets

LEMMA CallNotIdle ==
    ASSUME CacheInv, NEW c \in Clients, pc[c] # "idle"
    PROVE  requestBar[c] # Contract!Idle
<1>1. call[c].op \in Methods
  BY DEF CacheInv, CallsFit, ArgumentsFit
<1>2. Contract!Idle.op = "none" /\ "none" \notin Methods
  BY DEF Contract!Idle, Methods
<1> QED
  BY <1>1, <1>2, RequestIs

\* A statement within a call that only forgets entries.
LEMMA Forgets ==
    ASSUME CacheInv, NEW c \in Clients, pc[c] # "idle", clock' = clock,
           call' = call, answer' = NoAnswer, NEW t \in Contract!Moments(c),
           Contract!ForgetMore(t)
    PROVE  Contract!Forget
<1>1. requestBar[c] # Contract!Idle
  BY CallNotIdle
<1>2. requestBar' = requestBar
  BY DEF requestBar
<1> QED
  BY <1>1, <1>2, NoAnswerIsSilent DEF Contract!Forget

-----------------------------------------------------------------------------
(* Every step is a step of the contract *)

LEMMA BeginAsks ==
    ASSUME CacheInv, NEW c \in Clients, NEW a \in Call,
           NEW s \in {"execute", "cull_expired"}, Begin(c, a, s), Proper(a, s)
    PROVE  Contract!Ask(c)
<1> DEFINE since == IF a.op \in Timed \cup {"incr", "decr"} THEN Now(c) ELSE 0
           b == [a EXCEPT !.since = since]
<1>1. /\ call' = [call EXCEPT ![c] = b]
      /\ pc[c] = "idle" /\ answer' = NoAnswer
      /\ UNCHANGED <<clock, table>>
  BY DEF Begin
<1>2. b.op = a.op /\ (a.op \in Timed \cup {"incr", "decr"} => b.since = Now(c))
  BY DEF Call, CallRecord
<1> HIDE DEF b
<1>3. requestBar[c] = Contract!Idle
  BY <1>1, RequestIs, NoCallIsIdle DEF CacheInv, CallsFit, ArgumentsFit
<1>4. requestBar' = [requestBar EXCEPT ![c] = RequestOf(b)]
  BY <1>1 DEF requestBar, RequestOf, CacheInv, TypeOK
<1>5. requestBar'[c] = RequestOf(b)
  BY <1>4 DEF requestBar
<1>6. RequestOf(b).op = a.op /\ RequestOf(b).since = b.since
  BY <1>2 DEF RequestOf
<1>7. RequestOf(b) # Contract!Idle
  BY <1>6 DEF Proper, Methods, Contract!Idle
<1>8. contentBar' = contentBar
  BY <1>1 DEF contentBar
<1> QED
  BY <1>1, <1>2, <1>3, <1>4, <1>5, <1>6, <1>7, <1>8, NoAnswerIsSilent
     DEF Contract!Ask, Contract!Timed, Timed, Now

LEMMA RefusesRefuses ==
    ASSUME CacheInv, NEW c \in Clients, Refuses(c)
    PROVE  Contract!Refuse(c)
<1>1. call[c] = NoCall
  BY DEF Refuses, CacheInv, CallsFit, ArgumentsFit
<1>2. call' = call
  BY <1>1 DEF Refuses, Return, CacheInv, TypeOK
<1>3. requestBar[c] = Contract!Idle /\ requestBar' = requestBar
  BY <1>1, <1>2, RequestIs, NoCallIsIdle DEF requestBar
<1>4. contentBar' = contentBar /\ clock' = clock
  BY DEF Refuses, contentBar
<1>5. /\ answer'.client = c /\ answer'.outcome = "TypeError"
      /\ answer'.op \in {"set", "add", "set_many", "touch"}
  BY DEF Refuses, Return, Answered, Answer, Writes
<1> QED
  BY <1>3, <1>4, <1>5 DEF Contract!Refuse

\* When a cull has ended, with the rows of its last statement gone.
LEMMA CullReturnsMaps ==
    ASSUME CacheInv, NEW c \in Clients, pc[c] \in Culling,
           NEW n \in 0..(2 * Cardinality(Keys)), CullReturns(c, n),
           clock' = clock,
           NEW t \in Contract!Moments(c), Contract!ForgetMore(t)
    PROVE  Contract!CullDone(c) \/ Contract!Forget
<1>1. CASE call[c].op = "cull"
  <2>1. Return(c, Answer("cull", "number", n, {}))
    BY <1>1 DEF CullReturns, AnsweredInt
  <2>2. Contract!Answers(c, "number", n, {})
    BY <1>1, <2>1, ReturnAnswers DEF CacheInv
  <2>3. Contract!Asks(c, {"cull"})
    BY <1>1, RequestIs DEF Contract!Asks
  <2>4. n \in 0..(2 * Contract!Cardinality(Keys))
    BY SameCount
  <2> QED
    BY <2>2, <2>3, <2>4 DEF Contract!CullDone
<1>2. CASE call[c].op # "cull"
  <2>1. call' = call /\ answer' = NoAnswer /\ pc[c] # "idle"
    BY <1>2 DEF CullReturns, Culling
  <2> QED
    BY <2>1, Forgets
<1> QED
  BY <1>1, <1>2

LEMMA CullsMap ==
    ASSUME CacheInv, NEW c \in Clients, Culls(c)
    PROVE  Contract!CullDone(c) \/ Contract!Forget \/ Contract!Fail(c)
<1> USE DEF CacheInv
<1>0. /\ ArgumentsFit(c) /\ TimesFit(c)
      /\ Contract!Moments(c) = call[c].since..Now(c)
      /\ call[c].since \in Int /\ now[c] \in Nat /\ Now(c) \in Nat
  BY ViewsOf, NowIsTime DEF CallsFit, TypeOK, Call, CallRecord
<1>1. call[c].since \in Contract!Moments(c) /\ call[c].since \in Int
  BY <1>0 DEF TimesFit
<1>2. /\ \A S \in SUBSET Rows : Cardinality(S) \in 0..Cardinality(Keys)
      /\ Cardinality(Keys) \in Nat
      /\ cull[c].num_deleted \in 0..Cardinality(Keys)
  <2>1. \A S \in SUBSET Rows : Cardinality(S) \in Nat
                               /\ Cardinality(S) <= Cardinality(Keys)
    BY KeysAssumption, FS_Subset, FS_CardinalityType DEF Rows
  <2>2. Cardinality(Keys) \in Nat /\ cull[c].num_deleted \in Nat
    BY RowsFinite DEF TypeOK
  <2> QED
    BY <1>0, <2>1, <2>2 DEF ArgumentsFit
<1>3. CASE CullExpired(c)
  <2> DEFINE gone == Expired(now[c])
  <2>1. now[c] \in Contract!Moments(c)
    BY <1>0, <1>3 DEF CullExpired, TimesFit
  <2>2. gone \subseteq Rows /\ gone \subseteq Expired(now[c])
    BY DEF Expired
  <2>3. /\ pc[c] = "cull_expired" /\ clock' = clock /\ table' = Without(gone)
    BY <1>3 DEF CullExpired
  <2> HIDE DEF gone
  <2>4. Contract!ForgetMore(now[c])
    BY <1>0, <2>2, <2>3, WithoutForgets
  <2>5. CASE MaxEntries = -1
    <3>1. CullReturns(c, 0)
      BY <1>3, <2>5 DEF CullExpired
    <3>2. 0 \in 0..(2 * Cardinality(Keys))
      BY <1>2
    <3> QED
      BY <2>1, <2>3, <2>4, <3>1, <3>2, CullReturnsMaps DEF Culling
  <2>6. CASE MaxEntries # -1
    BY <1>3, <2>1, <2>3, <2>4, <2>6, Forgets DEF CullExpired
  <2> QED
    BY <2>5, <2>6
<1>4. CASE CullCount(c)
  <2>1. /\ pc[c] = "cull_count" /\ clock' = clock /\ table' = table
    BY <1>4 DEF CullCount
  <2>2. Contract!ForgetMore(call[c].since)
    BY <1>1, <2>1, NothingForgotten
  <2>3. CASE ~CullsAt(Cardinality(Rows))
    <3>1. CullReturns(c, cull[c].num_deleted)
      BY <1>4, <2>3 DEF CullCount
    <3>2. cull[c].num_deleted \in 0..(2 * Cardinality(Keys))
      BY <1>2
    <3> QED
      BY <1>1, <2>1, <2>2, <3>1, <3>2, CullReturnsMaps DEF Culling
  <2>4. CASE CullsAt(Cardinality(Rows))
    BY <1>1, <1>4, <2>1, <2>2, <2>4, Forgets DEF CullCount
  <2> QED
    BY <2>3, <2>4
<1>5. ASSUME NEW gone, gone \subseteq Rows, table' = Without(gone),
             pc[c] \in {"cull_all", "cull_below"}, clock' = clock,
             CullReturns(c, cull[c].num_deleted + Cardinality(gone))
      PROVE  Contract!CullDone(c) \/ Contract!Forget
  <2>1. MaxEntries # -1
    BY <1>0, <1>5 DEF ArgumentsFit, Culling
  <2>2. Contract!ForgetMore(call[c].since)
    BY <1>1, <1>5, <2>1, WithoutForgets
  <2>3. cull[c].num_deleted + Cardinality(gone) \in 0..(2 * Cardinality(Keys))
    BY <1>2, <1>5
  <2> QED
    BY <1>1, <1>5, <2>2, <2>3, CullReturnsMaps DEF Culling
<1>6. CASE CullAll(c)
  BY <1>5, <1>6 DEF CullAll
<1>7. CASE CullBelow(c)
  <2> DEFINE gone == {k \in Rows : k < cull[c].max_key}
  <2>1. /\ table' = Without(gone) /\ pc[c] = "cull_below" /\ clock' = clock
        /\ CullReturns(c, cull[c].num_deleted + Cardinality(gone))
    BY <1>7 DEF CullBelow
  <2>2. gone \subseteq Rows
    OBVIOUS
  <2> HIDE DEF gone
  <2> QED
    BY <1>5, <2>1, <2>2
<1>8. CASE CullOffset(c)
  <2> DEFINE found == AtOffset(cull[c].num \div CullFrequency)
  <2>1. /\ pc[c] = "cull_offset" /\ clock' = clock /\ table' = table
    BY <1>8 DEF CullOffset
  <2>2. CASE found = {}
    <3>1. Return(c, Answer(call[c].op, "TypeError", 0, {}))
      BY <1>8, <2>2 DEF CullOffset, Answered
    <3>2. Contract!Answers(c, "TypeError", 0, {})
      BY <2>1, <3>1, ReturnAnswers
    <3>3. call[c].op \in {"set", "add", "set_many", "cull"} /\ MaxEntries # -1
      BY <1>0, <2>1 DEF ArgumentsFit, Culling, Writes
    <3>4. contentBar' = contentBar
      BY <2>1 DEF contentBar
    <3> QED
      BY <3>2, <3>3, <3>4, RequestIs DEF Contract!Fail, Contract!Asks
  <2>3. CASE found # {}
    <3>1. call' = call /\ answer' = NoAnswer
      BY <1>8, <2>3 DEF CullOffset
    <3>2. Contract!ForgetMore(call[c].since)
      BY <1>1, <2>1, NothingForgotten
    <3> QED
      BY <1>1, <2>1, <3>1, <3>2, Forgets
  <2> QED
    BY <2>2, <2>3
<1> QED
  BY <1>3, <1>4, <1>6, <1>7, <1>8 DEF Culls

LEMMA ChangesNothing == table' = table => contentBar' = contentBar
BY DEF contentBar

\* A statement that judges expiry does so at a moment of its call.
LEMMA TimedNow ==
    ASSUME CacheInv, NEW c \in Clients, pc[c] = "execute", call[c].op \in Timed
    PROVE  now[c] \in Contract!Moments(c)
<1>1. /\ call[c].since \in Int /\ now[c] \in Nat /\ Now(c) \in Nat
      /\ Contract!Moments(c) = call[c].since..Now(c)
  BY ViewsOf, NowIsTime DEF CacheInv, TypeOK, Call, CallRecord
<1>2. TimesFit(c)
  BY DEF CacheInv, CallsFit
<1> QED
  BY <1>1, <1>2 DEF TimesFit

\* A boolean answer.
LEMMA ReturnSays ==
    ASSUME TypeOK, NEW c \in Clients, clock' = clock, NEW b,
           Return(c, AnsweredBool(call[c].op, b))
    PROVE  Contract!Says(c, b)
<1>1. Return(c, Answer(call[c].op, IF b THEN "True" ELSE "False", 0, {}))
  BY DEF AnsweredBool, Answered
<1> QED
  BY <1>1, ReturnAnswers DEF Contract!Says

LEMMA RejectedFails ==
    ASSUME CacheInv, NEW c \in Clients, ExecRejected(c)
    PROVE  Contract!Fail(c)
<1>1. /\ Return(c, Answer(call[c].op, "ProgrammingError", 0, {}))
      /\ call[c].op \in {"get_many", "set_many", "delete_many"}
      /\ call[c].keys = {} /\ clock' = clock /\ contentBar' = contentBar
  BY ChangesNothing DEF ExecRejected, Rejects, Executes, Answered
<1>2. Contract!Answers(c, "ProgrammingError", 0, {})
  BY <1>1, ReturnAnswers DEF CacheInv
<1> QED
  BY <1>1, <1>2, RequestIs
     DEF Contract!Fail, Contract!Refused, Contract!Batch, Contract!Asks

\* Another call has keys, or is not of those that need them.
LEMMA NotRefused ==
    ASSUME NEW c \in Clients,
           \/ call[c].op \notin {"get_many", "set_many", "delete_many"}
           \/ call[c].keys # {}
    PROVE  ~Contract!Refused(c)
BY RequestIs DEF Contract!Refused, Contract!Batch, Contract!Asks

LEMMA SetStores ==
    ASSUME CacheInv, NEW c \in Clients, ExecSet(c)
    PROVE  Contract!Store(c)
<1> DEFINE a == call[c]
<1>1. /\ a.op \in {"set", "set_many"} /\ a.keys # {} /\ clock' = clock
      /\ table' = [k \in Keys |-> IF k \in a.keys THEN a.values[k]
                                                  ELSE table[k]]
      /\ Return(c, AnsweredBool(a.op, TRUE))
  BY DEF ExecSet, Executes, AnsweredBool
<1>2. Contract!Says(c, TRUE)
  BY <1>1, ReturnSays DEF CacheInv
<1>3. contentBar' = [k \in Keys |-> IF k \in a.keys THEN EntryOf(a.values[k])
                                                    ELSE contentBar[k]]
  BY <1>1 DEF contentBar, EntryOf
<1>4. Contract!Change(c, requestBar[c].keys, {})
  BY <1>3, RequestIs DEF Contract!Change
<1> QED
  BY <1>1, <1>2, <1>4, RequestIs, NotRefused DEF Contract!Store, Contract!Asks

LEMMA AddStoresIfAbsent ==
    ASSUME CacheInv, NEW c \in Clients, ExecAdd(c)
    PROVE  Contract!StoreIfAbsent(c)
<1> USE DEF CacheInv
<1> DEFINE a == call[c]
           t == now[c]
           free == a.keys \ Contract!Held(t)
<1>1. pc[c] = "execute" /\ a.op = "add" /\ clock' = clock /\ t \in Nat
  BY DEF ExecAdd, Executes, TypeOK
<1>2. PICK k \in Keys : a.keys = {k}
  BY <1>1 DEF CallsFit, ArgumentsFit, OneKeyed
<1> DEFINE new == a.values[k]
<1>3. new \in Row
  BY <1>1, <1>2 DEF TypeOK, Call, CallRecord, Writes
<1>4. t \in Contract!Moments(c)
  BY <1>1, TimedNow DEF Timed
<1>5. /\ IF table[k] = NoRow
         THEN /\ table' = [table EXCEPT ![k] = new]
              /\ Return(c, AnsweredBool(a.op, TRUE))
         ELSE /\ table' = [table EXCEPT
                             ![k] = UpdateIfExpired(table[k], new, t)]
              /\ Return(c, AnsweredBool(a.op, ~(table[k].expires > t)))
  BY <1>1, <1>2 DEF ExecAdd, Says444
<1>6. Contract!Held(t) = {j \in Rows : table[j].expires > t}
  BY ViewsOf
<1>7. CASE table[k] # NoRow /\ table[k].expires > t
  <2>1. free = {}
    BY <1>2, <1>6, <1>7 DEF Rows
  <2>2. table' = table
    <3>1. table[k] \in Row
      BY <1>7 DEF TypeOK
    <3>2. UpdateIfExpired(table[k], new, t) = table[k]
      BY <1>1, <1>3, <1>7, <3>1, UpdateIsOneOfBoth
    <3> HIDE DEF t, new
    <3> QED
      BY <1>5, <1>7, <3>2 DEF TypeOK
  <2>3. Contract!Says(c, free # {})
    <3>1. Return(c, AnsweredBool(a.op, FALSE))
      BY <1>5, <1>7
    <3> QED
      BY <1>1, <2>1, <3>1, ReturnSays
  <2>4. Contract!Change(c, free, {})
    BY <2>1, <2>2, ChangesNothing DEF Contract!Change, contentBar
  <2> QED
    BY <1>1, <1>4, <2>3, <2>4, RequestIs
       DEF Contract!StoreIfAbsent, Contract!Asks
<1>8. CASE ~(table[k] # NoRow /\ table[k].expires > t)
  <2>1. free = {k}
    BY <1>2, <1>6, <1>8 DEF Rows
  <2>2. table' = [table EXCEPT ![k] = new]
    <3>1. CASE table[k] = NoRow
      BY <1>5, <3>1
    <3>2. CASE table[k] # NoRow
      <4>1. table[k] \in Row
        BY <3>2 DEF TypeOK
      <4>2. UpdateIfExpired(table[k], new, t) = new
        BY <1>1, <1>3, <1>8, <3>2, <4>1, UpdateIsOneOfBoth
      <4> HIDE DEF t, new
      <4> QED
        BY <1>5, <3>2, <4>2
    <3> QED
      BY <3>1, <3>2
  <2>3. Contract!Says(c, free # {})
    <3>1. Return(c, AnsweredBool(a.op, TRUE))
      BY <1>5, <1>8
    <3> QED
      BY <1>1, <2>1, <3>1, ReturnSays
  <2>4. Contract!Change(c, free, {})
    <3>1. contentBar' = [j \in Keys |-> IF j \in {k} THEN EntryOf(a.values[j])
                                                     ELSE contentBar[j]]
      BY <2>2 DEF contentBar, TypeOK
    <3> HIDE DEF free
    <3> QED
      BY <2>1, <3>1, RequestIs DEF Contract!Change
  <2> QED
    BY <1>1, <1>4, <2>3, <2>4, RequestIs
       DEF Contract!StoreIfAbsent, Contract!Asks
<1> QED
  BY <1>7, <1>8

LEMMA GetRetrieves ==
    ASSUME CacheInv, NEW c \in Clients, ExecGet(c)
    PROVE  Contract!Retrieve(c)
<1> USE DEF CacheInv
<1> DEFINE a == call[c]
           t == now[c]
           S == {k \in a.keys \cap Rows : table[k].expires >= t}
<1>1. /\ pc[c] = "execute" /\ clock' = clock /\ contentBar' = contentBar
      /\ a.op \in {"get", "get_many", "get_with_prefix", "keys_with_prefix"}
      /\ a.op = "get_many" => a.keys # {}
      /\ Return(c, Selected(a.op, S))
  BY ChangesNothing DEF ExecGet, Executes
<1>2. t \in Contract!Moments(c)
  BY <1>1, TimedNow DEF Timed
<1>3. S = a.keys \cap Contract!Visible(t)
  BY ViewsOf
<1>4. ASSUME NEW k \in S
      PROVE  Readable(table[k]) /\ contentBar[k].obj = Decode(table[k])
  <2>1. Sound(table[k])
        /\ contentBar[k] = [obj |-> table[k].value.obj,
                            expires |-> table[k].expires]
    BY ContentOf DEF Rows
  <2> QED
    BY <2>1 DEF Sound, Decode
<1> HIDE DEF S
<1>5. {<<k, Decode(table[k])>> : k \in S} = {<<k, contentBar[k].obj>> : k \in S}
  BY <1>4
<1>6. Return(c, Answer(a.op, "rows", 0, {<<k, contentBar[k].obj>> : k \in S}))
  BY <1>1, <1>4, <1>5 DEF Selected
<1>7. Contract!Answers(c, "rows", 0, {<<k, contentBar[k].obj>> : k \in S})
  BY <1>1, <1>6, ReturnAnswers
<1> QED
  BY <1>1, <1>2, <1>3, <1>7, RequestIs, NotRefused
     DEF Contract!Retrieve, Contract!Asks

LEMMA HasKeyTests ==
    ASSUME CacheInv, NEW c \in Clients, ExecHasKey(c)
    PROVE  Contract!Test(c)
<1> USE DEF CacheInv
<1> DEFINE a == call[c]
           t == now[c]
<1>1. /\ pc[c] = "execute" /\ a.op = "has_key"
      /\ clock' = clock /\ contentBar' = contentBar
      /\ Return(c, AnsweredBool(a.op, \E k \in a.keys \cap Rows :
                                            table[k].expires > t))
  BY ChangesNothing DEF ExecHasKey, Executes
<1>2. t \in Contract!Moments(c)
  BY <1>1, TimedNow DEF Timed
<1>3. (\E k \in a.keys \cap Rows : table[k].expires > t)
            <=> a.keys \cap Contract!Held(t) # {}
  BY ViewsOf
<1>4. Contract!Says(c, a.keys \cap Contract!Held(t) # {})
  <2>1. AnsweredBool(a.op, \E k \in a.keys \cap Rows : table[k].expires > t)
            = AnsweredBool(a.op, a.keys \cap Contract!Held(t) # {})
    BY <1>3 DEF AnsweredBool
  <2> QED
    BY <1>1, <2>1, ReturnSays
<1> QED
  BY <1>1, <1>2, <1>4, RequestIs DEF Contract!Test, Contract!Asks

LEMMA DeleteRemoves ==
    ASSUME CacheInv, NEW c \in Clients, ExecDelete(c)
    PROVE  Contract!Remove(c)
<1> USE DEF CacheInv
<1> DEFINE a == call[c]
           gone == a.keys \cap Rows
<1>1. /\ a.op \in {"delete", "delete_many", "delete_with_prefix"}
      /\ a.op = "delete_many" => a.keys # {}
      /\ clock' = clock /\ table' = Without(a.keys)
      /\ Return(c, CASE a.op = "delete" -> AnsweredBool(a.op, gone # {})
                     [] a.op = "delete_with_prefix" ->
                            AnsweredInt(a.op, Cardinality(gone))
                     [] a.op = "delete_many" -> Answered(a.op, "None"))
  BY DEF ExecDelete, Executes
<1>2. Contract!Change(c, {}, requestBar[c].keys)
  <2>1. contentBar' = [k \in Keys |-> IF k \in a.keys THEN NoRow
                                      ELSE contentBar[k]]
    BY <1>1 DEF contentBar, Without, EntryOf
  <2> QED
    BY <2>1, RequestIs DEF Contract!Change
<1>3. requestBar[c].keys \cap Contract!Present = gone
  BY ViewsOf, RequestIs
<1> HIDE DEF gone
<1>4. CASE a.op = "delete"
  <2>1. Contract!Says(c, gone # {})
    BY <1>1, <1>4, ReturnSays
  <2> QED
    BY <1>2, <1>3, <1>4, <2>1, RequestIs, NotRefused
       DEF Contract!Remove, Contract!Asks
<1>5. CASE a.op = "delete_with_prefix"
  <2>1. Return(c, Answer(a.op, "number", Cardinality(gone), {}))
    BY <1>1, <1>5 DEF AnsweredInt
  <2>2. Contract!Answers(c, "number", Contract!Cardinality(gone), {})
    BY <1>1, <2>1, ReturnAnswers, SameCount
  <2> QED
    BY <1>2, <1>3, <1>5, <2>2, RequestIs, NotRefused
       DEF Contract!Remove, Contract!Asks
<1>6. CASE a.op = "delete_many"
  <2>1. Return(c, Answer(a.op, "None", 0, {}))
    BY <1>1, <1>6 DEF Answered
  <2>2. Contract!Answers(c, "None", 0, {})
    BY <1>1, <2>1, ReturnAnswers
  <2> QED
    BY <1>1, <1>2, <1>6, <2>2, RequestIs, NotRefused
       DEF Contract!Remove, Contract!Asks
<1> QED
  BY <1>1, <1>4, <1>5, <1>6

LEMMA ClearRemovesAll ==
    ASSUME CacheInv, NEW c \in Clients, ExecClear(c)
    PROVE  Contract!RemoveAll(c)
<1>1. /\ call[c].op = "clear" /\ clock' = clock /\ table' = Without(Rows)
      /\ Return(c, Answer(call[c].op, "None", 0, {}))
  BY DEF ExecClear, Executes, Answered
<1>2. Contract!Answers(c, "None", 0, {})
  BY <1>1, ReturnAnswers DEF CacheInv
<1>3. contentBar' = [k \in Keys |-> NoRow]
  BY <1>1 DEF contentBar, Without, EntryOf, Rows
<1> QED
  BY <1>1, <1>2, <1>3, RequestIs DEF Contract!RemoveAll, Contract!Asks

LEMMA TouchExtends ==
    ASSUME CacheInv, NEW c \in Clients, ExecTouch(c)
    PROVE  Contract!Extend(c)
<1> USE DEF CacheInv
<1> DEFINE a == call[c]
           t == now[c]
           live == {k \in a.keys \cap Rows : table[k].expires >= t}
<1>1. /\ pc[c] = "execute" /\ a.op = "touch" /\ clock' = clock
      /\ table' = [k \in Keys |-> IF k \in live
                                  THEN [table[k] EXCEPT !.expires = a.exp]
                                  ELSE table[k]]
      /\ Return(c, AnsweredBool(a.op, live # {}))
  BY DEF ExecTouch, Executes
<1>2. t \in Contract!Moments(c)
  BY <1>1, TimedNow DEF Timed
<1>3. live = requestBar[c].keys \cap Contract!Visible(t)
  BY ViewsOf, RequestIs
<1>4. Contract!Says(c, live # {})
  BY <1>1, ReturnSays
<1>5. live \subseteq Rows
  OBVIOUS
<1> HIDE DEF live
<1>6. ASSUME NEW k \in Keys
      PROVE  contentBar'[k] = IF k \in live
                              THEN [contentBar[k] EXCEPT
                                        !.expires = requestBar[c].exp]
                              ELSE contentBar[k]
  <2>1. contentBar'[k] = EntryOf(table'[k])
    BY DEF contentBar, EntryOf, Decode, Readable
  <2>2. CASE k \in live
    <3> DEFINE row == [table[k] EXCEPT !.expires = a.exp]
    <3>1. /\ table[k] \in Row /\ Sound(table[k])
          /\ contentBar[k] = [obj |-> table[k].value.obj,
                              expires |-> table[k].expires]
      BY <1>5, <2>2, ContentOf
    <3>2. a.exp \in Int /\ requestBar[c].exp = a.exp
      BY RequestIs DEF TypeOK, Call, CallRecord
    <3>3. row \in Row /\ Sound(row)
      BY <3>1, <3>2 DEF Row, Sound, Readable
    <3>4. row.value = table[k].value /\ row.expires = a.exp
      BY <3>1 DEF Row
    <3> HIDE DEF row
    <3>5. EntryOf(row) = [obj |-> table[k].value.obj, expires |-> a.exp]
      BY <3>3, <3>4, EntryOfRow
    <3>6. table'[k] = row
      BY <1>1, <2>2 DEF row
    <3> QED
      BY <2>1, <2>2, <3>1, <3>2, <3>5, <3>6
  <2>3. CASE k \notin live
    BY <1>1, <2>1, <2>3 DEF contentBar
  <2> QED
    BY <2>2, <2>3
<1>7. contentBar' = [k \in Keys |-> IF k \in live
                                    THEN [contentBar[k] EXCEPT
                                            !.expires = requestBar[c].exp]
                                    ELSE contentBar[k]]
  <2>1. contentBar' = [k \in Keys |-> contentBar'[k]]
    BY DEF contentBar
  <2> QED
    BY <1>6, <2>1
<1> QED
  BY <1>1, <1>2, <1>3, <1>4, <1>7, RequestIs
     DEF Contract!Extend, Contract!Asks

LEMMA DeltaAdjusts ==
    ASSUME CacheInv, NEW c \in Clients, ExecDelta(c)
    PROVE  Contract!Adjust(c) \/ Contract!Fail(c)
<1> USE DEF CacheInv
<1> DEFINE a == call[c]
<1>1. a.op \in {"incr", "decr"} /\ clock' = clock
  BY DEF ExecDelta, Executes
<1>2. PICK k \in Keys : a.keys = {k}
  BY <1>1 DEF CallsFit, ArgumentsFit, OneKeyed
<1> DEFINE old == table[k].value.obj
           n == old.n + a.delta
<1>3. IF table[k] = NoRow \/ table[k].value_type # "i"
      THEN /\ Return(c, Answered(a.op, "ValueError"))
           /\ UNCHANGED table
      ELSE IF Fits(n)
           THEN /\ table' = [table EXCEPT ![k].value =
                                [form |-> "decimal", obj |-> Integer(n)]]
                /\ Return(c, AnsweredInt(a.op, Unsigned(n)))
           ELSE /\ Return(c, Answered(a.op, "IntegrityError"))
                /\ UNCHANGED table
  BY <1>2 DEF ExecDelta
<1>4. \A t : Contract!Counters(c, t) =
               {j \in {k} \cap Rows : /\ contentBar[j].obj.kind = "int"
                                    /\ contentBar[j].obj.n \in IntMin..IntMax}
  BY <1>2, ViewsOf, RequestIs DEF Contract!Counters
<1>5. /\ Contract!Asks(c, {"incr", "decr"}) /\ requestBar[c].delta = a.delta
      /\ a.since \in Contract!Moments(c)
  <2>1. a.since \in Int /\ Now(c) \in Nat /\ a.since <= Now(c)
    BY NowIsTime DEF CallsFit, TimesFit, TypeOK, Call, CallRecord
  <2>2. Contract!Moments(c) = a.since..Now(c)
    BY ViewsOf
  <2>3. a.since \in Contract!Moments(c)
    <3> HIDE DEF a
    <3> QED
      BY <2>1, <2>2
  <2> QED
    BY <1>1, <2>3, RequestIs DEF Contract!Asks
<1>6. CASE table[k] = NoRow \/ table[k].value_type # "i"
  <2>1. Return(c, Answer(a.op, "ValueError", 0, {})) /\ table' = table
    BY <1>3, <1>6 DEF Answered
  <2>2. Contract!Answers(c, "ValueError", 0, {}) /\ contentBar' = contentBar
    BY <1>1, <2>1, ReturnAnswers, ChangesNothing
  <2>3. ASSUME k \in Rows
        PROVE  \/ contentBar[k].obj.kind # "int"
               \/ contentBar[k].obj.n \notin IntMin..IntMax
    <3>1. /\ Sound(table[k])
          /\ contentBar[k] = [obj |-> old, expires |-> table[k].expires]
      BY <2>3, ContentOf
    <3>2. contentBar[k].obj = old
      BY <3>1
    <3> QED
      BY <1>6, <2>3, <3>1, <3>2 DEF Sound, Fits, Rows
  <2>4. Contract!Counters(c, a.since) = {}
    BY <1>4, <2>3
  <2> QED
    BY <1>5, <2>2, <2>4 DEF Contract!Fail
<1>7. CASE ~(table[k] = NoRow \/ table[k].value_type # "i")
  <2>1. /\ table[k] \in Row /\ Sound(table[k]) /\ k \in Rows
        /\ contentBar[k] = [obj |-> old, expires |-> table[k].expires]
    BY <1>7, ContentOf DEF Rows
  <2>2. old.kind = "int" /\ Fits(old.n)
    BY <1>7, <2>1 DEF Sound
  <2>3. old \in [kind : {"int", "small", "large"}, n : Int]
    BY <2>1, ObjectsAssumption, IntegersAssumption
       DEF Row, Object, Integer
  <2>4. n \in Int
    BY <2>3, <1>1 DEF TypeOK, Call, CallRecord
  <2>5. contentBar[k].obj = old
    BY <2>1
  <2>6. CASE Fits(n)
    <3> DEFINE value == [form |-> "decimal", obj |-> Integer(n)]
               row == [table[k] EXCEPT !.value = value]
    <3>1. table' = [table EXCEPT ![k] = row]
      BY <1>3, <1>7, <2>6
    <3>2. value \in [form : Forms, obj : Object]
      BY <2>6, IntegerIsObject DEF Forms, Fits
    <3>3. row \in Row /\ Sound(row)
      <4>1. row.value = value /\ row.value_type = "i"
            /\ row.expires = table[k].expires
        BY <1>7, <2>1 DEF Row
      <4>2. row \in Row
        BY <2>1, <3>2 DEF Row
      <4>3. value.form = "decimal" /\ value.obj.kind = "int"
            /\ Fits(value.obj.n)
        BY <2>6 DEF Integer
      <4> HIDE DEF row, value
      <4> QED
        BY <4>1, <4>2, <4>3 DEF Sound, Readable
    <3>4. row.value.obj = Integer(n) /\ row.expires = table[k].expires
      BY <2>1 DEF Row
    <3>5. EntryOf(row) = [obj |-> Integer(n), expires |-> table[k].expires]
      <4> HIDE DEF row
      <4> QED
        BY <3>3, <3>4, EntryOfRow
    <3>6. [old EXCEPT !.n = n] = Integer(n)
      BY <2>2, <2>3 DEF Integer
    <3>7. [contentBar EXCEPT ![k].obj.n = n]
            = [contentBar EXCEPT ![k] = EntryOf(row)]
      <4>1. [contentBar[k] EXCEPT !.obj.n = n] = EntryOf(row)
        <5> HIDE DEF row, n, old
        <5> QED
          BY <2>1, <3>5, <3>6
      <4> QED
        BY <4>1
    <3>8. contentBar' = [contentBar EXCEPT ![k].obj.n = n]
      <4>1. contentBar' = [j \in Keys |-> EntryOf(table'[j])]
        BY DEF contentBar, EntryOf, Decode, Readable
      <4>2. contentBar' = [contentBar EXCEPT ![k] = EntryOf(row)]
        <5> HIDE DEF row
        <5> QED
          BY <3>1, <4>1 DEF TypeOK, contentBar
      <4> QED
        BY <3>7, <4>2
    <3>9. Unsigned(n) = Contract!Told(n)
      BY <2>4, <2>6, IntegersAssumption DEF Unsigned, Fits, Contract!Told
    <3>10. Contract!Answers(c, "number", Unsigned(n), {})
      <4>1. Return(c, Answer(a.op, "number", Unsigned(n), {}))
        BY <1>3, <1>7, <2>6 DEF AnsweredInt
      <4> QED
        BY <1>1, <4>1, ReturnAnswers
    <3>11. k \in Contract!Counters(c, a.since)
      <4> HIDE DEF old
      <4> QED
        BY <1>4, <2>1, <2>2, <2>5 DEF Fits
    <3> QED
      <4> HIDE DEF n, row, value
      <4>1. n = Contract!Counted(c, k)
        BY <1>5, <2>5 DEF n, Contract!Counted
      <4>2. n \in IntMin..IntMax
        BY <2>6 DEF Fits
      <4> HIDE DEF old
      <4> QED
        BY <1>5, <3>8, <3>9, <3>10, <3>11, <4>1, <4>2 DEF Contract!Adjust
  <2>7. CASE ~Fits(n)
    <3>1. Return(c, Answer(a.op, "IntegrityError", 0, {})) /\ table' = table
      BY <1>3, <1>7, <2>7 DEF Answered
    <3>2. Contract!Answers(c, "IntegrityError", 0, {})
          /\ contentBar' = contentBar
      BY <1>1, <3>1, ReturnAnswers, ChangesNothing
    <3>3. Contract!Counted(c, k) \notin IntMin..IntMax
      BY <1>5, <2>5, <2>7 DEF Fits, Contract!Counted
    <3>4. k \in Contract!Counters(c, a.since)
      <4> HIDE DEF old
      <4> QED
        BY <1>4, <2>1, <2>2, <2>5 DEF Fits
    <3> QED
      BY <1>5, <3>2, <3>3, <3>4 DEF Contract!Fail
  <2> QED
    BY <2>6, <2>7
<1> QED
  BY <1>6, <1>7

LEMMA ExecutionsMap ==
    ASSUME CacheInv, NEW c \in Clients, Executions(c)
    PROVE  Contract!Reply(c)
BY RejectedFails, SetStores, AddStoresIfAbsent, GetRetrieves, HasKeyTests,
   DeleteRemoves, DeltaAdjusts, ClearRemovesAll, TouchExtends
   DEF Executions, Contract!Reply

LEMMA StepMaps == CacheInv /\ [Next]_vars => [Contract!Next]_(Contract!contents)
<1> SUFFICES ASSUME CacheInv, [Next]_vars
             PROVE  Contract!Next \/ UNCHANGED Contract!contents
  BY DEF Contract!contents
<1>1. CASE Tick
  <2>1. contentBar' = contentBar /\ requestBar' = requestBar
    BY <1>1 DEF Tick, contentBar, requestBar
  <2> QED
    BY <1>1, <2>1, NoAnswerIsSilent DEF Tick, Contract!Tick, Contract!Next
<1>2. ASSUME NEW c \in Clients, Calls(c)
      PROVE  Contract!Next
  <2>1. CASE Begins(c)
    BY <2>1, BeginAsks DEF Begins, Contract!Next
  <2>2. CASE Refuses(c)
    BY <2>2, RefusesRefuses DEF Contract!Next
  <2> QED
    BY <1>2, <2>1, <2>2, CallsBegin DEF CacheInv
<1>3. ASSUME NEW c \in Clients, Culls(c)
      PROVE  Contract!Next
  BY <1>3, CullsMap DEF Contract!Next, Contract!Reply
<1>4. ASSUME NEW c \in Clients, Executions(c)
      PROVE  Contract!Next
  BY <1>4, ExecutionsMap DEF Contract!Next
<1>5. CASE UNCHANGED vars
  <2>1. contentBar' = contentBar /\ requestBar' = requestBar
    BY <1>5 DEF vars, contentBar, requestBar
  <2> QED
    BY <1>5, <2>1 DEF vars, Contract!contents
<1> QED
  BY <1>1, <1>2, <1>3, <1>4, <1>5 DEF Next, Steps

\* The backend implements the contract of a shared cache, for any number of
\* clients with clocks that differ, any keys, objects, timeouts and options:
\* each call acts at one instant of its run on what its key held then, and
\* culls, concurrent ones too, only ever forget entries.
THEOREM BackendImplementsContract == Spec => ImplementsContract
<1>1. Init => Contract!Init
  <2> SUFFICES ASSUME Init
               PROVE  Contract!Init
    OBVIOUS
  <2>1. contentBar = [k \in Keys |-> NoRow]
    BY DEF Init, contentBar, EntryOf, NoValues
  <2>2. requestBar = [c \in Clients |-> Contract!Idle]
    BY NoCallIsIdle DEF Init, requestBar
  <2> QED
    BY <2>1, <2>2, NoAnswerIsSilent DEF Init, Contract!Init
<1>2. Spec => []CacheInv
  BY TypeCorrect, AlwaysSound, AlwaysFit, PTL DEF CacheInv
<1> QED
  BY <1>1, <1>2, StepMaps, PTL DEF Spec, ImplementsContract, Contract!Spec

=============================================================================
