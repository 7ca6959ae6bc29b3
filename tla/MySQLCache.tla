----------------------------- MODULE MySQLCache -----------------------------
(***************************************************************************)
(* The cache backend django_mysql.cache.MySQLCache: application processes  *)
(* ("clients") that share one cache table on one MySQL server.             *)
(*                                                                         *)
(* A call runs in the client's thread.  It computes the expiry, perhaps    *)
(* culls (up to four SQL statements), reads its own clock and sends one    *)
(* final statement.  Connections are in autocommit mode, so each statement *)
(* is atomic and two clients interleave between statements only; whatever  *)
(* a client read before a statement may be stale when the statement runs.  *)
(*                                                                         *)
(* A made key (prefix, version and user key) is abstracted to its position *)
(* in the collation of cache_key.  Time counts ticks of the smallest       *)
(* interval that matters; the unit of the code is the millisecond.         *)
(***************************************************************************)
EXTENDS Integers, FiniteSets

CONSTANTS
    Clients,         \* application processes
    Keys,            \* made keys, as positions in the collation
    Objects,         \* the objects callers store: [kind, n], see Encode
    Batches,         \* sets of keys the *_many methods are called with
    Patterns,        \* sets of keys that the prefix% of a call matches
    Timeouts,        \* timeout arguments, among them None and Default
    Deltas,          \* arguments of incr and decr
    Ops,             \* per client: the methods it calls
    None,            \* timeout=None
    Default,         \* django.core.cache.backends.base.DEFAULT_TIMEOUT
    NoRow,           \* the absence of a row
    DefaultTimeout,  \* TIMEOUT of the cache's settings: a number or None
    MaxEntries,      \* MAX_ENTRIES, or -1
    CullFrequency,   \* CULL_FREQUENCY
    CullChance,      \* CULL_PROBABILITY: "never", "sometimes" or "always"
    Compress,        \* per client: is COMPRESS_MIN_LENGTH non-zero?
    Skew,            \* per client: how far time() runs ahead of the slowest
    Forever,         \* FOREVER_TIMEOUT
    IntMin, IntMax,  \* the range of a SIGNED BIGINT
    MaxTime          \* bound of the model: the clock stops there

ASSUME ClocksAssumption ==
    /\ Skew \in [Clients -> Nat]
    /\ MaxTime \in Nat /\ Forever \in Nat
    /\ \A c \in Clients : Forever > MaxTime + Skew[c]
ASSUME IntegersAssumption ==
    /\ IntMin \in Int /\ IntMax \in Nat /\ IntMin <= IntMax
    /\ Deltas \subseteq Int
ASSUME KeysAssumption ==
    /\ Keys \subseteq Int /\ IsFiniteSet(Keys)
    /\ Batches \subseteq SUBSET Keys
    /\ Patterns \subseteq SUBSET Keys
ASSUME ObjectsAssumption ==
    Objects \subseteq [kind : {"int", "small", "large"}, n : Int]
ASSUME TimeoutsAssumption ==
    /\ Timeouts \subseteq Nat \cup {None, Default}
    /\ None \notin Nat /\ Default \notin Nat /\ None # Default
    /\ DefaultTimeout \in Nat \cup {None}
Methods == {"set", "add", "set_many", "touch", "get", "has_key", "delete",
            "get_many", "delete_many", "keys_with_prefix", "get_with_prefix",
            "delete_with_prefix", "incr", "decr", "clear", "cull"}

ASSUME WorkloadAssumption == Ops \in [Clients -> SUBSET Methods]
ASSUME OptionsAssumption ==
    /\ MaxEntries \in Nat \cup {-1}
    /\ CullFrequency \in Nat
    /\ CullChance \in {"never", "sometimes", "always"}
    /\ Compress \in [Clients -> BOOLEAN]

VARIABLES
    clock,   \* time on the slowest server
    table,   \* the cache table: a row or NoRow for each key
    pc,      \* per client: the statement it is about to send
    call,    \* per client: the arguments of the running call
    now,     \* per client: the result of its latest _now()
    cull,    \* per client: the locals of cull()
    answer   \* what the latest step answered, if it ended a call

vars == <<clock, table, pc, call, now, cull, answer>>

-----------------------------------------------------------------------------
(* Rows, and the objects they hold *)

Integer(n) == [kind |-> "int", n |-> n]
Object == Objects \cup {Integer(n) : n \in IntMin..IntMax}

\* A blob is the object it was made from and how it was made.
Forms == {"decimal", "pickle", "zlib"}
Row == [value : [form : Forms, obj : Object],
        value_type : {"i", "p", "z"},
        expires : Int]

ASSUME NoRowAssumption == NoRow \notin Row

\* The integers that a SIGNED BIGINT holds.
FitsOrOneMore(n) == n \in IntMin..(IntMax + 1)  \* mutant: off by one
Fits(n) == n \in IntMin..IntMax

\* encode() with the row's expiry beside it.  Integers outside of BIGINT are
\* pickled; "large" objects pickle to COMPRESS_MIN_LENGTH bytes or more.
Encode(c, o, exp) ==
    LET row(form, type) == [value |-> [form |-> form, obj |-> o],
                            value_type |-> type, expires |-> exp]
    IN  IF o.kind = "int" /\ Fits(o.n) THEN row("decimal", "i")
        ELSE IF o.kind = "large" /\ Compress[c] THEN row("zlib", "z")
        ELSE row("pickle", "p")

\* decode() undoes what value_type names; on another blob it raises.
Readable(row) ==
    row.value.form = CASE row.value_type = "i" -> "decimal"
                       [] row.value_type = "p" -> "pickle"
                       [] row.value_type = "z" -> "zlib"

Decode(row) == IF Readable(row) THEN row.value.obj ELSE NoRow

Rows == {k \in Keys : table[k] # NoRow}
Without(S) == [k \in Keys |-> IF k \in S THEN NoRow ELSE table[k]]

-----------------------------------------------------------------------------
(* Time *)

Now(c) == clock + Skew[c]

\* get_backend_timeout() raises a TypeError for TIMEOUT = None.
HasExpiry(t) == ~(t = Default /\ DefaultTimeout = None)

\* A timeout of 0 becomes -1 in Django, before any unit conversion.
Expiry(c, t) ==
    CASE t = None    -> Forever
      [] t = Default -> Now(c) + DefaultTimeout
      [] t = 0       -> Now(c) - 1
      [] OTHER       -> Now(c) + t

-----------------------------------------------------------------------------
(* Calls: how they start and how they return *)

NoValues == [k \in Keys |-> NoRow]
Arguments(op, S, values, exp, delta) ==
    [op |-> op, keys |-> S, values |-> values, exp |-> exp, delta |-> delta,
     since |-> 0]
Plain(op, S) == Arguments(op, S, NoValues, 0, 0)
NoCall == Plain("none", {})
NoCull == [num_deleted |-> 0, num |-> 0, max_key |-> 0]
Answer(op, outcome, n, found) ==
    [client |-> None, op |-> op, outcome |-> outcome, n |-> n, found |-> found]
NoAnswer == Answer("none", "none", 0, {})
Answered(op, outcome) == Answer(op, outcome, 0, {})
AnsweredBool(op, b) == Answered(op, IF b THEN "True" ELSE "False")
AnsweredInt(op, n) == Answer(op, "number", n, {})

\* What a SELECT that finds the rows S makes the call return.
Selected(op, S) ==
    IF \A k \in S : Readable(table[k])
    THEN Answer(op, "rows", 0, {<<k, Decode(table[k])>> : k \in S})
    ELSE Answered(op, "undecodable")

Return(c, ans) ==
    /\ pc' = [pc EXCEPT ![c] = "idle"]
    /\ call' = [call EXCEPT ![c] = NoCall]
    /\ now' = [now EXCEPT ![c] = 0]
    /\ cull' = [cull EXCEPT ![c] = NoCull]
    /\ answer' = [ans EXCEPT !.client = c]

\* The calls whose own statement compares expires with _now().
Timed == {"add", "get", "get_many", "get_with_prefix", "keys_with_prefix",
          "has_key", "touch"}

\* Send statement s of a call of op next; _now(), where it is one of the
\* parameters, is evaluated here, before the statement runs.
Send(c, op, s) ==
    /\ pc' = [pc EXCEPT ![c] = s]
    /\ now' = [now EXCEPT ![c] = IF op \in Timed \/ s = "cull_expired"
                                 THEN Now(c) ELSE 0]

\* A call begins: nothing but the caller's own locals changes.  since is a
\* history field, the caller's time when a call began that depends on, or
\* might be expected to depend on, the expiry of a row.
Begin(c, args, s) ==
    /\ pc[c] = "idle"
    /\ args.op \in Ops[c]
    /\ call' = [call EXCEPT ![c] = [args EXCEPT
                                    !.since = IF args.op \in
                                                    Timed \cup {"incr", "decr"}
                                              THEN Now(c) ELSE 0]]
    /\ answer' = NoAnswer
    /\ Send(c, args.op, s)
    /\ UNCHANGED <<clock, table, cull>>

\* _maybe_cull(): a write call may have to cull before its statement.
MaybeCull ==
    (IF CullChance = "always" THEN {} ELSE {"execute"})
        \cup (IF CullChance = "never" THEN {} ELSE {"cull_expired"})

\* A write call whose expiry cannot be computed raises at once.
BeginWrite(c, op, S, obj, t) ==
    IF HasExpiry(t)
    THEN LET exp == Expiry(c, t)
             rows == [k \in Keys |->
                        IF k \in S THEN Encode(c, obj[k], exp) ELSE NoRow]
         IN  \E s \in MaybeCull : Begin(c, Arguments(op, S, rows, 0, 0), s)
    ELSE /\ pc[c] = "idle" /\ op \in Ops[c]
         /\ Return(c, Answered(op, "TypeError"))
         /\ UNCHANGED <<clock, table>>

Set(c) == \E k \in Keys, o \in Objects, t \in Timeouts :
    BeginWrite(c, "set", {k}, [j \in {k} |-> o], t)

Add(c) == \E k \in Keys, o \in Objects, t \in Timeouts :
    BeginWrite(c, "add", {k}, [j \in {k} |-> o], t)

SetMany(c) == \E S \in Batches, t \in Timeouts : \E data \in [S -> Objects] :
    BeginWrite(c, "set_many", S, data, t)

Touch(c) == \E k \in Keys, t \in Timeouts :
    IF HasExpiry(t)
    THEN Begin(c, Arguments("touch", {k}, NoValues, Expiry(c, t), 0),
               "execute")
    ELSE /\ pc[c] = "idle" /\ "touch" \in Ops[c]
         /\ Return(c, Answered("touch", "TypeError"))
         /\ UNCHANGED <<clock, table>>

Lookup(c) == \E op \in {"get", "has_key", "delete"}, k \in Keys :
    Begin(c, Plain(op, {k}), "execute")

LookupMany(c) == \E op \in {"get_many", "delete_many"}, S \in Batches :
    Begin(c, Plain(op, S), "execute")

LookupPrefix(c) ==
    \E op \in {"keys_with_prefix", "get_with_prefix", "delete_with_prefix"},
       S \in Patterns :
        Begin(c, Plain(op, S), "execute")

\* decr is incr with "-" for the operation of the query.
IncrDecr(c) == \E op \in {"incr", "decr"}, k \in Keys, d \in Deltas :
    Begin(c, Arguments(op, {k}, NoValues, 0, IF op = "incr" THEN d ELSE -d),
          "execute")

Clear(c) == Begin(c, Plain("clear", {}), "execute")

Cull(c) == Begin(c, Plain("cull", {}), "cull_expired")

-----------------------------------------------------------------------------
(* cull(): one action per statement *)

\* The cull ends: cull() returns its count, a write call goes on.
CullReturns(c, n) ==
    IF call[c].op = "cull"
    THEN Return(c, AnsweredInt("cull", n))
    ELSE /\ Send(c, call[c].op, "execute")
         /\ cull' = [cull EXCEPT ![c] = NoCull]
         /\ answer' = NoAnswer
         /\ UNCHANGED call

\* Mutant: nothing expires before the table is full.
ExpiredOnceFull(t) ==
    {k \in Rows : table[k].expires < t /\ Cardinality(Rows) >= MaxEntries}

Expired(t) == {k \in Rows : table[k].expires < t}

CullExpired(c) ==
    /\ pc[c] = "cull_expired"
    /\ LET gone == Expired(now[c])
       IN  /\ table' = Without(gone)
           /\ IF MaxEntries = -1
              THEN CullReturns(c, 0)
              ELSE /\ pc' = [pc EXCEPT ![c] = "cull_count"]
                   /\ cull' = [cull EXCEPT
                                 ![c].num_deleted = Cardinality(gone)]
                   /\ answer' = NoAnswer /\ UNCHANGED <<call, now>>
    /\ UNCHANGED clock

\* The size of the table from which a cull goes beyond the expired rows.
CullsAnySize(num) == TRUE             \* mutant: no test
CullsAboveMax(num) == num > MaxEntries  \* mutant: the test of Django's cull
CullsAt(num) == num >= MaxEntries

CullCount(c) ==
    /\ pc[c] = "cull_count"
    /\ LET num == Cardinality(Rows)
       IN  IF ~CullsAt(num)
           THEN CullReturns(c, cull[c].num_deleted)
           ELSE /\ pc' = [pc EXCEPT ![c] = IF CullFrequency = 0
                                           THEN "cull_all"
                                           ELSE "cull_offset"]
                /\ cull' = [cull EXCEPT ![c].num = num]
                /\ answer' = NoAnswer /\ UNCHANGED <<call, now>>
    /\ UNCHANGED <<clock, table>>

\* Mutant: counts again until few enough rows are left.
CullAllRecounts(c) ==
    /\ pc[c] = "cull_all"
    /\ table' = Without(Rows)
    /\ pc' = [pc EXCEPT ![c] = "cull_count"]
    /\ answer' = NoAnswer
    /\ UNCHANGED <<clock, call, now, cull>>

CullAll(c) ==
    /\ pc[c] = "cull_all"
    /\ table' = Without(Rows)
    /\ CullReturns(c, cull[c].num_deleted + Cardinality(Rows))
    /\ UNCHANGED clock

\* ORDER BY cache_key LIMIT 1 OFFSET n: the rows with n rows before them.
AtRank(n) ==  \* mutant: counts from one
    {k \in Rows : Cardinality({j \in Rows : j <= k}) = n}
AtOffset(n) == {k \in Rows : Cardinality({j \in Rows : j < k}) = n}

\* fetchone() is None past the last row, and None[0] raises a TypeError.
CullOffset(c) ==
    /\ pc[c] = "cull_offset"
    /\ LET found == AtOffset(cull[c].num \div CullFrequency)
       IN  IF found = {}
           THEN Return(c, Answered(call[c].op, "TypeError"))
           ELSE /\ pc' = [pc EXCEPT ![c] = "cull_below"]
                /\ \E k \in found : cull' = [cull EXCEPT ![c].max_key = k]
                /\ answer' = NoAnswer /\ UNCHANGED <<call, now>>
    /\ UNCHANGED <<clock, table>>

\* Mutant: answers with the latest count instead of the sum.
CullBelowForgets(c) ==
    /\ pc[c] = "cull_below"
    /\ LET gone == {k \in Rows : k < cull[c].max_key}
       IN  table' = Without(gone) /\ CullReturns(c, Cardinality(gone))
    /\ UNCHANGED clock

CullBelow(c) ==
    /\ pc[c] = "cull_below"
    /\ LET gone == {k \in Rows : k < cull[c].max_key}
       IN  /\ table' = Without(gone)
           /\ CullReturns(c, cull[c].num_deleted + Cardinality(gone))
    /\ UNCHANGED clock

-----------------------------------------------------------------------------
(* The final statement of each call *)

Executes(c, ops) == pc[c] = "execute" /\ call[c].op \in ops

\* An empty list makes "IN ()" or "VALUES ", which MySQL rejects.
Rejects(c, ops) ==
    /\ Executes(c, ops)
    /\ call[c].keys = {}
    /\ Return(c, Answered(call[c].op, "ProgrammingError"))
    /\ UNCHANGED <<clock, table>>

ExecRejected(c) == Rejects(c, {"get_many", "set_many", "delete_many"})

\* INSERT ... ON DUPLICATE KEY UPDATE with every column from VALUES().
ExecSet(c) ==
    /\ Executes(c, {"set", "set_many"}) /\ call[c].keys # {}
    /\ table' = [k \in Keys |-> IF k \in call[c].keys
                                THEN call[c].values[k] ELSE table[k]]
    /\ Return(c, Answered(call[c].op, "True"))
    /\ UNCHANGED clock

\* Mutants: the type is assigned unconditionally; so is the expiry; the
\* expiry is assigned first.
UpdateTypeAlways(old, new, t) ==
    IF old.expires > t THEN [old EXCEPT !.value_type = new.value_type] ELSE new
UpdateExpiresAlways(old, new, t) ==
    IF old.expires > t THEN [old EXCEPT !.expires = new.expires] ELSE new
UpdateExpiresFirst(old, new, t) ==
    IF old.expires > t THEN old
    ELSE IF new.expires > t THEN [old EXCEPT !.expires = new.expires]
    ELSE new

\* The ON DUPLICATE KEY UPDATE clause of _add_query.  MySQL assigns the
\* columns from left to right and a later expression reads what an earlier
\* one assigned, so expires, which the conditions test, comes last.
UpdateIfExpired(old, new, t) ==
    LET row1 == [old EXCEPT !.value =
                    IF old.expires > t THEN old.value ELSE new.value]
        row2 == [row1 EXCEPT !.value_type =
                    IF row1.expires > t THEN row1.value_type
                                        ELSE new.value_type]
    IN  [row2 EXCEPT !.expires =
                    IF row2.expires > t THEN row2.expires ELSE new.expires]

\* LAST_INSERT_ID is 444 when the expires column kept its value.
Says444Later(old, t) == old.expires > t + 1  \* mutant: another boundary
Says444(old, t) == old.expires > t

ExecAdd(c) ==
    /\ Executes(c, {"add"})
    /\ \E k \in call[c].keys :
        LET new == call[c].values[k]
        IN  IF table[k] = NoRow
            THEN /\ table' = [table EXCEPT ![k] = new]
                 /\ Return(c, AnsweredBool("add", TRUE))
            ELSE /\ table' = [table EXCEPT
                                ![k] = UpdateIfExpired(@, new, now[c])]
                 /\ Return(c, AnsweredBool("add",
                                           ~Says444(table[k], now[c])))
    /\ UNCHANGED clock

\* SELECT ... expires >= now, for one key, a list of keys or a prefix.
\* (keys_with_prefix keeps the keys of what is found.)
ExecGet(c) ==
    /\ Executes(c, {"get", "get_many", "get_with_prefix", "keys_with_prefix"})
    /\ call[c].op = "get_many" => call[c].keys # {}
    /\ Return(c, Selected(call[c].op, {k \in call[c].keys \cap Rows :
                                        table[k].expires >= now[c]}))
    /\ UNCHANGED <<clock, table>>

ExecHasKey(c) ==
    /\ Executes(c, {"has_key"})
    /\ Return(c, AnsweredBool("has_key", \E k \in call[c].keys \cap Rows :
                                            table[k].expires > now[c]))
    /\ UNCHANGED <<clock, table>>

\* The deletes look at no expiry; delete answers whether a row went,
\* delete_with_prefix how many did, delete_many nothing.
ExecDelete(c) ==
    /\ Executes(c, {"delete", "delete_many", "delete_with_prefix"})
    /\ call[c].op = "delete_many" => call[c].keys # {}
    /\ table' = Without(call[c].keys)
    /\ LET op == call[c].op
           gone == call[c].keys \cap Rows
       IN  Return(c, CASE op = "delete" -> AnsweredBool(op, gone # {})
                       [] op = "delete_with_prefix" ->
                            AnsweredInt(op, Cardinality(gone))
                       [] op = "delete_many" -> Answered(op, "None"))
    /\ UNCHANGED clock

\* The insert id that carries the new value back is unsigned.
Unsigned(n) == IF n < 0 THEN n + (IntMax - IntMin + 1) ELSE n

\* No row of type 'i': ValueError.  Outside of BIGINT: an IntegrityError and
\* no change.  The expiry is neither tested nor changed.
ExecDelta(c) ==
    /\ Executes(c, {"incr", "decr"})
    /\ \E k \in call[c].keys :
        IF table[k] = NoRow \/ table[k].value_type # "i"
        THEN /\ Return(c, Answered(call[c].op, "ValueError"))
             /\ UNCHANGED table
        ELSE LET n == table[k].value.obj.n + call[c].delta
             IN  IF Fits(n)
                 THEN /\ table' = [table EXCEPT ![k].value =
                                    [form |-> "decimal", obj |-> Integer(n)]]
                      /\ Return(c, AnsweredInt(call[c].op, Unsigned(n)))
                 ELSE /\ Return(c, Answered(call[c].op, "IntegrityError"))
                      /\ UNCHANGED table
    /\ UNCHANGED clock

ExecClear(c) ==
    /\ Executes(c, {"clear"})
    /\ table' = Without(Rows)
    /\ Return(c, Answered("clear", "None"))
    /\ UNCHANGED clock

\* The affected rows are those matched: Django sets CLIENT.FOUND_ROWS.
ExecTouch(c) ==
    /\ Executes(c, {"touch"})
    /\ LET live == {k \in call[c].keys \cap Rows : table[k].expires >= now[c]}
       IN  /\ table' = [k \in Keys |->
                            IF k \in live
                            THEN [table[k] EXCEPT !.expires = call[c].exp]
                            ELSE table[k]]
           /\ Return(c, AnsweredBool("touch", live # {}))
    /\ UNCHANGED clock

-----------------------------------------------------------------------------
(* The specification *)

Tick ==
    /\ clock < MaxTime
    /\ clock' = clock + 1
    /\ answer' = NoAnswer
    /\ UNCHANGED <<table, pc, call, now, cull>>

Init ==
    /\ clock = 1
    /\ table = NoValues
    /\ pc = [c \in Clients |-> "idle"]
    /\ call = [c \in Clients |-> NoCall]
    /\ now = [c \in Clients |-> 0]
    /\ cull = [c \in Clients |-> NoCull]
    /\ answer = NoAnswer

Calls(c) ==
    \/ Set(c) \/ Add(c) \/ SetMany(c) \/ Touch(c)
    \/ Lookup(c) \/ LookupMany(c) \/ LookupPrefix(c)
    \/ IncrDecr(c) \/ Clear(c) \/ Cull(c)

Culls(c) ==
    \/ CullExpired(c) \/ CullCount(c) \/ CullAll(c)
    \/ CullOffset(c) \/ CullBelow(c)

Executions(c) ==
    \/ ExecRejected(c) \/ ExecSet(c) \/ ExecAdd(c) \/ ExecGet(c)
    \/ ExecHasKey(c) \/ ExecDelete(c) \/ ExecDelta(c) \/ ExecClear(c)
    \/ ExecTouch(c)

Steps(c) == Culls(c) \/ Executions(c)

Next == Tick \/ \E c \in Clients : Calls(c) \/ Steps(c)

Spec == Init /\ [][Next]_vars

-----------------------------------------------------------------------------
(* Types *)

Statements == {"idle", "execute", "cull_expired", "cull_count", "cull_all",
               "cull_offset", "cull_below"}
CallRecord == [op : Methods \cup {"none"}, keys : SUBSET Keys,
               values : [Keys -> Row \cup {NoRow}], exp : Int, delta : Int,
               since : Int]
\* A call that writes has a row for each of its keys.
Writes == {"set", "add", "set_many"}
Call == {a \in CallRecord :
            a.op \in Writes => \A k \in a.keys : a.values[k] # NoRow}

\* Type correctness.
TypeOK ==
    /\ clock \in Nat
    /\ table \in [Keys -> Row \cup {NoRow}]
    /\ pc \in [Clients -> Statements]
    /\ call \in [Clients -> Call]
    /\ now \in [Clients -> Nat]
    /\ cull \in [Clients -> [num_deleted : Nat, num : Nat, max_key : Int]]

\* A row can always be decoded, and so can the rows a call is about to
\* write: the blob is what value_type says, whatever mix of set, add and incr
\* wrote the columns and with whatever compression setting.
AllReadable(rows) == \A k \in Keys : rows[k] # NoRow => Readable(rows[k])
TableReadable ==
    AllReadable(table) /\ \A c \in Clients : AllReadable(call[c].values)

-----------------------------------------------------------------------------
(* Culling *)

\* When every write culls (CULL_PROBABILITY 1.0), the table stays bounded
\* although each client decides on a count that is stale when it inserts: one
\* client keeps it within MAX_ENTRIES, n clients add at most n - 1 rows, or
\* fill it to the size from which a cull frees n rows.
SizeBounded ==
    LET n == Cardinality(Clients)
        size == Cardinality(Rows)
    IN  size <= MaxEntries - 1 + n \/ size <= CullFrequency * n

\* A cull never fails, so a write is never lost to the cull it triggered.
CullCompletes == answer.outcome # "TypeError"

\* The key-based cull deletes exactly 1 / CULL_FREQUENCY of the rows that it
\* counted, rounded down, when no other client interferes.
CullFreesShare ==
    [][\A c \in Clients :
        pc[c] = "cull_below" /\ pc'[c] # "cull_below" =>
            Cardinality(Rows) - Cardinality(Rows') =
                cull[c].num \div CullFrequency]_vars

\* What cull() answers, and the cull_mysql_caches command prints as "entries
\* deleted", is the number of rows that its statements deleted.
CullReports ==
    [][answer'.op = "cull" /\ answer'.outcome = "number" =>
        answer'.n = cull[answer'.client].num_deleted
                        + Cardinality(Rows \ Rows')]_vars

=============================================================================
