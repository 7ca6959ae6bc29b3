--------------------------- MODULE CacheRefinement ---------------------------
(***************************************************************************)
(* MySQLCache as an implementation of CacheContract: a row is the entry of *)
(* its decoded object, and a running call is the request it was made with. *)
(***************************************************************************)
EXTENDS MySQLCache

\* The absence of a row is no entry either.
ASSUME NoEntryAssumption == NoRow \notin [obj : Object, expires : Int]

EntryOf(row) == IF row = NoRow THEN NoRow
                ELSE [obj |-> Decode(row), expires |-> row.expires]

contentBar == [k \in Keys |-> EntryOf(table[k])]

RequestOf(a) ==
    [op |-> a.op, keys |-> a.keys,
     entries |-> [k \in Keys |-> EntryOf(a.values[k])],
     exp |-> a.exp, delta |-> a.delta, since |-> a.since]

requestBar == [c \in Clients |-> RequestOf(call[c])]

\* incr and decr as they are, and as their documentation has them.
Contract == INSTANCE CacheContract WITH
    Nothing <- NoRow, Nobody <- None,
    Limited <- MaxEntries # -1,
    SignedAnswers <- FALSE, ExpiredCounts <- TRUE,
    content <- contentBar, request <- requestBar
Documented == INSTANCE CacheContract WITH
    Nothing <- NoRow, Nobody <- None,
    Limited <- MaxEntries # -1,
    SignedAnswers <- TRUE, ExpiredCounts <- FALSE,
    content <- contentBar, request <- requestBar

\* The backend implements the contract of a shared cache: whatever clients
\* interleave, each call acts on decoded objects at one instant, judges expiry
\* by a moment within the call, and culling only forgets entries.  incr and
\* decr depart from what is documented: they answer unsigned numbers, and
\* count on in a row that has expired.
ImplementsContract == Contract!Spec

\* The same with the integers that the documentation describes: "fully
\* compatible with Django's cache API", in "the range of MySQL's SIGNED
\* BIGINT".  The code does not have this.
ImplementsDocumented == Documented!Spec

=============================================================================
