------------------------------ MODULE UserLock ------------------------------
(***************************************************************************)
(* django_mysql.locks.Lock: named locks held by a MySQL session.  The      *)
(* object keeps no state; who is inside a with block is only in the        *)
(* program, who holds the lock is only in the server, and the two part     *)
(* when a session is lost.                                                 *)
(***************************************************************************)
EXTENDS Connection, Sequences

CONSTANTS
    Names,    \* names of locks, prefixed with the database's
    NoName,
    MaxDepth  \* bound of the model: nested with blocks of a client

ASSUME NamesAssumption == NoName \notin Names

VARIABLES
    userLocks,  \* in the server, per name: the session that holds it, and how
                \* often; a session may hold a lock again
    wanted,     \* per client: the lock that its GET_LOCK() waits for
    entered     \* per client: the with blocks it is in, the innermost last,
                \* with the session that entered

userLockVars == <<userLocks, wanted, entered>>

Free == [by |-> NoSession, depth |-> 0]
Depth(c) == Len(entered[c])
Idle(c) == wanted[c] = NoName

UserLockInit ==
    /\ userLocks = [n \in Names |-> Free]
    /\ wanted = [c \in Clients |-> NoName]
    /\ entered = [c \in Clients |-> <<>>]

\* acquire() sends SELECT GET_LOCK(name, acquire_timeout), which waits.
Acquire(c, n) ==
    /\ Idle(c) /\ Depth(c) < MaxDepth /\ Connected(c)
    /\ wanted' = [wanted EXCEPT ![c] = n]
    /\ UNCHANGED <<conn, opened, answer, userLocks, entered>>

\* GET_LOCK() answers 1.
Acquired(c) ==
    LET n == wanted[c] IN
    /\ ~Idle(c) /\ Connected(c)
    /\ userLocks[n].by \in {NoSession, conn[c]}
    /\ userLocks' = [userLocks EXCEPT ![n] =
                        [by |-> conn[c], depth |-> @.depth + 1]]
    /\ entered' = [entered EXCEPT ![c] =
                        Append(@, [name |-> n, session |-> conn[c]])]
    /\ wanted' = [wanted EXCEPT ![c] = NoName]
    /\ Returns /\ UNCHANGED <<conn, opened>>

\* GET_LOCK() answers 0 when the timeout is over and NULL on an error: both
\* raise.  If the session is lost meanwhile, the driver raises.
GivesUp(c) ==
    /\ ~Idle(c)
    /\ wanted' = [wanted EXCEPT ![c] = NoName]
    /\ Raises(IF Connected(c) THEN "TimeoutError" ELSE "OperationalError")
    /\ UNCHANGED <<conn, opened, userLocks, entered>>

\* mutants: a timeout that never ends; any answer of GET_LOCK() is success
GivesUpIfLost(c) == ~Connected(c) /\ GivesUp(c)
EntersAnyway(c) ==
    /\ ~Idle(c)
    /\ entered' = [entered EXCEPT ![c] =
                        Append(@, [name |-> wanted[c], session |-> conn[c]])]
    /\ wanted' = [wanted EXCEPT ![c] = NoName]
    /\ Returns /\ UNCHANGED <<conn, opened, userLocks>>

NotAcquired(c) == GivesUp(c)

\* mutants: 0 and NULL pass for a release; the last release keeps the holder
ReleaseLockOfAll(c, n) ==
    /\ userLocks' = [userLocks EXCEPT ![n] =
            IF @.depth <= 1 \/ @.by # conn[c] THEN Free
            ELSE [@ EXCEPT !.depth = @ - 1]]
    /\ Returns
ReleaseLockOnce(c, n) ==
    /\ userLocks' = [userLocks EXCEPT ![n].depth = IF @ = 0 THEN 0 ELSE @ - 1]
    /\ ReturnsIf(userLocks[n].by = conn[c])

\* SELECT RELEASE_LOCK(name) answers 1 if this session holds the lock, 0 if
\* another one does, and NULL if nobody does.
ReleaseLock(c, n) ==
    LET lock == userLocks[n] IN
    IF ~Connected(c)
    THEN Raises("OperationalError") /\ UNCHANGED userLocks
    ELSE IF lock.by # conn[c]
    THEN Raises("ValueError") /\ UNCHANGED userLocks
    ELSE /\ userLocks' = [userLocks EXCEPT ![n] =
                IF lock.depth = 1 THEN Free
                ELSE [by |-> conn[c], depth |-> lock.depth - 1]]
         /\ Returns

\* __exit__() of the innermost block.
Exit(c) ==
    /\ Idle(c) /\ Depth(c) > 0
    /\ ReleaseLock(c, entered[c][Depth(c)].name)
    /\ entered' = [entered EXCEPT ![c] = SubSeq(@, 1, Len(@) - 1)]
    /\ UNCHANGED <<conn, opened, wanted>>

\* release() of a lock that this client is not inside.
ReleaseUnheld(c, n) ==
    /\ Idle(c) /\ \A i \in 1..Depth(c) : entered[c][i].name # n
    /\ ReleaseLock(c, n)
    /\ UNCHANGED <<conn, opened, wanted, entered>>

\* The server frees the locks of a session that ended.
FreeLocksOf(s) ==
    userLocks' = [n \in Names |->
                    IF userLocks[n].by = s THEN Free ELSE userLocks[n]]

-----------------------------------------------------------------------------
(* Properties *)

\* c is in a block for n that its present session entered.
Inside(c, n) ==
    \E i \in 1..Depth(c) : entered[c][i] = [name |-> n, session |-> conn[c]]

\* Bodies of with Lock(n) exclude each other, as long as their sessions live.
OneInside ==
    \A n \in Names, c, d \in Clients :
        Connected(c) /\ Connected(d) /\ Inside(c, n) /\ Inside(d, n) => c = d

\* Leaving a block tells whether the lock was held all along: release()
\* succeeds if and only if the session that entered is still there, even if
\* the client reconnected and holds the lock again.
ExitTellsLoss ==
    [][\A c \in Clients :
        Depth(c)' < Depth(c) =>
            (answer' = "returned" <=>
                Connected(c) /\ entered[c][Depth(c)].session = conn[c])
      ]_<<conn, answer, userLockVars>>

\* An acquire() always comes back, although clients may wait for each other.
AcquireReturns == \A c \in Clients : ~Idle(c) ~> Idle(c)

=============================================================================
