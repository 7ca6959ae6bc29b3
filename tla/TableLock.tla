----------------------------- MODULE TableLock ------------------------------
(***************************************************************************)
(* django_mysql.locks.TableLock: LOCK TABLES inside of a transaction.      *)
(* Entering and leaving take several statements, each of which may fail;   *)
(* what Python then believes (an atomic block) and what the session has (a *)
(* transaction, table locks) are separate state.                           *)
(***************************************************************************)
EXTENDS Connection

CONSTANTS
    Tables,    \* the tables of the concrete models, and raw table names
    Parents,   \* per table: the tables of its model's parents
    Requests   \* the read and write lists that locks are made with

ASSUME TablesAssumption ==
    /\ Parents \in [Tables -> SUBSET Tables]
    /\ Requests \subseteq [read : SUBSET Tables, write : SUBSET Tables]

VARIABLES
    phase,       \* per client: where in a with block, or in atomic(), it is
    autocommit,  \* per client: Django's connection.get_autocommit()
    asked,       \* per client: the lists of the lock it is entering or in
    tableLocks,  \* in the server, per client's session: table -> level
    dirty        \* per client: the tables its open transaction changed

tableLockVars == <<phase, autocommit, asked, tableLocks, dirty>>

Phases == {"out", "atomic", "locking", "in", "unlocking"}
Unlocked == [t \in Tables |-> "none"]
Nothing == [read |-> {}, write |-> {}]

\* A model brings the tables of all its ancestors along: the least set with
\* t in it that has the parents of its members.
WithParents(t) ==
    {u \in Tables : \A S \in SUBSET Tables :
        t \in S /\ (\A v \in S : Parents[v] \subseteq S) => u \in S}

\* _process_names().  It empties the list that it was given: a list that was
\* used for another lock before names nothing (Nothing is in Requests).
TablesNamed(list) == list  \* mutant: forgets the parents
TablesOf(list) == UNION {WithParents(t) : t \in list}

\* A table that is in both lists is named twice, which the server refuses.
Levels(req) == [t \in Tables |->
    IF t \in TablesOf(req.write) THEN "WRITE"
    ELSE IF t \in TablesOf(req.read) THEN "READ" ELSE "none"]
Lockable(req) ==
    /\ TablesOf(req.read) \cup TablesOf(req.write) # {}
    /\ TablesOf(req.read) \cap TablesOf(req.write) = {}

TableLockInit ==
    /\ phase = [c \in Clients |-> "out"]
    /\ autocommit = [c \in Clients |-> TRUE]
    /\ asked = [c \in Clients |-> Nothing]
    /\ tableLocks = [c \in Clients |-> Unlocked]
    /\ dirty = [c \in Clients |-> {}]

Goes(c, from, to) == phase[c] = from /\ phase' = [phase EXCEPT ![c] = to]

\* The application's own atomic(), outside of any lock.
Begin(c) ==
    /\ Goes(c, "out", "atomic") /\ autocommit[c] /\ Connected(c)
    /\ autocommit' = [autocommit EXCEPT ![c] = FALSE]
    /\ UNCHANGED <<conn, opened, answer, asked, tableLocks, dirty>>

Commit(c) ==
    /\ Goes(c, "atomic", "out")
    /\ autocommit' = [autocommit EXCEPT ![c] = TRUE]
    /\ dirty' = [dirty EXCEPT ![c] = {}]
    /\ ReturnsIf(Connected(c))
    /\ UNCHANGED <<conn, opened, asked, tableLocks>>

\* acquire() up to atomic().__enter__()
NeverRefuses(c) == FALSE  \* mutant
RefusesEnter(c) == ~autocommit[c]

EnterRefused(c) ==
    /\ phase[c] \in {"out", "atomic"} /\ RefusesEnter(c)
    /\ Raises("TransactionManagementError")
    /\ UNCHANGED <<conn, opened, tableLockVars>>

EnterNoAtomic(c, req) ==  \* mutant: locks without a transaction
    /\ phase[c] \in {"out", "atomic"} /\ ~RefusesEnter(c) /\ Connected(c)
    /\ phase' = [phase EXCEPT ![c] = "locking"]
    /\ asked' = [asked EXCEPT ![c] = req]
    /\ UNCHANGED <<conn, opened, answer, autocommit, tableLocks, dirty>>

Enter(c, req) ==
    /\ phase[c] \in {"out", "atomic"} /\ ~RefusesEnter(c) /\ Connected(c)
    /\ phase' = [phase EXCEPT ![c] = "locking"]
    /\ autocommit' = [autocommit EXCEPT ![c] = FALSE]
    /\ asked' = [asked EXCEPT ![c] = req]
    /\ UNCHANGED <<conn, opened, answer, tableLocks, dirty>>

\* LOCK TABLES commits the open transaction, and waits for locks and for
\* transactions of other sessions.
Grantable(c, levels) ==
    \A d \in Clients \ {c}, t \in Tables :
        levels[t] # "none" =>
            /\ t \notin dirty[d]
            /\ levels[t] = "WRITE" => tableLocks[d][t] = "none"
            /\ levels[t] = "READ" => tableLocks[d][t] # "WRITE"

LockTables(c) ==
    /\ Goes(c, "locking", "in") /\ Connected(c)
    /\ Lockable(asked[c]) /\ Grantable(c, Levels(asked[c]))
    /\ tableLocks' = [tableLocks EXCEPT ![c] = Levels(asked[c])]
    /\ dirty' = [dirty EXCEPT ![c] = {}]
    /\ Returns
    /\ UNCHANGED <<conn, opened, autocommit, asked>>

\* It may fail: a table is missing, lock_wait_timeout, no privilege, a syntax
\* error since there is no name.  The with statement was not entered, so
\* nobody leaves the atomic block.
LockTablesFails(c) ==
    /\ Goes(c, "locking", "out")
    /\ Raises("OperationalError")
    /\ asked' = [asked EXCEPT ![c] = Nothing]
    /\ UNCHANGED <<conn, opened, autocommit, tableLocks, dirty>>

\* Saving an object of table t's model writes to its parents' tables too.
Writable(c, t) ==
    \/ /\ tableLocks[c] = Unlocked
       /\ \A d \in Clients \ {c} : tableLocks[d][t] = "none"
    \/ tableLocks[c][t] = "WRITE"

Write(c, t) ==
    LET T == WithParents(t) IN
    /\ phase[c] \in {"out", "atomic", "in"} /\ Connected(c)
    /\ \A u \in T : Writable(c, u)
    /\ dirty' = [dirty EXCEPT ![c] = IF autocommit[c] THEN {} ELSE @ \cup T]
    /\ Returns
    /\ UNCHANGED <<conn, opened, phase, autocommit, asked, tableLocks>>

\* release(): atomic().__exit__() commits, or rolls back if the block raised;
\* then UNLOCK TABLES.  If the commit fails, Django rolls back and raises, and
\* UNLOCK TABLES is not sent.  If the session was lost, Django lets go of it.
EndTransaction(c, to) ==
    /\ Goes(c, "in", to)
    /\ autocommit' = [autocommit EXCEPT ![c] = TRUE]
    /\ dirty' = [dirty EXCEPT ![c] = {}]
    /\ asked' = [asked EXCEPT ![c] = Nothing]
    /\ UNCHANGED <<conn, opened>>

LeaveEnds(c) ==
    /\ Connected(c) /\ EndTransaction(c, "unlocking")
    /\ UNCHANGED <<answer, tableLocks>>

UnlocksFirst(c) ==  \* mutant: UNLOCK TABLES before the commit
    /\ phase[c] = "in" /\ tableLocks[c] # Unlocked
    /\ tableLocks' = [tableLocks EXCEPT ![c] = Unlocked]
    /\ UNCHANGED <<conn, opened, answer, phase, autocommit, asked, dirty>>

Leave(c) == LeaveEnds(c)

CommitFails(c) ==
    /\ Connected(c) /\ EndTransaction(c, "out")
    /\ Raises("OperationalError") /\ UNCHANGED tableLocks

LeaveLost(c) ==
    /\ ~Connected(c) /\ EndTransaction(c, "out")
    /\ Raises("OperationalError") /\ UNCHANGED tableLocks

Unlock(c) ==
    /\ Goes(c, "unlocking", "out")
    /\ tableLocks' = [tableLocks EXCEPT ![c] = Unlocked]
    /\ ReturnsIf(Connected(c))
    /\ UNCHANGED <<conn, opened, autocommit, asked, dirty>>

\* The session is lost, with its locks and its transaction.
LoseTables(c) ==
    /\ tableLocks' = [tableLocks EXCEPT ![c] = Unlocked]
    /\ dirty' = [dirty EXCEPT ![c] = {}]
    /\ UNCHANGED <<phase, autocommit, asked>>

-----------------------------------------------------------------------------
(* Properties *)

\* What a block changed is committed, or undone, before its lock goes, and
\* it starts with nothing that LOCK TABLES would commit.
DirtyUnderLock ==
    \A c \in Clients :
        phase[c] \in {"locking", "in", "unlocking"} =>
            \A t \in dirty[c] : tableLocks[c][t] = "WRITE"

\* In its block a client holds every lock that it asked for, unless its
\* session is lost; it cannot go on in another session that holds none.
BlockKeepsLocks ==
    \A c \in Clients :
        phase[c] = "in" /\ Connected(c) => tableLocks[c] = Levels(asked[c])

\* While a client that asked for a model is in its block, and its session
\* lives, nobody else writes a row of that model, in whichever table.
OthersKeepOut ==
    [][\A d \in Clients, t \in Tables :
        Write(d, t) =>
            \A c \in Clients \ {d} :
                phase[c] = "in" /\ Connected(c) =>
                    \A u \in asked[c].read \cup asked[c].write :
                        WithParents(u) \cap WithParents(t) = {}
      ]_<<conn, answer, tableLockVars>>

\* A transaction ends only when the application leaves its block, or with its
\* session: asking for a table lock never commits it half done.
NoImplicitCommit ==
    [][\A c \in Clients :
        dirty[c] # {} /\ dirty'[c] = {} =>
            phase'[c] \in {"out", "unlocking"} \/ ~Connected(c)'
      ]_<<conn, answer, tableLockVars>>

\* Outside of any block a client is in autocommit mode and holds no table
\* lock.
LeavesNothing ==
    \A c \in Clients :
        phase[c] = "out" => autocommit[c] /\ tableLocks[c] = Unlocked

=============================================================================
