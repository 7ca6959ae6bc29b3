------------------------------- MODULE Locks --------------------------------
(***************************************************************************)
(* Clients that use Lock and TableLock on the same connections, any of     *)
(* which may be lost at any moment and takes all locks of its session      *)
(* along.                                                                  *)
(***************************************************************************)
EXTENDS UserLock, TableLock

vars == <<conn, opened, answer, userLockVars, tableLockVars>>

Init == ConnectionInit /\ UserLockInit /\ TableLockInit

\* A client is in one call at a time.
UserLockCalls(c) ==
    /\ phase[c] \in {"out", "atomic", "in"}
    /\ \/ \E n \in Names : Acquire(c, n) \/ ReleaseUnheld(c, n)
       \/ Acquired(c) \/ NotAcquired(c) \/ Exit(c)
    /\ UNCHANGED tableLockVars

TableLockCalls(c) ==
    /\ Idle(c)
    /\ \/ \E req \in Requests : Enter(c, req)
       \/ \E t \in Tables : Write(c, t)
       \/ Begin(c) \/ Commit(c) \/ EnterRefused(c)
       \/ LockTables(c) \/ LockTablesFails(c)
       \/ Leave(c) \/ CommitFails(c) \/ LeaveLost(c) \/ Unlock(c)
    /\ UNCHANGED userLockVars

SessionLost(c) ==
    /\ Lost(c) /\ FreeLocksOf(conn[c]) /\ LoseTables(c)
    /\ UNCHANGED <<wanted, entered>>

\* close_if_unusable_or_obsolete() leaves a connection in atomic() alone.
Reconnects(c) ==
    /\ Idle(c) /\ autocommit[c] /\ Reconnect(c)
    /\ UNCHANGED <<userLockVars, tableLockVars>>

Next ==
    \E c \in Clients :
        UserLockCalls(c) \/ TableLockCalls(c) \/ SessionLost(c) \/ Reconnects(c)

Spec == Init /\ [][Next]_vars

\* GET_LOCK() has a timeout, so a waiting call ends; no other call must come.
FairSpec ==
    Spec /\ \A c \in Clients : WF_vars((Acquired(c) \/ NotAcquired(c))
                                       /\ UNCHANGED tableLockVars)

TypeOK ==
    /\ conn \in [Clients -> 0..MaxSessions] /\ opened \in Nat
    /\ answer \in {"returned", "raised"}
    /\ userLocks \in [Names -> [by : 1..MaxSessions, depth : Nat \ {0}]
                                   \cup {Free}]
    /\ wanted \in [Clients -> Names \cup {NoName}]
    /\ entered \in [Clients -> Seq([name : Names, session : 0..MaxSessions])]
    /\ phase \in [Clients -> Phases] /\ autocommit \in [Clients -> BOOLEAN]
    /\ asked \in [Clients -> Requests \cup {Nothing}]
    /\ tableLocks \in [Clients -> [Tables -> {"none", "READ", "WRITE"}]]
    /\ dirty \in [Clients -> SUBSET Tables]

=============================================================================
