----------------------------- MODULE Connection -----------------------------
(***************************************************************************)
(* The database connections of application processes ("clients"), as far   *)
(* as locks.py depends on them: a MySQL session owns its user locks, table *)
(* locks and transaction, and all of them vanish with it.  Django replaces *)
(* a lost session at the next request or query, but not inside atomic().   *)
(***************************************************************************)
EXTENDS Integers, FiniteSets

CONSTANTS
    Clients,     \* processes, each with one connection
    MaxSessions  \* bound of the model: sessions opened altogether

ASSUME ClientsAssumption ==
    /\ IsFiniteSet(Clients) /\ MaxSessions \in Nat
    /\ Cardinality(Clients) <= MaxSessions

VARIABLES
    conn,    \* per client: the CONNECTION_ID() of its session, 0 if it lost it
    opened,  \* the number of sessions opened so far
    answer   \* how the latest method call ended: it returned or raised

NoSession == 0
Connected(c) == conn[c] # NoSession

\* Which exception it is matters to no property; the name is for the reader.
Returns == answer' = "returned"
Raises(exception) == answer' = "raised"
ReturnsIf(good) == answer' = IF good THEN "returned" ELSE "raised"

ConnectionInit ==
    /\ opened = Cardinality(Clients)
    /\ conn = CHOOSE f \in [Clients -> 1..opened] :
                \A c, d \in Clients : f[c] = f[d] => c = d
    /\ answer = "returned"

Lost(c) ==
    /\ Connected(c)
    /\ conn' = [conn EXCEPT ![c] = NoSession]
    /\ UNCHANGED <<opened, answer>>

Reconnect(c) ==
    /\ ~Connected(c) /\ opened < MaxSessions
    /\ opened' = opened + 1
    /\ conn' = [conn EXCEPT ![c] = opened + 1]
    /\ UNCHANGED answer

\* Every session has one owner, and its id is not used again.
ConnectionInv ==
    /\ opened \in Nat
    /\ conn \in [Clients -> 0..opened]
    /\ \A c, d \in Clients : Connected(c) /\ conn[c] = conn[d] => c = d

=============================================================================
