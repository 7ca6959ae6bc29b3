----------------------------- MODULE CacheLease -----------------------------
(***************************************************************************)
(* The cache together with callers that use add() with a timeout to elect  *)
(* one of them, the usual pattern for a job that must not run twice.  A    *)
(* client holds the lease on a key from the moment add() answers True until *)
(* the expiry that call computed.                                          *)
(*                                                                         *)
(* add() promises nothing if something else rewrites, shortens or evicts   *)
(* the entry, so this workload only adds, reads, counts and culls expired  *)
(* rows: MAX_ENTRIES is -1.                                                *)
(***************************************************************************)
EXTENDS MySQLCache

VARIABLE lease   \* per client and key: the expiry of its latest lease, or 0

leaseVars == <<clock, table, pc, call, now, cull, answer, lease>>

ASSUME LeaseAssumption ==
    /\ MaxEntries = -1
    /\ \A c \in Clients :
        Ops[c] \subseteq {"add", "get", "get_many", "get_with_prefix",
                          "keys_with_prefix", "has_key", "incr", "decr",
                          "cull"}

\* The step ends an add() of client c on key k that answers True.
Acquires(c, k) ==
    /\ answer'.client = c /\ answer'.op = "add" /\ answer'.outcome = "True"
    /\ call[c].keys = {k}

LeaseInit == Init /\ lease = [c \in Clients |-> [k \in Keys |-> 0]]

LeaseNext ==
    /\ Next
    /\ lease' = [c \in Clients |->
                    [k \in Keys |-> IF Acquires(c, k)
                                    THEN call[c].values[k].expires
                                    ELSE lease[c][k]]]

LeaseSpec == LeaseInit /\ [][LeaseNext]_leaseVars

\* A lease is active as long as no client's clock has reached its expiry.
Active(c, k) == \A d \in Clients : lease[c][k] > Now(d)

\* At most one client at a time has an active lease on a key, however long
\* its add() took, however the clocks differ, and whoever culls meanwhile.
LeaseExclusive ==
    \A k \in Keys, c, d \in Clients : Active(c, k) /\ Active(d, k) => c = d

\* What makes it so: an active lease is backed by a row that expires no
\* earlier, on which every other add() must fail.
LeaseBacked ==
    \A c \in Clients, k \in Keys :
        Active(c, k) => /\ table[k] # NoRow
                        /\ table[k].expires >= lease[c][k]

\* Nobody compares with a time that its clock has not reached, and the size
\* of the table is never culled.
LeaseControl ==
    \A c \in Clients :
        /\ now[c] <= Now(c)
        /\ pc[c] \in {"idle", "execute", "cull_expired"}
        /\ pc[c] # "idle" => call[c].op \in Ops[c]

\* The inductive invariant behind LeaseExclusive.
LeaseInv ==
    /\ lease \in [Clients -> [Keys -> Int]]
    /\ LeaseControl
    /\ LeaseBacked
    /\ LeaseExclusive

=============================================================================
