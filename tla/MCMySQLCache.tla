---------------------------- MODULE MCMySQLCache ----------------------------
(***************************************************************************)
(* Instances of MySQLCache for TLC, and its liveness properties.           *)
(***************************************************************************)
EXTENDS CacheRefinement, TLC

CONSTANTS c1, c2

\* Objects, by the cases encode() tells apart
OneInt == {[kind |-> "int", n |-> 0]}
IntAndLarge == {[kind |-> "int", n |-> 0], [kind |-> "large", n |-> 1]}

PairOrNothing == {{}, {1, 2}}
Pair == {{1, 2}}
NoSets == {}

Short == {1}
ZeroShortDefault == {0, 1, Default}
ZeroOrForever == {0, None}
ShortOrForever == {1, None}
PlusOne == {1}
NoDeltas == {}

\* A configuration file has no negative numbers.
MinusOne == -1
Unlimited == -1

\* Workloads
OneKeyCalls == [c \in Clients |-> {"set", "add", "get", "has_key", "touch",
                                  "delete", "incr", "decr"}]
AllCalls == [c \in Clients |-> Methods]
SetAndCull == [c \in Clients |-> {"set", "cull"}]
\* c1 is the periodic cull_mysql_caches, the others use the cache
CronAndUsers == [c \in Clients |-> IF c = c1 THEN {"cull"} ELSE {"set", "add"}]

NoSkew == [c \in Clients |-> 0]
SomeSkew == [c \in Clients |-> IF c = c1 THEN 0 ELSE 1]
\* c1 runs with compression, the others without
MixedCompress == [c \in Clients |-> c = c1]
NoCompress == [c \in Clients |-> FALSE]

ClientSymmetry == Permutations(Clients)

-----------------------------------------------------------------------------
(* Liveness *)

\* Every call returns: an interleaved cull cannot keep a caller busy.
CallsReturn == \A c \in Clients : pc[c] # "idle" ~> pc[c] = "idle"

\* With a client that culls again and again, an expired row does not stay.
ExpiredGoes ==
    \A k \in Keys :
        (table[k] # NoRow /\ table[k].expires < clock)
            ~> (table[k] = NoRow \/ table[k].expires >= clock)

\* A thread that runs a call keeps running it, time passes, and the schedule
\* of the periodic cull comes round; nobody has to call anything else.
FairSpec ==
    /\ Spec
    /\ WF_vars(Tick)
    /\ \A c \in Clients : WF_vars(Steps(c)) /\ WF_vars(Cull(c))

=============================================================================
