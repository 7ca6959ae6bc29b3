--------------------------- MODULE MCCacheContract ---------------------------
(***************************************************************************)
(* Two workloads of MySQLCache for TLC: the methods that work on one key,  *)
(* and those that work on several, with culling.  A behaviour has one of   *)
(* them.                                                                   *)
(***************************************************************************)
EXTENDS MCMySQLCache

CONSTANTS OneKeyMethods, BatchTime  \* bound of the model: the clock with batches

VARIABLE workload

\* One key, no culls, no timeouts of 0.
OneKeyStep ==
    \A c \in Clients :
        /\ call'[c].op \in OneKeyMethods \cup {"none"}
        /\ call'[c].keys \subseteq {1}
        /\ pc'[c] # "cull_expired"
        /\ pc[c] = "idle" /\ call'[c].op = "touch" => call'[c].exp > Now(c)
        /\ pc[c] = "idle" /\ call'[c].op \in {"set", "add"} =>
                call'[c].values[1].expires > Now(c)

\* All keys, culls: integers only.
BatchStep ==
    /\ clock' <= BatchTime
    /\ \A c \in Clients :
        /\ call'[c].op \notin OneKeyMethods
        /\ \A k \in call'[c].keys :
            call'[c].values[k] # NoRow => call'[c].values[k].value_type = "i"

MixedInit == Init /\ workload \in {"one key", "batches"}
OneKeyNext == workload = "one key" /\ Next /\ OneKeyStep /\ UNCHANGED workload
BatchNext == workload = "batches" /\ Next /\ BatchStep /\ UNCHANGED workload
MixedNext == OneKeyNext \/ BatchNext

MixedSpec == MixedInit /\ [][MixedNext]_<<vars, workload>>

=============================================================================
