----------------------------- MODULE MCServices -----------------------------
(***************************************************************************)
(* Instances for TLC of four components that share no state: a behaviour   *)
(* runs one of them, which the variable part names.                        *)
(***************************************************************************)
EXTENDS LoadWait, OverrideVariables, Migrations, CacheKeys

CONSTANT MaxRows  \* bound of the model: rows in the cache table

VARIABLE part

vars == <<loadVars, overrideVars, migrationVars, cacheKeyVars, part>>

Init ==
    /\ LoadInit /\ OverrideInit /\ MigrationsInit /\ CacheKeysInit
    /\ part \in {"load", "override", "migrations", "keys"}
    /\ part # "load" => load = [n \in Variables |-> 0]
    /\ part # "override" => sysVars = [v \in SysVars |-> 0]
    /\ part # "migrations" => plugins = {} /\ engine = "InnoDB" /\ allowed

LoadPart == /\ part = "load" /\ LoadNext
            /\ UNCHANGED <<overrideVars, migrationVars, cacheKeyVars, part>>
OverridePart == /\ part = "override" /\ OverrideNext
                /\ UNCHANGED <<loadVars, migrationVars, cacheKeyVars, part>>
MigrationsPart == /\ part = "migrations" /\ MigrationsNext
                  /\ UNCHANGED <<loadVars, overrideVars, cacheKeyVars, part>>
KeysPart == /\ part = "keys" /\ CacheKeysNext
            /\ Cardinality(DOMAIN cacheRows') <= MaxRows
            /\ UNCHANGED <<loadVars, overrideVars, migrationVars, part>>

Next == LoadPart \/ OverridePart \/ MigrationsPart \/ KeysPart

Others == <<overrideVars, migrationVars, cacheKeyVars, part>>

Spec == Init /\ [][Next]_vars

\* The waiting thread and the clock go on; the load need not change.
FairSpec ==
    /\ Spec
    /\ WF_vars((Poll \/ Decide \/ Wake) /\ UNCHANGED Others)
    /\ WF_vars(TimePasses /\ UNCHANGED Others)

GivenThresholds == {[n \in {"running"} |-> 1],
                    [n \in {"running", "misspelt"} |-> 0]}
BlockOptions == [o \in Overrides |->
    CASE o = "both" -> <<<<"a", 1>>, <<"b", 0>>>>
      [] o = "second" -> <<<<"b", 1>>>>
      [] o = "bad" -> <<<<"a", 0>>, <<"b", Refused>>>>]
PluginNames == {<<"_">>, <<"x">>, <<"b", "b">>}
PluginToInstall == <<"_">>
Doing(op, forwards, e) == [op |-> op, forwards |-> forwards, engine |-> e]
MigrationRuns ==
    {Doing(op, f, NoEngine) : op \in {"InstallPlugin", "InstallSOName"},
                              f \in BOOLEAN}
        \cup {Doing("AlterStorageEngine", TRUE, "MyISAM"),
              Doing("AlterStorageEngine", FALSE, "InnoDB"),
              Doing("AlterStorageEngine", FALSE, NoEngine)}
CachePrefixes == [c \in Caches |->
    CASE c = "default" -> <<>> [] c = "app" -> <<"p">>]
CacheKeysUsed == {<<"a">>, <<"a", Backslash>>, <<"1", ":", "a">>}
PrefixesUsed == {<<>>, <<"a">>, <<"1", ":">>, <<"a", Backslash>>}

=============================================================================
