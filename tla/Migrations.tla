----------------------------- MODULE Migrations ------------------------------
(***************************************************************************)
(* The migration operations InstallPlugin, InstallSOName and               *)
(* AlterStorageEngine, run by processes that migrate one server at the     *)
(* same time.  The first and the last test in one statement whether there  *)
(* is something to do, and do it in the next.                              *)
(***************************************************************************)
EXTENDS LikePattern

CONSTANTS
    Migrators,  \* processes
    Plugins,    \* names of plugins, sequences of characters
    Plugin,     \* the one to install
    Engines,
    NoEngine,   \* for the argument from_engine that is not given
    Operations  \* the operations run: [op, forwards, engine], with the
                \* engine to set in this direction

ASSUME MigrationsAssumption ==
    /\ Plugin \in Plugins /\ NoEngine \notin Engines
    /\ Like(Plugin, Plugin)
    /\ Operations \subseteq
            [op : {"InstallPlugin", "InstallSOName", "AlterStorageEngine"},
             forwards : BOOLEAN, engine : Engines \cup {NoEngine}]

VARIABLES
    plugins,  \* in the server: the installed plugins
    engine,   \* in the server: the engine of the model's table
    runs,     \* per process: its operation, where in it it is, what others
              \* did to the server since it began, and, for the properties,
              \* whether its statement was refused whatever the state
    allowed   \* the router lets the model's table be migrated here

migrationVars == <<plugins, engine, runs, allowed>>

NoRun == [do |-> [op |-> "none", forwards |-> TRUE, engine |-> NoEngine],
          at |-> "done", since |-> {}, refused |-> FALSE]

MigrationsInit ==
    /\ plugins \in SUBSET Plugins
    /\ engine \in Engines
    /\ runs = [p \in Migrators |-> NoRun]
    /\ allowed \in BOOLEAN

\* plugin_installed() compares with LIKE.
PluginLacks == Plugin \notin plugins  \* mutant: the answer turned round
PluginInstalled == \E name \in plugins : Like(name, Plugin)

\* The statement that tests, and what comes of it.
Tests(o) ==
    CASE o.op = "InstallPlugin" ->
            IF PluginInstalled = o.forwards THEN "done" ELSE "act"
      [] o.op = "InstallSOName" -> "act"
      [] o.op = "AlterStorageEngine" ->
            IF o.engine = NoEngine THEN "NotImplementedError"
            ELSE IF ~allowed \/ engine = o.engine THEN "done" ELSE "act"

Start(p, o) ==
    /\ runs[p].at # "act"
    /\ runs' = [runs EXCEPT ![p] = [do |-> o, at |-> Tests(o), since |-> {},
                                    refused |-> FALSE]]
    /\ UNCHANGED <<plugins, engine, allowed>>

\* The second statement of p ends; the others may be between their two.
Ends(p, at, effect) ==
    runs' = [q \in Migrators |->
                IF q = p THEN [runs[p] EXCEPT !.at = at]
                ELSE [runs[q] EXCEPT !.since = @ \cup effect]]

\* INSTALL fails on a plugin that is there, UNINSTALL on one that is not.
ChangePlugin(p) ==
    LET forwards == runs[p].do.forwards IN
    /\ runs[p].at = "act" /\ runs[p].do.op \in {"InstallPlugin", "InstallSOName"}
    /\ IF (Plugin \in plugins) = forwards
       THEN Ends(p, "OperationalError", {}) /\ UNCHANGED plugins
       ELSE /\ plugins' = IF forwards THEN plugins \cup {Plugin}
                                      ELSE plugins \ {Plugin}
            /\ Ends(p, "done", {IF forwards THEN "install" ELSE "uninstall"})
    /\ UNCHANGED <<engine, allowed>>

AlterEngine(p) ==
    /\ runs[p].at = "act" /\ runs[p].do.op = "AlterStorageEngine"
    /\ engine' = runs[p].do.engine
    /\ Ends(p, "done", {"engine"})
    /\ UNCHANGED <<plugins, allowed>>

\* The server may refuse any of these statements for reasons of its own: no
\* such library, privilege or engine, a feature that the engine lacks.
Refuse(p) ==
    /\ runs[p].at = "act"
    /\ runs' = [runs EXCEPT ![p].at = "OperationalError", ![p].refused = TRUE]
    /\ UNCHANGED <<plugins, engine, allowed>>

MigrationsNext ==
    \E p \in Migrators :
        \/ \E o \in Operations : Start(p, o)
        \/ ChangePlugin(p) \/ AlterEngine(p) \/ Refuse(p)

MigrationsSpec == MigrationsInit /\ [][MigrationsNext]_migrationVars

-----------------------------------------------------------------------------
(* Properties *)

LookAlike == \E name \in plugins \ {Plugin} : Like(name, Plugin)

\* However migrations interleave, and whatever statements the server refuses:
\* when InstallPlugin has returned the plugin is there, and gone after its
\* reverse, until another process does the opposite.  So it is when it has
\* raised, unless the server refused its statement whatever the state: then
\* nothing is said.  This needs names that LIKE keeps apart.  Likewise for the
\* table's engine.
EffectHolds ==
    \A p \in Migrators :
        LET r == runs[p] IN
        r.at \in {"done", "OperationalError"} /\ ~r.refused =>
            CASE r.do.op = "InstallPlugin" /\ r.do.forwards ->
                    Plugin \in plugins \/ LookAlike \/ "uninstall" \in r.since
              [] r.do.op = "InstallPlugin" /\ ~r.do.forwards ->
                    Plugin \notin plugins \/ "install" \in r.since
              [] r.do.op = "AlterStorageEngine" ->
                    engine = r.do.engine \/ "engine" \in r.since \/ ~allowed
              [] OTHER -> TRUE

\* InstallPlugin can be run again, also after a migration that failed: that
\* the plugin is there already, or gone, makes it raise only if another process
\* changed that between its two statements, or for a look-alike.  What
\* remains are the server's refusals.
FailsOnlyInRace ==
    \A p \in Migrators :
        /\ runs[p].at = "OperationalError" /\ ~runs[p].refused
        /\ runs[p].do.op = "InstallPlugin"
        => LookAlike \/ runs[p].since \cap {"install", "uninstall"} # {}

=============================================================================
