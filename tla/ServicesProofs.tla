--------------------------- MODULE ServicesProofs ---------------------------
(***************************************************************************)
(* Three components that share no state.                                   *)
(*                                                                         *)
(* Migrations have their effect, and InstallPlugin fails only in a race or *)
(* when the server refuses its statement: for any number of processes, any *)
(* plugins and engines.  The invariant keeps what a process found in its   *)
(* first statement true until another process changes it, which its since  *)
(* then tells.                                                             *)
(*                                                                         *)
(* An ended block of overridden variables has restored what was there      *)
(* before it, however blocks nest and fail.  The old values are in user    *)
(* variables that only the innermost block of an instance owns.            *)
(*                                                                         *)
(* A prefix of cache keys is exact, whatever other keys share the table:   *)
(* LIKE with one % at the end asks for a beginning (LikeFindsBeginnings),  *)
(* and the first colon of a made key ends its KEY_PREFIX (SameCache).      *)
(***************************************************************************)
EXTENDS Migrations, OverrideVariables, CacheKeys, Induction, SequenceTheorems

-----------------------------------------------------------------------------
(* Migrations *)


Run == [do : Operations \cup {NoRun.do},
        at : {"done", "act", "NotImplementedError", "OperationalError"},
        since : SUBSET {"install", "uninstall", "engine"},
        refused : BOOLEAN]

MigrationsTypeOK ==
    /\ plugins \subseteq Plugins /\ engine \in Engines /\ allowed \in BOOLEAN
    /\ runs \in [Migrators -> Run]

\* Between the statements of p: what it found, unless others changed it.
FoundHolds(r) ==
    r.at = "act" =>
        /\ r.do.op = "AlterStorageEngine" => r.do.engine # NoEngine
        /\ r.do.op = "InstallPlugin" =>
               IF r.do.forwards
               THEN Plugin \notin plugins \/ "install" \in r.since
               ELSE Plugin \in plugins \/ LookAlike \/ "uninstall" \in r.since

\* The cases of EffectHolds.
Effective(r) ==
    r.at \in {"done", "OperationalError"} /\ ~r.refused =>
        /\ r.do.op = "InstallPlugin" /\ r.do.forwards =>
               Plugin \in plugins \/ LookAlike \/ "uninstall" \in r.since
        /\ r.do.op = "InstallPlugin" /\ ~r.do.forwards =>
               Plugin \notin plugins \/ "install" \in r.since
        /\ r.do.op = "AlterStorageEngine" =>
               engine = r.do.engine \/ "engine" \in r.since \/ ~allowed

Excused(r) ==
    r.at = "OperationalError" /\ ~r.refused /\ r.do.op = "InstallPlugin" =>
        LookAlike \/ r.since \cap {"install", "uninstall"} # {}

MigrationsInv ==
    /\ MigrationsTypeOK
    /\ \A p \in Migrators :
           FoundHolds(runs[p]) /\ Effective(runs[p]) /\ Excused(runs[p])

-----------------------------------------------------------------------------

LEMMA MigrationsStart == MigrationsInit => MigrationsInv
<1> SUFFICES ASSUME MigrationsInit
             PROVE  MigrationsInv
  OBVIOUS
<1>1. NoRun \in Run /\ NoRun.at = "done" /\ NoRun.do.op = "none"
  BY DEF NoRun, Run
<1>2. \A p \in Migrators : runs[p] = NoRun
  BY DEF MigrationsInit
<1> QED
  BY <1>1, <1>2 DEF MigrationsInit, MigrationsInv, MigrationsTypeOK,
                    FoundHolds, Effective, Excused

\* What p finds is so when it finds it.
LEMMA StartStep ==
    ASSUME MigrationsInv, NEW p \in Migrators, NEW o \in Operations, Start(p, o)
    PROVE  MigrationsInv'
<1> DEFINE r == [do |-> o, at |-> Tests(o), since |-> {}, refused |-> FALSE]
<1>1. /\ runs' = [runs EXCEPT ![p] = r]
      /\ UNCHANGED <<plugins, engine, allowed>>
  BY DEF Start
<1>2. /\ o.op \in {"InstallPlugin", "InstallSOName", "AlterStorageEngine"}
      /\ o.forwards \in BOOLEAN
  BY MigrationsAssumption
<1>3. o.op = "InstallPlugin" =>
          Tests(o) = IF PluginInstalled = o.forwards THEN "done" ELSE "act"
  BY DEF Tests
<1>4. o.op = "InstallSOName" => Tests(o) = "act"
  BY DEF Tests
<1>5. o.op = "AlterStorageEngine" =>
          Tests(o) = IF o.engine = NoEngine THEN "NotImplementedError"
                     ELSE IF ~allowed \/ engine = o.engine THEN "done" ELSE "act"
  BY DEF Tests
<1>6. Tests(o) \in {"done", "act", "NotImplementedError"}
  BY <1>2, <1>3, <1>4, <1>5
<1>7. MigrationsTypeOK'
  BY <1>1, <1>6 DEF MigrationsInv, MigrationsTypeOK, Run
<1>8. runs'[p] = r /\ \A q \in Migrators \ {p} : runs'[q] = runs[q]
  BY <1>1 DEF MigrationsInv, MigrationsTypeOK
\* A plugin is like itself; one that is like it is a look-alike.
<1>9. /\ Plugin \in plugins => PluginInstalled
      /\ PluginInstalled => Plugin \in plugins \/ LookAlike
  BY MigrationsAssumption DEF PluginInstalled, LookAlike
<1>10. FoundHolds(r) /\ Effective(r) /\ Excused(r)
  <2>1. CASE o.op = "InstallPlugin"
    <3>1. CASE PluginInstalled = o.forwards
      <4>1. Tests(o) = "done"
        BY <1>3, <2>1, <3>1
      <4> QED
        BY <1>2, <1>9, <2>1, <3>1, <4>1 DEF FoundHolds, Effective, Excused
    <3>2. CASE PluginInstalled # o.forwards
      <4>1. Tests(o) = "act" /\ PluginInstalled = ~o.forwards
        BY <1>2, <1>3, <2>1, <3>2 DEF PluginInstalled
      <4> QED
        BY <1>2, <1>9, <2>1, <4>1 DEF FoundHolds, Effective, Excused
    <3> QED
      BY <3>1, <3>2
  <2>2. CASE o.op = "InstallSOName"
    BY <1>4, <2>2 DEF FoundHolds, Effective, Excused
  <2>3. CASE o.op = "AlterStorageEngine"
    BY <1>5, <2>3 DEF FoundHolds, Effective, Excused
  <2> QED
    BY <1>2, <2>1, <2>2, <2>3
<1>11. \A q \in Migrators : (FoundHolds(runs[q]) /\ Effective(runs[q])
                               /\ Excused(runs[q]))'
  BY <1>1, <1>8, <1>10 DEF MigrationsInv, FoundHolds, Effective, Excused,
                           LookAlike
<1> QED
  BY <1>7, <1>11 DEF MigrationsInv


\* An effect of p is in the since of all others.
LEMMA EffectStep ==
    ASSUME MigrationsInv, NEW p \in Migrators, ChangePlugin(p) \/ AlterEngine(p)
    PROVE  MigrationsInv'
<1> DEFINE r == runs[p]
<1>0. /\ r \in Run /\ r.at = "act" /\ r.do.forwards \in BOOLEAN
      /\ plugins \subseteq Plugins /\ engine \in Engines
      /\ runs \in [Migrators -> Run]
  BY MigrationsAssumption
     DEF ChangePlugin, AlterEngine, MigrationsInv, MigrationsTypeOK, Run, NoRun
<1>1. ASSUME NEW at \in {"done", "OperationalError"},
             NEW effect \in SUBSET {"install", "uninstall", "engine"},
             Ends(p, at, effect)
      PROVE  /\ runs' \in [Migrators -> Run]
             /\ runs'[p].at = at /\ runs'[p].do = r.do /\ runs'[p].since = r.since
             /\ \A q \in Migrators \ {p} :
                    /\ runs'[q].at = runs[q].at /\ runs'[q].do = runs[q].do
                    /\ runs'[q].since = runs[q].since \cup effect
                    /\ runs'[q].refused = runs[q].refused
  BY <1>0, <1>1 DEF Ends, Run
<1>2. CASE AlterEngine(p)
  <2>1. /\ r.do.op = "AlterStorageEngine" /\ engine' = r.do.engine
        /\ Ends(p, "done", {"engine"}) /\ UNCHANGED <<plugins, allowed>>
    BY <1>2 DEF AlterEngine
  <2>2. engine' \in Engines
    <3>1. r.do \in Operations /\ r.do.engine # NoEngine
      BY <1>0, <2>1 DEF MigrationsInv, FoundHolds, Run, NoRun
    <3> QED
      BY <2>1, <3>1, MigrationsAssumption
  <2>3. MigrationsTypeOK'
    BY <1>0, <1>1, <2>1, <2>2 DEF MigrationsInv, MigrationsTypeOK
  <2>4. ASSUME NEW q \in Migrators
        PROVE  (FoundHolds(runs[q]) /\ Effective(runs[q]) /\ Excused(runs[q]))'
    <3>1. CASE q = p
      BY <1>1, <2>1, <3>1 DEF FoundHolds, Effective, Excused
    <3>2. CASE q # p
      BY <1>1, <2>1, <3>2
         DEF MigrationsInv, FoundHolds, Effective, Excused, LookAlike
    <3> QED
      BY <3>1, <3>2
  <2> QED
    BY <2>3, <2>4 DEF MigrationsInv
<1>3. CASE ChangePlugin(p)
  <2>1. /\ r.do.op \in {"InstallPlugin", "InstallSOName"}
        /\ UNCHANGED <<engine, allowed>>
    BY <1>3 DEF ChangePlugin
  <2>2. CASE (Plugin \in plugins) = r.do.forwards
    <3>1. Ends(p, "OperationalError", {}) /\ plugins' = plugins
      BY <1>3, <2>2 DEF ChangePlugin
    <3>2. MigrationsTypeOK'
      BY <1>0, <1>1, <2>1, <3>1 DEF MigrationsInv, MigrationsTypeOK
    <3>3. ASSUME NEW q \in Migrators
          PROVE  (FoundHolds(runs[q]) /\ Effective(runs[q]) /\ Excused(runs[q]))'
      <4>1. CASE q = p
        BY <1>0, <1>1, <2>1, <2>2, <3>1, <4>1
           DEF MigrationsInv, FoundHolds, Effective, Excused, LookAlike
      <4>2. CASE q # p
        BY <1>1, <2>1, <3>1, <4>2
           DEF MigrationsInv, FoundHolds, Effective, Excused, LookAlike
      <4> QED
        BY <4>1, <4>2
    <3> QED
      BY <3>2, <3>3 DEF MigrationsInv
  <2>3. CASE (Plugin \in plugins) # r.do.forwards
    <3> DEFINE effect == {IF r.do.forwards THEN "install" ELSE "uninstall"}
    <3>1. /\ Ends(p, "done", effect)
          /\ plugins' = IF r.do.forwards THEN plugins \cup {Plugin}
                                         ELSE plugins \ {Plugin}
      BY <1>3, <2>3 DEF ChangePlugin
    <3>2. LookAlike' = LookAlike
      BY <1>0, <3>1 DEF LookAlike
    <3>3. MigrationsTypeOK'
      BY <1>0, <1>1, <2>1, <3>1, MigrationsAssumption
         DEF MigrationsInv, MigrationsTypeOK
    <3>4. ASSUME NEW q \in Migrators
          PROVE  (FoundHolds(runs[q]) /\ Effective(runs[q]) /\ Excused(runs[q]))'
      <4>1. CASE q = p
        BY <1>0, <1>1, <2>1, <3>1, <4>1 DEF FoundHolds, Effective, Excused
      <4>2. CASE q # p
        <5>1. FoundHolds(runs[q]) /\ Effective(runs[q]) /\ Excused(runs[q])
          BY DEF MigrationsInv
        <5>2. /\ runs'[q].at = runs[q].at /\ runs'[q].do = runs[q].do
              /\ runs'[q].since = runs[q].since \cup effect
              /\ runs'[q].refused = runs[q].refused
          BY <1>1, <3>1, <4>2
        <5>3. CASE r.do.forwards
          <6>1. Plugin \in plugins' /\ "install" \in runs'[q].since
            BY <3>1, <5>2, <5>3
          <6> QED
            BY <2>1, <3>2, <5>1, <5>2, <6>1 DEF FoundHolds, Effective, Excused
        <5>4. CASE ~r.do.forwards
          <6>1. Plugin \notin plugins' /\ "uninstall" \in runs'[q].since
            BY <3>1, <5>2, <5>4
          <6> QED
            BY <2>1, <3>2, <5>1, <5>2, <6>1 DEF FoundHolds, Effective, Excused
        <5> QED
          BY <5>3, <5>4
      <4> QED
        BY <4>1, <4>2
    <3> QED
      BY <3>3, <3>4 DEF MigrationsInv
  <2> QED
    BY <2>2, <2>3
<1> QED
  BY <1>2, <1>3

\* Of a run whose statement was refused nothing is claimed.
LEMMA RefuseStep ==
    ASSUME MigrationsInv, NEW p \in Migrators, Refuse(p)
    PROVE  MigrationsInv'
<1>1. /\ runs \in [Migrators -> Run]
      /\ runs' = [runs EXCEPT ![p].at = "OperationalError", ![p].refused = TRUE]
      /\ UNCHANGED <<plugins, engine, allowed>>
  BY DEF Refuse, MigrationsInv, MigrationsTypeOK
<1>2. /\ runs' \in [Migrators -> Run]
      /\ runs'[p].at = "OperationalError" /\ runs'[p].refused = TRUE
      /\ \A q \in Migrators \ {p} : runs'[q] = runs[q]
  BY <1>1 DEF Run
<1>3. ASSUME NEW q \in Migrators
      PROVE  (FoundHolds(runs[q]) /\ Effective(runs[q]) /\ Excused(runs[q]))'
  <2>1. CASE q = p
    BY <1>2, <2>1 DEF FoundHolds, Effective, Excused
  <2>2. CASE q # p
    BY <1>1, <1>2, <2>2
       DEF MigrationsInv, FoundHolds, Effective, Excused, LookAlike
  <2> QED
    BY <2>1, <2>2
<1> QED
  BY <1>1, <1>2, <1>3 DEF MigrationsInv, MigrationsTypeOK

LEMMA MigrationsInvariant == MigrationsSpec => []MigrationsInv
<1>1. MigrationsInv /\ [MigrationsNext]_migrationVars => MigrationsInv'
  <2>1. CASE MigrationsNext
    BY <2>1, StartStep, EffectStep, RefuseStep DEF MigrationsNext
  <2>2. CASE UNCHANGED migrationVars
    BY <2>2 DEF migrationVars, MigrationsInv, MigrationsTypeOK, FoundHolds,
                Effective, Excused, LookAlike
  <2> QED
    BY <2>1, <2>2
<1> QED
  BY <1>1, MigrationsStart, PTL DEF MigrationsSpec

-----------------------------------------------------------------------------

\* After InstallPlugin, its reverse or AlterStorageEngine, whether it found
\* nothing to do, did it or came too late for it, the server is as asked, unless
\* it refused the statement for a reason of its own, a look-alike was taken for
\* the plugin or another process undid it since.
THEOREM MigrationsTakeEffect == MigrationsSpec => []EffectHolds
<1>1. MigrationsInv => EffectHolds
  <2> SUFFICES ASSUME MigrationsInv, NEW p \in Migrators,
                      runs[p].at \in {"done", "OperationalError"}, ~runs[p].refused
               PROVE  CASE runs[p].do.op = "InstallPlugin" /\ runs[p].do.forwards ->
                              Plugin \in plugins \/ LookAlike
                              \/ "uninstall" \in runs[p].since
                        [] runs[p].do.op = "InstallPlugin" /\ ~runs[p].do.forwards ->
                              Plugin \notin plugins \/ "install" \in runs[p].since
                        [] runs[p].do.op = "AlterStorageEngine" ->
                              engine = runs[p].do.engine
                              \/ "engine" \in runs[p].since \/ ~allowed
                        [] OTHER -> TRUE
    BY DEF EffectHolds
  <2>1. Effective(runs[p])
    BY DEF MigrationsInv
  <2> QED
    BY <2>1 DEF Effective
<1> QED
  BY <1>1, MigrationsInvariant, PTL

\* Unless the server refuses their statement for a reason of its own,
\* InstallPlugin and its reverse raise only if another process installed or
\* uninstalled the plugin after they tested for it, or for a look-alike.
THEOREM InstallFailsOnlyInRace == MigrationsSpec => []FailsOnlyInRace
<1>1. MigrationsInv => FailsOnlyInRace
  BY DEF MigrationsInv, Excused, FailsOnlyInRace
<1> QED
  BY <1>1, MigrationsInvariant, PTL

-----------------------------------------------------------------------------
(* Overridden variables *)


OverrideSpec == OverrideInit /\ [][OverrideNext]_overrideVars

Block == [by : Overrides, at : {"enable", "in", "disable"}, i : Nat \ {0},
          before : [SysVars -> SysValues]]

OverrideTyped ==
    /\ sysVars \in [SysVars -> SysValues]
    /\ overridden \in [Overrides -> [SysVars -> SysValues \cup {Null}]]
    /\ blocks \in Seq(Block)

\* The variable of the j-th option of b, and the options that were passed.
Var(b, j) == Options[b.by][j][1]
Given(b) == 1..Len(Options[b.by])

\* Only the innermost block is between two statements; a block that was
\* entered has no refused value.
Entered(b) ==
    /\ b.i <= Len(Options[b.by]) + 1
    /\ \A j \in Given(b) :
           (b.at = "enable" => j < b.i) => Options[b.by][j][2] # Refused
InOrder ==
    \A k \in 1..Len(blocks) :
        Entered(blocks[k]) /\ (k < Len(blocks) => blocks[k].at = "in")

\* While enable() runs, a variable that is not yet set is as before; while
\* disable() runs, one that was reset is.
AsBefore ==
    blocks # <<>> =>
        /\ Top.at = "enable" =>
            \A v \in SysVars : (\A j \in Given(Top) : j < Top.i => Var(Top, j) # v)
                                    => sysVars[v] = Top.before[v]
        /\ Top.at = "disable" =>
            \A j \in Given(Top) : j < Top.i =>
                sysVars[Var(Top, j)] = Top.before[Var(Top, j)]

\* What the user variables old of an instance hold for its innermost block b:
\* the values before b, or nothing since a block inside of b has taken them.
Kept(b, old, j) == old[Var(b, j)] = b.before[Var(b, j)]
Empty(b, old) == \A j \in Given(b) : old[Var(b, j)] = Null
Saved(b, old) ==
    /\ b.at = "enable" => \A j \in Given(b) : j < b.i => Kept(b, old, j)
    /\ b.at = "in" => Empty(b, old) \/ \A j \in Given(b) : Kept(b, old, j)
    /\ b.at = "disable" =>
           \/ b.i = 1 /\ Empty(b, old)
           \/ \A j \in Given(b) : IF j < b.i THEN old[Var(b, j)] = Null
                                             ELSE Kept(b, old, j)

Innermost(k) == \A m \in k + 1..Len(blocks) : blocks[m].by # blocks[k].by
AllSaved == \A k \in 1..Len(blocks) :
                Innermost(k) => Saved(blocks[k], overridden[blocks[k].by])

OverrideInv == OverrideTyped /\ InOrder /\ AsBefore /\ AllSaved

-----------------------------------------------------------------------------

LEMMA OptionType ==
    ASSUME NEW b \in Block, NEW j \in Given(b)
    PROVE  /\ Var(b, j) \in SysVars
           /\ Options[b.by][j] \in SysVars \X (SysValues \cup {Refused})
           /\ Len(Options[b.by]) \in Nat
<1>1. Options[b.by] \in Seq(SysVars \X (SysValues \cup {Refused}))
  BY OverrideAssumption DEF Block
<1> QED
  BY <1>1 DEF Given, Var

\* The keys of a dict are distinct.
LEMMA VarsDiffer ==
    ASSUME NEW b \in Block, NEW i \in Given(b), NEW j \in Given(b), i # j
    PROVE  Var(b, i) # Var(b, j)
<1>1. Options[b.by] \in Seq(SysVars \X (SysValues \cup {Refused}))
  BY OverrideAssumption DEF Block
<1>2. i \in DOMAIN Options[b.by] /\ j \in DOMAIN Options[b.by]
  BY <1>1 DEF Given
<1> QED
  BY <1>2, OverrideAssumption DEF Var, Block

LEMMA TopBlock ==
    ASSUME blocks \in Seq(Block), blocks # <<>>
    PROVE  Top \in Block /\ Len(blocks) \in Nat \ {0}
  BY DEF Top

LEMMA PopBlocks ==
    ASSUME blocks \in Seq(Block), blocks # <<>>, blocks' = Pop
    PROVE  /\ blocks' \in Seq(Block)
           /\ Len(blocks') = Len(blocks) - 1
           /\ \A k \in 1..Len(blocks) - 1 : blocks'[k] = blocks[k]
<1>1. Len(blocks) \in Nat \ {0}
  BY TopBlock
<1>2. /\ Pop \in Seq(Block) /\ Len(Pop) = Len(blocks) - 1
      /\ \A k \in 1..Len(blocks) - 1 : Pop[k] = blocks[k]
  <2>1. \A k \in 1..Len(blocks) - 1 : blocks[k] \in Block
    BY <1>1
  <2>2. 1 \in Int /\ Len(blocks) - 1 \in Int
    BY <1>1
  <2>3. /\ SubSeq(blocks, 1, Len(blocks) - 1) \in Seq(Block)
        /\ Len(SubSeq(blocks, 1, Len(blocks) - 1)) =
               IF 1 <= Len(blocks) - 1 THEN Len(blocks) - 1 - 1 + 1 ELSE 0
        /\ \A k \in 1..Len(blocks) - 1 - 1 + 1 :
               SubSeq(blocks, 1, Len(blocks) - 1)[k] = blocks[1 + k - 1]
    BY <2>1, <2>2, SubSeqProperties
  <2>4. \A k \in 1..Len(blocks) - 1 : 1 + k - 1 = k
    BY <1>1
  <2>5. (IF 1 <= Len(blocks) - 1 THEN Len(blocks) - 1 - 1 + 1 ELSE 0) =
            Len(blocks) - 1
    BY <1>1
  <2>6. Len(blocks) - 1 - 1 + 1 = Len(blocks) - 1
    BY <1>1
  <2> QED
    BY <2>3, <2>4, <2>5, <2>6 DEF Pop
<1> QED
  BY <1>2

LEMMA GotoBlocks ==
    ASSUME blocks \in Seq(Block), blocks # <<>>,
           NEW at \in {"enable", "in", "disable"}, NEW i \in Nat \ {0},
           blocks' = Goto(at, i)
    PROVE  /\ blocks' \in Seq(Block)
           /\ Len(blocks') = Len(blocks)
           /\ \A k \in 1..Len(blocks) - 1 : blocks'[k] = blocks[k]
           /\ blocks'[Len(blocks)] = Top'
           /\ Top' = [by |-> Top.by, at |-> at, i |-> i, before |-> Top.before]
           /\ Top' \in Block
<1>1. Top \in Block /\ Len(blocks) \in Nat \ {0}
  BY TopBlock
<1>2. [by |-> Top.by, at |-> at, i |-> i, before |-> Top.before] \in Block
  BY <1>1 DEF Block
<1>3. blocks' = [blocks EXCEPT ![Len(blocks)] =
          [by |-> Top.by, at |-> at, i |-> i, before |-> Top.before]]
  BY DEF Goto
<1>4. /\ blocks' \in Seq(Block) /\ Len(blocks') = Len(blocks)
      /\ \A k \in 1..Len(blocks) - 1 : blocks'[k] = blocks[k]
      /\ blocks'[Len(blocks)] =
             [by |-> Top.by, at |-> at, i |-> i, before |-> Top.before]
  BY <1>1, <1>2, <1>3
<1> QED
  BY <1>2, <1>4 DEF Top

LEMMA OverrideStart == OverrideInit => OverrideInv
  BY DEF OverrideInit, OverrideInv, OverrideTyped, InOrder, AsBefore, AllSaved

\* A new block begins with the variables as they are.
LEMMA EnterKeeps ==
    ASSUME OverrideInv, NEW o \in Overrides, EnterBlock(o)
    PROVE  OverrideInv'
<1> DEFINE n == Len(blocks)
           b == [by |-> o, at |-> "enable", i |-> 1, before |-> sysVars]
<1>1. blocks \in Seq(Block) /\ b \in Block /\ n \in Nat
  BY DEF OverrideInv, OverrideTyped, Block
<1>2. /\ blocks' \in Seq(Block) /\ Len(blocks') = n + 1
      /\ \A k \in 1..n : blocks'[k] = blocks[k]
      /\ blocks'[n + 1] = b /\ Top' = b
      /\ sysVars' = sysVars /\ overridden' = overridden
  BY <1>1 DEF EnterBlock, Top
<1>3. n # 0 => blocks[n].at = "in"
  BY <1>1, TopBlock DEF EnterBlock, Busy, Top, Block
<1>4. Len(Options[o]) \in Nat
  BY OverrideAssumption
<1>5. InOrder'
  <2>1. Entered(b)
    BY <1>4 DEF Entered, Given
  <2>2. \A k \in 1..n : Entered(blocks[k]) /\ blocks[k].at = "in"
    BY <1>1, <1>3 DEF OverrideInv, InOrder
  <2>3. \A k \in 1..n + 1 : k \in 1..n \/ k = n + 1
    BY <1>1
  <2> QED
    BY <1>1, <1>2, <2>1, <2>2, <2>3 DEF InOrder
<1>6. AsBefore'
  BY <1>2 DEF AsBefore
<1>7. AllSaved'
  <2> SUFFICES ASSUME NEW k \in 1..n + 1, Innermost(k)'
               PROVE  Saved(blocks'[k], overridden'[blocks'[k].by])
    BY <1>2 DEF AllSaved
  <2>1. CASE k = n + 1
    BY <2>1, <1>2, <1>4 DEF Saved, Given
  <2>2. CASE k \in 1..n
    <3>1. Innermost(k)
      BY <2>2, <1>1, <1>2 DEF Innermost
    <3>2. Saved(blocks[k], overridden[blocks[k].by])
      BY <2>2, <3>1 DEF OverrideInv, AllSaved
    <3> QED
      BY <2>2, <3>2, <1>2
  <2> QED
    BY <2>1, <2>2, <1>1
<1> QED
  BY <1>2, <1>5, <1>6, <1>7 DEF OverrideInv, OverrideTyped

\* The blocks around the top one stay entered.
LEMMA OthersInOrder ==
    ASSUME OverrideInv, blocks # <<>>, Len(blocks') = Len(blocks),
           \A k \in 1..Len(blocks) - 1 : blocks'[k] = blocks[k],
           Entered(blocks'[Len(blocks)])
    PROVE  InOrder'
<1> DEFINE n == Len(blocks)
<1>1. n \in Nat \ {0}
  BY TopBlock DEF OverrideInv, OverrideTyped
<1>2. \A k \in 1..n - 1 : Entered(blocks[k]) /\ blocks[k].at = "in"
  BY <1>1 DEF OverrideInv, InOrder
<1>3. \A k \in 1..n : k \in 1..n - 1 \/ k = n
  BY <1>1
<1> QED
  BY <1>1, <1>2, <1>3 DEF InOrder

\* A statement of the top block about its i-th option touches the user
\* variables of its own instance only, which no other innermost block has.
LEMMA OthersSaved ==
    ASSUME OverrideInv, blocks # <<>>, Len(blocks') = Len(blocks),
           \A k \in 1..Len(blocks) - 1 : blocks'[k] = blocks[k],
           blocks'[Len(blocks)].by = Top.by,
           \A o \in Overrides \ {Top.by} : overridden'[o] = overridden[o],
           Saved(blocks'[Len(blocks)], overridden'[Top.by])
    PROVE  AllSaved'
<1> DEFINE n == Len(blocks)
<1>1. blocks \in Seq(Block) /\ n \in Nat \ {0} /\ Top = blocks[n]
  BY TopBlock DEF OverrideInv, OverrideTyped, Top
<1> SUFFICES ASSUME NEW k \in 1..n, Innermost(k)'
             PROVE  Saved(blocks'[k], overridden'[blocks'[k].by])
  BY DEF AllSaved
<1>2. CASE k = n
  BY <1>2, <1>1
<1>3. CASE k \in 1..n - 1
  <2>1. blocks'[k] = blocks[k] /\ blocks[k] \in Block /\ blocks[k].by # Top.by
    BY <1>1, <1>3 DEF Innermost
  <2>2. Innermost(k)
    BY <1>1, <1>3, <2>1 DEF Innermost
  <2>3. Saved(blocks[k], overridden[blocks[k].by])
    BY <1>1, <1>3, <2>2 DEF OverrideInv, AllSaved
  <2>4. overridden'[blocks[k].by] = overridden[blocks[k].by]
    BY <2>1 DEF Block
  <2> QED
    BY <2>1, <2>3, <2>4
<1> QED
  BY <1>1, <1>2, <1>3

\* enable() saves the value from before the block: no earlier option of the
\* block is for the same variable.
LEMMA SetOptionKeeps ==
    ASSUME OverrideInv, SetOption
    PROVE  OverrideInv'
<1> DEFINE n == Len(blocks)
           v == Option[1]
<1>1. /\ blocks \in Seq(Block) /\ Top \in Block /\ n \in Nat \ {0}
      /\ Top = blocks[n] /\ Top.i \in Nat \ {0} /\ Top.by \in Overrides
  BY TopBlock DEF OverrideInv, OverrideTyped, SetOption, Top, Block
<1>2. /\ Top.i \in Given(Top) /\ v = Var(Top, Top.i) /\ v \in SysVars
      /\ Option[2] \in SysValues /\ Len(Options[Top.by]) \in Nat
  <2>1. Len(Options[Top.by]) \in Nat
    BY <1>1, OverrideAssumption
  <2>2. Top.i \in Given(Top)
    BY <2>1, <1>1 DEF SetOption, HasOption, Given
  <2> QED
    BY <2>1, <2>2, <1>1, OptionType DEF SetOption, Option, Var
<1>3. /\ blocks' \in Seq(Block) /\ Len(blocks') = n
      /\ \A k \in 1..n - 1 : blocks'[k] = blocks[k]
      /\ blocks'[n] = Top'
      /\ Top' = [by |-> Top.by, at |-> "enable", i |-> Top.i + 1,
                 before |-> Top.before]
  BY <1>1, GotoBlocks DEF SetOption
<1>4. /\ overridden' = [overridden EXCEPT ![Top.by][v] = sysVars[v]]
      /\ sysVars' = [sysVars EXCEPT ![v] = Option[2]]
      /\ Top.at = "enable"
  BY DEF SetOption, Prefix
<1>5. OverrideTyped'
  BY <1>1, <1>2, <1>3, <1>4 DEF OverrideInv, OverrideTyped
<1>6. InOrder'
  <2>1. Entered(Top)
    BY <1>1 DEF OverrideInv, InOrder
  <2>2. Entered(Top')
    BY <2>1, <1>1, <1>2, <1>3 DEF Entered, Given, Option, SetOption
  <2> QED
    BY <1>1, <1>3, <2>2, OthersInOrder
<1>7. sysVars[v] = Top.before[v]
  BY <1>1, <1>2, <1>4, VarsDiffer DEF OverrideInv, AsBefore, SetOption
<1>8. AsBefore'
  <2> SUFFICES ASSUME NEW w \in SysVars,
                      \A j \in Given(Top) : j < Top.i + 1 => Var(Top, j) # w
               PROVE  sysVars'[w] = Top.before[w]
    BY <1>3 DEF AsBefore, Given, Var
  <2>1. w # v
    BY <1>1, <1>2
  <2>2. sysVars[w] = Top.before[w]
    BY <1>1, <1>4 DEF OverrideInv, AsBefore, SetOption, Given
  <2> QED
    BY <2>1, <2>2, <1>4 DEF OverrideInv, OverrideTyped
<1>9. Saved(blocks'[n], overridden'[Top.by])
  <2> SUFFICES ASSUME NEW j \in Given(Top), j < Top.i + 1
               PROVE  overridden'[Top.by][Var(Top, j)] = Top.before[Var(Top, j)]
    BY <1>3 DEF Saved, Kept, Given, Var
  <2>1. Var(Top, j) \in SysVars
    BY <1>1, OptionType
  <2>2. CASE j = Top.i
    BY <2>2, <1>1, <1>2, <1>4, <1>7 DEF OverrideInv, OverrideTyped
  <2>3. CASE j < Top.i
    <3>1. Saved(Top, overridden[Top.by])
      BY <1>1 DEF OverrideInv, AllSaved, Innermost
    <3>2. overridden[Top.by][Var(Top, j)] = Top.before[Var(Top, j)]
      BY <3>1, <2>3, <1>4 DEF Saved, Kept
    <3>3. Var(Top, j) # v
      BY <2>3, <1>1, <1>2, VarsDiffer
    <3> QED
      BY <3>2, <3>3, <2>1, <1>1, <1>2, <1>4 DEF OverrideInv, OverrideTyped
  <2> QED
    BY <2>2, <2>3, <1>1 DEF Given
<1>10. \A o \in Overrides \ {Top.by} : overridden'[o] = overridden[o]
  BY <1>4 DEF OverrideInv, OverrideTyped
<1>11. AllSaved'
  BY <1>3, <1>9, <1>10, OthersSaved DEF SetOption
<1> QED
  BY <1>5, <1>6, <1>8, <1>11 DEF OverrideInv

\* When a block ends, the next block outwards of its instance owns the user
\* variables again, and they must be empty or hold what it saved.
LEMMA EndKeeps ==
    ASSUME OverrideInv, blocks # <<>>, blocks' = Pop,
           sysVars' = sysVars, overridden' = overridden,
           \/ Empty(Top, overridden[Top.by])
           \/ \E j \in Given(Top) : Options[Top.by][j][2] = Refused
    PROVE  OverrideInv'
<1> DEFINE n == Len(blocks)
<1>1. /\ blocks \in Seq(Block) /\ Top \in Block /\ n \in Nat \ {0}
      /\ Top = blocks[n]
  BY TopBlock DEF OverrideInv, OverrideTyped, Top
<1>2. /\ blocks' \in Seq(Block) /\ Len(blocks') = n - 1
      /\ \A k \in 1..n - 1 : blocks'[k] = blocks[k]
  BY <1>1, PopBlocks
<1>3. \A k \in 1..n - 1 : blocks[k].at = "in"
  BY <1>1 DEF OverrideInv, InOrder
<1>4. InOrder'
  BY <1>1, <1>2, <1>3 DEF OverrideInv, InOrder
<1>5. AsBefore'
  <2> SUFFICES ASSUME blocks' # <<>>
               PROVE  Top'.at = "in"
    BY DEF AsBefore
  <2>1. n - 1 \in 1..n - 1
    BY <1>1, <1>2
  <2> QED
    BY <2>1, <1>2, <1>3 DEF Top
<1>6. AllSaved'
  <2> SUFFICES ASSUME NEW k \in 1..n - 1, Innermost(k)'
               PROVE  Saved(blocks'[k], overridden'[blocks'[k].by])
    BY <1>2 DEF AllSaved
  <2>1. blocks'[k] = blocks[k] /\ blocks[k].at = "in" /\ blocks[k] \in Block
    BY <1>1, <1>2, <1>3
  <2>2. CASE blocks[k].by = Top.by
    <3>1. \A j \in Given(blocks[k]) : Options[blocks[k].by][j][2] # Refused
      <4>1. Entered(blocks[k])
        BY <1>1 DEF OverrideInv, InOrder
      <4> QED
        BY <4>1, <2>1 DEF Entered
    <3>2. Empty(blocks[k], overridden[Top.by])
      BY <3>1, <2>2 DEF Empty, Given, Var
    <3>3. Saved(blocks[k], overridden[Top.by])
      BY <3>2, <2>1 DEF Saved
    <3> QED
      BY <3>3, <2>1, <2>2
  <2>3. CASE blocks[k].by # Top.by
    <3>1. Innermost(k)
      <4> SUFFICES ASSUME NEW m \in k + 1..n PROVE blocks[m].by # blocks[k].by
        BY <1>1 DEF Innermost
      <4>1. CASE m = n
        BY <1>1, <2>3, <4>1 DEF Top
      <4>2. CASE m # n
        <5>1. m \in k + 1..n - 1 /\ m \in 1..n - 1
          BY <1>1, <4>2
        <5>2. blocks'[m] = blocks[m]
          BY <1>2, <5>1
        <5>3. blocks'[m].by # blocks'[k].by
          BY <1>2, <5>1 DEF Innermost
        <5> QED
          BY <2>1, <5>2, <5>3
      <4> QED
        BY <4>1, <4>2
    <3>2. Saved(blocks[k], overridden[blocks[k].by])
      BY <3>1, <1>1 DEF OverrideInv, AllSaved
    <3> QED
      BY <3>2, <2>1
  <2> QED
    BY <2>2, <2>3
<1> QED
  BY <1>2, <1>4, <1>5, <1>6 DEF OverrideInv, OverrideTyped

LEMMA SetRefusedKeeps ==
    ASSUME OverrideInv, SetRefused
    PROVE  OverrideInv'
<1>1. Top \in Block /\ Top.i \in Nat \ {0} /\ Len(Options[Top.by]) \in Nat
  BY TopBlock, OverrideAssumption
     DEF OverrideInv, OverrideTyped, SetRefused, Block
<1>2. Top.i \in Given(Top) /\ Options[Top.by][Top.i][2] = Refused
  BY <1>1 DEF SetRefused, HasOption, Given, Option
<1> QED
  BY <1>2, EndKeeps DEF SetRefused

\* Every option was set: none of the values was refused.
LEMMA EnabledKeeps ==
    ASSUME OverrideInv, Enabled
    PROVE  OverrideInv'
<1> DEFINE n == Len(blocks)
<1>1. /\ blocks \in Seq(Block) /\ Top \in Block /\ n \in Nat \ {0}
      /\ Top = blocks[n] /\ Top.i \in Nat \ {0}
      /\ Len(Options[Top.by]) \in Nat
  BY TopBlock, OverrideAssumption
     DEF OverrideInv, OverrideTyped, Enabled, Top, Block
<1>2. /\ blocks' \in Seq(Block) /\ Len(blocks') = n
      /\ \A k \in 1..n - 1 : blocks'[k] = blocks[k]
      /\ blocks'[n] = Top'
      /\ Top' = [by |-> Top.by, at |-> "in", i |-> 1, before |-> Top.before]
  BY <1>1, GotoBlocks DEF Enabled
<1>3. sysVars' = sysVars /\ overridden' = overridden /\ Top.at = "enable"
  BY DEF Enabled
<1>4. Entered(Top) /\ Saved(Top, overridden[Top.by])
  BY <1>1 DEF OverrideInv, InOrder, AllSaved, Innermost
<1>5. \A j \in Given(Top) : j < Top.i
  BY <1>1 DEF Enabled, HasOption, Given
<1>6. InOrder'
  <2>1. Entered(Top')
    BY <1>1, <1>2, <1>3, <1>4, <1>5 DEF Entered, Given
  <2> QED
    BY <2>1, <1>1, <1>2, OthersInOrder DEF Enabled
<1>7. AsBefore'
  BY <1>2 DEF AsBefore
<1>8. Saved(Top', overridden'[Top.by])
  BY <1>2, <1>3, <1>4, <1>5 DEF Saved, Kept, Given, Var
<1>9. AllSaved'
  BY <1>1, <1>2, <1>3, <1>8, OthersSaved DEF Enabled
<1> QED
  BY <1>2, <1>3, <1>6, <1>7, <1>9 DEF OverrideInv, OverrideTyped

LEMMA LeaveKeeps ==
    ASSUME OverrideInv, LeaveBlock
    PROVE  OverrideInv'
<1> DEFINE n == Len(blocks)
<1>1. /\ blocks \in Seq(Block) /\ Top \in Block /\ n \in Nat \ {0}
      /\ Top = blocks[n] /\ Len(Options[Top.by]) \in Nat
  BY TopBlock, OverrideAssumption
     DEF OverrideInv, OverrideTyped, LeaveBlock, Top, Block
<1>2. /\ blocks' \in Seq(Block) /\ Len(blocks') = n
      /\ \A k \in 1..n - 1 : blocks'[k] = blocks[k]
      /\ blocks'[n] = Top'
      /\ Top' = [by |-> Top.by, at |-> "disable", i |-> 1,
                 before |-> Top.before]
  BY <1>1, GotoBlocks DEF LeaveBlock
<1>3. sysVars' = sysVars /\ overridden' = overridden /\ Top.at = "in"
  BY DEF LeaveBlock
<1>4. Entered(Top) /\ Saved(Top, overridden[Top.by])
  BY <1>1 DEF OverrideInv, InOrder, AllSaved, Innermost
<1>5. \A j \in Given(Top) : ~(j < 1)
  BY <1>1 DEF Given
<1>6. InOrder'
  <2>1. Entered(Top')
    BY <1>1, <1>2, <1>3, <1>4 DEF Entered, Given
  <2> QED
    BY <2>1, <1>1, <1>2, OthersInOrder DEF LeaveBlock
<1>7. AsBefore'
  BY <1>2, <1>5 DEF AsBefore, Given
<1>8. Saved(Top', overridden'[Top.by])
  <2>1. CASE Empty(Top, overridden[Top.by])
    BY <2>1, <1>2, <1>3 DEF Saved, Empty, Given, Var
  <2>2. CASE \A j \in Given(Top) : Kept(Top, overridden[Top.by], j)
    BY <2>2, <1>2, <1>3, <1>5 DEF Saved, Kept, Given, Var
  <2> QED
    BY <2>1, <2>2, <1>3, <1>4 DEF Saved
<1>9. AllSaved'
  BY <1>1, <1>2, <1>3, <1>8, OthersSaved DEF LeaveBlock
<1> QED
  BY <1>2, <1>3, <1>6, <1>7, <1>9 DEF OverrideInv, OverrideTyped

\* The i-th user variable holds the value from before the block, unless it is
\* empty.
LEMMA RestoreKeeps ==
    ASSUME OverrideInv, Restore
    PROVE  OverrideInv'
<1> DEFINE n == Len(blocks)
           v == Option[1]
<1>1. /\ blocks \in Seq(Block) /\ Top \in Block /\ n \in Nat \ {0}
      /\ Top = blocks[n] /\ Top.i \in Nat \ {0} /\ Top.by \in Overrides
      /\ Top.before \in [SysVars -> SysValues]
  BY TopBlock DEF OverrideInv, OverrideTyped, Restore, Top, Block
<1>2. /\ Top.i \in Given(Top) /\ v = Var(Top, Top.i) /\ v \in SysVars
      /\ Len(Options[Top.by]) \in Nat
  <2>1. Len(Options[Top.by]) \in Nat
    BY <1>1, OverrideAssumption
  <2>2. Top.i \in Given(Top)
    BY <2>1, <1>1 DEF Restore, HasOption, Given
  <2> QED
    BY <2>1, <2>2, <1>1, OptionType DEF Option, Var
<1>3. /\ blocks' \in Seq(Block) /\ Len(blocks') = n
      /\ \A k \in 1..n - 1 : blocks'[k] = blocks[k]
      /\ blocks'[n] = Top'
      /\ Top' = [by |-> Top.by, at |-> "disable", i |-> Top.i + 1,
                 before |-> Top.before]
  BY <1>1, GotoBlocks DEF Restore
<1>4. /\ overridden[Top.by][v] # Null
      /\ sysVars' = [sysVars EXCEPT ![v] = overridden[Top.by][v]]
      /\ overridden' = [overridden EXCEPT ![Top.by][v] = Null]
      /\ Top.at = "disable"
  BY DEF Restore, Prefix
<1>5. \A j \in Given(Top) : IF j < Top.i
                            THEN overridden[Top.by][Var(Top, j)] = Null
                            ELSE Kept(Top, overridden[Top.by], j)
  <2>1. Saved(Top, overridden[Top.by])
    BY <1>1 DEF OverrideInv, AllSaved, Innermost
  <2> QED
    BY <2>1, <1>2, <1>4 DEF Saved, Empty
<1>6. overridden[Top.by][v] = Top.before[v]
  BY <1>1, <1>2, <1>5 DEF Kept
<1>7. OverrideTyped'
  BY <1>1, <1>2, <1>3, <1>4, <1>6 DEF OverrideInv, OverrideTyped
<1>8. InOrder'
  <2>1. Entered(Top)
    BY <1>1 DEF OverrideInv, InOrder
  <2>2. Entered(Top')
    BY <2>1, <1>1, <1>2, <1>3, <1>4 DEF Entered, Given
  <2> QED
    BY <1>1, <1>3, <2>2, OthersInOrder DEF Restore
<1>9. \A j \in Given(Top) :
          /\ Var(Top, j) \in SysVars
          /\ j # Top.i => Var(Top, j) # v
  BY <1>1, <1>2, VarsDiffer, OptionType
<1>10. AsBefore'
  <2> SUFFICES ASSUME NEW j \in Given(Top), j < Top.i + 1
               PROVE  sysVars'[Var(Top, j)] = Top.before[Var(Top, j)]
    BY <1>3 DEF AsBefore, Given, Var
  <2>1. CASE j = Top.i
    BY <2>1, <1>2, <1>4, <1>6 DEF OverrideInv, OverrideTyped
  <2>2. CASE j < Top.i
    <3>1. sysVars[Var(Top, j)] = Top.before[Var(Top, j)]
      BY <2>2, <1>4 DEF OverrideInv, AsBefore, Restore
    <3>2. j # Top.i
      BY <2>2, <1>1
    <3> QED
      BY <3>1, <3>2, <1>4, <1>9 DEF OverrideInv, OverrideTyped
  <2> QED
    BY <2>1, <2>2, <1>1 DEF Given
<1>11. Saved(Top', overridden'[Top.by])
  <2>1. overridden'[Top.by][v] = Null
    BY <1>1, <1>2, <1>4 DEF OverrideInv, OverrideTyped
  <2>2. \A j \in Given(Top) : j # Top.i =>
            overridden'[Top.by][Var(Top, j)] = overridden[Top.by][Var(Top, j)]
    BY <1>1, <1>4, <1>9 DEF OverrideInv, OverrideTyped
  <2>3. \A j \in Given(Top) :
            /\ j # Top.i => (j < Top.i + 1 <=> j < Top.i)
            /\ j = Top.i => j < Top.i + 1
    BY <1>1 DEF Given
  <2>4. \A j \in Given(Top) : IF j < Top.i + 1
                              THEN overridden'[Top.by][Var(Top, j)] = Null
                              ELSE Kept(Top, overridden'[Top.by], j)
    BY <2>1, <2>2, <2>3, <1>2, <1>5 DEF Kept
  <2> QED
    BY <2>4, <1>3 DEF Saved, Kept, Given, Var
<1>12. \A o \in Overrides \ {Top.by} : overridden'[o] = overridden[o]
  BY <1>4 DEF OverrideInv, OverrideTyped
<1>13. AllSaved'
  BY <1>3, <1>11, <1>12, OthersSaved DEF Restore
<1> QED
  BY <1>7, <1>8, <1>10, <1>13 DEF OverrideInv

\* Either the block has restored everything, or nothing is there to restore.
LEMMA RestoredKeeps ==
    ASSUME OverrideInv, RestoreRefused \/ Disabled
    PROVE  OverrideInv'
<1>1. /\ blocks \in Seq(Block) /\ Top \in Block /\ Top = blocks[Len(blocks)]
      /\ Len(blocks) \in Nat \ {0} /\ Top.i \in Nat \ {0}
      /\ Top.before \in [SysVars -> SysValues]
      /\ Len(Options[Top.by]) \in Nat
  BY TopBlock, OverrideAssumption
     DEF OverrideInv, OverrideTyped, RestoreRefused, Disabled, Top, Block
<1>2. Saved(Top, overridden[Top.by]) /\ Top.at = "disable"
  BY <1>1 DEF OverrideInv, AllSaved, Innermost, RestoreRefused, Disabled
<1>3. CASE RestoreRefused
  <2>1. Top.i \in Given(Top)
    BY <1>1, <1>3 DEF RestoreRefused, HasOption, Given
  <2>2. overridden[Top.by][Var(Top, Top.i)] = Null
    BY <1>3 DEF RestoreRefused, Option, Prefix, Var
  <2>3. ~Kept(Top, overridden[Top.by], Top.i)
    BY <2>1, <2>2, <1>1, OptionType, OverrideAssumption DEF Kept
  <2>4. Empty(Top, overridden[Top.by])
    BY <2>1, <2>3, <1>1, <1>2 DEF Saved
  <2> QED
    BY <2>4, <1>3, EndKeeps DEF RestoreRefused
<1>4. CASE Disabled
  <2>1. \A j \in Given(Top) : j < Top.i
    BY <1>1, <1>4 DEF Disabled, HasOption, Given
  <2>2. Empty(Top, overridden[Top.by])
    BY <2>1, <1>2 DEF Saved, Empty
  <2> QED
    BY <2>2, <1>4, EndKeeps DEF Disabled
<1> QED
  BY <1>3, <1>4

LEMMA OverrideStep == OverrideInv /\ [OverrideNext]_overrideVars => OverrideInv'
<1> SUFFICES ASSUME OverrideInv, [OverrideNext]_overrideVars
             PROVE  OverrideInv'
  OBVIOUS
<1>1. ASSUME NEW o \in Overrides, EnterBlock(o)
      PROVE  OverrideInv'
  BY <1>1, EnterKeeps
<1>2. CASE SetOption
  BY <1>2, SetOptionKeeps
<1>3. CASE SetRefused
  BY <1>3, SetRefusedKeeps
<1>4. CASE Enabled
  BY <1>4, EnabledKeeps
<1>5. CASE LeaveBlock
  BY <1>5, LeaveKeeps
<1>6. CASE Restore
  BY <1>6, RestoreKeeps
<1>7. CASE RestoreRefused \/ Disabled
  BY <1>7, RestoredKeeps
<1>8. CASE UNCHANGED overrideVars
  BY <1>8 DEF overrideVars, OverrideInv, OverrideTyped, InOrder, AsBefore,
              AllSaved, Innermost, Top
<1> QED
  BY <1>1, <1>2, <1>3, <1>4, <1>5, <1>6, <1>7, <1>8 DEF OverrideNext

\* A block whose disable() runs to its end has put every variable that it
\* overrides back to the value from before the block, with any instances and
\* options, and whatever blocks were entered, left or refused inside of it.
THEOREM OverridesRestore == OverrideSpec => ExitRestores
<1>1. OverrideInv /\ [OverrideNext]_overrideVars
          => [Disabled => \A v \in Sets(Top.by) : sysVars[v] = Top.before[v]
             ]_overrideVars
  <2> SUFFICES ASSUME OverrideInv, Disabled, NEW v \in Sets(Top.by)
               PROVE  sysVars[v] = Top.before[v]
    OBVIOUS
  <2>1. Top \in Block /\ Top.by \in Overrides /\ Top.i \in Nat \ {0}
    BY TopBlock DEF OverrideInv, OverrideTyped, Disabled, Block
  <2>2. Options[Top.by] \in Seq(SysVars \X (SysValues \cup {Refused}))
    BY <2>1, OverrideAssumption
  <2>3. PICK j \in Given(Top) : v = Var(Top, j)
    BY <2>2 DEF Sets, Given, Var
  <2>4. j < Top.i
    BY <2>1, <2>2 DEF Disabled, HasOption, Given
  <2> QED
    BY <2>3, <2>4 DEF OverrideInv, AsBefore, Disabled
<1> QED
  BY <1>1, OverrideStart, OverrideStep, PTL DEF OverrideSpec, ExitRestores

-----------------------------------------------------------------------------
(* LIKE *)

Reaches(s, p, g) ==
    /\ g \in [0..Len(p) -> SUBSET Nat] /\ g[0] = {0}
    /\ \A j \in 1..Len(p) : g[j] = Reach(s, p, j, g[j - 1])
    /\ Like(s, p) <=> Len(s) \in g[Len(p)]

\* Where nothing is escaped.
LEMMA ReachAny ==
    ASSUME NEW s, NEW p, NEW j, NEW x, ~Escapes(p, j), ~Escapes(p, j - 1),
           p[j] = "%"
    PROVE  Reach(s, p, j, x) = {k \in 0..Len(s) : \E i \in x : i <= k}
BY DEF Reach

LEMMA ReachIsPlaces ==
    ASSUME NEW s, NEW p, NEW j, NEW x \in SUBSET Nat, Len(s) \in Nat
    PROVE  Reach(s, p, j, x) \in SUBSET Nat
<1>1. 0..Len(s) \subseteq Nat /\ 1..Len(s) \subseteq Nat
  OBVIOUS
<1>2. \/ Reach(s, p, j, x) = x
      \/ Reach(s, p, j, x) = {k \in 1..Len(s) : k - 1 \in x /\ s[k] = p[j]}
      \/ Reach(s, p, j, x) = {k \in 1..Len(s) : k - 1 \in x}
      \/ Reach(s, p, j, x) = {k \in 0..Len(s) : \E i \in x : i <= k}
  BY DEF Reach
<1> QED
  BY <1>1, <1>2

LEMMA ReachDefined ==
    ASSUME NEW s, NEW p, Len(s) \in Nat, Len(p) \in Nat
    PROVE  \E g : Reaches(s, p, g)
<1> DEFINE reach == CHOOSE f :
             f = [j \in 0..Len(p) |-> IF j = 0 THEN {0} ELSE Reach(s, p, j, f[j - 1])]
           F == [j \in 1..Len(p) |-> [x \in SUBSET Nat |-> Reach(s, p, j, x)]]
<1>1. Like(s, p) <=> Len(s) \in reach[Len(p)]
  BY DEF Like
<1>2. \A j : \A x \in SUBSET Nat : Reach(s, p, j, x) \in SUBSET Nat
  BY ReachIsPlaces
<1>3. F \in [1..Len(p) -> [SUBSET Nat -> SUBSET Nat]] /\ {0} \in SUBSET Nat
  <2>1. ASSUME NEW j \in 1..Len(p)
        PROVE  [x \in SUBSET Nat |-> Reach(s, p, j, x)] \in [SUBSET Nat -> SUBSET Nat]
    BY <1>2, Zenon
  <2>2. F \in [1..Len(p) -> [SUBSET Nat -> SUBSET Nat]]
    BY <2>1, Zenon
  <2> QED
    BY <2>2
<1>4. \A j \in 1..Len(p), x \in SUBSET Nat : F[j][x] = Reach(s, p, j, x)
  OBVIOUS
<1> HIDE DEF F
<1>5. PICK g : RecursTo(Len(p), SUBSET Nat, {0}, F, g)
  BY <1>3, RecursionTo
<1>6. g \in [0..Len(p) -> SUBSET Nat] /\ g[0] = {0}
  BY <1>5 DEF RecursTo
<1>7. ASSUME NEW j \in 1..Len(p)
      PROVE  g[j] = Reach(s, p, j, g[j - 1])
  <2>1. g[j - 1] \in SUBSET Nat
    <3>1. j - 1 \in 0..Len(p)
      OBVIOUS
    <3> QED
      BY <1>6, <3>1
  <2>2. g[j] = F[j][g[j - 1]]
    BY <1>5 DEF RecursTo
  <2> QED
    BY <1>4, <2>1, <2>2
<1>8. ASSUME NEW j \in 0..Len(p)
      PROVE  g[j] = IF j = 0 THEN {0} ELSE Reach(s, p, j, g[j - 1])
  <2>1. j = 0 \/ j \in 1..Len(p)
    OBVIOUS
  <2> QED
    BY <1>6, <1>7, <2>1
<1>9. g = [j \in 0..Len(p) |-> IF j = 0 THEN {0} ELSE Reach(s, p, j, g[j - 1])]
  <2> HIDE DEF reach
  <2> QED
    BY <1>6, <1>8
<1>10. reach = [j \in 0..Len(p) |->
                   IF j = 0 THEN {0} ELSE Reach(s, p, j, reach[j - 1])]
  BY <1>9
<1> HIDE DEF reach
<1>11. DOMAIN reach = 0..Len(p) /\ reach[0] = {0}
  BY <1>10
<1>12. ASSUME NEW j \in 1..Len(p)
       PROVE  reach[j] = Reach(s, p, j, reach[j - 1])
  <2>1. j \in 0..Len(p) /\ j # 0
    OBVIOUS
  <2> QED
    BY <1>10, <2>1
<1>13. \A j \in 0..Len(p) : reach[j] \in SUBSET Nat
  <2> DEFINE Places == {j \in 0..Len(p) : reach[j] \in SUBSET Nat}
  <2>1. 0 \in Places
    BY <1>11
  <2>2. ASSUME NEW j \in 1..Len(p), j - 1 \in Places PROVE j \in Places
    <3>1. reach[j - 1] \in SUBSET Nat /\ j \in 0..Len(p)
      BY <2>2
    <3> QED
      BY <1>2, <1>12, <3>1
  <2>3. 0..Len(p) \subseteq Places
    <3> HIDE DEF Places
    <3> QED
      BY <2>1, <2>2, InductionTo
  <2> QED
    BY <2>3
<1>14. reach \in [0..Len(p) -> SUBSET Nat]
  <2>1. reach = [j \in 0..Len(p) |-> reach[j]]
    BY <1>10, <1>11
  <2> QED
    BY <1>13, <2>1
<1> QED
  BY <1>1, <1>11, <1>12, <1>14 DEF Reaches

\* The first n elements of the two are the same.
Agree(s, p, n) == n <= Len(s) /\ \A i \in 1..n : s[i] = p[i]

LEMMA AgreeIsBeginning ==
    ASSUME NEW V, NEW s \in Seq(V), NEW p \in Seq(V)
    PROVE  BeginsWith(s, p) <=> Agree(s, p, Len(p))
<1>1. Len(s) \in Nat /\ Len(p) \in Nat
  OBVIOUS
<1>2. CASE Len(p) <= Len(s)
  <2> DEFINE t == SubSeq(s, 1, Len(p))
  <2>1. t \in Seq(V) /\ Len(t) = Len(p) /\ \A i \in 1..Len(p) : t[i] = s[i]
    BY <1>1, <1>2
  <2> HIDE DEF t
  <2>2. t = p <=> \A i \in 1..Len(p) : t[i] = p[i]
    BY <2>1, SeqEqual
  <2> QED
    BY <1>2, <2>1, <2>2 DEF BeginsWith, Agree, t
<1>3. CASE ~(Len(p) <= Len(s))
  BY <1>3 DEF BeginsWith, Agree
<1> QED
  BY <1>2, <1>3

\* With a % behind a pattern without wildcards LIKE finds the texts that begin
\* with the pattern.
LEMMA LikeFindsBeginnings ==
    ASSUME NEW V, NEW s \in Seq(V), NEW p \in Seq(V), "%" \in V, Plainly(p)
    PROVE  Like(s, p \o <<"%">>) <=> BeginsWith(s, p)
<1> DEFINE t == p \o <<"%">>
           N == Len(p)
<1>1. /\ N \in Nat /\ Len(s) \in Nat /\ DOMAIN p = 1..N /\ Len(t) = N + 1
      /\ \A i \in 1..N : t[i] = p[i]
      /\ t[N + 1] = "%"
  OBVIOUS
<1> HIDE DEF t
<1>2. PICK g : Reaches(s, t, g)
  BY <1>1, ReachDefined
<1>3. /\ g[0] = {0}
      /\ \A j \in 1..N + 1 : g[j] = Reach(s, t, j, g[j - 1])
      /\ Like(s, t) <=> Len(s) \in g[N + 1]
  BY <1>1, <1>2 DEF Reaches
<1>9. \A j : ~Escapes(t, j)
  <2>1. ASSUME NEW j, Escapes(t, j) PROVE FALSE
    <3>1. j \in 1..N /\ t[j] = Backslash
      BY <1>1, <2>1 DEF Escapes
    <3> QED
      BY <1>1, <3>1 DEF Plainly
  <2> QED
    BY <2>1
<1> DEFINE Good == {n \in 0..N : g[n] = IF Agree(s, p, n) THEN {n} ELSE {}}
<1>4. 0 \in Good
  <2>1. Agree(s, p, 0) /\ 0 \in 0..N
    BY <1>1 DEF Agree
  <2> QED
    BY <1>3, <2>1
<1>5. ASSUME NEW n \in 1..N, n - 1 \in Good PROVE n \in Good
  <2>1. g[n - 1] = IF Agree(s, p, n - 1) THEN {n - 1} ELSE {}
    BY <1>5
  <2>2. \A k : k \in g[n] <=> k \in 1..Len(s) /\ k - 1 \in g[n - 1] /\ s[k] = p[n]
    <3>1. t[n] # "%" /\ t[n] # "_" /\ t[n] = p[n]
      BY <1>1 DEF Plainly
    <3>2. n \in 1..N + 1
      BY <1>1
    <3>3. g[n] = Reach(s, t, n, g[n - 1])
      BY <1>3, <3>1, <3>2
    <3>4. g[n] = {k \in 1..Len(s) : k - 1 \in g[n - 1] /\ s[k] = t[n]}
      <4>1. ~Escapes(t, n)
        BY <1>9
      <4>2. Reach(s, t, n, g[n - 1]) =
                {k \in 1..Len(s) : k - 1 \in g[n - 1] /\ s[k] = t[n]}
        BY <3>1, <4>1 DEF Reach
      <4> QED
        BY <3>3, <4>2
    <3> QED
      BY <3>1, <3>4
  <2>3. Agree(s, p, n) <=> Agree(s, p, n - 1) /\ n <= Len(s) /\ s[n] = p[n]
    <3>1. \A i : i \in 1..n <=> i \in 1..n - 1 \/ i = n
      BY <1>1
    <3>2. n <= Len(s) => n - 1 <= Len(s)
      BY <1>1
    <3> QED
      BY <3>1, <3>2 DEF Agree
  <2>6. n \in 0..N
    BY <1>1
  <2>4. CASE Agree(s, p, n - 1)
    <3>1. \A k \in 1..Len(s) : k - 1 \in g[n - 1] <=> k = n
      BY <1>1, <2>1, <2>4
    <3>2. g[n] = {k \in 1..Len(s) : k = n /\ s[k] = p[n]}
      BY <2>2, <3>1
    <3>3. n \in 1..Len(s) <=> n <= Len(s)
      BY <1>1
    <3>4. CASE Agree(s, p, n)
      BY <2>3, <3>2, <3>3, <3>4, <2>6
    <3>5. CASE ~Agree(s, p, n)
      BY <2>3, <2>4, <3>2, <3>3, <3>5, <2>6
    <3> QED
      BY <3>4, <3>5
  <2>5. CASE ~Agree(s, p, n - 1)
    <3>1. g[n] = {}
      BY <2>1, <2>2, <2>5
    <3> QED
      BY <2>3, <2>5, <2>6, <3>1
  <2> QED
    BY <2>4, <2>5
<1>6. N \in Good
  <2> HIDE DEF Good, N
  <2>1. 0..N \subseteq Good
    BY <1>1, <1>4, <1>5, InductionTo
  <2> QED
    BY <1>1, <2>1
<1>7. g[N + 1] = {k \in 0..Len(s) : \E i \in g[N] : i <= k}
  <2>1. N + 1 \in 1..N + 1 /\ (N + 1) - 1 = N
    BY <1>1
  <2>2. g[N + 1] = Reach(s, t, N + 1, g[N])
    BY <1>1, <1>3, <2>1
  <2> QED
    BY <1>1, <1>9, <2>2, ReachAny
<1>8. Len(s) \in g[N + 1] <=> Agree(s, p, N)
  BY <1>1, <1>6, <1>7 DEF Agree
<1> QED
  BY <1>3, <1>8, AgreeIsBeginning DEF t

-----------------------------------------------------------------------------
(* Cache keys *)

Chars == STRING \cup {":", "%"} \cup Versions

\* A made key, element by element: m is that of k, with a KEY_PREFIX a of n
\* characters.
Shape(m, n, a, k, v) ==
    /\ n \in Nat
    /\ m \in Seq(Chars) /\ Len(m) = n + 3 + Len(k)
    /\ \A i \in 1..n : m[i] = a[i] /\ m[i] # ":"
    /\ m[n + 1] = ":" /\ m[n + 2] = v /\ m[n + 3] = ":"
    /\ \A i \in 1..Len(k) : m[n + 3 + i] = k[i]

LEMMA KeysAreTexts ==
    /\ \A c \in Caches : KeyPrefix[c] \in Seq(Chars)
    /\ Keys \subseteq Seq(Chars) /\ Prefixes \subseteq Seq(Chars)
    /\ \A v \in Versions : <<":", v, ":">> \in Seq(Chars)
    /\ "%" \in Chars
<1>1. STRING \subseteq Chars /\ ":" \in Chars /\ "%" \in Chars /\ Versions \subseteq Chars
  BY DEF Chars
<1>2. ASSUME NEW s \in Seq(STRING) PROVE s \in Seq(Chars)
  <2>1. Len(s) \in Nat /\ s \in [1..Len(s) -> STRING]
    OBVIOUS
  <2>2. s \in [1..Len(s) -> Chars]
    BY <1>1, <2>1
  <2>3. \A n \in Nat : \A f \in [1..n -> Chars] : f \in Seq(Chars)
    OBVIOUS
  <2> QED
    BY <2>1, <2>2, <2>3
<1>3. \A v \in Versions : <<":", v, ":">> \in Seq(Chars)
  BY <1>1
<1> QED
  BY <1>1, <1>2, <1>3, CacheKeysAssumption

LEMMA MakeKeyShape ==
    ASSUME NEW c \in Caches, NEW k \in Seq(Chars), NEW v \in Versions
    PROVE  Shape(MakeKey(c, k, v), Len(KeyPrefix[c]), KeyPrefix[c], k, v)
<1>0. PICK m, n : m = MakeKey(c, k, v) /\ n = Len(KeyPrefix[c])
  OBVIOUS
<1> DEFINE a == KeyPrefix[c]
           b == <<":", v, ":">>
           ab == a \o b
<1>1. a \in Seq(Chars) /\ b \in Seq(Chars)
  BY KeysAreTexts
<1>2. Len(b) = 3 /\ b[1] = ":" /\ b[2] = v /\ b[3] = ":"
  OBVIOUS
<1>3. Len(a) = n /\ n \in Nat /\ DOMAIN a = 1..n
  BY <1>0, <1>1
<1>4. m = ab \o k
  BY <1>0 DEF MakeKey
<1>5. \A i \in 1..n : a[i] # ":"
  BY <1>3, KeyPrefixAssumption DEF Reversible
<1> HIDE DEF a, b
<1>6. /\ ab \in Seq(Chars) /\ Len(ab) = n + 3
      /\ \A i \in 1..n : ab[i] = a[i]
      /\ \A i \in 1..3 : ab[n + i] = b[i]
  <2>1. ab \in Seq(Chars) /\ Len(ab) = Len(a) + Len(b)
    BY <1>1
  <2>2. \A i \in 1..Len(a) + Len(b) :
            ab[i] = IF i <= Len(a) THEN a[i] ELSE b[i - Len(a)]
    BY <1>1
  <2> HIDE DEF ab
  <2>3. \A i \in 1..n : ab[i] = a[i]
    BY <1>2, <1>3, <2>2
  <2>4. ASSUME NEW i \in 1..3 PROVE ab[n + i] = b[i]
    <3>1. n + i \in 1..Len(a) + Len(b) /\ ~(n + i <= Len(a)) /\ (n + i) - Len(a) = i
      BY <1>2, <1>3
    <3> QED
      BY <2>2, <3>1
  <2> QED
    BY <1>2, <1>3, <2>1, <2>3, <2>4
<1> HIDE DEF ab
<1>7. /\ m \in Seq(Chars) /\ Len(m) = n + 3 + Len(k)
      /\ \A i \in 1..n + 3 : m[i] = ab[i]
      /\ \A i \in 1..Len(k) : m[n + 3 + i] = k[i]
  <2>0. Len(k) \in Nat
    OBVIOUS
  <2>1. m \in Seq(Chars) /\ Len(m) = Len(ab) + Len(k)
    <3>1. ab \in Seq(Chars)
      BY <1>6
    <3> QED
      BY <1>4, <3>1, ConcatProperties
  <2>2. \A i \in 1..Len(ab) + Len(k) :
            m[i] = IF i <= Len(ab) THEN ab[i] ELSE k[i - Len(ab)]
    BY <1>4, <1>6, ConcatProperties
  <2>3. \A i \in 1..n + 3 : m[i] = ab[i]
    BY <1>3, <1>6, <2>0, <2>1, <2>2
  <2>4. ASSUME NEW i \in 1..Len(k) PROVE m[n + 3 + i] = k[i]
    <3>1. /\ n + 3 + i \in 1..Len(ab) + Len(k)
          /\ ~(n + 3 + i <= Len(ab)) /\ (n + 3 + i) - Len(ab) = i
      BY <1>3, <1>6, <2>0
    <3> QED
      BY <2>2, <3>1
  <2> QED
    BY <1>3, <1>6, <2>0, <2>1, <2>3, <2>4
<1>8. \A i \in 1..n : m[i] = a[i]
  BY <1>3, <1>6, <1>7
<1>9. \A i \in 1..3 : m[n + i] = b[i]
  <2> TAKE i \in 1..3
  <2>1. n + i \in 1..n + 3
    BY <1>3
  <2> QED
    BY <1>6, <1>7, <2>1
<1>10. m[n + 1] = ":" /\ m[n + 2] = v /\ m[n + 3] = ":"
  BY <1>2, <1>9
<1> QED
  BY <1>0, <1>3, <1>5, <1>7, <1>8, <1>10 DEF a, Shape

\* The reverse of a made key is the key that the caller gave.
LEMMA Reversed ==
    ASSUME NEW c \in Caches, NEW k \in Seq(Chars), NEW v \in Versions
    PROVE  ReverseKey(MakeKey(c, k, v)) = k
<1>1. PICK m, n : m = MakeKey(c, k, v) /\ n = Len(KeyPrefix[c])
  OBVIOUS
<1>2. /\ n \in Nat /\ m \in Seq(Chars) /\ Len(m) = n + 3 + Len(k)
      /\ \A i \in 1..n : m[i] # ":"
      /\ m[n + 1] = ":"
      /\ \A i \in 1..Len(k) : m[n + 3 + i] = k[i]
  <2>1. Shape(m, n, KeyPrefix[c], k, v)
    BY <1>1, MakeKeyShape
  <2> QED
    BY <2>1 DEF Shape
<1>3. Len(k) \in Nat /\ DOMAIN m = 1..Len(m)
  BY <1>2
<1> DEFINE First(i) == i \in DOMAIN m /\ m[i] = ":" /\ \A j \in 1..i - 1 : m[j] # ":"
           first == CHOOSE i \in DOMAIN m : m[i] = ":" /\ \A j \in 1..i - 1 : m[j] # ":"
<1>4. First(n + 1)
  BY <1>2, <1>3
<1>5. \A i : First(i) => i = n + 1
  <2> SUFFICES ASSUME NEW i, First(i) PROVE i = n + 1
    OBVIOUS
  <2>1. i \in Int /\ i >= 1
    BY <1>3
  <2>2. ~(i <= n)
    BY <1>2, <2>1
  <2>3. ~(n + 1 <= i - 1)
    BY <1>2, <2>1
  <2> QED
    BY <1>2, <2>1, <2>2, <2>3
<1>6. first = n + 1
  BY <1>4, <1>5
<1> DEFINE t == SubSeq(m, n + 4, Len(m))
<1>7. ReverseKey(m) = t
  <2> HIDE DEF t
  <2>1. ReverseKey(m) = SubSeq(m, first + 3, Len(m))
    BY DEF ReverseKey
  <2>2. (n + 1) + 3 = n + 4
    BY <1>2
  <2> QED
    BY <1>6, <2>1, <2>2 DEF t
<1>8. t \in Seq(Chars) /\ Len(t) = Len(k) /\ \A i \in 1..Len(k) : t[i] = k[i]
  BY <1>2, <1>3
<1> HIDE DEF t
<1>9. t = k
  BY <1>8, SeqEqual
<1> QED
  BY <1>1, <1>7, <1>9

\* A made key that begins with the made key of a prefix is of the same cache, or
\* of one with its KEY_PREFIX, and of the same version: the first colons are at
\* the same place, because there is none in a KEY_PREFIX.
LEMMA SameCache ==
    ASSUME NEW c \in Caches, NEW k \in Seq(Chars), NEW v \in Versions,
           NEW d \in Caches, NEW p \in Seq(Chars), NEW u \in Versions
    PROVE  BeginsWith(MakeKey(c, k, v), MakeKey(d, p, u)) <=>
               MakeKey(c, k, v) = MakeKey(d, k, u) /\ BeginsWith(k, p)
<1>1. PICK m, n : m = MakeKey(c, k, v) /\ n = Len(KeyPrefix[c])
  OBVIOUS
<1>2. PICK l, h : l = MakeKey(d, p, u) /\ h = Len(KeyPrefix[d])
  OBVIOUS
<1>3. PICK x : x = MakeKey(d, k, u)
  OBVIOUS
<1>4. /\ n \in Nat /\ m \in Seq(Chars) /\ Len(m) = n + 3 + Len(k)
      /\ \A i \in 1..n : m[i] # ":"
      /\ m[n + 1] = ":" /\ m[n + 3] = ":"
      /\ \A i \in 1..Len(k) : m[n + 3 + i] = k[i]
  <2>1. Shape(m, n, KeyPrefix[c], k, v)
    BY <1>1, MakeKeyShape
  <2> QED
    BY <2>1 DEF Shape
<1>5. /\ h \in Nat /\ l \in Seq(Chars) /\ Len(l) = h + 3 + Len(p)
      /\ \A i \in 1..h : l[i] = KeyPrefix[d][i] /\ l[i] # ":"
      /\ l[h + 1] = ":" /\ l[h + 2] = u
      /\ l[h + 3] = ":"
      /\ \A i \in 1..Len(p) : l[h + 3 + i] = p[i]
  <2>1. Shape(l, h, KeyPrefix[d], p, u)
    BY <1>2, MakeKeyShape
  <2> QED
    BY <2>1 DEF Shape
<1>6. /\ x \in Seq(Chars) /\ Len(x) = h + 3 + Len(k)
      /\ \A i \in 1..h : x[i] = KeyPrefix[d][i]
      /\ x[h + 1] = ":" /\ x[h + 2] = u /\ x[h + 3] = ":"
      /\ \A i \in 1..Len(k) : x[h + 3 + i] = k[i]
  <2>1. Shape(x, h, KeyPrefix[d], k, u)
    BY <1>2, <1>3, MakeKeyShape
  <2> QED
    BY <2>1 DEF Shape
<1>7. Len(k) \in Nat /\ Len(p) \in Nat
  OBVIOUS
<1>8. BeginsWith(m, l) <=> Agree(m, l, Len(l))
  BY <1>4, <1>5, AgreeIsBeginning
<1>9. BeginsWith(k, p) <=> Agree(k, p, Len(p))
  BY AgreeIsBeginning
<1>10. ASSUME Agree(m, l, Len(l)) PROVE m = x /\ Agree(k, p, Len(p))
  <2>1. Len(l) <= Len(m) /\ \A i \in 1..Len(l) : m[i] = l[i]
    BY <1>10 DEF Agree
  <2>2. ~(n < h)
    <3> SUFFICES ASSUME n < h PROVE FALSE
      OBVIOUS
    <3>1. n + 1 \in 1..h /\ n + 1 \in 1..Len(l)
      BY <1>4, <1>5, <1>7
    <3> QED
      BY <1>4, <1>5, <2>1, <3>1
  <2>3. ~(h < n)
    <3> SUFFICES ASSUME h < n PROVE FALSE
      OBVIOUS
    <3>1. h + 1 \in 1..n /\ h + 1 \in 1..Len(l)
      BY <1>4, <1>5, <1>7
    <3> QED
      BY <1>4, <1>5, <2>1, <3>1
  <2>4. n = h
    BY <1>4, <1>5, <2>2, <2>3
  <2>5. ASSUME NEW i \in 1..h + 3 PROVE m[i] = x[i]
    <3>1. i \in 1..Len(l)
      BY <1>5, <1>7
    <3>2. l[i] = x[i]
      <4>1. i \in 1..h \/ i = h + 1 \/ i = h + 2 \/ i = h + 3
        BY <1>5
      <4> QED
        BY <1>5, <1>6, <4>1
    <3> QED
      BY <2>1, <3>1, <3>2
  <2>6. ASSUME NEW i \in 1..Len(m) PROVE m[i] = x[i]
    <3>1. CASE i \in 1..h + 3
      BY <2>5, <3>1
    <3>2. CASE i \notin 1..h + 3
      <4>1. PICK j \in 1..Len(k) : i = h + 3 + j
        <5>1. i - (h + 3) \in 1..Len(k) /\ i = h + 3 + (i - (h + 3))
          BY <1>4, <1>5, <1>7, <2>4, <3>2
        <5> QED
          BY <5>1
      <4> QED
        BY <1>4, <1>6, <2>4, <4>1
    <3> QED
      BY <3>1, <3>2
  <2>7. m = x
    BY <1>4, <1>6, <2>4, <2>6, SeqEqual
  <2>8. ASSUME NEW i \in 1..Len(p) PROVE k[i] = p[i]
    <3>1. h + 3 + i \in 1..Len(l)
      BY <1>5, <1>7
    <3>2. i \in 1..Len(k)
      BY <1>4, <1>5, <1>7, <2>1, <2>4
    <3> QED
      BY <1>4, <1>5, <2>1, <2>4, <3>1, <3>2
  <2>9. Len(p) <= Len(k)
    BY <1>4, <1>5, <1>7, <2>1, <2>4
  <2> QED
    BY <2>7, <2>8, <2>9 DEF Agree
<1>11. ASSUME m = x, Agree(k, p, Len(p)) PROVE Agree(m, l, Len(l))
  <2>1. Len(p) <= Len(k) /\ \A i \in 1..Len(p) : k[i] = p[i]
    BY <1>11 DEF Agree
  <2>2. Len(l) <= Len(m)
    BY <1>5, <1>6, <1>7, <1>11, <2>1
  <2>3. ASSUME NEW i \in 1..Len(l) PROVE m[i] = l[i]
    <3>1. i \in 1..h \/ i = h + 1 \/ i = h + 2 \/ i = h + 3 \/ i - (h + 3) \in 1..Len(p)
      BY <1>5, <1>7
    <3>2. CASE i \in 1..h \/ i = h + 1 \/ i = h + 2 \/ i = h + 3
      BY <1>5, <1>6, <1>11, <3>2
    <3>3. CASE i - (h + 3) \in 1..Len(p)
      <4>1. PICK j : j = i - (h + 3)
        OBVIOUS
      <4>2. j \in 1..Len(p) /\ j \in 1..Len(k) /\ i = h + 3 + j
        BY <1>5, <1>7, <2>1, <3>3, <4>1
      <4> QED
        BY <1>5, <1>6, <1>11, <2>1, <4>2
    <3> QED
      BY <3>1, <3>2, <3>3
  <2> QED
    BY <2>2, <2>3 DEF Agree
<1> QED
  BY <1>1, <1>2, <1>3, <1>8, <1>9, <1>10, <1>11

\* The pattern of the statement is the made key of the prefix and a %.
LEMMA PatternOfPrefix ==
    ASSUME NEW c \in Caches, NEW p \in Seq(Chars), NEW v \in Versions,
           Plainly(p), Plainly(KeyPrefix[c])
    PROVE  /\ MakeKey(c, p \o <<"%">>, v) = MakeKey(c, p, v) \o <<"%">>
           /\ MakeKey(c, p, v) \in Seq(Chars)
           /\ Plainly(MakeKey(c, p, v))
<1>1. PICK m, n : m = MakeKey(c, p, v) /\ n = Len(KeyPrefix[c])
  OBVIOUS
<1>2. /\ n \in Nat /\ m \in Seq(Chars) /\ Len(m) = n + 3 + Len(p)
      /\ \A i \in 1..n : m[i] = KeyPrefix[c][i]
      /\ m[n + 1] = ":" /\ m[n + 2] = v /\ m[n + 3] = ":"
      /\ \A i \in 1..Len(p) : m[n + 3 + i] = p[i]
  <2>1. Shape(m, n, KeyPrefix[c], p, v)
    BY <1>1, MakeKeyShape
  <2> QED
    BY <2>1 DEF Shape
<1>3. Len(p) \in Nat /\ DOMAIN m = 1..Len(m) /\ DOMAIN p = 1..Len(p)
  BY <1>2
<1>4. DOMAIN KeyPrefix[c] = 1..n
  BY <1>1, KeysAreTexts
<1>5. v \notin {"%", "_", Backslash} /\ ":" \notin {"%", "_", Backslash}
  BY CacheKeysAssumption DEF Backslash
<1>6. ASSUME NEW i \in 1..Len(m) PROVE m[i] \notin {"%", "_", Backslash}
  <2>1. i \in 1..n \/ i = n + 1 \/ i = n + 2 \/ i = n + 3 \/ i - (n + 3) \in 1..Len(p)
    BY <1>2, <1>3
  <2>2. CASE i \in 1..n
    BY <1>2, <1>4, <2>2 DEF Plainly
  <2>3. CASE i = n + 1 \/ i = n + 2 \/ i = n + 3
    BY <1>2, <1>5, <2>3
  <2>4. CASE i - (n + 3) \in 1..Len(p)
    <3>1. PICK j \in 1..Len(p) : i = n + 3 + j
      <4>1. i = n + 3 + (i - (n + 3))
        BY <1>2, <1>3
      <4> QED
        BY <2>4, <4>1
    <3> QED
      BY <1>2, <1>3, <3>1 DEF Plainly
  <2> QED
    BY <2>1, <2>2, <2>3, <2>4
<1>7. MakeKey(c, p \o <<"%">>, v) = MakeKey(c, p, v) \o <<"%">>
  <2> DEFINE a == KeyPrefix[c] \o <<":", v, ":">>
             b == <<"%">>
  <2>1. a \in Seq(Chars) /\ b \in Seq(Chars)
    <3>1. KeyPrefix[c] \in Seq(Chars)
      BY KeysAreTexts
    <3>2. <<":", v, ":">> \in Seq(Chars)
      BY KeysAreTexts
    <3>3. a \in Seq(Chars)
      BY <3>1, <3>2, ConcatProperties
    <3>4. "%" \in Chars
      BY KeysAreTexts
    <3> QED
      BY <3>3, <3>4
  <2> HIDE DEF a, b
  <2>2. a \o (p \o b) = (a \o p) \o b
    BY <2>1, ConcatAssociative, SMTT(60)
  <2> QED
    BY <2>2 DEF MakeKey, a, b
<1> QED
  BY <1>1, <1>2, <1>3, <1>6, <1>7 DEF Plainly

\* Every row is that of a key of one of the caches.
MadeKeys == {MakeKey(c, k, v) : c \in Caches, k \in Keys, v \in Versions}
RowsAreMade == DOMAIN cacheRows \subseteq MadeKeys

LEMMA RowsStart == CacheKeysInit => RowsAreMade
BY DEF CacheKeysInit, RowsAreMade

LEMMA RowsStep == RowsAreMade /\ [CacheKeysNext]_cacheKeyVars => RowsAreMade'
<1> SUFFICES ASSUME RowsAreMade, [CacheKeysNext]_cacheKeyVars PROVE RowsAreMade'
  OBVIOUS
<1>1. ASSUME NEW c \in Caches, NEW v \in Versions, NEW k \in Keys, SetKey(c, k, v)
      PROVE  RowsAreMade'
  <2>1. DOMAIN cacheRows' = DOMAIN cacheRows \cup {MakeKey(c, k, v)}
    BY <1>1 DEF SetKey
  <2> QED
    BY <2>1 DEF RowsAreMade, MadeKeys
<1>2. ASSUME NEW c \in Caches, NEW v \in Versions, NEW p \in Prefixes,
             KeysWithPrefix(c, p, v) \/ DeleteWithPrefix(c, p, v)
      PROVE  RowsAreMade'
  BY <1>2 DEF KeysWithPrefix, DeleteWithPrefix, RowsAreMade
<1>3. ASSUME NEW made \in DOMAIN cacheRows, Expires(made) PROVE RowsAreMade'
  BY <1>3 DEF Expires, RowsAreMade
<1>4. CASE UNCHANGED cacheKeyVars
  BY <1>4 DEF cacheKeyVars, RowsAreMade
<1> QED
  BY <1>1, <1>2, <1>3, <1>4 DEF CacheKeysNext

\* The rows that the pattern finds are those of the cache, the version and the
\* keys that begin with the prefix.
LEMMA MatchesAreBeginnings ==
    ASSUME RowsAreMade,
           NEW c \in Caches, NEW p \in Prefixes, NEW v \in Versions,
           Plainly(p), Plainly(KeyPrefix[c])
    PROVE  Matches(c, p, v) = Beginning(c, p, v)
<1>1. p \in Seq(Chars) /\ Keys \subseteq Seq(Chars)
  BY KeysAreTexts
<1>2. PICK l : l = MakeKey(c, p, v)
  OBVIOUS
<1>3. /\ MakeKey(c, p \o <<"%">>, v) = l \o <<"%">>
      /\ l \in Seq(Chars) /\ Plainly(l)
  BY <1>1, <1>2, PatternOfPrefix
<1>4. ASSUME NEW d \in Caches, NEW k \in Keys, NEW u \in Versions
      PROVE  Like(MakeKey(d, k, u), l \o <<"%">>) <=>
                 MakeKey(d, k, u) = MakeKey(c, k, v) /\ BeginsWith(k, p)
  <2>1. k \in Seq(Chars)
    BY <1>1
  <2>2. MakeKey(d, k, u) \in Seq(Chars)
    BY <2>1, MakeKeyShape DEF Shape
  <2>3. Like(MakeKey(d, k, u), l \o <<"%">>) <=> BeginsWith(MakeKey(d, k, u), l)
    <3>1. "%" \in Chars /\ l \in Seq(Chars) /\ Plainly(l)
      BY <1>3, KeysAreTexts
    <3> QED
      BY <2>2, <3>1, LikeFindsBeginnings
  <2> QED
    BY <1>1, <1>2, <2>1, <2>3, SameCache
<1>5. ASSUME NEW made \in DOMAIN cacheRows
      PROVE  Like(made, l \o <<"%">>) <=>
                 \E k \in Keys : BeginsWith(k, p) /\ made = MakeKey(c, k, v)
  <2>1. PICK d \in Caches, k \in Keys, u \in Versions : made = MakeKey(d, k, u)
    BY DEF RowsAreMade, MadeKeys
  <2> QED
    BY <1>4, <2>1
<1> QED
  BY <1>3, <1>5 DEF Matches, Beginning

\* Without wildcards and backslashes in the prefix and in the KEY_PREFIX the keys
\* with a prefix are found, and deleted, exactly.
THEOREM PrefixesAreExact == CacheKeysSpec => PrefixExact
<1> DEFINE Exact(c, p, v) ==
               Plainly(p) /\ Plainly(KeyPrefix[c]) =>
                   /\ KeysWithPrefix(c, p, v) =>
                        found' = {k \in Keys :
                                     MakeKey(c, k, v) \in Live(Beginning(c, p, v))}
                   /\ DeleteWithPrefix(c, p, v) =>
                        DOMAIN cacheRows' = DOMAIN cacheRows \ Beginning(c, p, v)
<1>1. ASSUME RowsAreMade,
             NEW c \in Caches, NEW p \in Prefixes, NEW v \in Versions
      PROVE  Exact(c, p, v)
  <2> SUFFICES ASSUME Plainly(p), Plainly(KeyPrefix[c])
               PROVE  Exact(c, p, v)
    OBVIOUS
  <2>1. Matches(c, p, v) = Beginning(c, p, v)
    BY <1>1, MatchesAreBeginnings
  <2>2. ASSUME KeysWithPrefix(c, p, v)
        PROVE  found' = {k \in Keys : MakeKey(c, k, v) \in Live(Beginning(c, p, v))}
    <3> DEFINE L == Live(Beginning(c, p, v))
    <3>1. found' = {ReverseKey(made) : made \in L}
      BY <2>1, <2>2 DEF KeysWithPrefix
    <3>2. \A k \in Keys : ReverseKey(MakeKey(c, k, v)) = k
      BY Reversed, KeysAreTexts
    <3>3. \A made \in L : \E k \in Keys : made = MakeKey(c, k, v)
      BY DEF Live, Beginning
    <3> HIDE DEF L
    <3> QED
      BY <3>1, <3>2, <3>3 DEF L
  <2>3. ASSUME DeleteWithPrefix(c, p, v)
        PROVE  DOMAIN cacheRows' = DOMAIN cacheRows \ Beginning(c, p, v)
    BY <2>1, <2>3 DEF DeleteWithPrefix
  <2> QED
    BY <2>2, <2>3
<1>2. RowsAreMade =>
          [\A c \in Caches, p \in Prefixes, v \in Versions : Exact(c, p, v)]_cacheKeyVars
  BY <1>1
<1> QED
  BY <1>2, RowsStart, RowsStep, PTL DEF CacheKeysSpec, PrefixExact

=============================================================================
