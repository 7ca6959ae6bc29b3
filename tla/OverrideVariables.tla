-------------------------- MODULE OverrideVariables --------------------------
(***************************************************************************)
(* override_mysql_variables: with blocks that set session variables and    *)
(* restore them.  The old values are kept in user variables of the session *)
(* whose names carry a prefix of the instance.  Blocks nest, also those of *)
(* one instance (a decorated function that calls itself), and MySQL may    *)
(* refuse a value.                                                         *)
(***************************************************************************)
EXTENDS Integers, Sequences

CONSTANTS
    SysVars,    \* session variables
    SysValues,  \* values that MySQL accepts
    Refused,    \* a value that it refuses
    Overrides,  \* instances
    Options,    \* per instance: its options, a sequence of <<variable, value>>
    Null,
    MaxNesting  \* bound of the model

ASSUME OverrideAssumption ==
    /\ Null \notin SysValues /\ Refused \notin SysValues
    /\ Options \in [Overrides -> Seq(SysVars \X (SysValues \cup {Refused}))]
    /\ \A o \in Overrides : \A i, j \in DOMAIN Options[o] :
           Options[o][i][1] = Options[o][j][1] => i = j  \* keys of a dict

VARIABLES
    sysVars,     \* the session's variables
    overridden,  \* the user variables @overridden_prefix_key
    blocks       \* the blocks entered, the innermost last

overrideVars == <<sysVars, overridden, blocks>>

OverrideInit ==
    /\ sysVars \in [SysVars -> SysValues]
    /\ overridden = [o \in Overrides |-> [v \in SysVars |-> Null]]
    /\ blocks = <<>>

Top == blocks[Len(blocks)]
Busy == blocks # <<>> /\ Top.at \in {"enable", "disable"}
Pop == SubSeq(blocks, 1, Len(blocks) - 1)
Goto(at, i) == [blocks EXCEPT ![Len(blocks)] =
    [by |-> Top.by, at |-> at, i |-> i, before |-> Top.before]]
Option == Options[Top.by][Top.i]
HasOption == Top.i <= Len(Options[Top.by])

\* The prefix keeps the user variables of instances apart.
OnePrefix(o) == CHOOSE p \in Overrides : TRUE  \* mutant: a common prefix
Prefix(o) == o

\* __enter__() calls enable(), a loop of SET statements, each of which sets
\* both variables or, if the value is refused, none.
EnterBlock(o) ==
    /\ ~Busy /\ Len(blocks) < MaxNesting
    /\ blocks' = Append(blocks, [by |-> o, at |-> "enable", i |-> 1,
                                 before |-> sysVars])
    /\ UNCHANGED <<sysVars, overridden>>

SetOption ==
    /\ blocks # <<>> /\ Top.at = "enable" /\ HasOption
    /\ Option[2] # Refused
    /\ overridden' = [overridden EXCEPT ![Prefix(Top.by)][Option[1]] =
                                            sysVars[Option[1]]]
    /\ sysVars' = [sysVars EXCEPT ![Option[1]] = Option[2]]
    /\ blocks' = Goto("enable", Top.i + 1)

\* The exception leaves __enter__(), so nobody calls __exit__().
SetRefused ==
    /\ blocks # <<>> /\ Top.at = "enable" /\ HasOption
    /\ Option[2] = Refused
    /\ blocks' = Pop
    /\ UNCHANGED <<sysVars, overridden>>

Enabled ==
    /\ blocks # <<>> /\ Top.at = "enable" /\ ~HasOption
    /\ blocks' = Goto("in", 1)
    /\ UNCHANGED <<sysVars, overridden>>

\* __exit__() calls disable(), whether or not the body raised.
LeaveBlock ==
    /\ blocks # <<>> /\ Top.at = "in"
    /\ blocks' = Goto("disable", 1)
    /\ UNCHANGED <<sysVars, overridden>>

Restore ==
    /\ blocks # <<>> /\ Top.at = "disable" /\ HasOption
    /\ LET old == overridden[Prefix(Top.by)][Option[1]] IN
       /\ old # Null
       /\ sysVars' = [sysVars EXCEPT ![Option[1]] = old]
       /\ overridden' = [overridden EXCEPT ![Prefix(Top.by)][Option[1]] = Null]
       /\ blocks' = Goto("disable", Top.i + 1)

\* The old value was already taken by an inner block of the same instance.
RestoreRefused ==
    /\ blocks # <<>> /\ Top.at = "disable" /\ HasOption
    /\ overridden[Prefix(Top.by)][Option[1]] = Null
    /\ blocks' = Pop
    /\ UNCHANGED <<sysVars, overridden>>

Disabled ==
    /\ blocks # <<>> /\ Top.at = "disable" /\ ~HasOption
    /\ blocks' = Pop
    /\ UNCHANGED <<sysVars, overridden>>

OverrideNext ==
    \/ \E o \in Overrides : EnterBlock(o)
    \/ SetOption \/ SetRefused \/ Enabled
    \/ LeaveBlock \/ Restore \/ RestoreRefused \/ Disabled

-----------------------------------------------------------------------------
(* Properties *)

Sets(o) == {Options[o][i][1] : i \in DOMAIN Options[o]}

\* A block whose variables disable() restored leaves each of them as it was
\* when the block was entered, whatever was nested in it and failed there.
ExitRestores ==
    [][Disabled => \A v \in Sets(Top.by) : sysVars[v] = Top.before[v]
      ]_overrideVars

=============================================================================
