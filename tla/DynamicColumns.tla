--------------------------- MODULE DynamicColumns ----------------------------
(***************************************************************************)
(* DynamicField: a column that holds a mapping, with a spec of the types   *)
(* of some keys.  The spec is used in three places: check() tests it,      *)
(* get_prep_value() tests mappings against it, and lookups choose by it    *)
(* the SQL type in which the server reads a key.  A name is a sequence of  *)
(* the words between its underscores; it has no two underscores in a row,  *)
(* where Django would end it in a lookup.                                  *)
(*   spec:    a function from names to <<"type", t>> or <<"dict", spec>>   *)
(*   mapping: a function from names to <<"value", t>>, a scalar of the     *)
(*            Python type t, or <<"dict", mapping>>                        *)
(***************************************************************************)
EXTENDS Integers, SequencesExt

CONSTANTS
    Specs, Mappings,
    Registered  \* the names of the transforms registered for the field

\* The dicts that a spec or a mapping holds.
Nested(d) == {d[k][2] : k \in {j \in DOMAIN d : d[j][1] = "dict"}}

\* Specs and mappings are finite trees of dicts, and names are not empty.
ASSUME DynamicAssumption ==
    /\ <<>> \in Specs /\ <<>> \in Mappings
    /\ \A s \in Specs : Nested(s) \subseteq Specs
    /\ \A T \in (SUBSET Specs) \ {{}} : \E s \in T : Nested(s) \cap T = {}
    /\ \A m \in Mappings : /\ Nested(m) \subseteq Mappings
                            /\ DOMAIN m \subseteq Seq(STRING) \ {<<>>}
                            /\ \A k \in DOMAIN m : m[k][1] = "value" => m[k][2] # "dict"

VARIABLES spec, stored, outcome

dynamicVars == <<spec, stored, outcome>>

\* SPEC_MAP, and the names in TYPE_MAP: a dict is read by its spec only, and
\* _BINARY behind a name has no meaning.
SpecMap == [date |-> "DATE", datetime |-> "DATETIME", float |-> "DOUBLE",
            int |-> "INTEGER", str |-> "CHAR", time |-> "TIME", dict |-> "BINARY"]
SqlTypes == Range(SpecMap) \ {"BINARY"}

\* isinstance(): in Python a bool is an int and a datetime is a date.
IsInstance(value, t) ==
    \/ value[1] = "dict" /\ t = "dict"
    \/ /\ value[1] = "value"
       /\ \/ value[2] = t
          \/ value[2] = "bool" /\ t = "int"
          \/ value[2] = "datetime" /\ t = "date"

\* _check_spec_recursively() finds nothing wrong.
SpecChecks(s) ==
    LET checks[t \in Specs] ==
            \A k \in DOMAIN t : IF t[k][1] = "dict" THEN checks[t[k][2]]
                                ELSE t[k][2] \in DOMAIN SpecMap
    IN checks[s]

\* validate_spec() raises no TypeError.
ValidateTop(s, m) ==  \* mutant: looks at the outer keys only
    \A k \in DOMAIN s \cap DOMAIN m :
        IF s[k][1] = "dict" THEN m[k][1] = "dict" ELSE IsInstance(m[k], s[k][2])
ValidateSpec(s, m) ==
    LET valid[t \in Specs] ==  \* the mappings that fit
            {n \in Mappings : \A k \in DOMAIN t \cap DOMAIN n :
                IF t[k][1] = "dict" THEN n[k][1] = "dict" /\ n[k][2] \in valid[t[k][2]]
                ELSE IsInstance(n[k], t[k][2])}
    IN m \in valid[s]

\* get_transform(): the key and the SQL type that a lookup's name stands for.
NoTransform == [key |-> <<>>, type |-> "none", subspec |-> <<>>]
GetTransform(s, name) ==
    IF name \in Registered
    THEN [key |-> <<>>, type |-> "registered", subspec |-> <<>>]
    ELSE IF name \in DOMAIN s
    THEN IF s[name][1] = "dict"
         THEN [key |-> name, type |-> "BINARY", subspec |-> s[name][2]]
         ELSE [key |-> name, type |-> IF s[name][2] \in DOMAIN SpecMap
                                      THEN SpecMap[s[name][2]] ELSE "KeyError",
               subspec |-> <<>>]
    ELSE IF Len(name) > 1 /\ Last(name) \in SqlTypes
    THEN [key |-> Front(name), type |-> Last(name), subspec |-> <<>>]
    ELSE NoTransform

DynamicInit == spec \in Specs /\ stored = <<>> /\ outcome = "none"

\* save() of an instance of the model: get_prep_value().
Store(m) ==
    /\ outcome' = IF ValidateSpec(spec, m) THEN "stored" ELSE "TypeError"
    /\ stored' = IF ValidateSpec(spec, m) THEN m ELSE stored
    /\ UNCHANGED spec

DynamicNext == \E m \in Mappings : Store(m)
DynamicSpec == DynamicInit /\ [][DynamicNext]_dynamicVars

-----------------------------------------------------------------------------
(* Properties *)

\* COLUMN_GET(... AS type) gives a value of this Python type back: a bool as
\* its number, a datetime that is read as a DATE as its date.
Reads(type, value) ==
    IF value[1] = "dict" THEN type = "BINARY"
    ELSE \E t \in DOMAIN SpecMap : SpecMap[t] = type /\ IsInstance(value, t)

\* Whatever mapping was stored: each key of a spec that passes check() has a
\* lookup, at each level, that reads the key in the type of its value, unless
\* a registered transform has its name and hides it; and any key is looked up
\* in the type of TYPE_MAP, not BINARY, that is put behind its name, unless
\* that makes the name of another key of the spec or of a transform.
Readable(s, m) ==
    LET readable[r \in Specs] ==  \* the mappings of which this is true
            {n \in Mappings :
                /\ \A name \in DOMAIN r \ Registered :
                    LET t == GetTransform(r, name) IN
                    /\ t.key = name /\ t.type \in SqlTypes \cup {"BINARY"}
                    /\ name \in DOMAIN n =>
                        /\ Reads(t.type, n[name])
                        /\ t.type = "BINARY" => n[name][2] \in readable[t.subspec]
                /\ \A name \in DOMAIN n, sql \in SqlTypes :
                    name \o <<sql>> \notin DOMAIN r \cup Registered =>
                        /\ GetTransform(r, name \o <<sql>>).key = name
                        /\ GetTransform(r, name \o <<sql>>).type = sql}
    IN m \in readable[s]

DynamicReadable == SpecChecks(spec) => Readable(spec, stored)

=============================================================================
