------------------------------- MODULE Columns -------------------------------
(***************************************************************************)
(* ListCharField and SetCharField: a row's column holds the members as one *)
(* text with commas.  Clients update it in place with ListF and SetF,      *)
(* whose SQL works on the text, or load the value, change it in Python or  *)
(* by a form, and save it whole.  Texts are sequences of characters.       *)
(***************************************************************************)
EXTENDS Integers, FiniteSets, SequencesExt

CONSTANTS
    Clients,
    Chars,       \* the characters of texts
    Items,       \* the members that updates are about
    Values,      \* the lists and sets that programs put in an attribute
    TypedTexts,  \* what users type into a form
    BaseMaxLength,  \* max_length of the base field,
    MaxLength,      \* of the column,
    Size,           \* the field's size,
    BaseRequired,   \* and ~blank of the base field
    Null

\* check() reports E003 or E006 for a field whose members might not fit.
Checked == Size * BaseMaxLength + Size - 1 <= MaxLength

ASSUME ColumnsAssumption ==
    \* ListF and SetF test neither: that is left to their callers.
    /\ Items \subseteq Seq(Chars) \ {<<>>}
    /\ \A x \in Items : \A i \in DOMAIN x : x[i] # ","
    /\ BaseMaxLength \in Nat /\ MaxLength \in Nat /\ Size \in Nat /\ Checked
    \* With blank=True on the base field a form accepts a member " ", which
    \* is stripped to one that save() refuses.  The field itself has
    \* blank=True: no members are fine.
    /\ BaseRequired

ASSUME TextsAssumption ==
    /\ "," \in Chars /\ Null \notin Seq(Chars)
    /\ TypedTexts \subseteq Seq(Chars)
    /\ Values["list"] \subseteq Seq(Seq(Chars))
    /\ \A v \in Values["set"] : IsFiniteSet(v) /\ v \subseteq Seq(Chars)

VARIABLES
    kind,    \* of the field: list or set
    text,    \* the column
    memory,  \* per client, the attribute of its instance
    last     \* the latest operation: [op, by, arg, done]

columnVars == <<kind, text, memory, last>>

-----------------------------------------------------------------------------
(* Text and members *)

Join(items) ==
    LET join[n \in 0..Len(items)] ==
            IF n = 0 THEN <<>>
            ELSE IF n = 1 THEN items[1]
            ELSE join[n - 1] \o <<",">> \o items[n]
    IN  join[Len(items)]

Commas(s) == {i \in DOMAIN s : s[i] = ","}

\* The parts of a text, when one more character has been read.
Longer(parts, char) ==
    IF char = "," THEN Append(parts, <<>>)
    ELSE [parts EXCEPT ![Len(parts)] = Append(@, char)]
Split(s) ==
    LET split[n \in 0..Len(s)] ==
            IF n = 0 THEN << <<>> >> ELSE Longer(split[n - 1], s[n])
    IN  split[Len(s)]

\* to_python() and from_db_value()
MembersOf(s) == IF s = <<>> THEN <<>> ELSE Split(s)
ToPython(s) == IF kind = "list" THEN MembersOf(s) ELSE Range(MembersOf(s))

\* get_prep_value(), which takes a set in any order.
Storable(k, value) ==
    LET members == IF k = "list" THEN Range(value) ELSE value IN
    \A v \in members : v # <<>> /\ Commas(v) = {}
Texts(value) ==
    IF kind = "list" THEN {Join(value)}
    ELSE {Join(order) : order \in SetToSeqs(value)}

Fits(s) == Len(s) <= MaxLength

-----------------------------------------------------------------------------
(* MySQL's functions and the expressions built from them *)

ConcatWs(a, b) == Join((IF a = Null THEN <<>> ELSE <<a>>)
                       \o (IF b = Null THEN <<>> ELSE <<b>>))
EmptyToo(s) == s  \* mutant
NullIfEmpty(s) == IF s = <<>> THEN Null ELSE s
FindInSet(x, s) ==
    LET at == {i \in DOMAIN MembersOf(s) : MembersOf(s)[i] = x}
    IN  IF at = {} THEN 0 ELSE CHOOSE i \in at : \A j \in at : i <= j
SubstringIndex(s, n) ==
    LET parts == Split(s) IN
    IF n >= 0 THEN Join(SubSeq(parts, 1, IF n < Len(parts) THEN n ELSE Len(parts)))
    ELSE Join(SubSeq(parts, IF -n < Len(parts) THEN Len(parts) + n + 1 ELSE 1,
                     Len(parts)))

AppendListF(s, x) == ConcatWs(NullIfEmpty(s), x)
AppendLeftListF(s, x) == ConcatWs(x, NullIfEmpty(s))
PopListF(s) ==
    SubSeq(s, 1, IF Commas(s) = {} THEN 0
                 ELSE Len(s) - Len(SubstringIndex(s, -1)) - 1)
PopLeftListF(s) ==
    IF Commas(s) = {} THEN <<>>
    ELSE SubSeq(s, (CHOOSE i \in Commas(s) : \A j \in Commas(s) : i <= j) + 1,
                Len(s))
AddSetF(s, x) ==
    IF FindInSet(x, s) # 0 THEN s ELSE ConcatWs(NullIfEmpty(s), x)
RemoveSetFFirst(s, x) ==  \* mutant: also drops the member before
    LET pos == FindInSet(x, s) IN
    IF pos = 0 THEN s
    ELSE ConcatWs(NullIfEmpty(SubstringIndex(s, pos - 2)),
            NullIfEmpty(SubstringIndex(s, pos - Cardinality(Commas(s)) - 1)))
RemoveSetF(s, x) ==
    LET pos == FindInSet(x, s)
        len == Cardinality(Commas(s)) + (IF s = <<>> THEN 0 ELSE 1)
        before == SubstringIndex(s, pos - 1)
        after == SubstringIndex(s, -(len - pos))
    IN  IF pos = 0 THEN s
        ELSE ConcatWs(NullIfEmpty(before), NullIfEmpty(after))

\* Lookups: contains, len, and by index (0 is the first).
SetContains(s, x) == FindInSet(x, s) # 0
SetLengthCommas(s) == Cardinality(Commas(s)) + 1  \* mutant
SetLength(s) == Cardinality(Commas(s)) + (IF s = <<>> THEN 0 ELSE 1)
IndexLookup(s, i, x) == FindInSet(x, s) = i + 1

-----------------------------------------------------------------------------
(* What clients do *)

Did(op, c, arg, done) == last' = [op |-> op, by |-> c, arg |-> arg, done |-> done]

ColumnsInit ==
    /\ kind \in {"list", "set"}
    /\ text = <<>>
    /\ memory = [c \in Clients |-> ToPython(<<>>)]
    /\ last = [op |-> "none", by |-> Null, arg |-> Null, done |-> TRUE]

\* One UPDATE.  A strict server refuses a text that is too long.
Update(c, op, x, new) ==
    /\ text' = IF Fits(new) THEN new ELSE text
    /\ Did(op, c, x, Fits(new))
    /\ UNCHANGED <<kind, memory>>

UpdateList(c, x) ==
    /\ kind = "list"
    /\ \/ Update(c, "append", x, AppendListF(text, x))
       \/ Update(c, "appendleft", x, AppendLeftListF(text, x))
       \/ Update(c, "pop", Null, PopListF(text))
       \/ Update(c, "popleft", Null, PopLeftListF(text))
UpdateSet(c, x) ==
    /\ kind = "set"
    /\ \/ Update(c, "add", x, AddSetF(text, x))
       \/ Update(c, "remove", x, RemoveSetF(text, x))

Load(c) ==
    /\ memory' = [memory EXCEPT ![c] = ToPython(text)]
    /\ Did("load", c, Null, TRUE)
    /\ UNCHANGED <<kind, text>>

Edit(c, value) ==
    /\ memory' = [memory EXCEPT ![c] = value]
    /\ Did("edit", c, Null, TRUE)
    /\ UNCHANGED <<kind, text>>

\* save(): a ValueError for members with commas or without text, an error of
\* the server for too long a text.
SaveRefused(c) == ~Storable(kind, memory[c]) \/ \A s \in Texts(memory[c]) : ~Fits(s)
Save(c) ==
    /\ IF SaveRefused(c) THEN UNCHANGED text ELSE text' \in Texts(memory[c])
    /\ Did("save", c, Null, ~SaveRefused(c))
    /\ UNCHANGED <<kind, memory>>

\* clean() of SimpleListField and SimpleSetField.  A CharField strips.
Strip(s) ==
    LET solid == {i \in DOMAIN s : s[i] # " "}
    IN  IF solid = {} THEN <<>> ELSE SubSeq(s, Min(solid), Max(solid))
Cleaned(typed) ==
    LET items == MembersOf(typed)
        values == [i \in DOMAIN items |-> Strip(items[i])]
    IN  [value |-> IF kind = "list" THEN values ELSE Range(values),
         doubleComma |-> \E i \in DOMAIN items : items[i] = <<>>,
         duplicate |-> kind = "set" /\ Cardinality(Range(values)) < Len(values),
         invalid |-> \E i \in DOMAIN values :
                        \/ Len(values[i]) > BaseMaxLength
                        \/ BaseRequired /\ values[i] = <<>>,
         tooMany |-> Len(values) > Size]
NoErrors(f) == ~(f.doubleComma \/ f.duplicate \/ f.invalid \/ f.tooMany)

Clean(c, typed) ==
    LET f == Cleaned(typed) IN
    /\ memory' = IF NoErrors(f) THEN [memory EXCEPT ![c] = f.value] ELSE memory
    /\ Did("clean", c, Null, NoErrors(f))
    /\ UNCHANGED <<kind, text>>

ColumnsNext ==
    \E c \in Clients :
        \/ \E x \in Items : UpdateList(c, x) \/ UpdateSet(c, x)
        \/ \E v \in Values[kind] : Edit(c, v)
        \/ \E t \in TypedTexts : Clean(c, t)
        \/ Load(c) \/ Save(c)

ColumnsSpec == ColumnsInit /\ [][ColumnsNext]_columnVars

-----------------------------------------------------------------------------
(* Properties *)

\* The text with its SQL expressions is a list or a set, whatever updates,
\* forms and saves of other clients interleave.
LegalValue(k, value) ==
    /\ Storable(k, value)
    /\ IF k = "list" THEN Fits(Join(value))
       ELSE Fits(Join(SetToSeq(value)))
M == INSTANCE Members WITH members <- ToPython(text), Legal <- LegalValue
ImplementsMembers == M!Spec

\* A column never holds empty members, nor a set duplicates, so what is read
\* back is what the text says.
WellFormed ==
    /\ \A i \in DOMAIN MembersOf(text) : MembersOf(text)[i] # <<>>
    /\ kind = "set" => Cardinality(ToPython(text)) = Len(MembersOf(text))
    /\ Join(MembersOf(text)) = text /\ Fits(text)

\* Lookups on the text answer as they would for the value; a lookup by index
\* finds a member's first occurrence.
LookupsRight ==
    LET items == MembersOf(text) IN
    /\ SetLength(text) = Len(items)
    /\ \A x \in Items :
        /\ SetContains(text, x) = (x \in Range(items))
        /\ \A i \in 0..Len(items) :
            IndexLookup(text, i, x) =
                /\ i < Len(items) /\ items[i + 1] = x
                /\ \A j \in 1..i : items[j] # x

=============================================================================
