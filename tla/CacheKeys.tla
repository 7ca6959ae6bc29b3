------------------------------ MODULE CacheKeys ------------------------------
(***************************************************************************)
(* The operations of the cache that work on keys with a common prefix.     *)
(* Several caches (or instances of one with other settings) may share a    *)
(* table; their keys differ in KEY_PREFIX and VERSION.                     *)
(***************************************************************************)
EXTENDS LikePattern, FiniteSets

CONSTANTS
    Caches,     \* the caches on the table
    KeyPrefix,  \* the KEY_PREFIX of each, a sequence of characters
    Keys,       \* the keys that callers use, and
    Prefixes,   \* the prefixes: sequences of characters
    Versions    \* single digits

ASSUME CacheKeysAssumption ==
    /\ KeyPrefix \in [Caches -> Seq(STRING)]
    /\ Keys \subseteq Seq(STRING) /\ Prefixes \subseteq Seq(STRING)
    /\ Versions \subseteq {"0", "1", "2", "3"}

\* A cache with a colon in its KEY_PREFIX is refused when it is made.
Reversible(c) == \A i \in DOMAIN KeyPrefix[c] : KeyPrefix[c][i] # ":"
ASSUME KeyPrefixAssumption == \A c \in Caches : Reversible(c)

VARIABLES
    cacheRows,  \* the table: made keys, and whether each is live or expired
    found       \* the answer of the latest operation

cacheKeyVars == <<cacheRows, found>>

\* Django's default KEY_FUNCTION and its reverse, the regular expression
\* ^([^:]*):(\d+):(.*) : the key is what follows the second colon.
MakeKey(c, k, v) == KeyPrefix[c] \o <<":", v, ":">> \o k
ReverseKeyLast(made) ==  \* mutant: splits at the last colon
    LET last == CHOOSE i \in DOMAIN made :
                    made[i] = ":" /\ \A j \in i + 1..Len(made) : made[j] # ":"
    IN  SubSeq(made, last + 1, Len(made))
ReverseKey(made) ==
    LET first == CHOOSE i \in DOMAIN made :
                    made[i] = ":" /\ \A j \in 1..i - 1 : made[j] # ":"
    IN  SubSeq(made, first + 3, Len(made))

CacheKeysInit == cacheRows = <<>> /\ found = {}

SetKey(c, k, v) ==
    /\ cacheRows' = [made \in DOMAIN cacheRows \cup {MakeKey(c, k, v)} |->
                        IF made = MakeKey(c, k, v) THEN "live"
                                                   ELSE cacheRows[made]]
    /\ UNCHANGED found

Expires(made) ==
    /\ cacheRows[made] = "live"
    /\ cacheRows' = [cacheRows EXCEPT ![made] = "expired"]
    /\ UNCHANGED found

\* WHERE cache_key LIKE %s, with the made key of the prefix and a %.
Matches(c, prefix, v) ==
    {made \in DOMAIN cacheRows : Like(made, MakeKey(c, prefix \o <<"%">>, v))}
Live(rows) == {made \in rows : cacheRows[made] = "live"}

\* keys_with_prefix(); get_with_prefix() adds the values to the same keys.
KeysWithPrefix(c, prefix, v) ==
    /\ found' = {ReverseKey(made) : made \in Live(Matches(c, prefix, v))}
    /\ UNCHANGED cacheRows

\* Also the rows that are expired.
DeleteWithPrefix(c, prefix, v) ==
    /\ cacheRows' = [made \in DOMAIN cacheRows \ Matches(c, prefix, v) |->
                        cacheRows[made]]
    /\ found' = {}

CacheKeysNext ==
    \/ \E c \in Caches, v \in Versions :
        \/ \E k \in Keys : SetKey(c, k, v)
        \/ \E p \in Prefixes : KeysWithPrefix(c, p, v) \/ DeleteWithPrefix(c, p, v)
    \/ \E made \in DOMAIN cacheRows : Expires(made)

CacheKeysSpec == CacheKeysInit /\ [][CacheKeysNext]_cacheKeyVars

-----------------------------------------------------------------------------
(* Properties *)

\* The rows of a cache and a version whose keys begin with a prefix.
Beginning(c, prefix, v) ==
    {MakeKey(c, k, v) : k \in {k \in Keys : BeginsWith(k, prefix)}}
        \cap DOMAIN cacheRows

\* keys_with_prefix() answers with the live keys, as the caller wrote them,
\* that begin with the prefix, and delete_with_prefix() deletes those only,
\* whatever other caches and versions are in the table, as long as neither
\* the prefix nor the KEY_PREFIX has a wildcard of LIKE or a backslash: they
\* are not escaped, and one backslash at the end disarms the % that is added.
PrefixExact ==
    [][\A c \in Caches, p \in Prefixes, v \in Versions :
        Plainly(p) /\ Plainly(KeyPrefix[c]) =>
            /\ KeysWithPrefix(c, p, v) =>
                found' = {k \in Keys : MakeKey(c, k, v) \in Live(Beginning(c, p, v))}
            /\ DeleteWithPrefix(c, p, v) =>
                DOMAIN cacheRows' = DOMAIN cacheRows \ Beginning(c, p, v)
      ]_cacheKeyVars

=============================================================================
