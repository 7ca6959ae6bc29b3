---------------------------- MODULE CacheContract ----------------------------
(***************************************************************************)
(* What a shared cache promises its callers: a map from keys to objects    *)
(* with expiry times, on which every call takes effect at one instant.     *)
(*                                                                         *)
(* A call judges expiry by a time between its start and its effect on the  *)
(* caller's own clock.  Apart from calls, entries may only be forgotten:   *)
(* expired ones at any time, live ones where the size is limited.  A call  *)
(* that fails changes nothing.                                             *)
(***************************************************************************)
EXTENDS Integers, FiniteSets

CONSTANTS
    Clients, Keys,
    Nothing,         \* the absence of an entry
    Nobody,          \* the absence of a client
    Limited,         \* is the number of entries limited?
    Skew,            \* per client: how far its clock runs ahead
    IntMin, IntMax,  \* range of the integers incr and decr can store
    SignedAnswers,   \* do incr and decr answer the number that they store,
                     \* or that number as an unsigned one?
    ExpiredCounts    \* do they count on in an entry that has expired, as
                     \* long as it was not forgotten?

VARIABLES
    clock,
    content,   \* an entry [obj, expires] or Nothing for each key
    request,   \* per client: [op, keys, entries, exp, delta, since]
    answer     \* of the latest step: [client, op, outcome, n, found]

contents == <<clock, content, request, answer>>

Idle == [op |-> "none", keys |-> {}, entries |-> [k \in Keys |-> Nothing],
         exp |-> 0, delta |-> 0, since |-> 0]
Silent == [client |-> Nobody, op |-> "none", outcome |-> "none", n |-> 0,
           found |-> {}]

Init ==
    /\ clock = 1
    /\ content = [k \in Keys |-> Nothing]
    /\ request = [c \in Clients |-> Idle]
    /\ answer = Silent

\* The calls that judge whether an entry has expired.
Timed == {"add", "get", "get_many", "get_with_prefix", "keys_with_prefix",
          "has_key", "touch", "incr", "decr"}

Moments(c) == request[c].since..(clock + Skew[c])
Present == {k \in Keys : content[k] # Nothing}
Visible(t) == {k \in Present : content[k].expires >= t}
Held(t) == {k \in Present : content[k].expires > t}

Answers(c, outcome, n, found) ==
    /\ request' = [request EXCEPT ![c] = Idle]
    /\ answer' = [client |-> c, op |-> request[c].op, outcome |-> outcome,
                  n |-> n, found |-> found]
    /\ UNCHANGED clock

Says(c, b) == Answers(c, IF b THEN "True" ELSE "False", 0, {})

Asks(c, ops) == request[c].op \in ops

\* The methods that refuse to be called with no keys.
Batch == {"get_many", "set_many", "delete_many"}
Refused(c) == Asks(c, Batch) /\ request[c].keys = {}

\* The keys S get the entries of the request, T get nothing.
Change(c, S, T) ==
    content' = [k \in Keys |-> IF k \in S THEN request[c].entries[k]
                               ELSE IF k \in T THEN Nothing
                               ELSE content[k]]

Store(c) ==
    /\ Asks(c, {"set", "set_many"}) /\ ~Refused(c)
    /\ Change(c, request[c].keys, {})
    /\ Says(c, TRUE)

StoreIfAbsent(c) ==
    /\ Asks(c, {"add"})
    /\ \E t \in Moments(c) :
        LET free == request[c].keys \ Held(t)
        IN  Change(c, free, {}) /\ Says(c, free # {})

Retrieve(c) ==
    /\ Asks(c, {"get", "get_many", "get_with_prefix", "keys_with_prefix"})
    /\ ~Refused(c)
    /\ \E t \in Moments(c) :
        Answers(c, "rows", 0, {<<k, content[k].obj>> :
                                 k \in request[c].keys \cap Visible(t)})
    /\ UNCHANGED content

Test(c) ==
    /\ Asks(c, {"has_key"})
    /\ \E t \in Moments(c) : Says(c, request[c].keys \cap Held(t) # {})
    /\ UNCHANGED content

Remove(c) ==
    /\ ~Refused(c)
    /\ Change(c, {}, request[c].keys)
    /\ LET gone == request[c].keys \cap Present
       IN  \/ Asks(c, {"delete"}) /\ Says(c, gone # {})
           \/ /\ Asks(c, {"delete_with_prefix"})
              /\ Answers(c, "number", Cardinality(gone), {})
           \/ Asks(c, {"delete_many"}) /\ Answers(c, "None", 0, {})

RemoveAll(c) ==
    /\ Asks(c, {"clear"})
    /\ content' = [k \in Keys |-> Nothing]
    /\ Answers(c, "None", 0, {})

Extend(c) ==
    /\ Asks(c, {"touch"})
    /\ \E t \in Moments(c) :
        LET live == request[c].keys \cap Visible(t)
        IN  /\ content' = [k \in Keys |->
                            IF k \in live
                            THEN [content[k] EXCEPT !.expires = request[c].exp]
                            ELSE content[k]]
            /\ Says(c, live # {})

\* The keys of the request that can be counted with at time t, the number
\* that results, and how it is answered.
Counters(c, t) ==
    {k \in request[c].keys \cap (IF ExpiredCounts THEN Present ELSE Visible(t)) :
        content[k].obj.kind = "int" /\ content[k].obj.n \in IntMin..IntMax}
Counted(c, k) == content[k].obj.n + request[c].delta
Told(n) == IF SignedAnswers \/ n >= 0 THEN n ELSE n + (IntMax - IntMin + 1)

Adjust(c) ==
    /\ Asks(c, {"incr", "decr"})
    /\ \E t \in Moments(c) : \E k \in Counters(c, t) :
        /\ Counted(c, k) \in IntMin..IntMax
        /\ content' = [content EXCEPT ![k].obj.n = Counted(c, k)]
        /\ Answers(c, "number", Told(Counted(c, k)), {})

\* cull() answers a number of forgotten entries; the entries of the last
\* batch go in the same instant.
ForgetMore(t) ==
    \E S \in SUBSET (IF Limited THEN Present ELSE Present \ Visible(t)) :
        content' = [k \in Keys |-> IF k \in S THEN Nothing ELSE content[k]]

CullDone(c) ==
    /\ Asks(c, {"cull"})
    /\ \E t \in Moments(c), n \in 0..(2 * Cardinality(Keys)) :
        ForgetMore(t) /\ Answers(c, "number", n, {})

\* A batch of no keys, a key incr cannot count with, a number that is out of
\* range, a failed cull.
Fail(c) ==
    /\ \/ Refused(c) /\ Answers(c, "ProgrammingError", 0, {})
       \/ /\ Asks(c, {"incr", "decr"})
          /\ \E t \in Moments(c) :
                \/ Counters(c, t) = {} /\ Answers(c, "ValueError", 0, {})
                \/ /\ \E k \in Counters(c, t) : Counted(c, k) \notin IntMin..IntMax
                   /\ Answers(c, "IntegrityError", 0, {})
       \/ /\ Asks(c, {"set", "add", "set_many", "cull"}) /\ Limited
          /\ Answers(c, "TypeError", 0, {})
    /\ UNCHANGED content

Ask(c) ==
    /\ request[c] = Idle
    /\ request'[c] # Idle
    /\ request'[c].op \in Timed => request'[c].since = clock + Skew[c]
    /\ request' = [request EXCEPT ![c] = request'[c]]
    /\ answer' = Silent
    /\ UNCHANGED <<clock, content>>

\* A call with an expiry that cannot be computed asks for nothing.
Refuse(c) ==
    /\ request[c] = Idle
    /\ answer'.client = c /\ answer'.outcome = "TypeError"
    /\ answer'.op \in {"set", "add", "set_many", "touch"}
    /\ UNCHANGED <<clock, content, request>>

Forget == \E c \in Clients : \E t \in Moments(c) :
    /\ request[c] # Idle
    /\ ForgetMore(t)
    /\ answer' = Silent
    /\ UNCHANGED <<clock, request>>

Tick ==
    /\ clock' = clock + 1
    /\ answer' = Silent
    /\ UNCHANGED <<content, request>>

Reply(c) ==
    \/ Store(c) \/ StoreIfAbsent(c) \/ Retrieve(c) \/ Test(c) \/ Remove(c)
    \/ RemoveAll(c) \/ Extend(c) \/ Adjust(c) \/ CullDone(c) \/ Fail(c)

Next == Tick \/ Forget \/ \E c \in Clients : Ask(c) \/ Refuse(c) \/ Reply(c)

Spec == Init /\ [][Next]_contents

=============================================================================
