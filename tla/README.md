# A verification development of django-mysql

django-mysql extends Django with what is special to MySQL and MariaDB: a cache
backend, list, set and dynamic fields, query set extensions, named and table
locks, status helpers, migration operations.  Most of that is stateless text
(SQL fragments, field definitions).  What can go wrong in ways that a test
hardly reaches is the part that keeps state on a shared server and reads and
writes it in several steps.  This directory models that part in TLA+, checks it
with TLC and proves the central facts with TLAPS.

Paths below are relative to the repository's root; `cache.py` is
`src/django_mysql/cache.py`.

## 1. Inventory

| component | state | operations | hard behaviour |
|---|---|---|---|
| **Cache backend** `cache.py` | one table of rows (key, value, value_type, expires); the server's clock of each process | get, set, add, touch, delete, incr/decr, has_key, get/set/delete_many, *_with_prefix, clear, cull | many processes, autocommit statements that interleave; results of one statement used in the next (cull); time read before it is compared; column order in `ON DUPLICATE KEY UPDATE`; answers smuggled through the insert id |
| **cull_mysql_caches** command | none | cull() of some caches | runs beside the application |
| **Smart iteration** `models/query.py` (SmartChunkedIterator and its subclasses), `utils.py` (WeightedAverageRate, StopWatch) | current key, chunk size, weighted rate | iterate, adjust, report | rows come and go while it runs; chunk size changes between chunks; consumer stops or fails inside `atomic()` |
| **Query set extensions** `models/query.py` | `_count_tries_approx`, `_found_rows`, result cache; the connection's FOUND_ROWS() | derive, hint, count, approx_count, sql_calc_found_rows, found_rows, iterator | state copied (or not) by clones; FOUND_ROWS() belongs to the connection's latest SELECT; a setter that sends a statement |
| **Query rewriting** `rewrite_query.py`, `apps.py` | none | hoist marks out of one statement | order of hints, exclusive hints, index hints, statements of other code |
| **User locks** `locks.py` Lock | the server's lock table | acquire, release, is_held, holding_connection_id, held_with_prefix | timeout, waiting for each other, lost connection, reentrancy |
| **Table locks** `locks.py` TableLock | connection's transaction and locked tables | acquire, release | statements that commit implicitly; failure between two statements; models with parents |
| **Status** `status.py` | none | get, get_many, as_dict, wait_until_load_low | polling a load that changes, with a timeout |
| **List and set fields** `models/fields/lists.py`, `sets.py`, `forms.py`, `validators.py`, `models/lookups.py`, `transforms.py` | text with commas | to/from Python, validation, forms, lookups | empty strings, commas, duplicates; reading, changing and saving whole |
| **List and set expressions** `models/expressions.py` | the stored text | append, pop, add, remove in SQL | concurrent updates; variables inside a statement |
| **Dynamic field** `models/fields/dynamic.py` | a mapping | check, validate, look a key up | one spec read in three places; nesting; names with a type behind them |
| **Migration operations** `operations.py` | plugins, table engines | forwards, backwards | check, then act, by processes that migrate together |
| **override_mysql_variables** `test/utils.py` | session variables | enable, disable | failure in the middle, nesting |
| other fields, functions, aggregates, checks, dbparams, apps | none | render SQL, configure, print | - |

Components meet at the server.  The cache's write calls call its own `cull()`;
the cull command calls it from another process; smart iteration calls
`wait_until_load_low` before each chunk and `approx_count` for its progress
report; the query set methods leave markers that the rewriter turns into hints.
Nothing here talks to another process except through MySQL.

What makes each component correct, in a sentence: the cache is a linearizable
map with expiry whatever its callers interleave; its size stays bounded; an
expired row goes; an iteration covers each row that existed throughout exactly
once; a lock has one holder, and who lost it is told; a table lock covers all
that a block writes, and nothing of it is committed early; a list expression does
to the text what the Python operation does to the list; a rewritten query differs
from the original in its hints only; found_rows is the number of this query set's
rows; a migration leaves the server as it says; what was overridden is restored.

## 2. The modules

| module | what it is |
|---|---|
| `MySQLCache` | the state machine of `cache.py` |
| `CacheContract` | what a shared cache promises, with no SQL, no rows and no culling algorithm |
| `CacheRefinement` | the mapping from `MySQLCache` to `CacheContract` |
| `MCMySQLCache` | instances of it for TLC |
| `MCCacheContract` | the instance for the contract, with a workload on one key and one on several |
| `CacheLease` | `MySQLCache` with callers that elect a leader by add() |
| `MCCacheLease` | an instance of it for TLC |
| `MySQLCacheProofs` | type correctness and readability of the table, its size, what culls delete, and that `MySQLCache` implements `CacheContract`, proved |
| `CacheLeaseProofs` | mutual exclusion of the leases, proved |
| `SmartIterator` | one smart iteration, its consumer and the other sessions, with its properties |
| `MCSmartIterator` | an instance of it for TLC |
| `SmartIteratorProofs` | coverage, disjointness, atomicity and progress of the chunks, proved |
| `Connection` | the sessions of processes: owned, lost, replaced |
| `UserLock`, `TableLock` | the two classes of `locks.py`, each on `Connection` |
| `Locks` | their composition: clients that use both on connections that are lost |
| `MCLocks` | an instance of it for TLC |
| `LocksProofs` | exclusion and the transactions of table locks, proved |
| `LikePattern` | MySQL's LIKE, used by `Migrations` and `CacheKeys` |
| `Migrations` | `operations.py`, run by several processes |
| `LoadWait` | `wait_until_load_low` of `status.py` |
| `OverrideVariables` | `override_mysql_variables` of `test/utils.py` |
| `ServicesProofs` | what migrations and overriding blocks leave behind, and key prefixes, proved |
| `CacheKeys` | the `*_with_prefix` methods of `cache.py`, on made keys |
| `MCServices` | an instance for TLC of the last four components |
| `RewriteQuery` | `rewrite_query.py` as a function on tokens, and what its result should be |
| `QuerySets` | `QuerySetMixin`, on top of `RewriteQuery` |
| `ModelsProofs` | the rewriting of statements, found_rows and approximate counts, proved |
| `Induction` | induction over numbers, sequences and trees, and recursive functions, for three of the proof modules |
| `Members` | what a list or set column promises |
| `Columns` | list and set fields, expressions, forms and lookups on the column's text |
| `ColumnsProofs` | that `Columns` implements `Members`, its lookups, and those of dynamic columns, proved |
| `DynamicColumns` | the spec of `DynamicField` |
| `MCModels` | an instance for TLC of `RewriteQuery`, `QuerySets`, `Columns` and `DynamicColumns` |

### MySQLCache: correspondence with the code

A *client* is a process (or thread: each has its own connection) of the
application.  A call of the backend is one *begin* action, the statements of a
cull if it culls, and one *execution*:

* **begin** (`Set`, `Add`, `SetMany`, `Touch`, `Lookup`, ...) is the Python code
  up to the first statement: it computes the expiry (`Expiry`,
  `get_backend_timeout`), encodes the value (`Encode`), may decide to cull
  (`MaybeCull`; the dice are a nondeterministic choice unless the probability is
  0 or 1).  It fails at once when there is no expiry to compute.
* **CullExpired, CullCount, CullAll, CullOffset, CullBelow** are the statements
  of `cull()`, one action each; `cull[c]` holds its local variables, which may be
  stale.
* **ExecSet, ExecAdd, ...** are the final statements.  Connections are in
  autocommit mode (the documentation demands it), so a statement is atomic and
  clients interleave only between statements.

`pc[c]` names the statement that client `c` sends next; `now[c]` is the result
of `_now()` that is one of its parameters: it is read when the statement is
built, and other clients may run, and time may pass, before it executes.
`Skew[c]` is how far the clock of the client's server is ahead.  `answer` is the
result the latest step returned to its caller, if it ended a call; properties
and the refinement speak about it.

Encode in one place also what a row *is*: the value column is an object together
with the form it was written in (`decimal`, `pickle`, `zlib`), and value_type says
how to read it.  Whether the two agree is a property (`TableReadable`), not an
assumption.  `UpdateIfExpired` evaluates the three assignments of `_add_query`
from left to right, as MySQL does, the later ones over the columns already
changed.

Abstractions: a made key is its position in the collation; a value is one of a
few objects that `encode()` distinguishes (an integer, something small, something
that pickles to COMPRESS_MIN_LENGTH or more); the prefix that a `*_with_prefix`
method gets is the set of keys it matches; time counts ticks.  Router, `make_key`,
`validate_key` and reverse keys are left out here (keys are `CacheKeys`' subject).  The server's
behaviour (atomic statements, matched-row counts under `CLIENT.FOUND_ROWS`, the
insert id, range errors) is modelled from how the code uses it.

History: `call[c].since` is the time at which the call began, on the caller's
clock; no action's guard reads it.

### CacheContract and the refinement

The contract has one variable `content` (object and expiry for each key), the
pending `request` of each client and the `answer`.  A reply takes effect in one
step and is fixed by the contents at that instant: the number that incr answers, the
error of an empty batch, what a get returns.  Expiry is judged by *some* moment between
the request's start and its reply on the caller's own clock.  Entries may be forgotten
between calls: expired ones always, live ones only where the size is limited.  A failing
call changes nothing.

In one respect the code does not do what its documentation promises: `docs/cache.rst`
(124, 132-134) has incr and decr as in any Django cache, on signed numbers, while the
code answers the number as an unsigned one and counts on in rows that have expired.  Two
constants say which of the two a contract has, `SignedAnswers` and `ExpiredCounts`.
`Contract` is what the code does, exactly (`ImplementsContract`); `Documented` is what
the documentation says, and `ImplementsDocumented` is refuted (a finding below).

`CacheRefinement` maps the table to `content` by decoding every row and a
running call to `request`; `ImplementsContract` then says that every interleaving
of statements is a behaviour of the contract: linearizability of every method,
and that culls are nothing but forgetting.  The order of the columns in
`_add_query`, the boundary of each comparison, and the staleness of `now` all
bear on it.

### CacheLease

A job that must not run twice is usually guarded by `if cache.add(key, ..., timeout)`.
`CacheLease` adds what the winner believes: a lease until the expiry its call
computed.  A lease is *active* while no clock has reached that expiry.  The
workload is restricted (named assumption `LeaseAssumption`) to calls that neither
overwrite nor evict: set, touch, delete, clear and a limited size break the
pattern in any cache, and the module says so.

### SmartIterator

`SmartChunkedIterator.__iter__` is a generator: `pc` says where it is suspended or
what it does next.  `start` and `max` are the two queries of
`get_first_and_last()`, two actions (`FindMin`, `FindMax`) because other sessions
may run between them; `GivenRange` is the case of a `pk_range` tuple.  `loop` is
the head of the `while`: it ends (`Finish`), gives up waiting for the load
(`LoadStaysHigh`) or yields a chunk (`YieldChunk`).  `chunk` is the `yield`: the
consumer fetches the chunk (`Fetch`), updates it (`Update`), asks for the next one
(`NextChunk`: commit, progress, new chunk size) or leaves (`Close`: the
`GeneratorExit` rolls the transaction back).  `current`, `size`, `start`, `end`,
`objects` are the code's variables; `result` is the chunk's result cache, which
decides both the progress count and the next size.

Other sessions insert, change and delete rows at any time, but not rows that the
open transaction has changed, which MySQL locks.  `conf.auto` tells whether new
keys come from an auto-increment counter.  A row is absent, matches the queryset,
or exists without matching; the measured rate is any of `Rates`, among them 0.

History: `passed` (keys of finished slices), `counted` (rows handed out in them),
`steady` (rows that matched at the start and that no other session touched),
`born` (auto-increment keys given out after the last key was found).

### Connection, UserLock, TableLock and Locks

`locks.py` keeps almost nothing: a `Lock` object has a name, a `TableLock` two
lists and the atomic block.  The locks are the server's, per *session*, and a
session may end at any moment with its user locks, table locks and transaction,
while the Python program goes on in the body of its `with` statement.  The modules
keep both sides apart: `entered[c]` (the blocks a client is in, with the session
that entered each), `phase[c]`, `autocommit[c]` are what the program believes;
`userLocks`, `tableLocks`, `dirty` are what the server has.  `conn[c]` is the
session, numbers of which are not used again; Django replaces a lost session at
the next request, but not inside of `atomic()` (`Reconnects`).

* `Acquire` sends `GET_LOCK`, which waits; `Acquired` and `GivesUp` are its
  answers 1 and 0 or NULL.  A session may hold a lock several times (MySQL 5.7.5
  and MariaDB 10.0.2 on).  `ReleaseLock` has the three answers of `RELEASE_LOCK`.
* `TableLock.acquire()` is `EnterRefused` or `Enter` (the check of autocommit and
  `atomic().__enter__()`), then `LockTables` or `LockTablesFails`.  `release()` is
  `Leave` (the end of the atomic block), `CommitFails` or `LeaveLost`, then
  `Unlock`.  A failing statement raises: the steps after it do not happen.
* `WithParents` is the least set of tables that contains a model's parents;
  `_process_names` computes it with a work list.  Emptying the list that the
  caller passed is modelled by requests that name nothing.
* `Begin`, `Commit` and `Write` are the application; `Grantable` and `Writable` are
  MySQL's rules.

### Migrations, LoadWait, OverrideVariables, CacheKeys

`Migrations`: `Start` is the statement that tests (`plugin_installed`, the engine in
`INFORMATION_SCHEMA.TABLES`) with the decision on it, `ChangePlugin` and
`AlterEngine` the statement that acts.  Other processes run between them.  The
server's answers to `INSTALL` of a plugin that is there, and to `UNINSTALL` of one
that is not, are errors; and it may refuse any acting statement for a reason of its own,
such as a missing library, privilege or engine, which changes nothing (`Refuse`).
History: `since` is what others did to the server since the operation began, `refused`
whether its statement was refused for such a reason.  After a refusal nothing is claimed
of the server until the operation is run again, which is then like any other run.  `plugin_installed` compares with LIKE, so a name with `_` in
it is found when only a look-alike is installed; `LookAlike` is that case.

`LoadWait`: the loop of `wait_until_load_low` as poll, decide, sleep; the clock and
the load move in between.  Names that the server does not know are not in what
`get_many` returns, and are waited for in no way.

`OverrideVariables`: each `SET` is a step, and sets both variables or none.  Blocks
nest, also two of one instance (a decorated function that calls itself): the inner
`disable()` then takes the old value away and the outer one fails
(`RestoreRefused`).  A refused value in `enable()` leaves `__enter__`, so nothing
restores what was set before it: `ExitRestores` says that an *outer* block of
those variables does.  History: `before` in a block.

`CacheKeys`: keys are sequences of characters; `MakeKey` is Django's key function,
`ReverseKey` the regular expression, `Matches` the LIKE, with both wildcards and the
escape character, since nothing of a prefix is escaped (`LikePattern`).  A colon in a KEY_PREFIX is
refused when the cache is made (`KeyPrefixAssumption`); the refusal of a cache
without a reverse key function is left out; `MySQLCache` has the values, clocks and
concurrent clients of the same methods.

### RewriteQuery and QuerySets

A statement is a sequence of tokens: the keyword, comments, hints, tables in FROM
and JOIN, marks, and anything else.  `Rewrite` translates `rewrite_query`:
sorting the marks (`Marks`), parsing the start of the statement (`Understood`,
`CommentsEnd`, `HintsEnd` as the regular expression does, group by group),
choosing one hint a group (`Chosen`), inserting index hints one by one
(`AddIndexHints`).  `RewriteRight` says what the result should be without going
through those steps.

`QuerySets` has a program with query sets in variables.  A deriving method is
`Clone` and a change; `_clone` resets `_found_rows` to None if there is one.
`Evaluate` and `Fetched` are the two halves of `_fetch_all()`: between them Django
makes instances, and the code of those may use other query sets on the same
connection (`fetching` is the stack of such evaluations).  `WithResultCache` is the
setter of `_result_cache`, which sends `SELECT FOUND_ROWS()`.  `lastFound` is what
the connection would answer.  `Send` passes a statement through `rewrite_hook`, so
that SQL_CALC_FOUND_ROWS counts only if the rewriter put it there.  For a query set that
Django knows to be empty (`Empty`: `[:0]`, `none()`, `pk__in=[]`) it sends no statement,
but the setter still asks for FOUND_ROWS(): `EvaluateEmpty`.  History:
`trueTotal` is the number that found_rows should have; `disturbed` marks the cases
in which it may be another: `update()` on the query set itself (its setter asks for
FOUND_ROWS() of whatever came before), and statements that instances send.

### Members, Columns, DynamicColumns

`Columns` holds a column's text as characters, with clients that update it in
place by `ListF` and `SetF` (each expression is written in MySQL's functions as the
code does), or load it, change the attribute or clean a form, and save it whole.
`Members` is the value as Python sees it; `ImplementsMembers` is the refinement
under `members <- ToPython(text)`: each update does to the list or set what its
name says, a refused one nothing, a form yields only values that can be saved.
The instance assumes what a project that passes the checks has: `size` members
fit in the column, members of updates have no commas and are not empty, the base
field is not blank.  A strict server refuses a text that is too long.

`DynamicColumns`: `SpecChecks` is the check, `ValidateSpec` the test on saving,
`GetTransform` the choice of a lookup's SQL type: a transform that the program has
registered under the name comes first, then the spec, then a type behind the name.
`DynamicReadable` relates the
three: what passes the first two is read by the third in its own type, at every
depth, unless a registered transform hides the key.  A spec value is a scalar type, a dict of its own, or the type `dict`
itself, whose lookups go on without a spec.  The three recurse along the spec; they
are written as functions on `Specs`, the set of the specs and of all dicts in them.
The code calls itself on the inner dict and stops at the first key that does not fit;
here a level gives the set of the mappings that fit, which is the same answer.

## 3. The runs

| run | question | states | bounds |
|---|---|---|---|
| `cache_contract` | two clients run the single-key methods on one row, or batches, prefixes, clear and cull over two keys: `TypeOK`, `TableReadable`, `ImplementsContract` | 116 k | clocks 1 apart, 3 ticks (2 with batches); two objects, an integer range of -1..1 so that incr leaves it and answers a negative number; compression on at one client only; batches `{}` and both keys; timeouts 0, 1 and the default, with TIMEOUT None; writes to several keys may cull |
| `incr_documented` | finding: decr() answers an unsigned number | - | one row |
| `cache_cull_alone` | one client that calls any method and culls at every write: `CullCompletes`, `CullFreesShare` | 450 k | 5 keys, MAX_ENTRIES 3, CULL_FREQUENCY 2 |
| `cache_cull_shared` | two clients that always cull: `SizeBounded`, `CullReports` | 640 k | as above; rows that expire at once or never, one tick |
| `cache_cron` | periodic cull beside writers, fairness: `CallsReturn`, `ExpiredGoes` | 25 k | 2 keys, CULL_FREQUENCY 0 |
| `cache_lease` | two electing clients and a culling one: `LeaseExclusive`, `LeaseBacked` | 58 k | 3 clients, timeouts 1 and 2, clocks 1 apart |
| `smart_iteration` | an iteration over a changing table: `Covered`, `NoOverlap`, `NewRowsSkipped`, `UnfinishedChunkUndone`, `ReportCounts`, `Terminates` | 540 k | 3 keys; both directions; given, searched and full ranges; sizes 1 and 2 |
| `cull_race` | finding: a cull raises when another overtakes it | - | 2 clients, 3 keys |
| `locks` | user and table locks on failing connections: `TypeOK`, `OneInside`, `ExitTellsLoss`, `AcquireReturns`, `DirtyUnderLock`, `BlockKeepsLocks`, `OthersKeepOut`, `NoImplicitCommit` | 156 k | 2 clients, 3 sessions, one lock, 2 nested blocks, a table and its parent's |
| `services` | `EffectHolds`, `FailsOnlyInRace`; `TimedWaitEnds`, `LowLoadEndsWait`; `ExitRestores`; `PrefixExact` | 82 k | 2 migrating processes, 3 plugins, one a look-alike, any statement refused; clock up to 5, timeouts 0 and 2; 3 nested blocks of 3 instances, one refused; 2 caches, 2 versions, 2 rows; keys and prefixes with a colon, a wildcard or a backslash |
| `models` | `FoundRowsRight`, `HintsReachServer`, `OnlyTablesApproximated`; `WellFormed`, `LookupsRight`, `ImplementsMembers`; `DynamicReadable` | 233 k | 4 calls on 2 query sets, 2 connections, 2 marks, slices of 0 and 1; raw statements with up to 3 marks; 2 clients, members of one and two characters, a column of 5; specs and mappings two deep, one registered transform |
| `table_lock_stuck` | finding: a LOCK TABLES that fails leaves the transaction open | - | as `locks` |

`services` and `models` each hold several components that share no state.  Their
variable `part`, which never changes, says which of them a behaviour runs, and
the variables of the others stay as they began; so a property of one component
is checked on its own behaviours, all of them.

`MaxTime` bounds the clock: the model stops ticking there.  Three ticks suffice
for a row to be written, to reach its expiry and to pass it while a call is
under way.  Two clients suffice for every pair of interleaved calls; a third is
there where culling interferes with two that compete.  Five keys are needed to
overfill a table of three entries: with fewer keys `SizeBounded` could not fail.
Three keys with chunks of one or two give iterations of one to three chunks, with
the last one cut or not, and room for a row to come or go on either side.

In `locks` the third session is what one client gets after losing its own while
the other lives; with two nobody could reconnect.  Two nested blocks hold a lock
twice, and one on each side of a reconnection; a table with one parent lets
requests by either name collide.  Four calls derive a query set with
SQL_CALC_FOUND_ROWS, evaluate it, put another evaluation, a count or a clone
beside, and read found_rows.  A column of five characters holds two members and
refuses a third.  A query set asks for one hint besides SQL_CALC_FOUND_ROWS; labels, index hints and
hints that exclude each other are in the raw statements.  `models` uses the symmetry of
the program's variable names and of the connections; none of its properties is a liveness property.

No run disables the deadlock check: a client can always begin a call, and a
finished iteration, or the end of a program's calls in `models`, is an explicit
stuttering step (`Ended`).

Fairness (`FairSpec`): weak fairness of each client's own statements (a thread
that runs a call is eventually scheduled and MySQL answers), of the clock, and of
the periodic `Cull` of the cron client.  No fairness is assumed for any other
call: nobody has to use the cache.  `SmartIterator`'s `FairSpec` assumes that the
generator runs on when asked (waiting for the load ends with a timeout) and that
the consumer, in a chunk, at last asks for the next or leaves; never that other
sessions stop.  `Locks` assumes only that a waiting `GET_LOCK` is answered, since it
has a timeout; not that anybody releases a lock.  `MCServices` assumes that the
waiting thread and the clock go on; the load may change for ever, and
`LowLoadEndsWait` has "the load stays low from some time on" as its premise.

What the runs show beyond "it holds":

* `SizeBounded` states the bound the code really guarantees: with n clients and
  CULL_PROBABILITY 1, `MAX_ENTRIES - 1 + n` rows, or `CULL_FREQUENCY * n` if that is
  more.  Replacing `num < MAX_ENTRIES` by `<=` breaks it.
* `CullFreesShare` holds for a client that culls alone only.
* `CallsReturn` depends on cull() not looping: a cull that counted again until
  few enough rows are left could be kept busy for ever by other writers.
* `Covered` speaks of rows that stay: a row that another session makes match late,
  or moves, may be missed, and the code does not promise otherwise.
* `UnfinishedChunkUndone` is worth knowing as a user: leaving the loop with `break`
  rolls back what was done in the current chunk, unless `atomically=False`.
* `NewRowsSkipped` needs keys that grow; with other keys a row inserted into the
  part not yet walked is offered.
* `OneInside` speaks of clients whose sessions live.  A client whose session is lost
  may still run its body while another enters; MySQL cannot prevent it, and
  `ExitTellsLoss` is what the code offers instead: leaving raises then, also when the
  client has reconnected and holds the lock again.
* `AcquireReturns` holds although two clients may wait for each other, by the
  timeout alone.  `TableLock` has none, and nothing is claimed of it.
* `NoImplicitCommit` is why `acquire()` must refuse inside of `atomic()`: MySQL's
  LOCK TABLES would commit the application's half-done transaction.
* `EffectHolds` and `FailsOnlyInRace`: of two processes that install together one
  raises, and the plugin is there for both; but a look-alike name defeats both.  They
  survive refused statements: a process that failed can run its operation again, and then
  returns with the effect unless it is refused again.
* `FoundRowsRight` excepts three cases that the documentation does not mention: two in
  `disturbed`, and empty query sets.
* `LookupsRight` is about the first occurrence of a member: FIND_IN_SET gives only
  that one, so `field__1=x` misses a list that has x at 0 and at 1.
* `PrefixExact` excepts prefixes and KEY_PREFIXes with `_`, `%` or a backslash in them.

### Findings

* **A write can fail because of the cull it triggered** (`cache.py:643`).  Between
  the `COUNT(*)` and the `SELECT ... OFFSET` of one cull another client's cull may
  delete rows, `fetchone()` is then `None`, and `None[0]` raises a TypeError out of
  `set()`; the value is not stored.  With `CULL_FREQUENCY` 1 a single client gets
  there, as the offset equals the number of rows.
* **A failing LOCK TABLES leaves the transaction open** (`locks.py:162`).
  `acquire()` has entered `atomic()` by hand; when the statement raises (a missing
  table, an empty list, a table that is in both lists, also by a common parent),
  the `with` statement was not entered and nobody leaves it.  The connection stays
  out of autocommit mode, later writes are in a transaction that nobody commits,
  and every later `TableLock` on it is refused.  Likewise a commit that fails in
  `release()` (`locks.py:172`) skips `UNLOCK TABLES`.

* **incr and decr answer unsigned numbers** (`cache.py:413`).  The new value comes back as
  the insert id: decr() of a counter at 0 stores -1 and returns 2^64 - 1, where the
  documentation promises the range of SIGNED BIGINT.  The stored value is right.  They
  also count on in a row that has expired but was not yet culled (`cache.py:418-424`),
  where Django's API has a ValueError; `ImplementsDocumented` excludes both, and TLC meets
  the first of them first.

Each of these is a run whose property TLC refutes, with the documentation that it
contradicts quoted in `PROJECT.json`.  Other disagreements were met while modelling
and are in the models as the code has them, without a run of their own:

* get_many, set_many and delete_many of nothing send `IN ()` or `VALUES` of nothing and
  raise a ProgrammingError (`cache.py:190`), where Django's other backends do nothing.
* With `TIMEOUT: None` every write with the default timeout raises (`cache.py:524`).
* An empty query set yields one chunk, from 0 to 1 (`models/query.py:513`), where the
  comment says that it yields none; the smart iterator hides it,
  `iter_smart_pk_ranges` returns the pair (0, 1).
* `_` and `%` in a prefix or in KEY_PREFIX are wildcards (`cache.py:543`): a
  `delete_with_prefix("a_")` deletes keys that begin with `ab`.  A backslash is LIKE's
  escape character: a prefix that ends in one takes the meaning from the `%` that is put
  behind it, and keys that begin with it are not found (`cache.py:543`, `cache.py:554`).
* Without MAX_ENTRIES cull() answers 0, however many expired rows it deleted
  (`cache.py:624`).
* found_rows is read once: evaluating again does not refresh it, and after
  `update()` or `delete()` on the query set it is a number of another statement
  (`models/query.py:198`).
* found_rows of an empty query set (`[:0]`, `none()`, `pk__in=[]`) is what the latest SELECT
  on the connection found, whoever sent it: no statement is sent for the rows, but
  FOUND_ROWS() is asked for (`models/query.py:195-201`).  `docs/queryset_extensions.rst:296-299`
  says "the total count of matching rows will be calculated when you only take a slice".
* `docs/model_fields/dynamic_field.rst:174` lists BINARY among the types that can be put
  behind a key, with examples such as `attrs__dimensions_BINARY__width_m_INTEGER` (210-215);
  `TYPE_MAP` leaves BINARY out (`models/fields/dynamic.py:308-309`), so that lookup is refused.
  A nested dict can be looked into by its spec only.
* FIND_IN_SET and the `> ''` of the expressions compare by the column's collation, which may
  ignore case; `Columns` compares members exactly, as Python does.  What is said of list and
  set columns is meant for a collation that keeps the members apart.
* Several index hints on one table come out in reverse order
  (`rewrite_query.py:163`), which MySQL does not mind.
* `wait_until_load_low` ignores thresholds of misspelt names (`status.py:108`).
* A refused value in `override_mysql_variables` leaves the variables before it
  overridden (`test/utils.py:76`).
* With a base field that has `blank=True` a form accepts a member `" "`, which
  saving refuses (`forms.py:65`).  `ListF` and `SetF` test neither commas nor
  emptiness nor size.

## 4. The proofs

`MySQLCacheProofs` proves, for any set of clients, any finite set of keys and any
options that satisfy the named assumptions of `MySQLCache`:

* `TypeCorrect`: `Spec => []TypeOK`.  `TypeOK` is inductive as it stands: it
  says of a running call that a write has a row for each of its keys (`Call`),
  which is what keeps `table` full rows when it executes.
* `AlwaysReadable`: `Spec => []TableReadable`.  The strengthening is that the
  rows a running call is about to write are readable too.  The heart is the
  lemma `UpdateIsOneOfBoth`: the three conditional assignments of `_add_query`,
  evaluated from left to right, give either the old row or the new one, never a
  mixture.

* The arguments of a running call fit its method and its phase (`CallsFit`): one
  key for single-key methods, an expiry for writes, times that the caller's clock
  has reached.  The other cache proofs use it.

The same module proves what culling guarantees.

* `SizeAlwaysBounded`: if every write culls and writes one row (`EveryWriteCulls`, the
  setting under which a bound is promised at all), then `[]SizeBounded` for any number of
  clients, any MAX_ENTRIES and CULL_FREQUENCY.  The size is not inductive: a client that
  has counted will insert.  The invariant (`Room`) says for every v that the rows left
  when v of them have gone, with the inserts that wait for no more than v rows, stay
  within the bound.  A count at which a client does not cull leaves room for all of
  them; otherwise its share of the rows goes before it inserts.
* `CullAloneCompletes` and `CullAloneFreesShare` for one client and any table: what it
  counted is still there, so the OFFSET finds a row, and as many rows are smaller as
  it skips (a lemma about ranks).  The first needs CULL_FREQUENCY other than 1: with 1
  the OFFSET is the number of rows, as the first finding tells.
* `CullAlwaysReports` for any clients, if there is a MAX_ENTRIES.

It also proves `BackendImplementsContract`: `Spec =>
ImplementsContract`.  The mapping decodes every row and keeps the request of a
running call, so a begin is the contract's request, an execution its reply, and a
statement of a cull a stutter or a step that forgets entries.  There is one lemma per
action.  The hard ones are the executions: `ExecAdd` replies what the contract
allows because the row that `UpdateIfExpired` leaves is one of the two and the
insert id tells which; `ExecTouch`, `ExecGet` and `ExecDelta` judge expiry by `now`, which
`CallsFit` puts between the call's start and its reply.

`CacheLeaseProofs` proves `LeaseSafe`: `LeaseSpec => []LeaseExclusive`.
Exclusiveness is not inductive; the invariant `LeaseInv` adds that an active
lease is backed by a row that expires no earlier (`LeaseBacked`) and that nobody
compares with a time that its clock has not reached (`LeaseControl`).  Then a
step either keeps every row that is live on all clocks (`Harmless`: every call,
the cull of expired rows, every execution other than a winning add), or it is an
add that wins; it wins only over a row that is expired by its own clock, so no
lease on that key is active.

The same invariant gives `LeasesAreBacked`: `LeaseSpec => []LeaseBacked`.

`SmartIteratorProofs` proves type correctness, all five safety properties and the
progress of the iteration, for any finite set of integer keys, any ranges, chunk sizes, bounds
0 < chunk_min <= chunk_max and any rates:

* `IterationCovers` and `ChunksDisjoint` rest on `IterationInvariant`: the keys
  passed are exactly those of the span before the current key (`WalkInv`), and a
  row that nobody touched lies within the span (`SteadyInv`), since it matched when
  both ends were looked for.  The step that matters is `ChunkInSpan`: the keys
  walked before a chunk, with the chunk, are the keys walked after it, also
  when the last slice is cut just after the last key.
* `AbandonedChunkUndone`: an unpassed row that nobody else touched matches, unless
  the open transaction changed it, and then it belongs to the open chunk.
* `NewRowsAreSkipped`: the auto-increment counter bounds both ends of the span, so
  a later key lies outside it.
* `ReportsCount`: the rows counted are of chunks passed, and the result of the open
  chunk lies within it, so none is counted twice.
* `IterationTypeCorrect`: the type invariant, which they use.
* `IterationAdvances`: with both ends known, every step of the generator and every
  `next()` lowers the natural number `StepsLeft`, two for each key ahead and a few for
  the end, and nothing else raises it.  It rests on a chunk size that is never 0, which
  `TypeOK` says.  This is the part of `Terminates` that is no matter of fairness; that
  the steps are taken stays with TLC.

`LocksProofs` proves the type invariant and all six safety properties of the locks,
for any finite set of clients, any number of sessions, any names, nesting, tables,
inheritance and requests.  The invariant `LocksInv` has two parts.

* Of the user locks (`UserInv`): every session has one owner and every session in a
  block was opened (`SessionsKnown`); of a client's blocks the ones that its present
  session entered are innermost (`BlocksInOrder`), which is false without the rule
  that ids are not used again; and a session holds a lock exactly as often as its
  client is in blocks that this session entered (`HoldsAsEntered`), a statement of
  cardinalities.  `OneInside` follows since a lock has one holder; `ExitTellsLoss`
  since the innermost block is of the present session if any is.
* Of the table locks (`TableInv`): what each phase of a client says of its autocommit
  mode, its locks and its changes (`Coherent`), and that the locks of two sessions
  are compatible (`LocksExclude`).  `OthersKeepOut` needs that `WithParents` is
  closed: two models that share an ancestor meet in its table.

`ServicesProofs` proves `EffectHolds` and `FailsOnlyInRace` for any number of
processes, plugins, engines and operations and any refusals.  Neither is inductive:
`MigrationsInv` adds what a process between its statements found (`FoundHolds`: it
still holds unless another changed it) and why one that raised without being refused
did (`Excused`).

It also proves `ExitRestores`, for any instances, options and
nesting.  The invariant `OverrideInv` follows the user variables of each instance,
which only its innermost block owns (`Innermost`): they hold the values from before
that block, or nothing once a block of the same instance inside of it has taken them
(`Saved`); while enable() or disable() runs, the session variables that were not yet
set, or already reset, are as before the block (`AsBefore`).  An entered block has no
refused option (`Entered`), so a refused value cannot spoil what an outer block of
the same instance has saved.

`Induction` is for functions on sequences and trees.  What one on sequences computes is
shown by induction over the length.  The library's induction theorems take an operator
as a parameter, which the provers cannot instantiate; but they prove that a set of
numbers has a least element (`WFMin`), and from that a set with 0 and the successors of
its elements has all numbers (`Induction`), and `f[n] == IF n = 0 ... f[n - 1] ...`
defines a function (`Recursion`).  `ServicesProofs` and the two modules that follow use it.
For recursion along a tree there is `TreeRecursion`: if every set of elements has one that
needs no other of them (`Founded`) and each equation looks only at what its element
needs (`Looks`), some function obeys them all.  Solutions on parts that
are closed agree (`SolvedOnce`), so they are joined; an element outside of the join
that needs nothing outside would have a solution after all.

The third theorem of `ServicesProofs` is `PrefixesAreExact`: `CacheKeysSpec =>
PrefixExact` for any texts as keys, prefixes and KEY_PREFIXes.  `LikeFindsBeginnings`: of
a pattern of plain characters and a last %, the places that LIKE reaches after n
characters are {n} or none.  `SameCache`: two made keys of which one begins with the
other have their first colon at the same place, so their KEY_PREFIX and version agree;
`Reversed`: the key behind it comes back as it was.

`ModelsProofs` is about `rewrite_query()` and query sets.

* `RewriteIsRight`: `RewriteRight(sql, Rewrite(sql))`, without a bound on the length of
  the statement, on the number of marks or on where they stand.  Its one hypothesis,
  `Parses`, is the grammar that `query_start_re` is written for: without its marks the
  statement is a keyword (any), comments, hints in the order of their groups (in a
  SELECT only), and a rest without comments, hints and index hints.  The raw
  statements of the `models` run are of this form too; a statement that is not, such
  as one with a comment between its hints, is not covered.
  - `HintsEndIs` and `Matched`: the match, group by group, ends where the hints end,
    and finds for each group its hint or nothing.
  - `ChosenRight`: what is chosen is again in the order of the grammar and has one
    hint of each group, the last that was asked for.
  - `AllExtended`: each index hint added to the rest goes behind the first mention of
    its table and keeps those added before in place, and removes nothing.
  - `RightParts`: what `HintsRight`, `CommentsRight`, `IndexesRight` and `Bare` say of
    the two statements whole follows from their parts, by what `Only` keeps of each
    (`PartsByKind`).
* `HintsAreSent`: `QuerySetsSpec => []HintsReachServer`.  `StatementParses` shows that
  the three statements of a query set are in that grammar, whatever marks it has; the
  invariant is `QueriesInv`, which types the query sets, and the property itself.  A query
  set that is empty sends nothing, and the statement before it stays the latest.
* `FoundRowsAreRight`: `QuerySetsSpec => []FoundRowsRight`, for any tables, connections,
  query sets and hints.  `HintIsSent` follows a hint through the rewriting: the statement
  that Django makes is parsed to its comments and hints, the last mark of a group is the
  hint of the group, and nothing removes it.  The invariant `QueriesInv` says of every
  query set which number its `_found_rows` stands for, and of a running evaluation that
  FOUND_ROWS() is still its own unless it was disturbed.  Empty query sets, which ask for
  the number of another statement, are what the property excepts (`EvaluateEmptyKeeps`);
  the proof shows that their asking harms no other query set but those being fetched.
* `ApproximationsOfTables`: `OnlyTablesApproximated` follows from the conditions of
  `approx_count` in each state, with no invariant.

`ColumnsProofs` proves that `Columns` implements `Members`, for any clients, characters,
members, values, typed texts and sizes that pass `check()`.

* The text is taken apart as it was put together: `SplitJoin` for members without
  commas, by induction over the list; `SplitAppend`, `JoinConcat` and
  `CommasAndParts` relate Join, Split and the number of commas step by step.
* Each of MySQL's functions is then one on members: SUBSTRING_INDEX takes the first or
  the last of them (`SubstringIndexIs`), FIND_IN_SET finds the first occurrence or 0
  (`FindIs`), CONCAT_WS joins two lists (`ConcatWsOfLists`); so are the six expressions
  built from them (`AppendIs`, `PopIs`, `PopLeftIs`, `AddIs`, `RemoveIs`).
* The invariant `ColumnsInv` says that the text is the join of some list of members
  that have text and no commas, without duplicates in a set, and fits.  A save keeps
  it for a set too: whatever order the set is written in, the text has one length
  (`SameLength`), so whether the server refuses it is not a matter of luck.
* A form without errors gives members that `save()` accepts and that fit
  (`CleanedIs`, `ShortEnough`), which is where `check()`'s size * max_length + size - 1
  is used: E003 and E006 are sufficient.
* `ColumnsAreWellFormed`, `LookupsAreRight` and `ColumnsImplementMembers` follow from
  the invariant, the last one action by action.

It also proves `DynamicColumnsAreReadable`: `DynamicSpec => []DynamicReadable`, for any
specs and mappings of any depth and number of keys, and any registered transforms.  The check, the validation and what
the property asks obey their equations level by level (`ChecksEquation`,
`ValidEquation`, `ReadableEquation`, by `TreeRecursion`).  `KeyIsRead` is one level: the type that
`get_transform()` chooses reads the value that the spec let pass, and where it is BINARY
the value is a dict that fits the spec that the lookup goes on with.  `FitsIsReadable` is the
induction on the spec.  The invariant is that what is stored fits (`DynamicInv`); a
mapping that is refused leaves it.

The assumptions are those in the modules: clock differences are constant and
FOREVER_TIMEOUT lies beyond the horizon; `IntMin..IntMax` is not empty; keys are
integers (their collation is a total order) and finitely many; a timeout is None, the
default or a natural number; there are at least as many sessions as clients; a name
matches itself as a LIKE pattern; the options of an instance, which are a dict, have
distinct names; no entry of the contract is the absence of a row; no KEY_PREFIX has a
colon, which the code refuses; an absent `_found_rows` is not None; the marks of a
query set are marks; what is said of list and set columns with `Members` above
(members of updates are not empty and have no commas, the size was checked, the base
field is required), and texts are of characters, among them the comma; specs and
mappings are finite trees of dicts with names that are not empty, and a scalar is not
a dict (`DynamicAssumption`).  TLC evaluates all of them in every run of a module that
has them.

Every invariant, action property and refinement that a passing run checks is a theorem.
Only model-checked is liveness (`CallsReturn`, `ExpiredGoes`, `Terminates`, `AcquireReturns`,
`TimedWaitEnds`, `LowLoadEndsWait`), which is out of the prover's reach: weak fairness
is about ENABLED.

## 5. Not modelled, and what is left

* `models/functions.py`, `models/aggregates.py`, the other field types
  (`bit`, `enum`, `fixedchar`, `sizes`, `tiny_integer`), `checks.py`, `dbparams`,
  `mysql_cache_migration`, `pt_visual_explain`: they render SQL, a migration's text
  or output, or run an external program, and keep no state; what their SQL means is
  the server's.
* The arithmetic of `WeightedAverageRate` and the text of progress reports: the
  iteration is right for every rate.
* The regular expressions of `rewrite_query.py` below the level of tokens; union
  query sets and EXPLAIN statements, which get no hints; routers that answer with
  another connection at each call.
* `get`, `as_dict`, `is_held`, `held_with_prefix`: single statements that read.
* The packing of dynamic columns, which is `mariadb_dyncol`'s.
