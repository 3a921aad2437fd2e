# A TLA+ model of dbic++

dbic++ is a C++ client library with one interface over three databases. A program holds a
`dbi::Handle`, `Statement`, `Query` or `Result`; each forwards to an `AbstractHandle`,
`AbstractStatement` or `AbstractResult` of a driver that was loaded at run time (`postgresql`,
`mysql`, `sqlite3`). The library is single threaded. What makes it hard is that every object stands
for state it does not own: a server session that fails, reconnects and rolls back by itself, or a
client library with a cursor of its own. The library keeps counters and row numbers as its idea of
that state. These modules say when the idea is right, and what a program is told when it is not.

## Inventory

| Component | State it keeps | Operations | Interacts with | Correct when | Module |
|---|---|---|---|---|---|
| Transactions of a handle (`src/handle.cc`, `drivers/*/handle.cc`) | facade: list `trx`; driver: counter `tr_nesting`; server: transaction and savepoints | `begin`, `commit`, `rollback`, the same with a name, `transactions`, `execute`, `reconnect` | facade calls driver, driver sends one or two statements; exceptions pass through all three | what `commit` reported is durable, what `rollback` reported is gone, the three nesting depths agree | `NestedTransactions` |
| Result cursors (`drivers/*/result.cc`, `mysql/binary_result.cc`) | `_rowno`, `_rows`; MySQL: a list cursor and one buffered row | `read(row)`, `read(r,c)`, `tell`, `seek`, `rewind` | `Result` forwards; `libmysqlclient` owns the text list | a call answers with the row it names, on every driver alike | `ResultCursors` |
| Statement and Query facade (`src/statement.cc`, `src/query.cc`) | `st`, `rs`, `h`, `params` | constructors, `bind`, `execute`, `<<`, `finish`, `cleanup`, `result`, destructors | own driver statements and results | one owner per object; parameters belong to one execution | `StatementFacade` |
| Execution and its results (`drivers/*/handle.cc`, `sqlite3/statement.cc`, `sqlite3/result.cc`) | slot `_result`; MySQL: `affected_rows` of the connection; SQLite: the result a statement keeps | `execute`, `result`, `write`, `close` | results pass from the handle or statement to the client | one owner per result; `result()` is that of the last query; rows, types and count are its own | `ExecutionResults`, `Sqlite3Execution` |
| Asynchronous execution (`pg`, `mysql` handle and result) | the connection's unread results | `aexecute`, `Result::retrieve`, `consumeResult`, `prepareResult`, `cancel` | several results share one connection | `retrieve` returns, with the result of its own query | `AsyncResults` |
| Connections and prepared statements | `conn`, server side statements | constructor, `close`, `reconnect`, `prepare`, `finish`, `cleanup`, destructors | statements keep the connection, by reference, by handle or by value | nothing outlives the session it belongs to; the library spoils no transaction | `PreparedStatements` |
| Bulk write (`drivers/*/handle.cc`, `mysql/common.cc`) | COPY state, `CopyInList` | `Handle::write`, the infile callbacks | reads an `IO` | no row is lost or changed, the count is right; nothing is left behind | `BulkWrite` |
| IO buffers (`src/string_io.cc`, `src/file_io.cc`) | `rpos`, `wpos`, `alloc` | `write`, `writef`, `read`, `readline`, `truncate` | read by bulk write | bytes come out once, in order; no copy leaves the block | `StringIO` |
| Driver registry (`src/dbic++.cc`) | map `drivers` | `dbiInitialize`, `initCheck`, `available_drivers`, `dbiShutdown` | `dlopen`, `dlclose` | what is used is loaded, what is not in use is not, who is denied is not there | `DriverRegistry` |
| Parameter binding, row decoding (`*/common.cc`, `mysql/binary_result.cc`) | the text being rewritten; the place in a row | `PQ_`, `SQLITE3_`, `MYSQL_PREPROCESS_QUERY`, `MYSQL_INTERPOLATE_BIND`, `fetchRow` | | the server runs what was meant, a field is read as sent | `Placeholders`, `BinaryRow` |
| Value types, utilities, examples, benchmarks, packaging | none that outlives a call | | | | not modelled |

Hard behaviours, each listed with its line in `PROJECT.json`: exceptions between the two halves of
an update (the facade's list, then the driver's counter, then the server; the old statement deleted,
the new one not prepared); the loss of a connection before, during and after a statement; sessions
replaced under an open transaction or a prepared statement (`reconnect()`, `MYSQL_OPT_RECONNECT`);
servers that end transactions by themselves; a lost reply to COMMIT; row numbers that outlive the
buffer they describe; a result taken by the wrong object; polling that has to end. There is no
concurrency inside the library and it persists nothing itself.

## How the modules fit

| Modules | Checked by | Proved in |
|---|---|---|
| `SqlSession`, `DriverTransactions`, `NestedTransactions` => `TransactionScopes` | `MCNestedTransactions`: six runs | `DriverTransactionsProofs`, `NestedTransactionsProofs`, `NestedTransactionsRefinement` |
| `ResultCursors` => `Cursor` | `ResultCursors`: two runs | `ResultCursorsProofs` |
| `StatementFacade`, `PreparedStatements` | `MCStatements`: run `statements` | `StatementsProofs` |
| `ExecutionResults`, `Sqlite3Execution`, `AsyncResults` | `MCResults`: run `results` | `ResultsProofs` |
| `StringIO` => `ByteQueue`, `BulkWrite` | `MCLoading`: run `loading` | `LoadingProofs` |
| `Placeholders`, `BinaryRow`, `DriverRegistry` | `MCValues`: run `values` | `ValuesProofs` |

`=>` is a refinement. The last four MC modules run their components *side by side*: `part` says which
of them moves in a behaviour, and the others rest in an initial state. That is sound because the
components of one MC module read and write nothing of each other: a step of one is a stutter of the
others, and what is checked of one component with the others at rest holds in every interleaving.
Where components do interact they are composed: facade, driver and session of a transaction are one
action, and `write()` reads from a queue of rows, which is what `StringIO` is shown to be.

What a client does wrong is part of the models. Each component has clients of more than one
discipline (`any`, `orderly`, `careful`, `prompt`, ...), chosen in the initial state, and a
property names the discipline it needs. The condition is always the weakest we found under which
the code keeps the promise; what happens without it is under *Divergences*.

## Transactions

`SqlSession` is the environment: the server session and the client library in front of it, as far
as the six statements of the drivers reach them. It is not code of the repository. A session is a
record, a statement an operator from a session to the set of replies (`ok`, `error`, `lost`, each
with the session it leaves). `DriverTransactions` holds the driver methods. The bodies of `begin`,
`commit`, `rollback` and their named forms are the same text in `pg/handle.cc:223-265`,
`mysql/handle.cc:169-211` and `sqlite3/handle.cc:118-160`, so there is one operator for the three,
and the map points at one of them for each. `reconnect()` differs and has three. A driver method
sends one or two statements and cannot be interrupted by another call of the same handle, so it is
one operator that chains the replies; a failure between the two statements is an outcome of its own.

`NestedTransactions` has one action per method of `dbi::Handle`:

| Action | Code | |
|---|---|---|
| `Begin`, `Commit`, `Rollback` | `handle.cc:67-82` | `commit` and `rollback` clear `trx` before the driver is called |
| `BeginNamed`, `CommitNamed`, `RollbackNamed` | `handle.cc:84-100` | `trx` is pushed or popped before the driver is called |
| `Execute` | `handle.cc:30-33` | one unit of work, which the properties follow |
| `Reconnect` | `handle.cc:130-132` | |
| `Drop` | environment | the connection is lost between two calls |

`trx`, `tr_nesting` and `srv` are the state of the code. The other variables record what the client
has been told: `scopes` (opened and not closed), `view` (uncommitted work it believes in), `acked`
and `undone` (reported committed, reported rolled back), `done` (ever sent), `broken` (an exception
not yet followed by a `rollback()` that returned).

A client may be *careful*: different names for open scopes, innermost scope first, no `begin()`
inside a transaction, and after an exception nothing but `rollback()` and `reconnect()` until
`rollback()` returns. The examples and the documentation use the library that way, and the passing
runs assume it. The runs that expect a violation show what the documentation promises beyond that.

| Run | Client, faults | Shows |
|---|---|---|
| `transactions` | careful; refused statements, aborted transactions, lost connections; all drivers | `TypeOK`; `PromisesKept`, `UndoneStaysUndone`: reports match the database; `InStep`, `ScopesBacked`: facade, driver and server agree; `ImplementsScopes`: refinement of `TransactionScopes` |
| `recovery` | careful, fair; PostgreSQL and MySQL | `Recovers`: an exception is followed by a `rollback()` that returns |
| `commit_of_failed` (violation) | `commit()` again after an exception | `commit()` is true for work PostgreSQL rolled back |
| `begin_twice` (violation) | `begin()` inside a transaction | the first transaction is not rolled back, as documented |
| `listed` (violation) | careful, refused statements | `transactions()` lists a savepoint that was never opened |
| `silent_reconnect` (violation) | carries on after an exception; MySQL | a new session under `tr_nesting` 1: work is committed statement by statement |

Bounds: two savepoint names and three units of work, up to three nested scopes and four live
savepoints per transaction. Two names are enough for an inner and an outer scope that must not be
confused, and a third scope comes from `begin()`; a third unit of work lets each of two nested scopes
hold one while another was committed before. Work is never repeated (`done`), which bounds a
behaviour. Names and work are symmetric except in the liveness run, which uses depth 2 and no
symmetry. Clients may stop at any time, so deadlock is not checked.

Fairness, `recovery` only: the client goes on calling `rollback()` after an exception (weak), and
neither `rollback()` nor `reconnect()` fails for ever while it is tried again and again (strong: a
network that lets some attempt through). SQLite is left out: after SQLite ends a transaction by
itself `ROLLBACK` is refused for ever, so `rollback()` never returns and the counter stays; the
hazards name it.

## Result cursors

`ResultCursors` makes the same calls on a result of each class side by side: `PgResult` and
`Sqlite3Result`, which index their rows, and `MySqlResult` and `MySqlBinaryResult`, which walk a
list behind one buffered row. A row is its number. `cur[k].rowno` is `_rowno`, `at` the list cursor
(`data_cursor` of the `MYSQL_RES`, `cursor`), and `buf` the row in `_rowdata` or `pool`. `out[k]`
is the row the last call should answer with and the one it did. `Field` is `read(r, c)`. Null
values, types and bytes are left out: whether a field is of the right row is what is asked.

A *careful* reader calls `seek`, `rewind` or `read` between `read(r, c)` and `read(row)`, because
`read(r, c)` leaves the three drivers at `r`, `r + 1` and where they were; seeks only to rows that
exist, because `MySqlBinaryResult::seek` ignores others; and does not ask for a field of row `k - 1`
straight after `seek(k)`, because the MySQL classes then take the buffer for that row.

| Run | Shows |
|---|---|
| `cursors` | `AnswersAsked`: each answer is the row asked for; `Agree`: the four classes cannot be told apart; `BufferKnown`: what the MySQL classes conclude from `_rowno` about list and buffer; `ImplementsCursor`: each refines `Cursor` |
| `field_after_seek` (violation) | without the last precaution a MySQL class answers from a stale, or never written, buffer |

Results have up to four rows, seeks go up to the number of rows. The code compares row numbers for
equality, successor, zero and the number of rows, so the rows 0, 1, a middle one, the last and one
past it meet every branch. How `MySqlBinaryResult` takes a row apart is `BinaryRow`.

## Statements

`StatementFacade` is one `dbi::Statement` or `dbi::Query`. Driver statements and results are members
of `Objects`, `heap` says what became of each, `st` and `rs` are the object's pointers, `taken` the
results the client was handed. `alive` also tells how a program ends that calls what it may not.

| Action | Code |
|---|---|
| `ConstructEmpty`, `ConstructPrepared`, `ConstructFromDriver` | `statement.cc:5-29`, `query.cc:5-13` |
| `Bind` | `bind` and the operators `,` and `%` |
| `Execute`, `ExecuteWith`, `ExecuteThrows` | `statement.cc:126-146`, `query.cc:75-101`; a Query drops its result before, a Statement its parameters after |
| `Finish`, `Cleanup`, `Destroy` | `statement.cc:39-62`, `query.cc:15-40` |
| `Reprepare`, `ReprepareThrows`, `ReprepareRefused`, `ReprepareWild` | `operator<<`; the old statement is deleted before the new one is prepared, and `h` may never have been written |
| `TakeResult`, `DropResult` | `Statement::result()` and the client's `delete` |

`PreparedStatements` is what is behind `st`: the driver's statements on the sessions of one handle.
A `PgStatement` is a name on whatever session its handle has, a `MySqlStatement` a `MYSQL_STMT` that
`libmysqlclient` cuts loose when the session goes, a `Sqlite3Statement` keeps its connection. Its
actions are connect, prepare, failing execution, destruction, `Query::operator<<`, `close`,
`reconnect`, MySQL's own reconnection, the loss of the connection, and the begin and end of a
transaction, because a `DEALLOCATE` inside one can make it fail. `orphan` says that MySQL's
constructor has thrown after `mysql_stmt_init`: nobody closes that `MYSQL_STMT`.

Run `statements` (355 065 states): `OwnsOne` (one owner per object, nothing deleted twice but the
statement a `<<` that threw had deleted), `NothingLeaks`, `SentAsBound` (a careful client's execution
sends what it bound, also after one that threw); `ServerAgrees` (server and careful client agree
which statements there are, and for any client `libmysqlclient` and SQLite keep nothing of a statement
whose object was made and is gone), `LibraryHarmless` (nothing the library sends by itself spoils a
careful client's transaction), `OthersClosed` (a session that was replaced is closed, save what SQLite
keeps for a client that is not careful, and a `Sqlite3Statement`'s is not).
Bounds: four objects are a statement, its successor and two results; two placeholders and up to four
collected values make too few, enough and too many; four sessions allow three replacements with three
statements, one more than a Query needs for `<<`.

## Results of executions

`ExecutionResults` is the slot of the three handles. A result is the number of its query, `place`
says where it is. The drivers differ in when the slot is freed (`PgKeeps`, `MySqlFreesFirst`,
`PgDirect`, ...), and MySQL's `rows()` asks the connection (`connRows`), which after a failed command
has -1, in a `uint32_t` the largest number there is (`NoCount`). `Sqlite3Execution` is the
loop of `Sqlite3Statement::execute` over rows and the result it fills, clears and keeps, with
types that are decided by the first row that is flushed. `AsyncResults` is `aexecute()` and
`retrieve()`: `wire` is what was sent and not yet read, and `retrieve()` is a loop, `PgPrepare` and
`MySqlPrepare` being its end; while it polls, the server may answer or the connection be lost.

Run `results` (414 209 states): `OneOwner`; `LatestHanded` (a client that calls `result()` next gets
its query's result, with the right `rows()`); `RowsOfThisRun`; `TypesKnown` (every column typed, if
the client takes every result, and values marked binary by it, but in the first row of undeclared
columns); `OwnAnswer` (an orderly client's `retrieve()` brings the answer to its own query, and there
is one, if its queries have rows); `RefusedWhenBusy` (an action property: why `aexecute()` may be
refused without `write()`); `Retrieved` (liveness). Bounds: three queries (`Selects`: two of them
return rows), one in the slot, one handed out and one freed; a `uint32_t` of 16 numbers (`Word`); two
columns and two rows, since the first row is treated differently; two executions; four asynchronous
queries.

Fairness (`Retrieved`): the server answers what it was sent while the connection is up, and the loop
of `retrieve()` goes on polling (weak fairness of `Answer`, `PgPrepare`, `MySqlPrepare`); nothing is
assumed of the client. PostgreSQL needs a connection that is not lost: see *Divergences*.

## Loading

`StringIO` has the offsets of the code and the bytes up to `wpos`, `Junk` standing for a byte nobody
wrote. `BulkWrite` is `write()`: COPY with its end, `LOAD DATA` with the callbacks that look the IO
object up in `CopyInList`, and SQLite's loop of inserts; `LoadRow` is one row, `Lost`, `IoThrows`,
`OtherCommand` and `ForeignInfile` are the ways it goes wrong. `held` counts what a `write()` holds and
has to give back: its entry of `CopyInList`, PostgreSQL's buffer, SQLite's prepared INSERT. The
servers undo a statement that fails; SQLite's loop is as many statements as rows.

Run `loading` (93 409 states): `WithinAlloc` (no copy leaves the block, reading runs ahead by no more
than a missing newline); `ImplementsQueue` (refinement of `ByteQueue`); `NoneLost` (SQLite: every row
that was read is in the table or refused, over exceptions and retries); `WrittenAsGiven` (a `write()`
that returns to a client that refills the IO object has written every row as it was given, but those
MySQL drops and two field classes of SQLite); `CountTrue` (for such a client that replaces nothing);
`NothingHeld` (outside `write()` no more is held than the IO object threw times). Bounds: one exception
of the IO object, so that the entry it leaves behind may be found by a later `write()`; four bytes,
writes of up to two over an initial block of one, so that it grows twice and a growth may not suffice; a
chunk of three is less than the buffer holds, and a `vsnprintf` that stores one byte truncates the
formats of two; two keys and two rows, so that a row may replace another of the same `write()` or of an
earlier one; each class of fields. The clients of the run (`TestedClients`) refill the IO object and
replace rows or not, or refill nothing and replace.

## Values and drivers

`Placeholders` is the rewriting of `?`, `%d` and the like by the three drivers, token by token, with the
guards of the regular expressions (a placeholder touches no quote) and the second pass in which MySQL
puts the values in. A token is a record of what it is and, for `$1` and for a value, its number.
`BinaryRow` is `fetchRow` of `MySqlBinaryResult`: bitmap, widths, length prefixes. `place` is where the
server has put the next field and `row` where the code reads; a reader that is wrong about one field
reads `Garbage` until it is at the right place by chance. `ReadAsString` is what becomes of INT24 and
YEAR, which have no case in `fetchRow`: their first byte is taken for a length, of which 251 is
`NULL_LENGTH`; a program that has written behind a buffer (`~Held`) takes no further step. `Misread` are
the lengths read where there is none. A copy from behind the row, which may also end the program, is
taken to read garbage. `Half` gives the size of integers, so that the run can have smaller ones than
there are. `DriverRegistry` is the map of drivers and the libraries it opens, file by file; no driver is
named `null`, the name `dbiInitialize` keeps for itself.

In MySQL nobody counts the values: too many are dropped, and behind too few `mysql_stmt_bind_param`
reads on, which runs the query with `NobodysValue`, has it refused or ends the program (`Overread`).

Run `values` (551 893 states): `RunAsMeant` (a careful client's query that is run is the one meant, in
MySQL if the number of values is right, and one that is refused has the wrong number); `RewritingEnds`
(liveness of the loops over the text, under weak fairness: the code runs on); `ReadAsSent` (up to the
first INT24 or YEAR each field is read from its place, as sent if it is `Printable`, into a buffer that
holds it); `LoadedWhileUsed` (`~again`, `~installs`, `Apart`; that none is left loaded needs no
condition), `DeniedRightly` (`~installs`, `Sound`). Bounds: all queries of up to five tokens, with up to
three values; all pairs of column types with values at the limits of their types (real bytes and
two-byte integers, wider ones of 25 and 30 bits, string lengths around 251, 1024, 65536 and 2^24,
numbers of as many characters as their line holds and one more, and for INT24 and YEAR first bytes of
each kind of prefix) and seven columns for the second byte of the bitmap, which begins with two unused
bits; five libraries in two directories, two of them drivers of one name, one broken, one installed
late.

## Proofs

Checked by TLAPS for every value of the constants, under the named assumption about them that the
component's module states.

Transactions, for every set of names, work, faults and drivers and any bounds; except for the first
about a careful client:

- `TypeCorrect`: `TypeOK` is an invariant, with any client.
- `CommitsKept`, `RollbacksFinal`, `ScopesStayBacked`, `StaysInStep`: `PromisesKept`,
  `UndoneStaysUndone`, `ScopesBacked` and `InStep` are invariants.
- `ScopesImplemented` (`NestedTransactionsRefinement`): `ImplementsScopes`, step by step. A call that
  throws is an `Abandon` of the scopes, except that a COMMIT whose reply was lost may be a `CommitAll`.

The argument follows the layers, from statements to driver methods to calls of the facade.
`DriverTransactionsProofs` says what each statement may answer on a live link (`...Answers`) and
what comes back for it on any link (`...Returns`): whatever is sent, the session stays well formed
(`WellFormed`: a transaction only on a live link, nothing pending outside one, savepoints in order
of age) and what is durable stays (`Follows`); then the same of each driver method (`...Leaves`).
`NestedTransactionsProofs` has one lemma per action (`...Keeps`). None of the four properties is
inductive by itself: that a commit stores what was promised depends on the server holding exactly
the client's view, which after a `rollback(name)` depends on the right savepoint having been found,
which depends on how the scopes nest. The inductive invariant `IInv` says all of it: the client's
books against the database (`Ledger`), how scopes nest (`Nested`), and for as long as nothing has
thrown, how counter, session and scopes agree (`Held`). After an exception only `Ledger` and
`WellFormed` remain, which is why `rollback()` must not, and does not, store anything. `Handle::trx`
is followed separately (`Listed`). `IInv` was also checked as an invariant of the instance of run
`transactions`.

Cursors, for every number of rows and any of the classes:

- `CarefulReading`, `ClassesAgree`, `BuffersKnown`, `CursorsTyped`: a careful reader's answers are
  those asked for, the classes agree, and the buffer holds what `_rowno` says. `AnswersAsked` is not
  inductive: the invariant `IInv` adds that the list stands at `_rowno` and the buffer one row
  before it except after a `seek()` (`Sane`), that such a `seek()` went to a row that exists and is
  where every class stands (`SoughtThere`), and that the classes are at the same row unless a
  `read(r, c)` moved them apart (`Together`). One lemma per method says what it does to a sane cursor.
- `CursorsImplemented`: each class, seen by a careful reader, implements `Cursor`.

Statements (`StatementsProofs`). Of the facade, for any client, number of objects and parameters:

- `PointersOwn`, `NothingIsLost`: `OwnsOne` and `NothingLeaks`. The invariant (`Owned`) says both at
  once: the live objects are exactly what the two pointers and the client hold, each held once, and
  what `st` points at may be dead only by a `<<` that threw. Each heap operation keeps `Owned`, and each
  action is a chain of them, in the order of the code: drop the result, delete the statement, `new`.
- `CarefulIsSent`, `FacadeTyped`: `SentAsBound` needs that a careful client's collected parameters are
  those it bound, unless an execution threw since.

Of the drivers' statements, for any driver, number of statements and of sessions:

- `StatementsAgree`, `LibraryDoomsNone`, `OnlyNeededStayOpen`: `ServerAgrees`, `LibraryHarmless` and
  `OthersClosed`, each as far as it says for a careful client or for any. `ServerInv` adds that nobody
  holds a session that was not opened yet, so that a new session knows no statement of an old one, and
  that the statements of a careful client of PostgreSQL are on the session its handle has, since only
  MySQL reconnects by itself.

Results (`ResultsProofs`), for any number of queries, rows, columns and executions:

- `ResultsTyped`, `ResultsOwned` (`OneOwner`), `PromptGetsLatest` (`LatestHanded`). The invariant adds
  that numbers above `calls` are unused, so a new result cannot free an old one, and that while
  `fresh` holds the slot has nothing but the last query's result and the connection still counts its
  rows.
- `SqliteRowsOfThisRun`, `SqliteTypesKnown`: `RowsOfThisRun` and `TypesKnown`. `SqliteInv` follows the
  loop: while it steps, the result holds the rows stepped through, of this execution, and the
  position is behind them (`Stepping`); a declared type is never replaced (`DeclaredStay`). That
  survives an exception in the middle, because the next execution clears the result.
- `AsyncOwnAnswer`, `AsyncRefusedWhenBusy`: `OwnAnswer`, and `RefusedWhenBusy` as an action property.
  `AsyncInv` says whom an answer on the connection is for: an orderly client's query is the only one
  there (`OrderlyOne`), PostgreSQL never has two commands out (`PgOne`), and one query at most is in
  `retrieve()` (`OneRetrieves`).

Loading (`LoadingProofs`):

- `LoadingTyped` (`BothTyped`), `NoOverrun` (`WithinAlloc`) and `BufferIsQueue` (`ImplementsQueue`), for
  every alphabet, length of writes, initial block and chunk. What is left to read is a subsequence of
  the data; the lemmas about it (`LeftOfConcat`, `LeftSplits`) say how it changes, and `LineEnds` that
  the first newline the code finds is the end of the queue's first line. A client that ends its lines
  keeps `rpos` inside the data, without which a write would lose its first byte.
- `LoadsLoseNone`, `LoadsAsGiven`, `LoadCountTrue`, `LoadsHoldNothing`: the four properties of
  `write()`, under the conditions they state, for any keys and number of rows. `BulkInv` says what holds
  between two rows: the IO object has the last of the rows given (`IoIsRest`), those before are in the
  table unless a later one has their key (`ReadAreKept`) and are counted (`CountIsTrue`), and for a
  client that replaces nothing the keys of the others are free (`RestIsFree`).

Values and drivers (`ValuesProofs`):

- `QueryRunAsMeant` (`RunAsMeant`), for queries of any length with any number of values. The text at
  the server depends on every turn of the loops before, so `QueryInv` gives the text at each turn as a
  function of the query: while the code rewrites, it is the query with the placeholders of some set `D`
  replaced, for PostgreSQL from the left and numbered by rank (`WhileRewriting`); a careful client's text
  has exactly the placeholders outside `D` left to match, because rewriting moves no quote
  (`QuotesStay`, `MatchesLeft`). While MySQL's values are put in, the text up to some place `k` is as
  meant and the rest is the rewritten query from there (`WhileInterpolating`); `PartPut` moves `k` to
  the next placeholder. `SlotsKnown` says that the server finds the placeholders of the query.
- `FieldsReadAsSent` (`ReadAsSent`), for results of any number of rows and columns and wider integers of
  any size, up to the first INT24 or YEAR of a row that is not NULL. `RowInv` adds that byte and bit of
  the bitmap are those of column `j` (`AtItsBit`); each way to read a field is a turn that disturbs its
  own column only (`TurnRight`).
- `UsedIsLoaded`, `DeniedIsAbsent`: `LoadedWhileUsed` and `DeniedRightly`, under the conditions these
  state, for any directories, libraries and names. `RegistryInv` adds that a driver is opened once at
  most and is then in the map (`MapKnown`), that no directory still to be read was read before
  (`ReadOnce`), and that every driver of a directory that was read is in the map or in what is left of
  the directory (`AllMapped`).
- `ValuesTyped`: `TypeOK` of the three.

The theorems about `SpecSideBySide`, and those of `ValuesProofs`, are about the specification the run
checks, components side by side: each inductive invariant is kept by the steps of its component, and
by the steps of the others because they do not touch its variables. `ServerInv`, `SqliteInv`,
`AsyncInv`, `BulkInv`, `RegistryInv`, `RowInv` and `QueryInv` were checked by TLC on the instances of
the runs before they were proved.

Only model-checked: liveness (`Recovers`, `Retrieved`, `RewritingEnds`), which is out of the prover's
reach, and the violations.

## Divergences

Where the code does something else than its comments and documentation say, a run or a condition of
a property shows it. Five have a run of their own (`expect: violation`, with a finding in
`PROJECT.json`): `commit_of_failed`, `begin_twice`, `listed`, `silent_reconnect`, `field_after_seek`.
The others are the exemptions in the properties of the passing runs; removing one lets TLC find the
behaviour.

| Line | What the code does | Exempted by |
|---|---|---|
| `statement.cc:130` | parameters are dropped only when `execute()` returns; after an exception the next values are bound behind the old ones, and MySQL sends the old ones | `SentAsBound`: `Careful` |
| `statement.cc:104`, `query.cc:105` | `<<` deletes the statement, and when `prepare` throws `st` still points at it, to be deleted again | `OwnsOne`: `"left"`, `"again"` |
| `statement.cc:10` | `Handle::prepare` makes a Statement whose `h` was never written; `<<` reads it | `ReprepareWild`: `Orderly` |
| `sqlite3/handle.cc:163` | `sqlite3_close` refuses while a statement is left; `close()` returns true all the same | `OthersClosed`: `careful` |
| `mysql/statement.cc:20` | when `mysql_stmt_prepare` fails the constructor throws, and the `MYSQL_STMT` is never closed | `NoneLeftBehind`: `orphan` |
| `query.cc:104` | `<<` makes `PgStatement` send DEALLOCATE twice; the second fails and dooms an open transaction | `LibraryHarmless`: `careful` |
| `mysql/result.cc:15` | `rows()` is taken from the connection when `result()` is called, not when the query ran; after a failed command it is 4294967295, since `POSITIVE_OR_ZERO` keeps an unsigned -1 | `LatestHanded`: `prompt` |
| `sqlite3/result.cc:18` | `clear()` forgets that types are undecided: after an execution without rows they stay unknown | `TypesKnown`: `takes` |
| `sqlite3/result.cc:78` | the BLOBs of the first row are not marked binary when the type is decided by them | `BinaryAgrees`: `i > 1` |
| `string_io.cc:89` | `readline()` without a newline leaves `rpos` at `wpos + 1`; the next write loses a byte | `ImplementsQueue`: `ended` |
| `string_io.cc:42` | `writef()` of a text longer than its buffer copies from behind it | `ImplementsQueue`: `short` |
| `mysql/handle.cc:273` | a row that replaces another is counted twice | `CountTrue`: `~client.replaces` |
| `sqlite3/handle.cc:221` | a field of one character is written as NULL, and `\N` as text | `WrittenAsGiven`: classes `one`, `null` |
| `sqlite3/handle.cc:231` | outside a transaction a `write()` that throws has written the rows before, and one more call writes the rest | `NoneLost` says so; no property claims all or nothing |
| `mysql/handle.cc:264` | LOCAL makes a row that is refused a warning: `write()` returns, and the row is missing | `WrittenAsGiven`: class `refused` |
| `pg/handle.cc:324`, `sqlite3/handle.cc:214`, `mysql/common.cc:77` | an IO object that throws leaves the COPY and its buffer, the prepared INSERT, the entry of `CopyInList` | `NothingHeld`: `thrown` |
| `handle.cc:111` | a `write()` called again after an exception, with an IO object not refilled, writes what is left of it | `WrittenAsGiven`, `CountTrue`: `client.refills` |
| `result.cc:83`, `pg/result.cc:66` | on a lost PostgreSQL connection `retrieve()` polls for ever | `Retrieved`: `~setting.lossy` |
| `pg/result.cc:68`, `mysql/result.cc:140` | `prepareResult()` takes the next result, whichever query it answers | `OwnAnswer`: `orderly` |
| `pg/handle.cc:336` | `write()` leaves the end of COPY unread, and the next `aexecute()` is refused | `RefusedWhenBusy`: `~writes` |
| `mysql/result.cc:140` | for a query without rows `fetchMeta` is given a null result | `ResultThere`: `selects` |
| `dbic++.cc:67` | a library loaded twice is closed twice, which unloads the driver | `LoadedWhileUsed`: `~again`, `Apart` |
| `dbic++.cc:61` | a library without `dbdConnect` ends the reading of its directory for good | `DeniedRightly`: `Sound` |
| `dbic++.cc:112` | a driver installed after the first look is never found | `DeniedRightly`: `~installs` |
| `mysql/binary_result.cc:294` | INT24 and YEAR have no case in `fetchRow`: their first byte is taken for the length of a string, and the rest of the row is out of step | `InStep`, `ReadAsSent`: `Unhandled` |
| `mysql/binary_result.cc:180` | first byte 251 (MEDIUMINT 251, YEAR 2043) is `NULL_LENGTH`: `length + 1` is 0, no room is made, and `memcpy` runs past the buffer | `BufferHolds`: `Unhandled` |
| `mysql/binary_result.cc:118-160` | negative TINY, unsigned integers, small doubles and negative times are printed as other values | `ReadAsSent`: `Printable` |
| `mysql/binary_result.cc:144`, `mysql/binary_result.cc:152` | FLOAT and DOUBLE are cut after 31 and 63 characters | `ReadAsSent`: `Printable`, `Line` |
| `mysql/common.cc:16`, `sqlite3/common.cc:9`, `pg/common.cc:21` | a `%d` or `?` in a literal is a placeholder unless it touches a quote | `RunAsMeant`: `Careful` |
| `mysql/common.cc:34`, `mysql/statement.cc:37` | MySQL runs a query with too few or too many values; of a prepared one with too few it reads behind the array | `RunAsMeant`: `Uncounted` |

## Not modelled

- Value types, `Param`, `FieldSet`, `ResultRow`, `ResultRowHash`, errors, UUIDs, regular expression
  helpers: data with accessors, no state of their own that outlives a call.
- The tables that map server types to `DBI_TYPE_*`, the options and time zone sent on connecting,
  the text of messages and the trace log: no property above depends on them.
- `FileIO`: it does not override all pure virtual functions of `IO`, so no object of it exists.
- `Sqlite3Handle`'s asynchronous calls, which only throw. `MySqlBinaryResult::consumeResult()` is always
  true, so a `retrieve()` on one would not end; no call of the library leads there.
- Calls on a closed handle, which pass a null pointer to the client libraries. `rollback(name)` and
  `commit(name)` on an empty `trx` are undefined behaviour (`pop_back`), and the client never does it. A
  second `dlclose` of a library that is not loaded is undefined, and taken to do nothing.
- The examples, among them the loop over sockets of `examples/async.cc`; benchmarks and packaging.
- Memory allocation failures, and the client libraries beyond what the code uses of them. What
  statements other than those of transactions do to the database is one unit of work.
