# A verification project for dbgate-mysql-dumper

TLA+ models of [dbgate-mysql-dumper](../src), checked with TLC and proved about
with TLAPS. The program exports a MySQL or MariaDB database to an SQL script
and restores such scripts. Paths below are relative to `src/src/` of the
repository unless they start with `src/`.

1. [Inventory](#1-inventory): the system's parts, their state, what is hard
2. [Plan](#2-plan): modules, abstract specifications, runs and theorems
3. [Modules and the code they model](#3-modules-and-the-code-they-model)
4. [Runs](#4-runs): what each shows, its bounds
5. [Fairness](#5-fairness)
6. [Proofs](#6-proofs)
7. [Where code and documentation disagree](#7-where-code-and-documentation-disagree)
8. [What is not modelled](#8-what-is-not-modelled)

## 1. Inventory

### How the parts work together

```
 caller -- options, AbortSignal, onProgress, Writable --+
                                                        v
  dumpMysql (api/dump.ts)                     restoreSqlDump (restore/)
    | acquire                                   | acquire
    | ConsistencySession (connection/session)   | streamSqlStatements (statementParser)
    | introspection -> archive planner          | sessionState.observe(), sessionState.restore()
    | renderPlainSql (renderer)                 | one execute() per statement
    |   objects --------------------+           | COMMIT / ROLLBACK / UNLOCK / guards
    |   exportTableDataAsInserts ---+           |
    |        |                      v           |
    |        |          StreamWriter -> Writable|
    v        v                                  v
  connection (connection/types): query, execute, stream, cancel, release
       mysql2.ts: one request at a time over a callback driver, or a pool
                          |
                     MySQL session: variables, transaction, locks
```

A dump and a restore each borrow one connection for the whole call. Everything
they do with it is a chain of awaits, and each await can end in success, in the
server's error, in the fired `AbortSignal` or in a lost connection. User
callbacks run between the awaits and may throw. Nothing runs in parallel inside
one call; what does interleave with it is the driver's callbacks, the signal,
the output's callbacks, and the other sessions of the database.

### The parts

| Part | State | Operations | What makes it correct |
| --- | --- | --- | --- |
| Restore orchestration `restore/restoreSqlDump.ts` | counters, `transactionOpen`, `cancelled`, the lease | acquire, `USE`, `START TRANSACTION`, one execute per statement, definer retry, `COMMIT`, `finalize()` | the connection comes back once, idle and as found; counters agree with the server; `singleTransaction` is all or nothing |
| Restore session state `restore/sessionState.ts` | the set of variables the script changed, the lock flag | `observe`, `restore` | whatever statement the script stopped at, the values of before it are put back |
| Dump orchestration `api/dump.ts` | the lease, `finished` | acquire, begin, introspect, plan, render, finish, release | released once on every way out; a complete dump says so and a truncated one does not |
| Dump session `connection/session.ts` | `original`, the isolation and lock state | `begin`, `finish`, `restoreSessionVariables` | all covered tables are read at one instant; variables come back |
| Connection sources `connection/acquire.ts`, `types.ts` | – | acquire, release | a dedicated connection for the whole call |
| mysql2 adapter `mysql2.ts` | `requestInFlight`, `destroyed`; per stream `queue`, `paused`, `ended`, `failure` | `query`, `stream`, `cancel`, the driver's events | bounded read-ahead; a free connection is unpaused and idle; rows once and in order |
| Data export `data/insertExport.ts`, `chunkBuilder.ts` | the open statement, counters | the row loop, flush, final flush | statements fit the caps and partition the rows; nothing half-gathered is written |
| Stream writer `writer/streamWriter.ts` | `bytesWritten`, the sink's error | `write` | backpressure; no wait that nothing ends |
| Plain-SQL renderer `renderer/plainSql.ts`, `objectRenderers.ts`, `sessionGuards.ts` | position in the plan | header, one block per entry, footer | each block leaves the restoring session as it found it |
| Introspection `introspection/introspect.ts`, `catalog/` | the model and the diagnostics so far | one catalog query or `SHOW CREATE` after the other | what the server has and does not change meanwhile is read as it is; what cannot be read is reported |
| Selection `selection/` | – | fold the caller's names, compare | names are compared as the server compares them, twice alike |
| Archive planner `archive/planner.ts` | a graph of entries | add entries, add dependencies, sort, look for cycles | every hard dependency is respected; the order does not depend on the catalog's order |
| Statement parser `restore/statementParser.ts` | buffer, state, delimiter, quote, `atLineStart` | `push`, `finish` | the statements do not depend on where the chunks end |
| Definer, SQL mode, version gates `renderer/*.ts` | – | string rewriting | table tests |
| Binary literals `restore/binaryLiterals.ts` | the scan's place, the parts copied | rewriting of literals that are no text | the server reads the same statement, byte for byte; what cannot be sent is refused |
| Value renderer, quoting `data/valueRenderer.ts`, `security/` | – | value and identifier to SQL text | what is written is read back |
| Model, compatibility, preflight, version | – | types, tables of warnings | mapping |
| Buffer writer, utilities | an array | `write` | – |

### What is hard here

* **Failure in the middle.** A restore that stops never runs the script's own
  footer, so the values saved in `@OLD_...` variables must be read back by the
  program. A dump that fails in the third statement of `begin` must undo two.
* **Cleanup after a signal.** The signal that ended the call is already set when
  `ROLLBACK`, `UNLOCK TABLES` and the `SET`s run; and the cancelled statement
  destroyed the socket, after which mysql2 calls no callback at all.
* **Cleanup that runs twice.** `finalize()` is called inside a `try` whose
  `catch` calls it again.
* **Snapshot against other sessions.** Statements of `begin` before the snapshot,
  other sessions' commits, and the reads are ordered by the code alone.
* **A catalog that moves.** No snapshot covers the catalog: other sessions drop and
  replace objects between the query that lists them, the `SHOW CREATE` that reads
  them and the query that reads their rows.
* **Two opinions on one order.** The order of the entries comes from sort keys, what
  an entry needs from elsewhere in the planner, and how names are looked up again
  from the renderer's maps.
* **Implicit commits.** The transaction the code believes open was ended by the
  script's own `LOCK TABLES`, `ALTER`, `CREATE`.
* **Two queues with back pressure.** Rows arrive in driver events while the
  consumer is suspended; the output stalls while rows arrive.
* **Numeric edges.** `batchSize` of 1 or below, a row longer than the statement
  cap, a cap met exactly, the last partial statement.
* **Chunk boundaries.** A token of the script may be cut at any character.
* **Several lexers of one language.** The parser, the rewriting of binary literals and
  the server each decide where a string ends; where two of them differ, bytes change.

The full list, each entry with its line and with the properties aimed at it, is
`hazards` in `PROJECT.json`.

## 2. Plan

Most important behaviour first. A module that is to be proved about has its
parameters as CONSTANTS with named assumptions, one action per operation, its
invariant in named parts and no RECURSIVE operator.

| # | Module(s) | Abstract specification | Theorems | State |
| --- | --- | --- | --- | --- |
| 1 | `MysqlSession`, `RestoreSessionState`, `RestoreRun`, `DumpScript` | `SessionLease` | types, transaction, locks, stop on error, silence after release | done |
| 2 | `DumpSession`, `DumpRun` | `SessionLease` | one instant, idle, variables, released once, implements the lease | done |
| 3 | `Mysql2Adapter` | `RowSource` | bounded memory, free is ready, implements the row source | done |
| 4 | `StreamWriter`, `InsertExport` | – | caps, each row once, nothing half-written, bounded output | done |
| 5 | `ClientScript`, `StatementParser`, `ScriptSplit` | `WholeScan`: the scan of the whole script, in one piece | the carried-over text is bounded, types, implements the whole scan for every way of cutting the script | done |
| 6 | `Selection`, `ArchivePlanner` | an order that respects every hard dependency | the order is strict and total; no hard dependency is violated; no cycles | done |
| 7 | `Introspection`, `DumpContents` (composes 6 with the catalog, other sessions and the renderer's walk) | what the caller asked for, as the server compares names | types; plans are valid whatever other sessions do; the walk keeps to the requirements; the layout; a complete dump is what was asked for and restores on an empty server | done |
| 8 | `RestoreRun` as a lease, for scripts of the shape the renderer writes | `SessionLease` | variables handed back, the refinement TLC checks in `RestoreLocks`; which dumps the renderer guards, and that it hides every lock, for dumps of any length | done |
| 9 | `RestoreRun`'s counters and transaction, `DumpRun`'s rows | – | counted once, counters agree with the server, all or nothing, completed dumps are complete | done |
| 10 | `StatementBytes`, `BinaryLiterals`, `StatementTokens` | the server's reading of a statement, the same before and after | the scan moves on and copies once; what a dump escapes is unescaped, for values of any length | done |

## 3. Modules and the code they model

`PROJECT.json` maps every definition to its lines. In outline:

* **`MysqlSession`** is the server's side of a session as far as a restore can
  tell: where each session and user variable's value comes from, the open
  transaction and the data pending in it, the table lock, what is durable. A
  statement is a record: its kind, the assignments it makes, whether it sits
  behind a comment, whether it carries a `DEFINER`. External: it is modelled
  from the statements the code writes and reacts to.
* **`RestoreSessionState`** translates `observe()` and `restore()`: which
  statement marks which variable as changed, and from which `@OLD_` variable or
  default the cleanup takes the value.
* **`RestoreRun`** is `restoreSqlDump` and `finalize()`: `pc` names the await the
  call stands at, and each action runs from one await to the next. `UseDatabase`,
  `StartTransaction`, `Fetch`, `ExecuteSucceeds`, `ExecuteFails`,
  `ExecuteFailsOnDefiner`, `ExecuteAborted`, `Retry`, `Commit`, `Rollback`,
  `CleanupUnlock`, `CleanupGuard`, `CleanupDone`, `Release`; `Abort` fires the
  signal and `LoseConnection` ends the session between any two steps. A signal that
  fires while a statement is in flight destroys the socket (`destroyed`), and then each
  statement of the cleanup is answered only because the adapter fails fast
  (`FailsFast`). The server may refuse `ROLLBACK`, `UNLOCK TABLES` and each guard of the
  cleanup too: the code swallows that and goes on, and `swallowed` records what was
  refused. `MaxRefusals` bounds how many statements the server refuses.
* **`DumpScript`** is the order of statements in a dump, as `renderPlainSql` and
  the object renderers write it, with the guards around every kind of object: a
  block is a function of the `RenderOptions` and of a `RenderedEntry`, a dump of
  the options and any sequence of entries. `MCRestoreRun` feeds its output to
  `RestoreRun`, so the restore is checked on the scripts the dump writes.
  `NeedsHeader` says which options an entry needs for the header to save what its
  block changes.
* **`DumpSession`** is `ConsistencySession`: the statements `begin` sends, in
  order, the values it keeps, and the ones `finish` sends to put them back, with
  the session variables each statement really changes.
* **`DumpRun`** is `dumpMysql` from `acquire` to `release`, with the renderer's
  walk through the plan and the table export inlined at the grain of its awaits.
  The rows' data is the `version` of the database at which they were read, which
  other sessions advance in `OtherSessionWrites`. The statements of `finish` may be
  refused, as in `RestoreRun` (`swallowed`).
* **`SessionLease`** is what both promise to the owner of a connection: it is
  handed back once, and then as it was found, but for what the server itself refused
  to put back. `RestoreRun` and `DumpRun` state the refinement as `ImplementsLease`.
* **`Mysql2Adapter`** is one connection of `mysql2.ts`: the driver's command in
  flight and whether it is paused, the adapter's `requestInFlight` and `destroyed`
  flags, and one `stream()` generator or one `query()`. An action is one driver
  event, one run of the generator to its next suspension or the firing of the
  signal, since JavaScript runs each of them to completion.
* **`RowSource`** is what the consumers of `stream()` rely on: rows in order,
  each once, an end only after the last.
* **`StreamWriter`** is `write()` over a Node `Writable` as Node documents it:
  `write` returns whether to go on, `drain` follows once the buffer has emptied,
  or nothing ever does. The output breaks while it holds a chunk; one that breaks with
  nothing buffered shows at the next chunk handed to it, which this covers.
* **`InsertExport`** is the row loop of `exportTableDataAsInserts`. A tuple is its
  length in bytes; the caps, the comma and the semicolon count as in the code.

* **`ClientScript`** is what the parser reads: a sequence of symbols. A symbol is one
  character where the lexer looks at characters; a client command's word is two
  letters, an assignment of `sql_mode` and the `999999` of the sandbox command are one
  symbol each. Its operators are the pure helpers of `statementParser.ts`.
* **`StatementParser`** is `SqlStatementParser` and the loop of `streamSqlStatements`
  around it. The source is one script of which `fed` symbols have been pushed, and
  the code's `text`, `carry`, `index` and `appendFrom` are positions in it, so a cut
  is a choice of `fed` and nothing is copied. `Push`, `Finish` and `Cancel` stand
  between two calls; every other action is one turn of `scan`'s loop: `HoldBack`,
  `ReadDelimiter`, `RefuseCommand`, `EndStatement`, one action per kind of token, and
  `EndOfChunk` and `EndOfScript`. `MustWait` gathers the conditions under which a
  symbol is held back, in the order in which the code tests them.
* **`WholeScan`** is what the parser promises for every chunk boundary: the scan of a
  script that is there in one piece. It has no chunks, no carry and no hold-back, and a
  position (`at`) in place of the code's four. Each action is one token. Where the code
  depends on the chunks by design it is loose: a statement that is too large may be
  noticed at once or later, and an error may lose statements found before it.
  `StatementParser` states the refinement as `ImplementsWholeScan`: `at` is `index`,
  the statement so far is `parts` with what has not been appended yet, and the
  statements found are those returned and those this push will return.
* **`ScriptSplit`** defines the statements of a whole script with no scanner: each
  token is recognised in the text behind it, an escaped quote by the parity of the
  backslashes before it, a line start by what precedes it. It is recursive and only
  TLC uses it.

* **`StatementBytes`** are the symbols of one statement: the bytes a lexer asks for, the
  two bytes of a character that is not ASCII (either of them alone is not UTF-8),
  letters and a comma. `_binary`, `0x` and a pair of hexadecimal digits are one symbol
  each; `HexPair` is the encoding.
* **`BinaryLiterals`** is `rewriteBinaryLiterals`: `PassThrough` is the scan for UTF-8
  at its start, each of `SkipLineComment`, `SkipComment`, `SkipName`,
  `SkipDoubleQuoted`, `SkipLiteral`, `RewriteLiteral` and `SkipByte` one turn of the
  loop, `Finish` the last copy and the verdict. The helpers keep the source's names. It
  ends with the dump's side of a binary value, `renderBytes`, which the restore must
  be able to read back.
* **`StatementTokens`** is what the server reads in a statement, defined with no scan:
  where a string ends is said by the parity of the quotes and backslashes in it, the
  bytes it denotes by which of them escape. It is recursive and only TLC uses it.

* **`Selection`** is the caller's lists of names and their comparison with the
  catalog's: `normalizeDumpSelection` folds what the server folds. Names are numbers
  ordered as their code points, and `Lower` maps a name to its lower-case form.
* **`ArchivePlanner`** is `inspectDumpArchive`: which entries a dump has, what each
  requires or prefers, the sort key and the verdict. Entries are sorted, so a plan is
  the set of its entries with the order `Before`; `SortKey` is the list of keys
  `compareEntries` compares, and a trigger's action order compares as text.
* **`Introspection`** is `introspectMysql`: `phase` names the query that is next, and
  each action is one query with the code that runs on its answer. `ShowCreate` asks for
  one listed object: the server shows it, hides its text, or refuses because it is
  gone. `DropObject` and `DefineObject` are other sessions, between any two queries
  (`MaxDdl` bounds them). `lasting` holds the objects that did not change.
* **`DumpContents`** composes the three with `renderPlainSql`'s walk: `Plan`, then one
  visit per entry (`RenderEntry`, `OmitEntry`, `RefuseEntry`, `TableIsGone`), and
  `Complete`. `script` is the sequence of blocks written, each with the definition it
  was made from; the statements inside a block are in `DumpScript`, the connection and
  the snapshot in `DumpRun`.

State that only records history, and its use: `srv.applied` and `durable` in
`RestoreRun` (which statements the server ran and kept), `swallowed` in `RestoreRun` and
`DumpRun` (which statements of the cleanup the server refused), `seen` in `DumpRun` (the
version each row was read at), `lasting` in `DumpContents`, `delivered` in `StatementParser` (the statements
returned so far), `written` in `InsertExport` (the rows and the bytes
of every statement handed to the output).

## 4. Runs

Every property of a passing run has a mutant in `PROJECT.json`: a plausible bug in
the modelled code with which TLC finds the property violated in the same run.

### Restore

* **`RestoreGuarded`** restores one dump per kind of object (table with data, stub
  and final view, trigger, a routine behind the database's `CREATE` and `USE`,
  event; with and without time zone and drops)
  and data scripts, under six option sets that stop or continue after errors,
  retry definers, use a transaction, skip the cleanup or throw from callbacks.
  It shows `VariablesHandedBack`, `EveryStatementCountedOnce`,
  `TransactionHandedBack`, `AllOrNothing` and `NothingRunsAfterFailure`. The
  session starts with `@OLD_...` variables left behind by an earlier script
  (`Leftovers = {"stale"}`), which is what a cleanup that reads a variable the
  script never saved would pick up. One refused statement (`MaxRefusals = 1`) can
  stand at every place of every script, or be a statement of the cleanup: `ROLLBACK`,
  `UNLOCK TABLES` or one of the guards. The properties then ask for everything but what
  was refused, so a refusal that ended the cleanup of the other variables is
  `VariablesHandedBack`'s mutant.
* **`RestoreLocks`** restores short scripts under every combination of the options
  that end a call, with two refusals, so that a definer retry can fail too. It
  shows `LocksHandedBack`, `SilentAfterRelease`, `ExecutedMatchesServer`, that the
  call implements `SessionLease` and that it `Settles`, for which the statements of the
  cleanup must be answered on a destroyed connection too.
* **`RestoreNativeLock`** ends in a counterexample; see section 7.

### Dump

* **`DumpLease`** dumps an object and two tables, one with two rows (two
  statements) and one with a single row, in the three consistency modes, with a
  refused statement, a cancellation, a lost connection or a broken output at
  every await, those of `finish` included. It shows `VariablesHandedBack`, `IdleHandedBack`,
  `AcquiredIsReleased`, the lease and `Settles`.
* **`DumpSnapshot`** dumps a table without snapshots (MyISAM) between two with,
  while other sessions write up to three times and callbacks throw: three
  versions are enough for three reads to differ pairwise. It shows `OneInstant`
  and `CompletedIsComplete`.

### Contents of a dump

* **`DumpContents`** dumps one of two databases while other sessions drop, create,
  replace or alter objects up to twice between any two queries: one to change what
  was listed and one to change it back or to take away what depends on it. The first
  database has circular foreign keys, views that name views behind them, triggers
  that fire against the order of their names, and every kind of stored program; the
  second a sequence and a trigger on another table. There are five names, two of
  which differ only in case; three servers, which fold names or do not, have events
  or do not, hide a function and a trigger, or an event, or have no database of the name;
  three selections with lists to include, to exclude and of tables without data; and
  five option sets over the modes, the kinds left out and the policy for what cannot
  be dumped. It shows `WritesWhatWasAskedFor`, `PlansAreValid`,
  `RestoresOnEmptyServer` and `LaidOutAsMysqldump`.
* **`RoutineNames`** and **`ViewsWithoutDrop`** end in a counterexample; see section 7.

### Streams and export

* **`AdapterStream`** runs two requests on one connection, each a stream of up to
  five rows or a query, with batch sizes -1, 1, 2, 3 and 4. Sizes up to 1 are
  raised to 1; 4 is the least size with a low-water mark above 1; and five rows
  fill the largest queue and arrive once more after a resume. It shows
  `QueueBounded`, `FreeIsReady`, the row source and `Settles`.
* **`ExportTable`** exports up to four rows of 499, 500 and 1100 bytes behind a
  prefix of 24 bytes with a cap of 1024, the least one: two rows of 499 meet it
  exactly, 499 and 500 miss it by one byte and 1100 exceeds it alone. The output
  buffers 1500 bytes, so one statement fits and two do not. It shows
  `StatementsFit`, `EveryRowOnce`, `NothingHalfWritten`, `BufferBounded`,
  `CancelSettles` and `Settles`.

### Parser

* **`ParserChunks`** parses 5,858 short scripts, each cut into chunks
  in every way and cancelled between any two. The scripts are all the words over
  the symbols of one theme, up to a length that holds the theme's longest token and
  what may follow it: strings and identifiers with both kinds of escape, comments
  and what only looks like one, the sandbox command and its prefixes, commands at
  and off the start of a line with their arguments and the delimiters they set,
  changes of `sql_mode`, statements around the size limit, blanks and comments around
  it in front of a good or a bad command, blanks and the byte `A0` at both ends of a
  statement. Limits are small enough
  to be met: words of 3 letters, delimiters and runs of blanks of 4 symbols,
  statements of 8. A token depends on at most five symbols of context and the
  state, so a cut that matters matters in a short script. `SplitsAsWhole` makes one exception,
  `ReportedFirst`: which of two errors is reported, that the text is too large or that
  the command behind it is bad, depends on the chunks (section 7). It shows `SplitsAsWhole`,
  `ImplementsWholeScan` and `MemoryBounded`. The two references differ: `WholeScan` goes
  from token to token as the code does and only leaves out the chunks, which can be
  proved for every script; `ScriptSplit` scans nothing, so a mistake about where tokens
  end shows only there.
* **`BinaryLiterals`** rewrites all the words of up to four or five symbols over one
  theme each, in front of, behind or inside a literal that is not UTF-8: escapes and
  doubled quotes in strings, the other kinds of quotes, introducers and what only looks
  like one, comments, executable comments and unfinished marks of both; and what a dump
  writes for all values of up to three bytes, in both forms. Whether a byte is escaped,
  quoted or commented out depends on a run of like bytes and on two neighbours, so four
  or five symbols hold every case twice over. The parser hands over whole statements, so
  a string or comment that never ends is left out, and so are neighbours that no dump
  writes (section 7 says what becomes of them). It shows `SentAsWritten`.

## 5. Fairness

* **`RestoreRun`, `DumpRun`**: `WF_vars(Step)`. The call goes on while some await can
  be answered: the connection answers a statement, with a result, an error or, once
  it is destroyed, by the adapter's own fast failure (`mysql2.ts:509`); this last
  one is part of both models (`FailsFast`), and without it the cleanup after a
  cancellation waits for ever, which is `Settles`' mutant in both. Neither the signal nor the loss of a connection nor other
  sessions are assumed to act.
* **`Mysql2Adapter`**: weak fairness of the driver's events (`Answer`) — but a
  paused connection sends none, which is the hazard —, of the generator's own run
  and of its consumer, which either asks for the next row or leaves. The consumers
  in `src/` are `for await` loops, which do one of the two.
* **`DumpContents`** and **`BinaryLiterals`** state none: the awaits of the first are
  those of `DumpRun`, and the second is one synchronous loop.
* **`InsertExport`**: `WF_vars(Export)` only. The output is not assumed fair:
  `CancelSettles` holds of an output that nobody reads, and `Settles` states its
  assumption, `WF_vars(Sink)`, in the property.

## 6. Proofs

Proved by TLAPS for every value of the constants; the constants' assumptions are
types (`OptionsAssumption`, `ScriptsAssumption`, `BoundsAssumption`, ...), evaluated
by TLC in every run. A theorem that needs more of the scripts or the options than their
type states it as a hypothesis of its own, named below.

* **`RestoreRunProofs`**: `TypeCorrect`, `TransactionsEnd`, `SecondFinalizeIsSilent`,
  `StopOnErrorStops`, `PlainLocksAreReleased`. The invariant is `TypeOK` with
  `ControlInv` (at which awaits a failure or an outcome can exist), `CleanupInv` (what
  is already cleaned at each await of `finalize()`) and `TransactionInv` (a
  transaction the server has open is one the code believes open, until the
  rollback). `TransactionHandedBack` is not inductive by itself: that the lease is
  returned without a transaction depends on the code's `transactionOpen` being at
  least as true as the server's, statement by statement. `PlainLocksAreReleased`
  adds `LockInv` and assumes `PlainLocks`, that no `LOCK TABLES` of the script
  stands behind a comment: exactly the case of `RestoreNativeLock`. What is handed back
  all the same, a transaction, a lock or a variable, is in `swallowed`: the server
  refused the very statement that was to end it. That one such refusal spoils nothing
  else is part of each of these theorems.
  - `CountersMatchServer`, without a hypothesis, from `AppliedInv`: while the script
    runs, the server has executed nothing from `next` on. `StatementsCountedOnce`, from
    `CountInv` (the counters add up to the statements behind `next`), assumes
    `CountsOnce`: no caller goes on after errors with a callback that throws, the
    case of section 7 in which a statement is counted twice.
  - `TransactionIsAtomic`, from `AtomicInv`: until the `COMMIT`, nothing is durable and
    what waits for it is every data statement behind `next`. It assumes
    `Transactional`: `singleTransaction` comes with `stopOnError` (again section 7), and
    no script without DDL has a `LOCK TABLES`, whose implicit commit ends the transaction.
  - `GuardedVariablesComeBack`, from `GuardsInv`. `VariableInv` says what must be true of
    a variable at every instant: if the code believes it changed, its saved value is
    the caller's, and if not, the variable itself is. That is inductive only together
    with `PositionInv`, which says where in the script this can be: before the
    statement `h` that saves the variable it is not believed changed; after `h` the
    saved value stays the caller's; and from `h` to the statement `f` that puts it
    back it is believed changed whenever `h` is recognised as changing it. The
    hypothesis `AllGuarded` is that every script has such an `h` and `f` for every
    variable (`MCRestoreRun`'s `ScriptsAreGuarded` evaluates it on every script of the
    runs about variables).
  - `DumpsAreGuarded` says which dumps those are: for all render options and every
    sequence of entries, of any length, `renderPlainSql` is guarded for every variable
    if and only if the options suit each entry (`NeedsHeader`); the options that do not
    are in section 7. The header saves a set of variables that depends on the options
    alone, the footer puts the same set back, and between them no block assigns an
    `@OLD_` variable, nor any session variable that `observe()` would not recognise.
    Conversely a block that changes a variable the header does not save is a
    counterexample wherever it stands. That the lines of the flattened dump are those
    of its blocks (`FlattenedLines`) is an induction on the number of entries, done by
    a least element, since `FlattenSeq` is a recursive function.
    `DumpsPutVariablesBack` joins it to `GuardedVariablesComeBack`: a restore of such a
    dump hands back every variable as it was. (`HeaderGuards`, which TLC evaluates for
    every kind of entry, is `DumpsAreGuarded` for dumps of one entry.)
  - `RestoreImplementsLease`, under `PlainLocks`, `AllGuarded` and `AllRestore` (every caller
    leaves `restoreSessionState` on). `OwnerInv` adds that the connection is as it was
    acquired until something is sent on it.
  - `DumpLocksAreHidden`: every `LOCK TABLES` of every dump stands behind a comment, and
    there is one whenever the dump has rows and `addLocks`. So `PlainLocks` holds of
    dumps only when they lock nothing, and `RestoreNativeLock`'s counterexample is no
    accident of its script. `DumpsImplementLease` is the refinement for the dumps that
    remain: suited options, no locks, of any length.
* **`DumpRunProofs`** (with the lemmas on the statements of `begin` and `finish`):
  `DumpTypeCorrect`, `IdleIsHandedBack`, `ReadAtOneInstant`,
  `ReadsArePinned`, `CheckoutIsReturned`, `VariablesAreHandedBack`,
  `DumpImplementsLease`. `HoldInv` says which of the snapshot, the lock and a result set
  can be held at each await; `InstantInv` that while tables are rendered the session is
  pinned, in a snapshot whose version is the one every covered row was read at;
  `SavedInv` that a value to be put back was read before it was changed; `PinnedInv`
  which variables `begin` has pinned at each of its statements and that they stay so
  while rows are read; `VariablesInv` which variables differ from the caller's after
  each statement. Here too what the server refuses in `finish` is in `swallowed`, and the
  theorems are about the rest. `CheckoutIsReturned` assumes `QuietCallbacks` (`onProgress` does not
  throw), and the last two `PlainCallers` (REPEATABLE READ, and character sets that a
  plain `SET NAMES` yields). The cases left out are those of section 7: the callback
  that throws at `starting-snapshot`, the isolation level and the collation.
  `CompletedDumpsAreComplete` says that a signal which cuts an export short is always
  noticed, by the write of the footer at the latest. `CompleteInv` accounts for every
  row of every table until the signal fires: written, in the open statement, or not yet
  taken. The hypothesis `AllFramed` is that the options leave a footer to write.
* **`Mysql2AdapterProofs`**: `AdapterTypeCorrect`, `MemoryIsBounded`,
  `FreeConnectionsAreReady`, `DestroysOnlyRunning`, `AdapterIsRowSource`. `RequestInv`
  ties the generator's place to the driver's command, `PauseInv` says that only an
  attached generator has the connection paused, `RoomInv` that an unpaused queue has
  room for one more row (the bound alone is not inductive: the pause must come
  with the row that fills the queue), and `OrderInv` that the queue holds exactly
  the rows between the last one taken and the last one sent.
* **`InsertExportProofs`**: `ExportTypeCorrect`, `StatementsRespectCaps`,
  `RowsAreExportedOnce`, `NoPartialStatement`, `OutputIsBounded`. `OpenInv` keeps room
  for the terminator in the statement being gathered, `WrittenInv` makes the
  statements written consecutive, `RowsInv` accounts for each row at every await,
  including the one in hand while a flush waits, and `BufferInv` says that a
  statement is handed over only below the output's high-water mark.

* **`StatementParserProofs`**: `ParserTypeCorrect`, `ParserMemoryIsBounded`,
  `ParserImplementsWholeScan`. `TypeOK`
  and `MemoryBounded` are inductive together. The argument is the lemma that a
  symbol that must wait has little behind it: a word shorter than
  `MaxCommandLength`, blanks and an argument of at most `MaxDelimiterLength` each, or
  a proper prefix of the delimiter or of the sandbox command, so that what a
  `HoldBack` carries over is bounded whatever the chunk was. It needs that the
  argument of `delimiter` is refused at the limit before it is waited for.
  - `ParserImplementsWholeScan` is chunk independence for scripts, chunks and limits of any
    size. Each turn of the parser is a step of `WholeScan` or none (`StepsAreWhole`):
    `Push` and `Finish` are none, and so are `HoldBack` and `EndOfChunk` unless what they
    append is too large; `LastDash` is the whole scan's
    `TakeSymbol`, every other turn is the step of its token. What has to be shown is that
    a decision taken on the text up to `fed` is the one the whole text asks for. There is
    a lemma for each kind of decision (`CommandIsWhole`, `ArgumentIsWhole`,
    `DelimiterIsWhole`, `OpeningIsSeen`, `LineCommentIsWhole`, `BlockIsWhole`): what is not
    held back is not changed by any text that may follow. For runs of letters and blanks
    this rests on `RunEndRuns`, that a run which ends before the limit ends there in every
    longer text. `ScanInv` is the invariant they need: `Between` says that
    `finish` comes once the whole script was fed, and `DropsAtOnce` that no text is left
    to be appended while text is skipped.
  - `LineStartKnown` is why the line-start flag must be rolled back with the symbol: while the flag is
    up, only blanks stand between `index` and the start of its line, also after a `HoldBack`. By it the hypothesis
    `PlainCommands` can be used: no script has a client command with its backslash where a
    line starts. That is the case of section 7 (and, for brevity, such a line in a string or a comment
    too); scripts with it refute the
    refinement when they are cut behind the backslash. `CommandsArePlain` makes TLC
    evaluate the hypothesis for the scripts of the run.

* **`ArchivePlannerProofs`**: `OrderIsStrict`, `OrderIsTotal`,
  `HardDependenciesComeFirst`, `NoHardCycles`, `PlansNeverFail`, for every database. The
  order is lexicographic over six natural numbers, hence strict and transitive; it
  is total because the key determines the type, the parent and the name of an entry.
  Every hard dependency goes from a smaller to a greater key, case by case over the
  kinds of requirement, and from a smaller to a greater depth, of which there are four;
  so no plan is out of order and none has a cycle. The hypotheses are what the
  catalog guarantees: `WellTyped`, `OneTriggerPerName`, `TablesAreNotViews`.
* **`DumpContentsProofs`**: `ContentsTypeCorrect`, `PlanningNeverFails`,
  `WalkKeepsToRequirements`. The invariant is `TypeOK` with `OneOfEach` of the catalog and
  the fact that the model holds one trigger of a name: a single query lists all
  triggers, so other sessions cannot put two of a name into one model, which is not
  so of a table and a view. `Walk` says that every entry pending is behind every entry
  visited.
  - `SelectionIsByName`: an object is selected by the code's folded lists if and only if
    the caller's lists name it as the server compares names, for every server and
    selection.
  - `LayoutIsMysqldumps`, `CompleteDumpsAreWhatWasAskedFor` and `CompleteDumpsRestore` are the
    three invariants of the run, about dumps that completed while other sessions did
    what they liked. None of them is near inductive, since they speak of the end only.
    `ReadInv` says what introspection knows at each query: an object that has been as it
    is all the time is listed once its query has run, and is shown as it is once its
    definition was asked for; a definition held is one of the catalog's. `WrittenInv`
    says the same of the script: each entry visited was written, or left out for a
    reason (`VisitInv`); each block is the text of one entry, in the plan's order
    (`ScriptInv`); rows are read from the table named (`RowsInv`); a banner not yet
    written has its section still ahead (`BannersInv`); the time zone is saved with the
    first event and reset with the last that can be rendered (`TimeZoneInv`); and the
    ranks of the blocks never fall (`LayoutInv`).
  - The first has no hypothesis. The others name theirs: `NoTwins` for both, and for
    restoring also `TriggersStay`, `OneDigitOrders`, `StubsAreDropped` and
    `TablesAreShown`. Each leaves out one case of section 7, and without any one of them
    TLC finds a dump that refutes the theorem. The catalog, servers and options of the
    run `DumpContents` satisfy them all, which `ShopIsOrdinary` makes TLC evaluate.

* **`BinaryLiteralsProofs`**: `EscapesAreUndone` is the round trip of a binary value:
  `unescape` gives back what `quoteMysqlBytes` wrote, whatever bytes the value has and
  however many. Both are recursions over bytes; the proof says where each byte of the
  value lies in the text (`EscapedPlaces`), that recursive functions of this form exist
  (`JumpsExist`, `GatherersExist`, from the least number principle), and follows
  `unescape` from the end. `DumpedBytesBecomeHexadecimal` carries it into the scan: when
  `RewriteLiteral` is at a literal that a dump wrote raw, it finds the introducer and the
  closing quote (`IntroducerFound`, `ClosingQuote`) and puts in its place what the dump
  would have written with `hexBlob`. Its hypothesis `DumpedInto` is that no word byte
  touches the literal from the left and no quote from the right. `ScanMovesOn`,
  `NothingIsCopiedTwice` and `UntouchedIsSentAsItIs` are about every statement: `ScanInv`
  keeps the places in order and says that right before what is not copied yet stands the
  quote of the literal rewritten last, which no introducer can contain.

`Mysql2AdapterProofs`' `DestroysOnlyRunning`, `DumpRunProofs`' `ReadsArePinned` and the
theorems of `BinaryLiteralsProofs` state properties that no run repeats.

`ContentsTypeCorrect`, whose `TypeOK` the other proofs rest on, is no longer an invariant of
the run `DumpContents`.

Only model-checked: the liveness properties (`Settles`, `CancelSettles`; liveness
and ENABLED are out of the prover's reach), and the parser's `SplitsAsWhole` and the
rewriting's `SentAsWritten` as a whole, whose references are recursions over the text.
Of the former, `ParserImplementsWholeScan` has the part that chunks change nothing, and TLC
that the scan in one piece finds the statements `ScriptSplit` defines; of the latter,
`BinaryLiteralsProofs` has the part about the values of a dump.

## 7. Where code and documentation disagree

Each of these is a run that ends in a counterexample; `findings` quotes the lines.

* `RestoreNativeLock`: a dump's `LOCK TABLES` stands behind a banner comment, and
  the pattern that tracks it is anchored at the statement's start: `DumpLocksAreHidden`
  proves it of every dump with rows and locks.
* `RoutineNames`: the renderer keys routines by their bare name
  (`renderer/plainSql.ts:73`), so of a function and a procedure of one name the
  procedure is written twice and the function not at all.
* `ViewsWithoutDrop`: with `addDropTable: false` a view's real definition finds its own
  stub in place (`renderer/objectRenderers.ts:262`).

Seen while modelling, without a run of their own:

* `restore/sessionState.ts` tracks no implicit commit: the `LOCK TABLES` of a dump's data
  commits the transaction that `singleTransaction` opened, so a data-only restore is
  not atomic (`RestoreRun` models it; `RestoreGuarded` has no such script with a
  transaction).
* `api/dump.ts:153`: a table's export turns a cancellation into a result, which only a
  later write or entry notices; when its table is the last entry and the dump has no
  footer, a truncated dump reports `cancelled: false` (`DumpRun` models it).
* `restore/statementParser.ts:660-669`: a chunk that ends behind the backslash of
  `\delimiter` turns the command into SQL, since a word of no letters is not waited for;
  so the split depends on where the chunks end, where the comment at 275-284 says it
  never does. The scripts of `ParserChunks` have the word without the backslash; with
  the script `\dl $` TLC refutes `ImplementsWholeScan`, and `PlainCommands` leaves out
  such scripts.
* `introspection/introspect.ts:302,348,392` ask for the definition of every routine,
  trigger and event and select afterwards (281-283): dropping one that was not
  selected in between ends the dump.
* With `warn-omit`, a table whose definition is hidden is left out and its rows and
  triggers are written all the same (`renderer/plainSql.ts:206-246`), and a view whose
  definition is hidden leaves its stub. The runs hide functions, triggers and events
  only, and `TablesAreShown` leaves the case out of `CompleteDumpsRestore`.
* A trigger that another session moves to another table between the listing and its
  `SHOW CREATE TRIGGER` is written with its new text at the place of its old table
  (`introspection/introspect.ts:342-372`), which can be in front of the new one's
  (`TriggersStay`).
* `renderer/plainSql.ts:403` reports every object it cannot dump as a `table`, views and
  triggers too.

* `connection/session.ts:221`: `SET SESSION TRANSACTION ISOLATION LEVEL` is never undone,
  so a caller's READ COMMITTED session comes back at REPEATABLE READ (`DumpSession`
  models it: `repeatableRead` is the case without the change, and
  `VariablesAreHandedBack` assumes it).
* `restore/binaryLiterals.ts:130` takes a backslash in a string for an escape whatever
  the `sql_mode`, while the parser follows `NO_BACKSLASH_ESCAPES`
  (`src/docs/supported-data-types.md:165-167`): in such a script a literal that is not
  UTF-8 loses its backslashes.
* `restore/binaryLiterals.ts:238`: `unescape` turns `\%` and `\_` into `%` and `_`, where
  the server keeps the backslash; `mysqldump` and this package write neither.
* `restore/binaryLiterals.ts:235` drops any introducer, so `_latin1'...'` with a byte that is
  no UTF-8 becomes a byte string; and 125-128 leave double-quoted strings as they are, so
  such a byte in one is reported as being outside of any string literal.
* `restore/binaryLiterals.ts:135` writes no blank around the hexadecimal form: a raw literal
  that touches a word, or another literal, becomes one token with it (the inputs of the
  run have neither, nor has a dump).
* `connection/session.ts:308`: `SET NAMES` replaces `collation_connection` and
  `character_set_results`, and only the client's character set is read and put back
  (`DumpSession` models it: `plainNames` is the case without the loss).
* `api/dump.ts:81`: an `onProgress` that throws at `starting-snapshot` leaves the
  acquired connection unreleased (`DumpRun` models it: `callbackThrows`).
* `restore/statementParser.ts:132`: the pattern of `sql_mode = ...` also matches inside
  a string of a statement, where the comment at 880-882 says that a mention in a
  string does not flip the parser.
* `restore/statementParser.ts:286`: an error in the middle of a chunk loses the
  complete statements before it in the same chunk, so how many run before the error
  is reported depends on the chunks.
* `restore/statementParser.ts:401-408`: a lone `-` that ends the script is no content,
  so a script that is only a `-` is empty.
* `archive/planner.ts:212` compares the triggers' action order as text: `10` is
  before `9` (`SortKey` models it; the runs have fewer triggers on a table, and
  `OneDigitOrders` is the case without it).
* `introspection/introspect.ts:362` says a trigger "will be skipped", where the
  renderer throws by default.
* `writer/streamWriter.ts:80`: a Writable destroyed without an error while a write
  waits emits only `close`, for which there is no listener.
* `data/chunkBuilder.ts` counts a statement's semicolon but not its newline.
* `restore/sessionState.ts:58,130-133`: a dump written without `setCharset` still
  changes the character sets in its object blocks, and they are put back from
  `@saved_` variables only by the script itself. So do a dump without session guards
  for `SQL_MODE` in its triggers, routines and events, and one without guards or with
  `timeZone: null` for `TIME_ZONE` in its events. After a failure in such a block the
  restore does not put the variable back; `DumpsAreGuarded` proves that these are the
  only dumps of which that is so.
* `restore/restoreSqlDump.ts:206`: with `stopOnError: false` the transaction is
  committed although statements failed; `AllOrNothing` is stated for restores that
  stop.
* `restore/restoreSqlDump.ts:159`: a callback that throws after a successful
  statement makes it count as executed and as failed.
* With the package's own adapter `definer: 'best-effort'` never retries: it looks for
  MySQL's error number in the error (`restore/restoreSqlDump.ts:259-262`), and
  `wrapMysql2Error` (`mysql2.ts:154-159`) keeps it in the cause only, where nobody looks;
  `src/docs/restore-api.md:146` promises the retry, and `src/docs/mysql2-adapter.md:137-140` that
  the number is there. In `RestoreRun` the option `errnoDescribed` says which kind of adapter the caller has, and
  the runs have both.
* `restore/statementParser.ts:836` trims the text as Latin-1, where the byte `A0` is a
  blank: a statement that ends, outside quotes, in a UTF-8
  character whose last byte is `A0` (`à`, the Cyrillic `Р`) loses that byte. `Trim`
  models it, in the parser and in both of its references.
* `restore/statementParser.ts:333-353,695-697`: blanks and comments in front of a client
  command are found too large only when a chunk or a statement ends, so an unsupported
  or malformed command behind them is reported instead if it came in the same chunk
  (`ReportedFirst` in `MCStatementParser`).
* `restore/restoreSqlDump.ts`: a signal that fires while the source's next chunk is
  awaited is seen only when the chunk arrives; `USE` is not undone.

## 8. What is not modelled

`components` in `PROJECT.json` lists every part with its status. Left out on
purpose:

* in `MysqlSession`: the default database, which `USE` changes and no statement puts back;
* text: the wording of statements, quoting, values, previews, warnings and
  progress payloads (progress every 1000 rows included);
* in `Mysql2Adapter`: the loss of the socket and statement timeouts (no caller in
  `src/` passes one), and the pool, whose acquire and release are in `DumpRun`; the
  connection is one the adapter made, so its `busy` check never waits;
* in `StreamWriter`: a Writable that is destroyed without an error; one that breaks while
  it holds nothing breaks, in the model, at the next chunk;
* in `StatementParser`: line numbers, section banners and byte counts, which nothing
  decides on; `_binary` literals, which `BinaryLiterals` converts when a statement is
  emitted: the two are not composed; letter case and the other blanks;
  `initialDelimiter`;
* in `BinaryLiterals`: the escapes of control characters other than the line feed, which
  one table holds; introducers other than `_binary`; `ANSI_QUOTES`;
* in `Introspection`: columns, indexes, checks and character sets, which decide nothing
  about what is written; the queries are one step of `DumpRun` that succeeds, fails
  or is cancelled;
* in `DumpContents`: the rows themselves (a block of rows names the table it was read
  from) and the statements inside a block;
* pure functions with tables of tests of their own: version gates, definer and SQL
  mode rewriting, compatibility warnings, the rendering of numbers, dates and text.
