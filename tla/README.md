# A verification project for MariaDB Snapshot

MariaDB Snapshot copies selected tables of source MariaDB servers into a target
MariaDB, one *bundle* of tables per snapshot date.  A Streamlit application
(`app.py`) queues a *run* in a local SQLite store and starts a worker process
for it; the worker reads the sources in small pages, writes files, loads them
into staging tables and finally *publishes*: in one transaction it replaces the
rows of the date in every formal table and writes a marker row.  Processes die,
connections drop in the middle of a COMMIT, sources change while they are read,
several browser tabs edit, recover, stop and retry at the same time.  The
project is about what must hold all the same: the agreement between the store,
the worker and the target, the files and tables a run leaves behind, the
protection of the sources, and the rules that decide what a copied row is.

Contents: [components](#components) - [modules](#modules) -
[what the models assume](#what-the-models-assume) - [runs](#runs) -
[fairness](#fairness) - [disagreements](#disagreements) - [proofs](#proofs) -
[not modelled](#not-modelled) - [plan](#plan) - [how to run](#how-to-run)

## Components

| component | state | operations | correct when | modules |
|---|---|---|---|---|
| run store (`snapshot/store.py`) | SQLite tables `run`, `run_table`, `connection_profile`, `backup_job`; unique index `one_active_run` | `queue`, claim (in `worker.py`), `cancel`, `begin_publish`, `update_run`, `update_table`, `interrupt_if_current`, `save`, `delete` | at most one run is active or has an unknown outcome; a compare-and-set never closes a run under its worker; the configuration is frozen under a run | `RunStore`, `Screens` |
| worker and engine (`snapshot/worker.py`, `engine.py`) | process, `Engine.current`, the handler's verdict, a target session | preflight, per table extract or reuse, load; publish; exception handler; finally block | the verdict it writes is what happened on the target | `Publication` |
| process control (`snapshot/process.py`) | none of its own | `start`, `owned_process`, `recover_local`, `force_stop`, `retry`, `cleanup` | recovery touches only runs whose worker is gone; a retry starts from a final failure; a cleanup deletes nothing that is in use | `Publication`, `Artifacts`, `Screens` |
| reconcile (`engine.py:128-168`) | a target session, what it read | lock, read the marker, decide | it decides only when no session can commit the run any more | `Publication` |
| target server | formal tables, marker table, advisory lock, sessions, staging tables | GET_LOCK, DDL, INSERT, COMMIT, end of session | (external; modelled from its use) | `TargetServer`, `Loading`, `SchemaRules` |
| source extraction (`engine.py:264-348`, `db.py:176-230, 500-528`) | page position, row count, clock, deadline | keyset pages, throttle, pause, reopening | every row that stays put is copied once; the source is given its pauses | `Extraction` |
| completed files and staging (`codec.py`, `engine.py:436-470, 519-521, 559-572`, `process.cleanup`) | data file, manifest, staging tables, recorded paths | write, rename, verify, reuse, drop, delete | only verified bytes are loaded; what a kill leaves can be found and removed | `Artifacts` |
| source mutex and isolation check (`db.py:147-174, 295-306`) | GET_LOCK on a source server | taken by every source connection, also for each target connection | one query at a time on a source; no source is written to | `SourceMutex` |
| loading (`engine.py:349-393`, `codec.batches`) | batches, progress, statements in flight | DROP, CREATE, INSERT, COMMIT, COUNT, retry on a new connection | a table that passes the count is the file | `Loading` |
| schema rules (`db.py:308-498`) | none | `schema`, `expected_schema`, `create_sql`, `compare_schema` | a table the application makes is one it accepts, and that accepts the rows | `SchemaRules` |
| comparison of dates (`compare.py`) | none | bounded loads, differences | what is not marked is the whole difference | `DateComparison` |
| value conversions (`codec.py`, `db.bind_value`) | none | TIME through driver, file and text | the value arrives | `Conversions` |
| screens (`app.py`) | what a script has read, confirmations in the session | pages, dialogs, a one-second timer | what is queued is consistent and was asked for | `Screens`, `Publication` |
| history, secrets, workflow labels, scripts | none shared | read-only queries, look-ups | - | not modelled |

How they interact.  A screen calls `process.start`, which commits a QUEUED row,
starts the worker and hands it the secrets; the worker claims the row (pid IS
NULL) and from then on only its own writes, a cancel flag and, once it is gone,
recovery touch the row.  `publish_pending` is set in one transaction with a last
look at the cancel flag, before the target lock is asked for, and is cleared only
by success or by `reconcile`, which asks for the same lock, so what it reads of
the marker table cannot change afterwards.  Every open page runs `recover_local`
each second.  A retry is a new run with the old specification; it reads the file
paths its parent recorded.  Every connection to the target first visits every
source of the specification, and every connection to a source takes the mutex of
its server without waiting.  Every operation of the store is one SQLite
transaction; everything between two of them may be interleaved with anyone.

The hard behaviours are listed, each at its line, under `hazards` in
`PROJECT.json`, with the properties that watch them.

## Modules

    RunStore  TargetServer            SnapshotService (abstract)
         \      /                          ^
        Publication --------- implements --'
            |
     PublicationInv --- PublicationSteps, PublicationTheorems (proofs)
            |
      MCPublication (instances)

    Extraction   Artifacts   SourceMutex   Screens   Loading    each with its ...Theorems
    SchemaRules + DateComparison + Conversions -> Operators     with OperatorsTheorems

The modules of the second group take one step of `Publication` apart, or what
surrounds it; the boundaries are the sets of outcomes each leaves open.  In
`Publication` a table is extracted and loaded in one step, which succeeds, fails
or notices a cancel: `Extraction` and `Loading` are that step.  In `Artifacts`
the outcome of a publication is any of those `Publication` allows.  In `Screens` a
run is busy until it ends.

**RunStore.**  `state`, `cancel`, `pending` (`publish_pending`), `claimed`
(`pid IS NOT NULL`), `retryOf`, `stage` are the columns of `run` and
`run_table`; one operator per method, with the WHERE clause as guard.  A row
that does not exist yet has state `ABSENT`; `uuid4` never draws an identifier
twice.  `Current` is the WHERE clause of `interrupt_if_current`: comparing pid
and creation time with what was observed amounts to comparing whether the run
was claimed, because a run is claimed at most once.

**TargetServer.**  `formal[t][d]` is the run whose rows table `t` holds for date
`d`; `marker` the runs with a marker row; `lock` who holds GET_LOCK; `session[r]`
the server's side of the publishing connection of run `r`, whose transaction has
replaced `replaced[r]` tables.  The server executes a statement it was sent in a
step of its own, also when the client has died: a lock may be granted to a dead
client, a COMMIT may be executed after its worker was killed, or be lost with
the session.

**Publication.**  `pc[r]` walks the worker of run `r` through `worker.main` and
`Engine.execute`; its labels are the points between two effects.  `current` and
`verdict` are the locals that matter.  `recPc`, `recCancel`, `recDone` are a call
of `reconcile`, by the handler of a worker (named by its run) or by a screen.
`op`, `opRun`, `seen`, `left` are a screen in the middle of `start` or
`recover_local`.  The actions, in the order of the code:

- `ClaimRun` ... `LastCheck`: claim, preflight, one table after the other.  An
  attempt to extract or load is one step that succeeds; its failures are
  `BodyFails`, its cancellation points `NoticeCancel`.
- `EnterPublish`, `RequestLock`, `LockGranted`, `ReplaceTable`, `Commit`,
  `CommitAcknowledged`, `MarkPublished`, `Succeed`, `Tidy`: publication.
- `Handle`, `SettleTable`, `SettleRun`, `SettleRest`, `Finish`: the exception
  handler and the finally block, one step per store transaction; `StoreRaises`
  and `RecordInterrupted` lead to the handler of `worker.main`.
- `RecLock`, `RecMarker`, `RecTable`, `RecSuccess`, `RecNotPublished`,
  `RecRaises`: `reconcile`.
- `Start`, `Popen`, `SendSecrets`, `StartFails`; `CancelRun`; `Recover`,
  `Interrupt`, `ListTables`, `FailTable`, `Recovered`; `ForceStop`; `Reconcile`:
  the screens.  `process.retry` is `Start` with a parent.
- `Die` (any worker, anywhere), `ScreenDies`, `ServerEnds`: failures.

**SnapshotService.**  A short promise: one run open at a time, a full run
replaces the rows of its date in all tables in one step while it is open, is then
reported as a success, and is reported as a failure only if it replaced nothing.

**Extraction.**  One worker reads `NT` tables.  `rows` are the keys now in the
table, `kept` those that were there all the time, `last` the position of the next
page *as the driver showed it and sends it back* (`Seen`), `copied` and `count` the
file, `clock`, `deadline`, `nextRead` the three times of the code (`source_deadline` of
the run, `_next_read` of the connection); `ended` and `owed` remember when the last page
ended and when its throttle is over.  Pages are ordered by the keys themselves and cut
by `Compared`, the keys as `=` and `>` see them.  `BeginPage` is the head of the loop
with the sleep of `Source.read`, `ReadPage` a page (EXPLAIN, the statement, the fetch)
with the decision whether it was the last, `Pause` the wait between pages, which reopens
the connection from 25 s on, `ReadWhole` the single statement of a table without a key,
`Change` another client of the source, `Raise` everything that raises.

**Artifacts.**  Per run and table: `data` and `manifest` on the disk, the path
(`file`) and the staging name (`recorded`) in the store, `staging` on the target.
`Look`, `Reuse`, `CompleteData`, `CompleteManifest`, `RecordFile`, `Verify`,
`CreateStaging`, `LoadRows` are the loop of `Engine.execute`; `Publish`, `Tidy`,
`Finally` what follows; `CleanBegin` ... `CleanEnd` are `process.cleanup` in the steps
between which a tab can start a retry; `Die`, `Damage`, `CleanRaises` the failures.

**SourceMutex.**  `server`, `phase`, `busy`, `holder` are the source servers'
view of the sessions; `conn`, `granted`, `reads` the client's view of its `Source`;
`pc`, `purpose`, `unchecked`, `want` say what the client connects for: the visits of
`check_target_isolation`, the schema, the extraction, a list of tables.  A worker
that has written goes on to extract a table, or to load it from a completed file.  A
client's close and the end of the session are different steps, and a query goes on after
its client has given up.

**Screens.**  A script reads the configuration once (`Draw`: `seen`) and acts in a
later transaction; an action that needs a confirmation takes two scripts, with the
dialog between them (`Ask`, `Confirm`, `Take`).  `StartRun`, `BuildSpec`, `Queue`
are `build_spec` and `process.start`, which read jobs, then connections, then
queue.  `SaveProfile`, `SaveJob`, `DeleteProfile`, `DeleteJob` are `Store.save` and
`Store.delete` with their idle check.

**Loading.**  `attempt` is the attempt of `Engine.retry` and its connection; `stmt`,
`at`, `held` are what the server still executes for each connection, also for those
that were given up; `stage` counts the committed copies of each batch.  A file is the
sequence of the offsets at which its lines end; `Batches` is the loop of `codec.batches`
as a recursive function of the lines it has read.

**SchemaRules, DateComparison, Conversions** are pure operators with the names of
the functions they translate; a behaviour of `Operators` takes one input and has it
judged.  A table is what `information_schema` shows of it (`TableRecord`), and well formed
when its indexes name its columns and its primary key is NOT NULL; the order in which a
page lists differences is left out, which of them it lists is not.

Definitions whose comment begins with *Mutant* are faulty variants of the
definition that follows; they belong to no specification and show that the runs
would notice such a change of the code.

## What the models assume

- The identity test of `owned_process` (pid, creation time to 10 ms, command
  line) is exact, and a process that cannot be inspected is not recovered.
- SQLite transactions and InnoDB transactions are atomic; GET_LOCK is exclusive
  and is released when its session ends.
- `Publication` leaves time out: "not claimed for 30 seconds" and "no lock within
  10 seconds" may happen at any moment, which includes every real timing.
  `Extraction` counts time in units of its instance.
- `StoreFaults = FALSE` says that the store calls of the *clean-up* code (handler,
  finally block) and of the engine's constructor do not raise.  A store call
  of the try block, of `reconcile` or of `start` may raise in every run.
- The marker read by `reconcile` belongs to the run that wrote it (the mismatch
  branch, which asks for an administrator, needs a foreign row).
- One target database in `Publication` and `Artifacts`.  Runs to different targets
  share nothing but the store.
- `process.retry` calls `reconcile` for a pending run; the retry button is shown
  only when nothing is pending, so that branch is `Reconcile` followed by `Start`.
- `Extraction`: a statement sees the rows of one moment; EXPLAIN, warnings and the
  8 MiB bound only raise.  A page may take any time of `Durations`, which nothing
  bounds: EXPLAIN, SELECT and the fetch together, with five seconds for each read of the
  socket and a limit of two seconds for a statement that the server checks where it can
  (`README.md:111`).  Writing its rows to the file and opening a connection take no time.
- `ExactKeys`, a hypothesis of the theorems and true of the instance: a key comes back
  from the driver and the server as it was read, and `=` and `>` with a parameter follow
  the order of ORDER BY.  Columns that are not so are under [disagreements](#disagreements).
- `Artifacts`: a worker that is killed is found dead in the same step, because until
  `recover_local` ran nobody may start a run or a cleanup.  Files decay only while no
  worker runs.  At most one cleanup is under way.
- `SourceMutex`: what `identity()` compares is reduced to being the same server; a
  profile does not move to another server.  The session settings that `connect` makes
  before GET_LOCK are not counted as queries.
- `Screens`: `Draw` reads connections, jobs and runs as one snapshot; the script
  reads them in three transactions, but offers only what a later script, which
  executes the action, checks again against its own reading.  A password or a target
  that is missing is `Refused`.
- `Loading`: a batch is one INSERT.  DDL waits for open transactions (the metadata
  lock) and for DDL that an earlier connection was sent: an abandoned DROP or CREATE
  is executed before a later one, or never.  Without the last assumption a late DROP
  and CREATE of two abandoned attempts could leave an empty table behind the count.
- `DateComparison`: no two keys have one place in the order of the server, or one repr.
- `SchemaRules`: names casefold as the constants say; collations and column types
  beyond those of the instance are left out.  `AcceptedTakesSnapshots` is stated for
  targets whose indexes hold whole columns, see [disagreements](#disagreements).
- `Conversions`: 60, 60 and 24 are the real radices; a second has 10 fractional units
  instead of a million.

## Runs

| run | instance | states (about) | what it shows |
|---|---|---|---|
| `two_runs` | `Publication`: 2 full runs, 2 tables, 1 date, 1 screen | 1.1 million | `IInv`, `OneBusyRun`, `SuccessReportsTables`, `RetriedWasNotPublished`, `BundleIsWhole`, `VerdictIsStable`; `ImplementsService`: the application refines `SnapshotService` |
| `two_screens` | `Publication`: 1 full run and 1 test, 1 table, 2 dates, 2 screens | 2.0 million | `WorkerOwnsRun`, `VerdictMatchesTarget`, `CancelClosesGate` when two pages recover, stop and reconcile at once |
| `liveness` | `Publication`: 1 full run, 2 tables, 1 screen, `StoreFaults`, fairness | 3,400 | `SuccessWasCommitted`: no failure is shown as a success when the clean-up code's store calls raise; `ActiveRunEnds`, `PendingIsResolved` |
| `extraction` | 2 tables, each with or without a key of two columns, batches of 1 and 2 rows, pauses of 1 and 12, pages that owe up to 16 | 1.8 million | `EInv`, `NoRowTwice`, `CompleteFile`, `ThrottleHolds`, `BudgetHolds` |
| `artifacts` | 2 runs, 2 tables, 2 schemas | 1.8 million | `AInv`, `LoadedIsVerified`, `StagingOutlivesPublication`, `CleanedIsClean` |
| `mutex` | 1 worker, 1 screen, 2 profiles, 2 servers | 54,000 | `MInv`, `OneReader`, `NoOrphanedMutex`, `SourcesAreNotWritten`, `MutexIsReturned` |
| `screens` | 2 tabs, 2 sources, 2 targets, 2 jobs, 2 runs, 1 change | 2.1 million | `SInv`, `RunsAreClosed`, `KnownSourcesAreChecked`, `FrozenWhileBusy` |
| `load` | files of up to 4 lines of size 1 or 3, 2 retries | 391,000 | `LoadedIsFile`, `ProgressIsStored`, `BatchesCoverFile` |
| `operators` | the input sets of `MCOperators` | 127,000 | `CreatedIsAccepted`, `KeysTellRowsApart`, `AcceptedTakesSnapshots`, `ComparisonIsWhole`, `ComparisonIsMarked`, `TimeIsKept` |
| `v_success_overwritten` | `Publication`: 1 run, `StoreFaults` | - | violates `SuccessIsDurable` |
| `v_tables_overwritten` | `Publication`: 1 run, 2 tables, 2 screens | - | violates `RecoveryKeepsSuccess` |
| `v_throttle_forgotten` | `Extraction`: the instance of `extraction` | - | violates `FourfoldPause` |

Why the bounds are enough to be interesting.

- `Publication`: runs exclude each other, so a hazard needs the run it concerns and
  one that follows or retries it: two runs, the first of which leaves a session or a
  marker for the second to meet.  A torn bundle needs two tables.  A race between
  recoveries, or between recovery and reconcile, needs two screens; a third would do
  what one of the two does.  A run cannot be used twice, so no counter grows.
  `liveness` follows one run, because nothing can be queued beside it; its two tables
  make a reconcile fail between them.  With more runs `SuccessWasCommitted` is a theorem.
- `extraction`: four keys in two groups make a page end inside and at the end of a
  group; batches of 1 and 2 rows and up to 4 rows give the empty, the short and the
  exactly full last page; the limit 3 is reached inside a page of 2 (`MaxRows = 3` is
  the bound of 1000 rows).  The unit of time is about two seconds: a page takes 0, 1
  or 4, the reopening pause is 12, which four times 1 stays below and four times 4
  exceeds, and the budget of 27 is exhausted by two tables.
- `artifacts`: a retry reuses its parent's files; two tables put a death between two
  files; two schemas make a file of another configuration.  A longer chain of retries
  is covered by the theorems, which hold for any number of runs.
- `mutex`: one worker suffices, because the store lets one run only be active; the page
  is the other client.  Two servers and two profiles include a source on the target's
  server, two profiles of one server, and two servers.  With one socket a client meets
  its own unfinished session; `MaxReads = 1` bounds the queries of one visit.
- `screens`: a configuration that changes once under two tabs is enough to make
  anything stale that a script has read; the jobs read one source, the other one is
  registered, deleted or added beside it.
- `load`: three attempts let two abandoned connections execute at the same time.  With
  `MaxRows = 2` and `MaxBytes = 3` batches close by rows, by bytes, by both and by neither.
- `operators`: every combination of key, unique and further indexes of two columns,
  with prefixes and NULL; all rows of up to four keys for two dates, with limits below,
  at and above their number; TIME values around zero and around every carry.

`CHECK_DEADLOCK FALSE` is set where the system really stops: every run of the
instance is final, the file is loaded, the input is judged.  `mutex` checks deadlock.
Symmetry is used for runs in `two_runs`, `artifacts`, for screens in
`two_screens`, for tabs and runs in `screens`; never where a liveness property is
checked.

Every property of a passing run has a mutant under `mutants` in `PROJECT.json`.
The properties worth arguing about:

- `VerdictMatchesTarget`: whatever died or was lost, a final run is SUCCESS if
  and only if its marker was committed.  It holds because a verdict is final only
  when `reconcile` read the marker under the lock (or the run never set
  `publish_pending`).
- `RetriedWasNotPublished`: no run is retried that published, or that still could.
- `OneBusyRun`: with the unique index alone a new run could be queued beside an
  INTERRUPTED run whose outcome is unknown; `_assert_idle` is what prevents it.
- `WorkerOwnsRun`: the compare-and-set of `interrupt_if_current`, and the fact that
  `owned_process` is asked before it, keep recovery off living workers, also when a
  worker claims a run between the observation and the update.
- `CancelClosesGate`: a cancel that was recorded before `begin_publish` wins.
- `VerdictIsStable`: the handler's unconditional `update_run` never flips a verdict.
- `CompleteFile`: rows that come and go between the pages never hide one that stays.
- `BudgetHolds`: the ten minutes are looked at between pages only, and neither the
  pause nor the throttle looks at them; the property says by how much a page, that is
  its EXPLAIN, can be late: less than the throttle of one page.  The data statement
  follows when the EXPLAIN is answered.
- `ThrottleHolds`: what a slow page owes is kept in the connection, which the engine
  closes after a long pause; the property says that nothing else loses it, and that the
  long pause is then kept.
- `LoadedIsVerified`: a file may be written by a killed worker, deleted by a cleanup
  that passed its check before the retry began, or decay; none of it is loaded.
- `OneReader`: a client that gave up does not free the server; the mutex does not
  come back before its query has ended, and the next client is refused, not queued.
- `RunsAreClosed`: what is published together goes to one server, although jobs and
  connections are read in two transactions and another tab may edit them in between.
- `LoadedIsFile`: the count compared at the end cannot be right by a batch that is
  missing and another that the server executed for a lost connection.

## Fairness

`liveness` uses `FairSpec` of `Publication`.

- *Worker*: weak fairness of each worker's own steps.  Every call the worker makes
  has a time limit (connect, read and write timeouts, GET_LOCK 10 s), so it
  returns or raises.  `Die` and `BodyFails` stay possible at any time but are
  never required.
- *Server*: weak fairness of ending the session of a client that is gone (TCP
  keep-alive, `wait_timeout`), and of the session of a reconcile that has moved on.
- *Screens*: strong fairness of `recover_local` for each run and of the steps it
  goes through: `monitor` runs every second while a page is open
  (`app.py:727-729`), and a page may be closed and opened again for ever.
- *Operator*: strong fairness of pressing the reconcile button and of its steps, the
  update of each table among them, i.e. someone keeps asking and neither the network nor
  the store fails for ever.  Nothing in the
  code retries a reconcile by itself, so without this a pending run stays pending;
  the assumption is on the people, and is stated as such.

`mutex` uses `FairSpec` of `SourceMutex`: weak fairness of `Answer`, `EndSession` and
`TimeOut` of each session, that is of the servers only.  They follow from what
`connect` and `configure_read_only` set: a statement is stopped some time after two
seconds, an idle session is ended after `wait_timeout` = 30 s.  Clients may hang for ever.

## Disagreements

Three that a run shows:

- `v_success_overwritten`: `engine.py:537` says "Cleanup failure after committed
  success must not overwrite durable success."  The store calls at
  `engine.py:574-576` are outside the try blocks of the finally clause; when one
  raises after SUCCESS was recorded, `worker.py:32-35` writes INTERRUPTED over it,
  unconditionally.  `liveness` shows how far the damage goes: no failure is shown
  as a success, and (by the theorems) the formal tables stay whole and no second run
  gets in; but a published run can be offered for a retry.
- `v_tables_overwritten`: `VALIDATION.md:32` says that a recovery does not
  overwrite a completed SUCCESS and names the compare-and-set.  It covers the row
  of the run; the rows of its tables are updated afterwards from a list
  (`process.py:85-93`) that another page's reconcile may have made stale: the run is a
  SUCCESS whose tables are shown as failed.  With one screen this cannot happen
  (`SuccessReportsTables` in `two_runs`).
- `v_throttle_forgotten`: `SOURCE_SAFETY.md:16` promises a pause of four times the time
  a page took.  It is owed by `Source._next_read`; with `wait_ms` of 25 000 or more
  `engine.py:313-315` opens a new `Source` after the pause, which owes nothing
  (`db.py:153`).  A page that took more than a quarter of the pause (6.25 s of 25) is
  then followed too early.  What is left is `ThrottleHolds`: that pause itself.

Met while modelling, of less weight or outside the instances; no run shows them:

- *Pages.*  `engine.py:306` continues after the key as the driver returns it.  For
  keys it returns exactly, and that are compared as they are ordered, this is right:
  `ExactKeys`, under which `CompleteFile` is proved.  Three kinds of key that `column_ddl`
  allows are not so.  A FLOAT is rounded, and rows between the shown and the stored value
  are skipped.  ENUM and SET (`db.py:418-419`) are ordered by their index but compared
  with a parameter as strings.  A negative TIME is sent by `keyset` without `bind_value`,
  through the encoder that `db.py:254` says to be wrong for fractions and several days.
  The throttle of `README.md:112` is kept within a table; `Source.__init__` starts at
  zero (`db.py:153`), so the first page of the next table does not wait for the last one.
- *Files.*  `README.md:134` says that data files are removed on success; a success found
  by the handler's `reconcile` (`engine.py:533`) leaves them, `Tidy` belongs to the try
  block.  `README.md:128` says that verified files are reused; a retry that fails in its
  preflight has recorded none (`engine.py:436` asks the parent only), so the next retry
  reads the source again.  `app.py:933` says that a retry must read the source after a
  cleanup; a path into the directory of an ancestor survives the cleanup
  (`process.py:160`) and is reused.  The check of `process.py:130-131` and the deletions
  are not one transaction: a retry queued in between may lose a file it has verified,
  fails when it opens it, and loads nothing (`LoadedIsVerified`).  A cleanup that stops
  half-way (`process.py:157`) may leave data without a manifest: the next retry fails in
  `verify`, the one after it reads the source.
- *Isolation.*  `app.py:601` says that the comparison page does not connect to the
  sources; it does, through `check_target_isolation` (`app.py:619`).  These visits take
  the mutex without waiting (`db.py:157`), so a page that is merely drawn can make a run
  fail, and the other way round.  A retry checks the sources of the old specification
  (`process.py:123`), not those registered since, which `engine.py:82` and
  `README.md:98,114` speak of; `KnownSourcesAreChecked` is therefore about starts.
- *Screens.*  A confirmed start executes the choices of the script that runs after the
  dialog (`app.py:66`, `app.py:578`): a job that another tab has edited meanwhile starts
  with its new link.  A job can be saved with a connection that another tab has just
  deleted (`app.py:445`, `store.py:72`); `build_spec` then refuses it.  The comparison
  page keeps one result in the session and compares table, dates and limits with it,
  not the target (`app.py:639-647`): after another target is chosen its page shows the
  result of the first.  An import announces that it overwrites connections with the
  same ID (`app.py:334`), but drops the ID (`app.py:338`) and always adds.
- *Schemas.*  `compare_schema` does not look at prefix lengths: a target whose primary
  key cuts a column is accepted, and refuses rows with a duplicate key when they are
  published.

## Proofs

Checked by TLAPS for every value of the constants.  Assumptions: the named ASSUMEs of
the modules.  Theorems about `Publication` that begin with `~StoreFaults =>` also assume
that the clean-up code's store calls do not raise, and are false without it; `OneScreen`
(at most one page) is assumed for `SuccessReportsTables`, which `v_tables_overwritten`
shows to be false with two; the theorems about `Extraction` assume `ExactKeys`.

| module | theorem | says |
|---|---|---|
| `PublicationTheorems` | `Invariance` | `Spec => []IInv` |
| | `TypeCorrectness`, `MutualExclusion`, `WholeBundles`, `PublishedTables`, `WorkerOwnership`, `CommittedSuccess` | `TypeOK`, `OneBusyRun`, `BundleIsWhole`, `PublishedWasCommitted`, `WorkerOwnsRun`, `SuccessWasCommitted` are invariants, store faults or not |
| | `ExactVerdicts`, `HarmlessRetries` | `VerdictMatchesTarget`, `RetriedWasNotPublished` are, without store faults |
| | `CancelWins`, `StableVerdicts` | `CancelClosesGate`; `VerdictIsStable` without store faults |
| | `SuccessIsReported` | `SuccessReportsTables`, with one screen, store faults or not |
| | `Refinement` | without store faults, `Spec => ImplementsService` |
| `ExtractionTheorems` | `ExtractionInductive` | `Spec => []EInv`, for exact keys of any width, any number of tables, batch sizes, limits, pauses and durations of a page |
| | `PagesAreDisjoint`, `PagesLeaveNoGap`, `SourceIsSpared`, `BudgetIsKept` | `NoRowTwice`, `CompleteFile`, `ThrottleHolds`, `BudgetHolds` |
| `ArtifactsTheorems` | `ArtifactsInductive` | `Spec => []AInv` |
| | `OnlyVerifiedFilesAreLoaded`, `StagingCanBeFound`, `CleanedStaysClean`, `RefusalsAreNotInherited` | `LoadedIsVerified`; `StagingIsRecorded` and `StagingOutlivesPublication`; `CleanedIsClean`; `NoSecondRefusal` |
| `SourceMutexTheorems` | `MutexInductive` | `Spec => []MInv` |
| | `ReadersAreExclusive`, `MutexIsNotOrphaned`, `SourcesAreSafe` | `OneReader`, `NoOrphanedMutex`, `SourcesAreNotWritten` |
| `ScreensTheorems` | `ScreensInductive` | `Spec => []SInv` |
| | `ClosedRuns`, `SourcesAreCarried`, `Confirmations`, `Frozen` | `RunsAreClosed`, `KnownSourcesAreChecked`, `ConfirmedOnce`, `FrozenWhileBusy` |
| `LoadingTheorems` | `LoadingInductive` | `Spec => []LInv`, for files of any length and any sizes of lines, bounds and retries |
| | `TheFileIsLoaded`, `ProgressIsTrue`, `TheFileIsCut` | `LoadedIsFile`, `ProgressIsStored`, `BatchesCoverFile` |
| `OperatorsTheorems` | `CreatedTables`, `KeysTell`, `SnapshotsFit` | `CreatedIsAccepted`, `KeysTellRowsApart`, `AcceptedTakesSnapshots`, for tables of any columns and indexes |
| | `ComparisonsAreWhole`, `ComparisonsAreMarked` | `ComparisonIsWhole`, `ComparisonIsMarked`, for any two dates and limits |
| | `TimesAreKept` | `TimeIsKept`, for every integer and any radices |

The arguments.  Hardly any of the properties is inductive, because each step relies on
what an actor learned some steps ago; the invariants record that.

*Publication.*  `IInv` (`PublicationInv.tla`) is the conjunction of

- `RowInv`: the flags of a row against its process and the target; e.g. a run that
  is not pending but has a marker is a SUCCESS.
- `SessionInv`: a COMMIT in flight belongs to a pending run, carries all tables, and
  its session *holds the lock*.
- `WorkerInv`: what a worker knows at each label, e.g. in its try block the run is
  its own and active; before `begin_publish` it has no publishing session.
- `RecInv`: a call of reconcile has either not read the marker yet, or what it read
  is still true, because the publisher of its run is gone and no COMMIT of it is in
  flight.  This is where the lock is used: `RecMarker` holds it, and `SessionInv`
  then excludes a committing session.
- `UiInv`, `OneStarter`: a screen in the middle of `start` is alone with its
  unclaimed run; recovery of a claimed run acts on a process that is gone.
- `RetryInv`, `OneBusyRun`, `PublishedWasCommitted`, `BundleIsWhole`.

- `TablesInv`, with one screen only: a SUCCESS, and what a reconcile has done so far,
  shows its tables as published, and a recovery works off its list only for a run that
  is final and no SUCCESS, which no other page can change meanwhile.

`PublicationSteps` proves which steps touch which variables, and has one lemma per part
of `IInv`; `PublicationTheorems` puts them together and shows that `Start` is the
service's `Request`, `ServerCommits` its `ReplaceRows`, and that every other step either
closes a run as the service would or is invisible.

*Extraction.*  `PositionInv` says that everything in the file is at or before `last`
and every kept row that is not in it lies behind; it survives a page because `IsPage`
takes the first rows behind `last` and the condition of `keyset` is, for exact keys, the
lexicographic order (a lemma, proved for keys of any width).  `LoopInv` and `TimeInv`
carry the limit and the throttle through the labels of the loop: before a page the
connection either remembers what the last one owes, or was reopened after a long pause,
which is then over.

*Artifacts.*  `WorkerInv` (one worker, and what a parent was), `DiskInv` (a manifest has
the schema of its writer, a verified file can disappear but not change under a worker),
`PositionInv` (what the worker has recorded when it is where), `RefusalInv`, `CleanInv`.

*SourceMutex.*  `SessionInv` (a query runs under the mutex), `HolderInv` (the mutex of a
server is with a session of that server that can still give it back), `ClientInv`,
`CheckInv` (past the visits the target shares its server with no profile).

*Screens.*  `DraftInv` and `KnownInv`: what a script is about to queue is closed already,
and the sources its user knew of are registered still.

*Loading.*  `SessionInv` says that once the DROP of an attempt was executed nothing that
an earlier attempt left behind can change the table: no DDL of it waits, and no COMMIT
that has anything to commit.  `TableInv` then tells the table from the batch the worker
is at, and `ProgressInv` the rows it reported.  What the count at the end is worth rests
on `BatchFacts`: the batches of a file of any length are non-empty, in order, and hold
every line once.  That is an induction over the lines, made without the library's
theorems (whose operator parameter no installed prover instantiates): `LeastNatural`
states that a non-empty set of numbers has a least element, `Induction` that a set with 0
and with n + 1 for each of its n is all of Nat, and `Recursion` that a function defined
from its predecessor exists and is what its equation says.

*Schemas.*  `CreatedTaken` and `SnapshotsTaken` go through `ExpectedSchema` part by part.
A unique index of an accepted target can only be the date and the source's primary key
(`AcceptedFacts`); two rows of the source differ in a column of that key (`RowsApart`),
which keeps its name and is not the date.

*Comparison.*  `FirstExists`: a finite set of keys has a first part of each size, by
induction over the size; from there on it is a matter of cardinalities.  *Times.*
`DivModUnique` and `Nested`: division with a positive divisor has one answer, and dividing
by one radix after the other is dividing by their product.

TLC has checked each of `IInv`, `EInv`, `AInv`, `MInv`, `SInv` and `LInv` as an invariant
of the instances before it was proved; all but `LInv` (add it to `load.cfg`) are
properties of a run.

Only model-checked: liveness under fairness (`ActiveRunEnds`, `PendingIsResolved`,
`MutexIsReturned`), which is outside the prover's reach.  Every invariant and every action
property that a run checks is also the property of a theorem, some under the hypotheses
above.

## Not modelled

- `check_disk`, logging, the heartbeat thread, server_status and error texts: no
  decision depends on them, except that a full disk raises.
- Passwords and their masking, character sets, TLS, the read-only guards of the source
  cursor (one fixed list of statement templates).
- The other value types: they are encoded and decoded by a library function and its inverse.
- The marker table's schema, `test_connection`, connection tests of the forms.
- History pages, CSV export, the activity log: read-only queries and an append-only table.
- The dialog of an import; clean-up, cancel and force stop go through the same dialog, and
  are modelled where their effect is.
- The session state of the comparison page, and its bound on examined rows, which raises.
- The guided workflow (labels and which step is drawn first), scripts and the demo database.

## Plan

1. *(done)* `RunStore`, `TargetServer`, `Publication`, `SnapshotService`, with the
   invariant, its proof and the refinement.
2. *(done)* `Extraction`, `Artifacts`, `SourceMutex`, `Screens` with inductive invariants
   and their proofs; `Loading`, `SchemaRules`, `DateComparison`, `Conversions`.
3. *(done)* Theorems about `Loading` and the pure rules, with induction over the data.
4. The session of the comparison page, with two targets, and its bound on examined rows.
5. The sources of a retry: those of the old specification, not those registered since.

## How to run

    tlc -config two_runs.cfg MCPublication.tla       # two_screens, liveness, v_success_*, v_tables_*
    tlc -config extraction.cfg MCExtraction.tla      # v_throttle_forgotten; likewise artifacts, mutex, screens, load
    tlc -config operators.cfg MCOperators.tla
    tlapm PublicationTheorems.tla                    # and the other *Theorems, PublicationSteps
