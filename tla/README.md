# PyDBAdminKit: TLA+ models and proofs

PyDBAdminKit administers PostgreSQL servers from a command line and from Python. It
inspects catalogs, roles, sessions and health, and it changes things: roles and
privileges, running backends, table storage (VACUUM, ANALYZE, REINDEX), backup
files, and whole databases (restore). This directory models what the program does
to the world and what it claims about it: the commands that change something, where
an interleaving, a failing call or a crash can do damage, and the commands that
only look, whose answers are put together from several reads of a server that does
not stand still.

Paths below are relative to `src/src/pydbadminkit/` unless they start with `docs/`.

## 1. Inventory

The program is hexagonal: `cli/` parses a command and asks for consent,
`bootstrap.py` wires an application service, `application/` plans, guards and
audits, `ports/` are protocols, `adapters/postgresql/` and `infrastructure/` talk
to the server, to native tools, to files. A command is one short process: it opens
one autocommit connection per statement and keeps no state in memory between
commands. What survives a command, and what several commands share, is outside:
the server, the backup directory, the audit file, the configuration file.

| Component | State it touches | Operations | Hard behaviours | What makes it correct | Module |
|---|---|---|---|---|---|
| Backup file store (`infrastructure/backup_files.py`) | four names beside the output path: artifact, sidecar, and a `.partial` of each; two `.rollback.<token>` names per forced run | prepare, secure, inspect, sha256, finalize, replace with rollback, cleanup, load | no lock: other runs act between any two calls; each call may fail; the process may die | a visible pair is a complete dump and its own description; a reported backup is not lost; one winner; no temporaries left | `BackupFileStore`, `BackupSlot` |
| Backup adapter (`adapters/postgresql/backup.py`) | - | create_backup, validate_backup | pg_dump times out, fails, or outlives its parent | the above; cleanup after every error | `BackupFileStore` |
| Process runner (`infrastructure/process.py`), tools (`infrastructure/tools.py`), capabilities (`adapters/postgresql/capabilities.py`) | the child, its pipes, PATH | run, terminate then kill, resolve, list capabilities | timeout against a late exit, Ctrl-C once and twice, descendants that hold the pipes, a child deaf to SIGTERM | no child left behind; a result is the child's own; a run with a timeout ends | `ChildProcess` |
| Five mutation services (`application/security/mutations.py`, `application/runtime/mutations.py`, `application/operations/{maintenance,backup,restore}.py`) | the audit trail of one correlation id, the target | plan, policy, approval, execute, audit | the adapter fails after the server acted; the audit file fails before or after; the process dies in between | consent matches the risk where the command runs; policy holds; dry run is inert; the trail tells what happened | `GuardedMutation`, `AuditTrail` |
| CLI consent (`cli/safety.py`, `cli/context.py`, `cli/commands/`) | root options | mutation_options | precedence of `--dry-run`, `--yes`, `--non-interactive`, `--confirm-target`, prompts; interrupted prompts | `--yes` never replaces a typed target | `GuardedMutation` |
| Audit sink (`infrastructure/audit/jsonl.py`) | append-only JSON lines | write | unwritable file | nothing runs unrecorded | `GuardedMutation` |
| Restore adapters (`adapters/postgresql/restore.py`, `restore_database.py`) | the target database | validate, create, run pg_restore or psql, verify | target appears or disappears between checks; failure after creation; archive replaced after validation | no implicit overwrite; success means restored and verified | `RestoreLifecycle` |
| Signals (`adapters/postgresql/runtime.py`, `queries/runtime.py`, the tests in `application/runtime/mutations.py`) | server backends | cancel, terminate | the backend changes or its pid is reused between look and signal; another operator signals ours | never signals itself; what is audited tells whether a signal was sent | `RuntimeSignal` |
| Blocking chain (`queries/runtime.py`, LIST_BLOCKING) | the waits-for graph | one recursive query | cycles, shared blockers, prepared transactions, a lock table that changes meanwhile | it ends, chains are simple, no blocker is lost | `BlockingChain` |
| Maintenance adapter (`adapters/postgresql/maintenance.py`) | relations, locks, session timeouts | validate, vacuum, analyze, reindex, progress | the relation changes between preflight and execution; an unqualified name is checked in `public` and resolved by `search_path`; rounding of timeouts; one sqlstate for two causes | what was checked is what is processed; timeouts end commands and are told apart | `Maintenance` |
| Health and monitoring (`application/monitoring/`, `domain/monitoring/`, exporters) | none | six checks, aggregate, snapshot, export | checks are not one snapshot; one fails while others succeed; thresholds at their boundary | every status was true at some moment; a critical measure is not hidden | `HealthSuite` |
| Roles and access (`adapters/postgresql/security.py`, `queries/{security,access,effective_access,ownership}.py`) | roles, memberships, owners, access lists | seven statements, six listings | other administrators act in between; NULL lists; privileges the tool does not know; grant options; inheritance | what the server allows is explained; a success shows | `RoleAccess` |
| Profiles, connections, catalog and server inspection, exit codes (`infrastructure/config/`, `adapters/postgresql/{connection,executor,errors,catalog,server}.py`, `cli/errors.py`) | the TOML file and the catalog, read | resolve, connect, describe, list, test, execute | a description takes two or three connections while relations change; silent hosts; lost replies; order of tests over an error hierarchy | a description is of something that was there; the exit code tells the cause; a statement is sent once; every command ends | `Inspection` |
| Rendering, serialization, bootstrap, notebooks | none | formatting, wiring | - | - | none |

`PROJECT.json` repeats the list with the status of every component, and lists the
hazards at the lines where they bite.

## 2. Modules

| Module | What it is |
|---|---|
| `BackupFileStore` | `backup create` runs against one destination, one action per file-system call |
| `BackupSlot` | the abstract promise of a destination path, implemented by runs that follow one another |
| `BackupFileStoreProofs` | theorems about `BackupFileStore` |
| `GuardedMutation` | one mutation through the pipeline shared by the five services |
| `AuditTrail` | the abstract audit lifecycle, implemented by `GuardedMutation` |
| `GuardedMutationProofs` | theorems about `GuardedMutation` |
| `RestoreLifecycle` | `backup restore` runs against one target database and one archive path |
| `RestoreLifecycleProofs` | theorems about `RestoreLifecycle` |
| `RuntimeSignal`, `RuntimeSignalProofs` | `query cancel` and `session terminate` against a live server; theorems |
| `BlockingChain` | the recursive query of `session blocking`, row by row |
| `Maintenance` | one VACUUM, ANALYZE or REINDEX, from its check to its end |
| `HealthSuite` | `health check`, and the snapshot with its export, over sessions that move |
| `OperationsProofs` | theorems about `Maintenance` and `HealthSuite` |
| `RoleAccess`, `RoleAccessProofs` | roles, memberships, access lists, and the listings of them; theorems |
| `Inspection`, `ReadingProofs` | one reading command or statement, from the profile file to the exit code; the theorems about it and about `BlockingChain` |
| `ChildProcess`, `ChildProcessProofs` | the child process runner under timeouts and Ctrl-C; theorems |
| `MCBackupFileStore`, `MCGuardedMutation`, `MCRestoreLifecycle`, `MCMaintenance`, `MCHealth`, `MCRoleAccess` | values of constants and symmetry for TLC |
| `MCServer`, `MCOperations`, `MCInspection` | two or three independent components side by side |

The last three put modules that share no state into one specification: a variable
`part` says which of them a behaviour is about, and the others stay in an ended
state. What is checked of each component is what its own specification (`Spec`,
`ChainSpec`, `MaintenanceSpec`, ...) would show; the theorems are about those.

`GuardedMutation` sees the adapter as one action that succeeds, fails with or
without an effect, or (runtime only) is declined; for backup.create,
`BackupFileStore` is the inside of that action: its `succeeded` is `Act`, its
`failed` is `ActFails`, its `crashed` is `Crash`. In the same way `RestoreLifecycle`
is the inside for restore, `RuntimeSignal` for the runtime commands (its endings
`blocked`, `not_found` and `not_delivered` are `ActDenied`), `Maintenance` for
maintenance and `RoleAccess` for security. `ChildProcess` is what the steps of the
native tools in `BackupFileStore` and `RestoreLifecycle` are made of, and `Inspection`
what a connection and its errors are made of everywhere.

### BackupFileStore

State and code:

| Variable | In the code |
|---|---|
| `pc[a]` | where run `a` is in `create_backup`, `finalize`, `_replace_with_rollback` or a handler |
| `dir` | the shared names `final`, `meta`, `tmp` (`<final>.partial`), `metaTmp` |
| `artRollback[a]`, `metaRollback[a]` | the `.rollback.<token>` names of run `a`; tokens are uuid4, hence private |
| `dump[f]` | content of artifact file `f`: whose pg_dump opened it last, whether complete, who else wrote into it |
| `child[a]` | the file the pg_dump of `a` holds open |
| `described[a]` | the content whose size and SHA-256 are in the sidecar file of `a` |

A file is not a name. `os.link` gives a second name to the same file and
`os.replace` moves a name, so a pg_dump that still has the file open changes what
a published name shows. That is why names hold file identities here.

Actions follow the code in order: `CheckDestination`, `CheckTemporaries`
(prepare); `ToolCheckFails`, `DumpOpens`, `DumpEnds`, `DumpFails` (pg_dump);
`Describe`, `WriteMetadata` and their failures; `LinkArtifact`, `LinkMetadata`,
`WithdrawArtifact`, `RemoveTemporary`, `RemoveMetadataTemporary` (finalize);
`SeeArtifact`, `MoveArtifactAside`, `SeeMetadata`, `MoveMetadataAside`,
`PutArtifact`, `PutMetadata`, `ReplaceFails`, `DiscardRollback` (replace);
`RollbackUnlinkFinal` ... `RestoreMetadata`, `RollbackFails` (its handler);
`CleanupTemporary`, `CleanupMetadataTemporary`; `Crash`; and
`RemoveStaleTemporaries`, the operator's remedy.

Constants: `Attempt` the runs, `Forced` those with `--force`, `Overlap` whether
runs may overlap, `Failable` the calls that may raise an OSError of their own
(a missing or existing entry raises in any case).

Abstractions:

- `prepare` reads four names in two steps, destination first.
- `os.replace` between two links of one file does nothing, as `rename(2)` says
  (`LeftBehind`).
- A pg_dump writes when it opens the file and when it ends or stops; a write in
  the middle is seen at its end. Within `Describe` the file is looked at once:
  chmod, stat and hashing are one step.
- Size and checksum together stand for the content. With `--no-checksum` only the
  size is compared: a case the model does not distinguish.
- Sidecars are created with `O_EXCL`; a torn one has no description.
- The destination directory exists and is writable; it does not change.

### GuardedMutation

An invocation carries a command (service, operation, the grade the risk tables look
at, the subject the protected-role rules look at), a profile, and either the
command line's context or the options of a Python caller. It goes through
`Plan`; `Resolve`, `PromptForTarget`, `PromptForApproval`, `AbandonPrompt` or
`CallerChooses`; `ReturnPlan` (dry run), `Refuse` or `Admit`; for restore
`Revalidate`; `Start`, `Act`/`ActFails`/`ActDenied`, `Record`, with
`StartUnrecorded` and `RecordFails` when the audit file cannot be written, and
`Crash` anywhere.

| Variable | In the code |
|---|---|
| `plan` | risk and confirmation of the OperationPlan |
| `options` | MutationOptions given to the service |
| `said` | what the operator did express: a yes, a typed target (history) |
| `verdict` | the event `_execute` is about to write |
| `trail` | the events under the plan's correlation id |
| `touched` | the target changed, or the server still will change it |
| `outcome` | result, error class or death, as the caller sees it |

One invocation is enough: invocations share only the audit file, which is opened
with `O_APPEND` and read by nobody here.

Abstractions: `touched` is decided when the adapter returns or fails ("the server
has done it, or still will"); an audit line is written or not, never torn; Ctrl-C
while a native tool runs becomes an ExternalToolError (a failure), elsewhere a
KeyboardInterrupt, which no handler of the services catches (`Crash`); a caller's
plan belongs to its command, as on the command line; the signal statement declines
exactly when Python would (`ResultTellsTheSignal` of `RuntimeSignal`).

### RestoreLifecycle

A restore looks at the world many times, each time by name, and holds nothing in
between. The checks are made twice, for the plan and after its approval
(`SeeArchive`, `LoadSidecar`, `ValidateBackup`, `ValidateRestore`, `Approve`,
`ChecksFail`); then `CreateTarget`/`CreateFails`, `StartTool`, the tool's own steps
(`ToolOpens`, `ToolConnects`, `WorkerOpens`, `ToolSucceeds`, `ToolFails`), `Verify`/`VerifyFails`;
`Crash` anywhere, with a tool that may live on. Around it: `ReplaceArchive`, what
`BackupFileStore` does to the archive path as a reader of its two names sees it;
`OthersCreate` and `OthersDrop`, other clients of the server.

| Variable | In the code |
|---|---|
| `pc[r]`, `executing` | where run `r` is; whether it has passed its plan and the approval |
| `artifact`, `sidecar` | what the archive path and its sidecar hold |
| `backup[r]` | the Backup that load_backup returned |
| `database` | the target: creator, writers, whether tools wrote at once, what was restored whole |
| `tool[r]`, `archive[r]` | the state of pg_restore or psql, and the archives it has opened: with `--jobs` its workers open the path again, by name |

Constants: `Creating`, `Cleaning` and `Parallel` the runs with `--create`, `--clean` and
`--jobs`, `Exclusive` those their operator does not run beside another one, `Droppable`
whether other clients may drop the target during a run (between runs they always
may), `Plain` the backups in plain SQL.

Abstractions: size and checksum stand for the content; version, tool and connection
errors are failures that any check may report; the connections of the workers of
`--jobs` are left out, their reading of the archive is not; policy and audit are in `GuardedMutation`; the statement that a killed
tool had sent ends with it; the schema public is not dropped.

### RuntimeSignal

Several operators each run one command. `Step(i)` is the command's own step: the
connection opens on a backend of its own, the statement looks at
`pg_stat_activity` (one snapshot), the CASE of the statement decides, the signal
goes to whoever holds the pid at that moment, and the row goes back to
`_enforce_signal_result`. Around it `OthersStart`, `OthersEnd`, `OthersQuery` let
backends begin, end, become idle and take over a pid, and `TakeSignal` lets a
backend act on what it was sent, our own included.

| Variable | In the code |
|---|---|
| `backend[pid]`, `born` | the process behind a pid: identity, client or not, active or not, readable by our role or not |
| `pending` | signals sent and not yet taken |
| `at[i]`, `own[i]` | where command `i` is; the backend its statement runs on |
| `seen[i]`, `row[i]` | the row of the target in its snapshot; the `BackendSignalResult` it returns |
| `hit[i]` | the backend that was signalled (history) |
| `ending[i]` | what the service records |

Abstractions: a user's right to signal is part of the statement failing; the text of
errors is left out; a role without `pg_read_all_stats` sees NULL, which the statement
coalesces to "no client".

### BlockingChain

The query is unfolded as PostgreSQL evaluates a recursive UNION: `StartChain` for
each admitted session, then `ExtendChain` on the rows not yet extended, shallowest
first. `pg_blocking_pids` is volatile, so `LockTableChanges` may come between any two
calls. A row holds root, blocked, blocker and path, as in the SELECT list.

### Maintenance

| Variable | In the code |
|---|---|
| `catalog`, `created`, `moved`, `held` | what the name denotes in each schema; whether it changed since the check; whether others hold a conflicting lock |
| `stage`, `checked` | where the adapter is; what `_validate_target` found, on a connection of its own |
| `session` | `statement_timeout` and `lock_timeout` as the server rounds them to milliseconds |
| `processed`, `leftover`, `cause` | what the statement worked on; an invalid index left by REINDEX CONCURRENTLY; what stopped it |
| `result`, `progress` | how it ended; the last row of the progress view |

The check is made twice, when the command is planned and when it is executed. The
three operations share one set of actions and differ where the code does (kind
expected, CONCURRENTLY, whole database). Progress is read by another process, so its
counts may exceed their total. Abstractions: one name per schema; options that do not
change control (VERBOSE, FULL, parallel workers) are left out; timeouts are counted in
tenths of a millisecond, and the longest one the server takes is a constant. `f"{seconds:g}s"`
keeps six significant digits (`Coarsens`, `Written`), which the server rounds to
milliseconds; before PostgreSQL 12 it reads neither a fraction nor an exponent
(`Legible`). `Wordings` is what `_is_timeout_error` searches: the message, and the CONTEXT
line of a statement at work, which names the relation (`namesake`: whether that name
contains the word).

### HealthSuite

Six checks in the order of the suite (`Suite`), each on connections of its own, and
before every read the sessions may change (`SessionMoves`). A check may fail to
connect, have its connection break, or find no slot left; `EndCheck` records what the
runner makes of it. A snapshot reads its metrics on two connections more and exports
them through the cardinality policy. `was` (history) holds, for each check, every
value it could have measured since the command began: the reference
`EveryStatusWasTrue` compares with. Ages stand still between moves: a session that
grows older is one that moves.

### RoleAccess

The seven statements of the security adapter (create, alter, drop, add, remove,
grant, revoke) and its six listings. What a statement does is PostgreSQL's and is
marked external in the map: membership cycles, ADMIN options, grantors chosen among
the owners and holders of grant options, cascading REVOKE, a NULL access list until
the first GRANT, refusal to drop a role that is still named. The listings are
translated from the SQL. `OthersAct` lets another administrator do the same things,
and grant to PUBLIC. The direct listing ends with InternalError when one of
its rows has a privilege `AccessType` does not know (`DirectFails`, `ListDirect`; `Newer`
holds such privileges, which only other administrators grant). `reply` is the last
command with its outcome, until something changes; `DescribeRole` and `DescribeMemberships` are two actions because they are
two statements.

### Inspection

A command goes through `ParseArguments`, `Resolve` (the file, every profile in it, the
secret), and then for every read of its own: connect (with the deadline of the profile),
execute, receive (`Continue`). `Remote` is the server and the network: they answer, refuse, stay silent,
deny, or break, before or after the statement took effect. `OthersChange` creates,
drops, alters and renames relations and takes locks. `parts` is what the reads have
brought back, `borne` (history) every relation the name has denoted meanwhile, `code`
the exit code. `ExitCode` follows the tests of `exit_code_for_error` in their order,
`Classes` the class hierarchy.

"listing" stands for every command of one read without a target. A configuration file
is summed up by the fields that decide: whether the file can be read and decoded, whether
each profile is well formed, its port, its connect timeout, its secret.

### ChildProcess

One job is a sequence of runs, each a probe of a tool (`--version`, ten seconds) or
the work itself. A probe is looked up on PATH first (`ToolIsFound`, `ToolIsMissing`) and
started next (`StartChild`, `StartFails`: the file may be gone by then, or not
executable, which nobody catches). `Starting`, `Communicated`, `Stopping` are the steps of `run` and
`_terminate_process`; `CtrlC` and `CtrlCAgain` the operator; `ChildExits`,
`ChildIsSlain` and `HoldersMove` the child and its descendants. `holders` matters
because `communicate()` returns only when nobody holds the pipes any more.
`returned` records, with every result, whether the child had been signalled and
whether its output was read to the end.

## 3. Runs

Deadlock is not checked in any run: every command ends, and then nothing more happens.

| Run | Question | Bounds | Distinct states | Result |
|---|---|---|---|---|
| `serial` | do successive runs ever show a torn, mixed or foreign pair, or lose a reported backup, and do they implement `BackupSlot`? | 3 runs, forced and not, crashes, links and replacements failing | 20,520 | holds |
| `racing` | overlapping unforced runs: one winner, nothing published is disturbed? | 3 runs | 960,548 | holds |
| `mixed` | are temporaries cleaned up, whatever overlaps? | 3 runs, one of them forced, links, moves and rollback failing | 2,762,712 | holds |
| `guarded` | consent, dry run, policy, audit; is an opened lifecycle closed? | every command, profile, context, caller options | 162,140 | holds |
| `restore` | is anything overwritten without `--clean`, and does success mean restored? | 2 overlapping `--create` runs, a `--clean` run, one of each kind with `--jobs`, 2 backups, nobody drops the target during a run | 1,332,954 | holds |
| `server` | do the two copies of the signal guard agree, is nobody signalled who must not be, do terminated sessions end? is the blocking chain exact on a still lock table, simple on a moving one, and finite? | 2 commands, 2 pids, 3 backends; 3 sessions and a prepared transaction, every waits-for graph, 1 change | 542,819 | holds |
| `operations` | is what was checked what is processed, are timeouts told apart and effective? was every reported status true, is a critical one hidden, is an all-clear earned, is an export whole? | 2 schemas, 3 relations, 5 pairs of timeouts; 2 clients of 4 kinds, 3 slots, 3 threshold configurations, 2 moves, 1 failure | 1,552,898 | holds |
| `inspection` | exit codes, descriptions, one delivery, liveness; listings of roles and access; child processes, their results and the capabilities they answer for | 2 changes of the catalog, 15 commands and 11 files; 4 roles, 1 table, a privilege the tool does not know, 4 accepted statements; 3 jobs, 2 Ctrl-C, 2 moves of tools | 410,582 | holds |
| `v_rollback` | a reported backup survives a failing first rename | 2 runs, the second forced | - | violated |
| `v_maintenance` | the relation that was checked is the one that is processed | as `operations` | - | violated |
| `v_health_isolation` | no failure of a check escapes the runner | as `operations` | - | violated |
| `v_effective` | the effective listing always has an answer | as `inspection` | - | violated |

`BackupSlot` and `AuditTrail` have no run of their own: they are what `serial` and
`guarded` check the detailed modules against. A failing move of the old pair is
exercised in `mixed`; that it never makes the published pair unsound is the theorem
`PairIsSound`, that it loses the backup is `v_rollback`.

What the properties say, briefly:

- `serial`: `PublishedPairIsSound`, `BackupSurvives`, and every step is a step of the
  slot (`ImplementsSlot`).
- `guarded`: `ConsentIsGenuine`, `DryRunIsInert`, `PolicyIsRespected`,
  `ResultsAreOnRecord`, `ImplementsTrail`, `StartedIsClosed`.
- `server`: `ResultTellsTheSignal` (the audited result says whether a signal was
  sent), `SignalIsAdmissible` (never one's own backend; a non-client only if it took
  the pid after the look), `TerminatedSessionsEnd`;
  `ChainsAreSimple`, `NoBlockerIsLost`, `ChainEnds`.
- `operations`: `SuccessMeansProcessed`, `TimeoutsAreToldApart`,
  `BoundedCommandsEnd` (a timeout above half a millisecond ends the command although
  nobody releases the lock); `EveryStatusWasTrue`, `CriticalIsNotHidden`,
  `AllClearIsEarned`, `ExportIsWhole`.
- `inspection`: `ExitCodeTellsTheCause`, `DescriptionIsWitnessed`,
  `QuietDescriptionIsWhole`, `StatementIsSentOnce`, `EveryInspectionEnds`;
  `EffectiveIsExplained`, `WhatSucceededIsListed`; `NoChildIsLeft`,
  `ResultsAreTheChildsOwn`, `AvailabilityIsEarned`, `TimedJobsEnd`.

Why the bounds are enough. Backup runs interact only through four names; two runs give
every pair of conflicting calls, and the third is a run that comes after a failure. For
successive runs, and for overlapping unforced ones, the theorems cover every number of
runs. In `restore` two creating runs compete for one name and the cleaning run finds
what either has left; the two backups are the one that was validated and the one that
replaced it, and a parallel run may read both. `guarded` ranges over all values of its constants. For a signal, a pid
needs a victim, a successor, and our own backend: three backends and two pids make
every exchange, and two commands can hit one another. Three sessions hold every shape of
short cycle, shared blocker and chain; one change of the lock table falls between any
two calls. A maintenance command names one relation, which one drop and one creation
replace; two schemas separate `public` from the head of the `search_path`. Two clients
on three slots (the third is ours) reach every boundary of a threshold configuration and the
exhaustion of the server; two moves fall on either side of any read. Inspection reads at
most three times; two changes of the catalog replace what was described and rename it
back. For access, us, another role, a superuser and a predefined role over one table make
owner, direct, inherited, PUBLIC and superuser sources; four statements build the longest
chain that matters (create, member, grant, revoke). A job has at most three runs.

### What the violations say

Details and quoted documentation are in `PROJECT.json`, "findings".

- `v_rollback`: the handler of `_replace_with_rollback` unlinks `final` and its
  sidecar without asking whether they are the new ones. If the first rename fails,
  they are the old backup. Overwriting with `--force` can then delete the only good
  copy while reporting failure.
- `v_maintenance`: an unqualified target is looked up in `public`; the statement leaves
  it to the `search_path`. With a schema in front of `public`, another relation of that
  name is rebuilt.
- `v_health_isolation`: the probe of the connectivity check runs outside the translation
  of driver errors; a connection that breaks under it goes through the runner as a
  psycopg error and there is no report.
- `v_effective`: SELECT held through `pg_read_all_data` is affirmed by
  `has_table_privilege` and explained by none of the source columns; the domain object
  refuses a row without sources and the whole listing fails with InternalError.

### Stated, and known not to hold

Four definitions state what one may expect of the code and does not get. No run
includes them; TLC refutes each with the constants given.

| Definition | TLC refutes it with | Why |
|---|---|---|
| `BackupFileStore!FinalizationIsAtomic` | one run | two links cannot be atomic together: a crash between them leaves an artifact that blocks later runs and cannot be loaded |
| `BackupFileStore!FailureIsTruthful` | `Attempt = {a1, a2}`, `Forced = {}`, `Overlap = TRUE` | the last two `unlink` calls raise if another run has removed the name, after the backup was published: the audit file says FAILED |
| `BackupFileStore!DestinationIsNotLeftBare` | three overlapping runs, one forced, links failing | a withdrawal by name removes what a forced run has just put there |
| `GuardedMutation!RejectionsAreOnRecord` | the constants of `guarded` | the second validation of a restore is outside the blocks that audit |

With two overlapping runs `PublishedPairIsSound` fails as well: the `.partial` name is
tested and not reserved, so both may pass, share one file, and one publishes it while
the other is still writing. That is why `serial` and the theorem `PairIsSound` are about
runs that follow one another. Overlapping runs against one destination need two
processes with the same output path (a retried cron job that overlaps its predecessor);
the code shows the intent to handle them ("Backup destination changed while the
operation was running").

One definition is part of no run and is a theorem instead: `DescriptionsAgree`
(`RoleAccess`). So are the type invariants of the modules that state one; of these a run
includes that of `BackupFileStore`.

### Behaviours the models have, which an operator should know

They contradict no document, and the properties are stated so as to allow them.

- A client that takes over a pid after the look is signalled in place of the one that
  was meant; no statement can exclude it.
- VACUUM and ANALYZE of a relation the role does not own are skipped with a warning and
  reported as SUCCEEDED; so is a GRANT by someone without a grant option.
- Timeouts are recognised by a word, looked for in the whole text of the error. With
  another `lc_messages` than English they are plain failures; and a statement an operator
  cancels while it works on a relation whose name contains the word
  (`session_timeouts`) is reported as timed out, because the CONTEXT line names it.
  A timeout below half a millisecond is none. `translate_connection_error` searches in
  the same way, so a failed connection to a host or database of such a name is reported
  as a timeout.
- With `--jobs`, pg_restore's workers open the archive again by name: when it is replaced
  meanwhile, parts of two archives may be restored.
- One relation with a privilege `AccessType` does not know (MAINTAIN of PostgreSQL 17)
  ends the whole direct listing of its grantee with InternalError.
- Built-in roles are protected from CREATE, ALTER and DROP ROLE only: memberships and
  privileges of `pg_...` roles may be granted and revoked.
- A profile file that cannot be read or decoded, and a tool that is gone between the look
  on PATH and its start, end the command with the raw exception.
- REINDEX CONCURRENTLY that is stopped leaves an invalid index.
- `root_blockers` of the lock check counts every blocker of a chain, the intermediate
  ones included.
- Rows hidden from the role understate activity; connection usage counts the check's own
  connection; one database without CONNECT for the role ends a snapshot.
- One invalid profile in the configuration file ends every command, also those that ask
  for another profile. The statement and lock timeouts of a profile are not applied, so a
  listing may wait behind ACCESS EXCLUSIVE for as long as it is held.
- When the connection is lost after a statement took effect, the exit code is 1 although
  it was carried out: only codes other than 0 and 1 exclude it.
- A second Ctrl-C, while a child is being stopped, leaves it running; after a kill the
  last `communicate()` has no deadline and waits for descendants that hold the pipes.

### Fairness

`GuardedMutation!FairSpec`: weak fairness of the step of the invocation: prompts
are answered or interrupted and the adapter returns. A crash may still come
instead, which is why `StartedIsClosed` allows it.

`RuntimeSignal!Fairness`: weak fairness of a live backend taking the signals it was sent.
Commands and the backends of others may do nothing for ever.

`MCServer` and `BlockingChain!FairChainSpec`: weak fairness of `Unfold`: the server goes on
with a query. The lock table changes at most `MaxChanges` times in a run.

`Maintenance!MaintenanceFairness`: weak fairness of the program's steps and of the
server's: it begins a statement nobody keeps waiting, completes it, and lets its timers
run out. Nobody has to consent to a plan nor to release a lock, so without a timeout a
command may wait for ever.

`Inspection!InspectionFairness`: weak fairness of the command, of libpq's timer, of the
execution of a statement and of the end of a transaction that holds the lock; strong
fairness of the server answering once it can, because others may take the lock again and
again and a waiter in the lock queue is not passed over. A host need never answer.

`ChildProcess!ProcessFairness`: weak fairness of the runner's steps and timers, of the
death of a killed child and of descendants letting go of the pipes of a dead one. That a
child exits of itself is not assumed.

`BackupFileStore`, `RestoreLifecycle`, `HealthSuite` and `RoleAccess` have safety
properties only: their commands are straight-line, and that they end says nothing.

## 4. Proofs

`BackupFileStoreProofs`, from `AttemptAssumption` (forced runs are runs, `None` is
neither a run nor a content):

- `TypeCorrect`. `TypeOK` alone is not inductive: a pg_dump writes to a file whose
  content must exist. `OpenFilesExist` is added.
- `NeverTouched`, `OneSuccess`, for `Forced = {}` and any overlap. `RaceInv`: a run
  holds the destination from the link of its artifact until it withdraws it; at
  most one run holds it; while the holder has not linked its sidecar there is none,
  so an artifact that is withdrawn never has one. `os.link`, which refuses an
  existing name, is the whole argument.
- `PairIsSound`, for `Overlap = FALSE` and everything failing. `SerialInv`: one run
  is active; files are written only by their own run's pg_dump; a kept artifact is
  complete and a kept sidecar describes its own run's artifact; artifact and
  sidecar match in every place they can be; and what each location knows of the
  four names and of the rollback names.
- `ReportedBackupSurvives`, additionally assuming that the two moves that set the
  old pair aside do not fail (`MovesDoNotFail`); `v_rollback` shows the hypothesis
  is needed. `SurvivalInv` adds that a run's sidecar is nowhere before the run
  publishes it, and that what the rollback handler unlinks is its own.
- `TemporariesRemoved` (`TemporariesAreCleanedUp`), for any runs and any overlap, when
  the unlinks do not fail. `CleanInv`: while a temporary name exists, some run is at a
  location from which it still removes it, or was killed. A rename between two links of
  one file leaves its old name behind (`LeftBehind`), and then the run that renames will not
  remove it; `LinkInv` says that a file which is both temporary and kept was linked by
  another run, which has yet to remove that name or was killed.
- `SlotImplemented` (`ImplementsSlot`), for `Overlap = FALSE` and
  `OnlyStagingFails`: of the calls, those that give the staged pair its names may fail,
  as in `serial`, and runs may be killed anywhere. The refinement mapping chooses among
  all runs what is shown, set aside and kept; `KeptExactly` and `AsideExactly` read
  these off the directory and the one active run. `SlotInv` adds to `SerialInv` and
  `SurvivalInv` that only forced runs replace and that a run that fails has left no
  sidecar. The hypothesis on the calls is needed: a run whose last unlink is refused
  reports a failure although its backup is shown, and a refused move loses the old one
  (`v_rollback`).

`GuardedMutationProofs`, from the four assumptions that the constants contain
commands, profiles, contexts and options:

- `TypeCorrect`, `ConsentHolds`, `DryRunHolds`, `PolicyHolds`, `ResultsHold` and
  `TrailImplemented` (the refinement of `AuditTrail`, step by step). `IInv` says
  what each stage has established: the plan is the plan of the command where it
  runs, the options agree with what the operator said, an admitted invocation
  passed policy and approval, and the trail and the verdict agree with the stage.
  It is needed because every property speaks of the end of the pipeline while the
  facts are established at its beginning.

`RestoreLifecycleProofs`, from `RestoreAssumption` and `NoneIsNoDatabase`:

- `TypeCorrect`; a connected tool has a database, because DROP DATABASE is refused
  meanwhile.
- `NothingOverwritten` (`NoImplicitOverwrite`), assuming `~ Droppable`: any number
  of restores, overlapping as they like, with and without `--clean`. `Owned`: from
  its CREATE DATABASE on, a creating run's target is the one it created, because
  the server refuses an existing name whatever the check saw before.
- `SuccessRestored` (`SuccessMeansRestored`), assuming `~ Droppable` and that no
  `--clean` run is made beside another one (`Cleaning \subseteq Exclusive`): creating
  runs may overlap, at most one of them is past its CREATE DATABASE, and a cleaning run
  is alone (`ExclusiveAlone`); so a tool writes alone and nothing writes between its end
  and the verification. These are the conditions of `restore`. What is whole is what the
  tool has opened (`Whole`): one archive, unless `--jobs` was given.

`RuntimeSignalProofs`, for any commands, pids and backends:

- `TypeCorrect`, `OutcomeTells` (`ResultTellsTheSignal`), `Admissible`
  (`SignalIsAdmissible`). `ServerInv` says who holds a pid: identities are not reused
  (`Distinct`) and what a command remembers of a backend stays true of it while it is
  there (`Remembered`). `SignalInv` says what the row means (`Answered`) and what was
  made of it (`Told`): the case the statement took is the one the service finds.

`ReadingProofs`, for any labels, requests, files and versions, with the assumption that
`Absent` is not a part of a description:

- `ExitCodeTells`, `SentOnce`, `DescriptionWitnessed`, `QuietWhole`. `ExitCodes`
  computes the code of every error from the order of the tests. `ReadingInv` says how
  many parts there are at each stage and how often the statement was carried out
  (`Reached`), that what was read bore the name (`Witnessed`) and, while the name has
  denoted one relation only, that it is read as it is (`Quiet`); from the first snapshot
  on what the name denotes is among what it has denoted, which is what carries a row
  from one connection to the next. `Justified` is what an exit code owes to its cause.
- `InspectionTyped`. `Bounded`: a relation is no older than the changes others have made,
  and a connection is opened for each part read and for the one being read, which bounds
  the connections by the reads of the command.
- `ChainsSimple`, about `BlockingChain`. `ChainInv`: every row is a simple path from its
  root, and no session waits for itself; the first row needs the second fact, the
  others are guarded by the path. `ChainsShort`, for finitely many sessions: a path that
  visits nothing twice is an injection into the pids, so no chain is longer than all
  sessions and one prepared transaction, however the lock table changes.
- `NoneLost` (`NoBlockerIsLost`), for any waits-for graph. What a session waits for,
  directly or through others, is the least closed set that holds its blockers
  (`Reachable`). `StillInv`, while the lock table has not changed: rows are edges, and
  what they show is reachable; what is shown for a root holds its own blockers and those
  of every row already extended, but for the root itself: what else the path bars is
  shown already. When no row is left to extend, the set is closed, and so it is the
  least one.

`OperationsProofs`, for any schemas, `search_path` and commands, and for any number of
clients, moves and failures, with the assumptions named in the two modules (among them
finitely many clients, at least one database, thresholds that are numbers or absent):

- `SuccessProcessed`, `TimeoutsTold`. `Underway` says what holds between the check and
  the end: as long as nobody touched the catalog, a qualified name still denotes what was
  found (`Found`); what an operator cancelled is told as a timeout only if the statement
  was at work on something whose name contains the word. `MaintenanceTyped`.
- `StatusesTrue` (`EveryStatusWasTrue`), `CriticalShown` (`CriticalIsNotHidden`),
  `ClearEarned` (`AllClearIsEarned`). `SuiteInv`: what a check would measure now is among
  the values it could have measured, from the first step to the end of the command; so a
  status is true of some moment when its check is run, and stays so because that history
  only grows (`Backed`, `Sound`). `Progress` ties the number of results to the phase, so
  that each check has one result and the suite its order. For waiting_locks, which counts
  the union of two reads, the status is that of a count no lower than one that was true,
  and a higher count is never milder (`StatusMonotone`).
- `HealthTyped`, `ExportWhole` (`ExportIsWhole`). `Gathered` says which metrics a
  snapshot has at each phase and that an exporter is given nothing before the end;
  `MetricLabels`, that the default policy admits every label of the registry.
  `MeasuredNatural`: a measure is a count, a percentage or the greatest of finitely many
  ages.

`RoleAccessProofs`: `Explained` (`EffectiveIsExplained`). `Attributed`: objects and entries name roles that exist; DROP ROLE
is refused while an entry names the role and GRANT records a grantor that owns or holds
the grant option. Why a privilege has a source is then a fact about the two
definitions, `HasTablePrivilege` and `Sources`, alone. `SuccessListed`
(`WhatSucceededIsListed`), one lemma per statement, and a reply is forgotten with the next
change; it assumes `NullIsNoList`, that the value that stands for a NULL access list is
none of the lists, because a GRANT could otherwise write what reads as no list at all.
(TLC cannot evaluate that as an assumption; in the run NULL is a model value.)
`DescriptionsHold` (`DescriptionsAgree`), for which no role may be a member of itself
(`NoSelf`), which the refusal of membership cycles gives. `RoleTyped`: two roles have one
membership at most (`OneEach`).

`ChildProcessProofs`: `ProcessTyped`, `NoChildLeft`, `ResultsOwn`, for every job.
`ProcessInv`: a child that runs is watched by a stage that will stop it, and nobody has
signalled it before there was a reason. `AvailabilityEarned` (`AvailabilityIsEarned`),
from `QueryAssumption`, that a capability query resolves each tool once, as
`list_capabilities` does: `Consistent` says that a tool found missing belongs to a run
already made, so no later probe finds it.

The proofs rest on the named assumptions on constants in the modules and on nothing else.

Every safety property of the passing runs is a theorem, some under the hypotheses named
above, which hold in the runs that check them. Only model-checked: liveness
(`StartedIsClosed`, `TerminatedSessionsEnd`, `ChainEnds`, `BoundedCommandsEnd`, `EveryInspectionEnds`, `TimedJobsEnd`), since fairness
and ENABLED are out of the prover's reach.

Where a definition of the models needs the least set with a property (`Reachable`, and
the roles above a role in `AddMembership`), it is stated as such and not by recursion:
what a recursive definition computes is proved by induction, and the induction theorems
of the library take an operator, which the provers cannot instantiate. Least and greatest
elements are within reach (`LeastOf`, `GreatestOf`): the well-foundedness of the natural
numbers and of the subsets of a finite set is about sets alone.

## 5. Not modelled, and the plan

Not modelled for good: rendering and serialization (`output/`), constructor wiring
(`bootstrap.py`), notebooks and example scripts. They format or wire what is already
there and keep no state.

Left out of modelled components: the comparison of tool and server version numbers (a
failure a check may report), argument building and the connections of the workers of
`--jobs`, a torn audit line, TLS modes
and labels of profiles, capabilities that are constants of a table, and listings of one
statement beyond the one kind of request that stands for them all.

Next, in this order:

1. Restore, continued: the archive that is reported against the one that was
   restored when it is replaced after validation, overlapping `--clean` runs, drops
   during a run, and an abstract target that `RestoreLifecycle` implements.
2. `validate_backup` alone against a forced replacement, as a reader of two names.
3. Version compatibility of the tools, with its boundaries.
4. Proofs: the refinement of `BackupSlot` when an unlink is refused, for which the slot
   must allow a failure that leaves the new backup shown.
