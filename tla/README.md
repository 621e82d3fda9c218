# hubfly-tool-manager in TLA+

Specifications of `hubfly-tool-manager` (the Go program under `src/`), the TLC
runs that check them on small instances, and proofs, checked by TLAPS, of what
matters most for every instance.

Contents: 1 the system, 2 the modules, 3 the runs, 4 disagreements between code
and documents, 5 the proofs, 6 fairness, 7 assumptions and what is left out,
8 the plan.

## 1. The system

The manager is one Go process, started by systemd (`Restart=always`). Its HTTP
API installs *tools* (a binary downloaded from a URL) into `ToolsDir/<slug>/`,
runs them under PM2, keeps their rows in SQLite, backs them up before replacing
them, and can replace its own installation. Every request is a goroutine; PM2,
the installed tools, the `htm` command and the installer are other processes
that touch the same files.

| component | source | state | operations |
|---|---|---|---|
| tool life cycle | `internal/tool/manager.go` | `Manager.mu`, tool folders, `<binary>.download.tmp`, backup folders | register, cleanup, provision, update, configure, rollback (under `mu`); start, stop, restart, status, list (not under it); boot reconciliation |
| self-update | `manager.go:577-749` | the installation, the stage and the preserve directory | download, preserve, wipe, install, restore, restart |
| archive extraction | `manager.go:1110-1157, 1551-1687` | the tool folder | tar.gz and zip, choice of the executable |
| release suggestion | `manager.go:346-352, 1159-1307` (GitHub helpers) | none | read-only queries |
| store | `internal/db/sqlite.go` | tables `tools`, `tool_versions` | create, read, update, delete; version records |
| PM2 client | `internal/pm2/client.go` | PM2's process list | status, start-or-reload, stop, delete, wait, save |
| lockdown | `httpapi/server.go:91-310`, `auth.go` | `.lockdown.json`, `authMu` | check, record an attempt, clear |
| sessions | `httpapi/auth.go`, `server.go` | the map of sessions, `sessionsMu`, `.session-secret` | login, logout, expiry, cleanup loop |
| routes | `httpapi/server.go` | none of their own | decode, call the manager, answer |
| logs | `internal/logs/manager.go` | log files and archives of each tool, `mu` | ensure, append, rotate, search, clean, summarise |
| `htm` | `cmd/htm/main.go` | the token file, `.lockdown.json` | init, unlock, API clients |
| server start | `cmd/server/main.go`, `env.go` | directories | order of the start |
| installer, unit file | `scripts/install.sh`, `packaging/` | the installation | stop, preserve, remove, install, restore, start |
| web page | `httpapi/web/index.html` | in the browser | timers, rendering |
| runner, logging, types | `internal/app`, `logx`, `version`, `model` | none | - |
| release workflow | `.github/workflows` | none | build |

**How they interact, and what is hard about it.**

* *Life cycle, store, PM2, disk.* An operation is a sequence of calls to three
  stores that fail one by one and have no common transaction. Only some
  operations take `Manager.mu`; `Start`, `Stop`, `Restart` and reads run beside
  them. Reads write: `normalizeToolPaths` stores the row it read back. Two
  downloads of a binary share one temporary name. Correct means: rows, history
  and backups belong together after any failure or crash; an update that
  reports success runs what it downloaded; the backup of an update is the
  binary it replaces; a rollback restores what was selected; a request always
  ends.
  Archives are unpacked over a live folder, and backups and rollbacks copy in
  place, file by file; whatever breaks off, an executable must remain, and a
  rollback must give back what was saved.
* *Self-update and installer.* They move all runtime state out of the
  directory, delete it, fill it and move the state back, while requests (or a
  server that would not stop) make entries anew. Correct means: no state is
  ever nowhere, and the service is started with everything in place.
* *Lockdown.* Handlers serialise with `authMu`, `htm unlock` does not, and all
  write one temporary file. Correct means: no attempt is lost, a lock stays,
  the file parses, a block ends, an unlock unlocks.
* *Sessions.* One request looks the map up three times. Correct means: nothing
  is done for a session that was over, a live one is not deleted, and an
  expired one is.
* *Who is let in.* A request checks for lockdown, reads the token file,
  compares, counts or clears, and is served, in steps of their own, while
  `htm init` replaces the token and others log in, log out and are locked out.
  Correct means: lockdown holds for what arrives in it, and no verdict is about
  a token that was not the installed one.
* *Logs.* PM2 keeps writing to a file that rotation has renamed. Correct means:
  rotation loses only what retention says, never the file in use, and a search
  is complete within its limits.

`PROJECT.json` lists each hazard with its line and the properties aimed at it.

## 2. The modules

A thread (handler, boot thread, script, self-update) is a program counter and
the locals of its operation; every call that reads or writes shared state is a
step of its own. `PROJECT.json`'s map gives the lines of each definition.

**`ToolManager`** (`manager.go`, `sqlite.go`, `client.go`). `db` and `versions`
are the two tables, `files`, `tmp` and `backups` the disk, `pm2` the daemon's
list, `mu` the mutex. A file holds a payload, nothing, a torn payload, or a
thread: the bytes that thread is still writing, so that a rename by one request
of a file another one writes is what it is on a POSIX file system. `Issue`,
`Lock`, `ReadRow` begin a request; `Migrate`, `Migrated`, `Persist` are
`normalizeToolPaths`; `Rewrite` is `ConfigureAndUpdate`'s store; `Ensure` to
`TornCopy` are `ensureBinary`, `downloadBinary` and `materializeBinary`;
`Backup` to `Record` the backups and history; `Halt` to `Save` PM2; `Create`
and `Forget` to `RemoveRow` the ends of register and cleanup; `Reconcile` and
`Serve` the boot; `Fail` every error return that changes nothing; `Pm2Event`
what the PM2 daemon does by itself, which calls every process online that it has
spawned, whatever the binary holds; `Crash` the end of the process. `Trim`
removes the surplus newest first and may stop at any backup of it
(`StoppedTrims`), which is then as it was, or half removed, with or without its
binary, and the one changed last; `TornRemoval` is an `os.RemoveAll` of
`CleanupTool` that leaves anything of the folder or the backups
(`StoppedWipes`). A crash inside a call leaves what the call's error leaves. A
row may name a path in `Outside`, of an older layout or a former `--tools-dir`.
`Work` is the number of steps a thread has left at most, by its label, its backup
and the attempts it has made.

**`UpdateHistory`** extends `ToolManager` with a history variable, `raced`: the
requests a *rival* has overlapped. A rival of an update or rollback is a request
on the same tool that writes its folder, or that is about to start another
executable of it; a start or restart of what the update installs is none. Only
what no rival has overlapped keeps the promises `SnapshotHeld` and
`SuccessInstalls`, with any number of requests; what a rival can do to the others
is in section 4. `raced'` is a function of the step and stands in no guard, so
the variable only watches; that is how `HNext` is written, not a theorem.

**`ToolRegistry`** is what the manager promises about what it keeps, with no
thread, mutex, file or crash: backups and history only of registered tools; the
newest `Keep` backups survive all but the tool's removal and, the last of them,
a backup of the same second; the surplus goes
newest first (`Discard`), and one of it may be left half removed and count as
the newest (`Spoil`); a tool is gone only when nothing of it is left, and a
removal that has lost backups on its way may be given up (`Lose`, `GiveUp`).
`ToolManager` implements it with `rows <- db, snaps <- backups,
hist <- versions` and `leaving <- Leaving`, the tools a cleanup is removing.

**`ToolFolder`** (`manager.go:766-819, 906-1046, 1110-1157, 1551-1783`) has the
files of one folder, which `ToolManager` does not tell apart: the binary, its
configuration (`Order`, in which they are saved), archives, files of the
owner's. `OpenEntry` and `Extract` write an entry `X` to `X.tmp` and rename it,
with whatever others have done to `X.tmp` meanwhile; `Scan`, `Choose`, `Clean`
are the choice of the executable by `Score` and the removal of archives; `Save`
to `Saved` the backup, `Restore` the rollback, `Start` the end of both, with the
trim, which `TrimStops` and `TrimTears` stop half-way. `Start` asks nothing of
the binary, as PM2 does not. `was` remembers what a backup should hold. One
operation runs at a time, as under `Manager.mu`; `Break` ends it anywhere, `Edit`
is the tool, which a backup does not stop, and its owner.

**`SelfUpdate`** (`manager.go:577-749`). `asset` and `sums` say what the
downloads left: nothing, a part, the release's bytes or others; `Retry` and
`Fetch` are their attempts, `Verify` the checksum. `dir` and `preserve` say what
lies at each entry; the loops of the phases visit entries in any order. `Touch` is a
request that makes a missing runtime entry anew, `Boot` systemd's start of the
server, which makes its directories, `Merged` the `copyPath` and `RemoveAll` that
`restoreRuntimeState` falls back to when an entry exists again. `failed` says
whether a call of the last self-update has returned an error.

**`Installer`** (`install.sh`). An entry is the sequence of what lies in it, so
that `mv d d` into an existing directory makes `d/d` as the shell does. Each
run has its own `TMP_DIR`, deleted only at the end of a run that succeeds.

**`Lockdown`** (`server.go`, `auth.go`, `htm unlock`). Names and files are kept
apart: `path` and `tmp` designate inodes, `fd` and `clifd` are open files, and
`data` is what an inode holds. `raced` says whether a save has overlapped a run
of the command: never, an earlier run, or the present one. **`AttemptCounter`**
is the atomic counter it implements until one does: attempts, logins and the
expiry of a block, and the unlock.

**`Sessions`** (`auth.go`, `server.go`). The map, the clock, the cleanup loop
with the time it read, and requests with their three looks.

**`Access`** (`authMiddleware` and its helpers, `handleLogin`, `htm init`,
`htm unlock`) extends `Sessions` and composes it with `AttemptCounter`, the
token file and requests that carry a token. Its steps are `Sessions`' steps with
the lockdown check in its place (`Pass`, `TurnAway`), or leave sessions alone:
`AccessSpec => Spec` is proved. That the counter may be taken for atomic is what
`CounterSpec` of `Lockdown` shows.

**`Logs`** (`internal/logs/manager.go`). Again names and files are apart: `cur`
and `arch` are what the directory shows, `fd` what PM2 has open, `stamp` the
time in an archive's name. A search reads of each file the last `MaxTail` lines,
none of a file with a line in `Long` (`tailLines` returns the scanner's error and
`Search` goes on), and is over with `Limit` results; `hidden` has the lines it
has passed over so.

`MC*` modules give the constants their values; `*_proofs` modules hold the
theorems. Operators introduced with "Defect:" are not part of any specification:
each is a plausible mistake in one definition, used to show that a property
notices it.

## 3. The runs

| run | bounds | what it shows |
|---|---|---|
| `MCAll` | two names of one folder, a direct URL and an archive that does not name the binary, two handlers, two attempts per download, one backup kept, three requests, one crash, every call failing, trims and removals stopping anywhere, two backups in one second | `NoGhosts`, the inductive invariant, `PickedBackupKept`, `BoundedWork`, and that the manager implements the registry |
| `MCLifecycle` | one tool, one direct URL and one archive whose binaries have the same path, two payloads, two handlers, four requests, nothing failing | `SuccessInstalls`, `SnapshotHeld` and the inductive invariant they follow from: locked operations racing unlocked ones, rivals and others |
| `MCLive` | two requests (status, configure, update) and the boot, all faults, a crash, a row that names a binary outside the present `ToolsDir` | `LayoutKept`, `RequestReturns`, `BootCompletes` |
| `MCToolFolder` | eight names, three of them saved, and the `.tmp` beside six of them, one of which the owner writes too; a direct URL and two archives, one with the binary in it, one whose best executable lies deeper beside others and an archive; one backup kept, four backup times, one edit, one break | `NeverLost`, `GivesBack`, `ChosenBest`, `NothingDeleted` |
| `MCSelfUpdate` | two directories, two files, two program files, two runs, a crash, four attempts per download, each phase failing, restore and systemctl too | `StateSurvives`, `BackInPlace`, `UpdateTakesEffect`, `SelfUpdateEnds` |
| `MCInstaller` | two directories, two files, three runs, each command failing, a server that goes on | `NothingDeleted`, `StartsWithState` |
| `MCLockdown` | two handlers, block at 2, lock at 3, two runs of `htm unlock`, one crash, failing saves | `FileWhole`, `Overshoot`, `UnlockWorks`, `BlockEnds`, the atomic counter |
| `MCAccess` | one session, one request with it, two with a token, two tokens, block at 1, lock at 2, one `htm init`, lifetime 1 of 3 ticks, one restart | `LockdownHolds`, `VerdictTimely`, `NotAfterEnd`, `LiveKept`, `Reclaimed` |
| `MCLogs` | boot.log and one log of PM2, two callers, three calls, files of one line, one archive, three lines, one of them too long to be read, two results per search, two lines read per file, one crash | `SearchComplete`, `WriterKept`, `RotationKeeps` |

Why the bounds are enough. Every hazard listed is between two actors and needs
each to be interrupted once: two handlers and a third actor (boot thread, PM2,
the command, the crash) are there in every run, and three requests let two of
them race over what the first left behind. `MCLifecycle` has four: a start that a cleanup and
a new registration have overlapped may still be downloading when an update
begins, and the update backs up a torn binary. With three requests there is none
left for the update, and `SnapshotHeld` holds without its exemption of rivals;
with four it does not. Two names of one folder are the
smallest instance where `UNIQUE(slug)` matters; two payloads tell the old
binary from the new one; two attempts are the smallest retry; retention of one
or two is passed with two or three operations. The lockdown limits are the
smallest where block and lock are distinct; the second run of `htm unlock` is
the one that repairs what the first, racing a save, has torn. A session's life
of one tick is passed before, between and after the looks of a request. Two
clients are one whose attempt locks and one that had passed the check. `MCLive` starts from
the row that every read rewrites, so that the write of a status request meets a
configuration; `MCAll` from a row of the present layout, where no such write
happens. In
`MCToolFolder` one break leaves a torn file and the next operation starts from
it, and with one backup kept the trim drops the last good one if it is wrong;
the second archive sets name against mode, mode against place, and a name that
is no executable's beside them. Logs of one line
rotate at once, and six files are never exhausted. Three installer runs let a
run meet what two interrupted ones left. What holds for all bounds is proved
(section 5) where it is a safety property of the inductive kind. Symmetry
is over handlers, and over inodes where they are model values, and only in runs
with no liveness property.

Deadlock is not checked where the bounds end a behaviour (requests, lines,
runs and time run out); `MCLockdown`, where nothing ends, checks it.

Every property of a passing run is violated when one definition is replaced by
its defect; `PROJECT.json` names the pair.

## 4. Where the code and its documents disagree

Runs that TLC is expected to end with a counterexample:

* `MCTornBinary`, `InstalledWhole`: `Start` and an update download to the same
  `<binary>.download.tmp`; the rename of one activates the file the other is
  still writing, and a torn binary passes `ensureBinary` for ever.
* `MCRuntimeKept`, `RuntimeKept`: an error between wipe and restore returns
  with the runtime state in the preserve directory, which the deferred
  `RemoveAll` deletes.
* `MCStateInPlace`, `StateInPlace`: `install.sh` makes the directories before
  it moves the preserved ones back, so `data` ends up as `data/data`.

Stated in the modules and refuted by TLC while they were written, without a run
kept for each:

* `NothingLeftBehind`: a `Start` that read the row before a cleanup recreates
  the folder and the process after it.
* `ReplacedOnlyWhenSaved`: registering a name in use replaces the live binary
  before the row is refused.
* `BackupsBounded`: only operations that succeed trim, and a trim that stops is
  only logged.
* `PickedBackupKept` without its last disjunct: the backup a rollback takes
  first overwrites the one it was to restore, when both are of one second.
* `SuccessInstalls` without the condition `Installs`: an archive that does not
  name the binary leaves the old one in place and the update reports success.
* `SnapshotHeld` and `SuccessInstalls` of all requests, `raced` or not. A start
  that downloads beside an update (its row was read before, or its binary was
  missing) may be writing the binary the backup is a copy of, take the update's
  temporary file over, or put another payload at the path after the update has.
  If a configuration changes the binary's name, a start with the old row runs
  the old binary after the update has deleted its process.
* `UrlChangedByConfigure` with `InitDb <- OldLayout`: a status request writes back
  the row it read before a configure-update, and the new URL is lost. Rows are
  old after an upgrade from an older layout, and all of them are again whenever
  `--tools-dir` or `HTM_TOOLS_DIR` changes (`manager.go:864`). What is true of
  every database, `LayoutKept`, speaks of a tool from the moment its row is in
  the present layout and no request that read an older one is still to write.
* `RefusesFromHard`: requests are refused as in lockdown from the fifth attempt
  on, not the tenth.
* `LocksAtHard`, and `Whole` (the consequence of `FileWhole`) once an unlock has
  overlapped a save: `htm unlock` and a handler overwrite each other's temporary
  file; an unlock may be undone by a save in flight, and the file may no longer
  parse. A file that does not parse is an error (500) to requests with a token
  and counts as no block for a login; the next unlock repairs it
  (`UnlockWorks`).

Seen in `ToolFolder` and stated there as a condition or an exemption:

* `README.md:16` has archives extracted "without deleting unrelated existing
  files". Two kinds of unrelated files are deleted all the same, and
  `NothingDeleted` exempts them: `removeArchiveArtifacts` removes every `.zip`,
  `.tar.gz` and `.tgz` at the top of the folder, the owner's included, and
  `writeFileFromReader` truncates a file named like an entry with `.tmp` after
  it and renames it away (`manager.go:1747-1761`).
* A rollback leaves the files in place that the backup lacks: `GivesBack` is
  about what was there to be saved.
* A backup that broke off, or of a torn binary, counts as the newest, and so
  does one that a trim has half removed: its folder is still listed, and was
  changed last (`manager.go:1006-1009`). It counts among the backups kept. A
  rollback without an id picks it, restores no binary if it has none left
  (`manager.go:1014-1022`), and reports success if the old one starts.
* `waitUntilOnline` is content with the first "online", which PM2 says of every
  process it has spawned (`client.go:158-160`). After a rollback to a backup with
  a torn binary, or an update over an archive that leaves a torn one in place,
  it may trim the last good backup: the one exception of `NeverLost`.
* A rollback whose answer is lost and that is sent again without an id picks the
  backup the first one took for safety, and goes forward again.

Seen in `ToolManager` and stated there:

* A trim that stops, by an error or with the process, has removed newer backups
  and keeps older ones: the registry's `Discard` and `Spoil`.

Seen in `SelfUpdate`: an error of `restoreRuntimeState` or of `systemctl` returns
with the new release in place and the old one running until something else
restarts the service; `UpdateTakesEffect` exempts runs with an error (`failed`).

Read in the code while modelling, outside what the modules tell apart:

* An archive URL with a query (`x.zip?raw=1`): `isArchivePath` looks at the path,
  `materializeBinary` at the end of the URL, so the archive itself becomes the
  binary.
* `ConfigureAndUpdate` stores the new URL before the download succeeds
  (`manager.go:531`), so a failed update leaves a row whose URL was never
  installed; `CleanupTool` ignores the errors of `pm2 stop` and `delete`
  (`manager.go:175`), so a process may outlive its row.
* Versions are ordered by RFC 3339 text without trailing zeros
  (`sqlite.go:231`), which two records within a second may misorder.

Seen in `Logs` and stated there as exemptions: PM2 goes on writing into the
renamed file, so an archive grows without bound and `stdout.log` stays empty
until the tool restarts; Cleanup deletes the archive a tool writes into, whose
output is in no file from then on; archives are named to the second, so that a
second rotation within it replaces the first archive; lines PM2 writes between
a stat or rename and the manager's `os.WriteFile` are truncated.

## 5. The proofs

| module | theorems | the argument |
|---|---|---|
| `ToolManager_proofs` | `Invariance`, `TypeCorrect`, `NeverGhosts`, `ImplementsRegistry` | `IInv`: each step belongs to its operations (`RightOps`); a locked operation under way holds `mu` (`Mutex`), so the tool it read stays registered (`HoldsRow`), its backups change by its hand only (`PickValid`, `Emptied`); registered tools have folders of their own (`OneFolder`). `NoGhosts` alone is not inductive: the record or backup an update adds needs `HoldsRow`, the removed row needs `Emptied` |
| | `NoOrphanMutex`, `PicksKept` | who is at a label of the locked operations holds the mutex, so nobody else returns with it, or writes the backups a rollback chose among |
| | `WorkBounded` | the control flow (`Flow`: the labels that may follow each) goes down in the rank `Work` but for the retries, which use attempts up (`TriesBounded`), and the one backup |
| | `RowsStayInLayout` | the paths a request asks for are those its URL gives (`RightReq`), so that no write puts a row out of the layout; with no thread between the read and the write of `normalizeToolPaths`, rows change by the hand of the mutex holder alone |
| `UpdateHistory_proofs` | `HistoryInvariance`, `SnapshotsHeld`, `UpdatesInstall` | `HInv`: whoever has a rival is in `raced` (`RacedKnown`); a file being written is written by a thread at a step that writes, in its own folder (`Owned`). So what an undisturbed update backed up, wrote and installed stays (`Beside`): another writer would be its rival, or hold its mutex. `Present`: only a cleanup removes a binary; `Holding`, `Installed`, `Started` follow the payload from the temporary file to the path to the process |
| `ToolFolder_proofs` | `Invariance`, `ExecutableKept`, `AlwaysGivesBack`, `AlwaysChosenBest`, `OthersKept` | `CopiesTrue`: what a backup holds so far, and what a trim has left of it, is what was there when it was begun; while a rollback restores, the newest backup holds what it copies over, so one of the two is whole; the entries scanned so far are ordered by their scores as the rules order them |
| `SelfUpdate_proofs` | `Invariance`, `NeverNowhere`, `RestartsWhole` | `Whereabouts`: phase by phase, which of the two directories holds an entry, by what the loop has visited; `Released`: past the verification the archive is whole, and what is installed is its |
| `Installer_proofs` | `Invariance`, `NeverDeletes`, `StartsComplete` | `Cleared`: nothing is left where the script removes or overwrites; `Ahead`: runs to come have set nothing aside |
| `Lockdown_proofs` | `Invariance`, `AlwaysWhole`, `UnlocksForSure`, `ImplementsCounter`, `NeverOvershoots` | `Unlocking`: a run of the command that met no save has the temporary file to itself; `Saving`: until one does, who saves holds `authMu` and a state that follows from the file's, in a complete temporary file. `Counted`: attempts past the limit and the requests that may still add one (`Late`) are together fewer than the handlers |
| `Access_proofs` | `Invariance`, `NeverAfterEnd`, `AlwaysLive`, all of `Sessions` | an id is drawn once and the clock does not go back, so a session that is over stays over between the looks of a request |
| | `AccessIsSessions`, `AccessInvariance`, `LockdownAlwaysHolds`, `VerdictsTimely` | each step is one of `Sessions` or a stutter, which brings the lemmas about `Sessions` along; who is barred has not passed the check, and the installed token is one that every request in flight has seen |
| `Logs_proofs` | `Invariance`, `SearchesComplete`, `KeepsWriter`, `KeepsLines` | `OneName`, `Writers`: a log grows only through the file PM2 has open, so a log rotated away from its writer is empty, is not rotated again, and the archive in use is the newest; `Holds`: a search is full, or the lines it is to find are found, hidden by its limits, or in a path still to be read |

All hold for every value of the constants that satisfies the `ASSUME`s of the
module (any number of handlers, tools, files, archives, retention, limits,
requests, unlocks and crashes), from those assumptions alone. TLC evaluates each `ASSUME`, and checks each `IInv` as an invariant.

Only model-checked: liveness (`RequestReturns`, `BootCompletes`,
`UpdateTakesEffect`, `SelfUpdateEnds`, `BlockEnds`, `Reclaimed`), since liveness
and ENABLED are out of the prover's reach. The safety half of `RequestReturns` is
proved: no request goes on for ever (`WorkBounded`) and no mutex is left without
a thread to release it (`NoOrphanMutex`); that a thread with work left can take a
step, and takes it, is what TLC adds.

## 6. Fairness

* A started handler goes on (`WF` of its steps): the Go scheduler runs runnable
  goroutines, HTTP transfers end after 40 s, commands after 90 s, and
  `waitUntilOnline` after 8 s, with an error at the latest.
* A waiting `Lock` is strong: `sync.Mutex` hands over to a waiter that starves.
  Likewise for `authMu` in `Lockdown`.
* `Reconcile` and `Serve`: the loop of the boot thread.
* `Step` in `SelfUpdate`: the same for its phases; each download is tried a
  bounded number of times, and each try ends.
* `Boot` in `SelfUpdate`: `Restart=always`.
* `Lapse`: time passes. `Elapse` with `ReapTick` and with `Reap` in `Access`: the
  ticker of the cleanup loop.

Nothing is assumed of clients, PM2, crashes, or faults: none of them has to
happen or to cease.

## 7. Assumptions, and what is left out

* PM2 is external: one entry per name, `pm2 start` fails on a running name; it
  opens log files by name, to append, and keeps them open.
* A rename is atomic; a crash loses no completed write (no power failure); the
  stage and preserve directories are on the file system of the installation,
  and `/tmp` lives as long as the installer's runs.
* In `ToolManager` a tool folder has one binary of interest per row, and what an
  archive leaves at its path is by kind of URL (`KindOf`); the other files, the
  extraction and the choice are in `ToolFolder`.
* In `ToolFolder` the directory `configs` is taken for one file, the binary keeps
  its name, an archive names a file once and its entries are taken after
  `sanitizeArchivePath`, backups are more than a second apart (`SameSecond` in
  `ToolManager` has the other case) and from a trim that half removed one, the
  folder is not cleaned up, and nobody but the manager writes the binary.
* `os.RemoveAll` removes in any order; what it leaves of a backup is each of its
  files, or not, and the directory `configs` or a part of it.
* `--tools-dir` changes only between runs of the manager: the rows are then those
  of `InitDb`, with paths in `Outside`, which no URL gives and no cleanup removes.
* In `Access` the lockdown file parses, and attempts are counted atomically: what
  `Lockdown` shows until an unlock overlaps a save.
* `restart-on-boot` has its default, true.
* A self-update does not run while the installer does.
* No save of the lockdown file takes 15 minutes; all blocks set so far lapse in
  one step.
* Loops over names or files take any order.
* Two rotations of one log are more than a second apart. A line too long counts
  as long once it is written. The order of a search's files (by name, backwards),
  file names that are no logs, and the summary are not in `Logs`.
* A session cookie that does not verify finds no session; ids do not repeat.

Not modelled, and why:

* Release suggestion (`manager.go:346-352, 1159-1233`): read-only queries; which
  URL it proposes (`assets[0]` when no asset matches) is a transformation of
  strings that no other part relies on.
* The web page: it runs in the browser and holds no state of the manager.
* Flags and environment (`main.go`, `env.go`), the commands of `htm` but `init`
  and `unlock`: read once, or clients of the API.
* Decoding, routing and status codes (`server.go:312-676`): no state of theirs;
  what the handlers call are the requests of `ToolManager`.
* The store's connection pool and JSON columns, PM2's installation by npm, the
  runner, logging, versions and types: plain calls and data. That foreign keys
  hold for one pooled connection only is why `ToolManager` has no cascade and
  deletes the history in a step of its own (`RemoveVersions`).
* The log summary, a search over all tools, and the docker status: read-only.
* The release workflow: build configuration.

## 8. Plan

Done, in the order of importance: `ToolManager` with `ToolRegistry`,
`SelfUpdate`, `Lockdown` with `AttemptCounter`, `Installer`, `Sessions`, `Logs`;
then `htm unlock` racing the handlers with the liveness of blocks in one run,
`Access`, which composes sessions, counter and token file, `ToolFolder`, and the
downloads of `SelfUpdate`; `UpdateHistory`; the theorems of section 5, which now
state every safety property the passing runs check.

What is left:

1. `Logs` composed with `ToolManager`: the manager's mutex is held over calls
   that take the log manager's, never the reverse.
2. `ToolFolder` under `ToolManager`: the two share the order of an update's
   steps, which is now stated in both.
