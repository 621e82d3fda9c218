----------------------------- MODULE ToolManager -----------------------------
(***************************************************************************)
(* The life cycle of managed tools: internal/tool/manager.go with the parts *)
(* of internal/db/sqlite.go and internal/pm2/client.go it calls.            *)
(*                                                                          *)
(* A request is served by a thread (one HTTP handler goroutine, or the boot *)
(* thread).  A thread is a program counter, the job it serves and the locals*)
(* of the job.  Every call that reads or writes shared state (a row, a file,*)
(* the PM2 daemon) is a step of its own, so the threads interleave as the   *)
(* calls of the Go program do.  Register, Cleanup, Provision, Update,       *)
(* Configure and Rollback hold Manager.mu for their whole run; Start, Stop, *)
(* Restart and Status never take it.                                        *)
(***************************************************************************)
EXTENDS Naturals, SequencesExt

CONSTANTS
  Names,        \* tool names clients use
  Slugs,        \* folder names under ToolsDir and BackupsDir
  SlugOf,       \* slugifyName
  Urls,         \* download URLs
  Bins,         \* paths of a tool's binary: file names inside its folder, and
  Outside,      \* paths under a former ToolsDir or layout
  BinOf,        \* binaryNameFromURL
  KindOf,       \* what materializeBinary does with a URL
  Payloads,     \* contents of a complete executable
  Served,       \* the payloads a URL serves
  Procs,        \* concurrent request handlers
  Boot,         \* the thread of EnsureAllRegisteredRunning
  Ops,          \* the operations clients ask for
  MayFail,      \* the labels whose call may return an error
  Keep,         \* backupRetention
  Attempts,     \* httpRetryAttempts
  SameSecond,   \* may two backups be taken within one second?
  MaxRequests,  \* bound on requests
  MaxCrashes,   \* bound on crashes of the manager
  InitDb,       \* the rows the database holds at the start
  InitFile,     \* the content of the binaries those rows name
  Free, NoRow, NoJob, NotManaged, Absent, Partial

Threads == Procs \cup {Boot}

AllOps == {"Register", "Cleanup", "Provision", "Update", "Configure",
           "Rollback", "Start", "Stop", "Restart", "Status"}

Locked   == {"Register", "Cleanup", "Provision", "Update", "Configure", "Rollback"}
Updating == {"Update", "Configure"}

\* "direct": the download is the binary.  "named": an archive with a member of
\* the binary's name.  "unnamed": an archive whose executable has another name.
Kinds == {"direct", "named", "unnamed"}

Row == [url : Urls, bin : Bins]

\* What a file may hold: a complete payload, a torn one, or, for a thread t,
\* the bytes t is still writing.
Contents == Payloads \cup {Absent, Partial} \cup Threads
Settled  == Payloads \cup {Absent, Partial}

Image == [img : Payloads \cup {Partial}, st : {"launching", "online", "errored", "stopped"}]

\* req is the row the request describes, row the one read (and normalised) from
\* the database, saved whether the pre-update backup is taken, pick the backup a
\* rollback selected, tries the download attempts that failed, want what the
\* current copy or download will have written.
Job == [op : AllOps, name : Names, req : Row, row : Row,
        saved : BOOLEAN, pick : Nat, tries : Nat, want : Settled]

Labels == {"idle", "lock", "read", "migrate", "migrating", "persist", "rewrite",
           "ensure", "get", "open", "transfer", "unpacking", "backup", "select", "halt",
           "restore", "restoring", "inspect", "pstop", "pdelete", "pstart",
           "wait", "save", "trim", "record", "create", "forget", "rmtree",
           "rmbackups", "rmversions", "rmrow"}

\* Labels whose step may return an error and leave nothing behind.
Fallible == {"read", "persist", "rewrite", "ensure", "backup", "select",
             "halt", "restore", "inspect", "pstop", "pdelete", "pstart", "save",
             "create", "rmversions", "rmrow"}

\* Labels whose error leaves something behind, or is not returned.
Residual == {"get", "transfer", "unpacking", "migrating", "restoring", "torn", "trim",
             "record", "rmtree", "rmbackups"}

ASSUME ConstantsAssumption ==
  /\ SlugOf \in [Names -> Slugs]
  /\ Outside \subseteq Bins /\ BinOf \in [Urls -> Bins \ Outside]
  /\ KindOf \in [Urls -> Kinds]
  /\ Urls # {} /\ Served \in [Urls -> SUBSET Payloads]
  /\ Ops \subseteq AllOps
  /\ MayFail \subseteq Fallible \cup Residual
  /\ Keep \in Nat \ {0} /\ Attempts \in Nat \ {0}
  /\ SameSecond \in BOOLEAN
  /\ MaxRequests \in Nat /\ MaxCrashes \in Nat
  /\ InitFile \in Payloads

ASSUME SeparateValues ==
  /\ Boot \notin Procs
  /\ Free \notin Threads
  /\ NoRow \notin Row
  /\ NoJob \notin Job
  /\ NotManaged \notin Image
  /\ Absent # Partial
  /\ {Absent, Partial} \cap (Payloads \cup Threads) = {}
  /\ Payloads \cap Threads = {}

ASSUME InitDbAssumption ==
  /\ InitDb \in [Names -> Row \cup {NoRow}]
  /\ \A m, n \in Names : InitDb[m] # NoRow /\ InitDb[n] # NoRow /\ SlugOf[m] = SlugOf[n] => m = n

VARIABLES
  db,        \* table tools: name -> row
  versions,  \* table tool_versions: name -> number of records
  files,     \* ToolsDir/<slug>/<binary>
  tmp,       \* ToolsDir/<slug>/<binary>.download.tmp: whose inode it names
  backups,   \* BackupsDir/<slug>: the saved binaries, oldest first
  pm2,       \* the process list of the PM2 daemon
  mu,        \* Manager.mu
  pc, job,   \* the threads
  phase,     \* "booting" until reconciliation is over, then "serving"
  bootq,     \* tools reconciliation has still to look at
  requests, crashes

store == <<db, versions>>
disk  == <<files, tmp, backups>>
ctl   == <<phase, bootq, requests, crashes>>
vars  == <<db, versions, files, tmp, backups, pm2, mu, pc, job, phase, bootq, requests, crashes>>

Registered == {n \in Names : db[n] # NoRow}
Canonical(r) == [r EXCEPT !.bin = BinOf[r.url]]
Running(e) == e # NotManaged /\ e.st \in {"online", "launching"}

Init ==
  /\ db = InitDb
  /\ versions = [n \in Names |-> 0]
  /\ files = [s \in Slugs |-> [b \in Bins |->
       IF \E n \in Names : SlugOf[n] = s /\ InitDb[n] # NoRow /\ InitDb[n].bin = b
       THEN InitFile ELSE Absent]]
  /\ tmp = [s \in Slugs |-> [b \in Bins |-> Absent]]
  /\ backups = [s \in Slugs |-> <<>>]
  /\ \/ pm2 = [n \in Names |-> NotManaged]
     \/ pm2 = [n \in Names |-> IF InitDb[n] = NoRow THEN NotManaged
                                 ELSE [img |-> InitFile, st |-> "online"]]
  /\ mu = Free
  /\ pc = [t \in Threads |-> "idle"]
  /\ job = [t \in Threads |-> NoJob]
  /\ phase = "booting"
  /\ bootq = {n \in Names : InitDb[n] # NoRow}
  /\ requests = 0
  /\ crashes = 0

-----------------------------------------------------------------------------
(* What the steps share *)

Slug(t) == SlugOf[job[t].name]

\* The row a job works towards: performToolUpdateLocked's updateTool, and the t
\* of every other operation.  job.row is its backupSource.
Target(t) == IF job[t].op \in {"Register", "Configure"} THEN job[t].req ELSE job[t].row

\* ensureBinary looks at backupSource; everything later at the target.
Fetched(t) == IF job[t].op \in Updating /\ ~job[t].saved THEN job[t].row ELSE Target(t)

Goto(t, l) == pc' = [pc EXCEPT ![t] = l]

\* Defect: an error path without the deferred unlock.
ReturnHoldingMutex(t) ==
  /\ Goto(t, "idle")
  /\ job' = [job EXCEPT ![t] = NoJob]
  /\ mu' = IF mu = t /\ pc[t] = "read" THEN mu ELSE IF mu = t THEN Free ELSE mu

\* The handler returns; defer m.mu.Unlock() runs.
Return(t) ==
  /\ Goto(t, "idle")
  /\ job' = [job EXCEPT ![t] = NoJob]
  /\ mu' = IF mu = t THEN Free ELSE mu

Put(s, b, c) == files' = [files EXCEPT ![s][b] = c]

\* A reader of a file somebody is still writing reads a torn one.
Seen(c) == IF c \in Threads THEN Partial ELSE c

\* Thread t closes the file it was writing; wherever that inode is, it holds c.
Close(f, t, c) == [s \in Slugs |-> [b \in Bins |-> IF f[s][b] = t THEN c ELSE f[s][b]]]

\* An error return that changes nothing.
Fail(t) ==
  /\ pc[t] \in Fallible \cap MayFail
  /\ ~(pc[t] = "halt" /\ job[t].op = "Cleanup")
  /\ Return(t)
  /\ UNCHANGED <<store, disk, pm2, ctl>>

-----------------------------------------------------------------------------
(* Requests, the mutex and the row of the tool *)

Issue(t) ==
  /\ pc[t] = "idle" /\ phase = "serving" /\ requests < MaxRequests
  /\ requests' = requests + 1
  /\ \E op \in Ops, n \in Names, u \in Urls :
       LET r == [url |-> u, bin |-> BinOf[u]] IN
       /\ op \in {"Register", "Configure"} \/ u = CHOOSE v \in Urls : TRUE
       /\ job' = [job EXCEPT ![t] = [op |-> op, name |-> n, req |-> r, row |-> r,
                                     saved |-> FALSE, pick |-> 0, tries |-> 0, want |-> Absent]]
       /\ Goto(t, IF op \in Locked THEN "lock" ELSE "read")
  /\ UNCHANGED <<store, disk, pm2, mu, phase, bootq, crashes>>

\* Defect: Manager.mu is not taken.
LockNothing(t) ==
  /\ pc[t] = "lock"
  /\ mu' = t
  /\ Goto(t, IF job[t].op = "Register" THEN "get" ELSE "read")
  /\ UNCHANGED <<store, disk, pm2, job, ctl>>

Lock(t) ==
  /\ pc[t] = "lock" /\ mu = Free
  /\ mu' = t
  /\ Goto(t, IF job[t].op = "Register" THEN "get" ELSE "read")
  /\ UNCHANGED <<store, disk, pm2, job, ctl>>

\* Where mustTool returns to.
AfterRead(op) ==
  CASE op \in {"Stop", "Cleanup"} -> "halt"
    [] op = "Rollback"            -> "select"
    [] op = "Configure"           -> "rewrite"
    [] op = "Status"              -> "inspect"
    [] OTHER                      -> "ensure"

\* mustTool: an unknown name is an error; a row whose paths are not the ones its
\* URL gives today goes through normalizeToolPaths.
ReadRow(t) ==
  /\ pc[t] = "read"
  /\ LET r == db[job[t].name] IN
     \/ r = NoRow /\ Return(t)
     \/ /\ r # NoRow
        /\ job' = [job EXCEPT ![t].row = r]
        /\ Goto(t, IF r = Canonical(r) THEN AfterRead(job[t].op) ELSE "migrate")
        /\ UNCHANGED mu
  /\ UNCHANGED <<store, disk, pm2, ctl>>

\* normalizeToolPaths: the old binary is copied to the canonical path unless a
\* file is there already (or the old path is an archive: not copied either).
Migrate(t) ==
  /\ pc[t] = "migrate"
  /\ LET r == job[t].row  old == files[Slug(t)][r.bin]  new == BinOf[r.url] IN
     \/ /\ old # Absent /\ files[Slug(t)][new] = Absent
        /\ Put(Slug(t), new, t)
        /\ job' = [job EXCEPT ![t].want = Seen(old)]
        /\ Goto(t, "migrating")
     \/ Goto(t, "persist") /\ UNCHANGED <<files, job>>
  /\ UNCHANGED <<store, tmp, backups, pm2, mu, ctl>>

\* The copy ends; a failed one is only logged.
Migrated(t) ==
  /\ pc[t] = "migrating"
  /\ \/ files' = Close(files, t, job[t].want)
     \/ "migrating" \in MayFail /\ files' = Close(files, t, Partial)
  /\ job' = [job EXCEPT ![t].want = Absent]
  /\ Goto(t, "persist")
  /\ UNCHANGED <<store, tmp, backups, pm2, mu, ctl>>

\* store.UpdateTool(t) with the whole row as it was read; no row, no effect.
WriteRow(n, r) == db' = IF db[n] = NoRow THEN db ELSE [db EXCEPT ![n] = r]

Persist(t) ==
  /\ pc[t] = "persist"
  /\ LET r == Canonical(job[t].row) IN
     /\ WriteRow(job[t].name, r)
     /\ job' = [job EXCEPT ![t].row = r]
  /\ Goto(t, AfterRead(job[t].op))
  /\ UNCHANGED <<versions, disk, pm2, mu, ctl>>

\* Defect: the new URL is stored with the paths of the old one.
RewriteOldPath(t) ==
  /\ pc[t] = "rewrite"
  /\ WriteRow(job[t].name, [job[t].req EXCEPT !.bin = job[t].row.bin])
  /\ Goto(t, "ensure")
  /\ UNCHANGED <<versions, disk, pm2, mu, job, ctl>>

\* ConfigureAndUpdate stores the new row before anything is downloaded.
Rewrite(t) ==
  /\ pc[t] = "rewrite"
  /\ WriteRow(job[t].name, job[t].req)
  /\ Goto(t, "ensure")
  /\ UNCHANGED <<versions, disk, pm2, mu, job, ctl>>

-----------------------------------------------------------------------------
(* Binaries: ensureBinary, downloadBinary, materializeBinary *)

Ensured(op) == IF op \in Updating THEN "backup" ELSE "inspect"

\* Any file at the path will do, complete or not.
Ensure(t) ==
  /\ pc[t] = "ensure"
  /\ Goto(t, IF files[Slug(t)][job[t].row.bin] # Absent THEN Ensured(job[t].op) ELSE "get")
  /\ UNCHANGED <<store, disk, pm2, mu, job, ctl>>

\* Where downloadBinary returns to.
AfterFetch(t) ==
  IF job[t].op = "Register" THEN "create"
  ELSE IF job[t].saved THEN "inspect" ELSE Ensured(job[t].op)

\* The top of the retry loop unlinks the temporary file, whoever writes it.
Get(t) ==
  /\ pc[t] = "get"
  /\ tmp' = [tmp EXCEPT ![Slug(t)][Fetched(t).bin] = Absent]
  /\ Goto(t, "open")
  /\ UNCHANGED <<store, files, backups, pm2, mu, job, ctl>>

\* Defect: failed attempts are not counted.
RetryForever(t) ==
  /\ Goto(t, "get")
  /\ UNCHANGED <<job, mu>>

\* The next attempt, or the end of the loop.
RetryOrReturn(t) ==
  \/ /\ job[t].tries + 1 < Attempts
     /\ job' = [job EXCEPT ![t].tries = @ + 1]
     /\ Goto(t, "get")
     /\ UNCHANGED mu
  \/ Return(t)

\* No response, or not a 2xx one.
GetFails(t) ==
  /\ pc[t] = "open" /\ "get" \in MayFail
  /\ RetryOrReturn(t)
  /\ UNCHANGED <<store, disk, pm2, ctl>>

\* The temporary file is created; if a rival created it meanwhile, it is
\* truncated and the two write into one file.
Open(t) ==
  /\ pc[t] = "open"
  /\ LET s == Slug(t)  b == Fetched(t).bin  o == tmp[s][b] IN
     /\ tmp' = [tmp EXCEPT ![s][b] = t]
     /\ \E v \in Served[Fetched(t).url] :
          job' = [job EXCEPT ![t].want =
                    IF o \in Threads /\ job[o].want # v THEN Partial ELSE v]
  /\ Goto(t, "transfer")
  /\ UNCHANGED <<store, files, backups, pm2, mu, ctl>>

\* The body is written and its checksum right: activate what the temporary name
\* designates NOW.  A direct download is renamed over the binary; a rival's
\* rename leaves nothing to rename.  An archive has to be complete; its members
\* overwrite their files, and the binary is picked among them only if no file
\* has its name.
Activate(t) ==
  /\ pc[t] = "transfer"
  /\ LET s == Slug(t)  b == Fetched(t).bin  k == KindOf[Fetched(t).url]
         named == tmp[s][b]
         whole == Close(files, t, job[t].want)
     IN
     \/ /\ k = "direct" /\ named # Absent
        /\ files' = [whole EXCEPT ![s][b] = IF named = t THEN job[t].want ELSE named]
        /\ tmp' = [tmp EXCEPT ![s][b] = Absent]
        /\ Goto(t, AfterFetch(t))
        /\ UNCHANGED <<job, mu>>
     \/ /\ k = "named" /\ named = t
        /\ files' = [whole EXCEPT ![s][b] = job[t].want]
        /\ tmp' = [tmp EXCEPT ![s] = [c \in Bins |-> Absent]]
        /\ Goto(t, AfterFetch(t))
        /\ UNCHANGED <<job, mu>>
     \/ /\ k = "unnamed" /\ named = t /\ files[s][b] # Absent
        /\ files' = whole
        /\ tmp' = [tmp EXCEPT ![s] = [c \in Bins |-> Absent]]
        /\ Goto(t, AfterFetch(t))
        /\ UNCHANGED <<job, mu>>
     \/ /\ k = "unnamed" /\ named = t /\ files[s][b] = Absent
        /\ files' = [whole EXCEPT ![s][b] = t]
        /\ tmp' = [tmp EXCEPT ![s] = [c \in Bins |-> Absent]]
        /\ Goto(t, "unpacking")
        /\ UNCHANGED <<job, mu>>
     \/ /\ \/ named = Absent
           \/ k # "direct" /\ named # t
        /\ files' = whole
        /\ tmp' = [tmp EXCEPT ![s][b] = Absent]
        /\ Return(t)
  /\ UNCHANGED <<store, backups, pm2, ctl>>

\* The executable of an "unnamed" archive is copied to the binary in place.
Unpacked(t) ==
  /\ pc[t] = "unpacking"
  /\ files' = Close(files, t, job[t].want)
  /\ Goto(t, AfterFetch(t))
  /\ UNCHANGED <<store, tmp, backups, pm2, mu, job, ctl>>

\* The connection breaks, or the checksum is wrong and the name is removed.  The
\* inode stays torn, wherever a rival has moved it.
TornTransfer(t) ==
  /\ pc[t] = "transfer" /\ "transfer" \in MayFail
  /\ files' = Close(files, t, Partial)
  /\ \/ tmp' = Close(tmp, t, Partial) /\ RetryOrReturn(t)
     \/ tmp' = [tmp EXCEPT ![Slug(t)][Fetched(t).bin] = Absent] /\ Return(t)
  /\ UNCHANGED <<store, backups, pm2, ctl>>

\* A copy onto the binary breaks off.
TornCopy(t) ==
  /\ pc[t] \in {"unpacking", "restoring"} \cap MayFail
  /\ files' = Close(files, t, Partial)
  /\ Return(t)
  /\ UNCHANGED <<store, tmp, backups, pm2, ctl>>

-----------------------------------------------------------------------------
(* Backups: backupToolFiles, trimBackups, restoreToolFromBackup *)

\* Defect: backups listed newest first are indexed as if oldest first.
SavedReversed(s, c) == {<<c>> \o backups[s]}

\* Defect: a backup that is there already is taken to be enough.
SavedOnce(s, c) == IF backups[s] = <<>> THEN {<<c>>} ELSE {backups[s]}

\* The backup folder is named after the second it is taken in: a second backup
\* within it writes into the same folder, and a missing binary leaves what is
\* there.
Saved(s, c) ==
  {Append(backups[s], c)} \cup
  (IF SameSecond /\ backups[s] # <<>> /\ c # Absent
   THEN {Append(Front(backups[s]), c)}
   ELSE IF SameSecond /\ backups[s] # <<>> THEN {backups[s]} ELSE {})

\* The download that follows counts its attempts from the first again.
Backup(t) ==
  /\ pc[t] = "backup"
  /\ \E bs \in Saved(Slug(t), Seen(files[Slug(t)][job[t].row.bin])) :
       backups' = [backups EXCEPT ![Slug(t)] = bs]
  /\ job' = [job EXCEPT ![t].saved = TRUE, ![t].tries = 0]
  /\ Goto(t, IF job[t].op = "Rollback" THEN "halt" ELSE "get")
  /\ UNCHANGED <<store, files, tmp, pm2, mu, ctl>>

\* The folder is made, the copy into it fails.
TornBackup(t) ==
  /\ pc[t] = "backup" /\ "torn" \in MayFail
  /\ \E c \in {Absent, Partial} : \E bs \in Saved(Slug(t), c) :
       backups' = [backups EXCEPT ![Slug(t)] = bs]
  /\ Return(t)
  /\ UNCHANGED <<store, files, tmp, pm2, ctl>>

\* Rollback: the newest backup, or the one the request names.
Select(t) ==
  /\ pc[t] = "select"
  /\ \/ backups[Slug(t)] = <<>> /\ Return(t)
     \/ /\ \E i \in 1..Len(backups[Slug(t)]) : job' = [job EXCEPT ![t].pick = i]
        /\ Goto(t, "backup")
        /\ UNCHANGED mu
  /\ UNCHANGED <<store, disk, pm2, ctl>>

\* A backup without a binary restores none, and is an error only if there is
\* none to chmod either.
Restore(t) ==
  /\ pc[t] = "restore"
  /\ LET s == Slug(t)  b == Target(t).bin  c == backups[s][job[t].pick] IN
     \/ /\ c # Absent
        /\ Put(s, b, t)
        /\ job' = [job EXCEPT ![t].want = c]
        /\ Goto(t, "restoring")
        /\ UNCHANGED mu
     \/ c = Absent /\ files[s][b] # Absent /\ Goto(t, "inspect") /\ UNCHANGED <<files, job, mu>>
     \/ c = Absent /\ files[s][b] = Absent /\ Return(t) /\ UNCHANGED files
  /\ UNCHANGED <<store, tmp, backups, pm2, ctl>>

Restored(t) ==
  /\ pc[t] = "restoring"
  /\ files' = Close(files, t, job[t].want)
  /\ Goto(t, "inspect")
  /\ UNCHANGED <<store, tmp, backups, pm2, mu, job, ctl>>

\* Defect: the newest backups are dropped.
TrimNewest(t) ==
  /\ pc[t] = "trim"
  /\ LET bs == backups[Slug(t)] IN
     backups' = [backups EXCEPT ![Slug(t)] = SubSeq(bs, 1, IF Len(bs) > Keep THEN Keep ELSE Len(bs))]
  /\ Goto(t, "record")
  /\ UNCHANGED <<store, files, tmp, pm2, mu, job, ctl>>

Newest(bs) == SubSeq(bs, Len(bs) - Keep + 1, Len(bs))
Trimmed(bs) == IF Len(bs) > Keep THEN Newest(bs) ELSE bs

\* The surplus is removed newest first.  A trim that stops has removed all of it
\* that is newer than some backup and left this one as it was, or half removed:
\* its folder is the one changed last then, with its binary or without.
StoppedTrims(bs) ==
  IF Len(bs) <= Keep THEN {bs}
  ELSE UNION {{SubSeq(bs, 1, i) \o Newest(bs)} \cup
              {SubSeq(bs, 1, i - 1) \o Newest(bs) \o <<c>> : c \in {bs[i], Absent}} :
                i \in 1..(Len(bs) - Keep)}

\* The error of a trim that stops is only logged.
Trim(t) ==
  /\ pc[t] = "trim"
  /\ \E bs \in {Trimmed(backups[Slug(t)])} \cup
               (IF "trim" \in MayFail THEN StoppedTrims(backups[Slug(t)]) ELSE {}) :
       backups' = [backups EXCEPT ![Slug(t)] = bs]
  /\ Goto(t, "record")
  /\ UNCHANGED <<store, files, tmp, pm2, mu, job, ctl>>

\* A failed INSERT is ignored.
Record(t) ==
  /\ pc[t] = "record"
  /\ \/ versions' = [versions EXCEPT ![job[t].name] = @ + 1]
     \/ "record" \in MayFail /\ UNCHANGED versions
  /\ Return(t)
  /\ UNCHANGED <<db, disk, pm2, ctl>>

-----------------------------------------------------------------------------
(* PM2: client.go, one step per pm2 command that decides or changes something *)

SetPm2(t, e) == pm2' = [pm2 EXCEPT ![job[t].name] = e]

\* pm2.Stop.  CleanupTool ignores its error.
Halt(t) ==
  /\ pc[t] = "halt"
  /\ LET e == pm2[job[t].name] IN
     \/ SetPm2(t, IF e = NotManaged THEN e ELSE [e EXCEPT !.st = "stopped"])
     \/ job[t].op = "Cleanup" /\ "halt" \in MayFail /\ UNCHANGED pm2
  /\ Goto(t, CASE job[t].op = "Stop" -> "save"
               [] job[t].op = "Rollback" -> "restore"
               [] OTHER -> "forget")
  /\ UNCHANGED <<store, disk, mu, job, ctl>>

\* Defect: a process that is already online is not restarted.
InspectRunning(t) ==
  /\ pc[t] = "inspect"
  /\ Goto(t, IF Running(pm2[job[t].name]) THEN "wait" ELSE "pstart")
  /\ UNCHANGED <<store, disk, pm2, mu, job, ctl>>

\* StartOrReload's first look (and getStatusForTool's only one).
Inspect(t) ==
  /\ pc[t] = "inspect"
  /\ \/ job[t].op = "Status" /\ Return(t)
     \/ /\ job[t].op # "Status"
        /\ Goto(t, IF pm2[job[t].name] = NotManaged THEN "pstart" ELSE "pstop")
        /\ UNCHANGED <<mu, job>>
  /\ UNCHANGED <<store, disk, pm2, ctl>>

StopOld(t) ==
  /\ pc[t] = "pstop"
  /\ LET e == pm2[job[t].name] IN
     SetPm2(t, IF e = NotManaged THEN e ELSE [e EXCEPT !.st = "stopped"])
  /\ Goto(t, "pdelete")
  /\ UNCHANGED <<store, disk, mu, job, ctl>>

DeleteOld(t) ==
  /\ pc[t] = "pdelete"
  /\ SetPm2(t, NotManaged)
  /\ Goto(t, "pstart")
  /\ UNCHANGED <<store, disk, mu, job, ctl>>

\* pm2 start: fails without a binary or when the name already runs.
StartNew(t) ==
  /\ pc[t] = "pstart"
  /\ LET c == files[Slug(t)][Target(t).bin] IN
     \/ /\ c # Absent /\ ~Running(pm2[job[t].name])
        /\ SetPm2(t, [img |-> Seen(c), st |-> "launching"])
        /\ Goto(t, "wait")
        /\ UNCHANGED <<mu, job>>
     \/ /\ c = Absent \/ Running(pm2[job[t].name])
        /\ Return(t)
        /\ UNCHANGED pm2
  /\ UNCHANGED <<store, disk, ctl>>

\* waitUntilOnline sees the process online.
Online(t) ==
  /\ pc[t] = "wait" /\ pm2[job[t].name] # NotManaged /\ pm2[job[t].name].st = "online"
  /\ Goto(t, "save")
  /\ UNCHANGED <<store, disk, pm2, mu, job, ctl>>

\* It sees it stopped or errored, pm2 jlist fails, or 8 s are over.
NotOnline(t) ==
  /\ pc[t] = "wait"
  /\ Return(t)
  /\ UNCHANGED <<store, disk, pm2, ctl>>

\* pm2 save, then what is left of the operation.
Save(t) ==
  /\ pc[t] = "save"
  /\ \/ job[t].op \in {"Start", "Stop", "Restart"} /\ Return(t)
     \/ /\ job[t].op \in Updating \cup {"Rollback", "Provision"}
        /\ Goto(t, IF job[t].op = "Provision" THEN "record" ELSE "trim")
        /\ UNCHANGED <<mu, job>>
  /\ UNCHANGED <<store, disk, pm2, ctl>>

\* The PM2 daemon: a process it has spawned is "online", whatever its binary
\* holds, until it dies.
Pm2Event(n) ==
  /\ pm2[n] # NotManaged
  /\ \/ pm2[n].st = "launching" /\ pm2' = [pm2 EXCEPT ![n].st = "online"]
     \/ Running(pm2[n]) /\ pm2' = [pm2 EXCEPT ![n].st = "errored"]
  /\ UNCHANGED <<store, disk, mu, pc, job, ctl>>

-----------------------------------------------------------------------------
(* The ends of Register and Cleanup *)

\* INSERT INTO tools: name is the primary key, slug is UNIQUE.
Create(t) ==
  /\ pc[t] = "create"
  /\ LET n == job[t].name IN
     IF \E m \in Registered : SlugOf[m] = SlugOf[n]
     THEN UNCHANGED db
     ELSE db' = [db EXCEPT ![n] = job[t].req]
  /\ Return(t)
  /\ UNCHANGED <<versions, disk, pm2, ctl>>

\* pm2.Delete, its error ignored.
Forget(t) ==
  /\ pc[t] = "forget"
  /\ \/ SetPm2(t, NotManaged)
     \/ "halt" \in MayFail /\ UNCHANGED pm2
  /\ Goto(t, "rmtree")
  /\ UNCHANGED <<store, disk, mu, job, ctl>>

Without(fs, B) == [b \in Bins |-> IF b \in B THEN Absent ELSE fs[b]]

\* os.RemoveAll(t.ToolDir)
RemoveTree(t) ==
  /\ pc[t] = "rmtree"
  /\ files' = [files EXCEPT ![Slug(t)] = Without(@, Bins \ Outside)]
  /\ tmp' = [tmp EXCEPT ![Slug(t)] = Without(@, Bins \ Outside)]
  /\ Goto(t, "rmbackups")
  /\ UNCHANGED <<store, backups, pm2, mu, job, ctl>>

\* What an os.RemoveAll of the backups that stops may leave: some of them, each
\* as it was or without its binary, in the order of the folders' new times.
StoppedWipes(bs) ==
  {left \in SeqOf(ToSet(bs) \cup {Absent}, Len(bs)) :
     \E f \in [DOMAIN left -> DOMAIN bs] :
       IsInjective(f) /\ \A i \in DOMAIN left : left[i] \in {bs[f[i]], Absent}}

\* os.RemoveAll removes in any order and returns an error when something is left.
TornRemoval(t) ==
  /\ pc[t] \in {"rmtree", "rmbackups"} \cap MayFail
  /\ LET s == Slug(t) IN
     \/ /\ pc[t] = "rmtree"
        /\ \E F, T \in SUBSET (Bins \ Outside) :
             /\ files' = [files EXCEPT ![s] = Without(@, F)]
             /\ tmp' = [tmp EXCEPT ![s] = Without(@, T)]
        /\ UNCHANGED backups
     \/ /\ pc[t] = "rmbackups"
        /\ \E left \in StoppedWipes(backups[s]) : backups' = [backups EXCEPT ![s] = left]
        /\ UNCHANGED <<files, tmp>>
  /\ Return(t)
  /\ UNCHANGED <<store, pm2, ctl>>

\* Defect: the history is left to ON DELETE CASCADE, which only the one pooled
\* connection that ran PRAGMA foreign_keys enforces.
RemoveBackupsOnly(t) ==
  /\ pc[t] = "rmbackups"
  /\ backups' = [backups EXCEPT ![Slug(t)] = <<>>]
  /\ Goto(t, "rmrow")
  /\ UNCHANGED <<store, files, tmp, pm2, mu, job, ctl>>

RemoveBackups(t) ==
  /\ pc[t] = "rmbackups"
  /\ backups' = [backups EXCEPT ![Slug(t)] = <<>>]
  /\ Goto(t, "rmversions")
  /\ UNCHANGED <<store, files, tmp, pm2, mu, job, ctl>>

RemoveVersions(t) ==
  /\ pc[t] = "rmversions"
  /\ versions' = [versions EXCEPT ![job[t].name] = 0]
  /\ Goto(t, "rmrow")
  /\ UNCHANGED <<db, disk, pm2, mu, job, ctl>>

RemoveRow(t) ==
  /\ pc[t] = "rmrow"
  /\ db' = [db EXCEPT ![job[t].name] = NoRow]
  /\ Return(t)
  /\ UNCHANGED <<versions, disk, pm2, ctl>>

-----------------------------------------------------------------------------
(* The manager's start, and its death *)

\* EnsureAllRegisteredRunning: a tool that runs is left alone (unless pm2 jlist
\* fails), any other goes through Start.
Reconcile(n) ==
  /\ phase = "booting" /\ pc[Boot] = "idle" /\ n \in bootq
  /\ bootq' = bootq \ {n}
  /\ \/ Running(pm2[n]) /\ UNCHANGED <<pc, job>>
     \/ /\ ~Running(pm2[n]) \/ "inspect" \in MayFail
        /\ LET u == CHOOSE v \in Urls : TRUE  r == [url |-> u, bin |-> BinOf[u]] IN
           job' = [job EXCEPT ![Boot] = [op |-> "Start", name |-> n, req |-> r, row |-> r,
                                         saved |-> FALSE, pick |-> 0, tries |-> 0, want |-> Absent]]
        /\ Goto(Boot, "read")
  /\ UNCHANGED <<store, disk, pm2, mu, phase, requests, crashes>>

\* Defect: the server waits for every tool to be up.
ServeWhenAllRun ==
  /\ phase = "booting" /\ pc[Boot] = "idle" /\ bootq = {}
  /\ \A n \in Registered : Running(pm2[n])
  /\ phase' = "serving"
  /\ UNCHANGED <<store, disk, pm2, mu, pc, job, bootq, requests, crashes>>

\* Only then does the server listen.
Serve ==
  /\ phase = "booting" /\ pc[Boot] = "idle" /\ bootq = {}
  /\ phase' = "serving"
  /\ UNCHANGED <<store, disk, pm2, mu, pc, job, bootq, requests, crashes>>

\* The process dies and systemd starts it again (Restart=always); a reboot of
\* the machine takes PM2's processes with it.  A crash within a backup, a trim or
\* a removal leaves what the call's error leaves: it is the step of the error
\* followed by this one.
Crash ==
  /\ crashes < MaxCrashes
  /\ crashes' = crashes + 1
  /\ files' = [s \in Slugs |-> [b \in Bins |-> Seen(files[s][b])]]
  /\ tmp' = [s \in Slugs |-> [b \in Bins |-> Seen(tmp[s][b])]]
  /\ \/ UNCHANGED pm2
     \/ pm2' = [n \in Names |-> NotManaged]
  /\ mu' = Free
  /\ pc' = [t \in Threads |-> "idle"]
  /\ job' = [t \in Threads |-> NoJob]
  /\ phase' = "booting"
  /\ bootq' = Registered
  /\ UNCHANGED <<store, backups, requests>>

-----------------------------------------------------------------------------

Step(t) ==
  \/ ReadRow(t) \/ Migrate(t) \/ Migrated(t) \/ Persist(t) \/ Rewrite(t)
  \/ Ensure(t) \/ Get(t) \/ GetFails(t) \/ Open(t) \/ Activate(t) \/ Unpacked(t)
  \/ TornTransfer(t) \/ TornCopy(t)
  \/ Backup(t) \/ TornBackup(t) \/ Select(t) \/ Restore(t) \/ Restored(t)
  \/ Trim(t) \/ Record(t)
  \/ Halt(t) \/ Inspect(t) \/ StopOld(t) \/ DeleteOld(t) \/ StartNew(t)
  \/ Online(t) \/ NotOnline(t) \/ Save(t)
  \/ Create(t) \/ Forget(t) \/ RemoveTree(t) \/ RemoveBackups(t)
  \/ TornRemoval(t) \/ RemoveVersions(t) \/ RemoveRow(t)
  \/ Fail(t)

Next ==
  \/ \E t \in Procs : Issue(t)
  \/ \E t \in Threads : Lock(t) \/ Step(t)
  \/ \E n \in Names : Reconcile(n) \/ Pm2Event(n)
  \/ Serve
  \/ Crash

Spec == Init /\ [][Next]_vars

\* The Go scheduler runs every runnable goroutine, sync.Mutex does not starve a
\* waiter, every HTTP transfer and every command has a timeout.
Fairness ==
  /\ \A t \in Threads : WF_vars(Step(t)) /\ SF_vars(Lock(t))
  /\ WF_vars(\E n \in Names : Reconcile(n)) /\ WF_vars(Serve)

FairSpec == Spec /\ Fairness

-----------------------------------------------------------------------------
(* Properties *)

TypeOK ==
  /\ db \in [Names -> Row \cup {NoRow}]
  /\ versions \in [Names -> Nat]
  /\ files \in [Slugs -> [Bins -> Contents]]
  /\ tmp \in [Slugs -> [Bins -> {Absent, Partial} \cup Threads]]
  /\ backups \in [Slugs -> Seq(Settled)]
  /\ pm2 \in [Names -> Image \cup {NotManaged}]
  /\ mu \in Threads \cup {Free}
  /\ pc \in [Threads -> Labels]
  /\ job \in [Threads -> Job \cup {NoJob}]
  /\ \A t \in Threads : pc[t] # "idle" => job[t] \in Job
  /\ phase \in {"booting", "serving"}
  /\ bootq \subseteq Names
  /\ requests \in Nat /\ crashes \in Nat

\* A name without a row has no history, and a folder no registered tool owns
\* has no backups: whatever fails or crashes, Cleanup deletes the row last, and
\* no update of the tool can run beside it and add a record or a backup.
NoGhosts ==
  /\ \A n \in Names : db[n] = NoRow => versions[n] = 0
  /\ \A s \in Slugs : backups[s] # <<>> => \E n \in Registered : SlugOf[n] = s

\* From its selection until it is restored, the backup a rollback chose keeps
\* its content and its place, whoever else works on the tool; only the backup
\* the rollback itself takes first may write into the same second's folder.
PickKept(t) ==
  LET s == Slug(t)  i == job[t].pick IN
  pc[t] \in {"backup", "halt", "restore"} /\ pc'[t] # "idle" /\ job[t].op = "Rollback"
    => \/ backups'[s][i] = backups[s][i]
       \/ SameSecond /\ pc[t] = "backup" /\ pc'[t] = "halt" /\ i = Len(backups[s])

PickedBackupKept == [][\A t \in Threads : PickKept(t)]_vars

\* The URL of a registered tool changes only through the configuration request
\* that holds the mutex; reading a tool's row never changes it.
UrlKept(n) ==
  db[n] # NoRow /\ db'[n] # NoRow /\ db'[n].url # db[n].url =>
    mu # Free /\ job[mu].op = "Configure" /\ job[mu].name = n

UrlChangedByConfigure == [][\A n \in Names : UrlKept(n)]_vars

\* A tool's row is that of the present layout, and nobody is about to write back
\* one that was not.
InLayout(n) ==
  /\ db[n] # NoRow => db[n] = Canonical(db[n])
  /\ \A t \in Threads : pc[t] \in {"migrate", "migrating", "persist"} => job[t].name # n

\* A locked operation that has read its row, and stored the new one if it is a
\* configuration, works for the row in the database.
WorksForRow(n) ==
  \A t \in Threads :
    /\ pc[t] \notin {"idle", "lock", "read", "rewrite"}
    /\ job[t].op \in Locked \ {"Register"} /\ job[t].name = n
    => db[n] = Target(t)

\* Requests without the mutex write back the row they have read, and may undo a
\* configuration stored meanwhile, only until the row is in the present layout.
\* From then on it stays there, its URL changes only through the configuration
\* that holds the mutex, and nobody puts another row under a locked operation.
LayoutKept ==
  [][\A n \in Names : InLayout(n) =>
       /\ UrlKept(n) /\ InLayout(n)'
       /\ WorksForRow(n) => WorksForRow(n)']_vars

\* A locked mutex is that of a locked operation under way: no return, failure or
\* crash leaves it behind with nobody to unlock it.
HeldByWorker == mu # Free => pc[mu] \notin {"idle", "lock"} /\ job[mu].op \in Locked

\* The steps a thread has left at most: from its backup on, for its download with
\* all that follows, from its label on.
BackupWork == 10 + 3 * Attempts
FetchWork(t) == (IF job[t].saved THEN 9 ELSE BackupWork + 1) + 3 * (Attempts - job[t].tries)
LabelWork(l) ==
  CASE l \in {"record", "create", "rmrow"} -> 1
    [] l \in {"trim", "rmversions"} -> 2
    [] l \in {"save", "rmbackups"} -> 3
    [] l \in {"wait", "rmtree"} -> 4
    [] l \in {"pstart", "forget"} -> 5
    [] l = "pdelete" -> 6
    [] l = "pstop" -> 7
    [] l = "inspect" -> 8
    [] l = "restoring" -> 9
    [] l = "restore" -> 10
    [] l = "halt" -> 11
    [] l = "backup" -> BackupWork
    [] l = "select" -> BackupWork + 1
    [] l = "ensure" -> BackupWork + 3 * Attempts + 2
    [] l = "rewrite" -> BackupWork + 3 * Attempts + 3
    [] l = "persist" -> BackupWork + 3 * Attempts + 4
    [] l = "migrating" -> BackupWork + 3 * Attempts + 5
    [] l = "migrate" -> BackupWork + 3 * Attempts + 6
    [] l = "read" -> BackupWork + 3 * Attempts + 7
    [] l = "lock" -> BackupWork + 3 * Attempts + 8
    [] OTHER -> 0
Work(t) ==
  CASE pc[t] = "get" -> FetchWork(t)
    [] pc[t] = "open" -> FetchWork(t) - 1
    [] pc[t] = "transfer" -> FetchWork(t) - 2
    [] pc[t] = "unpacking" -> IF job[t].saved THEN 9 ELSE BackupWork + 1
    [] OTHER -> LabelWork(pc[t])

\* Every step of a request leaves it less to do, whatever the others do: no retry
\* goes on for ever, no operation starts over, and a request ends within a number
\* of its own steps that depends on httpRetryAttempts alone.
LessWork(t) == pc[t] # "idle" /\ <<pc'[t], job'[t]>> # <<pc[t], job[t]>> => Work(t)' < Work(t)

BoundedWork == [][\A t \in Threads : LessWork(t)]_vars

\* Every accepted request is answered, whatever the others do.
RequestReturns == \A t \in Threads : pc[t] # "idle" ~> pc[t] = "idle"

\* Reconciliation ends and the API comes up, after the last crash too.
BootCompletes == phase = "booting" ~> phase = "serving"

\* A name nobody works on and without a row has no folder content and no
\* process (README.md: "Cleanup ... tool dir + backups + db rows").
NothingLeftBehind ==
  \A n \in Names :
    db[n] = NoRow /\ (\A t \in Threads : pc[t] # "idle" => job[t].name # n)
      => pm2[n] = NotManaged /\ \A b \in Bins : files[SlugOf[n]][b] = Absent

\* A complete binary of a registered tool is only overwritten once a backup
\* holds it (README.md: "Backup before update and rollback").
ReplacedOnlyWhenSaved ==
  [][\A n \in Registered :
       LET s == SlugOf[n]  b == db[n].bin IN
       files[s][b] \in Payloads /\ files'[s][b] \notin {files[s][b], Absent}
         => files[s][b] \in ToSet(backups[s])]_vars

\* At most Keep backups remain when nobody works on the tool (README.md: "keep
\* last 3 backups").
BackupsBounded ==
  \A s \in Slugs :
    (\A t \in Threads : pc[t] # "idle" => Slug(t) # s) => Len(backups[s]) <= Keep

\* Nobody working on it and no crash, a registered tool's binary is never torn.
InstalledWhole ==
  \A n \in Registered :
    (\A t \in Threads : pc[t] # "idle" => job[t].name # n)
      => files[SlugOf[n]][db[n].bin] # Partial

\* The manager implements the registry: rows, backups and history change only
\* as ToolRegistry allows, through all interleavings, faults and crashes.
Leaving == {n \in Names : \E t \in Threads :
              pc[t] \in {"rmtree", "rmbackups", "rmversions", "rmrow"} /\ job[t].name = n}

Registry == INSTANCE ToolRegistry
  WITH Rows <- Row, Saves <- Settled, Nothing <- Absent,
       rows <- db, snaps <- backups, hist <- versions, leaving <- Leaving

RegistrySpec == Registry!Spec

-----------------------------------------------------------------------------
(* The inductive invariant *)

\* The operations whose code contains the step at a label.
Installing == {"Provision", "Update", "Configure", "Start", "Restart"}
OpsAt(l) ==
  CASE l = "lock" -> Locked
    [] l \in {"read", "migrate", "migrating", "persist"} -> AllOps \ {"Register"}
    [] l = "rewrite" -> {"Configure"}
    [] l = "ensure" -> Installing
    [] l \in {"get", "open", "transfer", "unpacking"} -> Installing \cup {"Register"}
    [] l = "select" -> {"Rollback"}
    [] l \in {"backup", "trim"} -> Updating \cup {"Rollback"}
    [] l = "halt" -> {"Stop", "Cleanup", "Rollback"}
    [] l \in {"restore", "restoring"} -> {"Rollback"}
    [] l = "inspect" -> Installing \cup {"Rollback", "Status"}
    [] l \in {"pstop", "pdelete", "pstart", "wait"} -> Installing \cup {"Rollback"}
    [] l = "save" -> Installing \cup {"Rollback", "Stop"}
    [] l = "record" -> Updating \cup {"Rollback", "Provision"}
    [] l = "create" -> {"Register"}
    [] OTHER -> {"Cleanup"}

RightOps == \A t \in Threads : pc[t] # "idle" => job[t].op \in OpsAt(pc[t])

\* A locked operation under way holds Manager.mu, ...
Mutex == \A t \in Threads :
  pc[t] \notin {"idle", "lock"} /\ job[t].op \in Locked => mu = t

\* ... and the tool it has read stays registered until it returns.
HoldsRow == \A t \in Threads :
  pc[t] \notin {"idle", "lock", "read"} /\ job[t].op \in Locked \ {"Register"}
    => db[job[t].name] # NoRow

\* Registered tools have folders of their own.
OneFolder == \A m, n \in Registered : SlugOf[m] = SlugOf[n] => m = n

\* The backup a rollback selected exists until it is restored.
PickValid == \A t \in Threads :
  pc[t] \in {"backup", "halt", "restore"} /\ job[t].op = "Rollback"
    => job[t].pick \in 1..Len(backups[Slug(t)])

\* What Cleanup has removed stays removed.
Emptied == \A t \in Threads :
  /\ pc[t] \in {"rmversions", "rmrow"} => backups[Slug(t)] = <<>>
  /\ pc[t] = "rmrow" => versions[job[t].name] = 0

\* The paths of the row a request describes are those its URL gives.
RightReq == \A t \in Threads : pc[t] # "idle" => job[t].req = Canonical(job[t].req)

\* The steps of locked operations keep rows, backups and history together
\* because the mutex is held from the read of the row to the return.
IInv == TypeOK /\ RightOps /\ RightReq /\ Mutex /\ HoldsRow /\ OneFolder /\ PickValid /\ Emptied /\ NoGhosts
==============================================================================
