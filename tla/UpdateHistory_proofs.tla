------------------------- MODULE UpdateHistory_proofs -------------------------
(***************************************************************************)
(* What an update or a rollback promises when no rival overlaps it, for     *)
(* every set of tools, threads, URLs and payloads, every choice of failing  *)
(* calls and every bound.                                                   *)
(***************************************************************************)
EXTENDS UpdateHistory, ToolManager_proofs

-----------------------------------------------------------------------------
(* What a step does to one file *)

LEMMA PutAt ==
  ASSUME NEW S, NEW f \in [Slugs -> [Bins -> S]], NEW r \in Slugs, NEW a \in Bins, NEW c,
         NEW s \in Slugs, NEW b \in Bins
  PROVE  [f EXCEPT ![r][a] = c][s][b] = IF s = r /\ b = a THEN c ELSE f[s][b]
  OBVIOUS

LEMMA CloseAt ==
  ASSUME NEW f, NEW t, NEW c, NEW s \in Slugs, NEW b \in Bins
  PROVE  Close(f, t, c)[s][b] = IF f[s][b] = t THEN c ELSE f[s][b]
  BY DEF Close

\* A thread writes in the folder of its own tool, at the steps that write.
LEMMA Writes ==
  ASSUME IInv, Owned, NEW t \in Threads, Step(t), NEW s \in Slugs, NEW b \in Bins
  PROVE  /\ files'[s][b] # files[s][b] =>
              /\ s = Slug(t)
              /\ pc[t] \in {"migrate", "migrating", "transfer", "unpacking", "restore", "restoring", "rmtree"}
              /\ pc[t] = "migrate" => pc'[t] = "migrating"
         /\ tmp'[s][b] # tmp[s][b] => s = Slug(t) /\ pc[t] \in {"get", "open", "transfer", "rmtree"}
         /\ files'[s][b] = t => s = Slug(t) /\ pc'[t] \in {"migrating", "unpacking", "restoring"}
         /\ tmp'[s][b] = t => s = Slug(t) /\ pc'[t] = "transfer" /\ b = Fetched(t).bin
         /\ files'[s][b] \in Threads \ {t} => files'[s][b] \in {files[s][b], tmp[s][b]}
         /\ tmp'[s][b] \in Threads \ {t} => tmp'[s][b] = tmp[s][b]
<1>0. ControlOK /\ DataOK /\ TypeOK
  BY TypeParts DEF IInv
<1>1. /\ files \in [Slugs -> [Bins -> Contents]]
      /\ tmp \in [Slugs -> [Bins -> {Absent, Partial} \cup Threads]]
      /\ Absent \notin Threads /\ Partial \notin Threads
  BY <1>0, SeparateValues DEF DataOK
<1>2. /\ Slug(t) \in Slugs /\ job[t].want \in Settled /\ job[t].want \notin Threads
      /\ Fetched(t).bin \in Bins /\ Target(t).bin \in Bins /\ BinOf[job[t].row.url] \in Bins
      /\ job[t].op \in OpsAt(pc[t])
  BY <1>0, Shape, JobTypes, SeparateValues DEF Row, Settled, IInv, RightOps
<1>3. /\ files[s][b] = t => pc[t] \in {"transfer", "unpacking", "restoring", "migrating"} /\ s = Slug(t)
      /\ tmp[s][b] = t => pc[t] = "transfer" /\ s = Slug(t) /\ b = Fetched(t).bin
  BY DEF Owned
<1>4. /\ Close(files, t, job[t].want)[s][b] = IF files[s][b] = t THEN job[t].want ELSE files[s][b]
      /\ Close(files, t, Partial)[s][b] = IF files[s][b] = t THEN Partial ELSE files[s][b]
      /\ Close(tmp, t, Partial)[s][b] = IF tmp[s][b] = t THEN Partial ELSE tmp[s][b]
  BY CloseAt
<1>5. CASE files' = files /\ tmp' = tmp /\ pc[t] \notin {"transfer", "unpacking", "restoring", "migrating"}
  BY <1>3, <1>5
<1>6. CASE Migrate(t)
  <2>1. tmp' = tmp /\ pc[t] = "migrate"
    BY <1>6 DEF Migrate
  <2>2. CASE files' = files
    BY <1>5, <2>1, <2>2
  <2>3. CASE Put(Slug(t), BinOf[job[t].row.url], t) /\ pc'[t] = "migrating"
    <3>1. files'[s][b] = IF s = Slug(t) /\ b = BinOf[job[t].row.url] THEN t ELSE files[s][b]
      BY <1>1, <1>2, <2>3 DEF Put
    <3> QED
      BY <1>3, <2>1, <2>3, <3>1
  <2> QED
    BY <1>0, <1>6, <2>2, <2>3 DEF Migrate, Goto, ControlOK
<1>7. CASE Migrated(t) \/ Unpacked(t) \/ TornCopy(t) \/ Restored(t)
  BY <1>1, <1>2, <1>3, <1>4, <1>7 DEF Migrated, Unpacked, TornCopy, Restored
<1>8. CASE Get(t)
  BY <1>1, <1>2, <1>3, <1>8 DEF Get
<1>9. CASE Open(t)
  <2>1. tmp'[s][b] = IF s = Slug(t) /\ b = Fetched(t).bin THEN t ELSE tmp[s][b]
    BY <1>1, <1>2, <1>9 DEF Open
  <2>2. files' = files /\ pc[t] = "open" /\ pc'[t] = "transfer"
    BY <1>0, <1>9 DEF Open, Goto, ControlOK
  <2> QED
    BY <1>3, <2>1, <2>2
<1>10. CASE Activate(t)
  <2> DEFINE r == Slug(t)  a == Fetched(t).bin  w == Close(files, t, job[t].want)
  <2>1. w \in [Slugs -> [Bins -> Contents]] /\ pc[t] = "transfer"
    BY <1>1, <1>2, <1>10, CloseType DEF Activate, Settled, Contents
  <2>2. \/ tmp' = [tmp EXCEPT ![r][a] = Absent]
        \/ tmp' = [tmp EXCEPT ![r] = [c \in Bins |-> Absent]]
    BY <1>10 DEF Activate
  <2>3. tmp'[s][b] \in {Absent, tmp[s][b]} /\ (tmp'[s][b] # tmp[s][b] => s = r) /\ tmp'[s][b] # t
    BY <1>1, <1>2, <1>3, <2>2
  <2>4. \/ files' = w
        \/ files' = [w EXCEPT ![r][a] = job[t].want]
        \/ files' = [w EXCEPT ![r][a] = t] /\ pc'[t] = "unpacking"
        \/ files' = [w EXCEPT ![r][a] = tmp[r][a]] /\ tmp[r][a] # t
    BY <1>0, <1>10 DEF Activate, Goto, ControlOK
  <2>5. CASE s = r /\ b = a
    BY <1>1, <1>2, <1>3, <1>4, <2>1, <2>3, <2>4, <2>5
  <2>6. CASE ~(s = r /\ b = a)
    <3>1. files'[s][b] = w[s][b]
      BY <1>2, <2>1, <2>4, <2>6
    <3> QED
      BY <1>1, <1>2, <1>3, <1>4, <2>1, <2>3, <3>1
  <2> QED
    BY <2>5, <2>6
<1>11. CASE TornTransfer(t)
  <2>1. pc[t] = "transfer" /\ files' = Close(files, t, Partial)
    BY <1>11 DEF TornTransfer
  <2>2. tmp' = Close(tmp, t, Partial) \/ tmp' = [tmp EXCEPT ![Slug(t)][Fetched(t).bin] = Absent]
    BY <1>11 DEF TornTransfer
  <2>3. tmp'[s][b] \in {Absent, Partial, tmp[s][b]} /\ (tmp'[s][b] # tmp[s][b] => s = Slug(t)) /\ tmp'[s][b] # t
    BY <1>1, <1>2, <1>3, <1>4, <2>2
  <2> QED
    BY <1>1, <1>3, <1>4, <2>1, <2>3
<1>12. CASE Restore(t)
  <2>1. tmp' = tmp /\ pc[t] = "restore"
    BY <1>12 DEF Restore
  <2>2. CASE files' = files
    BY <1>5, <2>1, <2>2
  <2>3. CASE Put(Slug(t), Target(t).bin, t) /\ pc'[t] = "restoring"
    <3>1. files'[s][b] = IF s = Slug(t) /\ b = Target(t).bin THEN t ELSE files[s][b]
      BY <1>1, <1>2, <2>3 DEF Put
    <3> QED
      BY <1>3, <2>1, <2>3, <3>1
  <2> QED
    BY <1>0, <1>12, <2>2, <2>3 DEF Restore, Goto, ControlOK
<1>13. CASE pc[t] = "rmtree" /\ (RemoveTree(t) \/ TornRemoval(t))
  <2>1. PICK B : files' = [files EXCEPT ![Slug(t)] = Without(files[Slug(t)], B)]
    BY <1>13 DEF RemoveTree, TornRemoval
  <2>2. PICK C : tmp' = [tmp EXCEPT ![Slug(t)] = Without(tmp[Slug(t)], C)]
    BY <1>13 DEF RemoveTree, TornRemoval
  <2>3. files'[s][b] = files[s][b] \/ (files'[s][b] = Absent /\ s = Slug(t))
    BY <1>1, <1>2, <2>1 DEF Without
  <2>4. tmp'[s][b] = tmp[s][b] \/ (tmp'[s][b] = Absent /\ s = Slug(t))
    BY <1>1, <1>2, <2>2 DEF Without
  <2> QED
    BY <1>1, <1>3, <1>13, <2>3, <2>4
<1>14. CASE \/ ReadRow(t) \/ Persist(t) \/ Rewrite(t) \/ Ensure(t) \/ GetFails(t)
            \/ Backup(t) \/ TornBackup(t) \/ Select(t) \/ Trim(t) \/ Record(t)
  BY <1>5, <1>14 DEF disk, ReadRow, Persist, Rewrite, Ensure, GetFails, Backup, TornBackup,
     Select, Trim, Record
<1>15. CASE \/ Halt(t) \/ Inspect(t) \/ StopOld(t) \/ DeleteOld(t) \/ StartNew(t)
            \/ Online(t) \/ NotOnline(t) \/ Save(t) \/ Create(t) \/ Forget(t)
  BY <1>5, <1>15 DEF disk, Halt, Inspect, StopOld, DeleteOld, StartNew, Online, NotOnline,
     Save, Create, Forget
<1>16. CASE RemoveBackups(t) \/ RemoveVersions(t) \/ RemoveRow(t) \/ Fail(t)
  BY <1>5, <1>16 DEF disk, RemoveBackups, RemoveVersions, RemoveRow, Fail, Fallible
<1>17. CASE pc[t] = "rmbackups" /\ TornRemoval(t)
  BY <1>5, <1>17 DEF TornRemoval
<1>18. (RemoveTree(t) => pc[t] = "rmtree") /\ (TornRemoval(t) => pc[t] \in {"rmtree", "rmbackups"})
  BY DEF RemoveTree, TornRemoval
<1> QED
  BY <1>6, <1>7, <1>8, <1>9, <1>10, <1>11, <1>12, <1>13, <1>14, <1>15, <1>16, <1>17, <1>18 DEF Step

\* What a thread begins to write bears its own name.
LEMMA Begins ==
  ASSUME IInv, NEW t \in Threads, Step(t)
  PROVE  /\ pc'[t] = "transfer" => tmp'[Slug(t)][Fetched(t).bin] = t
         /\ pc'[t] = "unpacking" => files'[Slug(t)][Fetched(t).bin] = t
         /\ pc'[t] = "restoring" => files'[Slug(t)][Target(t).bin] = t
<1>0. ControlOK /\ DataOK /\ TypeOK
  BY TypeParts DEF IInv
<1>1. /\ Slug(t) \in Slugs /\ Fetched(t).bin \in Bins /\ Target(t).bin \in Bins
      /\ job[t].want \in Contents
  BY <1>0, Shape, JobTypes DEF Row, Settled, Contents
<1>2. pc'[t] # "idle" => pc'[t] \in After(pc[t])
  BY SelfKept, Flow
<1>3. CASE pc'[t] = "transfer"
  <2>1. Open(t)
    BY <1>0, <1>2, <1>3, StepsAt DEF After, GetFails, RetryOrReturn, Return, Goto, ControlOK
  <2> QED
    BY <1>0, <1>1, <1>3, <2>1 DEF Open, DataOK
<1>4. CASE pc'[t] = "unpacking"
  <2> DEFINE w == Close(files, t, job[t].want)
  <2>1. Activate(t)
    BY <1>0, <1>2, <1>4, StepsAt DEF After, TornTransfer, RetryOrReturn, Return, Goto, ControlOK
  <2>2. w \in [Slugs -> [Bins -> Contents]]
    BY <1>0, <1>1, CloseType DEF DataOK
  <2>3. files' = [w EXCEPT ![Slug(t)][Fetched(t).bin] = t]
    BY <1>0, <1>4, <2>1 DEF Activate, AfterFetch, Ensured, Return, Goto, ControlOK
  <2> QED
    BY <1>1, <1>4, <2>2, <2>3
<1>5. CASE pc'[t] = "restoring"
  <2>1. Restore(t)
    BY <1>0, <1>2, <1>5, StepsAt DEF After, Fail, Return, Goto, ControlOK
  <2> QED
    BY <1>0, <1>1, <1>5, <2>1 DEF Restore, Put, Return, Goto, DataOK, ControlOK
<1> QED
  BY <1>3, <1>4, <1>5

\* Only a cleanup takes a file away.
LEMMA StillThere ==
  ASSUME IInv, WantKnown, NEW t \in Threads, Step(t), pc[t] # "rmtree",
         NEW s \in Slugs, NEW b \in Bins, files[s][b] # Absent
  PROVE  files'[s][b] # Absent
<1>0. ControlOK /\ DataOK /\ TypeOK
  BY TypeParts DEF IInv
<1>1. /\ files \in [Slugs -> [Bins -> Contents]]
      /\ tmp \in [Slugs -> [Bins -> {Absent, Partial} \cup Threads]]
      /\ Absent \notin Threads /\ Absent # Partial
  BY <1>0, SeparateValues DEF DataOK
<1>2. /\ Slug(t) \in Slugs /\ job[t].want \in Settled
      /\ Fetched(t).bin \in Bins /\ Target(t).bin \in Bins /\ BinOf[job[t].row.url] \in Bins
  BY <1>0, Shape, JobTypes DEF Row
<1>3. pc[t] \in {"transfer", "unpacking", "restoring", "migrating"} => job[t].want # Absent
  BY DEF WantKnown
<1>4. /\ Close(files, t, job[t].want)[s][b] = IF files[s][b] = t THEN job[t].want ELSE files[s][b]
      /\ Close(files, t, Partial)[s][b] = IF files[s][b] = t THEN Partial ELSE files[s][b]
  BY CloseAt
<1>5. CASE files' = files
  BY <1>5
<1>6. CASE Migrate(t)
  BY <1>1, <1>2, <1>6 DEF Migrate, Put
<1>7. CASE Migrated(t) \/ Unpacked(t) \/ TornCopy(t) \/ Restored(t) \/ TornTransfer(t)
  BY <1>1, <1>3, <1>4, <1>7 DEF Migrated, Unpacked, TornCopy, Restored, TornTransfer
<1>8. CASE Activate(t)
  <2> DEFINE r == Slug(t)  a == Fetched(t).bin  w == Close(files, t, job[t].want)
  <2>1. w \in [Slugs -> [Bins -> Contents]] /\ pc[t] = "transfer"
    BY <1>1, <1>2, <1>8, CloseType DEF Activate, Settled, Contents
  <2>2. w[s][b] # Absent
    BY <1>3, <1>4, <2>1
  <2>3. files' = w \/ \E c \in Contents \ {Absent} : files' = [w EXCEPT ![r][a] = c]
    <3>1. job[t].want \in Contents \ {Absent} /\ t \in Contents \ {Absent}
      BY <1>1, <1>2, <1>3, <2>1 DEF Settled, Contents
    <3>2. tmp[r][a] # Absent => tmp[r][a] \in Contents \ {Absent}
      BY <1>1, <1>2 DEF Contents
    <3> QED
      BY <1>8, <3>1, <3>2 DEF Activate
  <2> QED
    BY <1>2, <2>1, <2>2, <2>3
<1>9. CASE Restore(t)
  BY <1>1, <1>2, <1>9 DEF Restore, Put
<1>10. CASE RemoveTree(t) \/ TornRemoval(t)
  BY <1>5, <1>10 DEF RemoveTree, TornRemoval
<1>11. CASE \/ ReadRow(t) \/ Persist(t) \/ Rewrite(t) \/ Ensure(t) \/ Get(t) \/ GetFails(t) \/ Open(t)
            \/ Backup(t) \/ TornBackup(t) \/ Select(t) \/ Trim(t) \/ Record(t)
  BY <1>5, <1>11 DEF disk, ReadRow, Persist, Rewrite, Ensure, Get, GetFails, Open, Backup,
     TornBackup, Select, Trim, Record
<1>12. CASE \/ Halt(t) \/ Inspect(t) \/ StopOld(t) \/ DeleteOld(t) \/ StartNew(t)
            \/ Online(t) \/ NotOnline(t) \/ Save(t) \/ Create(t) \/ Forget(t)
  BY <1>5, <1>12 DEF disk, Halt, Inspect, StopOld, DeleteOld, StartNew, Online, NotOnline,
     Save, Create, Forget
<1>13. CASE RemoveBackups(t) \/ RemoveVersions(t) \/ RemoveRow(t) \/ Fail(t)
  BY <1>5, <1>13 DEF disk, RemoveBackups, RemoveVersions, RemoveRow, Fail
<1> QED
  BY <1>6, <1>7, <1>8, <1>9, <1>10, <1>11, <1>12, <1>13 DEF Step

\* A process is new only if the thread has just started it, from its binary.
LEMMA Processes ==
  ASSUME IInv, NEW t \in Threads, Step(t), NEW n \in Names
  PROVE  \/ pm2'[n] = NotManaged
         \/ pm2[n] # NotManaged /\ pm2'[n].img = pm2[n].img
         \/ /\ StartNew(t) /\ n = job[t].name
            /\ pm2'[n].img = Seen(files[Slug(t)][Target(t).bin])
<1>0. DataOK /\ TypeOK
  BY TypeParts DEF IInv
<1>1. pm2 \in [Names -> Image \cup {NotManaged}] /\ job[t].name \in Names
  BY <1>0, Shape, JobTypes DEF DataOK
<1>2. CASE UNCHANGED pm2
  BY <1>2
<1>3. CASE Halt(t) \/ StopOld(t)
  <2> DEFINE m == job[t].name
  <2>1. CASE pm2[m] = NotManaged
    BY <1>1, <1>2, <1>3, <2>1 DEF Halt, StopOld, SetPm2
  <2>2. CASE pm2[m] # NotManaged
    <3>1. pm2[m] \in Image /\ [pm2[m] EXCEPT !.st = "stopped"].img = pm2[m].img
      BY <1>1, <2>2 DEF Image
    <3>2. pm2' = pm2 \/ pm2' = [pm2 EXCEPT ![m] = [pm2[m] EXCEPT !.st = "stopped"]]
      BY <1>3, <2>2 DEF Halt, StopOld, SetPm2
    <3> QED
      BY <1>1, <2>2, <3>1, <3>2
  <2> QED
    BY <2>1, <2>2
<1>4. CASE DeleteOld(t) \/ Forget(t)
  BY <1>1, <1>4 DEF DeleteOld, Forget, SetPm2
<1>5. CASE StartNew(t)
  BY <1>1, <1>5 DEF StartNew, SetPm2
<1>6. CASE \/ ReadRow(t) \/ Migrate(t) \/ Migrated(t) \/ Persist(t) \/ Rewrite(t) \/ Ensure(t)
           \/ Get(t) \/ GetFails(t) \/ Open(t)
  BY <1>2, <1>6 DEF ReadRow, Migrate, Migrated, Persist, Rewrite, Ensure, Get, GetFails, Open
<1>7. CASE \/ Activate(t) \/ Unpacked(t) \/ TornTransfer(t) \/ TornCopy(t) \/ Backup(t)
           \/ TornBackup(t) \/ Select(t) \/ Restore(t) \/ Restored(t) \/ Trim(t) \/ Record(t)
  BY <1>2, <1>7 DEF Activate, Unpacked, TornTransfer, TornCopy, Backup, TornBackup, Select,
     Restore, Restored, Trim, Record
<1>8. CASE \/ Inspect(t) \/ Online(t) \/ NotOnline(t) \/ Save(t) \/ Create(t) \/ RemoveTree(t)
           \/ RemoveBackups(t) \/ TornRemoval(t) \/ RemoveVersions(t) \/ RemoveRow(t) \/ Fail(t)
  BY <1>2, <1>8 DEF Inspect, Online, NotOnline, Save, Create, RemoveTree, RemoveBackups,
     TornRemoval, RemoveVersions, RemoveRow, Fail
<1> QED
  BY <1>3, <1>4, <1>5, <1>6, <1>7, <1>8 DEF Step

-----------------------------------------------------------------------------
(* A thread and those beside it *)

\* What is computed from a job is what it was if the job is.
LEMMA SameJob ==
  ASSUME NEW t, job'[t] = job[t]
  PROVE  /\ Slug(t)' = Slug(t) /\ Target(t)' = Target(t) /\ Fetched(t)' = Fetched(t)
         /\ Installs(t)' = Installs(t)
  BY DEF Slug, Target, Fetched, Installs

\* What a step of its own leaves of a job.
LEMMA OwnJob ==
  ASSUME IInv, NEW t \in Threads, Step(t), pc'[t] # "idle"
  PROVE  /\ job'[t].op = job[t].op /\ job'[t].name = job[t].name /\ Slug(t)' = Slug(t)
         /\ pc[t] \notin {"read", "persist"} => job'[t].row = job[t].row /\ Target(t)' = Target(t)
         /\ pc[t] \notin {"read", "persist", "backup"}
              => job'[t].saved = job[t].saved /\ Fetched(t)' = Fetched(t)
         /\ pc[t] \notin {"migrate", "migrating", "open", "restore"} => job'[t].want = job[t].want
         /\ pc[t] \notin {"read", "persist", "migrate", "migrating", "open", "restore"}
              => Installs(t)' = Installs(t)
         /\ pc'[t] \in After(pc[t])
<1>1. Moves(t) /\ job'[t].op = job[t].op /\ job'[t].name = job[t].name
  BY SelfKept
<1>2. /\ job'[t].req = job[t].req
      /\ pc[t] \notin {"read", "persist"} => job'[t].row = job[t].row
      /\ pc[t] # "backup" => job'[t].saved = job[t].saved
      /\ pc[t] \notin {"migrate", "migrating", "open", "restore"} => job'[t].want = job[t].want
      /\ pc'[t] \in After(pc[t])
  BY <1>1, Locals, Flow DEF ReadRow, Persist, Backup, Migrate, Migrated, Open, Restore
<1> QED
  BY <1>1, <1>2 DEF Slug, Target, Fetched, Installs

\* Undisturbed after a step, a thread has no rival then, and had none before.
LEMMA Clear ==
  ASSUME RacedKnown, HNext, NEW t \in Threads, Undisturbed(t)'
  PROVE  /\ UnderWay(t)'
         /\ \A u \in Threads : ~Rival(t, u)'
         /\ UnderWay(t) => Undisturbed(t) /\ \A u \in Threads : ~Rival(t, u)
<1>1. UnderWay(t)' /\ t \notin raced'
  BY DEF Undisturbed
<1>2. ~(t \in raced \/ \E u \in Threads : Rival(t, u)')
  BY <1>1 DEF HNext
<1> QED
  BY <1>1, <1>2 DEF RacedKnown, Undisturbed

\* Nobody writes the folder or the backups of an undisturbed update beside it, nor
\* starts another of its executables.
LEMMA Beside ==
  ASSUME IInv, Owned, RacedKnown, HNext, NEW t \in Threads, NEW u \in Threads, u # t, Step(u),
         Undisturbed(t)', UnderWay(t), job[t].op \in Updating \cup {"Rollback"}
  PROVE  /\ \A b \in Bins : /\ files'[Slug(t)][b] = files[Slug(t)][b]
                            /\ tmp'[Slug(t)][b] = tmp[Slug(t)][b]
         /\ backups'[Slug(t)] = backups[Slug(t)]
         /\ LET n == job[t].name IN
            \/ pm2'[n] = NotManaged
            \/ pm2[n] # NotManaged /\ pm2'[n].img = pm2[n].img
            \/ pm2'[n].img = Seen(files[Slug(t)][Target(t).bin])
<1>0. TypeOK
  BY DEF IInv
<1>1. /\ mu = t /\ Slug(t) \in Slugs /\ job[t].name \in Names
      /\ pc'[t] = pc[t] /\ job'[t] = job[t]
  BY <1>0, OthersKept, JobTypes DEF IInv, Mutex, UnderWay, Updating, Locked
<1>2. ~Rival(t, u) /\ ~Rival(t, u)'
  BY Clear
<1>3. pc[u] \notin {"idle", "lock"} /\ job[u].op \notin Locked /\ job[u].op \in OpsAt(pc[u])
  BY <1>1, Shape DEF IInv, Mutex, RightOps
<1>4. pc[u] \notin {"restore", "restoring", "rmtree", "backup", "trim", "rmbackups"}
  BY <1>3 DEF OpsAt, Locked, Updating
<1>5. Slug(u) = Slug(t) =>
        /\ pc[u] \notin {"get", "open", "transfer", "unpacking", "migrating"}
        /\ pc'[u] # "migrating"
  <2>1. pc'[u] = "migrating" => Slug(u)' = Slug(u) /\ Slug(t)' = Slug(t)
    BY <1>1, SelfKept, SameJob DEF Slug
  <2> QED
    BY <1>2, <2>1 DEF Rival, Writing
<1>6. ASSUME NEW b \in Bins
      PROVE  files'[Slug(t)][b] = files[Slug(t)][b] /\ tmp'[Slug(t)][b] = tmp[Slug(t)][b]
  BY <1>1, <1>4, <1>5, Writes
<1>7. backups'[Slug(t)] = backups[Slug(t)]
  BY <1>1, <1>4, BackupsStep
<1>8. StartNew(u) /\ job[t].name = job[u].name
        => Slug(u) = Slug(t) /\ Target(u).bin = Target(t).bin
  BY <1>2 DEF StartNew, Slug, Rival, Starting
<1> QED
  BY <1>1, <1>6, <1>7, <1>8, Processes

-----------------------------------------------------------------------------
(* A step preserves the parts that hold of every thread *)

LEMMA OwnedStep ==
  ASSUME IInv, Owned, NEW t \in Threads, Step(t)
  PROVE  Owned'
<1> SUFFICES ASSUME NEW s \in Slugs, NEW b \in Bins, NEW u \in Threads
             PROVE  /\ files'[s][b] = u =>
                         pc'[u] \in {"transfer", "unpacking", "restoring", "migrating"} /\ Slug(u)' = s
                    /\ tmp'[s][b] = u => pc'[u] = "transfer" /\ Slug(u)' = s /\ b = Fetched(u)'.bin
  BY DEF Owned
<1>1. CASE u = t
  <2>1. CASE pc'[t] = "idle"
    BY <1>1, <2>1, Writes
  <2>2. CASE pc'[t] # "idle"
    <3>1. Slug(t)' = Slug(t) /\ (pc'[t] = "transfer" => Fetched(t)' = Fetched(t))
      BY <2>2, OwnJob DEF After
    <3> QED
      BY <1>1, <3>1, Writes
  <2> QED
    BY <2>1, <2>2
<1>2. CASE u # t
  <2>1. pc'[u] = pc[u] /\ Slug(u)' = Slug(u) /\ Fetched(u)' = Fetched(u)
    BY <1>2, OthersKept, SameJob
  <2>2. files'[s][b] = u => files[s][b] = u \/ tmp[s][b] = u
    BY <1>2, Writes
  <2>3. tmp'[s][b] = u => tmp[s][b] = u
    BY <1>2, Writes
  <2> QED
    BY <2>1, <2>2, <2>3 DEF Owned
<1> QED
  BY <1>1, <1>2

LEMMA BackedStep ==
  ASSUME IInv, Backed, NEW t \in Threads, Step(t)
  PROVE  Backed'
<1> SUFFICES ASSUME NEW u \in Threads, pc'[u] # "idle", job'[u].saved
             PROVE  /\ job'[u].op \in Updating \cup {"Rollback"}
                    /\ pc'[u] \notin {"lock", "read", "migrate", "migrating", "persist", "rewrite", "select", "ensure"}
  BY DEF Backed
<1>1. CASE u # t
  BY <1>1, OthersKept DEF Backed
<1>2. CASE u = t
  <2>1. /\ job'[t].op = job[t].op /\ pc'[t] \in After(pc[t]) /\ pc[t] # "idle"
        /\ job[t].op \in OpsAt(pc[t])
    BY <1>2, OwnJob, SelfKept
  <2>2. CASE job[t].saved
    BY <1>2, <2>1, <2>2 DEF Backed, After
  <2>3. CASE ~job[t].saved
    <3>1. Backup(t)
      BY <1>2, <2>3, Locals, SelfKept
    <3> QED
      BY <1>2, <2>1, <3>1 DEF Backup, OpsAt, After
  <2> QED
    BY <2>2, <2>3
<1> QED
  BY <1>1, <1>2

LEMMA WantKnownStep ==
  ASSUME IInv, WantKnown, NEW t \in Threads, Step(t)
  PROVE  WantKnown'
<1> DEFINE Before == {"lock", "read", "migrate", "persist", "select", "backup", "halt", "restore"}
<1> SUFFICES ASSUME NEW u \in Threads
             PROVE  /\ pc'[u] \in {"transfer", "unpacking", "restoring", "migrating"} => job'[u].want # Absent
                    /\ pc'[u] \in Before /\ job'[u].op = "Rollback" => job'[u].want = Absent
  BY DEF WantKnown
<1>1. CASE u # t
  BY <1>1, OthersKept DEF WantKnown
<1>2. CASE u = t /\ pc'[t] = "idle"
  BY <1>2
<1>3. CASE u = t /\ pc'[t] # "idle"
  <2>0. ControlOK /\ DataOK /\ TypeOK
    BY TypeParts DEF IInv
  <2>1. /\ Moves(t) /\ job'[t].op = job[t].op /\ pc'[t] \in After(pc[t])
        /\ job[t].op \in OpsAt(pc[t]) /\ job'[t].op \in OpsAt(pc'[t])
    BY <1>3, OwnJob, SelfKept DEF Moves
  <2>2. job[t] \in Job /\ Slug(t) \in Slugs /\ job[t].row.bin \in Bins /\ Fetched(t).url \in Urls
    BY <2>0, Shape, JobTypes DEF Row
  <2>3. CASE Migrate(t)
    BY <1>3, <2>0, <2>2, <2>3, SeparateValues DEF Migrate, Goto, ControlOK, Job, Seen, WantKnown
  <2>4. CASE Migrated(t)
    BY <1>3, <2>0, <2>2, <2>4 DEF Migrated, Goto, ControlOK, Job
  <2>5. CASE Open(t)
    <3>1. \E c \in Payloads \cup {Partial} : job' = [job EXCEPT ![t].want = c]
      BY <2>2, <2>5, ConstantsAssumption DEF Open
    <3>2. job'[t].want # Absent /\ pc'[t] = "transfer"
      BY <2>0, <2>2, <2>5, <3>1, SeparateValues DEF Open, Goto, ControlOK, Job
    <3> QED
      BY <1>3, <3>2
  <2>6. CASE Restore(t)
    BY <1>3, <2>0, <2>2, <2>6 DEF Restore, Goto, Return, ControlOK, Job
  <2>7. CASE ~(Migrate(t) \/ Migrated(t) \/ Open(t) \/ Restore(t))
    <3>1. job'[t].want = job[t].want /\ pc[t] # "migrating"
      BY <2>1, <2>7, Locals, StepsAt
    <3>2. pc'[t] \notin {"transfer", "restoring", "migrating"}
      <4>1. pc[t] \notin {"migrate", "restore", "open"} \/ pc'[t] \in {"idle", "get"}
        BY <2>0, <2>7, StepsAt DEF GetFails, RetryOrReturn, Fail, Return, Goto, ControlOK
      <4> QED
        BY <2>1, <4>1 DEF After
    <3>3. /\ pc'[t] = "unpacking" => pc[t] = "transfer"
          /\ pc'[t] \in Before => pc[t] \in Before \cup {"ensure", "transfer", "unpacking"}
      BY <2>1, <3>1 DEF After
    <3> QED
      BY <1>3, <2>1, <3>1, <3>2, <3>3 DEF WantKnown, OpsAt, Installing
  <2> QED
    BY <2>3, <2>4, <2>5, <2>6, <2>7
<1> QED
  BY <1>1, <1>2, <1>3

LEMMA PresentStep ==
  ASSUME IInv, Backed, WantKnown, Present, NEW t \in Threads, Step(t)
  PROVE  Present'
<1> SUFFICES ASSUME NEW u \in Threads, pc'[u] # "idle", job'[u].op \in Updating
             PROVE  /\ pc'[u] = "backup" \/ (job'[u].saved /\ pc'[u] \in {"get", "open", "transfer"})
                         => files'[Slug(u)'][job'[u].row.bin] # Absent
                    /\ pc'[u] = "unpacking" => files'[Slug(u)'][Fetched(u)'.bin] # Absent
  BY DEF Present
<1>0. ControlOK /\ DataOK /\ TypeOK
  BY TypeParts DEF IInv
<1>1. CASE u # t
  <2>1. pc'[u] = pc[u] /\ job'[u] = job[u] /\ Slug(u)' = Slug(u) /\ Fetched(u)' = Fetched(u)
    BY <1>1, OthersKept, SameJob
  <2>2. Slug(u) \in Slugs /\ job[u].row.bin \in Bins /\ Fetched(u).bin \in Bins
    BY <1>0, <2>1, JobTypes DEF Row
  <2>3. pc'[u] \in {"backup", "get", "open", "transfer", "unpacking"} => pc[t] # "rmtree"
    BY <1>1, <2>1, Shape DEF IInv, Mutex, RightOps, OpsAt, Updating, Locked
  <2> QED
    BY <2>1, <2>2, <2>3, StillThere DEF Present
<1>2. CASE u = t
  <2>1. /\ job'[t].op = job[t].op /\ pc'[t] \in After(pc[t]) /\ Slug(t)' = Slug(t)
        /\ pc[t] # "idle" /\ job[t].op \in OpsAt(pc[t])
    BY <1>2, OwnJob, SelfKept
  <2>2. Slug(t) \in Slugs /\ job[t].row.bin \in Bins /\ Fetched(t).bin \in Bins
    BY <1>0, <2>1, JobTypes DEF Row
  <2>3. CASE pc'[t] = "backup"
    <3>1. pc[t] \in {"ensure", "transfer", "unpacking"} /\ job'[t].row = job[t].row
      BY <1>2, <2>1, <2>3, OwnJob DEF After, OpsAt, Updating
    <3>2. CASE pc[t] = "ensure"
      BY <1>0, <1>2, <2>1, <2>3, <3>1, <3>2, StepsAt DEF Ensure, Fail, Return, Goto, disk, ControlOK
    <3>3. CASE pc[t] = "transfer"
      <4>1. ~job[t].saved /\ Fetched(t) = job[t].row
        BY <1>2, <2>1, <2>3, <3>3, SelfKept, Flow DEF Fetched
      <4>2. Activate(t) /\ ~Return(t)
        BY <1>0, <2>3, <3>3, StepsAt DEF TornTransfer, RetryOrReturn, Return, Goto, ControlOK
      <4>3. files'[Slug(t)][Fetched(t).bin] # Absent
        <5> DEFINE s == Slug(t)  b == Fetched(t).bin  w == Close(files, t, job[t].want)
        <5>1. w \in [Slugs -> [Bins -> Contents]] /\ job[t].want # Absent
          BY <1>0, <2>1, <3>3, JobTypes, CloseType DEF DataOK, Settled, Contents, WantKnown
        <5>2. w[s][b] = IF files[s][b] = t THEN job[t].want ELSE files[s][b]
          BY <2>2, CloseAt
        <5> QED
          BY <1>0, <2>2, <2>3, <4>2, <5>1, <5>2, SeparateValues DEF Activate, Goto, ControlOK
      <4> QED
        BY <1>2, <2>1, <2>3, <3>1, <4>1, <4>3
    <3>4. CASE pc[t] = "unpacking"
      <4>1. ~job[t].saved /\ Fetched(t) = job[t].row
        BY <1>2, <2>1, <2>3, <3>4, SelfKept, Flow DEF Fetched
      <4>2. files[Slug(t)][Fetched(t).bin] # Absent
        BY <1>2, <2>1, <3>4 DEF Present
      <4> QED
        BY <1>2, <2>1, <2>2, <2>3, <3>1, <3>4, <4>1, <4>2, StillThere
    <3> QED
      BY <1>2, <2>1, <2>3, <3>1, <3>2, <3>3, <3>4
  <2>4. CASE job'[t].saved /\ pc'[t] \in {"get", "open", "transfer"}
    <3>1. pc[t] \in {"ensure", "backup", "get", "open", "transfer"} /\ job'[t].row = job[t].row
      BY <1>2, <2>1, <2>4, OwnJob DEF After
    <3>2. pc[t] # "backup" => job[t].saved /\ pc[t] # "ensure"
      BY <1>2, <2>1, <2>4, <3>1, OwnJob DEF Backed
    <3>3. files[Slug(t)][job[t].row.bin] # Absent
      BY <1>2, <2>1, <3>1, <3>2 DEF Present
    <3> QED
      BY <1>2, <2>1, <2>2, <2>4, <3>1, <3>3, StillThere
  <2>5. CASE pc'[t] = "unpacking"
    <3>1. pc[t] = "transfer" /\ Fetched(t)' = Fetched(t)
      BY <1>2, <2>1, <2>5, OwnJob DEF After
    <3>2. files'[Slug(t)][Fetched(t).bin] = t
      BY <2>5, Begins
    <3> QED
      BY <1>2, <2>1, <2>5, <3>1, <3>2, SeparateValues
  <2> QED
    BY <1>2, <2>3, <2>4, <2>5
<1> QED
  BY <1>1, <1>2

-----------------------------------------------------------------------------
(* A step preserves what holds of the undisturbed *)

LEMMA HoldingStep ==
  ASSUME IInv, Owned, RacedKnown, Holding, HNext, NEW t \in Threads, Step(t)
  PROVE  Holding'
<1> SUFFICES ASSUME NEW u \in Threads, Undisturbed(u)', job'[u].op \in Updating \cup {"Rollback"},
                    pc'[u] \in {"transfer", "unpacking", "restoring"}
             PROVE  /\ pc'[u] = "transfer" => tmp'[Slug(u)'][Fetched(u)'.bin] = u
                    /\ pc'[u] = "unpacking" => files'[Slug(u)'][Fetched(u)'.bin] = u
                    /\ pc'[u] = "restoring" => files'[Slug(u)'][Target(u)'.bin] = u
  BY DEF Holding
<1>1. CASE u # t
  <2>1. /\ pc'[u] = pc[u] /\ job'[u] = job[u]
        /\ Slug(u)' = Slug(u) /\ Fetched(u)' = Fetched(u) /\ Target(u)' = Target(u)
    BY <1>1, OthersKept, SameJob
  <2>2. UnderWay(u) /\ Undisturbed(u)
    BY <2>1, Clear DEF UnderWay
  <2>3. Fetched(u).bin \in Bins /\ Target(u).bin \in Bins
    BY <2>1, JobTypes DEF IInv, Row
  <2> QED
    BY <1>1, <2>1, <2>2, <2>3, Beside DEF Holding
<1>2. CASE u = t
  <2>1. pc[t] \in {"open", "transfer", "restore"} /\ pc'[t] \in After(pc[t])
    BY <1>2, OwnJob DEF After
  <2>2. Slug(t)' = Slug(t) /\ Target(t)' = Target(t) /\ Fetched(t)' = Fetched(t)
    BY <1>2, <2>1, OwnJob
  <2> QED
    BY <1>2, <2>2, Begins
<1> QED
  BY <1>1, <1>2

LEMMA SnapshotStep ==
  ASSUME IInv, Owned, Backed, Present, RacedKnown, SnapshotHeld, HNext, NEW t \in Threads, Step(t)
  PROVE  SnapshotHeld'
<1> SUFFICES ASSUME NEW u \in Threads, Undisturbed(u)', pc'[u] \in {"get", "open", "transfer"}, job'[u].saved
             PROVE  /\ backups'[Slug(u)'] # <<>>
                    /\ Last(backups'[Slug(u)']) = files'[Slug(u)'][job'[u].row.bin]
                    /\ files'[Slug(u)'][job'[u].row.bin] \in Payloads \cup {Partial}
  BY DEF SnapshotHeld
<1>0. ControlOK /\ DataOK /\ TypeOK
  BY TypeParts DEF IInv
<1>1. CASE u # t
  <2>1. /\ pc'[u] = pc[u] /\ job'[u] = job[u] /\ Slug(u)' = Slug(u)
    BY <1>1, OthersKept, SameJob
  <2>2. UnderWay(u) /\ Undisturbed(u)
    BY <2>1, Clear DEF UnderWay
  <2>3. job[u].row.bin \in Bins /\ job[u].op \in Updating \cup {"Rollback"}
    BY <1>0, <2>1, JobTypes DEF Row, Backed
  <2> QED
    BY <1>1, <2>1, <2>2, <2>3, Beside DEF SnapshotHeld
<1>2. CASE u = t
  <2> DEFINE s == Slug(t)  b == job[t].row.bin
  <2>1. /\ job'[t].op = job[t].op /\ pc'[t] \in After(pc[t]) /\ Slug(t)' = Slug(t)
        /\ pc[t] # "idle" /\ job[t].op \in OpsAt(pc[t])
    BY <1>2, OwnJob, SelfKept
  <2>2. s \in Slugs /\ b \in Bins
    BY <1>0, <2>1, JobTypes DEF Row
  <2>3. pc[t] \in {"ensure", "backup", "get", "open", "transfer"} /\ job'[t].row = job[t].row
    BY <1>2, <2>1, OwnJob DEF After
  <2>4. UnderWay(t) /\ Undisturbed(t) /\ \A v \in Threads : ~Rival(t, v)
    BY <1>2, <2>3, Clear DEF UnderWay
  <2>5. CASE pc[t] = "backup"
    <3>1. Backup(t) /\ job[t].op \in Updating
      BY <1>0, <1>2, <2>1, <2>5, StepsAt DEF TornBackup, Fail, Return, Goto, ControlOK, Backup, OpsAt
    <3>2. files[s][b] # Absent /\ files[s][b] \in Contents
      BY <1>0, <2>2, <2>5, <3>1 DEF Present, DataOK
    <3>3. files[s][b] \notin Threads
      <4> SUFFICES ASSUME NEW v \in Threads, files[s][b] = v PROVE FALSE
        OBVIOUS
      <4>1. pc[v] \in {"transfer", "unpacking", "restoring", "migrating"} /\ Slug(v) = Slug(t)
        BY <2>2 DEF Owned
      <4>2. pc[v] = "restoring"
        BY <2>4, <2>5, <4>1 DEF Rival, Writing
      <4> QED
        BY <2>5, <3>1, <4>2 DEF IInv, Mutex, RightOps, OpsAt, Locked, Updating
    <3>4. Seen(files[s][b]) = files[s][b] /\ files[s][b] \in Payloads \cup {Partial}
      BY <3>2, <3>3 DEF Seen, Contents
    <3>5. PICK bs \in Saved(s, files[s][b]) : backups' = [backups EXCEPT ![s] = bs]
      BY <3>1, <3>4 DEF Backup
    <3>6. bs # <<>> /\ Last(bs) = files[s][b]
      <4>1. backups[s] \in Seq(Settled) /\ files[s][b] \in Settled
        BY <1>0, <2>2, <3>4 DEF DataOK, Settled
      <4>2. CASE bs = Append(backups[s], files[s][b])
        BY <4>1, <4>2 DEF Last
      <4>3. CASE backups[s] # <<>> /\ bs = Append(Front(backups[s]), files[s][b])
        <5>1. Front(backups[s]) \in Seq(Settled)
          BY <4>1, <4>3, EmptySeq DEF Front
        <5> QED
          BY <4>1, <4>3, <5>1 DEF Last
      <4> QED
        BY <3>2, <3>5, <4>2, <4>3 DEF Saved
    <3>7. files' = files /\ backups'[s] = bs
      BY <1>0, <2>2, <3>1, <3>5 DEF Backup, DataOK
    <3> QED
      BY <1>2, <2>1, <2>3, <3>4, <3>6, <3>7
  <2>6. CASE pc[t] # "backup"
    <3>1. job[t].saved /\ pc[t] \in {"get", "open", "transfer"}
      BY <1>2, <2>1, <2>3, <2>6, OwnJob DEF Backed
    <3>2. /\ backups[s] # <<>> /\ Last(backups[s]) = files[s][b]
          /\ files[s][b] \in Payloads \cup {Partial}
      BY <2>4, <3>1 DEF SnapshotHeld
    <3>3. backups'[s] = backups[s]
      BY <2>2, <3>1, BackupsStep
    <3>4. files'[s][b] = files[s][b]
      <4>1. CASE pc[t] # "transfer"
        BY <2>2, <3>1, <4>1, Writes
      <4>2. CASE TornTransfer(t)
        BY <2>2, <3>2, <4>2, CloseAt, SeparateValues DEF TornTransfer
      <4>3. CASE Activate(t)
        BY <1>0, <1>2, <3>1, <4>3 DEF Activate, AfterFetch, Ensured, Return, Goto, ControlOK
      <4> QED
        BY <4>1, <4>2, <4>3, StepsAt
    <3> QED
      BY <1>2, <2>1, <2>3, <3>2, <3>3, <3>4
  <2> QED
    BY <2>5, <2>6
<1> QED
  BY <1>1, <1>2

\* An undisturbed update or rollback that starts to reload the tool has put at its
\* path what it wrote.
LEMMA PutsThere ==
  ASSUME IInv, WantKnown, Holding, NEW t \in Threads, Step(t), pc'[t] = "inspect",
         Installs(t)', UnderWay(t) => Undisturbed(t)
  PROVE  files'[Slug(t)][Target(t)'.bin] = job'[t].want
<1>0. ControlOK /\ DataOK /\ TypeOK
  BY TypeParts DEF IInv
<1>1. /\ job[t].op \in Updating \cup {"Rollback"} /\ job[t].op \in OpsAt(pc[t])
      /\ pc'[t] \in After(pc[t]) /\ job'[t].op = job[t].op
  BY OwnJob, SelfKept DEF Installs
<1>2. /\ job'[t].want # Absent
      /\ job[t].op = "Rollback" \/ KindOf[Target(t)'.url] # "unnamed"
  BY <1>1 DEF Installs
<1>3. pc[t] \in {"transfer", "unpacking", "restore", "restoring"}
  <2>1. ~(pc[t] = "read" \/ pc[t] = "persist")
    BY <1>0, <1>1, StepsAt DEF ReadRow, Persist, Fail, AfterRead, Updating, Return, Goto, ControlOK
  <2>2. pc[t] # "ensure"
    BY <1>0, <1>1, StepsAt DEF Ensure, Ensured, Fail, OpsAt, Installing, Return, Goto, ControlOK
  <2> QED
    BY <1>1, <2>1, <2>2 DEF After
<1>4. /\ Target(t)' = Target(t) /\ UnderWay(t) /\ Undisturbed(t)
      /\ pc[t] # "restore" => job'[t].want = job[t].want
  BY <1>3, OwnJob DEF UnderWay
<1>5. Slug(t) \in Slugs /\ Target(t).bin \in Bins /\ job[t].want \in Contents
  BY <1>0, Shape, JobTypes DEF Row, Settled, Contents
<1>6. CASE pc[t] = "transfer"
  <2> DEFINE s == Slug(t)  b == Target(t).bin  w == Close(files, t, job[t].want)
  <2>1. job[t].op \in Updating
    BY <1>1, <1>6 DEF OpsAt, Installing
  <2>2. Activate(t) /\ pc'[t] = AfterFetch(t)
    BY <1>0, <1>6, StepsAt DEF Activate, TornTransfer, RetryOrReturn, Return, Goto, ControlOK
  <2>3. job[t].saved /\ Fetched(t) = Target(t)
    BY <2>1, <2>2 DEF AfterFetch, Ensured, Fetched, Updating
  <2>4. tmp[s][b] = t
    BY <1>1, <1>4, <1>6, <2>3 DEF Holding
  <2>5. files' = [w EXCEPT ![s][b] = job[t].want]
    BY <1>0, <1>2, <1>4, <2>1, <2>2, <2>3, <2>4, SeparateValues DEF Activate, Updating, Return, Goto, ControlOK
  <2>6. w \in [Slugs -> [Bins -> Contents]]
    BY <1>0, <1>5, CloseType DEF DataOK
  <2> QED
    BY <1>4, <1>5, <1>6, <2>5, <2>6
<1>7. CASE pc[t] = "unpacking"
  <2>1. job[t].op \in Updating
    BY <1>1, <1>7 DEF OpsAt, Installing
  <2>2. Unpacked(t)
    BY <1>0, <1>7, StepsAt DEF TornCopy, Return, Goto, ControlOK
  <2>3. job[t].saved /\ Fetched(t) = Target(t)
    BY <1>0, <2>1, <2>2 DEF Unpacked, AfterFetch, Ensured, Fetched, Updating, Goto, ControlOK
  <2>4. files[Slug(t)][Target(t).bin] = t
    BY <1>1, <1>4, <1>7, <2>3 DEF Holding
  <2> QED
    BY <1>4, <1>5, <1>7, <2>2, <2>4, CloseAt DEF Unpacked
<1>8. CASE pc[t] = "restore"
  <2>1. job'[t].want = job[t].want
    BY <1>0, <1>8, StepsAt DEF Restore, Fail, Return, Goto, ControlOK
  <2> QED
    BY <1>1, <1>2, <1>8, <2>1 DEF WantKnown, OpsAt
<1>9. CASE pc[t] = "restoring"
  <2>1. Restored(t)
    BY <1>0, <1>9, StepsAt DEF TornCopy, Return, Goto, ControlOK
  <2>2. files[Slug(t)][Target(t).bin] = t
    BY <1>1, <1>4, <1>9 DEF Holding
  <2> QED
    BY <1>4, <1>5, <1>9, <2>1, <2>2, CloseAt DEF Restored
<1> QED
  BY <1>3, <1>6, <1>7, <1>8, <1>9

LEMMA InstalledStep ==
  ASSUME IInv, Owned, WantKnown, RacedKnown, Holding, Installed, HNext, NEW t \in Threads, Step(t)
  PROVE  Installed'
<1> DEFINE Reloading == Starting \cup {"wait", "save", "trim", "record"}
<1> SUFFICES ASSUME NEW u \in Threads, Undisturbed(u)', Installs(u)', pc'[u] \in Reloading
             PROVE  files'[Slug(u)'][Target(u)'.bin] = job'[u].want
  BY DEF Installed
<1>1. CASE u # t
  <2>1. /\ pc'[u] = pc[u] /\ job'[u] = job[u] /\ Installs(u)
        /\ Slug(u)' = Slug(u) /\ Target(u)' = Target(u)
    BY <1>1, OthersKept, SameJob
  <2>2. UnderWay(u) /\ Undisturbed(u) /\ job[u].op \in Updating \cup {"Rollback"}
    BY <2>1, Clear DEF UnderWay, Installs, Starting
  <2>3. Target(u).bin \in Bins
    BY <2>1, JobTypes DEF IInv, Row, Starting
  <2> QED
    BY <1>1, <2>1, <2>2, <2>3, Beside DEF Installed
<1>2. CASE u = t
  <2>1. pc'[t] \in After(pc[t]) /\ Slug(t)' = Slug(t)
    BY <1>2, OwnJob DEF Starting
  <2>2. CASE pc'[t] = "inspect"
    BY <1>2, <2>1, <2>2, Clear, PutsThere
  <2>3. CASE pc'[t] # "inspect"
    <3>1. pc[t] \in Reloading \cup {"halt"}
      BY <1>2, <2>1, <2>3 DEF After, Starting
    <3>2. pc[t] # "halt"
      BY <1>2, <2>1, <2>3, SelfKept, StepsAt, TypeParts
         DEF Installs, Updating, Halt, Fail, Return, Goto, ControlOK, IInv, Starting, After
    <3>3. /\ Target(t)' = Target(t) /\ job'[t].want = job[t].want /\ Installs(t) /\ UnderWay(t)
      BY <1>2, <3>1, <3>2, OwnJob DEF Starting, UnderWay
    <3>4. Undisturbed(t)
      BY <1>2, <3>3, Clear
    <3>5. Slug(t) \in Slugs /\ Target(t).bin \in Bins
      BY <3>3, JobTypes DEF IInv, Row, UnderWay
    <3>6. files'[Slug(t)][Target(t).bin] = files[Slug(t)][Target(t).bin]
      BY <3>1, <3>2, <3>5, Writes DEF Starting
    <3> QED
      BY <1>2, <2>1, <3>1, <3>2, <3>3, <3>4, <3>6 DEF Installed
  <2> QED
    BY <2>2, <2>3
<1> QED
  BY <1>1, <1>2

LEMMA StartedStep ==
  ASSUME IInv, Owned, RacedKnown, Installed, Started, HNext, NEW t \in Threads, Step(t)
  PROVE  Started'
<1> SUFFICES ASSUME NEW u \in Threads, Undisturbed(u)', Installs(u)',
                    pc'[u] \in {"pstart", "wait", "save", "trim", "record"},
                    pm2'[job'[u].name] # NotManaged
             PROVE  pm2'[job'[u].name].img = job'[u].want
  BY DEF Started
<1>1. CASE u # t
  <2>1. pc'[u] = pc[u] /\ job'[u] = job[u] /\ Installs(u)
    BY <1>1, OthersKept, SameJob
  <2>2. UnderWay(u) /\ Undisturbed(u) /\ job[u].op \in Updating \cup {"Rollback"}
    BY <2>1, Clear DEF UnderWay, Installs
  <2>3. Seen(files[Slug(u)][Target(u).bin]) = job[u].want
    BY <2>1, <2>2, JobTypes, SeparateValues DEF Installed, Starting, Seen, IInv, Settled
  <2> QED
    BY <1>1, <2>1, <2>2, <2>3, Beside DEF Started
<1>2. CASE u = t
  <2>1. /\ pc'[t] \in After(pc[t]) /\ job'[t].name = job[t].name
        /\ pc[t] # "idle" /\ job[t].op \in OpsAt(pc[t]) /\ job'[t].op = job[t].op
    BY <1>2, OwnJob, SelfKept
  <2>2. pc[t] \in {"inspect", "pdelete", "pstart", "wait", "save", "trim"}
    <3>1. pc[t] # "halt"
      BY <1>2, <2>1, StepsAt, TypeParts
         DEF Installs, Updating, Halt, Fail, Return, Goto, ControlOK, IInv, After
    <3> QED
      BY <1>2, <2>1, <3>1 DEF After
  <2>3. job'[t].want = job[t].want /\ Installs(t) /\ UnderWay(t) /\ Undisturbed(t)
    BY <1>2, <2>2, OwnJob, Clear DEF UnderWay
  <2>4. job[t].name \in Names /\ job[t].want \in Settled
    BY <2>1, JobTypes DEF IInv
  <2>5. CASE pc[t] \in {"pstart", "wait", "save", "trim"}
    <3>1. CASE StartNew(t)
      <4>1. Seen(files[Slug(t)][Target(t).bin]) = job[t].want
        BY <2>3, <2>4, <3>1, SeparateValues DEF StartNew, Installed, Starting, Seen, Settled
      <4>2. \/ pm2'[job[t].name] = NotManaged
            \/ pm2[job[t].name] # NotManaged /\ pm2'[job[t].name].img = pm2[job[t].name].img
            \/ pm2'[job[t].name].img = Seen(files[Slug(t)][Target(t).bin])
        BY <2>4, Processes
      <4> QED
        BY <1>2, <2>1, <2>3, <2>5, <4>1, <4>2 DEF Started
    <3>2. CASE ~StartNew(t)
      BY <1>2, <2>1, <2>3, <2>4, <2>5, <3>2, Processes DEF Started
    <3> QED
      BY <3>1, <3>2
  <2>6. CASE pc[t] \in {"inspect", "pdelete"}
    <3>1. pm2'[job[t].name] = NotManaged
      <4>1. pc'[t] = "pstart"
        BY <1>2, <2>1, <2>6 DEF After
      <4> QED
        BY <2>4, <2>6, <4>1, StepsAt, TypeParts
           DEF Inspect, DeleteOld, SetPm2, Fail, Return, Goto, ControlOK, DataOK, IInv
    <3> QED
      BY <1>2, <2>1, <3>1
  <2> QED
    BY <2>2, <2>5, <2>6
<1> QED
  BY <1>1, <1>2

-----------------------------------------------------------------------------
(* The inductive invariant *)

LEMMA RacedKnownNext == HNext => raced' \subseteq Threads /\ RacedKnown'
  BY DEF HNext, RacedKnown

LEMMA HInvStep ==
  ASSUME HInv, HNext, NEW t \in Threads, Step(t)
  PROVE  HInv'
  BY IInvStep, RacedKnownNext, OwnedStep, BackedStep, WantKnownStep, PresentStep, HoldingStep,
     SnapshotStep, InstalledStep, StartedStep DEF HInv

\* A thread that is given a request, or the mutex, has done nothing yet.
Enters(u) ==
  \/ pc[u] = "idle" /\ pc'[u] \in {"lock", "read"} /\ ~job'[u].saved /\ job'[u].want = Absent
  \/ pc[u] = "lock" /\ job'[u] = job[u] /\ (pc'[u] = "read" \/ (pc'[u] = "get" /\ job[u].op = "Register"))

\* A step that leaves the folders, and of the processes the images, preserves the
\* invariant if no thread goes on within an operation.
LEMMA EntersKeeps ==
  ASSUME HInv, HNext, IInv', UNCHANGED disk,
         \A u \in Threads : (pc'[u] = pc[u] /\ job'[u] = job[u]) \/ Enters(u),
         \A n \in Names : pm2'[n] = NotManaged \/ (pm2[n] # NotManaged /\ pm2'[n].img = pm2[n].img)
  PROVE  HInv'
<1> USE DEF disk
<1>1. ASSUME NEW u \in Threads, pc'[u] = pc[u], job'[u] = job[u]
      PROVE  /\ Slug(u)' = Slug(u) /\ Target(u)' = Target(u) /\ Fetched(u)' = Fetched(u)
             /\ Installs(u)' = Installs(u)
             /\ Undisturbed(u)' => Undisturbed(u)
  BY <1>1, SameJob, Clear DEF HInv, Undisturbed, UnderWay
<1>2. ASSUME NEW u \in Threads, Enters(u)
      PROVE  /\ pc[u] \in {"idle", "lock"}
             /\ pc'[u] \in {"lock", "read"} \/ (pc'[u] = "get" /\ job'[u].op = "Register")
             /\ ~job'[u].saved
             /\ job'[u].op = "Rollback" => job'[u].want = Absent
  BY <1>2 DEF Enters, HInv, Backed, WantKnown
<1>3. Owned'
  BY <1>1, <1>2 DEF HInv, Owned
<1>4. Backed' /\ WantKnown'
  BY <1>2 DEF HInv, Backed, WantKnown
<1>5. Present'
  BY <1>1, <1>2 DEF HInv, Present, Updating
<1>6. Holding' /\ SnapshotHeld'
  BY <1>1, <1>2 DEF HInv, Holding, SnapshotHeld
<1>7. Installed'
  BY <1>1, <1>2 DEF HInv, Installed, Starting
<1>8. Started'
  <2> SUFFICES ASSUME NEW u \in Threads, Undisturbed(u)', Installs(u)',
                      pc'[u] \in {"pstart", "wait", "save", "trim", "record"},
                      pm2'[job'[u].name] # NotManaged
               PROVE  pm2'[job'[u].name].img = job'[u].want
    BY DEF Started
  <2>1. pc'[u] = pc[u] /\ job'[u] = job[u]
    BY <1>2
  <2>2. job[u].name \in Names
    BY <2>1, JobTypes DEF HInv, IInv
  <2> QED
    BY <1>1, <2>1, <2>2 DEF HInv, Started
<1> QED
  BY <1>3, <1>4, <1>5, <1>6, <1>7, <1>8, RacedKnownNext DEF HInv

LEMMA InitHInv == HInit => HInv
<1> SUFFICES ASSUME HInit PROVE HInv
  OBVIOUS
<1>1. \A t \in Threads : pc[t] = "idle"
  BY DEF HInit, Init
<1>2. Owned
  <2>1. \A s \in Slugs, b \in Bins : files[s][b] \in {InitFile, Absent} /\ tmp[s][b] = Absent
    BY DEF HInit, Init
  <2> QED
    BY <2>1, ConstantsAssumption, SeparateValues DEF Owned
<1>3. RacedKnown /\ Holding /\ SnapshotHeld /\ Installed /\ Started
  BY <1>1 DEF RacedKnown, Holding, SnapshotHeld, Installed, Started, UnderWay, Undisturbed
<1>4. Backed /\ WantKnown /\ Present
  BY <1>1 DEF Backed, WantKnown, Present
<1> QED
  BY <1>2, <1>3, <1>4, InitIInv DEF HInv, HInit

LEMMA HInvNext == HInv /\ [HNext]_hvars => HInv'
<1> SUFFICES ASSUME HInv, [HNext]_hvars PROVE HInv'
  OBVIOUS
<1>0. /\ IInv /\ ControlOK /\ DataOK /\ IInv'
      /\ \A n \in Names : pm2[n] \in Image \cup {NotManaged}
  BY TypeParts, IInvNext DEF HInv, IInv, HNext, hvars, DataOK
<1>1. CASE UNCHANGED hvars
  <2>1. \A u, v \in Threads : Rival(u, v)' = Rival(u, v)
    BY <1>1 DEF hvars, vars, Rival, Slug, Target
  <2>2. RacedKnown' /\ raced' \subseteq Threads
    BY <1>1, <2>1 DEF hvars, vars, HInv, RacedKnown, UnderWay
  <2>3. Owned' /\ Backed' /\ WantKnown' /\ Present'
    BY <1>1 DEF hvars, vars, HInv, Owned, Backed, WantKnown, Present, Slug, Fetched, Target
  <2>4. Holding' /\ SnapshotHeld'
    BY <1>1 DEF hvars, vars, HInv, Holding, SnapshotHeld, Undisturbed, UnderWay, Slug, Fetched, Target
  <2>5. Installed' /\ Started'
    BY <1>1 DEF hvars, vars, HInv, Installed, Started, Undisturbed, UnderWay, Installs, Slug, Target
  <2> QED
    BY <1>0, <2>2, <2>3, <2>4, <2>5 DEF HInv
<1>2. ASSUME HNext, NEW t \in Threads, Step(t) PROVE HInv'
  BY <1>2, HInvStep
<1>3. ASSUME HNext, NEW t \in Procs, Issue(t) PROVE HInv'
  <2>1. UNCHANGED <<disk, pm2>> /\ pc[t] = "idle" /\ t \in Threads
    BY <1>3 DEF Issue, Threads
  <2>2. /\ pc'[t] \in {"lock", "read"} /\ ~job'[t].saved /\ job'[t].want = Absent
        /\ \A u \in Threads : u # t => pc'[u] = pc[u] /\ job'[u] = job[u]
    BY <1>0, <1>3, <2>1 DEF Issue, Goto, ControlOK
  <2> QED
    BY <1>0, <1>3, <2>1, <2>2, EntersKeeps DEF Enters
<1>4. ASSUME HNext, NEW t \in Threads, Lock(t) PROVE HInv'
  <2>1. /\ UNCHANGED <<disk, pm2, job>> /\ pc[t] = "lock"
        /\ pc'[t] = IF job[t].op = "Register" THEN "get" ELSE "read"
        /\ \A u \in Threads : u # t => pc'[u] = pc[u]
    BY <1>0, <1>4 DEF Lock, Goto, ControlOK
  <2> QED
    BY <1>0, <1>4, <2>1, EntersKeeps DEF Enters
<1>5. ASSUME HNext, NEW n \in Names, Reconcile(n) PROVE HInv'
  <2>1. UNCHANGED <<disk, pm2>> /\ pc[Boot] = "idle" /\ Boot \in Threads
    BY <1>5 DEF Reconcile, Threads
  <2>2. CASE UNCHANGED <<pc, job>>
    BY <1>0, <1>5, <2>1, <2>2, EntersKeeps
  <2>3. CASE ~UNCHANGED <<pc, job>>
    <3>1. /\ pc'[Boot] = "read" /\ ~job'[Boot].saved /\ job'[Boot].want = Absent
          /\ \A u \in Threads : u # Boot => pc'[u] = pc[u] /\ job'[u] = job[u]
      BY <1>0, <1>5, <2>1, <2>3 DEF Reconcile, Goto, ControlOK
    <3> QED
      BY <1>0, <1>5, <2>1, <3>1, EntersKeeps DEF Enters
  <2> QED
    BY <2>2, <2>3
<1>6. ASSUME HNext, NEW n \in Names, Pm2Event(n) PROVE HInv'
  <2>1. UNCHANGED <<disk, pc, job>> /\ pm2[n] # NotManaged /\ pm2[n] \in Image
    BY <1>0, <1>6 DEF Pm2Event
  <2>2. [pm2[n] EXCEPT !.st = "online"].img = pm2[n].img /\ [pm2[n] EXCEPT !.st = "errored"].img = pm2[n].img
    BY <2>1 DEF Image
  <2>3. \/ pm2' = [pm2 EXCEPT ![n] = [pm2[n] EXCEPT !.st = "online"]]
        \/ pm2' = [pm2 EXCEPT ![n] = [pm2[n] EXCEPT !.st = "errored"]]
    BY <1>6 DEF Pm2Event
  <2>4. \A m \in Names : pm2'[m] = NotManaged \/ (pm2[m] # NotManaged /\ pm2'[m].img = pm2[m].img)
    BY <1>0, <2>1, <2>2, <2>3 DEF DataOK
  <2> QED
    BY <1>0, <1>6, <2>1, <2>4, EntersKeeps
<1>7. ASSUME HNext, Serve PROVE HInv'
  <2>1. UNCHANGED <<disk, pm2, pc, job>>
    BY <1>7 DEF Serve
  <2> QED
    BY <1>0, <1>7, <2>1, EntersKeeps
<1>8. ASSUME HNext, Crash PROVE HInv'
  <2>1. \A t \in Threads : pc'[t] = "idle"
    BY <1>8 DEF Crash
  <2>2. \A s \in Slugs, b \in Bins : files'[s][b] \notin Threads /\ tmp'[s][b] \notin Threads
    BY <1>8, SeparateValues DEF Crash, Seen
  <2>3. Owned' /\ Backed' /\ WantKnown' /\ Present'
    BY <2>1, <2>2 DEF Owned, Backed, WantKnown, Present
  <2>4. Holding' /\ SnapshotHeld' /\ Installed' /\ Started'
    BY <2>1 DEF Holding, SnapshotHeld, Installed, Started, Undisturbed, UnderWay
  <2> QED
    BY <1>0, <1>8, <2>3, <2>4, RacedKnownNext DEF HInv
<1> QED
  BY <1>1, <1>2, <1>3, <1>4, <1>5, <1>6, <1>7, <1>8 DEF HNext, Next

-----------------------------------------------------------------------------
(* The theorems *)

\* Whatever runs beside them, updates and rollbacks no rival has overlapped keep
\* their binary, their backup and their process together.
THEOREM HistoryInvariance == HSpec => []HInv
  BY InitHInv, HInvNext, PTL DEF HSpec

\* While an undisturbed update downloads, its newest backup is the binary it is
\* about to replace, whatever fails and however often it retries.
THEOREM SnapshotsHeld == HSpec => []SnapshotHeld
<1>1. HInv => SnapshotHeld
  BY DEF HInv
<1> QED
  BY <1>1, HistoryInvariance, PTL

\* An undisturbed update or rollback that reaches pm2 save has its payload at the
\* tool's path, and no process of another payload is up under its name.
THEOREM UpdatesInstall == HSpec => []SuccessInstalls
<1>1. HInv => SuccessInstalls
  BY DEF HInv, Installed, Started, SuccessInstalls
<1> QED
  BY <1>1, HistoryInvariance, PTL
==============================================================================
