-------------------------- MODULE ToolManager_proofs --------------------------
(***************************************************************************)
(* What holds of ToolManager for every set of tools, threads, URLs and      *)
(* payloads, every choice of failing calls and every bound.                 *)
(***************************************************************************)
EXTENDS ToolManager, SequenceTheorems, TLAPS

-----------------------------------------------------------------------------
(* Types of what the steps share *)

\* A working thread has a job, and what is computed from it has its type.
LEMMA JobTypes ==
  ASSUME TypeOK, NEW t \in Threads, pc[t] # "idle"
  PROVE  /\ job[t] \in Job
         /\ job[t].name \in Names /\ job[t].op \in AllOps
         /\ job[t].row \in Row /\ job[t].req \in Row
         /\ job[t].want \in Settled /\ job[t].pick \in Nat /\ job[t].tries \in Nat
         /\ Slug(t) \in Slugs
         /\ Target(t) \in Row /\ Fetched(t) \in Row
         /\ Canonical(job[t].row) \in Row
         /\ BinOf[job[t].row.url] \in Bins
<1>1. job[t] \in Job
  BY DEF TypeOK
<1>2. /\ job[t].name \in Names /\ job[t].op \in AllOps
      /\ job[t].row \in Row /\ job[t].req \in Row
      /\ job[t].want \in Settled /\ job[t].pick \in Nat /\ job[t].tries \in Nat
  BY <1>1 DEF Job
<1>3. Slug(t) \in Slugs
  BY <1>2, ConstantsAssumption DEF Slug
<1>4. Target(t) \in Row /\ Fetched(t) \in Row
  BY <1>2 DEF Target, Fetched
<1>5. Canonical(job[t].row) \in Row /\ BinOf[job[t].row.url] \in Bins
  BY <1>2, ConstantsAssumption DEF Canonical, Row
<1> QED
  BY <1>1, <1>2, <1>3, <1>4, <1>5

\* The control part of TypeOK.
ControlOK ==
  /\ mu \in Threads \cup {Free}
  /\ pc \in [Threads -> Labels]
  /\ job \in [Threads -> Job \cup {NoJob}]
  /\ \A t \in Threads : pc[t] # "idle" => job[t] \in Job

\* The data part of TypeOK.
DataOK ==
  /\ db \in [Names -> Row \cup {NoRow}]
  /\ versions \in [Names -> Nat]
  /\ files \in [Slugs -> [Bins -> Contents]]
  /\ tmp \in [Slugs -> [Bins -> {Absent, Partial} \cup Threads]]
  /\ backups \in [Slugs -> Seq(Settled)]
  /\ pm2 \in [Names -> Image \cup {NotManaged}]

CtlOK ==
  /\ phase \in {"booting", "serving"}
  /\ bootq \subseteq Names
  /\ requests \in Nat /\ crashes \in Nat

LEMMA TypeParts == TypeOK <=> ControlOK /\ DataOK /\ CtlOK
  BY DEF TypeOK, ControlOK, DataOK, CtlOK

\* Returning and going to another label keep the control types.
LEMMA ReturnType ==
  ASSUME ControlOK, NEW t \in Threads, Return(t)
  PROVE  ControlOK'
  BY DEF ControlOK, Return, Goto, Labels

LEMMA GotoType ==
  ASSUME ControlOK, NEW t \in Threads, NEW l \in Labels, NEW j \in Job,
         Goto(t, l), job' = [job EXCEPT ![t] = j], mu' \in Threads \cup {Free}
  PROVE  ControlOK'
  BY DEF ControlOK, Goto

LEMMA GotoSameJobType ==
  ASSUME ControlOK, NEW t \in Threads, pc[t] # "idle", NEW l \in Labels,
         Goto(t, l), job' = job, mu' \in Threads \cup {Free}
  PROVE  ControlOK'
  BY DEF ControlOK, Goto

-----------------------------------------------------------------------------
(* Types of the data a step writes *)

LEMMA SeenType ==
  ASSUME NEW c \in Contents
  PROVE  Seen(c) \in Settled
  BY SeparateValues DEF Seen, Contents, Settled

\* Writing one file, or closing one wherever its inode is.
LEMMA PutType ==
  ASSUME DataOK, NEW s \in Slugs, NEW b \in Bins, NEW c \in Contents, Put(s, b, c)
  PROVE  files' \in [Slugs -> [Bins -> Contents]]
  BY DEF DataOK, Put

LEMMA CloseType ==
  ASSUME NEW S, NEW f \in [Slugs -> [Bins -> S]], NEW t, NEW c \in S
  PROVE  Close(f, t, c) \in [Slugs -> [Bins -> S]]
  BY DEF Close

LEMMA RowWritten ==
  ASSUME DataOK, NEW n \in Names, NEW r \in Row, WriteRow(n, r)
  PROVE  /\ db' \in [Names -> Row \cup {NoRow}]
         /\ \A m \in Names : db'[m] = NoRow <=> db[m] = NoRow
  BY SeparateValues DEF DataOK, WriteRow

LEMMA SavedType ==
  ASSUME DataOK, NEW s \in Slugs, NEW c \in Settled, NEW bs \in Saved(s, c)
  PROVE  /\ bs \in Seq(Settled)
         /\ Len(bs) >= Len(backups[s])
         /\ \/ bs = Append(backups[s], c)
            \/ backups[s] # <<>> /\ bs = [backups[s] EXCEPT ![Len(backups[s])] = c]
            \/ bs = backups[s]
<1>1. backups[s] \in Seq(Settled)
  BY DEF DataOK
<1>2. CASE bs = Append(backups[s], c)
  <2>1. Len(backups[s]) \in Nat /\ Len(bs) = Len(backups[s]) + 1 /\ bs \in Seq(Settled)
    BY <1>1, <1>2, AppendProperties
  <2> QED
    BY <1>2, <2>1
<1>3. CASE backups[s] # <<>> /\ bs = Append(Front(backups[s]), c)
  <2> DEFINE n == Len(backups[s])
  <2>1. n \in Nat /\ n > 0 /\ DOMAIN backups[s] = 1..n
    BY <1>1, <1>3, EmptySeq
  <2>2. Front(backups[s]) = [i \in 1..(n - 1) |-> backups[s][i]]
    BY <1>1, <2>1 DEF Front
  <2>3. Front(backups[s]) \in Seq(Settled) /\ Len(Front(backups[s])) = n - 1
    BY <1>1, <2>1, <2>2
  <2>4. bs \in Seq(Settled) /\ Len(bs) = n
    BY <1>3, <2>1, <2>3
  <2>5. \A i \in 1..n : bs[i] = IF i = n THEN c ELSE backups[s][i]
    BY <1>3, <2>1, <2>2, <2>3
  <2>6. bs = [backups[s] EXCEPT ![n] = c]
    BY <1>1, <2>1, <2>4, <2>5
  <2> QED
    BY <1>3, <2>1, <2>4, <2>6
<1>4. CASE bs = backups[s]
  BY <1>1, <1>4
<1> QED
  BY <1>2, <1>3, <1>4 DEF Saved

LEMMA TrimType ==
  ASSUME NEW bs \in Seq(Settled), NEW left \in {Trimmed(bs)} \cup StoppedTrims(bs)
  PROVE  left \in Seq(Settled) /\ (bs = <<>> => left = bs)
<1>1. Len(bs) \in Nat /\ Keep \in Nat /\ Keep > 0 /\ Absent \in Settled
  BY ConstantsAssumption DEF Settled
<1>2. CASE Len(bs) <= Keep
  BY <1>1, <1>2 DEF Trimmed, StoppedTrims
<1>3. CASE Len(bs) > Keep
  <2>1. Newest(bs) \in Seq(Settled) /\ bs # <<>>
    BY <1>1, <1>3 DEF Newest
  <2>2. CASE left = Newest(bs)
    BY <2>1, <2>2
  <2>3. ASSUME NEW i \in 1..(Len(bs) - Keep),
               left = SubSeq(bs, 1, i) \o Newest(bs)
                 \/ \E c \in {bs[i], Absent} : left = SubSeq(bs, 1, i - 1) \o Newest(bs) \o <<c>>
        PROVE  left \in Seq(Settled)
    <3>1. i \in 1..Len(bs) /\ bs[i] \in Settled
      BY <1>1
    <3>2. SubSeq(bs, 1, i) \in Seq(Settled) /\ SubSeq(bs, 1, i - 1) \in Seq(Settled)
      BY <3>1
    <3>3. \A c \in {bs[i], Absent} : <<c>> \in Seq(Settled)
      BY <1>1, <3>1
    <3>4. SubSeq(bs, 1, i) \o Newest(bs) \in Seq(Settled)
      BY <2>1, <3>2
    <3>5. \A c \in {bs[i], Absent} : SubSeq(bs, 1, i - 1) \o Newest(bs) \o <<c>> \in Seq(Settled)
      BY <2>1, <3>2, <3>3
    <3> QED
      BY <2>3, <3>4, <3>5
  <2> QED
    BY <1>1, <1>3, <2>1, <2>2, <2>3 DEF Trimmed, StoppedTrims
<1> QED
  BY <1>1, <1>2, <1>3

LEMMA WipeType ==
  ASSUME NEW bs \in Seq(Settled), NEW left \in StoppedWipes(bs)
  PROVE  /\ left \in Seq(Settled) /\ (bs = <<>> => left = bs)
         /\ \E k \in 0..Len(bs) : left \in [1..k -> {bs[i] : i \in 1..Len(bs)} \cup {Absent}]
<1>1. PICK k \in 0..Len(bs) : left \in [1..k -> ToSet(bs) \cup {Absent}]
  BY DEF StoppedWipes, SeqOf
<1>2. ToSet(bs) = {bs[i] : i \in 1..Len(bs)}
  BY DEF ToSet
<1>3. ToSet(bs) \cup {Absent} \subseteq Settled
  BY <1>2 DEF Settled
<1>4. left \in Seq(Settled)
  BY <1>1, <1>3
<1>5. bs = <<>> => left = <<>>
  BY <1>1, <1>4
<1> QED
  BY <1>1, <1>2, <1>4, <1>5

LEMMA Pm2Type ==
  ASSUME DataOK, NEW t, NEW e \in Image \cup {NotManaged}, SetPm2(t, e)
  PROVE  pm2' \in [Names -> Image \cup {NotManaged}]
  BY DEF DataOK, SetPm2

-----------------------------------------------------------------------------
(* The shape of a step *)

\* Thread t goes on within its operation: another label whose code the
\* operation contains, the same request, the mutex as it is.
Moves(t) ==
  /\ Goto(t, pc'[t]) /\ pc'[t] \in Labels \ {"idle", "lock", "read"}
  /\ job' = [job EXCEPT ![t] = job'[t]] /\ job'[t] \in Job
  /\ job'[t].op = job[t].op /\ job'[t].name = job[t].name
  /\ job[t].op \in OpsAt(pc'[t])
  /\ mu' = mu

\* mustTool returns into code of the operation that called it.
LEMMA AfterReadOps ==
  ASSUME NEW op \in AllOps \ {"Register"}
  PROVE  /\ AfterRead(op) \in Labels \ {"idle", "lock", "read"}
         /\ op \in OpsAt(AfterRead(op))
  BY DEF AfterRead, AllOps, Labels, OpsAt, Installing, Updating

\* The locals a step may set.
LEMMA JobWith ==
  ASSUME NEW j \in Job
  PROVE  /\ \A r \in Row : [j EXCEPT !.row = r] \in Job
         /\ \A c \in Settled : [j EXCEPT !.want = c] \in Job
         /\ \A i \in Nat : [j EXCEPT !.pick = i] \in Job
         /\ \A x : LET r == [j EXCEPT !.row = x]
                       c == [j EXCEPT !.want = x]
                   IN  /\ r.op = j.op /\ r.name = j.name
                       /\ c.op = j.op /\ c.name = j.name
  BY DEF Job

\* A step of a working thread moves within its operation or ends it.
LEMMA Shape ==
  ASSUME IInv, NEW t \in Threads, Step(t)
  PROVE  /\ pc[t] \notin {"idle", "lock"}
         /\ UNCHANGED ctl
         /\ Moves(t) \/ Return(t)
<1> USE DEF store, disk, ctl, Goto
<1>0. ControlOK /\ DataOK /\ TypeOK
  BY TypeParts DEF IInv
<1>1. pc[t] # "idle" => job[t].op \in OpsAt(pc[t])
  BY DEF IInv, RightOps
<1>2. CASE ReadRow(t)
  <2> DEFINE r == db[job[t].name]
  <2>1. pc[t] = "read" /\ job[t] \in Job /\ job[t].op \in AllOps \ {"Register"}
    BY <1>2, <1>0, <1>1, JobTypes DEF ReadRow, OpsAt
  <2>2. CASE r = NoRow
    BY <1>2, <2>1, <2>2, SeparateValues DEF ReadRow
  <2>3. CASE r # NoRow
    <3>1. r \in Row
      BY <1>0, <2>1, <2>3, JobTypes DEF DataOK
    <3>2. job' = [job EXCEPT ![t] = [job[t] EXCEPT !.row = r]] /\ job'[t] = [job[t] EXCEPT !.row = r]
      BY <1>2, <1>0, <2>3 DEF ReadRow, ControlOK
    <3>3. pc' = [pc EXCEPT ![t] = pc'[t]] /\ pc'[t] \in {AfterRead(job[t].op), "migrate"}
      BY <1>2, <1>0, <2>3 DEF ReadRow, ControlOK
    <3>4. pc'[t] \in Labels \ {"idle", "lock", "read"} /\ job[t].op \in OpsAt(pc'[t])
      BY <2>1, <3>3, AfterReadOps DEF OpsAt, Labels
    <3>5. mu' = mu /\ UNCHANGED ctl
      BY <1>2, <2>3 DEF ReadRow
    <3>6. job'[t] \in Job /\ job'[t].op = job[t].op /\ job'[t].name = job[t].name
      BY <2>1, <3>1, <3>2, JobWith
    <3>7. job' = [job EXCEPT ![t] = job'[t]]
      BY <3>2
    <3>8. Moves(t)
      BY <3>3, <3>4, <3>5, <3>6, <3>7 DEF Moves
    <3> QED
      BY <2>1, <3>5, <3>8
  <2> QED
    BY <2>2, <2>3
<1>3. CASE Migrate(t)
  <2>1. /\ job[t] \in Job /\ job[t].op \in AllOps \ {"Register"} /\ Slug(t) \in Slugs
        /\ job[t].row.bin \in Bins /\ pc[t] = "migrate"
    BY <1>3, <1>0, <1>1, JobTypes DEF Migrate, OpsAt, Row
  <2>2. Seen(files[Slug(t)][job[t].row.bin]) \in Settled
    BY <1>0, <2>1, SeenType DEF DataOK
  <2>3. CASE job' = job /\ Goto(t, "persist")
    BY <1>3, <1>0, <2>1, <2>3 DEF Migrate, Moves, ControlOK, OpsAt, Labels
  <2>4. CASE job' = [job EXCEPT ![t].want = Seen(files[Slug(t)][job[t].row.bin])] /\ Goto(t, "migrating")
    BY <1>3, <1>0, <2>1, <2>2, <2>4, JobWith DEF Migrate, Moves, ControlOK, OpsAt, Labels
  <2> QED
    BY <1>3, <2>3, <2>4 DEF Migrate
<1>4. CASE Migrated(t)
  <2>1. /\ pc[t] = "migrating" /\ job[t] \in Job /\ job[t].op \in OpsAt("migrating")
        /\ job' = [job EXCEPT ![t] = [job[t] EXCEPT !.want = Absent]]
    BY <1>4, <1>0, <1>1, JobTypes DEF Migrated
  <2>2. [job[t] EXCEPT !.want = Absent] \in Job
    BY <2>1, JobWith DEF Settled
  <2> QED
    BY <1>4, <1>0, <2>1, <2>2, JobWith DEF Migrated, Moves, ControlOK, OpsAt, Labels
<1>5. CASE Persist(t)
  <2>1. pc[t] = "persist" /\ job[t] \in Job /\ job[t].op \in AllOps \ {"Register"} /\ Canonical(job[t].row) \in Row
    BY <1>5, <1>0, <1>1, JobTypes DEF Persist, OpsAt
  <2>2. job' = [job EXCEPT ![t] = [job[t] EXCEPT !.row = Canonical(job[t].row)]]
    BY <1>5 DEF Persist
  <2> QED
    BY <1>5, <1>0, <2>1, <2>2, AfterReadOps, JobWith DEF Persist, Moves, ControlOK
<1>6. CASE Rewrite(t)
  BY <1>6, <1>0, <1>1, JobTypes DEF Rewrite, Moves, ControlOK, OpsAt, Labels, Job, Installing, Updating
<1>7. CASE Ensure(t)
  BY <1>7, <1>0, <1>1, JobTypes DEF Ensure, Moves, ControlOK, OpsAt, Labels, Job, Installing, Updating, Ensured
<1>8. CASE Get(t)
  BY <1>8, <1>0, <1>1, JobTypes DEF Get, Moves, ControlOK, OpsAt, Labels, Job, Installing, Updating
<1>9. CASE GetFails(t)
  BY <1>9, <1>0, <1>1, JobTypes DEF GetFails, Moves, ControlOK, OpsAt, Labels, Job, Installing, Updating, RetryOrReturn
<1>10. CASE Open(t)
  <2>1. /\ pc[t] = "open" /\ job[t] \in Job /\ job[t].op \in OpsAt("open") /\ Fetched(t) \in Row
    BY <1>10, <1>0, <1>1, JobTypes DEF Open
  <2>2. PICK c \in Settled : job' = [job EXCEPT ![t] = [job[t] EXCEPT !.want = c]]
    BY <1>10, <2>1, ConstantsAssumption DEF Open, Settled, Row
  <2> QED
    BY <1>10, <1>0, <2>1, <2>2, JobWith DEF Open, Moves, ControlOK, OpsAt, Labels
<1>11. CASE Activate(t)
  BY <1>11, <1>0, <1>1, JobTypes DEF Activate, Moves, ControlOK, OpsAt, Labels, Job, Installing, Updating, AfterFetch, Ensured
<1>12. CASE Unpacked(t)
  BY <1>12, <1>0, <1>1, JobTypes DEF Unpacked, Moves, ControlOK, OpsAt, Labels, Job, Installing, Updating, AfterFetch, Ensured
<1>13. CASE TornTransfer(t)
  BY <1>13, <1>0, <1>1, JobTypes DEF TornTransfer, Moves, ControlOK, OpsAt, Labels, Job, Installing, Updating, RetryOrReturn
<1>14. CASE TornCopy(t)
  BY <1>14, <1>0, <1>1, JobTypes DEF TornCopy, Moves, ControlOK, OpsAt, Labels, Job, Installing, Updating
<1>15. CASE Backup(t)
  BY <1>15, <1>0, <1>1, JobTypes DEF Backup, Moves, ControlOK, OpsAt, Labels, Job, Installing, Updating
<1>16. CASE TornBackup(t)
  BY <1>16, <1>0, <1>1, JobTypes DEF TornBackup, Moves, ControlOK, OpsAt, Labels, Job, Installing, Updating
<1>17. CASE Select(t)
  BY <1>17, <1>0, <1>1, JobTypes DEF Select, Moves, ControlOK, OpsAt, Labels, Job, Installing, Updating
<1>18. CASE Restore(t)
  <2>1. pc[t] = "restore" /\ job[t] \in Job /\ job[t].op = "Rollback" /\ Slug(t) \in Slugs
    BY <1>18, <1>0, <1>1, JobTypes DEF Restore, OpsAt
  <2>2. backups[Slug(t)][job[t].pick] \in Settled
    BY <1>0, <2>1 DEF IInv, PickValid, DataOK
  <2>3. CASE job' = [job EXCEPT ![t].want = backups[Slug(t)][job[t].pick]] /\ Goto(t, "restoring")
    BY <1>18, <1>0, <2>1, <2>2, <2>3, JobWith DEF Restore, Moves, ControlOK, OpsAt, Labels
  <2>4. CASE job' = job /\ Goto(t, "inspect")
    BY <1>18, <1>0, <2>1, <2>4 DEF Restore, Moves, ControlOK, OpsAt, Labels
  <2> QED
    BY <1>18, <2>1, <2>3, <2>4 DEF Restore
<1>19. CASE Restored(t)
  BY <1>19, <1>0, <1>1, JobTypes DEF Restored, Moves, ControlOK, OpsAt, Labels, Job, Installing, Updating
<1>20. CASE Trim(t)
  BY <1>20, <1>0, <1>1, JobTypes DEF Trim, Moves, ControlOK, OpsAt, Labels, Job, Installing, Updating
<1>21. CASE Record(t)
  BY <1>21, <1>0, <1>1, JobTypes DEF Record, Moves, ControlOK, OpsAt, Labels, Job, Installing, Updating
<1>22. CASE Halt(t)
  BY <1>22, <1>0, <1>1, JobTypes DEF Halt, Moves, ControlOK, OpsAt, Labels, Job, Installing, Updating
<1>23. CASE Inspect(t)
  BY <1>23, <1>0, <1>1, JobTypes DEF Inspect, Moves, ControlOK, OpsAt, Labels, Job, Installing, Updating
<1>24. CASE StopOld(t)
  BY <1>24, <1>0, <1>1, JobTypes DEF StopOld, Moves, ControlOK, OpsAt, Labels, Job, Installing, Updating
<1>25. CASE DeleteOld(t)
  BY <1>25, <1>0, <1>1, JobTypes DEF DeleteOld, Moves, ControlOK, OpsAt, Labels, Job, Installing, Updating
<1>26. CASE StartNew(t)
  BY <1>26, <1>0, <1>1, JobTypes DEF StartNew, Moves, ControlOK, OpsAt, Labels, Job, Installing, Updating
<1>27. CASE Online(t)
  BY <1>27, <1>0, <1>1, JobTypes DEF Online, Moves, ControlOK, OpsAt, Labels, Job, Installing, Updating
<1>28. CASE NotOnline(t)
  BY <1>28, <1>0, <1>1, JobTypes DEF NotOnline, Moves, ControlOK, OpsAt, Labels, Job, Installing, Updating
<1>29. CASE Save(t)
  BY <1>29, <1>0, <1>1, JobTypes DEF Save, Moves, ControlOK, OpsAt, Labels, Job, Installing, Updating
<1>30. CASE Create(t)
  BY <1>30, <1>0, <1>1, JobTypes DEF Create, Moves, ControlOK, OpsAt, Labels, Job, Installing, Updating
<1>31. CASE Forget(t)
  BY <1>31, <1>0, <1>1, JobTypes DEF Forget, Moves, ControlOK, OpsAt, Labels, Job, Installing, Updating
<1>32. CASE RemoveTree(t)
  BY <1>32, <1>0, <1>1, JobTypes DEF RemoveTree, Moves, ControlOK, OpsAt, Labels, Job, Installing, Updating
<1>33. CASE RemoveBackups(t)
  BY <1>33, <1>0, <1>1, JobTypes DEF RemoveBackups, Moves, ControlOK, OpsAt, Labels, Job, Installing, Updating
<1>34. CASE RemoveVersions(t)
  BY <1>34, <1>0, <1>1, JobTypes DEF RemoveVersions, Moves, ControlOK, OpsAt, Labels, Job, Installing, Updating
<1>35. CASE RemoveRow(t)
  BY <1>35, <1>0, <1>1, JobTypes DEF RemoveRow, Moves, ControlOK, OpsAt, Labels, Job, Installing, Updating
<1>37. CASE TornRemoval(t)
  BY <1>37, <1>0, <1>1, JobTypes DEF TornRemoval, Moves, ControlOK
<1>36. CASE Fail(t)
  BY <1>36, <1>0, <1>1, JobTypes DEF Fail, Moves, ControlOK, OpsAt, Labels, Job, Installing, Updating, Fallible
<1> QED
  BY <1>2, <1>3, <1>4, <1>5, <1>6, <1>7, <1>8, <1>9, <1>10, <1>11, <1>12, <1>13, <1>14, <1>15, <1>16, <1>17, <1>18, <1>19, <1>20, <1>21, <1>22, <1>23, <1>24, <1>25, <1>26, <1>27, <1>28, <1>29, <1>30, <1>31, <1>32, <1>33, <1>34, <1>35, <1>36, <1>37 DEF Step

-----------------------------------------------------------------------------
(* What a step does to rows, backups and history *)

\* The steps that write each of them.
LEMMA Frame ==
  ASSUME NEW t \in Threads, Step(t)
  PROVE  /\ db' = db \/ Persist(t) \/ Rewrite(t) \/ Create(t) \/ RemoveRow(t)
         /\ backups' = backups \/ Backup(t) \/ TornBackup(t) \/ Trim(t) \/ RemoveBackups(t) \/ TornRemoval(t)
         /\ versions' = versions \/ Record(t) \/ RemoveVersions(t)
<1> USE DEF store, disk
<1>1. CASE ReadRow(t) \/ Migrate(t) \/ Migrated(t) \/ Ensure(t)
  BY <1>1 DEF ReadRow, Migrate, Migrated, Ensure
<1>2. CASE Get(t) \/ GetFails(t) \/ Open(t) \/ Unpacked(t)
  BY <1>2 DEF Get, GetFails, Open, Unpacked
<1>3. CASE Activate(t) \/ TornTransfer(t) \/ TornCopy(t)
  BY <1>3 DEF Activate, TornTransfer, TornCopy
<1>4. CASE Select(t) \/ Restore(t) \/ Restored(t) \/ Halt(t) \/ Inspect(t)
  BY <1>4 DEF Select, Restore, Restored, Halt, Inspect
<1>5. CASE StopOld(t) \/ DeleteOld(t) \/ StartNew(t) \/ Online(t) \/ NotOnline(t)
  BY <1>5 DEF StopOld, DeleteOld, StartNew, Online, NotOnline
<1>6. CASE Save(t) \/ Forget(t) \/ RemoveTree(t) \/ Fail(t)
  BY <1>6 DEF Save, Forget, RemoveTree, Fail
<1>7. CASE Persist(t) \/ Rewrite(t) \/ Create(t) \/ RemoveRow(t) \/ Record(t) \/ RemoveVersions(t)
  BY <1>7 DEF Persist, Rewrite, Create, RemoveRow, Record, RemoveVersions
<1>8. CASE Backup(t) \/ TornBackup(t) \/ Trim(t) \/ RemoveBackups(t) \/ TornRemoval(t)
  BY <1>8 DEF Backup, TornBackup, Trim, RemoveBackups, TornRemoval
<1> QED
  BY <1>1, <1>2, <1>3, <1>4, <1>5, <1>6, <1>7, <1>8 DEF Step

\* Rows: only Create adds one, in a folder of its own, and only RemoveRow
\* removes one.
LEMMA RowsStep ==
  ASSUME IInv, NEW t \in Threads, Step(t)
  PROVE  /\ db' \in [Names -> Row \cup {NoRow}]
         /\ \A n \in Names : db[n] # NoRow /\ db'[n] = NoRow => RemoveRow(t) /\ n = job[t].name
         /\ \A n \in Names : db[n] = NoRow /\ db'[n] # NoRow =>
              /\ Create(t) /\ n = job[t].name
              /\ \A m \in Registered : SlugOf[m] # SlugOf[n]
<1>0. DataOK /\ TypeOK
  BY TypeParts DEF IInv
<1>1. CASE db' = db
  BY <1>0, <1>1 DEF DataOK
<1>2. CASE Persist(t)
  <2>1. WriteRow(job[t].name, Canonical(job[t].row)) /\ pc[t] # "idle"
    BY <1>2 DEF Persist
  <2> QED
    BY <1>0, <2>1, JobTypes, RowWritten
<1>3. CASE Rewrite(t)
  <2>1. WriteRow(job[t].name, job[t].req) /\ pc[t] # "idle"
    BY <1>3 DEF Rewrite
  <2> QED
    BY <1>0, <2>1, JobTypes, RowWritten
<1>4. CASE Create(t)
  <2>1. job[t].name \in Names /\ job[t].req \in Row
    BY <1>0, <1>4, JobTypes DEF Create
  <2> QED
    BY <1>0, <1>4, <2>1, SeparateValues DEF Create, DataOK
<1>5. CASE RemoveRow(t)
  BY <1>0, <1>5, JobTypes DEF RemoveRow, DataOK
<1> QED
  BY <1>1, <1>2, <1>3, <1>4, <1>5, Frame

\* Backups: only a tool's own step touches its folder, and only a trim or a
\* removal makes the list shorter.
LEMMA BackupsStep ==
  ASSUME IInv, NEW t \in Threads, Step(t)
  PROVE  /\ backups' \in [Slugs -> Seq(Settled)]
         /\ \A s \in Slugs : backups'[s] # backups[s] =>
              /\ pc[t] \in {"backup", "trim", "rmbackups"} /\ s = Slug(t)
              /\ pc[t] = "backup" => Len(backups'[s]) >= Len(backups[s])
              /\ pc[t] # "backup" => backups[s] # <<>>
<1>0. DataOK /\ TypeOK
  BY TypeParts DEF IInv
<1> DEFINE s == Slug(t)
<1>1. CASE backups' = backups
  BY <1>0, <1>1 DEF DataOK
<1>2. CASE Backup(t) \/ TornBackup(t)
  <2>1. pc[t] = "backup" /\ s \in Slugs /\ job[t].row \in Row
    BY <1>0, <1>2, JobTypes DEF Backup, TornBackup
  <2>2. PICK c \in Settled : \E bs \in Saved(s, c) : backups' = [backups EXCEPT ![s] = bs]
    <3>1. Seen(files[s][job[t].row.bin]) \in Settled
      BY <1>0, <2>1, SeenType DEF DataOK, Row
    <3>2. {Absent, Partial} \subseteq Settled
      BY DEF Settled
    <3> QED
      BY <1>2, <3>1, <3>2 DEF Backup, TornBackup
  <2>3. PICK bs \in Saved(s, c) : backups' = [backups EXCEPT ![s] = bs]
    BY <2>2
  <2>4. bs \in Seq(Settled) /\ Len(bs) >= Len(backups[s])
    BY <1>0, <2>1, <2>3, SavedType
  <2> QED
    BY <1>0, <2>1, <2>3, <2>4 DEF DataOK
<1>3. CASE Trim(t)
  <2>1. pc[t] = "trim" /\ s \in Slugs /\ backups[s] \in Seq(Settled)
    BY <1>0, <1>3, JobTypes DEF Trim, DataOK
  <2>2. PICK left \in {Trimmed(backups[s])} \cup StoppedTrims(backups[s]) : backups' = [backups EXCEPT ![s] = left]
    BY <1>3 DEF Trim
  <2>3. left \in Seq(Settled) /\ (backups[s] = <<>> => left = backups[s])
    BY <2>1, <2>2, TrimType
  <2> QED
    BY <1>0, <2>1, <2>2, <2>3 DEF DataOK
<1>5. CASE TornRemoval(t)
  <2>1. CASE pc[t] = "rmbackups"
    <3>1. s \in Slugs /\ backups[s] \in Seq(Settled)
      BY <1>0, <2>1, JobTypes DEF DataOK
    <3>2. PICK left \in StoppedWipes(backups[s]) : backups' = [backups EXCEPT ![s] = left]
      BY <1>5, <2>1 DEF TornRemoval
    <3>3. left \in Seq(Settled) /\ (backups[s] = <<>> => left = backups[s])
      BY <3>1, <3>2, WipeType
    <3> QED
      BY <1>0, <2>1, <3>1, <3>2, <3>3 DEF DataOK
  <2>2. CASE pc[t] # "rmbackups"
    BY <1>1, <1>5, <2>2 DEF TornRemoval
  <2> QED
    BY <2>1, <2>2
<1>4. CASE RemoveBackups(t)
  <2>1. pc[t] = "rmbackups" /\ s \in Slugs /\ <<>> \in Seq(Settled)
    BY <1>0, <1>4, JobTypes DEF RemoveBackups
  <2> QED
    BY <1>0, <1>4, <2>1 DEF RemoveBackups, DataOK
<1> QED
  BY <1>1, <1>2, <1>3, <1>4, <1>5, Frame

\* History: Record and RemoveVersions, of the tool they work on.
LEMMA VersionsStep ==
  ASSUME IInv, NEW t \in Threads, Step(t)
  PROVE  /\ versions' \in [Names -> Nat]
         /\ \A n \in Names : versions'[n] # versions[n] =>
              /\ pc[t] \in {"record", "rmversions"} /\ n = job[t].name
              /\ pc[t] = "rmversions" => versions'[n] = 0
<1>0. DataOK /\ TypeOK
  BY TypeParts DEF IInv
<1>1. CASE versions' = versions
  BY <1>0, <1>1 DEF DataOK
<1>2. CASE Record(t)
  <2>1. pc[t] = "record" /\ job[t].name \in Names
    BY <1>0, <1>2, JobTypes DEF Record
  <2>2. CASE versions' = [versions EXCEPT ![job[t].name] = @ + 1]
    BY <1>0, <2>1, <2>2 DEF DataOK
  <2> QED
    BY <1>0, <1>2, <2>1, <2>2 DEF Record, DataOK
<1>3. CASE RemoveVersions(t)
  BY <1>0, <1>3, JobTypes DEF RemoveVersions, DataOK
<1> QED
  BY <1>1, <1>2, <1>3, Frame

-----------------------------------------------------------------------------
(* Types of the files and of the process list after a step *)

LEMMA FilesType ==
  ASSUME IInv, NEW t \in Threads, Step(t)
  PROVE  /\ files' \in [Slugs -> [Bins -> Contents]]
         /\ tmp' \in [Slugs -> [Bins -> {Absent, Partial} \cup Threads]]
<1>0. DataOK /\ TypeOK
  BY TypeParts DEF IInv
<1> DEFINE F == [Slugs -> [Bins -> Contents]]
           T == [Slugs -> [Bins -> {Absent, Partial} \cup Threads]]
<1>1. /\ files \in F /\ tmp \in T
      /\ Absent \in Contents /\ Partial \in Contents /\ Threads \subseteq Contents
      /\ Settled \subseteq Contents
  BY <1>0 DEF DataOK, Contents, Settled
<1>2. pc[t] # "idle" => /\ Slug(t) \in Slugs /\ job[t].want \in Contents
                        /\ Fetched(t).bin \in Bins /\ Target(t).bin \in Bins
                        /\ BinOf[job[t].row.url] \in Bins
  BY <1>0, <1>1, JobTypes DEF Row
<1>3. \A c \in Contents : Close(files, t, c) \in F
  BY <1>1, CloseType
<1>4. CASE files' = files /\ tmp' = tmp
  BY <1>1, <1>4
<1>5. CASE Migrate(t)
  <2>1. pc[t] # "idle" /\ tmp' = tmp
    BY <1>5 DEF Migrate
  <2>2. files' = files \/ Put(Slug(t), BinOf[job[t].row.url], t)
    BY <1>5 DEF Migrate
  <2> QED
    BY <1>0, <1>1, <1>2, <2>1, <2>2, PutType
<1>6. CASE Migrated(t) \/ Unpacked(t) \/ TornCopy(t) \/ Restored(t)
  BY <1>1, <1>2, <1>3, <1>6 DEF Migrated, Unpacked, TornCopy, Restored
<1>7. CASE Get(t) \/ Open(t)
  BY <1>1, <1>2, <1>7 DEF Get, Open
<1>8. CASE Activate(t)
  <2> DEFINE s == Slug(t)  b == Fetched(t).bin  w == Close(files, t, job[t].want)
  <2>1. w \in F /\ s \in Slugs /\ b \in Bins
    BY <1>2, <1>3, <1>8 DEF Activate
  <2>2. tmp[s][b] \in Contents
    BY <1>1, <2>1 DEF Contents
  <2>3. \A c \in Contents : [w EXCEPT ![s][b] = c] \in F
    BY <2>1
  <2>4. [tmp EXCEPT ![s][b] = Absent] \in T /\ [tmp EXCEPT ![s] = [c \in Bins |-> Absent]] \in T
    BY <1>1, <2>1
  <2>5. files' \in {w} \cup {[w EXCEPT ![s][b] = c] : c \in Contents}
    BY <1>1, <1>2, <1>8, <2>2 DEF Activate
  <2>6. tmp' = [tmp EXCEPT ![s][b] = Absent] \/ tmp' = [tmp EXCEPT ![s] = [c \in Bins |-> Absent]]
    BY <1>8 DEF Activate
  <2>7. files' \in F
    BY <2>1, <2>3, <2>5
  <2> QED
    BY <2>4, <2>6, <2>7
<1>9. CASE TornTransfer(t)
  <2>1. Close(tmp, t, Partial) \in T
    BY <1>1, CloseType
  <2>2. pc[t] # "idle" /\ files' = Close(files, t, Partial)
    BY <1>9 DEF TornTransfer
  <2>3. tmp' = Close(tmp, t, Partial) \/ tmp' = [tmp EXCEPT ![Slug(t)][Fetched(t).bin] = Absent]
    BY <1>9 DEF TornTransfer
  <2>4. [tmp EXCEPT ![Slug(t)][Fetched(t).bin] = Absent] \in T
    BY <1>1, <1>2, <2>2
  <2> QED
    BY <1>1, <1>3, <2>1, <2>2, <2>3, <2>4
<1>10. CASE Restore(t)
  <2>1. pc[t] # "idle" /\ tmp' = tmp
    BY <1>10 DEF Restore
  <2>2. files' = files \/ Put(Slug(t), Target(t).bin, t)
    BY <1>10 DEF Restore
  <2> QED
    BY <1>0, <1>1, <1>2, <2>1, <2>2, PutType
<1>11. CASE RemoveTree(t) \/ TornRemoval(t)
  <2>1. Slug(t) \in Slugs
    BY <1>2, <1>11 DEF RemoveTree, TornRemoval
  <2>2. \A B : /\ [files EXCEPT ![Slug(t)] = Without(files[Slug(t)], B)] \in F
               /\ [tmp EXCEPT ![Slug(t)] = Without(tmp[Slug(t)], B)] \in T
    BY <1>1, <2>1 DEF Without
  <2>3. /\ files' = files \/ \E B : files' = [files EXCEPT ![Slug(t)] = Without(files[Slug(t)], B)]
        /\ tmp' = tmp \/ \E B : tmp' = [tmp EXCEPT ![Slug(t)] = Without(tmp[Slug(t)], B)]
    BY <1>11 DEF RemoveTree, TornRemoval
  <2>4. files' \in F
    BY <1>1, <2>2, <2>3
  <2>5. tmp' \in T
    BY <1>1, <2>2, <2>3
  <2> QED
    BY <2>4, <2>5
<1>12. CASE \/ ReadRow(t) \/ Persist(t) \/ Rewrite(t) \/ Ensure(t) \/ GetFails(t)
            \/ Backup(t) \/ TornBackup(t) \/ Select(t) \/ Trim(t) \/ Record(t)
  BY <1>4, <1>12 DEF disk, ReadRow, Persist, Rewrite, Ensure, GetFails, Backup, TornBackup,
     Select, Trim, Record
<1>13. CASE \/ Halt(t) \/ Inspect(t) \/ StopOld(t) \/ DeleteOld(t) \/ StartNew(t)
            \/ Online(t) \/ NotOnline(t) \/ Save(t) \/ Create(t) \/ Forget(t)
  BY <1>4, <1>13 DEF disk, Halt, Inspect, StopOld, DeleteOld, StartNew, Online, NotOnline,
     Save, Create, Forget
<1>14. CASE RemoveBackups(t) \/ RemoveVersions(t) \/ RemoveRow(t) \/ Fail(t)
  BY <1>4, <1>14 DEF disk, RemoveBackups, RemoveVersions, RemoveRow, Fail
<1> QED
  BY <1>5, <1>6, <1>7, <1>8, <1>9, <1>10, <1>11, <1>12, <1>13, <1>14 DEF Step

LEMMA ProcessType ==
  ASSUME IInv, NEW t \in Threads, Step(t)
  PROVE  pm2' \in [Names -> Image \cup {NotManaged}]
<1>0. DataOK /\ TypeOK
  BY TypeParts DEF IInv
<1> DEFINE E == Image \cup {NotManaged}  n == job[t].name
           stopped == IF pm2[n] = NotManaged THEN pm2[n] ELSE [pm2[n] EXCEPT !.st = "stopped"]
<1>1. pc[t] # "idle" => n \in Names /\ stopped \in E
  BY <1>0, JobTypes DEF DataOK, Image
<1>2. CASE UNCHANGED pm2
  BY <1>0, <1>2 DEF DataOK
<1>3. CASE Halt(t) \/ StopOld(t)
  BY <1>0, <1>1, <1>2, <1>3, Pm2Type DEF Halt, StopOld
<1>4. CASE DeleteOld(t) \/ Forget(t)
  BY <1>0, <1>2, <1>4, Pm2Type DEF DeleteOld, Forget
<1>5. CASE StartNew(t)
  <2> DEFINE c == files[Slug(t)][Target(t).bin]
  <2>1. c \in Contents
    BY <1>0, <1>5, JobTypes DEF StartNew, DataOK, Row
  <2>2. c # Absent => [img |-> Seen(c), st |-> "launching"] \in E
    BY <2>1, SeparateValues DEF Seen, Contents, Image
  <2> QED
    BY <1>0, <1>2, <1>5, <2>2, Pm2Type DEF StartNew
<1>6. CASE \/ ReadRow(t) \/ Migrate(t) \/ Migrated(t) \/ Persist(t) \/ Rewrite(t) \/ Ensure(t)
           \/ Get(t) \/ GetFails(t) \/ Open(t)
  BY <1>2, <1>6 DEF ReadRow, Migrate, Migrated, Persist, Rewrite, Ensure, Get, GetFails, Open
<1>7. CASE \/ Activate(t) \/ Unpacked(t) \/ TornTransfer(t) \/ TornCopy(t) \/ Backup(t)
           \/ TornBackup(t) \/ Select(t) \/ Restore(t) \/ Restored(t) \/ Trim(t) \/ Record(t)
  BY <1>2, <1>7 DEF Activate, Unpacked, TornTransfer, TornCopy, Backup, TornBackup, Select,
     Restore, Restored, Trim, Record
<1>8. CASE \/ Inspect(t) \/ Online(t) \/ NotOnline(t) \/ Save(t) \/ Create(t) \/ RemoveTree(t)
           \/ RemoveBackups(t) \/ TornRemoval(t) \/ RemoveVersions(t) \/ RemoveRow(t) \/ Fail(t)
  BY <1>2, <1>8 DEF Inspect, Online, NotOnline, Save, Create, RemoveTree, RemoveBackups,
     TornRemoval, RemoveVersions, RemoveRow, Fail
<1> QED
  BY <1>3, <1>4, <1>5, <1>6, <1>7, <1>8 DEF Step

\* A step keeps every type.
LEMMA TypeStep ==
  ASSUME IInv, NEW t \in Threads, Step(t)
  PROVE  TypeOK'
<1>0. ControlOK /\ DataOK /\ CtlOK /\ TypeOK
  BY TypeParts DEF IInv
<1>1. CtlOK'
  BY <1>0, Shape DEF CtlOK, ctl
<1>2. DataOK'
  BY RowsStep, VersionsStep, BackupsStep, FilesType, ProcessType DEF DataOK
<1>3. ControlOK'
  <2>1. CASE Return(t)
    BY <1>0, <2>1, ReturnType
  <2>2. CASE Moves(t)
    BY <1>0, <2>2 DEF Moves, Goto, ControlOK
  <2> QED
    BY <2>1, <2>2, Shape
<1> QED
  BY <1>1, <1>2, <1>3 DEF TypeOK, ControlOK, DataOK, CtlOK

-----------------------------------------------------------------------------
(* How a thread gets to the labels the invariant speaks of *)

\* Past the read of a row the row exists; the removals come in their order; a
\* rollback has selected a backup before it takes its own.
LEMMA Reaches ==
  ASSUME IInv, NEW t \in Threads, Step(t), Moves(t)
  PROVE  /\ pc[t] = "read" => db[job[t].name] # NoRow /\ db' = db
         /\ pc'[t] \in {"rmversions", "rmrow"} => RemoveBackups(t) \/ RemoveVersions(t)
         /\ pc'[t] \in {"backup", "halt", "restore"} /\ job[t].op = "Rollback"
              => /\ backups'[Slug(t)] = backups[Slug(t)] \/ pc[t] = "backup"
                 /\ job'[t].pick \in 1..Len(backups[Slug(t)])
<1> USE DEF store, disk, Goto
<1>0. ControlOK /\ DataOK /\ TypeOK
  BY TypeParts DEF IInv
<1>1. /\ pc[t] # "idle" => job[t].op \in OpsAt(pc[t])
      /\ pc'[t] \notin {"idle", "lock", "read"} /\ Goto(t, pc'[t])
  BY DEF IInv, RightOps, Moves
<1>2. pc[t] \in {"backup", "halt", "restore"} /\ job[t].op = "Rollback"
        => job[t].pick \in 1..Len(backups[Slug(t)])
  BY DEF IInv, PickValid
<1>3. CASE ReadRow(t)
  BY <1>0, <1>1, <1>3 DEF ReadRow, Return, AfterRead, OpsAt, AllOps, ControlOK
<1>4. CASE Persist(t)
  BY <1>0, <1>1, <1>4 DEF Persist, AfterRead, ControlOK
<1>5. CASE Migrate(t) \/ Migrated(t) \/ Rewrite(t) \/ Ensure(t)
  BY <1>0, <1>1, <1>5 DEF Migrate, Migrated, Rewrite, Ensure, Ensured, OpsAt, Installing, Updating, ControlOK
<1>6. CASE Get(t) \/ GetFails(t) \/ Open(t) \/ TornTransfer(t) \/ TornCopy(t)
  BY <1>0, <1>1, <1>6 DEF Get, GetFails, Open, TornTransfer, TornCopy, RetryOrReturn, Return, ControlOK
<1>7. CASE Activate(t) \/ Unpacked(t)
  BY <1>0, <1>1, <1>7 DEF Activate, Unpacked, AfterFetch, Ensured, Return, OpsAt, Installing, Updating, ControlOK
<1>8. CASE Backup(t)
  <2>1. /\ pc[t] = "backup" /\ job[t] \in Job
        /\ job' = [job EXCEPT ![t] = [job[t] EXCEPT !.saved = TRUE, !.tries = 0]]
        /\ pc'[t] \in {"halt", "get"}
    BY <1>0, <1>8, JobTypes DEF Backup, ControlOK
  <2>2. job'[t].pick = job[t].pick
    BY <1>0, <2>1 DEF Job, ControlOK
  <2> QED
    BY <1>2, <2>1, <2>2
<1>9. CASE TornBackup(t)
  BY <1>0, <1>1, <1>9 DEF TornBackup, Return, ControlOK
<1>10. CASE Select(t)
  BY <1>0, <1>1, <1>10, JobTypes DEF Select, Return, ControlOK, Job
<1>11. CASE Restore(t) \/ Restored(t) \/ Trim(t) \/ Record(t)
  BY <1>0, <1>1, <1>11 DEF Restore, Restored, Trim, Record, Return, ControlOK
<1>12. CASE Halt(t)
  BY <1>0, <1>2, <1>12 DEF Halt, ControlOK
<1>13. CASE Inspect(t) \/ StopOld(t) \/ DeleteOld(t) \/ StartNew(t) \/ Online(t) \/ NotOnline(t)
  BY <1>0, <1>1, <1>13 DEF Inspect, StopOld, DeleteOld, StartNew, Online, NotOnline, Return, ControlOK
<1>14. CASE Save(t) \/ Create(t) \/ Forget(t) \/ RemoveTree(t)
  BY <1>0, <1>1, <1>14 DEF Save, Create, Forget, RemoveTree, Return, ControlOK
<1>15. CASE RemoveBackups(t) \/ RemoveVersions(t)
  BY <1>0, <1>1, <1>15 DEF RemoveBackups, RemoveVersions, ControlOK
<1>16. CASE RemoveRow(t) \/ TornRemoval(t) \/ Fail(t)
  BY <1>0, <1>1, <1>16 DEF RemoveRow, TornRemoval, Fail, Return, ControlOK
<1> QED
  BY <1>3, <1>4, <1>5, <1>6, <1>7, <1>8, <1>9, <1>10, <1>11, <1>12, <1>13, <1>14, <1>15, <1>16 DEF Step

\* The other threads are not touched.
LEMMA OthersKept ==
  ASSUME IInv, NEW t \in Threads, Step(t), NEW u \in Threads, u # t
  PROVE  /\ pc'[u] = pc[u] /\ job'[u] = job[u]
         /\ mu = u => mu' = u
<1>1. ControlOK
  BY TypeParts DEF IInv
<1>2. Moves(t) \/ Return(t)
  BY Shape
<1> QED
  BY <1>1, <1>2 DEF Moves, Return, Goto, ControlOK

\* What is known of a thread's next state from the kind of its step.
LEMMA SelfKept ==
  ASSUME IInv, NEW t \in Threads, Step(t), pc'[t] # "idle"
  PROVE  /\ Moves(t) /\ pc[t] \notin {"idle", "lock"} /\ mu' = mu
         /\ job'[t].op = job[t].op /\ job'[t].name = job[t].name
         /\ job[t].op \in OpsAt(pc[t])
<1>1. ControlOK
  BY TypeParts DEF IInv
<1>2. ~Return(t)
  BY <1>1 DEF Return, Goto, ControlOK
<1>3. Moves(t) /\ pc[t] \notin {"idle", "lock"}
  BY <1>2, Shape
<1> QED
  BY <1>3 DEF Moves, IInv, RightOps

-----------------------------------------------------------------------------
(* Where a step leads, and what it does to the locals *)

\* The steps at a label.
LEMMA StepsAt ==
  ASSUME NEW t \in Threads, Step(t)
  PROVE  /\ pc[t] = "read" => ReadRow(t) \/ Fail(t)
         /\ pc[t] = "migrate" => Migrate(t)
         /\ pc[t] = "migrating" => Migrated(t)
         /\ pc[t] = "persist" => Persist(t) \/ Fail(t)
         /\ pc[t] = "rewrite" => Rewrite(t) \/ Fail(t)
         /\ pc[t] = "ensure" => Ensure(t) \/ Fail(t)
         /\ pc[t] = "get" => Get(t)
         /\ pc[t] = "open" => GetFails(t) \/ Open(t)
         /\ pc[t] = "transfer" => Activate(t) \/ TornTransfer(t)
         /\ pc[t] = "unpacking" => Unpacked(t) \/ TornCopy(t)
         /\ pc[t] = "backup" => Backup(t) \/ TornBackup(t) \/ Fail(t)
         /\ pc[t] = "select" => Select(t) \/ Fail(t)
         /\ pc[t] = "halt" => Halt(t) \/ Fail(t)
         /\ pc[t] = "restore" => Restore(t) \/ Fail(t)
         /\ pc[t] = "restoring" => Restored(t) \/ TornCopy(t)
         /\ pc[t] = "inspect" => Inspect(t) \/ Fail(t)
         /\ pc[t] = "pstop" => StopOld(t) \/ Fail(t)
         /\ pc[t] = "pdelete" => DeleteOld(t) \/ Fail(t)
         /\ pc[t] = "pstart" => StartNew(t) \/ Fail(t)
         /\ pc[t] = "wait" => Online(t) \/ NotOnline(t)
         /\ pc[t] = "save" => Save(t) \/ Fail(t)
         /\ pc[t] = "create" => Create(t) \/ Fail(t)
         /\ pc[t] = "rmtree" => RemoveTree(t) \/ TornRemoval(t)
         /\ pc[t] = "rmbackups" => RemoveBackups(t) \/ TornRemoval(t)
         /\ pc[t] = "rmrow" => RemoveRow(t) \/ Fail(t)
<1>1. /\ ReadRow(t) => pc[t] = "read"
      /\ Migrate(t) => pc[t] = "migrate"
      /\ Migrated(t) => pc[t] = "migrating"
      /\ Persist(t) => pc[t] = "persist"
      /\ Rewrite(t) => pc[t] = "rewrite"
      /\ Ensure(t) => pc[t] = "ensure"
      /\ Get(t) => pc[t] = "get"
      /\ GetFails(t) \/ Open(t) => pc[t] = "open"
      /\ Activate(t) \/ TornTransfer(t) => pc[t] = "transfer"
      /\ Unpacked(t) => pc[t] = "unpacking"
  BY DEF ReadRow, Migrate, Migrated, Persist, Rewrite, Ensure, Get, GetFails, Open, Activate,
     TornTransfer, Unpacked
<1>2. /\ TornCopy(t) => pc[t] \in {"unpacking", "restoring"}
      /\ Backup(t) \/ TornBackup(t) => pc[t] = "backup"
      /\ Select(t) => pc[t] = "select"
      /\ Restore(t) => pc[t] = "restore"
      /\ Restored(t) => pc[t] = "restoring"
      /\ Trim(t) => pc[t] = "trim"
      /\ Record(t) => pc[t] = "record"
      /\ Halt(t) => pc[t] = "halt"
      /\ Inspect(t) => pc[t] = "inspect"
      /\ StopOld(t) => pc[t] = "pstop"
      /\ DeleteOld(t) => pc[t] = "pdelete"
      /\ StartNew(t) => pc[t] = "pstart"
      /\ Online(t) \/ NotOnline(t) => pc[t] = "wait"
      /\ Save(t) => pc[t] = "save"
  BY DEF TornCopy, Backup, TornBackup, Select, Restore, Restored, Trim, Record, Halt, Inspect,
     StopOld, DeleteOld, StartNew, Online, NotOnline, Save
<1>3. /\ Create(t) => pc[t] = "create"
      /\ Forget(t) => pc[t] = "forget"
      /\ RemoveTree(t) => pc[t] = "rmtree"
      /\ RemoveBackups(t) => pc[t] = "rmbackups"
      /\ TornRemoval(t) => pc[t] \in {"rmtree", "rmbackups"}
      /\ RemoveVersions(t) => pc[t] = "rmversions"
      /\ RemoveRow(t) => pc[t] = "rmrow"
      /\ Fail(t) => pc[t] \in Fallible
  BY DEF Create, Forget, RemoveTree, RemoveBackups, TornRemoval, RemoveVersions, RemoveRow, Fail
<1> QED
  BY <1>1, <1>2, <1>3 DEF Step, Fallible

\* The labels that follow a label within an operation.
After(l) ==
  CASE l = "read" -> {"migrate", "halt", "select", "rewrite", "inspect", "ensure"}
    [] l = "migrate" -> {"migrating", "persist"}
    [] l = "migrating" -> {"persist"}
    [] l = "persist" -> {"halt", "select", "rewrite", "inspect", "ensure"}
    [] l = "rewrite" -> {"ensure"}
    [] l = "ensure" -> {"backup", "inspect", "get"}
    [] l = "get" -> {"open"}
    [] l = "open" -> {"transfer", "get"}
    [] l = "transfer" -> {"create", "inspect", "backup", "unpacking", "get"}
    [] l = "unpacking" -> {"create", "inspect", "backup"}
    [] l = "backup" -> {"halt", "get"}
    [] l = "select" -> {"backup"}
    [] l = "halt" -> {"save", "restore", "forget"}
    [] l = "restore" -> {"restoring", "inspect"}
    [] l = "restoring" -> {"inspect"}
    [] l = "inspect" -> {"pstart", "pstop"}
    [] l = "pstop" -> {"pdelete"}
    [] l = "pdelete" -> {"pstart"}
    [] l = "pstart" -> {"wait"}
    [] l = "wait" -> {"save"}
    [] l = "save" -> {"trim", "record"}
    [] l = "trim" -> {"record"}
    [] l = "forget" -> {"rmtree"}
    [] l = "rmtree" -> {"rmbackups"}
    [] l = "rmbackups" -> {"rmversions"}
    [] l = "rmversions" -> {"rmrow"}
    [] OTHER -> {}

LEMMA Flow ==
  ASSUME IInv, NEW t \in Threads, Step(t), Moves(t)
  PROVE  /\ pc'[t] \in After(pc[t])
         /\ pc[t] \in {"transfer", "unpacking"} /\ job[t].saved => pc'[t] # "backup"
         /\ pc[t] \in {"open", "transfer"} /\ pc'[t] = "get" => RetryOrReturn(t) /\ ~Return(t)
<1> USE DEF Goto, After
<1>0. ControlOK /\ pc'[t] # "idle" /\ pc[t] \notin {"idle", "lock"}
  BY TypeParts, Shape DEF IInv, Moves
<1>1. CASE ReadRow(t) \/ Persist(t)
  BY <1>0, <1>1 DEF ReadRow, Persist, AfterRead, Return, ControlOK
<1>2. CASE Migrate(t) \/ Migrated(t) \/ Rewrite(t)
  BY <1>0, <1>2 DEF Migrate, Migrated, Rewrite, ControlOK
<1>3. CASE Ensure(t)
  BY <1>0, <1>3 DEF Ensure, Ensured, ControlOK
<1>4. CASE Get(t) \/ GetFails(t) \/ Open(t)
  BY <1>0, <1>4 DEF Get, GetFails, Open, RetryOrReturn, Return, ControlOK
<1>5. CASE Activate(t)
  <2>1. pc[t] = "transfer" /\ (pc'[t] = AfterFetch(t) \/ pc'[t] = "unpacking")
    BY <1>0, <1>5 DEF Activate, Return, ControlOK
  <2> QED
    BY <2>1 DEF AfterFetch, Ensured
<1>6. CASE Unpacked(t)
  BY <1>0, <1>6 DEF Unpacked, AfterFetch, Ensured, ControlOK
<1>7. CASE TornTransfer(t) \/ TornCopy(t)
  BY <1>0, <1>7 DEF TornTransfer, TornCopy, RetryOrReturn, Return, ControlOK
<1>8. CASE Backup(t) \/ TornBackup(t) \/ Select(t)
  BY <1>0, <1>8 DEF Backup, TornBackup, Select, Return, ControlOK
<1>9. CASE Restore(t) \/ Restored(t)
  BY <1>0, <1>9 DEF Restore, Restored, Return, ControlOK
<1>10. CASE Trim(t) \/ Record(t)
  BY <1>0, <1>10 DEF Trim, Record, Return, ControlOK
<1>11. CASE Halt(t)
  BY <1>0, <1>11 DEF Halt, ControlOK
<1>12. CASE Inspect(t) \/ StopOld(t) \/ DeleteOld(t) \/ StartNew(t)
  BY <1>0, <1>12 DEF Inspect, StopOld, DeleteOld, StartNew, Return, ControlOK
<1>13. CASE Online(t) \/ NotOnline(t) \/ Save(t) \/ Create(t)
  BY <1>0, <1>13 DEF Online, NotOnline, Save, Create, Return, ControlOK
<1>14. CASE Forget(t) \/ RemoveTree(t) \/ RemoveBackups(t) \/ RemoveVersions(t)
  BY <1>0, <1>14 DEF Forget, RemoveTree, RemoveBackups, RemoveVersions, ControlOK
<1>15. CASE RemoveRow(t) \/ TornRemoval(t) \/ Fail(t)
  BY <1>0, <1>15 DEF RemoveRow, TornRemoval, Fail, Return, ControlOK
<1> QED
  BY <1>1, <1>2, <1>3, <1>4, <1>5, <1>6, <1>7, <1>8, <1>9, <1>10, <1>11, <1>12, <1>13, <1>14, <1>15 DEF Step

\* The steps that write each local.
LEMMA Locals ==
  ASSUME IInv, NEW t \in Threads, Step(t), Moves(t)
  PROVE  /\ job'[t].req = job[t].req
         /\ job'[t].row # job[t].row =>
              (ReadRow(t) /\ job'[t].row = db[job[t].name]) \/ Persist(t)
         /\ job'[t].saved # job[t].saved => Backup(t) /\ job'[t].saved
         /\ job'[t].want # job[t].want => Migrate(t) \/ Migrated(t) \/ Open(t) \/ Restore(t)
         /\ job'[t].tries # job[t].tries =>
              \/ Backup(t) /\ job'[t].tries = 0
              \/ /\ pc[t] \in {"open", "transfer"} /\ pc'[t] = "get"
                 /\ job'[t].tries = job[t].tries + 1 /\ job'[t].tries < Attempts
<1> USE DEF Goto
<1>0. ControlOK /\ pc'[t] # "idle" /\ pc[t] \notin {"idle", "lock"} /\ job[t] \in Job
  BY TypeParts, Shape, JobTypes DEF IInv, Moves
<1>1. CASE job' = job
  BY <1>1
<1>2. ASSUME NEW x, job' = [job EXCEPT ![t].row = x]
      PROVE  /\ job'[t].row = x /\ job'[t].req = job[t].req /\ job'[t].saved = job[t].saved
             /\ job'[t].want = job[t].want /\ job'[t].tries = job[t].tries
  BY <1>0, <1>2 DEF Job, ControlOK
<1>3. ASSUME NEW x, job' = [job EXCEPT ![t].want = x]
      PROVE  /\ job'[t].row = job[t].row /\ job'[t].req = job[t].req
             /\ job'[t].saved = job[t].saved /\ job'[t].tries = job[t].tries
  BY <1>0, <1>3 DEF Job, ControlOK
<1>4. ASSUME NEW x, job' = [job EXCEPT ![t].pick = x]
      PROVE  /\ job'[t].row = job[t].row /\ job'[t].req = job[t].req /\ job'[t].tries = job[t].tries
             /\ job'[t].saved = job[t].saved /\ job'[t].want = job[t].want
  BY <1>0, <1>4 DEF Job, ControlOK
<1>5. ASSUME NEW x, job' = [job EXCEPT ![t].tries = x]
      PROVE  /\ job'[t].row = job[t].row /\ job'[t].req = job[t].req /\ job'[t].tries = x
             /\ job'[t].saved = job[t].saved /\ job'[t].want = job[t].want
  BY <1>0, <1>5 DEF Job, ControlOK
<1>6. CASE ReadRow(t)
  <2>1. job' = [job EXCEPT ![t].row = db[job[t].name]]
    BY <1>0, <1>6 DEF ReadRow, Return, ControlOK
  <2> QED
    BY <1>2, <1>6, <2>1
<1>7. CASE Persist(t)
  <2>1. job' = [job EXCEPT ![t].row = Canonical(job[t].row)]
    BY <1>7 DEF Persist
  <2> QED
    BY <1>2, <1>7, <2>1
<1>8. CASE Migrate(t) \/ Migrated(t) \/ Open(t) \/ Restore(t)
  <2>1. job' = job \/ \E x : job' = [job EXCEPT ![t].want = x]
    BY <1>0, <1>8 DEF Migrate, Migrated, Open, Restore, Return, ControlOK
  <2> QED
    BY <1>3, <1>8, <2>1
<1>9. CASE Backup(t)
  BY <1>0, <1>9 DEF Backup, Job, ControlOK
<1>10. CASE Select(t)
  <2>1. \E x : job' = [job EXCEPT ![t].pick = x]
    BY <1>0, <1>10 DEF Select, Return, ControlOK
  <2> QED
    BY <1>4, <2>1
<1>11. CASE GetFails(t) \/ TornTransfer(t)
  <2>1. CASE Return(t)
    BY <1>0, <2>1 DEF Return, ControlOK
  <2>2. CASE RetryOrReturn(t) /\ ~Return(t)
    <3>1. /\ pc[t] \in {"open", "transfer"} /\ pc'[t] = "get"
          /\ job' = [job EXCEPT ![t].tries = job[t].tries + 1] /\ job[t].tries + 1 < Attempts
      BY <1>0, <1>11, <2>2 DEF GetFails, TornTransfer, RetryOrReturn, ControlOK
    <3> QED
      BY <1>5, <3>1
  <2> QED
    BY <1>11, <2>1, <2>2 DEF GetFails, TornTransfer
<1>12. CASE Rewrite(t) \/ Ensure(t) \/ Get(t) \/ Activate(t) \/ Unpacked(t) \/ TornCopy(t)
  BY <1>0, <1>1, <1>12 DEF Rewrite, Ensure, Get, Activate, Unpacked, TornCopy, Return, ControlOK
<1>13. CASE TornBackup(t) \/ Restored(t) \/ Trim(t) \/ Record(t) \/ Halt(t) \/ Inspect(t)
  BY <1>0, <1>1, <1>13 DEF TornBackup, Restored, Trim, Record, Halt, Inspect, Return, ControlOK
<1>14. CASE StopOld(t) \/ DeleteOld(t) \/ StartNew(t) \/ Online(t) \/ NotOnline(t) \/ Save(t)
  BY <1>0, <1>1, <1>14 DEF StopOld, DeleteOld, StartNew, Online, NotOnline, Save, Return, ControlOK
<1>15. CASE Create(t) \/ Forget(t) \/ RemoveTree(t) \/ RemoveBackups(t) \/ RemoveVersions(t)
  BY <1>0, <1>1, <1>15 DEF Create, Forget, RemoveTree, RemoveBackups, RemoveVersions, Return, ControlOK
<1>16. CASE RemoveRow(t) \/ TornRemoval(t) \/ Fail(t)
  BY <1>0, <1>16 DEF RemoveRow, TornRemoval, Fail, Return, ControlOK
<1> QED
  BY <1>6, <1>7, <1>8, <1>9, <1>10, <1>11, <1>12, <1>13, <1>14, <1>15, <1>16 DEF Step

-----------------------------------------------------------------------------
(* A step preserves the invariant *)

LEMMA RightOpsStep ==
  ASSUME IInv, NEW t \in Threads, Step(t)
  PROVE  RightOps'
<1> SUFFICES ASSUME NEW u \in Threads, pc'[u] # "idle"
             PROVE  job'[u].op \in OpsAt(pc'[u])
  BY DEF RightOps, OpsAt
<1>1. CASE u = t
  BY <1>1, SelfKept DEF Moves
<1>2. CASE u # t
  BY <1>2, OthersKept DEF IInv, RightOps
<1> QED
  BY <1>1, <1>2

LEMMA RightReqStep ==
  ASSUME IInv, NEW t \in Threads, Step(t)
  PROVE  RightReq'
<1> SUFFICES ASSUME NEW u \in Threads, pc'[u] # "idle"
             PROVE  job'[u].req = Canonical(job'[u].req)
  BY DEF RightReq, Canonical
<1>1. CASE u = t
  BY <1>1, SelfKept, Locals DEF IInv, RightReq
<1>2. CASE u # t
  BY <1>2, OthersKept DEF IInv, RightReq
<1> QED
  BY <1>1, <1>2

LEMMA MutexStep ==
  ASSUME IInv, NEW t \in Threads, Step(t)
  PROVE  Mutex'
<1> SUFFICES ASSUME NEW u \in Threads, pc'[u] \notin {"idle", "lock"}, job'[u].op \in Locked
             PROVE  mu' = u
  BY DEF Mutex
<1>1. CASE u = t
  BY <1>1, SelfKept DEF IInv, Mutex
<1>2. CASE u # t
  BY <1>2, OthersKept DEF IInv, Mutex
<1> QED
  BY <1>1, <1>2

\* A step at a label of the locked operations only is taken by the thread that
\* holds Manager.mu, past the read of its tool's row.
LEMMA HolderSteps ==
  ASSUME IInv, NEW t \in Threads,
         pc[t] \in {"backup", "trim", "record", "forget", "rmtree", "rmbackups",
                   "rmversions", "rmrow"}
  PROVE  /\ mu = t /\ db[job[t].name] # NoRow
         /\ job[t].op \in Locked \ {"Register"}
         /\ job[t].name \in Names /\ Slug(t) \in Slugs
<1>1. job[t].op \in Locked \ {"Register"}
  BY DEF IInv, RightOps, OpsAt, Locked, Updating
<1> QED
  BY <1>1, JobTypes DEF IInv, Mutex, HoldsRow

\* The tool of a locked operation under way is not removed by another thread.
LEMMA HoldsRowStep ==
  ASSUME IInv, NEW t \in Threads, Step(t)
  PROVE  HoldsRow'
<1> SUFFICES ASSUME NEW u \in Threads, pc'[u] \notin {"idle", "lock", "read"},
                    job'[u].op \in Locked \ {"Register"}
             PROVE  db'[job'[u].name] # NoRow
  BY DEF HoldsRow
<1>1. CASE u = t
  <2>1. /\ Moves(t) /\ job'[t].name = job[t].name /\ job[t].op \in Locked \ {"Register"}
        /\ pc[t] \notin {"idle", "lock"} /\ job[t].name \in Names
    BY <1>1, SelfKept, JobTypes DEF IInv
  <2>2. db[job[t].name] # NoRow
    BY <2>1, Reaches DEF IInv, HoldsRow
  <2>3. ~RemoveRow(t)
    BY <1>1, TypeParts DEF RemoveRow, Return, Goto, IInv, ControlOK
  <2> QED
    BY <1>1, <2>1, <2>2, <2>3, RowsStep
<1>2. CASE u # t
  <2>1. pc'[u] = pc[u] /\ job'[u] = job[u] /\ mu = u /\ db[job[u].name] # NoRow /\ job[u].name \in Names
    BY <1>2, OthersKept, JobTypes DEF IInv, Mutex, HoldsRow
  <2>2. ~RemoveRow(t)
    BY <1>2, <2>1, HolderSteps DEF RemoveRow
  <2> QED
    BY <2>1, <2>2, RowsStep
<1> QED
  BY <1>1, <1>2

LEMMA OneFolderStep ==
  ASSUME IInv, NEW t \in Threads, Step(t)
  PROVE  OneFolder'
<1> SUFFICES ASSUME NEW m \in Names, NEW n \in Names, db'[m] # NoRow, db'[n] # NoRow,
                    SlugOf[m] = SlugOf[n]
             PROVE  m = n
  BY DEF OneFolder, Registered
<1>1. CASE db[m] # NoRow /\ db[n] # NoRow
  BY <1>1 DEF IInv, OneFolder, Registered
<1>2. CASE db[m] = NoRow /\ db[n] # NoRow
  BY <1>2, RowsStep DEF Registered
<1>3. CASE db[m] # NoRow /\ db[n] = NoRow
  BY <1>3, RowsStep DEF Registered
<1>4. CASE db[m] = NoRow /\ db[n] = NoRow
  BY <1>4, RowsStep
<1> QED
  BY <1>1, <1>2, <1>3, <1>4

\* The tools of two locked operations under way are one tool, so nothing that
\* another thread does to backups and history reaches a holder.
LEMMA PickValidStep ==
  ASSUME IInv, NEW t \in Threads, Step(t)
  PROVE  PickValid'
<1> SUFFICES ASSUME NEW u \in Threads, pc'[u] \in {"backup", "halt", "restore"},
                    job'[u].op = "Rollback"
             PROVE  job'[u].pick \in 1..Len(backups'[SlugOf[job'[u].name]])
  BY DEF PickValid, Slug
<1>1. CASE u = t
  <2>1. /\ Moves(t) /\ job[t].op = "Rollback" /\ SlugOf[job'[t].name] = Slug(t)
        /\ pc[t] # "idle"
    BY <1>1, SelfKept DEF Slug
  <2>2. /\ job'[t].pick \in 1..Len(backups[Slug(t)])
        /\ backups'[Slug(t)] = backups[Slug(t)] \/ pc[t] = "backup"
    BY <1>1, <2>1, Reaches
  <2>3. /\ Slug(t) \in Slugs /\ backups[Slug(t)] \in Seq(Settled)
        /\ backups'[Slug(t)] \in Seq(Settled)
    BY <2>1, JobTypes, TypeParts, BackupsStep DEF IInv, DataOK
  <2>4. Len(backups'[Slug(t)]) >= Len(backups[Slug(t)])
    BY <2>2, <2>3, BackupsStep
  <2> QED
    BY <1>1, <2>1, <2>2, <2>3, <2>4
<1>2. CASE u # t
  <2>1. /\ pc'[u] = pc[u] /\ job'[u] = job[u] /\ mu = u /\ Slug(u) \in Slugs
        /\ job[u].pick \in 1..Len(backups[Slug(u)])
    BY <1>2, OthersKept, JobTypes DEF IInv, Mutex, PickValid, Locked
  <2>2. backups'[Slug(u)] = backups[Slug(u)]
    BY <1>2, <2>1, BackupsStep, HolderSteps
  <2> QED
    BY <2>1, <2>2 DEF Slug
<1> QED
  BY <1>1, <1>2

LEMMA EmptiedStep ==
  ASSUME IInv, NEW t \in Threads, Step(t)
  PROVE  Emptied'
<1> SUFFICES ASSUME NEW u \in Threads
             PROVE  /\ pc'[u] \in {"rmversions", "rmrow"} => backups'[SlugOf[job'[u].name]] = <<>>
                    /\ pc'[u] = "rmrow" => versions'[job'[u].name] = 0
  BY DEF Emptied, Slug
<1>1. CASE u = t
  <2> SUFFICES ASSUME pc'[t] \in {"rmversions", "rmrow"}
               PROVE  /\ backups'[Slug(t)] = <<>>
                      /\ pc'[t] = "rmrow" => versions'[job[t].name] = 0
    BY <1>1, SelfKept DEF Slug
  <2>1. RemoveBackups(t) \/ RemoveVersions(t)
    BY SelfKept, Reaches
  <2>2. pc[t] \in {"rmbackups", "rmversions"}
    BY <2>1 DEF RemoveBackups, RemoveVersions
  <2>3. Slug(t) \in Slugs /\ job[t].name \in Names /\ DataOK /\ ControlOK
    BY <2>2, HolderSteps, TypeParts DEF IInv
  <2>4. CASE RemoveBackups(t)
    BY <2>3, <2>4 DEF RemoveBackups, DataOK, ControlOK, Goto
  <2>5. CASE RemoveVersions(t)
    BY <2>3, <2>5 DEF RemoveVersions, DataOK, ControlOK, Goto, disk, IInv, Emptied
  <2> QED
    BY <2>1, <2>4, <2>5
<1>2. CASE u # t
  <2> SUFFICES ASSUME pc[u] \in {"rmversions", "rmrow"}
               PROVE  /\ backups'[Slug(u)] = <<>>
                      /\ pc[u] = "rmrow" => versions'[job[u].name] = 0
    BY <1>2, OthersKept DEF Slug
  <2>1. mu = u /\ Slug(u) \in Slugs /\ job[u].name \in Names
    BY HolderSteps
  <2>2. pc[t] \notin {"backup", "trim", "record", "rmbackups", "rmversions", "rmrow"}
    BY <1>2, <2>1, HolderSteps
  <2>3. backups'[Slug(u)] = backups[Slug(u)] /\ versions'[job[u].name] = versions[job[u].name]
    BY <2>1, <2>2, BackupsStep, VersionsStep
  <2> QED
    BY <2>3 DEF IInv, Emptied
<1> QED
  BY <1>1, <1>2

LEMMA NoGhostsStep ==
  ASSUME IInv, NEW t \in Threads, Step(t)
  PROVE  NoGhosts'
<1>1. ASSUME NEW n \in Names, db'[n] = NoRow
      PROVE  versions'[n] = 0
  <2>1. versions'[n] # versions[n] => db[n] # NoRow /\ pc[t] \in {"record", "rmversions"}
    BY VersionsStep, HolderSteps
  <2>2. db[n] # NoRow => pc[t] = "rmrow" /\ n = job[t].name
    BY <1>1, RowsStep DEF RemoveRow
  <2>3. versions'[n] = versions[n]
    BY <2>1, <2>2
  <2>4. versions[n] = 0
    BY <2>2 DEF IInv, NoGhosts, Emptied
  <2> QED
    BY <2>3, <2>4
<1>2. ASSUME NEW s \in Slugs, backups'[s] # <<>>
      PROVE  \E n \in Names : db'[n] # NoRow /\ SlugOf[n] = s
  <2>1. PICK n \in Names : db[n] # NoRow /\ SlugOf[n] = s /\ (pc[t] = "rmrow" => backups[s] # <<>>)
    <3>1. CASE backups[s] # <<>>
      BY <3>1 DEF IInv, NoGhosts, Registered
    <3>2. CASE backups[s] = <<>>
      <4>1. pc[t] = "backup" /\ s = Slug(t)
        BY <1>2, <3>2, BackupsStep
      <4> QED
        BY <4>1, HolderSteps DEF Slug
    <3> QED
      BY <3>1, <3>2
  <2>2. db'[n] = NoRow => pc[t] = "rmrow" /\ n = job[t].name
    BY <2>1, RowsStep DEF RemoveRow
  <2> QED
    BY <2>1, <2>2 DEF IInv, Emptied, Slug
<1> QED
  BY <1>1, <1>2 DEF NoGhosts, Registered

LEMMA IInvStep ==
  ASSUME IInv, NEW t \in Threads, Step(t)
  PROVE  IInv'
  BY TypeStep, RightOpsStep, RightReqStep, MutexStep, HoldsRowStep, OneFolderStep, PickValidStep, EmptiedStep,
     NoGhostsStep DEF IInv

-----------------------------------------------------------------------------
(* The steps that are not a working thread's *)

\* A thread takes up a new job while the stored state stays as it is.
LEMMA TakesUp ==
  ASSUME IInv, NEW t \in Threads, pc[t] = "idle", NEW j \in Job, NEW l \in {"lock", "read"},
         Goto(t, l), job' = [job EXCEPT ![t] = j], j.op \in OpsAt(l), j.req = Canonical(j.req),
         l = "read" => j.op \notin Locked,
         CtlOK', UNCHANGED <<store, disk, pm2, mu>>
  PROVE  IInv'
<1> USE DEF store, disk
<1>0. ControlOK /\ DataOK
  BY TypeParts DEF IInv
<1>1. /\ pc'[t] = l /\ job'[t] = j
      /\ \A u \in Threads : u # t => pc'[u] = pc[u] /\ job'[u] = job[u]
  BY <1>0 DEF Goto, ControlOK
<1>2. TypeOK'
  BY <1>0 DEF TypeOK, ControlOK, DataOK, CtlOK, Goto, Labels
<1>3. RightOps' /\ RightReq'
  BY <1>1 DEF IInv, RightOps, RightReq, OpsAt, Canonical
<1>4. Mutex' /\ HoldsRow'
  BY <1>1 DEF IInv, Mutex, HoldsRow
<1>5. OneFolder' /\ NoGhosts'
  BY DEF IInv, OneFolder, NoGhosts, Registered
<1>6. PickValid' /\ Emptied'
  BY <1>1 DEF IInv, PickValid, Emptied, Slug
<1> QED
  BY <1>2, <1>3, <1>4, <1>5, <1>6 DEF IInv

LEMMA IssueStep ==
  ASSUME IInv, NEW t \in Procs, Issue(t)
  PROVE  IInv'
<1> USE DEF ctl
<1>1. PICK op \in Ops, n \in Names, u \in Urls :
        /\ job' = [job EXCEPT ![t] =
             [op |-> op, name |-> n,
              req |-> [url |-> u, bin |-> BinOf[u]], row |-> [url |-> u, bin |-> BinOf[u]],
              saved |-> FALSE, pick |-> 0, tries |-> 0, want |-> Absent]]
        /\ Goto(t, IF op \in Locked THEN "lock" ELSE "read")
  BY DEF Issue
<1> DEFINE row == [url |-> u, bin |-> BinOf[u]]
           j == [op |-> op, name |-> n, req |-> row, row |-> row,
                 saved |-> FALSE, pick |-> 0, tries |-> 0, want |-> Absent]
           l == IF op \in Locked THEN "lock" ELSE "read"
<1>2. j \in Job /\ t \in Threads /\ j.req = Canonical(j.req)
  BY ConstantsAssumption DEF Job, Row, Settled, Threads, Canonical
<1>3. CtlOK'
  BY TypeParts DEF Issue, CtlOK, IInv
<1>4. l \in {"lock", "read"} /\ j.op \in OpsAt(l) /\ (l = "read" => j.op \notin Locked)
  BY ConstantsAssumption DEF OpsAt, Locked, AllOps
<1>5. pc[t] = "idle" /\ UNCHANGED <<store, disk, pm2, mu>>
  BY DEF Issue
<1> HIDE DEF j, l
<1> QED
  BY <1>1, <1>2, <1>3, <1>4, <1>5, TakesUp DEF j, l

LEMMA ReconcileStep ==
  ASSUME IInv, NEW n \in Names, Reconcile(n)
  PROVE  IInv'
<1> DEFINE u == CHOOSE v \in Urls : TRUE
           row == [url |-> u, bin |-> BinOf[u]]
           j == [op |-> "Start", name |-> n, req |-> row, row |-> row,
                 saved |-> FALSE, pick |-> 0, tries |-> 0, want |-> Absent]
<1>1. CtlOK' /\ pc[Boot] = "idle" /\ Boot \in Threads /\ UNCHANGED <<store, disk, pm2, mu>>
  BY TypeParts DEF Reconcile, CtlOK, IInv, Threads
<1>2. CASE UNCHANGED <<pc, job>>
  <2>1. UNCHANGED <<db, versions, files, tmp, backups, pm2, mu, pc, job>>
    BY <1>1, <1>2 DEF store, disk
  <2>2. TypeOK'
    BY <1>1, <2>1, TypeParts DEF IInv, TypeOK, CtlOK
  <2> QED
    BY <2>1, <2>2 DEF IInv, RightOps, RightReq, Mutex, HoldsRow, OneFolder, PickValid, Emptied, NoGhosts,
       Registered, Slug, Canonical
<1>3. CASE job' = [job EXCEPT ![Boot] = j] /\ Goto(Boot, "read")
  <2>1. u \in Urls
    BY ConstantsAssumption
  <2>2. j \in Job /\ j.op \in OpsAt("read") /\ j.op \notin Locked
    BY <2>1, ConstantsAssumption DEF Job, Row, Settled, AllOps, OpsAt, Locked
  <2>3. row = Canonical(row)
    BY DEF Canonical
  <2>4. j.req = Canonical(j.req)
    BY <2>3
  <2> HIDE DEF j
  <2> QED
    BY <1>1, <1>3, <2>2, <2>4, TakesUp
<1> QED
  BY <1>2, <1>3 DEF Reconcile

\* Lock is the only step that gives the mutex away, and only when it is free.
LEMMA LockStep ==
  ASSUME IInv, NEW t \in Threads, Lock(t)
  PROVE  IInv'
<1> USE DEF store, disk, ctl
<1> DEFINE l == IF job[t].op = "Register" THEN "get" ELSE "read"
<1>0. ControlOK /\ DataOK /\ CtlOK /\ job[t] \in Job /\ job[t].op \in Locked
  BY TypeParts, JobTypes DEF IInv, Lock, RightOps, OpsAt
<1>1. /\ pc' = [pc EXCEPT ![t] = l] /\ job' = job /\ mu = Free /\ mu' = t /\ pc[t] = "lock"
      /\ UNCHANGED <<store, disk, pm2, ctl>>
  BY DEF Lock, Goto
<1>2. pc'[t] = l /\ \A u \in Threads : u # t => pc'[u] = pc[u]
  BY <1>0, <1>1 DEF ControlOK
<1>3. TypeOK'
  BY <1>0, <1>1 DEF TypeOK, ControlOK, DataOK, CtlOK, Labels
<1>4. RightOps'
  <2>1. job[t].op \in OpsAt(l)
    BY <1>0 DEF OpsAt, Locked, AllOps, Installing
  <2> QED
    BY <1>1, <1>2, <2>1 DEF IInv, RightOps, OpsAt
<1>8. RightReq'
  BY <1>1, <1>2 DEF IInv, RightReq, Canonical
<1>5. Mutex' /\ HoldsRow'
  BY <1>0, <1>1, <1>2, SeparateValues DEF IInv, Mutex, HoldsRow
<1>6. OneFolder' /\ NoGhosts'
  BY <1>1 DEF IInv, OneFolder, NoGhosts, Registered
<1>7. PickValid' /\ Emptied'
  BY <1>1, <1>2 DEF IInv, PickValid, Emptied, Slug
<1> QED
  BY <1>3, <1>4, <1>5, <1>6, <1>7, <1>8 DEF IInv

\* The daemon and the start of the server leave rows, folders and threads.
LEMMA AsideStep ==
  ASSUME IInv, (\E n \in Names : Pm2Event(n)) \/ Serve
  PROVE  IInv'
<1>1. UNCHANGED <<db, versions, files, tmp, backups, mu, pc, job>>
  BY DEF Pm2Event, Serve, store, disk
<1>2. TypeOK'
  <2>1. CASE Serve
    BY <1>1, <2>1, TypeParts DEF IInv, TypeOK, Serve
  <2>2. ASSUME NEW n \in Names, Pm2Event(n)
        PROVE  TypeOK'
    <3>1. pm2[n] \in Image
      BY <2>2, TypeParts DEF IInv, DataOK, Pm2Event
    <3>2. [pm2[n] EXCEPT !.st = "online"] \in Image /\ [pm2[n] EXCEPT !.st = "errored"] \in Image
      BY <3>1 DEF Image
    <3>3. pm2' \in [Names -> Image \cup {NotManaged}]
      BY <2>2, <3>2, TypeParts DEF IInv, DataOK, Pm2Event
    <3> QED
      BY <1>1, <2>2, <3>3, TypeParts DEF IInv, TypeOK, Pm2Event, ctl
  <2> QED
    BY <2>1, <2>2
<1> QED
  BY <1>1, <1>2 DEF IInv, RightOps, RightReq, Mutex, HoldsRow, OneFolder, PickValid, Emptied, NoGhosts,
     Registered, Slug, Canonical

\* A crash ends every thread and keeps rows, backups and history.
LEMMA CrashStep ==
  ASSUME IInv, Crash
  PROVE  IInv'
<1>0. ControlOK /\ DataOK /\ CtlOK
  BY TypeParts DEF IInv
<1>1. \A s \in Slugs, b \in Bins :
        /\ Seen(files[s][b]) \in Settled
        /\ Seen(tmp[s][b]) \in {Absent, Partial}
  BY <1>0, SeenType DEF DataOK, Seen, Contents
<1>2. \A t \in Threads : pc'[t] = "idle"
  BY DEF Crash
<1>3. TypeOK'
  <2>1. files' \in [Slugs -> [Bins -> Contents]] /\ tmp' \in [Slugs -> [Bins -> {Absent, Partial} \cup Threads]]
    BY <1>1 DEF Crash, Settled, Contents
  <2>2. pm2' \in [Names -> Image \cup {NotManaged}]
    BY <1>0 DEF Crash, DataOK
  <2>3. ControlOK' /\ CtlOK'
    BY <1>0, <1>2 DEF Crash, ControlOK, CtlOK, Labels, Registered
  <2>4. db' = db /\ versions' = versions /\ backups' = backups
    BY DEF Crash, store
  <2> QED
    BY <1>0, <2>1, <2>2, <2>3, <2>4 DEF TypeOK, DataOK, ControlOK, CtlOK
<1>4. RightOps' /\ RightReq' /\ Mutex' /\ HoldsRow' /\ PickValid' /\ Emptied'
  BY <1>2 DEF RightOps, RightReq, Mutex, HoldsRow, PickValid, Emptied
<1>5. OneFolder' /\ NoGhosts'
  BY DEF Crash, IInv, OneFolder, NoGhosts, Registered, store
<1> QED
  BY <1>3, <1>4, <1>5 DEF IInv

-----------------------------------------------------------------------------
(* The theorems *)

LEMMA InitIInv == Init => IInv
<1> SUFFICES ASSUME Init PROVE IInv
  OBVIOUS
<1>1. \A t \in Threads : pc[t] = "idle"
  BY DEF Init
<1>2. TypeOK
  <2>1. /\ db \in [Names -> Row \cup {NoRow}] /\ versions \in [Names -> Nat]
        /\ files \in [Slugs -> [Bins -> Contents]]
        /\ tmp \in [Slugs -> [Bins -> {Absent, Partial} \cup Threads]]
    BY ConstantsAssumption, InitDbAssumption DEF Init, Contents
  <2>2. backups \in [Slugs -> Seq(Settled)]
    BY DEF Init
  <2>3. pm2 \in [Names -> Image \cup {NotManaged}]
    <3>1. [img |-> InitFile, st |-> "online"] \in Image
      BY ConstantsAssumption DEF Image
    <3> QED
      BY <3>1 DEF Init
  <2>4. ControlOK /\ CtlOK
    BY <1>1 DEF Init, ControlOK, CtlOK, Labels
  <2> QED
    BY <2>1, <2>2, <2>3, <2>4 DEF TypeOK, ControlOK, CtlOK
<1>3. RightOps /\ RightReq /\ Mutex /\ HoldsRow /\ PickValid /\ Emptied
  BY <1>1 DEF RightOps, RightReq, Mutex, HoldsRow, PickValid, Emptied
<1>4. OneFolder /\ NoGhosts
  BY InitDbAssumption DEF Init, OneFolder, NoGhosts, Registered
<1> QED
  BY <1>2, <1>3, <1>4 DEF IInv

LEMMA IInvNext == IInv /\ [Next]_vars => IInv'
<1> SUFFICES ASSUME IInv, [Next]_vars PROVE IInv'
  OBVIOUS
<1>1. CASE UNCHANGED vars
  BY <1>1 DEF vars, IInv, TypeOK, RightOps, RightReq, Mutex, HoldsRow, OneFolder, PickValid, Emptied,
     NoGhosts, Registered, Slug, Canonical
<1>2. ASSUME NEW t \in Procs, Issue(t) PROVE IInv'
  BY <1>2, IssueStep
<1>3. ASSUME NEW t \in Threads, Lock(t) PROVE IInv'
  BY <1>3, LockStep
<1>4. ASSUME NEW t \in Threads, Step(t) PROVE IInv'
  BY <1>4, IInvStep
<1>5. ASSUME NEW n \in Names, Reconcile(n) PROVE IInv'
  BY <1>5, ReconcileStep
<1>6. CASE (\E n \in Names : Pm2Event(n)) \/ Serve
  BY <1>6, AsideStep
<1>7. CASE Crash
  BY <1>7, CrashStep
<1> QED
  BY <1>1, <1>2, <1>3, <1>4, <1>5, <1>6, <1>7 DEF Next

\* In every reachable state the mutex keeps the steps of locked operations
\* apart, and rows, backups and history belong together.
THEOREM Invariance == Spec => []IInv
  BY InitIInv, IInvNext, PTL DEF Spec

\* Every variable keeps its type, through every interleaving, fault and crash.
THEOREM TypeCorrect == Spec => []TypeOK
<1>1. IInv => TypeOK
  BY DEF IInv
<1> QED
  BY <1>1, Invariance, PTL

\* Whatever fails, whoever runs beside it and whenever the manager dies, no name
\* without a row keeps a history and no folder without an owner keeps backups:
\* CleanupTool deletes the row last, under Manager.mu.
THEOREM NeverGhosts == Spec => []NoGhosts
<1>1. IInv => NoGhosts
  BY DEF IInv
<1> QED
  BY <1>1, Invariance, PTL

-----------------------------------------------------------------------------
(* The mutex *)

\* A thread takes the mutex up when it is free and puts it down when it returns.
LEMMA HolderNext == IInv /\ HeldByWorker /\ [Next]_vars => HeldByWorker'
<1> SUFFICES ASSUME IInv, HeldByWorker, [Next]_vars, mu' # Free
             PROVE  pc'[mu'] \notin {"idle", "lock"} /\ job'[mu'].op \in Locked
  BY DEF HeldByWorker
<1>0. ControlOK /\ Boot \in Threads
  BY TypeParts DEF IInv, Threads
<1>1. CASE UNCHANGED <<mu, pc, job>>
  BY <1>1 DEF HeldByWorker
<1>2. ASSUME NEW t \in Threads, Step(t)
      PROVE  pc'[mu'] \notin {"idle", "lock"} /\ job'[mu'].op \in Locked
  <2>1. CASE Return(t)
    <3>1. mu' = mu /\ mu # t /\ mu \in Threads
      BY <1>0, <2>1, SeparateValues DEF Return, ControlOK
    <3> QED
      BY <1>2, <3>1, OthersKept DEF HeldByWorker
  <2>2. CASE Moves(t)
    <3>1. mu' = mu /\ mu \in Threads
      BY <1>0, <2>2 DEF Moves, ControlOK
    <3>2. CASE mu = t
      BY <2>2, <3>1, <3>2 DEF Moves, HeldByWorker
    <3>3. CASE mu # t
      BY <1>2, <3>1, <3>3, OthersKept DEF HeldByWorker
    <3> QED
      BY <3>2, <3>3
  <2> QED
    BY <1>2, <2>1, <2>2, Shape
<1>3. ASSUME NEW t \in Threads, Lock(t)
      PROVE  pc'[mu'] \notin {"idle", "lock"} /\ job'[mu'].op \in Locked
  BY <1>0, <1>3 DEF Lock, Goto, ControlOK, IInv, RightOps, OpsAt
<1>4. ASSUME NEW t \in Threads, pc[t] = "idle", mu' = mu,
             \A u \in Threads : u # t => pc'[u] = pc[u] /\ job'[u] = job[u]
      PROVE  pc'[mu'] \notin {"idle", "lock"} /\ job'[mu'].op \in Locked
  BY <1>0, <1>4 DEF HeldByWorker, ControlOK
<1>5. ASSUME NEW t \in Procs, Issue(t)
      PROVE  pc'[mu'] \notin {"idle", "lock"} /\ job'[mu'].op \in Locked
  BY <1>0, <1>4, <1>5 DEF Issue, Goto, ControlOK, Threads
<1>6. ASSUME NEW n \in Names, Reconcile(n)
      PROVE  pc'[mu'] \notin {"idle", "lock"} /\ job'[mu'].op \in Locked
  BY <1>0, <1>1, <1>4, <1>6 DEF Reconcile, Goto, ControlOK
<1>7. CASE (\E n \in Names : Pm2Event(n)) \/ Serve \/ UNCHANGED vars
  BY <1>1, <1>7 DEF Pm2Event, Serve, vars
<1>8. ~Crash
  BY DEF Crash
<1> QED
  BY <1>2, <1>3, <1>5, <1>6, <1>7, <1>8 DEF Next

\* Manager.mu is never left locked: whoever holds it is a request under way,
\* whose every return unlocks it.
THEOREM NoOrphanMutex == Spec => []HeldByWorker
<1>1. Init => HeldByWorker
  BY DEF Init, HeldByWorker
<1> QED
  BY <1>1, HolderNext, Invariance, PTL DEF Spec

-----------------------------------------------------------------------------
(* Every request ends in a bounded number of its steps *)

Fetching == {"get", "open", "transfer", "unpacking"}

\* An attempt is one of the attempts.
TriesBounded == \A t \in Threads : pc[t] # "idle" => job[t].tries < Attempts

\* Outside downloads the labels alone tell what is left to do.
LEMMA LessAfter ==
  ASSUME NEW l, NEW m \in After(l), l \notin Fetching, m \notin Fetching
  PROVE  LabelWork(m) < LabelWork(l)
<1>1. Attempts \in Nat /\ Attempts > 0
  BY ConstantsAssumption
<1>2. CASE l \in {"read", "migrate", "migrating", "persist", "rewrite", "ensure"}
  BY <1>1, <1>2 DEF After, Fetching, LabelWork, BackupWork
<1>3. CASE l \in {"backup", "select", "halt", "restore", "restoring"}
  BY <1>1, <1>3 DEF After, Fetching, LabelWork, BackupWork
<1>4. CASE l \in {"inspect", "pstop", "pdelete", "pstart", "wait", "save", "trim"}
  BY <1>4 DEF After, LabelWork
<1>5. CASE l \in {"forget", "rmtree", "rmbackups", "rmversions"}
  BY <1>5 DEF After, LabelWork
<1> QED
  BY <1>2, <1>3, <1>4, <1>5 DEF After, Fetching

LEMMA WorkLess ==
  ASSUME IInv, TriesBounded, NEW t \in Threads, Step(t), Moves(t)
  PROVE  Work(t)' < Work(t)
<1>1. Attempts \in Nat /\ Attempts > 0
  BY ConstantsAssumption
<1>2. /\ pc[t] # "idle" /\ job[t] \in Job /\ job'[t] \in Job
      /\ job[t].tries \in Nat /\ job'[t].tries \in Nat /\ job[t].tries < Attempts
      /\ job[t].saved \in BOOLEAN /\ job'[t].saved \in BOOLEAN
  BY Shape DEF Moves, Job, TriesBounded, IInv, TypeOK
<1>3. pc'[t] \in After(pc[t])
  BY Flow
<1>4. CASE pc[t] \notin Fetching /\ pc'[t] \notin Fetching
  BY <1>3, <1>4, LessAfter DEF Work, Fetching
<1>5. CASE pc[t] = "ensure" /\ pc'[t] = "get"
  <2>1. Work(t) = BackupWork + 3 * Attempts + 2
    BY <1>5 DEF Work, LabelWork
  <2>2. Work(t)' <= BackupWork + 1 + 3 * (Attempts - job'[t].tries) /\ Work(t)' \in Int
    BY <1>1, <1>2, <1>5 DEF Work, FetchWork, BackupWork
  <2> QED
    BY <1>1, <1>2, <2>1, <2>2 DEF BackupWork
<1>6. CASE pc[t] = "backup" /\ pc'[t] = "get"
  <2>1. Backup(t)
    <3>1. ~Return(t)
      BY <1>6, TypeParts DEF Return, Goto, IInv, ControlOK
    <3> QED
      BY <1>6, <3>1, StepsAt DEF TornBackup, Fail
  <2>2. job'[t].saved /\ job'[t].tries = 0
    BY <1>2, <2>1, TypeParts DEF Backup, IInv, ControlOK, Job
  <2> QED
    BY <1>1, <1>6, <2>2 DEF Work, FetchWork, LabelWork, BackupWork
<1>7. CASE pc[t] \in {"get", "open"} /\ pc'[t] \in {"open", "transfer"}
  <2>1. job'[t].saved = job[t].saved /\ job'[t].tries = job[t].tries
    BY <1>7, Locals DEF Backup
  <2>2. FetchWork(t)' = FetchWork(t) /\ FetchWork(t) \in Int
    BY <1>1, <1>2, <2>1 DEF FetchWork, BackupWork
  <2>3. (pc[t] = "get" /\ pc'[t] = "open") \/ (pc[t] = "open" /\ pc'[t] = "transfer")
    BY <1>3, <1>7 DEF After
  <2> QED
    BY <2>2, <2>3 DEF Work
<1>8. CASE pc[t] \in {"open", "transfer"} /\ pc'[t] = "get"
  <2>1. job'[t].saved = job[t].saved
    BY <1>8, Locals DEF Backup
  <2>2. job'[t].tries = job[t].tries + 1
    BY <1>2, <1>8, Flow, TypeParts DEF RetryOrReturn, IInv, ControlOK, Job
  <2>3. FetchWork(t)' = FetchWork(t) - 3 /\ FetchWork(t) \in Int
    BY <1>1, <1>2, <2>1, <2>2 DEF FetchWork, BackupWork
  <2> QED
    BY <1>8, <2>3 DEF Work
<1>9. CASE pc[t] \in {"transfer", "unpacking"} /\ pc'[t] # "get"
  <2>1. job'[t].saved = job[t].saved /\ job'[t].tries = job[t].tries
    BY <1>9, Locals DEF Backup
  <2>2. pc'[t] \in {"create", "inspect", "backup", "unpacking"} /\ (pc'[t] = "unpacking" => pc[t] = "transfer")
    BY <1>3, <1>9 DEF After
  <2>3. job[t].saved => pc'[t] # "backup"
    BY <1>9, Flow
  <2> DEFINE rest == IF job[t].saved THEN 9 ELSE BackupWork + 1
  <2>4. Work(t) >= rest /\ (pc[t] = "transfer" => Work(t) > rest)
    BY <1>1, <1>2, <1>9 DEF Work, FetchWork, BackupWork
  <2>5. Work(t)' <= rest /\ (pc'[t] # "unpacking" => Work(t)' < rest)
    BY <1>1, <1>2, <2>1, <2>2, <2>3 DEF Work, LabelWork, BackupWork
  <2>6. Work(t) \in Int /\ Work(t)' \in Int /\ rest \in Int
    BY <1>1, <1>2, <1>9, <2>1, <2>2 DEF Work, FetchWork, LabelWork, BackupWork
  <2> QED
    BY <1>9, <2>2, <2>4, <2>5, <2>6
<1> QED
  BY <1>3, <1>4, <1>5, <1>6, <1>7, <1>8, <1>9 DEF After, Fetching

\* Whatever has a job has something to do.
LEMMA WorkPositive ==
  ASSUME IInv, TriesBounded, NEW t \in Threads, pc[t] # "idle"
  PROVE  Work(t) > 0
<1>1. /\ Attempts \in Nat /\ pc[t] \in Labels /\ job[t].tries \in Nat /\ job[t].tries < Attempts
      /\ job[t].saved \in BOOLEAN
  BY ConstantsAssumption, TypeParts, JobTypes DEF IInv, ControlOK, TriesBounded, Job
<1>2. CASE pc[t] \in Fetching
  BY <1>1, <1>2 DEF Work, FetchWork, BackupWork, Fetching
<1>3. CASE pc[t] \notin Fetching
  BY <1>1, <1>3 DEF Work, LabelWork, BackupWork, Fetching, Labels
<1> QED
  BY <1>2, <1>3

LEMMA TriesNext == IInv /\ TriesBounded /\ [Next]_vars => TriesBounded'
<1> SUFFICES ASSUME IInv, TriesBounded, [Next]_vars, NEW t \in Threads, pc'[t] # "idle"
             PROVE  job'[t].tries < Attempts
  BY DEF TriesBounded
<1>0. ControlOK /\ Attempts > 0 /\ Boot \in Threads /\ Attempts \in Nat
  BY TypeParts, ConstantsAssumption DEF IInv, Threads
<1>1. CASE UNCHANGED <<pc, job>> \/ (job'[t] = job[t] /\ pc[t] # "idle")
  BY <1>1 DEF TriesBounded
<1>2. ASSUME NEW u \in Threads, Step(u) PROVE job'[t].tries < Attempts
  <2>1. CASE u # t
    BY <1>2, <2>1, OthersKept DEF TriesBounded
  <2>2. CASE u = t
    <3>1. Moves(t) /\ pc[t] # "idle"
      BY <1>2, <2>2, SelfKept
    <3> QED
      BY <1>0, <1>2, <2>2, <3>1, Locals DEF TriesBounded
  <2> QED
    BY <2>1, <2>2
<1>3. ASSUME NEW u \in Procs, Issue(u) PROVE job'[t].tries < Attempts
  <2>1. u \in Threads /\ job'[u].tries = 0 /\ \A v \in Threads : v # u => pc'[v] = pc[v] /\ job'[v] = job[v]
    BY <1>0, <1>3 DEF Issue, Goto, ControlOK, Threads
  <2> QED
    BY <1>0, <2>1 DEF TriesBounded
<1>4. ASSUME NEW u \in Threads, Lock(u) PROVE job'[t].tries < Attempts
  BY <1>0, <1>4 DEF Lock, Goto, ControlOK, TriesBounded
<1>5. ASSUME NEW n \in Names, Reconcile(n) PROVE job'[t].tries < Attempts
  <2>1. CASE UNCHANGED <<pc, job>>
    BY <1>1, <2>1
  <2>2. CASE ~UNCHANGED <<pc, job>>
    <3>1. job'[Boot].tries = 0 /\ \A v \in Threads : v # Boot => pc'[v] = pc[v] /\ job'[v] = job[v]
      BY <1>0, <1>5, <2>2 DEF Reconcile, Goto, ControlOK
    <3> QED
      BY <1>0, <3>1 DEF TriesBounded
  <2> QED
    BY <2>1, <2>2
<1>6. CASE (\E n \in Names : Pm2Event(n)) \/ Serve \/ Crash \/ UNCHANGED vars
  BY <1>1, <1>6 DEF Pm2Event, Serve, Crash, vars
<1> QED
  BY <1>2, <1>3, <1>4, <1>5, <1>6 DEF Next

LEMMA LessWorkNext == IInv /\ TriesBounded /\ [Next]_vars => [\A t \in Threads : LessWork(t)]_vars
<1> SUFFICES ASSUME IInv, TriesBounded, Next, NEW t \in Threads, pc[t] # "idle",
                    <<pc'[t], job'[t]>> # <<pc[t], job[t]>>
             PROVE  Work(t)' < Work(t)
  BY DEF LessWork
<1>0. ControlOK /\ Boot \in Threads /\ Work(t) > 0
  BY TypeParts, WorkPositive DEF IInv, Threads
<1>1. CASE pc'[t] = "idle"
  <2>1. Work(t)' = 0
    BY <1>1 DEF Work, LabelWork
  <2> QED
    BY <1>0, <2>1
<1>2. ASSUME NEW u \in Threads, Step(u), pc'[t] # "idle" PROVE Work(t)' < Work(t)
  <2>1. u = t
    BY <1>2, OthersKept
  <2>2. Moves(t)
    BY <1>2, <2>1, SelfKept
  <2> QED
    BY <1>2, <2>1, <2>2, WorkLess
<1>3. ASSUME NEW u \in Procs, Issue(u) PROVE FALSE
  BY <1>0, <1>3 DEF Issue, Goto, ControlOK, Threads
<1>4. ASSUME NEW u \in Threads, Lock(u) PROVE Work(t)' < Work(t)
  <2>1. u = t /\ pc[t] = "lock" /\ job' = job /\ pc'[t] \in {"get", "read"}
    BY <1>0, <1>4 DEF Lock, Goto, ControlOK
  <2>2. job[t].tries \in Nat /\ job[t].saved \in BOOLEAN /\ Attempts \in Nat
    BY <2>1, JobTypes, ConstantsAssumption DEF IInv, Job
  <2> QED
    BY <2>1, <2>2 DEF Work, FetchWork, LabelWork, BackupWork
<1>5. ASSUME NEW n \in Names, Reconcile(n) PROVE FALSE
  BY <1>0, <1>5 DEF Reconcile, Goto, ControlOK
<1>6. CASE (\E n \in Names : Pm2Event(n)) \/ Serve \/ Crash
  BY <1>1, <1>6 DEF Pm2Event, Serve, Crash
<1> QED
  BY <1>1, <1>2, <1>3, <1>4, <1>5, <1>6 DEF Next

\* Every step of a request leaves it less to do: neither a retry nor a backup nor
\* anything another thread does makes an operation start over.
THEOREM WorkBounded == Spec => BoundedWork
<1>1. Init => TriesBounded
  BY DEF Init, TriesBounded
<1> QED
  BY <1>1, TriesNext, LessWorkNext, Invariance, PTL DEF Spec, BoundedWork

-----------------------------------------------------------------------------
(* Rows of the present layout *)

\* Such a row is written by registrations, configurations and cleanups alone,
\* under the mutex.
LEMMA LayoutRow ==
  ASSUME IInv, NEW n \in Names, InLayout(n), NEW t \in Threads, Step(t)
  PROVE  /\ db'[n] # db[n] =>
              /\ n = job[t].name /\ mu = t
              /\ \/ Rewrite(t) /\ job[t].op = "Configure" /\ db'[n] = job[t].req
                 \/ Create(t) /\ db[n] = NoRow /\ db'[n] = job[t].req
                 \/ RemoveRow(t) /\ db'[n] = NoRow
         /\ Rewrite(t) /\ job[t].name = n => db'[n] = job[t].req
<1>0. DataOK /\ job[t].name \in Names
  BY TypeParts, Shape, JobTypes DEF IInv
<1>1. CASE db' = db /\ ~Rewrite(t)
  BY <1>1
<1>2. CASE Persist(t)
  <2>1. job[t].name # n /\ WriteRow(job[t].name, Canonical(job[t].row)) /\ pc[t] = "persist"
    BY <1>2 DEF Persist, InLayout
  <2>2. db'[n] = db[n]
    BY <1>0, <2>1 DEF WriteRow, DataOK
  <2> QED
    BY <2>1, <2>2 DEF Rewrite
<1>3. CASE Rewrite(t)
  <2>1. pc[t] = "rewrite" /\ job[t].op = "Configure" /\ mu = t /\ db[job[t].name] # NoRow
    BY <1>3 DEF Rewrite, IInv, RightOps, OpsAt, Mutex, HoldsRow, Locked
  <2>2. db' = [db EXCEPT ![job[t].name] = job[t].req]
    BY <1>3, <2>1 DEF Rewrite, WriteRow
  <2> QED
    BY <1>0, <1>3, <2>1, <2>2 DEF DataOK
<1>4. CASE Create(t)
  <2>1. pc[t] = "create" /\ mu = t
    BY <1>4 DEF Create, IInv, RightOps, OpsAt, Mutex, Locked
  <2> QED
    BY <1>0, <1>4, <2>1 DEF Create, Rewrite, DataOK, Registered
<1>5. CASE RemoveRow(t)
  <2>1. pc[t] = "rmrow" /\ mu = t
    BY <1>5, HolderSteps DEF RemoveRow
  <2> QED
    BY <1>0, <1>5, <2>1 DEF RemoveRow, Rewrite, DataOK
<1> QED
  BY <1>1, <1>2, <1>3, <1>4, <1>5, Frame

LEMMA LayoutStep ==
  ASSUME IInv, NEW n \in Names, InLayout(n), NEW t \in Threads, Step(t)
  PROVE  /\ UrlKept(n) /\ InLayout(n)'
         /\ WorksForRow(n) => WorksForRow(n)'
<1>0. ControlOK /\ DataOK /\ TypeOK /\ pc[t] \notin {"idle", "lock"}
  BY TypeParts, Shape DEF IInv
<1>1. UrlKept(n)
  BY LayoutRow, SeparateValues DEF UrlKept
<1>2. db'[n] # NoRow => db'[n] = Canonical(db'[n])
  <2>1. job[t].req = Canonical(job[t].req)
    BY <1>0 DEF IInv, RightReq
  <2> QED
    BY <2>1, LayoutRow DEF InLayout
\* A step of the tool itself.
<1>3. ASSUME pc'[t] # "idle", job'[t].name = n
      PROVE  /\ Moves(t) /\ pc'[t] \in After(pc[t]) /\ job[t].name = n
             /\ job'[t].op = job[t].op /\ job'[t].req = job[t].req
             /\ pc[t] \notin {"migrate", "migrating", "persist"}
             /\ pc[t] = "read" =>
                  /\ ReadRow(t) /\ db' = db
                  /\ job'[t].row = db[n] /\ pc'[t] = AfterRead(job[t].op)
             /\ pc[t] # "read" => job'[t].row = job[t].row
  <2>1. /\ Moves(t) /\ pc'[t] \in After(pc[t]) /\ job[t].name = n
        /\ job'[t].op = job[t].op /\ job'[t].req = job[t].req
    BY <1>3, SelfKept, Flow, Locals
  <2>2. pc[t] \notin {"migrate", "migrating", "persist"}
    BY <2>1 DEF InLayout
  <2>3. ASSUME pc[t] = "read"
        PROVE  ReadRow(t) /\ db' = db /\ job'[t].row = db[n] /\ pc'[t] = AfterRead(job[t].op)
    <3>1. ReadRow(t) /\ db' = db /\ db[n] # NoRow
      BY <1>0, <1>3, <2>1, <2>3, StepsAt, Reaches DEF Fail, Return, Goto, ControlOK
    <3>2. db[n] = Canonical(db[n])
      BY <3>1 DEF InLayout
    <3>3. job[t] \in Job /\ ~Return(t)
      BY <1>0, <1>3, JobTypes DEF Return, Goto, ControlOK
    <3>4. job' = [job EXCEPT ![t].row = db[n]] /\ pc' = [pc EXCEPT ![t] = AfterRead(job[t].op)]
      BY <2>1, <3>1, <3>2, <3>3 DEF ReadRow, Goto
    <3> QED
      BY <1>0, <3>1, <3>3, <3>4 DEF ControlOK, Job
  <2>4. pc[t] # "read" => job'[t].row = job[t].row
    BY <2>1, <2>2, Locals DEF ReadRow, Persist
  <2> QED
    BY <2>1, <2>2, <2>3, <2>4
<1>4. ASSUME NEW u \in Threads, pc'[u] \in {"migrate", "migrating", "persist"}
      PROVE  job'[u].name # n
  <2>1. CASE u # t
    BY <1>4, <2>1, OthersKept DEF InLayout
  <2>2. CASE u = t
    BY <1>3, <1>4, <2>2 DEF After, AfterRead
  <2> QED
    BY <2>1, <2>2
<1>5. ASSUME WorksForRow(n), NEW u \in Threads,
             pc'[u] \notin {"idle", "lock", "read", "rewrite"},
             job'[u].op \in Locked \ {"Register"}, job'[u].name = n
      PROVE  db'[n] = Target(u)'
  <2>1. CASE u # t
    <3>1. pc'[u] = pc[u] /\ job'[u] = job[u] /\ mu = u
      BY <1>5, <2>1, OthersKept DEF IInv, Mutex
    <3>2. db[n] = Target(u)
      BY <1>5, <3>1 DEF WorksForRow
    <3>3. db'[n] = db[n]
      BY <2>1, <3>1, LayoutRow
    <3> QED
      BY <3>1, <3>2, <3>3 DEF Target
  <2>2. CASE u = t
    <3>1. CASE pc[t] = "read"
      BY <1>3, <1>5, <2>2, <3>1 DEF Target, AfterRead, Locked
    <3>2. CASE pc[t] = "rewrite"
      <4>1. Rewrite(t)
        BY <1>0, <1>3, <1>5, <2>2, <3>2, StepsAt DEF Fail, Return, Goto, ControlOK
      <4>2. job[t].op = "Configure"
        BY <3>2 DEF IInv, RightOps, OpsAt
      <4> QED
        BY <1>3, <1>5, <2>2, <4>1, <4>2, LayoutRow DEF Target
    <3>3. CASE pc[t] \notin {"read", "rewrite"}
      <4>1. db[n] = Target(t)
        BY <1>0, <1>3, <1>5, <2>2, <3>3 DEF WorksForRow
      <4>2. pc[t] \notin {"create", "rmrow"}
        BY <1>3, <1>5, <2>2 DEF After
      <4>3. db'[n] = db[n]
        BY <3>3, <4>2, LayoutRow DEF Rewrite, Create, RemoveRow
      <4> QED
        BY <1>3, <1>5, <2>2, <3>3, <4>1, <4>3 DEF Target
    <3> QED
      BY <3>1, <3>2, <3>3
  <2> QED
    BY <2>1, <2>2
<1>6. InLayout(n)'
  BY <1>2, <1>4 DEF InLayout, Canonical
<1>7. WorksForRow(n) => WorksForRow(n)'
  BY <1>5 DEF WorksForRow
<1> QED
  BY <1>1, <1>6, <1>7

\* The steps that are not a working thread's write no row and bring nobody past
\* the read of one.
LEMMA LayoutNext ==
  ASSUME IInv, [Next]_vars, NEW n \in Names, InLayout(n)
  PROVE  /\ UrlKept(n) /\ InLayout(n)'
         /\ WorksForRow(n) => WorksForRow(n)'
<1>0. ControlOK /\ Boot \in Threads
  BY TypeParts DEF IInv, Threads
<1>1. ASSUME db' = db,
             \A u \in Threads : \/ pc'[u] \in {"idle", "lock", "read"}
                                \/ pc'[u] = pc[u] /\ job'[u] = job[u]
                                \/ pc'[u] = "get" /\ job'[u].op = "Register"
      PROVE  /\ UrlKept(n) /\ InLayout(n)'
             /\ WorksForRow(n) => WorksForRow(n)'
  <2>1. UrlKept(n)
    BY <1>1 DEF UrlKept
  <2>2. InLayout(n)'
    BY <1>1 DEF InLayout, Canonical
  <2>3. WorksForRow(n) => WorksForRow(n)'
    BY <1>1 DEF WorksForRow, Target
  <2> QED
    BY <2>1, <2>2, <2>3
<1>2. ASSUME NEW t \in Threads, Step(t)
      PROVE  /\ UrlKept(n) /\ InLayout(n)'
             /\ WorksForRow(n) => WorksForRow(n)'
  BY <1>2, LayoutStep
<1>3. ASSUME NEW t \in Procs, Issue(t)
      PROVE  /\ UrlKept(n) /\ InLayout(n)'
             /\ WorksForRow(n) => WorksForRow(n)'
  BY <1>0, <1>1, <1>3 DEF Issue, Goto, ControlOK, Threads, store
<1>4. ASSUME NEW t \in Threads, Lock(t)
      PROVE  /\ UrlKept(n) /\ InLayout(n)'
             /\ WorksForRow(n) => WorksForRow(n)'
  BY <1>0, <1>1, <1>4 DEF Lock, Goto, ControlOK, store
<1>5. ASSUME NEW m \in Names, Reconcile(m)
      PROVE  /\ UrlKept(n) /\ InLayout(n)'
             /\ WorksForRow(n) => WorksForRow(n)'
  BY <1>0, <1>1, <1>5 DEF Reconcile, Goto, ControlOK, store
<1>6. CASE (\E m \in Names : Pm2Event(m)) \/ Serve \/ Crash \/ UNCHANGED vars
  BY <1>1, <1>6 DEF Pm2Event, Serve, Crash, vars, store
<1> QED
  BY <1>2, <1>3, <1>4, <1>5, <1>6 DEF Next

\* For every database the manager may be started on: from when a tool's row has
\* been brought to the present layout, nobody without the mutex writes it, its
\* URL changes by configurations alone, and a locked operation that works for
\* the row in the database does so to its end.
THEOREM RowsStayInLayout == Spec => LayoutKept
<1> DEFINE Kept == \A n \in Names : InLayout(n) =>
                     /\ UrlKept(n) /\ InLayout(n)'
                     /\ WorksForRow(n) => WorksForRow(n)'
<1>1. IInv /\ [Next]_vars => [Kept]_vars
  BY LayoutNext
<1> QED
  BY <1>1, Invariance, PTL DEF Spec, LayoutKept

-----------------------------------------------------------------------------
(* The backup a rollback chose *)

\* A backup changes the list at its end only, and in its last element only when
\* two are taken in one second.
LEMMA SavedKeeps ==
  ASSUME DataOK, NEW s \in Slugs, NEW c \in Settled, NEW bs \in Saved(s, c),
         NEW i \in 1..Len(backups[s])
  PROVE  bs[i] = backups[s][i] \/ (SameSecond /\ i = Len(backups[s]))
<1>1. backups[s] \in Seq(Settled) /\ Len(backups[s]) \in Nat
  BY DEF DataOK
<1>2. CASE bs = Append(backups[s], c)
  BY <1>1, <1>2
<1>3. CASE SameSecond /\ backups[s] # <<>> /\ bs = Append(Front(backups[s]), c)
  <2>1. bs = [backups[s] EXCEPT ![Len(backups[s])] = c] \/ bs = backups[s] \/ bs = Append(backups[s], c)
    BY SavedType
  <2> QED
    BY <1>1, <1>2, <1>3, <2>1
<1>4. CASE bs = backups[s]
  BY <1>4
<1> QED
  BY <1>2, <1>3, <1>4 DEF Saved

\* While a rollback is between its choice and its copy, the other threads cannot
\* change the backups of its tool: they would have to hold its mutex.
LEMMA PickKeptNext == IInv /\ [Next]_vars => [\A t \in Threads : PickKept(t)]_vars
<1> SUFFICES ASSUME IInv, Next,
                    NEW t \in Threads, pc[t] \in {"backup", "halt", "restore"}, pc'[t] # "idle",
                    job[t].op = "Rollback"
             PROVE  \/ backups'[Slug(t)][job[t].pick] = backups[Slug(t)][job[t].pick]
                    \/ /\ SameSecond /\ pc[t] = "backup" /\ pc'[t] = "halt"
                       /\ job[t].pick = Len(backups[Slug(t)])
  BY DEF PickKept
<1> DEFINE s == Slug(t)  i == job[t].pick
<1>0. DataOK /\ TypeOK /\ ControlOK
  BY TypeParts DEF IInv
<1>1. s \in Slugs /\ i \in 1..Len(backups[s]) /\ mu = t /\ job[t].row \in Row
  BY <1>0, JobTypes DEF IInv, PickValid, Mutex, Locked
<1>2. CASE backups'[s] = backups[s]
  BY <1>2
<1>3. ASSUME NEW u \in Threads, Step(u), backups'[s] # backups[s]
      PROVE  \/ backups'[s][i] = backups[s][i]
             \/ SameSecond /\ pc[t] = "backup" /\ pc'[t] = "halt" /\ i = Len(backups[s])
  <2>1. pc[u] \in {"backup", "trim", "rmbackups"}
    BY <1>1, <1>3, BackupsStep
  <2>2. u = t
    BY <1>1, <2>1, HolderSteps
  <2>3. Backup(t)
    <3>1. ~TornBackup(t)
      BY <1>0 DEF TornBackup, Return, Goto, ControlOK
    <3> QED
      BY <1>3, <2>1, <2>2, <3>1, Frame DEF Trim, RemoveBackups, TornRemoval
  <2>4. pc[t] = "backup" /\ pc'[t] = "halt"
    BY <1>0, <2>3 DEF Backup, Goto, ControlOK
  <2>5. Seen(files[s][job[t].row.bin]) \in Settled
    BY <1>0, <1>1, SeenType DEF DataOK, Row
  <2>6. PICK bs \in Saved(s, Seen(files[s][job[t].row.bin])) : backups' = [backups EXCEPT ![s] = bs]
    BY <2>3 DEF Backup
  <2>7. backups'[s] = bs
    BY <1>0, <1>1, <2>6 DEF DataOK
  <2> QED
    BY <1>0, <1>1, <2>4, <2>5, <2>7, SavedKeeps
<1>4. CASE (\E u \in Procs : Issue(u)) \/ (\E u \in Threads : Lock(u))
  BY <1>2, <1>4 DEF Issue, Lock, disk
<1>5. CASE (\E n \in Names : Reconcile(n) \/ Pm2Event(n)) \/ Serve \/ Crash
  BY <1>2, <1>5 DEF Reconcile, Pm2Event, Serve, Crash, disk
<1> QED
  BY <1>2, <1>3, <1>4, <1>5 DEF Next

\* Whoever works on the tool meanwhile, a rollback restores the backup it chose;
\* only its own safety backup may change it, if it is the newest and of the same
\* second.
THEOREM PicksKept == Spec => PickedBackupKept
  BY PickKeptNext, Invariance, PTL DEF Spec, PickedBackupKept

-----------------------------------------------------------------------------
(* The manager implements ToolRegistry *)

Removing == {"rmtree", "rmbackups", "rmversions", "rmrow"}

\* Who removes a tool holds the mutex: it is the only one who removes any.
LEMMA LeavingHolder ==
  ASSUME IInv, NEW t \in Threads, pc[t] \in Removing
  PROVE  Leaving = {job[t].name}
<1>1. \A u \in Threads : pc[u] \in Removing => mu = u /\ job[u].name \in Names
  BY HolderSteps DEF Removing
<1> QED
  BY <1>1 DEF Leaving, Removing

\* While the mutex is another operation's, no tool is being removed.
LEMMA NotLeaving ==
  ASSUME IInv, NEW t \in Threads, mu = t, pc[t] \notin Removing
  PROVE  Leaving = {}
<1>1. \A u \in Threads : pc[u] \in Removing => mu = u
  BY HolderSteps DEF Removing
<1> QED
  BY <1>1 DEF Leaving, Removing

LEMMA LeavingSame ==
  ASSUME \A u \in Threads : \/ pc'[u] = pc[u] /\ job'[u].name = job[u].name
                            \/ pc[u] \notin Removing /\ pc'[u] \notin Removing
  PROVE  Leaving' = Leaving
  BY DEF Leaving, Removing

\* A step begins a removal, goes on with it, ends it, or has nothing to do with
\* one.
LEMMA LeavingStep ==
  ASSUME IInv, NEW t \in Threads, Step(t)
  PROVE  /\ pc[t] \notin Removing \cup {"forget"} => Leaving' = Leaving
         /\ pc[t] \in Removing \cup {"forget"} =>
              /\ job[t].name \in Names /\ db[job[t].name] # NoRow
              /\ Leaving = IF pc[t] \in Removing THEN {job[t].name} ELSE {}
              /\ Leaving' = IF pc'[t] \in Removing THEN {job[t].name} ELSE {}
<1>1. CASE pc[t] \notin Removing \cup {"forget"}
  <2>1. pc'[t] \notin Removing
    <3>1. pc'[t] = "idle" \/ pc'[t] \in After(pc[t])
      BY SelfKept, Flow
    <3> QED
      BY <1>1, <3>1 DEF After, Removing
  <2>2. \A u \in Threads : u # t => pc'[u] = pc[u] /\ job'[u] = job[u]
    BY OthersKept
  <2> QED
    BY <1>1, <2>1, <2>2, LeavingSame
<1>2. CASE pc[t] \in Removing \cup {"forget"}
  <2>1. mu = t /\ job[t].name \in Names /\ db[job[t].name] # NoRow
    BY <1>2, HolderSteps DEF Removing
  <2>2. \A u \in Threads : u # t => pc'[u] \notin Removing
    <3>1. \A u \in Threads : pc[u] \in Removing => mu = u
      BY HolderSteps DEF Removing
    <3> QED
      BY <2>1, <3>1, OthersKept
  <2>3. pc'[t] \in Removing => job'[t].name = job[t].name
    BY SelfKept DEF Removing
  <2>4. Leaving' = IF pc'[t] \in Removing THEN {job[t].name} ELSE {}
    BY <2>1, <2>2, <2>3 DEF Leaving, Removing
  <2> QED
    BY <1>2, <2>1, <2>4, LeavingHolder, NotLeaving
<1> QED
  BY <1>1, <1>2

\* A written row is the reconfiguration of a registered tool.
LEMMA WriteImplements ==
  ASSUME NEW n \in Names, NEW r \in Row, WriteRow(n, r), UNCHANGED <<versions, backups, Leaving>>
  PROVE  [Registry!Next]_(Registry!vars)
<1>1. CASE db[n] = NoRow
  BY <1>1 DEF WriteRow, Registry!vars
<1>2. CASE db[n] # NoRow
  <2>1. Registry!Reconfigure(n, r)
    BY <1>2 DEF WriteRow, Registry!Reconfigure
  <2> QED
    BY <2>1 DEF Registry!Next
<1> QED
  BY <1>1, <1>2

\* A backup is appended, or takes the place of the newest, under the mutex.
LEMMA BackupImplements ==
  ASSUME IInv, NEW t \in Threads, Step(t), Backup(t) \/ TornBackup(t)
  PROVE  [Registry!Next]_(Registry!vars)
<1> DEFINE s == Slug(t)  n == job[t].name
<1>0. TypeOK /\ DataOK
  BY TypeParts DEF IInv
<1>1. pc[t] = "backup" /\ UNCHANGED store
  BY DEF Backup, TornBackup
<1>2. n \in Names /\ s \in Slugs /\ s = SlugOf[n] /\ db[n] # NoRow /\ job[t].row \in Row
  BY <1>0, <1>1, HolderSteps, JobTypes DEF Slug
<1>9. Leaving = {} /\ Leaving' = Leaving
  BY <1>1, HolderSteps, NotLeaving, LeavingStep DEF Removing
<1>3. PICK c \in Settled : \E bs \in Saved(s, c) : backups' = [backups EXCEPT ![s] = bs]
  <2>1. Seen(files[s][job[t].row.bin]) \in Settled
    BY <1>0, <1>2, SeenType DEF DataOK, Row
  <2>2. {Absent, Partial} \subseteq Settled
    BY DEF Settled
  <2> QED
    BY <2>1, <2>2 DEF Backup, TornBackup
<1>4. PICK bs \in Saved(s, c) : backups' = [backups EXCEPT ![s] = bs]
  BY <1>3
<1>5. \/ bs = Append(backups[s], c)
      \/ backups[s] # <<>> /\ bs = [backups[s] EXCEPT ![Len(backups[s])] = c]
      \/ bs = backups[s]
  BY <1>0, <1>2, <1>4, SavedType
<1>6. CASE bs = backups[s]
  BY <1>0, <1>1, <1>4, <1>6, <1>9 DEF DataOK, store, Registry!vars
<1>7. CASE bs # backups[s]
  <2>1. Registry!Snapshot(n, c)
    BY <1>1, <1>2, <1>4, <1>5, <1>7, <1>9 DEF store, Registry!Snapshot
  <2> QED
    BY <1>2, <2>1 DEF Registry!Next
<1> QED
  BY <1>6, <1>7

\* A trim leaves the list as it was, or the oldest of the surplus and the newest
\* Keep, with at most one half-removed backup behind them.
LEMMA TrimCases ==
  ASSUME NEW bs \in Seq(Settled), NEW left \in {Trimmed(bs)} \cup StoppedTrims(bs)
  PROVE  \/ left = bs
         \/ \E i \in 0..Len(bs) :
              /\ i + Keep < Len(bs)
              /\ \/ left = SubSeq(bs, 1, i) \o Newest(bs)
                 \/ \E c \in {bs[i + 1], Absent} : left = SubSeq(bs, 1, i) \o Newest(bs) \o <<c>>
<1>1. Len(bs) \in Nat /\ Keep \in Nat /\ Keep > 0
  BY ConstantsAssumption
<1>2. CASE Len(bs) <= Keep
  BY <1>1, <1>2 DEF Trimmed, StoppedTrims
<1>3. CASE Len(bs) > Keep
  <2>1. Newest(bs) \in Seq(Settled)
    BY <1>1, <1>3 DEF Newest
  <2>2. CASE left = Newest(bs)
    <3>1. SubSeq(bs, 1, 0) = <<>>
      OBVIOUS
    <3>2. left = SubSeq(bs, 1, 0) \o Newest(bs)
      BY <2>1, <2>2, <3>1
    <3>3. 0 \in 0..Len(bs) /\ 0 + Keep < Len(bs)
      BY <1>1, <1>3
    <3> QED
      BY <3>2, <3>3, Zenon
  <2>3. ASSUME NEW i \in 1..(Len(bs) - Keep), left = SubSeq(bs, 1, i) \o Newest(bs)
        PROVE  \/ left = bs
               \/ i \in 0..Len(bs) /\ i + Keep < Len(bs)
    <3>1. CASE i < Len(bs) - Keep
      BY <1>1, <3>1
    <3>2. CASE i = Len(bs) - Keep
      <4>1. Newest(bs) = SubSeq(bs, i + 1, Len(bs)) /\ i \in 1..Len(bs)
        BY <1>1, <3>2 DEF Newest
      <4>2. SubSeq(bs, 1, i) \o SubSeq(bs, i + 1, Len(bs)) = SubSeq(bs, 1, Len(bs))
        BY <1>1, <4>1, ConcatAdjacentSubSeq
      <4>3. SubSeq(bs, 1, Len(bs)) = bs
        BY SubSeqFull
      <4> QED
        BY <2>3, <4>1, <4>2, <4>3, Zenon
    <3> QED
      BY <1>1, <3>1, <3>2
  <2>4. ASSUME NEW i \in 1..(Len(bs) - Keep), NEW c \in {bs[i], Absent},
               left = SubSeq(bs, 1, i - 1) \o Newest(bs) \o <<c>>
        PROVE  \E k \in 0..Len(bs) :
                 /\ k + Keep < Len(bs)
                 /\ \E d \in {bs[k + 1], Absent} : left = SubSeq(bs, 1, k) \o Newest(bs) \o <<d>>
    <3>1. i - 1 \in 0..Len(bs) /\ (i - 1) + Keep < Len(bs) /\ bs[(i - 1) + 1] = bs[i]
      BY <1>1
    <3> QED
      BY <2>4, <3>1
  <2>5. \/ left = Newest(bs)
        \/ \E i \in 1..(Len(bs) - Keep) :
             left = SubSeq(bs, 1, i) \o Newest(bs)
               \/ \E c \in {bs[i], Absent} : left = SubSeq(bs, 1, i - 1) \o Newest(bs) \o <<c>>
    <3>1. ~(Len(bs) <= Keep)
      BY <1>1, <1>3
    <3>2. left = Newest(bs) \/ left \in StoppedTrims(bs)
      BY <1>3, <3>1 DEF Trimmed
    <3> QED
      BY <3>1, <3>2, Zenon DEF StoppedTrims
  <2> QED
    BY <2>2, <2>3, <2>4, <2>5, Zenon
<1>4. Len(bs) <= Keep \/ Len(bs) > Keep
  BY <1>1
<1> QED
  BY <1>2, <1>3, <1>4, Zenon

\* What a trim leaves, whether it ends or stops.
LEMMA TrimImplements ==
  ASSUME IInv, NEW t \in Threads, Step(t), Trim(t)
  PROVE  [Registry!Next]_(Registry!vars)
<1> DEFINE n == job[t].name  s == SlugOf[n]
<1>0. DataOK
  BY TypeParts DEF IInv
<1>1. pc[t] = "trim" /\ UNCHANGED store
  BY DEF Trim
<1>2. n \in Names /\ s \in Slugs /\ db[n] # NoRow /\ backups[s] \in Seq(Settled)
  BY <1>0, <1>1, HolderSteps DEF Slug, DataOK
<1>3. Leaving = {} /\ Leaving' = Leaving
  BY <1>1, HolderSteps, NotLeaving, LeavingStep DEF Removing
<1>4. PICK left \in {Trimmed(backups[s])} \cup StoppedTrims(backups[s]) :
        backups' = [backups EXCEPT ![s] = left]
  BY DEF Trim, Slug
<1>5. CASE left = backups[s]
  BY <1>0, <1>1, <1>3, <1>4, <1>5 DEF store, DataOK, Registry!vars
<1>6. ASSUME NEW i \in 0..Len(backups[s]), i + Keep < Len(backups[s]),
             \/ left = SubSeq(backups[s], 1, i) \o Newest(backups[s])
             \/ \E c \in {backups[s][i + 1], Absent} :
                  left = SubSeq(backups[s], 1, i) \o Newest(backups[s]) \o <<c>>
      PROVE  Registry!Next
  <2>1. Registry!Discard(n, i) \/ Registry!Spoil(n, i)
    BY <1>1, <1>2, <1>3, <1>4, <1>6
       DEF store, Newest, Registry!Newest, Registry!Discard, Registry!Spoil
  <2> QED
    BY <1>2, <1>6, <2>1 DEF Registry!Next
<1> QED
  BY <1>2, <1>4, <1>5, <1>6, TrimCases

\* A removal of the backups, whether it ends or stops.
LEMMA WipeImplements ==
  ASSUME IInv, NEW t \in Threads, Step(t), pc[t] = "rmbackups"
  PROVE  [Registry!Next]_(Registry!vars)
<1> DEFINE n == job[t].name  s == SlugOf[n]
           Left(k) == [1..k -> {backups[s][i] : i \in 1..Len(backups[s])} \cup {Absent}]
<1>0. DataOK
  BY TypeParts DEF IInv
<1>1. /\ n \in Names /\ s \in Slugs /\ s = Slug(t) /\ backups[s] \in Seq(Settled)
      /\ Leaving = {n} /\ Leaving' \in {{}, {n}}
  BY <1>0, HolderSteps, LeavingStep DEF Slug, DataOK, Removing
<1>2. PICK left : /\ backups' = [backups EXCEPT ![s] = left] /\ UNCHANGED store
                  /\ \E k \in 0..Len(backups[s]) : left \in Left(k)
  <2>1. CASE RemoveBackups(t)
    <3>1. <<>> \in Left(0) /\ 0 \in 0..Len(backups[s])
      BY <1>1
    <3> QED
      BY <1>1, <2>1, <3>1 DEF RemoveBackups
  <2>2. CASE TornRemoval(t)
    BY <1>1, <2>2, WipeType DEF TornRemoval
  <2> QED
    BY <2>1, <2>2, StepsAt
<1>3. PICK k \in 0..Len(backups[s]) : left \in Left(k)
  BY <1>2
<1>4. Registry!Lose(n)
  BY <1>1, <1>2, <1>3, Zenon DEF store, Registry!Lose
<1> QED
  BY <1>1, <1>4 DEF Registry!Next

LEMMA StepImplements ==
  ASSUME IInv, NEW t \in Threads, Step(t)
  PROVE  [Registry!Next]_(Registry!vars)
<1> USE DEF store, disk
<1>0. TypeOK /\ DataOK
  BY TypeParts DEF IInv
<1>1. CASE Persist(t)
  <2>1. /\ WriteRow(job[t].name, Canonical(job[t].row)) /\ pc[t] = "persist"
        /\ UNCHANGED <<versions, backups>>
    BY <1>1 DEF Persist
  <2> QED
    BY <1>0, <2>1, JobTypes, WriteImplements, LeavingStep DEF Removing
<1>2. CASE Rewrite(t)
  <2>1. WriteRow(job[t].name, job[t].req) /\ pc[t] = "rewrite" /\ UNCHANGED <<versions, backups>>
    BY <1>2 DEF Rewrite
  <2> QED
    BY <1>0, <2>1, JobTypes, WriteImplements, LeavingStep DEF Removing
<1>3. CASE Create(t)
  <2> DEFINE n == job[t].name
  <2>1. n \in Names /\ job[t].req \in Row /\ UNCHANGED <<versions, backups>>
    BY <1>0, <1>3, JobTypes DEF Create
  <2>2. UNCHANGED Leaving
    BY <1>3, LeavingStep DEF Create, Removing
  <2>3. CASE UNCHANGED db
    BY <2>1, <2>2, <2>3 DEF Registry!vars
  <2>4. CASE db' = [db EXCEPT ![n] = job[t].req] /\ \A m \in Registered : SlugOf[m] # SlugOf[n]
    <3>1. Registry!Register(n, job[t].req)
      BY <2>1, <2>2, <2>4 DEF Registry!Register, Registry!Owner, Registered
    <3> QED
      BY <2>1, <3>1 DEF Registry!Next
  <2> QED
    BY <1>3, <2>3, <2>4 DEF Create
<1>4. CASE RemoveRow(t)
  <2>1. /\ db' = [db EXCEPT ![job[t].name] = NoRow] /\ UNCHANGED <<versions, backups>>
        /\ pc[t] = "rmrow" /\ pc'[t] = "idle"
    BY <1>0, <1>4, TypeParts DEF RemoveRow, Return, Goto, ControlOK
  <2>2. backups[Slug(t)] = <<>> /\ versions[job[t].name] = 0
    BY <2>1 DEF IInv, Emptied
  <2>3. job[t].name \in Names /\ job[t].name \in Leaving /\ Leaving' = {}
    BY <2>1, LeavingStep DEF Removing
  <2>4. Registry!Remove(job[t].name)
    BY <2>1, <2>2, <2>3 DEF Registry!Remove, Slug
  <2> QED
    BY <2>3, <2>4 DEF Registry!Next
<1>5. CASE Record(t)
  <2>1. /\ pc[t] = "record" /\ UNCHANGED <<db, backups>>
        /\ versions' = versions \/ versions' = [versions EXCEPT ![job[t].name] = @ + 1]
    BY <1>5 DEF Record
  <2>2. Leaving = {} /\ Leaving' = Leaving
    BY <2>1, HolderSteps, NotLeaving, LeavingStep DEF Removing
  <2>3. CASE versions' = versions
    BY <2>1, <2>2, <2>3 DEF Registry!vars
  <2>4. CASE versions' = [versions EXCEPT ![job[t].name] = @ + 1]
    <3>1. Registry!RecordVersion(job[t].name)
      BY <2>1, <2>2, <2>4, HolderSteps DEF Registry!RecordVersion
    <3> QED
      BY <2>1, <3>1, HolderSteps DEF Registry!Next
  <2> QED
    BY <2>1, <2>3, <2>4
<1>6. CASE RemoveVersions(t)
  <2>1. /\ pc[t] = "rmversions" /\ pc'[t] = "rmrow" /\ UNCHANGED <<db, backups>>
        /\ versions' = [versions EXCEPT ![job[t].name] = 0]
    BY <1>6, TypeParts DEF RemoveVersions, Goto, IInv, ControlOK
  <2>2. backups[Slug(t)] = <<>>
    BY <2>1 DEF IInv, Emptied
  <2>3. job[t].name \in Names /\ job[t].name \in Leaving /\ Leaving' = Leaving
    BY <2>1, LeavingStep DEF Removing
  <2>4. Registry!ForgetVersions(job[t].name)
    BY <2>1, <2>2, <2>3 DEF Registry!ForgetVersions, Slug
  <2> QED
    BY <2>3, <2>4 DEF Registry!Next
<1>7. CASE Backup(t) \/ TornBackup(t)
  BY <1>7, BackupImplements
<1>8. CASE Trim(t)
  BY <1>8, TrimImplements
<1>9. CASE pc[t] = "rmbackups"
  BY <1>9, WipeImplements
<1>10. CASE UNCHANGED <<db, backups, versions>>
  <2> DEFINE n == job[t].name
  <2>1. CASE Leaving' = Leaving
    BY <1>10, <2>1 DEF Registry!vars
  <2>2. CASE Leaving' # Leaving /\ pc[t] = "forget"
    <3>1. Registry!BeginRemoval(n) /\ n \in Names
      BY <1>10, <2>2, LeavingStep DEF Registry!BeginRemoval, Removing
    <3> QED
      BY <3>1 DEF Registry!Next
  <2>3. CASE Leaving' # Leaving /\ pc[t] \in Removing
    <3>1. Registry!GiveUp(n) /\ n \in Names
      BY <1>10, <2>3, LeavingStep DEF Registry!GiveUp
    <3> QED
      BY <3>1 DEF Registry!Next
  <2> QED
    BY <2>1, <2>2, <2>3, LeavingStep
<1> QED
  BY <1>1, <1>2, <1>3, <1>4, <1>5, <1>6, <1>7, <1>8, <1>9, <1>10, Frame DEF RemoveBackups, TornRemoval

\* The manager implements the registry: whatever its threads interleave, its
\* calls fail and its crashes interrupt, rows, backups and history change only
\* by the registry's steps.
THEOREM ImplementsRegistry == Spec => RegistrySpec
<1>1. Init => Registry!Init
  <2> SUFFICES ASSUME Init PROVE Registry!Init
    OBVIOUS
  <2>1. Leaving = {}
    BY DEF Init, Leaving
  <2> QED
    BY <2>1, InitDbAssumption DEF Init, Registry!Init, Registry!Owner
<1>2. IInv /\ [Next]_vars => [Registry!Next]_(Registry!vars)
  <2> SUFFICES ASSUME IInv, [Next]_vars PROVE [Registry!Next]_(Registry!vars)
    OBVIOUS
  <2>0. ControlOK /\ Boot \in Threads
    BY TypeParts DEF IInv, Threads
  <2>1. CASE UNCHANGED <<db, backups, versions>> /\ Leaving' = Leaving
    BY <2>1 DEF Registry!vars
  <2>2. ASSUME NEW t \in Threads, Step(t) PROVE [Registry!Next]_(Registry!vars)
    BY <2>2, StepImplements
  <2>3. CASE UNCHANGED vars \/ Serve \/ \E n \in Names : Pm2Event(n)
    <3>1. UNCHANGED <<db, backups, versions, pc, job>>
      BY <2>3 DEF vars, Serve, Pm2Event, store, disk
    <3> QED
      BY <2>1, <3>1, LeavingSame
  <2>4. ASSUME NEW t \in Threads, UNCHANGED <<db, backups, versions>>,
               pc[t] \notin Removing /\ pc'[t] \notin Removing,
               \A u \in Threads : u # t => pc'[u] = pc[u] /\ job'[u] = job[u]
        PROVE  [Registry!Next]_(Registry!vars)
    BY <2>1, <2>4, LeavingSame
  <2>5. ASSUME NEW t \in Procs, Issue(t) PROVE [Registry!Next]_(Registry!vars)
    BY <2>0, <2>4, <2>5 DEF Issue, Goto, ControlOK, Removing, Threads, store, disk
  <2>6. ASSUME NEW t \in Threads, Lock(t) PROVE [Registry!Next]_(Registry!vars)
    BY <2>0, <2>4, <2>6 DEF Lock, Goto, ControlOK, Removing, store, disk
  <2>7. ASSUME NEW n \in Names, Reconcile(n) PROVE [Registry!Next]_(Registry!vars)
    <3>1. pc[Boot] = "idle" /\ pc'[Boot] \in {"idle", "read"} /\ UNCHANGED <<db, backups, versions>>
      BY <2>0, <2>7 DEF Reconcile, Goto, ControlOK, store, disk
    <3>2. \A u \in Threads : u # Boot => pc'[u] = pc[u] /\ job'[u] = job[u]
      BY <2>0, <2>7 DEF Reconcile, Goto, ControlOK
    <3> QED
      BY <2>0, <2>4, <3>1, <3>2 DEF Removing
  <2>8. CASE Crash
    <3>1. Leaving' = {} /\ UNCHANGED <<db, backups, versions>>
      BY <2>8 DEF Crash, Leaving, store
    <3>2. CASE Leaving = {}
      BY <2>1, <3>1, <3>2
    <3>3. ASSUME NEW n \in Leaving PROVE Registry!Next
      <4>1. n \in Names
        BY <3>3 DEF Leaving
      <4>2. Registry!GiveUp(n)
        BY <3>1, <3>3 DEF Registry!GiveUp
      <4> QED
        BY <4>1, <4>2 DEF Registry!Next
    <3> QED
      BY <3>2, <3>3
  <2> QED
    BY <2>2, <2>3, <2>5, <2>6, <2>7, <2>8 DEF Next
<1> QED
  BY <1>1, <1>2, Invariance, PTL DEF Spec, RegistrySpec, Registry!Spec
==============================================================================
