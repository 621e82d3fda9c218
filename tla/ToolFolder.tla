------------------------------ MODULE ToolFolder ------------------------------
(***************************************************************************)
(* What is in a tool's folder: the extraction of archives, the choice of    *)
(* the executable, backup and rollback of internal/tool/manager.go, file by *)
(* file.  Module ToolManager has the requests, rows and processes around    *)
(* it; here one operation runs at a time, as under Manager.mu, while the    *)
(* tool and its owner write to the folder whenever they like.               *)
(*                                                                          *)
(* The directory configs is taken for one file.                             *)
(***************************************************************************)
EXTENDS Naturals, Sequences, FiniteSets

CONSTANTS
  Files,      \* what can be in the folder
  Order,      \* what is backed up, in that order: the binary comes first
  Configs,    \* the directory among them
  Artifacts,  \* names of archives and of downloads under way
  TmpOf,      \* X.tmp, which an entry X is written to first
  Runnable,   \* isLikelyExecutableArchiveEntry
  Readme,     \* names with "readme" in them
  Named,      \* paths of other directories that end in the binary's name
  Data,       \* whole contents
  Written,    \* what the tool and its owner write
  Direct,     \* what URLs of a binary serve
  Archives,   \* the entries URLs of an archive serve
  Keep,       \* backupRetention
  MaxStamps, MaxEdits, MaxBreaks,
  None,       \* no file
  Torn,       \* what a broken copy leaves
  Any         \* not known

Entry == [file : Files, exec : BOOLEAN, data : Data]
Cells == Data \cup {None, Torn}
Stamps == 1 .. MaxStamps
Positions == 1 .. Len(Order)
Protected == {Order[i] : i \in Positions}
Bin == Order[1]

ASSUME FolderAssumption ==
  /\ Order \in Seq(Files) /\ Len(Order) >= 1
  /\ \A i, j \in Positions : Order[i] = Order[j] => i = j
  /\ Configs \in Files \ {Bin}
  /\ Protected \cap Artifacts = {}
  /\ TmpOf \in [DOMAIN TmpOf -> Files \ Protected]
  /\ \A f \in DOMAIN TmpOf : TmpOf[f] # f
  /\ Bin \in DOMAIN TmpOf
  /\ Written \subseteq Files \ {Bin, TmpOf[Bin]}
  /\ Direct \subseteq Data
  /\ \A a \in Archives :
       /\ a \in Seq(Entry)
       /\ \A i \in DOMAIN a : a[i].file \in DOMAIN TmpOf
       /\ \A i, j \in DOMAIN a : a[i].file = a[j].file => i = j
  /\ {None, Torn, Any} \cap Data = {} /\ None # Torn /\ None # Any /\ Torn # Any
  /\ Keep \in Nat \ {0}
  /\ MaxStamps \in Nat /\ MaxEdits \in Nat /\ MaxBreaks \in Nat

VARIABLES
  folder,     \* the content of each file
  taken,      \* the backups there are; a later one has a greater stamp
  copy,       \* what each of them holds
  was,        \* what it should hold: the files when it was begun, Any for one
              \* that others wrote or that was removed since
  clock,      \* the last stamp
  pc, op,     \* the operation under way
  at,         \* the file or entry it has come to
  list,       \* the archive it extracts
  best,       \* the entry it would run, 0 for none yet
  pick,       \* the backup it restores
  touched,    \* what others wrote while it restored, or chose
  edits, breaks

backups == <<taken, copy, was, clock>>
others == <<touched, edits, breaks>>
vars == <<folder, backups, pc, op, at, list, best, pick, others>>

Nothing == [f \in Protected |-> None]

Init ==
  /\ folder = [f \in Files |-> None]
  /\ taken = {} /\ clock = 0
  /\ copy = [s \in Stamps |-> Nothing]
  /\ was = [s \in Stamps |-> Nothing]
  /\ pc = "idle" /\ op = "none" /\ at = 1
  /\ list = <<>> /\ best = 0 /\ pick = 0
  /\ touched = {} /\ edits = 0 /\ breaks = 0

Goto(step) == pc' = step /\ at' = 1

\* The operation is over, well or not.
End ==
  /\ Goto("idle") /\ op' = "none"
  /\ list' = <<>> /\ best' = 0 /\ pick' = 0 /\ touched' = {}

-----------------------------------------------------------------------------
(* The operations *)

\* RegisterTool downloads in any case, Provision and Start only when ensureBinary
\* finds no binary.
Install ==
  /\ pc = "idle"
  /\ Goto("fetch") /\ op' = "install"
  /\ UNCHANGED <<folder, backups, list, best, pick, others>>

\* backupToolFiles makes a folder named after the time.
BeginBackup ==
  /\ clock < MaxStamps
  /\ clock' = clock + 1
  /\ taken' = taken \cup {clock + 1}
  /\ copy' = [copy EXCEPT ![clock + 1] = Nothing]
  /\ was' = [was EXCEPT ![clock + 1] = [f \in Protected |-> folder[f]]]
  /\ Goto("backup")

\* performToolUpdateLocked; without a binary it installs one first.
Update ==
  /\ pc = "idle"
  /\ \/ /\ folder[Bin] = None
        /\ Goto("fetch") /\ op' = "ensure"
        /\ UNCHANGED backups
     \/ /\ folder[Bin] # None
        /\ BeginBackup /\ op' = "update"
  /\ UNCHANGED <<folder, list, best, pick, others>>

\* Defect: no backup is taken before a rollback.
RollbackUnsaved ==
  /\ pc = "idle"
  /\ pick' \in taken
  /\ Goto("restore") /\ op' = "rollback"
  /\ UNCHANGED <<folder, backups, list, best, others>>

\* Rollback to the newest backup, or the one asked for.
Rollback ==
  /\ pc = "idle"
  /\ pick' \in taken
  /\ BeginBackup /\ op' = "rollback"
  /\ UNCHANGED <<folder, list, best, others>>

-----------------------------------------------------------------------------
(* Backup *)

\* Defect: only the binary is saved.
SaveBinary ==
  /\ pc = "backup" /\ at <= Len(Order)
  /\ copy' = [copy EXCEPT ![clock][Order[at]] = IF at = 1 THEN folder[Bin] ELSE None]
  /\ at' = at + 1
  /\ UNCHANGED <<folder, taken, was, clock, pc, op, list, best, pick, others>>

\* copyIfExists, file by file.
Save ==
  /\ pc = "backup" /\ at <= Len(Order)
  /\ copy' = [copy EXCEPT ![clock][Order[at]] = folder[Order[at]]]
  /\ at' = at + 1
  /\ UNCHANGED <<folder, taken, was, clock, pc, op, list, best, pick, others>>

Saved ==
  /\ pc = "backup" /\ at > Len(Order)
  /\ Goto(IF op = "rollback" THEN "restore" ELSE "fetch")
  /\ UNCHANGED <<folder, backups, op, list, best, pick, others>>

-----------------------------------------------------------------------------
(* downloadBinary and materializeBinary, once the checksum is right *)

FetchBinary ==
  /\ pc = "fetch"
  /\ \E d \in Direct : folder' = [folder EXCEPT ![Bin] = d]
  /\ Goto("fetched")
  /\ UNCHANGED <<backups, op, list, best, pick, others>>

\* Defect: an archive is extracted into an empty folder.
FetchArchiveFresh ==
  /\ pc = "fetch"
  /\ list' \in Archives
  /\ folder' = [f \in Files |-> IF f \in Protected THEN folder[f] ELSE None]
  /\ Goto("extract")
  /\ UNCHANGED <<backups, op, best, pick, others>>

FetchArchive ==
  /\ pc = "fetch"
  /\ list' \in Archives
  /\ Goto("extract")
  /\ UNCHANGED <<folder, backups, op, best, pick, others>>

Tmp == TmpOf[list[at].file]

\* writeFileFromReader truncates <entry>.tmp, ...
OpenEntry ==
  /\ pc = "extract" /\ at <= Len(list)
  /\ folder' = [folder EXCEPT ![Tmp] = Torn]
  /\ pc' = "extracting"
  /\ UNCHANGED <<backups, op, at, list, best, pick, others>>

\* ... and renames it when it is written, with what others did to it meanwhile.
Extract ==
  /\ pc = "extracting" /\ folder[Tmp] # None
  /\ \E v \in {list[at].data} \cup (IF folder[Tmp] = Torn THEN {} ELSE {folder[Tmp], Torn}) :
       folder' = [folder EXCEPT ![list[at].file] = v, ![Tmp] = None]
  /\ pc' = "extract" /\ at' = at + 1
  /\ UNCHANGED <<backups, op, list, best, pick, others>>

\* Somebody has removed it.
ExtractFails ==
  /\ pc = "extracting" /\ folder[Tmp] = None
  /\ End
  /\ UNCHANGED <<folder, backups, edits, breaks>>

\* ensureBinaryFromExtractedFiles takes the binary that is there, old or new.
TakeExisting ==
  /\ pc = "extract" /\ at > Len(list) /\ folder[Bin] # None
  /\ Goto("clean")
  /\ UNCHANGED <<folder, backups, op, list, best, pick, others>>

BeginScan ==
  /\ pc = "extract" /\ at > Len(list) /\ folder[Bin] = None
  /\ Goto("scan") /\ best' = 0
  /\ UNCHANGED <<folder, backups, op, list, pick, others>>

IsNamed(e) == e.file \in Named \cup {Bin}

\* Defect: the name counts no more than the mode.
ScoreFlat(e) ==
  (IF IsNamed(e) THEN 100 ELSE 0) + (IF e.exec THEN 100 ELSE 0) + (IF e.file \notin Readme THEN 10 ELSE 0)

\* scoreArchiveEntry, and 1000 for the name.
Score(e) ==
  (IF IsNamed(e) THEN 1000 ELSE 0) + (IF e.exec THEN 100 ELSE 0) + (IF e.file \notin Readme THEN 10 ELSE 0)

\* A file that was removed meanwhile is passed over.
Candidate(e) == e.file \in Runnable /\ folder[e.file] # None

Scan ==
  /\ pc = "scan" /\ at <= Len(list)
  /\ best' = IF Candidate(list[at]) /\ (best = 0 \/ Score(list[at]) > Score(list[best])) THEN at ELSE best
  /\ at' = at + 1
  /\ UNCHANGED <<folder, backups, pc, op, list, pick, others>>

\* copyFile to the binary, unless there is nothing to run, or no longer.
Choose ==
  /\ pc = "scan" /\ at > Len(list)
  /\ IF best = 0 \/ folder[list[best].file] = None
     THEN End /\ UNCHANGED folder
     ELSE /\ folder' = [folder EXCEPT ![Bin] = folder[list[best].file]]
          /\ Goto("clean") /\ UNCHANGED <<op, list, best, pick, touched>>
  /\ UNCHANGED <<backups, edits, breaks>>

\* removeArchiveArtifacts.
Clean ==
  /\ pc = "clean"
  /\ folder' = [f \in Files |-> IF f \in Artifacts THEN None ELSE folder[f]]
  /\ Goto("fetched")
  /\ UNCHANGED <<backups, op, list, best, pick, others>>

Fetched ==
  /\ pc = "fetched"
  /\ \/ /\ op = "install"
        /\ End /\ UNCHANGED backups
     \/ /\ op = "ensure"
        /\ BeginBackup /\ op' = "update"
        /\ UNCHANGED <<list, best, pick, touched>>
     \/ /\ op = "update"
        /\ Goto("start") /\ UNCHANGED <<op, backups, list, best, pick, touched>>
  /\ UNCHANGED <<folder, edits, breaks>>

-----------------------------------------------------------------------------
(* Rollback, and the end of both *)

\* restoreFileIfExists and restoreDirIfExists; the chmod at the end fails
\* without a binary.
Restore ==
  /\ pc = "restore" /\ at <= Len(Order)
  /\ folder' = IF copy[pick][Order[at]] = None THEN folder
               ELSE [folder EXCEPT ![Order[at]] = copy[pick][Order[at]]]
  /\ at' = at + 1
  /\ UNCHANGED <<backups, pc, op, list, best, pick, others>>

Restored ==
  /\ pc = "restore" /\ at > Len(Order) /\ folder[Bin] # None
  /\ Goto("start")
  /\ UNCHANGED <<folder, backups, op, list, best, pick, others>>

Surplus == {s \in taken : Cardinality({u \in taken : u > s}) >= Keep}

\* What is removed leaves nothing.
Keeping(left) ==
  /\ taken' = left
  /\ copy' = [s \in Stamps |-> IF s \in left THEN copy[s] ELSE Nothing]
  /\ was' = [s \in Stamps |-> IF s \in left THEN was[s] ELSE Nothing]
  /\ UNCHANGED clock

\* trimBackups, once StartOrReload has seen the tool online: PM2 says so of any
\* process it has spawned, whatever the binary holds.
Start ==
  /\ pc = "start"
  /\ Keeping(taken \ Surplus) /\ End
  /\ UNCHANGED <<folder, edits, breaks>>

\* It removes the newest of the surplus first, and stops, at s, at an error or
\* with the process.
TrimStops(s) ==
  /\ pc = "start" /\ breaks < MaxBreaks
  /\ breaks' = breaks + 1
  /\ Keeping(taken \ {u \in Surplus : u > s}) /\ End
  /\ UNCHANGED <<folder, edits>>

\* What an os.RemoveAll that stops may leave of a backup.
HalfRemoved(c) ==
  {h \in [Protected -> Cells] : \A f \in Protected :
     h[f] \in {c[f], None} \/ (f = Configs /\ c[f] # None /\ h[f] = Torn)}

\* The backup s is half removed: its folder is still listed, and it is the one
\* changed last.
TrimTears(s) ==
  /\ pc = "start" /\ breaks < MaxBreaks /\ clock < MaxStamps
  /\ breaks' = breaks + 1
  /\ clock' = clock + 1
  /\ taken' = (taken \ {u \in Surplus : u >= s}) \cup {clock'}
  /\ \E h \in HalfRemoved(copy[s]) :
       /\ copy' = [u \in Stamps |-> IF u = clock' THEN h ELSE IF u \in taken' THEN copy[u] ELSE Nothing]
       /\ was' = [u \in Stamps |->
                     IF u = clock' THEN [f \in Protected |-> IF h[f] = copy[s][f] THEN was[s][f] ELSE Any]
                     ELSE IF u \in taken' THEN was[u] ELSE Nothing]
  /\ End
  /\ UNCHANGED <<folder, edits>>

\* The tool does not get online: nothing is trimmed, and nothing put back.
StartFails ==
  /\ pc = "start"
  /\ End
  /\ UNCHANGED <<folder, backups, edits, breaks>>

-----------------------------------------------------------------------------
(* What comes between *)

\* A call fails, or the process dies: a copy in place is left torn, a directory
\* that was being replaced may be gone, a backup that is not complete stays.  An
\* error removes <entry>.tmp.
Break ==
  /\ pc # "idle" /\ breaks < MaxBreaks
  /\ breaks' = breaks + 1
  /\ \/ UNCHANGED <<folder, copy>>
     \/ /\ pc = "backup" /\ at <= Len(Order) /\ folder[Order[at]] # None
        /\ copy' = [copy EXCEPT ![clock][Order[at]] = Torn]
        /\ UNCHANGED folder
     \/ /\ pc = "restore" /\ at <= Len(Order) /\ copy[pick][Order[at]] # None
        /\ \E v \in {Torn, None} :
             /\ v = None => Order[at] = Configs
             /\ folder' = [folder EXCEPT ![Order[at]] = v]
        /\ UNCHANGED copy
     \/ /\ pc = "scan" /\ at > Len(list) /\ best # 0
        /\ folder' = [folder EXCEPT ![Bin] = Torn]
        /\ UNCHANGED copy
     \/ /\ pc = "extracting"
        /\ folder' = [folder EXCEPT ![Tmp] = None]
        /\ UNCHANGED copy
  /\ was' = IF pc = "backup" THEN [was EXCEPT ![clock] = [f \in Protected |-> Any]] ELSE was
  /\ End
  /\ UNCHANGED <<taken, clock, edits>>

\* The tool, which a backup does not stop, or its owner writes or removes a file.
Edit(f) ==
  /\ edits < MaxEdits
  /\ edits' = edits + 1
  /\ \E v \in Data \cup {None} : folder' = [folder EXCEPT ![f] = v]
  /\ was' = IF pc = "backup" /\ f \in Protected THEN [was EXCEPT ![clock][f] = Any] ELSE was
  /\ touched' = IF pc \in {"scan", "restore", "start"} THEN touched \cup {f} ELSE touched
  /\ UNCHANGED <<taken, copy, clock, pc, op, at, list, best, pick, breaks>>

-----------------------------------------------------------------------------

Next ==
  \/ Install \/ Update \/ Rollback
  \/ Save \/ Saved
  \/ FetchBinary \/ FetchArchive \/ OpenEntry \/ Extract \/ ExtractFails
  \/ TakeExisting \/ BeginScan \/ Scan \/ Choose
  \/ Clean \/ Fetched
  \/ Restore \/ Restored \/ Start \/ StartFails
  \/ \E s \in Surplus : TrimStops(s) \/ TrimTears(s)
  \/ Break \/ \E f \in Written : Edit(f)

Spec == Init /\ [][Next]_vars

-----------------------------------------------------------------------------
(* Properties *)

\* A whole executable, once there is one, is never lost, in the folder and all
\* backups, wherever operations break off: what a rollback copies over has been
\* saved.  There is one exception: the trim after PM2 has called a torn binary
\* online.
Recoverable ==
  folder[Bin] \in Data \/ \E s \in taken : copy[s][Bin] \in Data

NeverLost ==
  [][Recoverable /\ ~(pc = "start" /\ folder[Bin] = Torn) => Recoverable']_vars

\* A rollback that goes through gives back the binary and the configuration as
\* they were when the backup was begun, by an update that went through or broke
\* off, or a rollback: but for what others write into them meanwhile, and for what
\* a trim that stopped half-way has removed from the backup.
GivesBack ==
  op = "rollback" /\ pc = "start" =>
    \A f \in Protected \ touched :
      was[pick][f] \notin {Any, None} => folder[f] = was[pick][f]

\* The executable taken from an archive is the best by these rules in this
\* order: it has the binary's name, it may be executed, it is no readme, it comes
\* first; sums of 1000, 100 and 10 do not confuse them.
Better(d, e) ==
  \/ IsNamed(d) /\ ~IsNamed(e)
  \/ /\ IsNamed(d) <=> IsNamed(e)
     /\ \/ d.exec /\ ~e.exec
        \/ (d.exec <=> e.exec) /\ d.file \notin Readme /\ e.file \in Readme

\* best is the best of the first n entries, those apart that others wrote.
BestOf(n) ==
  \A i \in 1 .. n : Candidate(list[i]) /\ list[i].file \notin touched /\ i # best =>
    /\ best # 0
    /\ \/ Better(list[best], list[i])
       \/ best < i /\ ~Better(list[i], list[best])

ChosenBest == pc = "scan" /\ at > Len(list) => BestOf(Len(list))

\* "overwriting files in place without deleting unrelated existing files": what
\* disappears is an archive in the folder, whoever put it there, the X.tmp beside
\* an entry X, whoever wrote it, and the directory a rollback is replacing.
NothingDeleted ==
  [][\A f \in Files : folder[f] # None /\ folder'[f] = None =>
       \/ pc = "clean" /\ f \in Artifacts
       \/ pc = "extracting" /\ f = Tmp
       \/ pc = "restore" /\ f = Configs
       \/ edits' # edits]_vars

-----------------------------------------------------------------------------
(* The inductive invariant *)

Steps == {"idle", "backup", "fetch", "extract", "extracting", "scan", "clean", "fetched",
          "restore", "start"}

TypeOK ==
  /\ folder \in [Files -> Cells]
  /\ taken \subseteq 1 .. clock /\ clock \in 0 .. MaxStamps
  /\ copy \in [Stamps -> [Protected -> Cells]]
  /\ was \in [Stamps -> [Protected -> Cells \cup {Any}]]
  /\ pc \in Steps /\ op \in {"none", "install", "ensure", "update", "rollback"}
  /\ at \in Nat \ {0} /\ list \in Archives \cup {<<>>} /\ best \in Nat /\ pick \in Nat
  /\ touched \subseteq Files
  /\ edits \in Nat /\ breaks \in Nat

\* Which steps belong to which operation.
Ordered ==
  /\ pc = "idle" => op = "none"
  /\ pc \in {"backup", "restore"} => op \in {"update", "rollback"} /\ clock \in taken
  /\ pc \in {"fetch", "extract", "extracting", "scan", "clean", "fetched"} => op \in {"install", "ensure", "update"}
  /\ pc = "restore" => op = "rollback"
  /\ pc = "extracting" => at <= Len(list)
  /\ op = "rollback" => pick \in taken /\ pick < clock

\* What has been copied is what was there when the backup was begun.
CopiesTrue ==
  \A s \in taken, i \in Positions : was[s][Order[i]] # Any =>
    IF s = clock /\ pc = "backup" /\ i >= at
    THEN folder[Order[i]] = was[s][Order[i]]
    ELSE copy[s][Order[i]] = was[s][Order[i]]

\* Before a rollback copies over a whole binary, another one is saved; an archive
\* puts a whole one in its place, and nothing is started without.
BinSaved ==
  /\ pc = "backup" => copy[clock][Bin] = IF at = 1 THEN None ELSE folder[Bin]
  /\ pc = "restore" /\ folder[Bin] \in Data => \E s \in taken : copy[s][Bin] \in Data
  /\ pc = "extracting" /\ list[at].file = Bin => folder[Tmp] = Torn
  /\ pc \in {"clean", "fetched", "start"} => folder[Bin] # None

\* How far a rollback has come.
GivingBack ==
  op = "rollback" /\ pc \in {"restore", "start"} =>
    \A i \in Positions :
      /\ pc = "restore" => i < at
      /\ Order[i] \notin touched /\ was[pick][Order[i]] \notin {Any, None}
      => folder[Order[i]] = was[pick][Order[i]]

Choosing ==
  pc = "scan" =>
    /\ folder[Bin] = None
    /\ at <= Len(list) + 1 /\ best < at
    /\ BestOf(at - 1)

IInv == TypeOK /\ Ordered /\ CopiesTrue /\ BinSaved /\ GivingBack /\ Choosing
==============================================================================
