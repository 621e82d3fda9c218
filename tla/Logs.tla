--------------------------------- MODULE Logs ---------------------------------
(***************************************************************************)
(* The log files of one tool: internal/logs/manager.go.  The manager        *)
(* appends to boot.log, rotates, searches and cleans under Manager.mu of    *)
(* that package; stdout.log and stderr.log are written by PM2, which knows  *)
(* no mutex, opens them by name when it starts the tool, and goes on        *)
(* writing into the file it has opened wherever rotation moves it.          *)
(***************************************************************************)
EXTENDS Naturals, FiniteSets

CONSTANTS
  Std,          \* the logs PM2 writes
  Procs,        \* concurrent callers
  Inodes,
  MaxSize,      \* maxFileSize, in lines
  MaxArchives,  \* maxArchives
  Limit,        \* the results a search asks for
  MaxTail,      \* the lines of a file a search looks at
  Asked,        \* the lines a search's query matches
  Long,         \* the lines longer than bufio.Scanner takes
  MayFail,      \* the calls that may return an error
  MaxLines,     \* bound on what PM2 writes
  MaxRequests, MaxCrashes,
  None, Free, NoJob

Logs == Std \cup {"boot"}

Ops == {"ensure", "append", "rotate", "search", "cleanup"}

\* todo: the logs the loop has still to do, at: the one it rotates.  paths: what
\* Search has listed and not read yet, a log by its name and an archive by its
\* inode.  due: the lines that were there when the search locked; found: what it
\* has found; hidden: the lines of the files it has come to that it did not see.
Job == [op : Ops, file : Logs \cup {"all"}, todo : SUBSET Logs, at : Logs \cup {None},
        paths : SUBSET (Logs \cup Inodes), due : SUBSET Nat, found : SUBSET Nat,
        hidden : SUBSET Nat]

Steps == {"ensure", "create", "rotate", "recreate", "trim", "append", "list", "read", "truncate", "unlink"}

ASSUME LogsAssumption ==
  /\ "boot" \notin Std /\ None \notin Inodes \cup Logs /\ Free \notin Procs /\ NoJob \notin Job
  /\ Logs \cap Inodes = {}
  /\ MaxSize \in Nat \ {0} /\ MaxArchives \in Nat \ {0}
  /\ Limit \in Nat \ {0} /\ MaxTail \in Nat \ {0} /\ Asked \subseteq Nat /\ Long \subseteq Nat
  /\ MayFail \subseteq Steps
  /\ MaxLines \in Nat /\ MaxRequests \in Nat /\ MaxCrashes \in Nat

VARIABLES
  cur,    \* log -> the file of its name
  arch,   \* log -> its archives
  stamp,  \* archive -> the time in its name, counted in rotations
  data,   \* file -> the lines in it
  fd,     \* log -> the file PM2 has open
  mu, pc, job,
  lines, rotations, requests, crashes

dir  == <<cur, arch, stamp>>
ctl  == <<requests, crashes>>
vars == <<cur, arch, stamp, data, fd, mu, pc, job, lines, rotations, requests, crashes>>

Listed(l) == arch[l] \cup ({cur[l]} \ {None})
Visible(l) == UNION {data[i] : i \in Listed(l)}
Files(f) == IF f = "all" THEN Logs ELSE {f}

\* Archives sort by the time in their names.
Newer(l, i) == {j \in arch[l] : stamp[j] > stamp[i]}
Surplus(l) == {i \in arch[l] : Cardinality(Newer(l, i)) >= MaxArchives}

Unused == Inodes \ ({fd[l] : l \in Std} \cup UNION {Listed(l) : l \in Logs})

Init ==
  /\ cur = [l \in Logs |-> None]
  /\ arch = [l \in Logs |-> {}]
  /\ stamp = [i \in Inodes |-> 0]
  /\ data = [i \in Inodes |-> {}]
  /\ fd = [l \in Std |-> None]
  /\ mu = Free
  /\ pc = [p \in Procs |-> "idle"]
  /\ job = [p \in Procs |-> NoJob]
  /\ lines = 0 /\ rotations = 0 /\ requests = 0 /\ crashes = 0

-----------------------------------------------------------------------------
(* What the steps share *)

Goto(p, s) == pc' = [pc EXCEPT ![p] = s]

Return(p) ==
  /\ Goto(p, "idle")
  /\ job' = [job EXCEPT ![p] = NoJob]
  /\ mu' = Free

\* The loop goes on without l.
Done(p, l) == job' = [job EXCEPT ![p] = [job[p] EXCEPT !.todo = @ \ {l}, !.at = None]]

\* os.WriteFile(path, nil): an empty file, and the one that is there truncated.
WriteEmpty(l) ==
  IF cur[l] = None
  THEN \E i \in Unused : cur' = [cur EXCEPT ![l] = i] /\ data' = [data EXCEPT ![i] = {}]
  ELSE data' = [data EXCEPT ![cur[l]] = {}] /\ UNCHANGED cur

\* A file opened to append: created if it is missing.
OpenAppend(l, written) ==
  IF cur[l] = None
  THEN \E i \in Unused : cur' = [cur EXCEPT ![l] = i] /\ data' = [data EXCEPT ![i] = written]
  ELSE data' = [data EXCEPT ![cur[l]] = @ \cup written] /\ UNCHANGED cur

\* Any call may fail where its error is returned; Search skips what it cannot
\* read and rotation what it cannot remove.
Fail(p) ==
  /\ pc[p] \in MayFail \ {"read", "trim"}
  /\ Return(p)
  /\ UNCHANGED <<dir, data, fd, lines, rotations, ctl>>

-----------------------------------------------------------------------------
(* The callers *)

Issue(p) ==
  /\ pc[p] = "idle" /\ requests < MaxRequests
  /\ requests' = requests + 1
  /\ \E op \in Ops, f \in Logs \cup {"all"} :
       /\ op = "append" => f = "boot"
       /\ op \in {"ensure", "rotate"} => f = "all"
       /\ job' = [job EXCEPT ![p] = [op |-> op, file |-> f, todo |-> Files(f), at |-> None,
                                     paths |-> {}, due |-> {}, found |-> {}, hidden |-> {}]]
  /\ Goto(p, "lock")
  /\ UNCHANGED <<dir, data, fd, mu, lines, rotations, crashes>>

First(op) ==
  CASE op = "ensure" -> "ensure" [] op = "search" -> "list" [] op = "cleanup" -> "truncate"
    [] OTHER -> "rotate"

\* Defect: Search does not lock.
LockUnlessSearch(p) ==
  /\ pc[p] = "lock" /\ (mu = Free \/ job[p].op = "search")
  /\ mu' = IF job[p].op = "search" THEN mu ELSE p
  /\ Goto(p, First(job[p].op))
  /\ job' = [job EXCEPT ![p].due = UNION {Visible(l) : l \in Files(job[p].file)}]
  /\ UNCHANGED <<dir, data, fd, lines, rotations, ctl>>

Lock(p) ==
  /\ pc[p] = "lock" /\ mu = Free
  /\ mu' = p
  /\ Goto(p, First(job[p].op))
  /\ job' = [job EXCEPT ![p].due = UNION {Visible(l) : l \in Files(job[p].file)}]
  /\ UNCHANGED <<dir, data, fd, lines, rotations, ctl>>

\* ensureFile for each log; rotateIfNeededLocked calls it for a missing one.
EnsureFile(p) ==
  /\ pc[p] \in {"ensure", "rotate"}
  /\ \E l \in job[p].todo :
       \/ /\ cur[l] = None
          /\ job' = [job EXCEPT ![p].at = l]
          /\ Goto(p, "create")
       \/ /\ cur[l] # None /\ pc[p] = "ensure"
          /\ Done(p, l)
          /\ UNCHANGED pc
  /\ UNCHANGED <<dir, data, fd, mu, lines, rotations, ctl>>

\* By now PM2 may have made it.
Create(p) ==
  /\ pc[p] = "create"
  /\ WriteEmpty(job[p].at)
  /\ Done(p, job[p].at)
  /\ Goto(p, IF job[p].op = "ensure" THEN "ensure" ELSE "rotate")
  /\ UNCHANGED <<arch, stamp, fd, mu, lines, rotations, ctl>>

\* Defect: the archive has the same name each time.
RotateOver(p) ==
  /\ pc[p] = "rotate"
  /\ \E l \in job[p].todo :
       \/ /\ cur[l] # None /\ Cardinality(data[cur[l]]) < MaxSize
          /\ Done(p, l)
          /\ UNCHANGED <<dir, rotations, pc>>
       \/ /\ cur[l] # None /\ Cardinality(data[cur[l]]) >= MaxSize
          /\ arch' = [arch EXCEPT ![l] = {cur[l]}]
          /\ stamp' = [stamp EXCEPT ![cur[l]] = rotations + 1]
          /\ rotations' = rotations + 1
          /\ cur' = [cur EXCEPT ![l] = None]
          /\ job' = [job EXCEPT ![p].at = l]
          /\ Goto(p, "recreate")
  /\ UNCHANGED <<data, fd, mu, lines, ctl>>

\* rotateIfNeededLocked up to the rename.
RotateIfNeeded(p) ==
  /\ pc[p] = "rotate"
  /\ \E l \in job[p].todo :
       \/ /\ cur[l] # None /\ Cardinality(data[cur[l]]) < MaxSize
          /\ Done(p, l)
          /\ UNCHANGED <<dir, rotations, pc>>
       \/ /\ cur[l] # None /\ Cardinality(data[cur[l]]) >= MaxSize
          /\ arch' = [arch EXCEPT ![l] = @ \cup {cur[l]}]
          /\ stamp' = [stamp EXCEPT ![cur[l]] = rotations + 1]
          /\ rotations' = rotations + 1
          /\ cur' = [cur EXCEPT ![l] = None]
          /\ job' = [job EXCEPT ![p].at = l]
          /\ Goto(p, "recreate")
  /\ UNCHANGED <<data, fd, mu, lines, ctl>>

Recreate(p) ==
  /\ pc[p] = "recreate"
  /\ WriteEmpty(job[p].at)
  /\ Goto(p, "trim")
  /\ UNCHANGED <<arch, stamp, fd, mu, job, lines, rotations, ctl>>

\* Defect: sorted the other way.
TrimNewest(p) ==
  /\ pc[p] = "trim"
  /\ LET l == job[p].at IN
     /\ arch' = [arch EXCEPT ![l] = {i \in @ : Cardinality({j \in @ : stamp[j] < stamp[i]}) < MaxArchives}]
     /\ Done(p, l)
  /\ Goto(p, "rotate")
  /\ UNCHANGED <<cur, stamp, data, fd, mu, lines, rotations, ctl>>

\* The error of a remove is ignored.
Trim(p) ==
  /\ pc[p] = "trim"
  /\ LET l == job[p].at IN
     /\ \E gone \in SUBSET Surplus(l) :
          /\ gone = Surplus(l) \/ "trim" \in MayFail
          /\ arch' = [arch EXCEPT ![l] = @ \ gone]
     /\ Done(p, l)
  /\ Goto(p, "rotate")
  /\ UNCHANGED <<cur, stamp, data, fd, mu, lines, rotations, ctl>>

\* The end of the loop of Ensure and Rotate; AppendBoot goes on.
Looped(p) ==
  /\ pc[p] \in {"ensure", "rotate"} /\ job[p].todo = {}
  /\ IF job[p].op = "append" THEN Goto(p, "append") /\ UNCHANGED <<job, mu>> ELSE Return(p)
  /\ UNCHANGED <<dir, data, fd, lines, rotations, ctl>>

AppendBoot(p) ==
  /\ pc[p] = "append"
  /\ OpenAppend("boot", {lines + 1})
  /\ lines' = lines + 1
  /\ Return(p)
  /\ UNCHANGED <<arch, stamp, fd, rotations, ctl>>

\* listFilesLocked
List(p) ==
  /\ pc[p] = "list"
  /\ LET ls == Files(job[p].file) IN
     job' = [job EXCEPT ![p].paths = {l \in ls : cur[l] # None} \cup UNION {arch[l] : l \in ls}]
  /\ Goto(p, "read")
  /\ UNCHANGED <<dir, data, fd, mu, lines, rotations, ctl>>

\* What a path holds now.
At(x) ==
  IF x \in Logs THEN IF cur[x] = None THEN {} ELSE data[cur[x]]
  ELSE IF \E l \in Logs : x \in arch[l] THEN data[x] ELSE {}

\* tailLines: the end of the file, or an error if it has a line too long.
Shown(x) ==
  IF At(x) \cap Long # {} THEN {}
  ELSE {k \in At(x) : Cardinality({m \in At(x) : m > k}) < MaxTail}

\* The files come in no particular order here.  A file that is not read is passed
\* over; with Limit lines, the first ones of the file it has come to, the search
\* is over.
Read(p) ==
  /\ pc[p] = "read"
  /\ \E x \in job[p].paths :
       LET got == job[p].found \cup (Shown(x) \cap Asked) IN
       \/ /\ Cardinality(got) < Limit
          /\ job' = [job EXCEPT ![p].paths = @ \ {x}, ![p].found = got,
                                ![p].hidden = @ \cup (At(x) \ Shown(x))]
       \/ /\ Cardinality(got) >= Limit
          /\ \E first \in SUBSET got :
               /\ Cardinality(first) = Limit /\ job[p].found \subseteq first
               /\ \A k \in first \ job[p].found, m \in got \ first : k < m
               /\ job' = [job EXCEPT ![p].paths = {}, ![p].found = first]
       \/ /\ "read" \in MayFail
          /\ job' = [job EXCEPT ![p].paths = @ \ {x}, ![p].hidden = @ \cup At(x)]
  /\ UNCHANGED <<dir, data, fd, mu, pc, lines, rotations, ctl>>

Answer(p) ==
  /\ pc[p] = "read" /\ job[p].paths = {}
  /\ Return(p)
  /\ UNCHANGED <<dir, data, fd, lines, rotations, ctl>>

\* Cleanup first empties the logs, ...
Truncate(p) ==
  /\ pc[p] = "truncate"
  /\ \/ \E l \in job[p].todo : WriteEmpty(l) /\ Done(p, l) /\ UNCHANGED pc
     \/ job[p].todo = {} /\ Goto(p, "unlink") /\ UNCHANGED <<cur, data, job>>
  /\ UNCHANGED <<arch, stamp, fd, mu, lines, rotations, ctl>>

\* ... then removes the archives, stopping at the first it cannot remove.
Unlink(p) ==
  /\ pc[p] = "unlink"
  /\ \/ /\ \E l \in Files(job[p].file) : \E i \in arch[l] : arch' = [arch EXCEPT ![l] = @ \ {i}]
        /\ UNCHANGED <<pc, job, mu>>
     \/ /\ \A l \in Files(job[p].file) : arch[l] = {}
        /\ Return(p)
        /\ UNCHANGED arch
  /\ UNCHANGED <<cur, stamp, data, fd, lines, rotations, ctl>>

-----------------------------------------------------------------------------
(* PM2, and the manager's death *)

\* pm2 start opens the log it was given by name.
Pm2Open(l) ==
  /\ fd[l] = None
  /\ OpenAppend(l, {})
  /\ fd' = [fd EXCEPT ![l] = cur'[l]]
  /\ UNCHANGED <<arch, stamp, mu, pc, job, lines, rotations, ctl>>

Pm2Write(l) ==
  /\ fd[l] # None /\ lines < MaxLines
  /\ data' = [data EXCEPT ![fd[l]] = @ \cup {lines + 1}]
  /\ lines' = lines + 1
  /\ UNCHANGED <<dir, fd, mu, pc, job, rotations, ctl>>

Pm2Close(l) ==
  /\ fd[l] # None
  /\ fd' = [fd EXCEPT ![l] = None]
  /\ UNCHANGED <<dir, data, mu, pc, job, lines, rotations, ctl>>

Crash ==
  /\ crashes < MaxCrashes
  /\ crashes' = crashes + 1
  /\ mu' = Free
  /\ pc' = [p \in Procs |-> "idle"]
  /\ job' = [p \in Procs |-> NoJob]
  /\ UNCHANGED <<dir, data, fd, lines, rotations, requests>>

-----------------------------------------------------------------------------

Next ==
  \/ \E p \in Procs :
       \/ Issue(p) \/ Lock(p) \/ EnsureFile(p) \/ Create(p) \/ RotateIfNeeded(p) \/ Recreate(p) \/ Trim(p)
       \/ Looped(p) \/ AppendBoot(p) \/ List(p) \/ Read(p) \/ Answer(p)
       \/ Truncate(p) \/ Unlink(p) \/ Fail(p)
  \/ \E l \in Std : Pm2Open(l) \/ Pm2Write(l) \/ Pm2Close(l)
  \/ Crash

Spec == Init /\ [][Next]_vars

-----------------------------------------------------------------------------
(* Properties *)

\* A search that comes back with less than it was asked for has found every line
\* its query matches that was in the tool's logs when it got the lock, but for
\* those before the end of a file, and those of a file it could not read or with
\* a line that is too long: no rotation moves a file between its listing and its
\* reading.
SearchComplete ==
  \A p \in Procs : pc[p] = "read" /\ job[p].paths = {} =>
    \/ Cardinality(job[p].found) = Limit
    \/ job[p].due \cap Asked \subseteq job[p].found \cup job[p].hidden

\* The file a running tool writes to stays one Search lists: rotation may move
\* it, and never, however often it runs, removes it.  Only Cleanup does.
WriterKept ==
  [][\A l \in Std :
       fd[l] \in Listed(l) /\ fd'[l] = fd[l]
         => fd[l] \in Listed(l)' \/ \E p \in Procs : pc[p] = "unlink"]_vars

\* Without Cleanup lines disappear only with an archive that MaxArchives newer
\* ones follow, or, for a tool that PM2 starts just then, when the
\* manager makes a file anew that it has found missing or renamed.
RotationKeeps ==
  [][\A l \in Logs : \A i \in Listed(l) :
       (\A p \in Procs : pc[p] \notin {"truncate", "unlink"}
                         /\ ~(pc[p] \in {"create", "recreate"} /\ l \in Std /\ i = cur[l]))
         => i \in Surplus(l) \/ data[i] \subseteq Visible(l)']_vars

-----------------------------------------------------------------------------
(* The inductive invariant *)

TypeOK ==
  /\ cur \in [Logs -> Inodes \cup {None}] /\ arch \in [Logs -> SUBSET Inodes]
  /\ stamp \in [Inodes -> Nat] /\ data \in [Inodes -> SUBSET Nat]
  /\ fd \in [Std -> Inodes \cup {None}]
  /\ mu \in Procs \cup {Free}
  /\ pc \in [Procs -> Steps \cup {"idle", "lock"}]
  /\ job \in [Procs -> Job \cup {NoJob}]
  /\ \A p \in Procs : pc[p] # "idle" => job[p] \in Job
  /\ lines \in Nat /\ rotations \in Nat /\ requests \in Nat /\ crashes \in Nat

\* A file has one name.
OneName ==
  /\ \A l \in Logs : cur[l] \notin arch[l]
  /\ \A l, m \in Logs : l # m => Listed(l) \cap Listed(m) = {}
  /\ \A l \in Std, m \in Logs : l # m => fd[l] \notin Listed(m)
  /\ \A l, m \in Std : l # m /\ fd[l] # None => fd[l] # fd[m]

\* Why the writer is safe: a log grows only through the file PM2 has open, so a
\* log rotated away from its writer is empty and not rotated again.
Writers ==
  \A l \in Std :
    /\ fd[l] # None /\ fd[l] # cur[l] /\ cur[l] # None => data[cur[l]] = {}
    /\ fd[l] \in arch[l] => Newer(l, fd[l]) = {}

Stamps == \A l \in Logs : \A i \in arch[l] : stamp[i] <= rotations

\* What a caller holds while it has the lock.
Holds(p) ==
  /\ pc[p] \in Steps <=> mu = p
  /\ pc[p] \in {"create", "recreate", "trim"} => job[p].at \in Logs
  /\ pc[p] \in {"create", "recreate"} /\ job[p].at = "boot" => cur["boot"] = None
  /\ pc[p] = "list" => job[p].due \subseteq UNION {Visible(l) : l \in Files(job[p].file)}
  /\ pc[p] = "read" =>
       \/ job[p].paths = {} /\ Cardinality(job[p].found) = Limit
       \/ job[p].due \cap Asked \subseteq
            job[p].found \cup job[p].hidden \cup UNION {At(x) : x \in job[p].paths}

IInv == TypeOK /\ OneName /\ Writers /\ Stamps /\ \A p \in Procs : Holds(p)
==============================================================================
