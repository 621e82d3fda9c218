----------------------------- MODULE Logs_proofs ------------------------------
(***************************************************************************)
(* Proofs about Logs: the inductive invariant, and from it that a search is *)
(* complete and that rotation keeps the file a tool writes to.              *)
(***************************************************************************)
EXTENDS Logs, TLAPS, FiniteSetTheorems

\* What the invariant says of the files.
FilesInv == TypeOK /\ OneName /\ Writers /\ Stamps

THEOREM InitIInv == Init => IInv
<1> SUFFICES ASSUME Init PROVE IInv
  OBVIOUS
<1> USE LogsAssumption DEF Init
<1>1. TypeOK
  BY DEF TypeOK, Logs
<1>2. OneName /\ Stamps
  BY DEF OneName, Stamps, Listed, Logs
<1>3. Writers
  BY DEF Writers, Logs
<1>4. \A p \in Procs : Holds(p)
  BY DEF Holds, Steps
<1> QED
  BY <1>1, <1>2, <1>3, <1>4 DEF IInv

\* Where the lines a search is due are while it has the files in ps before it.
Covered(ps, j) ==
  \/ ps = {} /\ Cardinality(j.found) = Limit
  \/ j.due \cap Asked \subseteq j.found \cup j.hidden \cup UNION {At(x) : x \in ps}

-----------------------------------------------------------------------------
(* One caller at a time *)

LEMMA OthersHold ==
  ASSUME IInv, NEW p \in Procs, pc[p] \in Steps, NEW q \in Procs, q # p,
         pc'[q] = pc[q], mu' \in {p, Free}
  PROVE  Holds(q)'
<1>1. mu = p /\ pc[q] \notin Steps
  BY DEF IInv, Holds
<1>2. mu' # q
  BY LogsAssumption
<1> QED
  BY <1>1, <1>2 DEF Holds, Steps

LEMMA ReturnHolds ==
  ASSUME IInv, NEW p \in Procs, pc[p] \in Steps, Return(p)
  PROVE  /\ \A q \in Procs : Holds(q)'
         /\ mu' \in Procs \cup {Free}
         /\ pc' \in [Procs -> Steps \cup {"idle", "lock"}]
         /\ job' \in [Procs -> Job \cup {NoJob}]
         /\ \A q \in Procs : pc'[q] # "idle" => job'[q] \in Job
<1>1. TypeOK
  BY DEF IInv
<1>2. pc'[p] = "idle" /\ mu' = Free
  BY <1>1 DEF TypeOK, Return, Goto
<1>3. ASSUME NEW q \in Procs, q # p PROVE Holds(q)'
  BY <1>1, <1>3, OthersHold DEF TypeOK, Return, Goto
<1>4. Holds(p)'
  BY <1>2, LogsAssumption DEF Holds, Steps
<1>5. \A q \in Procs : Holds(q)'
  BY <1>3, <1>4
<1>6. /\ mu' \in Procs \cup {Free}
      /\ pc' \in [Procs -> Steps \cup {"idle", "lock"}]
      /\ job' \in [Procs -> Job \cup {NoJob}]
      /\ \A q \in Procs : pc'[q] # "idle" => job'[q] \in Job
  BY <1>1 DEF TypeOK, Return, Goto
<1> QED
  BY <1>5, <1>6

\* A step of the caller that has the lock, after which it has it still.
LEMMA StepHolds ==
  ASSUME IInv, NEW p \in Procs, pc[p] \in Steps, NEW s \in Steps, NEW j \in Job,
         pc' = [pc EXCEPT ![p] = s], job' = [job EXCEPT ![p] = j], mu' = mu
  PROVE  /\ mu' \in Procs \cup {Free}
         /\ pc' \in [Procs -> Steps \cup {"idle", "lock"}]
         /\ job' \in [Procs -> Job \cup {NoJob}]
         /\ \A q \in Procs : pc'[q] # "idle" => job'[q] \in Job
         /\ pc'[p] = s /\ job'[p] = j /\ mu' = p
         /\ \A q \in Procs : q # p => Holds(q)'
<1>1. TypeOK /\ mu = p
  BY DEF IInv, Holds
<1>2. /\ mu' \in Procs \cup {Free}
      /\ pc' \in [Procs -> Steps \cup {"idle", "lock"}]
      /\ job' \in [Procs -> Job \cup {NoJob}]
      /\ \A q \in Procs : pc'[q] # "idle" => job'[q] \in Job
      /\ pc'[p] = s /\ job'[p] = j /\ mu' = p
  BY <1>1 DEF TypeOK
<1>3. ASSUME NEW q \in Procs, q # p PROVE Holds(q)'
  BY <1>1, <1>3, OthersHold DEF TypeOK
<1> QED
  BY <1>2, <1>3

\* PM2's steps: the files only grow, and the callers are where they were.
LEMMA GrowHolds ==
  ASSUME IInv, UNCHANGED <<mu, pc, job>>, NEW q \in Procs,
         \A x : At(x) \subseteq At(x)',
         \A m \in Logs : Visible(m) \subseteq Visible(m)',
         cur'["boot"] = cur["boot"]
  PROVE  Holds(q)'
<1>1. pc[q] \in {"list", "read"} => job[q] \in Job
  BY DEF IInv, TypeOK
<1>2. pc[q] = "list" => job[q].due \subseteq UNION {Visible(m)' : m \in Files(job[q].file)}
  <2>1. pc[q] = "list" => Files(job[q].file) \subseteq Logs
    BY <1>1 DEF Job, Files
  <2> QED
    BY <2>1 DEF IInv, Holds
<1>3. UNION {At(x) : x \in job[q].paths} \subseteq UNION {At(x)' : x \in job[q].paths}
  OBVIOUS
<1>4. pc[q] = "read" => Covered(job[q].paths, job[q])'
  BY <1>3 DEF IInv, Holds, Covered
<1> QED
  BY <1>2, <1>4 DEF IInv, Holds, Covered

LEMMA DoneJob ==
  ASSUME IInv, NEW p \in Procs, pc[p] \in Steps, NEW l, Done(p, l)
  PROVE  \E j \in Job : job' = [job EXCEPT ![p] = j]
<1>1. job[p] \in Job /\ job \in [Procs -> Job \cup {NoJob}]
  BY DEF IInv, TypeOK, Steps
<1>2. job' = [job EXCEPT ![p] = [job[p] EXCEPT !.todo = @ \ {l}, !.at = None]]
  BY <1>1 DEF Done
<1>3. [job[p] EXCEPT !.todo = @ \ {l}, !.at = None] \in Job
  BY <1>1 DEF Job
<1> QED
  BY <1>2, <1>3

-----------------------------------------------------------------------------
(* The files *)

LEMMA UnusedFresh ==
  ASSUME NEW i \in Unused
  PROVE  /\ i \in Inodes
         /\ \A m \in Logs : i \notin arch[m] /\ i # cur[m]
         /\ \A m \in Std : fd[m] # i
<1>1. i \in Inodes /\ i # None
  BY LogsAssumption DEF Unused
<1>2. ASSUME NEW m \in Logs PROVE i \notin Listed(m)
  BY DEF Unused
<1>3. ASSUME NEW m \in Std PROVE fd[m] # i
  <2>1. i \notin {fd[l] : l \in Std}
    BY DEF Unused
  <2> QED
    BY <2>1
<1>4. ASSUME NEW m \in Logs PROVE i \notin arch[m] /\ i # cur[m]
  BY <1>1, <1>2 DEF Listed
<1> QED
  BY <1>1, <1>3, <1>4

\* Creating and truncating keep the invariant of the files.
LEMMA WriteEmptyKeeps ==
  ASSUME FilesInv, NEW l \in Logs, WriteEmpty(l), UNCHANGED <<arch, stamp, fd, rotations>>
  PROVE  /\ OneName' /\ Writers' /\ Stamps'
         /\ cur' \in [Logs -> Inodes \cup {None}] /\ data' \in [Inodes -> SUBSET Nat]
<1> USE LogsAssumption DEF FilesInv
<1>1. CASE cur[l] = None
  <2>1. PICK i \in Unused : cur' = [cur EXCEPT ![l] = i] /\ data' = [data EXCEPT ![i] = {}]
    BY <1>1 DEF WriteEmpty
  <2>2. /\ i \in Inodes /\ \A m \in Logs : i \notin arch[m] /\ i # cur[m]
        /\ \A m \in Std : fd[m] # i
    BY <2>1, UnusedFresh
  <2>3. cur' \in [Logs -> Inodes \cup {None}] /\ data' \in [Inodes -> SUBSET Nat]
    BY <2>1, <2>2 DEF TypeOK
  <2>4. OneName'
    BY <2>1, <2>2 DEF OneName, Listed, TypeOK
  <2>5. Writers'
    BY <2>1, <2>2 DEF Writers, Newer, TypeOK, Logs
  <2>6. Stamps'
    BY DEF Stamps
  <2> QED
    BY <2>3, <2>4, <2>5, <2>6
<1>2. CASE cur[l] # None
  <2>1. data' = [data EXCEPT ![cur[l]] = {}] /\ cur' = cur
    BY <1>2 DEF WriteEmpty
  <2>2. OneName' /\ Stamps' /\ data' \in [Inodes -> SUBSET Nat]
    BY <2>1 DEF OneName, Listed, Stamps, TypeOK
  <2>3. Writers'
    BY <2>1 DEF Writers, Newer, TypeOK, Logs
  <2> QED
    BY <2>1, <2>2, <2>3 DEF TypeOK
<1> QED
  BY <1>1, <1>2

LEMMA RenameKeeps ==
  ASSUME FilesInv, NEW l \in Logs, cur[l] # None,
         Cardinality(data[cur[l]]) >= MaxSize,
         arch' = [arch EXCEPT ![l] = @ \cup {cur[l]}],
         stamp' = [stamp EXCEPT ![cur[l]] = rotations + 1],
         rotations' = rotations + 1,
         cur' = [cur EXCEPT ![l] = None],
         UNCHANGED <<data, fd>>
  PROVE  /\ OneName' /\ Writers' /\ Stamps'
         /\ cur' \in [Logs -> Inodes \cup {None}] /\ arch' \in [Logs -> SUBSET Inodes]
         /\ stamp' \in [Inodes -> Nat] /\ rotations' \in Nat
<1> USE LogsAssumption DEF FilesInv
<1>0. cur[l] \in Inodes /\ rotations \in Nat
  BY DEF TypeOK
<1>1. data[cur[l]] # {}
  <2> SUFFICES ASSUME data[cur[l]] = {} PROVE FALSE
    OBVIOUS
  <2>1. Cardinality(data[cur[l]]) = 0
    BY FS_EmptySet
  <2> QED
    BY <2>1
<1>2. /\ cur' \in [Logs -> Inodes \cup {None}] /\ arch' \in [Logs -> SUBSET Inodes]
      /\ stamp' \in [Inodes -> Nat] /\ rotations' \in Nat
  BY <1>0 DEF TypeOK
<1>3. \A m \in Logs : m # l => cur'[m] = cur[m] /\ arch'[m] = arch[m]
  BY DEF TypeOK
<1>4. cur'[l] = None /\ arch'[l] = arch[l] \cup {cur[l]}
  BY DEF TypeOK
<1>5. OneName'
  BY <1>0, <1>3, <1>4 DEF OneName, Listed, TypeOK, Logs
<1>6. Stamps'
  <2> SUFFICES ASSUME NEW m \in Logs, NEW i \in arch'[m] PROVE stamp'[i] <= rotations'
    BY DEF Stamps
  <2>1. CASE i = cur[l]
    BY <2>1, <1>0 DEF TypeOK
  <2>2. CASE i # cur[l]
    <3>1. i \in arch[m] /\ i \in Inodes
      BY <2>2, <1>2, <1>3, <1>4
    <3>2. stamp'[i] = stamp[i] /\ stamp[i] <= rotations /\ stamp[i] \in Nat
      BY <2>2, <3>1 DEF Stamps, TypeOK
    <3> QED
      BY <3>2, <1>0
  <2> QED
    BY <2>1, <2>2
<1>7. Writers'
  <2> SUFFICES ASSUME NEW m \in Std
               PROVE  /\ fd[m] # None /\ fd[m] # cur'[m] /\ cur'[m] # None => data[cur'[m]] = {}
                      /\ fd[m] \in arch'[m] => Newer(m, fd[m])' = {}
    BY DEF Writers
  <2>0. m \in Logs
    BY DEF Logs
  <2>1. CASE m # l
    <3>1. \A j \in arch[m] : j # cur[l]
      BY <2>0, <2>1 DEF OneName, Listed, TypeOK
    <3>2. \A j \in arch[m] : stamp'[j] = stamp[j]
      BY <3>1, <2>0 DEF TypeOK
    <3> QED
      BY <2>0, <2>1, <3>2, <1>3 DEF Writers, Newer
  <2>2. CASE m = l
    <3>1. fd[m] = None \/ fd[m] = cur[m]
      BY <2>2, <1>1 DEF Writers
    <3>2. ASSUME fd[m] \in arch'[m] PROVE Newer(m, fd[m])' = {}
      <4>1. fd[m] = cur[l]
        BY <3>1, <3>2, <2>2, <1>2, <2>0
      <4>2. stamp'[fd[m]] = rotations + 1
        BY <4>1, <1>0 DEF TypeOK
      <4>3. \A j \in arch'[m] : stamp'[j] <= rotations + 1 /\ stamp'[j] \in Nat
        BY <1>6, <1>2, <2>0 DEF Stamps
      <4>4. \A j \in arch'[m] : ~(stamp'[j] > stamp'[fd[m]])
        BY <4>2, <4>3, <1>0
      <4> QED
        BY <4>4 DEF Newer
    <3> QED
      BY <3>2, <2>2, <1>4
  <2> QED
    BY <2>1, <2>2
<1> QED
  BY <1>2, <1>5, <1>6, <1>7

\* Removing archives keeps it too.
LEMMA RemoveKeeps ==
  ASSUME FilesInv, arch' \in [Logs -> SUBSET Inodes],
         \A l \in Logs : arch'[l] \subseteq arch[l],
         UNCHANGED <<cur, stamp, data, fd, rotations>>
  PROVE  OneName' /\ Writers' /\ Stamps'
<1>1. OneName'
  BY DEF OneName, Listed, FilesInv, TypeOK, Logs
<1>2. Writers'
  BY DEF Writers, Newer, FilesInv, TypeOK, Logs
<1>3. Stamps'
  BY DEF Stamps, FilesInv, TypeOK
<1> QED
  BY <1>1, <1>2, <1>3

\* What a file opened to append is: the log's own, and where it had to be
\* created, no one's.
LEMMA AppendKeeps ==
  ASSUME FilesInv, NEW l \in Logs, NEW written \in SUBSET Nat, OpenAppend(l, written),
         l \in Std => written = {}, UNCHANGED <<arch, stamp, rotations>>
  PROVE  /\ cur' \in [Logs -> Inodes \cup {None}] /\ data' \in [Inodes -> SUBSET Nat]
         /\ cur'[l] \in Inodes
         /\ \A m \in Logs : m # l => cur'[m] = cur[m]
         /\ \A m \in Logs : cur'[l] \notin arch[m] /\ (m # l => cur'[l] # cur[m])
         /\ \A m \in Std : m # l => fd[m] # cur'[l]
         /\ l \in Std => \A i \in Inodes : data'[i] \subseteq data[i]
         /\ \A i \in Inodes : i # cur'[l] => data'[i] = data[i]
         /\ cur[l] # None => cur' = cur /\ \A i \in Inodes : data[i] \subseteq data'[i]
         /\ cur[l] = None => \A m \in Std : fd[m] # cur'[l]
<1> USE LogsAssumption DEF FilesInv
<1>1. CASE cur[l] = None
  <2>1. PICK i \in Unused : cur' = [cur EXCEPT ![l] = i] /\ data' = [data EXCEPT ![i] = written]
    BY <1>1 DEF OpenAppend
  <2> QED
    BY <1>1, <2>1, UnusedFresh DEF TypeOK
<1>2. CASE cur[l] # None
  <2>1. data' = [data EXCEPT ![cur[l]] = @ \cup written] /\ cur' = cur
    BY <1>2 DEF OpenAppend
  <2>2. cur[l] \in Inodes
    BY <1>2 DEF TypeOK
  <2>3. \A m \in Logs : cur[l] \notin arch[m] /\ (m # l => cur[l] # cur[m])
    BY <2>2 DEF OneName, Listed
  <2>4. \A m \in Std : m # l => fd[m] # cur[l]
    BY <2>2 DEF OneName, Listed, Logs
  <2> QED
    BY <1>2, <2>1, <2>2, <2>3, <2>4 DEF TypeOK
<1> QED
  BY <1>1, <1>2

LEMMA OpenKeeps ==
  ASSUME FilesInv, NEW l \in Std, OpenAppend(l, {}), fd[l] = None,
         fd' = [fd EXCEPT ![l] = cur'[l]], UNCHANGED <<arch, stamp, rotations>>
  PROVE  /\ OneName' /\ Writers' /\ Stamps'
         /\ cur' \in [Logs -> Inodes \cup {None}] /\ data' \in [Inodes -> SUBSET Nat]
         /\ fd' \in [Std -> Inodes \cup {None}]
<1> USE LogsAssumption DEF FilesInv
<1>0. l \in Logs
  BY DEF Logs
<1>1. /\ cur' \in [Logs -> Inodes \cup {None}] /\ data' \in [Inodes -> SUBSET Nat]
      /\ cur'[l] \in Inodes
      /\ \A m \in Logs : m # l => cur'[m] = cur[m]
      /\ \A m \in Logs : cur'[l] \notin arch[m] /\ (m # l => cur'[l] # cur[m])
      /\ \A m \in Std : m # l => fd[m] # cur'[l]
      /\ \A i \in Inodes : data'[i] \subseteq data[i]
  BY <1>0, AppendKeeps
<1>2. fd' \in [Std -> Inodes \cup {None}] /\ fd'[l] = cur'[l] /\ \A m \in Std : m # l => fd'[m] = fd[m]
  BY <1>1 DEF TypeOK
<1>3. OneName'
  BY <1>0, <1>1, <1>2 DEF OneName, Listed, TypeOK, Logs
<1>4. Writers'
  <2> SUFFICES ASSUME NEW m \in Std
               PROVE  /\ fd'[m] # None /\ fd'[m] # cur'[m] /\ cur'[m] # None => data'[cur'[m]] = {}
                      /\ fd'[m] \in arch[m] => Newer(m, fd'[m]) = {}
    BY DEF Writers, Newer
  <2>1. CASE m = l
    BY <2>1, <1>0, <1>1, <1>2
  <2>2. CASE m # l
    <3>1. m \in Logs /\ cur'[m] = cur[m] /\ fd'[m] = fd[m]
      BY <2>2, <1>1, <1>2 DEF Logs
    <3>2. cur[m] # None => cur[m] \in Inodes /\ data'[cur[m]] \subseteq data[cur[m]]
      BY <3>1, <1>1 DEF TypeOK
    <3> QED
      BY <3>1, <3>2 DEF Writers
  <2> QED
    BY <2>1, <2>2
<1>5. Stamps'
  BY DEF Stamps
<1> QED
  BY <1>1, <1>2, <1>3, <1>4, <1>5

LEMMA AppendBootKeeps ==
  ASSUME FilesInv, NEW written \in SUBSET Nat, OpenAppend("boot", written),
         UNCHANGED <<arch, stamp, fd, rotations>>
  PROVE  /\ OneName' /\ Writers' /\ Stamps'
         /\ cur' \in [Logs -> Inodes \cup {None}] /\ data' \in [Inodes -> SUBSET Nat]
<1> USE LogsAssumption DEF FilesInv
<1>0. "boot" \in Logs /\ "boot" \notin Std
  BY DEF Logs
<1>1. /\ cur' \in [Logs -> Inodes \cup {None}] /\ data' \in [Inodes -> SUBSET Nat]
      /\ cur'["boot"] \in Inodes
      /\ \A m \in Logs : m # "boot" => cur'[m] = cur[m]
      /\ \A m \in Logs : cur'["boot"] \notin arch[m] /\ (m # "boot" => cur'["boot"] # cur[m])
      /\ \A m \in Std : m # "boot" => fd[m] # cur'["boot"]
      /\ \A i \in Inodes : i # cur'["boot"] => data'[i] = data[i]
  BY <1>0, AppendKeeps
<1>2. OneName'
  BY <1>1 DEF OneName, Listed, TypeOK, Logs
<1>3. Writers'
  <2> SUFFICES ASSUME NEW m \in Std
               PROVE  fd[m] # None /\ fd[m] # cur'[m] /\ cur'[m] # None => data'[cur'[m]] = {}
    BY DEF Writers, Newer
  <2>1. m \in Logs /\ m # "boot" /\ cur'[m] = cur[m] /\ cur'["boot"] # cur[m]
    BY <1>1 DEF Logs
  <2>2. cur[m] # None => data'[cur[m]] = data[cur[m]]
    BY <2>1, <1>1 DEF TypeOK
  <2> QED
    BY <2>1, <2>2 DEF Writers
<1>4. Stamps'
  BY DEF Stamps
<1> QED
  BY <1>1, <1>2, <1>3, <1>4

-----------------------------------------------------------------------------
(* The steps *)

THEOREM NextIInv == IInv /\ [Next]_vars => IInv'
<1> SUFFICES ASSUME IInv, [Next]_vars PROVE IInv'
  OBVIOUS
<1> USE LogsAssumption
<1>0. FilesInv
  BY DEF IInv, FilesInv
<1>1. ASSUME NEW p \in Procs, Issue(p) PROVE IInv'
  <2>1. TypeOK'
    <3>1. PICK j \in Job : job' = [job EXCEPT ![p] = j]
      BY <1>1 DEF Issue, Job, Files, Logs
    <3>2. /\ pc' = [pc EXCEPT ![p] = "lock"] /\ requests' = requests + 1
          /\ UNCHANGED <<cur, arch, stamp, data, fd, mu, lines, rotations, crashes>>
      BY <1>1 DEF Issue, Goto, dir
    <3> QED
      BY <1>0, <3>1, <3>2 DEF FilesInv, TypeOK
  <2>2. OneName' /\ Writers' /\ Stamps'
    BY <1>0, <1>1 DEF Issue, dir, FilesInv, OneName, Listed, Writers, Newer, Stamps
  <2>3. ASSUME NEW q \in Procs PROVE Holds(q)'
    <3>1. CASE q = p
      BY <1>0, <1>1, <3>1 DEF Issue, Goto, FilesInv, TypeOK, IInv, Holds, Steps
    <3>2. CASE q # p
      BY <1>0, <1>1, <3>2 DEF Issue, Goto, dir, FilesInv, TypeOK, IInv, Holds, Visible, Listed, At
    <3> QED
      BY <3>1, <3>2
  <2> QED
    BY <2>1, <2>2, <2>3 DEF IInv
<1>2. ASSUME NEW p \in Procs, Lock(p) PROVE IInv'
  <2>0. /\ pc' = [pc EXCEPT ![p] = First(job[p].op)]
        /\ First(job[p].op) \in {"ensure", "list", "truncate", "rotate"}
        /\ UNCHANGED <<cur, arch, stamp, data, fd, lines, rotations, requests, crashes>>
    BY <1>2 DEF Lock, Goto, First, dir, ctl
  <2>1. job[p] \in Job /\ Files(job[p].file) \subseteq Logs
    BY <1>0, <1>2 DEF Lock, FilesInv, TypeOK, Job, Files
  <2>2. UNION {Visible(l) : l \in Files(job[p].file)} \in SUBSET Nat
    <3>1. ASSUME NEW l \in Logs PROVE Visible(l) \subseteq Nat
      BY <1>0 DEF Visible, Listed, FilesInv, TypeOK
    <3> QED
      BY <2>1, <3>1
  <2>3. /\ job' = [job EXCEPT ![p] = job'[p]] /\ job'[p] \in Job
        /\ job'[p].file = job[p].file
        /\ job'[p].due = UNION {Visible(l) : l \in Files(job[p].file)}
    BY <1>0, <1>2, <2>1, <2>2 DEF Lock, FilesInv, TypeOK, Job
  <2>4. TypeOK'
    BY <1>0, <1>2, <2>0, <2>3 DEF Lock, FilesInv, TypeOK, Steps
  <2>5. OneName' /\ Writers' /\ Stamps'
    BY <1>0, <2>0 DEF FilesInv, OneName, Listed, Writers, Newer, Stamps
  <2>6. ASSUME NEW q \in Procs PROVE Holds(q)'
    <3>1. CASE q = p
      <4>1. pc'[p] \in {"ensure", "list", "truncate", "rotate"} /\ mu' = p
        BY <1>0, <1>2, <2>0 DEF Lock, FilesInv, TypeOK
      <4>2. pc'[p] = "list" => job'[p].due \subseteq UNION {Visible(l)' : l \in Files(job'[p].file)}
        BY <2>0, <2>3 DEF Visible, Listed
      <4> QED
        BY <3>1, <4>1, <4>2 DEF Holds, Steps
    <3>2. CASE q # p
      BY <1>0, <1>2, <2>0, <3>2 DEF Lock, FilesInv, TypeOK, IInv, Holds, Steps
    <3> QED
      BY <3>1, <3>2
  <2> QED
    BY <2>4, <2>5, <2>6 DEF IInv
<1>3. ASSUME NEW p \in Procs, EnsureFile(p) PROVE IInv'
  <2>0. /\ pc[p] \in {"ensure", "rotate"} /\ mu' = mu
        /\ UNCHANGED <<cur, arch, stamp, data, fd, lines, rotations, requests, crashes>>
    BY <1>3 DEF EnsureFile, dir, ctl
  <2>1. PICK j \in Job, s \in Steps :
          /\ job' = [job EXCEPT ![p] = j] /\ pc' = [pc EXCEPT ![p] = s]
          /\ \/ s \in {"ensure", "rotate"}
             \/ s = "create" /\ j.at \in Logs /\ cur[j.at] = None
    <3>1. PICK l \in job[p].todo :
            \/ cur[l] = None /\ job' = [job EXCEPT ![p].at = l] /\ pc' = [pc EXCEPT ![p] = "create"]
            \/ Done(p, l) /\ pc' = pc
      BY <1>3 DEF EnsureFile, Goto
    <3>2. job[p] \in Job /\ l \in Logs
      BY <1>0, <2>0, <3>1 DEF FilesInv, TypeOK, Job
    <3>3. CASE cur[l] = None /\ job' = [job EXCEPT ![p].at = l] /\ pc' = [pc EXCEPT ![p] = "create"]
      <4>1. [job[p] EXCEPT !.at = l] \in Job /\ [job[p] EXCEPT !.at = l].at = l
        BY <3>2 DEF Job
      <4>2. job' = [job EXCEPT ![p] = [job[p] EXCEPT !.at = l]]
        BY <3>3
      <4> QED
        BY <3>2, <3>3, <4>1, <4>2 DEF Steps
    <3>4. CASE Done(p, l) /\ pc' = pc
      <4>1. pc' = [pc EXCEPT ![p] = pc[p]] /\ pc[p] \in Steps
        BY <1>0, <2>0, <3>4 DEF FilesInv, TypeOK, Steps
      <4>2. PICK j \in Job : job' = [job EXCEPT ![p] = j]
        BY <3>4, <4>1, DoneJob
      <4>3. pc[p] \in {"ensure", "rotate"}
        BY <2>0
      <4> QED
        BY <4>1, <4>2, <4>3
    <3> QED
      BY <3>1, <3>3, <3>4
  <2>2. TypeOK' /\ (\A q \in Procs : q # p => Holds(q)') /\ pc'[p] = s /\ job'[p] = j /\ mu' = p
    BY <1>0, <2>0, <2>1, StepHolds DEF FilesInv, TypeOK, Steps
  <2>3. Holds(p)'
    BY <2>0, <2>1, <2>2 DEF Holds
  <2>4. OneName' /\ Writers' /\ Stamps'
    BY <1>0, <2>0 DEF FilesInv, OneName, Listed, Writers, Newer, Stamps
  <2> QED
    BY <2>2, <2>3, <2>4 DEF IInv
<1>4. ASSUME NEW p \in Procs, Create(p) PROVE IInv'
  <2>0. pc[p] \in Steps /\ job[p].at \in Logs
    BY <1>4 DEF Create, IInv, Holds, Steps
  <2>1. PICK j \in Job : job' = [job EXCEPT ![p] = j]
    BY <1>4, <2>0, DoneJob DEF Create
  <2>2. PICK s \in {"ensure", "rotate"} : pc' = [pc EXCEPT ![p] = s]
    BY <1>4 DEF Create, Goto
  <2>3. /\ OneName' /\ Writers' /\ Stamps'
        /\ cur' \in [Logs -> Inodes \cup {None}] /\ data' \in [Inodes -> SUBSET Nat]
    BY <1>0, <1>4, <2>0, WriteEmptyKeeps DEF Create
  <2>4. /\ TypeOK' /\ (\A q \in Procs : q # p => Holds(q)') /\ pc'[p] = s /\ mu' = p
    BY <1>0, <1>4, <2>0, <2>1, <2>2, <2>3, StepHolds DEF Create, ctl, FilesInv, TypeOK, Steps
  <2>5. Holds(p)'
    BY <2>2, <2>4 DEF Holds, Steps
  <2> QED
    BY <2>3, <2>4, <2>5 DEF IInv
<1>5. ASSUME NEW p \in Procs, RotateIfNeeded(p) PROVE IInv'
  <2>0. pc[p] = "rotate" /\ pc[p] \in Steps /\ job[p] \in Job
    BY <1>0, <1>5 DEF RotateIfNeeded, Steps, FilesInv, TypeOK
  <2>1. PICK l \in job[p].todo :
          \/ /\ Done(p, l) /\ pc' = pc
             /\ UNCHANGED <<cur, arch, stamp, rotations>>
          \/ /\ cur[l] # None /\ Cardinality(data[cur[l]]) >= MaxSize
             /\ arch' = [arch EXCEPT ![l] = @ \cup {cur[l]}]
             /\ stamp' = [stamp EXCEPT ![cur[l]] = rotations + 1]
             /\ rotations' = rotations + 1
             /\ cur' = [cur EXCEPT ![l] = None]
             /\ job' = [job EXCEPT ![p].at = l]
             /\ pc' = [pc EXCEPT ![p] = "recreate"]
    BY <1>5 DEF RotateIfNeeded, Goto, dir
  <2>2. l \in Logs
    BY <2>0 DEF Job
  <2>3. CASE Done(p, l) /\ pc' = pc /\ UNCHANGED <<cur, arch, stamp, rotations>>
    <3>1. PICK j \in Job : job' = [job EXCEPT ![p] = j]
      BY <2>0, <2>3, DoneJob
    <3>2. pc' = [pc EXCEPT ![p] = "rotate"]
      BY <1>0, <2>0, <2>3 DEF FilesInv, TypeOK
    <3>3. /\ TypeOK' /\ (\A q \in Procs : q # p => Holds(q)') /\ pc'[p] = "rotate" /\ mu' = p
      BY <1>0, <1>5, <2>0, <2>3, <3>1, <3>2, StepHolds
         DEF RotateIfNeeded, ctl, FilesInv, TypeOK, Steps
    <3>4. OneName' /\ Writers' /\ Stamps'
      BY <1>0, <1>5, <2>3 DEF RotateIfNeeded, FilesInv, OneName, Listed, Writers, Newer, Stamps
    <3>5. Holds(p)'
      BY <3>3 DEF Holds, Steps
    <3> QED
      BY <3>3, <3>4, <3>5 DEF IInv
  <2>4. CASE /\ cur[l] # None /\ Cardinality(data[cur[l]]) >= MaxSize
             /\ arch' = [arch EXCEPT ![l] = @ \cup {cur[l]}]
             /\ stamp' = [stamp EXCEPT ![cur[l]] = rotations + 1]
             /\ rotations' = rotations + 1
             /\ cur' = [cur EXCEPT ![l] = None]
             /\ job' = [job EXCEPT ![p].at = l]
             /\ pc' = [pc EXCEPT ![p] = "recreate"]
    <3>1. UNCHANGED <<data, fd, mu, lines, requests, crashes>>
      BY <1>5 DEF RotateIfNeeded, ctl
    <3>2. /\ OneName' /\ Writers' /\ Stamps'
          /\ cur' \in [Logs -> Inodes \cup {None}] /\ arch' \in [Logs -> SUBSET Inodes]
          /\ stamp' \in [Inodes -> Nat] /\ rotations' \in Nat
      BY <1>0, <2>2, <2>4, <3>1, RenameKeeps
    <3> DEFINE j == [job[p] EXCEPT !.at = l]
    <3>3. j \in Job /\ j.at = l /\ job' = [job EXCEPT ![p] = j]
      BY <2>0, <2>2, <2>4 DEF Job
    <3> HIDE DEF j
    <3>4. /\ TypeOK' /\ (\A q \in Procs : q # p => Holds(q)')
          /\ pc'[p] = "recreate" /\ mu' = p /\ job'[p] = j
      BY <1>0, <2>0, <2>4, <3>1, <3>2, <3>3, StepHolds DEF FilesInv, TypeOK, Steps
    <3>5. cur'[l] = None
      BY <1>0, <2>2, <2>4 DEF FilesInv, TypeOK
    <3>6. Holds(p)'
      BY <2>2, <3>3, <3>4, <3>5 DEF Holds, Steps
    <3> QED
      BY <3>2, <3>4, <3>6 DEF IInv
  <2> QED
    BY <2>1, <2>3, <2>4
<1>6. ASSUME NEW p \in Procs, Recreate(p) PROVE IInv'
  <2>0. pc[p] \in Steps /\ job[p].at \in Logs /\ job[p] \in Job
    BY <1>0, <1>6 DEF Recreate, IInv, Holds, Steps, FilesInv, TypeOK
  <2>1. pc' = [pc EXCEPT ![p] = "trim"] /\ job' = [job EXCEPT ![p] = job[p]]
    BY <1>0, <1>6 DEF Recreate, Goto, FilesInv, TypeOK
  <2>2. /\ OneName' /\ Writers' /\ Stamps'
        /\ cur' \in [Logs -> Inodes \cup {None}] /\ data' \in [Inodes -> SUBSET Nat]
    BY <1>0, <1>6, <2>0, WriteEmptyKeeps DEF Recreate
  <2>3. /\ TypeOK' /\ (\A q \in Procs : q # p => Holds(q)')
        /\ pc'[p] = "trim" /\ mu' = p /\ job'[p] = job[p]
    BY <1>0, <1>6, <2>0, <2>1, <2>2, StepHolds DEF Recreate, ctl, FilesInv, TypeOK, Steps
  <2>4. Holds(p)'
    BY <2>0, <2>3 DEF Holds, Steps
  <2> QED
    BY <2>2, <2>3, <2>4 DEF IInv
<1>7. ASSUME NEW p \in Procs, Trim(p) PROVE IInv'
  <2>0. pc[p] \in Steps /\ job[p].at \in Logs
    BY <1>7 DEF Trim, IInv, Holds, Steps
  <2>1. PICK j \in Job : job' = [job EXCEPT ![p] = j]
    BY <1>7, <2>0, DoneJob DEF Trim
  <2>2. pc' = [pc EXCEPT ![p] = "rotate"] /\ UNCHANGED <<cur, stamp, data, fd, mu, lines, rotations, requests, crashes>>
    BY <1>7 DEF Trim, Goto, ctl
  <2>3. arch' \in [Logs -> SUBSET Inodes] /\ \A l \in Logs : arch'[l] \subseteq arch[l]
    BY <1>0, <1>7, <2>0 DEF Trim, FilesInv, TypeOK
  <2>4. OneName' /\ Writers' /\ Stamps'
    BY <1>0, <2>2, <2>3, RemoveKeeps
  <2>5. /\ TypeOK' /\ (\A q \in Procs : q # p => Holds(q)') /\ pc'[p] = "rotate" /\ mu' = p
    BY <1>0, <2>0, <2>1, <2>2, <2>3, StepHolds DEF FilesInv, TypeOK, Steps
  <2>6. Holds(p)'
    BY <2>5 DEF Holds, Steps
  <2> QED
    BY <2>4, <2>5, <2>6 DEF IInv
<1>8. ASSUME NEW p \in Procs, Return(p), pc[p] \in Steps,
             UNCHANGED <<cur, arch, stamp, data, fd, lines, rotations, requests, crashes>>
      PROVE  IInv'
  <2>1. TypeOK' /\ \A q \in Procs : Holds(q)'
    BY <1>0, <1>8, ReturnHolds DEF FilesInv, TypeOK
  <2>2. OneName' /\ Writers' /\ Stamps'
    BY <1>0, <1>8 DEF FilesInv, OneName, Listed, Writers, Newer, Stamps
  <2> QED
    BY <2>1, <2>2 DEF IInv
<1>9. ASSUME NEW p \in Procs, Looped(p) PROVE IInv'
  <2>1. CASE job[p].op = "append"
    <3>0. /\ pc[p] \in Steps /\ job[p] \in Job
          /\ pc' = [pc EXCEPT ![p] = "append"] /\ job' = [job EXCEPT ![p] = job[p]] /\ mu' = mu
          /\ UNCHANGED <<cur, arch, stamp, data, fd, lines, rotations, requests, crashes>>
      BY <1>0, <1>9, <2>1 DEF Looped, Goto, dir, ctl, Steps, FilesInv, TypeOK
    <3>1. TypeOK' /\ (\A q \in Procs : q # p => Holds(q)') /\ pc'[p] = "append" /\ mu' = p
      BY <1>0, <3>0, StepHolds DEF FilesInv, TypeOK, Steps
    <3>2. OneName' /\ Writers' /\ Stamps'
      BY <1>0, <3>0 DEF FilesInv, OneName, Listed, Writers, Newer, Stamps
    <3>3. Holds(p)'
      BY <3>1 DEF Holds, Steps
    <3> QED
      BY <3>1, <3>2, <3>3 DEF IInv
  <2>2. CASE job[p].op # "append"
    BY <1>8, <1>9, <2>2 DEF Looped, Steps, dir, ctl
  <2> QED
    BY <2>1, <2>2
<1>10. ASSUME NEW p \in Procs, AppendBoot(p) PROVE IInv'
  <2>0. pc[p] \in Steps /\ {lines + 1} \in SUBSET Nat
    BY <1>0, <1>10 DEF AppendBoot, Steps, FilesInv, TypeOK
  <2>1. /\ OneName' /\ Writers' /\ Stamps'
        /\ cur' \in [Logs -> Inodes \cup {None}] /\ data' \in [Inodes -> SUBSET Nat]
    BY <1>0, <1>10, <2>0, AppendBootKeeps DEF AppendBoot
  <2>2. TypeOK' /\ \A q \in Procs : Holds(q)'
    BY <1>0, <1>10, <2>0, <2>1, ReturnHolds DEF AppendBoot, ctl, FilesInv, TypeOK
  <2> QED
    BY <2>1, <2>2 DEF IInv
<1>11. ASSUME NEW p \in Procs, List(p) PROVE IInv'
  <2>0. /\ pc[p] = "list" /\ pc[p] \in Steps /\ job[p] \in Job /\ Files(job[p].file) \subseteq Logs
        /\ pc' = [pc EXCEPT ![p] = "read"]
        /\ UNCHANGED <<cur, arch, stamp, data, fd, mu, lines, rotations, requests, crashes>>
    BY <1>0, <1>11 DEF List, Goto, dir, ctl, Steps, FilesInv, TypeOK, Job, Files
  <2> DEFINE ls == Files(job[p].file)
             ps == {l \in ls : cur[l] # None} \cup UNION {arch[l] : l \in ls}
             j == [job[p] EXCEPT !.paths = ps]
  <2>1. ps \subseteq Logs \cup Inodes
    <3>1. \A l \in ls : arch[l] \subseteq Inodes
      BY <1>0, <2>0 DEF FilesInv, TypeOK
    <3> QED
      BY <2>0, <3>1
  <2>2. j \in Job /\ j.paths = ps /\ j.due = job[p].due /\ job' = [job EXCEPT ![p] = j]
    BY <1>11, <2>0, <2>1 DEF List, Job
  <2>3. job[p].due \subseteq UNION {At(x) : x \in ps}
    <3> SUFFICES ASSUME NEW n \in job[p].due PROVE \E x \in ps : n \in At(x)
      OBVIOUS
    <3>1. n \in UNION {Visible(l) : l \in ls}
      BY <2>0 DEF IInv, Holds
    <3>2. PICK l \in ls : n \in Visible(l)
      BY <3>1
    <3>3. PICK i \in Listed(l) : n \in data[i]
      BY <3>2 DEF Visible
    <3>4. CASE i \in arch[l]
      <4>1. i \in Inodes /\ i \notin Logs /\ l \in Logs
        BY <1>0, <2>0, <3>4 DEF FilesInv, TypeOK
      <4> QED
        BY <3>3, <3>4, <4>1 DEF At
    <3>5. CASE i = cur[l] /\ cur[l] # None
      BY <2>0, <3>3, <3>5 DEF At
    <3> QED
      BY <3>3, <3>4, <3>5 DEF Listed
  <2> HIDE DEF j, ps
  <2>4. /\ TypeOK' /\ (\A q \in Procs : q # p => Holds(q)')
        /\ pc'[p] = "read" /\ mu' = p /\ job'[p] = j
    BY <1>0, <2>0, <2>2, StepHolds DEF FilesInv, TypeOK, Steps
  <2>5. \A x \in ps : At(x)' = At(x)
    BY <2>0 DEF At
  <2>6. Holds(p)'
    <3>1. UNION {At(x)' : x \in ps} = UNION {At(x) : x \in ps}
      BY <2>5
    <3>2. Covered(job[p].paths, job[p])'
      BY <2>2, <2>3, <2>4, <3>1 DEF Covered
    <3> QED
      BY <2>4, <3>2 DEF Holds, Covered, Steps
  <2>7. OneName' /\ Writers' /\ Stamps'
    BY <1>0, <2>0 DEF FilesInv, OneName, Listed, Writers, Newer, Stamps
  <2> QED
    BY <2>4, <2>6, <2>7 DEF IInv
<1>12. ASSUME NEW p \in Procs, Read(p) PROVE IInv'
  <2>0. /\ pc[p] = "read" /\ pc[p] \in Steps /\ job[p] \in Job
        /\ pc' = [pc EXCEPT ![p] = "read"]
        /\ UNCHANGED <<cur, arch, stamp, data, fd, mu, lines, rotations, requests, crashes>>
    BY <1>0, <1>12 DEF Read, dir, ctl, Steps, FilesInv, TypeOK
  <2>1. Covered(job[p].paths, job[p])
    BY <2>0 DEF IInv, Holds, Covered
  <2>2. ASSUME NEW x \in job[p].paths PROVE At(x) \subseteq Nat /\ Shown(x) \subseteq At(x)
    BY <1>0, <2>0 DEF At, Shown, Job, FilesInv, TypeOK
  <2>3. PICK j \in Job : job' = [job EXCEPT ![p] = j] /\ Covered(j.paths, j)
    <3>1. PICK x \in job[p].paths :
            LET got == job[p].found \cup (Shown(x) \cap Asked) IN
            \/ job' = [job EXCEPT ![p].paths = @ \ {x}, ![p].found = got,
                                  ![p].hidden = @ \cup (At(x) \ Shown(x))]
            \/ \E first \in SUBSET got :
                 /\ Cardinality(first) = Limit
                 /\ job' = [job EXCEPT ![p].paths = {}, ![p].found = first]
            \/ job' = [job EXCEPT ![p].paths = @ \ {x}, ![p].hidden = @ \cup At(x)]
      BY <1>12, Zenon DEF Read
    <3> DEFINE got == job[p].found \cup (Shown(x) \cap Asked)
               j1 == [job[p] EXCEPT !.paths = @ \ {x}, !.found = got,
                                    !.hidden = @ \cup (At(x) \ Shown(x))]
               j2(first) == [job[p] EXCEPT !.paths = {}, !.found = first]
               j3 == [job[p] EXCEPT !.paths = @ \ {x}, !.hidden = @ \cup At(x)]
    <3>2. got \subseteq Nat
      BY <2>0, <2>2 DEF Job
    <3>3. job[p].due \cap Asked
            \subseteq job[p].found \cup job[p].hidden \cup At(x) \cup UNION {At(y) : y \in job[p].paths \ {x}}
      <4>1. UNION {At(y) : y \in job[p].paths} \subseteq At(x) \cup UNION {At(y) : y \in job[p].paths \ {x}}
        OBVIOUS
      <4> QED
        BY <2>1, <4>1 DEF Covered
    <3>4. j1 \in Job /\ Covered(j1.paths, j1)
      <4>1. /\ j1 \in Job /\ j1.paths = job[p].paths \ {x} /\ j1.found = got /\ j1.due = job[p].due
            /\ j1.hidden = job[p].hidden \cup (At(x) \ Shown(x))
        BY <2>0, <2>2, <3>2 DEF Job
      <4> HIDE DEF j1
      <4> QED
        BY <3>3, <4>1 DEF Covered
    <3>5. ASSUME NEW first \in SUBSET got, Cardinality(first) = Limit
          PROVE  j2(first) \in Job /\ Covered(j2(first).paths, j2(first))
      <4>1. j2(first) \in Job /\ j2(first).paths = {} /\ j2(first).found = first
        BY <2>0, <3>2 DEF Job
      <4> QED
        BY <3>5, <4>1 DEF Covered
    <3>6. j3 \in Job /\ Covered(j3.paths, j3)
      <4>1. /\ j3 \in Job /\ j3.paths = job[p].paths \ {x} /\ j3.found = job[p].found
            /\ j3.due = job[p].due /\ j3.hidden = job[p].hidden \cup At(x)
        BY <2>0, <2>2 DEF Job
      <4> HIDE DEF j3
      <4> QED
        BY <3>3, <4>1 DEF Covered
    <3>7. \/ job' = [job EXCEPT ![p] = j1]
          \/ \E first \in SUBSET got : Cardinality(first) = Limit /\ job' = [job EXCEPT ![p] = j2(first)]
          \/ job' = [job EXCEPT ![p] = j3]
      <4>0. job \in [Procs -> Job \cup {NoJob}]
        BY <1>0 DEF FilesInv, TypeOK
      <4>1. CASE job' = [job EXCEPT ![p].paths = @ \ {x}, ![p].found = got,
                                    ![p].hidden = @ \cup (At(x) \ Shown(x))]
        BY <2>0, <4>0, <4>1 DEF Job
      <4>2. ASSUME NEW first \in SUBSET got, job' = [job EXCEPT ![p].paths = {}, ![p].found = first]
            PROVE  job' = [job EXCEPT ![p] = j2(first)]
        BY <2>0, <4>0, <4>2 DEF Job
      <4>3. CASE job' = [job EXCEPT ![p].paths = @ \ {x}, ![p].hidden = @ \cup At(x)]
        BY <2>0, <4>0, <4>3 DEF Job
      <4> HIDE DEF j1, j2, j3
      <4> QED
        BY <3>1, <4>1, <4>2, <4>3
    <3> HIDE DEF j1, j2, j3, got
    <3> QED
      BY <3>4, <3>5, <3>6, <3>7
  <2>4. /\ TypeOK' /\ (\A q \in Procs : q # p => Holds(q)')
        /\ pc'[p] = "read" /\ mu' = p /\ job'[p] = j
    BY <1>0, <2>0, <2>3, StepHolds DEF FilesInv, TypeOK, Steps
  <2>5. \A x \in j.paths : At(x)' = At(x)
    BY <2>0 DEF At
  <2>6. Holds(p)'
    <3>1. UNION {At(x)' : x \in j.paths} = UNION {At(x) : x \in j.paths}
      BY <2>5
    <3>2. Covered(job[p].paths, job[p])'
      BY <2>3, <2>4, <3>1 DEF Covered
    <3> QED
      BY <2>4, <3>2 DEF Holds, Covered, Steps
  <2>7. OneName' /\ Writers' /\ Stamps'
    BY <1>0, <2>0 DEF FilesInv, OneName, Listed, Writers, Newer, Stamps
  <2> QED
    BY <2>4, <2>6, <2>7 DEF IInv
<1>13. ASSUME NEW p \in Procs, Truncate(p) PROVE IInv'
  <2>0. /\ pc[p] = "truncate" /\ pc[p] \in Steps /\ job[p] \in Job /\ mu' = mu
        /\ UNCHANGED <<arch, stamp, fd, lines, rotations, requests, crashes>>
    BY <1>0, <1>13 DEF Truncate, ctl, Steps, FilesInv, TypeOK
  <2>1. CASE \E l \in job[p].todo : WriteEmpty(l) /\ Done(p, l) /\ pc' = pc
    <3>1. PICK l \in job[p].todo : WriteEmpty(l) /\ Done(p, l) /\ pc' = pc
      BY <2>1
    <3>2. l \in Logs
      BY <2>0 DEF Job
    <3>3. PICK j \in Job : job' = [job EXCEPT ![p] = j]
      BY <2>0, <3>1, DoneJob
    <3>4. pc' = [pc EXCEPT ![p] = "truncate"]
      BY <1>0, <2>0, <3>1 DEF FilesInv, TypeOK
    <3>5. /\ OneName' /\ Writers' /\ Stamps'
          /\ cur' \in [Logs -> Inodes \cup {None}] /\ data' \in [Inodes -> SUBSET Nat]
      BY <1>0, <2>0, <3>1, <3>2, WriteEmptyKeeps
    <3>6. /\ TypeOK' /\ (\A q \in Procs : q # p => Holds(q)') /\ pc'[p] = "truncate" /\ mu' = p
      BY <1>0, <2>0, <3>3, <3>4, <3>5, StepHolds DEF FilesInv, TypeOK, Steps
    <3>7. Holds(p)'
      BY <3>6 DEF Holds, Steps
    <3> QED
      BY <3>5, <3>6, <3>7 DEF IInv
  <2>2. CASE pc' = [pc EXCEPT ![p] = "unlink"] /\ UNCHANGED <<cur, data, job>>
    <3>1. job' = [job EXCEPT ![p] = job[p]]
      BY <1>0, <2>2 DEF FilesInv, TypeOK
    <3>2. /\ TypeOK' /\ (\A q \in Procs : q # p => Holds(q)') /\ pc'[p] = "unlink" /\ mu' = p
      BY <1>0, <2>0, <2>2, <3>1, StepHolds DEF FilesInv, TypeOK, Steps
    <3>3. Holds(p)'
      BY <3>2 DEF Holds, Steps
    <3>4. OneName' /\ Writers' /\ Stamps'
      BY <1>0, <2>0, <2>2 DEF FilesInv, OneName, Listed, Writers, Newer, Stamps
    <3> QED
      BY <3>2, <3>3, <3>4 DEF IInv
  <2> QED
    BY <1>13, <2>1, <2>2 DEF Truncate, Goto
<1>14. ASSUME NEW p \in Procs, Unlink(p) PROVE IInv'
  <2>0. /\ pc[p] = "unlink" /\ pc[p] \in Steps /\ job[p] \in Job /\ Files(job[p].file) \subseteq Logs
        /\ UNCHANGED <<cur, stamp, data, fd, lines, rotations, requests, crashes>>
    BY <1>0, <1>14 DEF Unlink, ctl, Steps, FilesInv, TypeOK, Job, Files
  <2>1. CASE /\ \E l \in Files(job[p].file) : \E i \in arch[l] : arch' = [arch EXCEPT ![l] = @ \ {i}]
             /\ UNCHANGED <<pc, job, mu>>
    <3>1. arch' \in [Logs -> SUBSET Inodes] /\ \A l \in Logs : arch'[l] \subseteq arch[l]
      BY <1>0, <2>0, <2>1 DEF FilesInv, TypeOK
    <3>2. OneName' /\ Writers' /\ Stamps'
      BY <1>0, <2>0, <3>1, RemoveKeeps
    <3>3. pc' = [pc EXCEPT ![p] = "unlink"] /\ job' = [job EXCEPT ![p] = job[p]] /\ mu' = mu
      BY <1>0, <2>0, <2>1 DEF FilesInv, TypeOK
    <3>4. /\ TypeOK' /\ (\A q \in Procs : q # p => Holds(q)') /\ pc'[p] = "unlink" /\ mu' = p
      BY <1>0, <2>0, <3>1, <3>3, StepHolds DEF FilesInv, TypeOK, Steps
    <3>5. Holds(p)'
      BY <3>4 DEF Holds, Steps
    <3> QED
      BY <3>2, <3>4, <3>5 DEF IInv
  <2>2. CASE Return(p) /\ UNCHANGED arch
    BY <1>8, <2>0, <2>2
  <2> QED
    BY <1>14, <2>1, <2>2 DEF Unlink
<1>15. ASSUME NEW p \in Procs, Answer(p) \/ Fail(p) PROVE IInv'
  BY <1>8, <1>15 DEF Answer, Fail, Steps, dir, ctl
<1>16. ASSUME NEW l \in Std, Pm2Open(l) PROVE IInv'
  <2>0. /\ l \in Logs /\ l # "boot" /\ OpenAppend(l, {}) /\ {} \in SUBSET Nat
        /\ UNCHANGED <<arch, stamp, mu, pc, job, lines, rotations, requests, crashes>>
    BY <1>16 DEF Pm2Open, ctl, Logs
  <2>1. /\ OneName' /\ Writers' /\ Stamps'
        /\ cur' \in [Logs -> Inodes \cup {None}] /\ data' \in [Inodes -> SUBSET Nat]
        /\ fd' \in [Std -> Inodes \cup {None}]
    BY <1>0, <1>16, <2>0, OpenKeeps DEF Pm2Open
  <2>2. TypeOK'
    BY <1>0, <2>0, <2>1 DEF FilesInv, TypeOK
  <2>3. /\ \A m \in Logs : m # l => cur'[m] = cur[m]
        /\ \A m \in Logs : cur'[l] \notin arch[m] /\ (m # l => cur'[l] # cur[m])
        /\ \A i \in Inodes : i # cur'[l] => data'[i] = data[i]
        /\ cur[l] # None => cur' = cur /\ \A i \in Inodes : data[i] \subseteq data'[i]
    BY <1>0, <2>0, AppendKeeps
  <2>4. ASSUME NEW x PROVE At(x) \subseteq At(x)'
    <3>1. CASE x \in Logs
      BY <1>0, <2>3, <3>1 DEF At, FilesInv, TypeOK
    <3>2. CASE x \notin Logs
      BY <1>0, <2>0, <2>3, <3>2 DEF At, FilesInv, TypeOK
    <3> QED
      BY <3>1, <3>2
  <2>5. ASSUME NEW m \in Logs PROVE Visible(m) \subseteq Visible(m)'
    <3>1. ASSUME NEW i \in Listed(m) PROVE i \in Listed(m)' /\ data[i] \subseteq data'[i]
      BY <1>0, <2>0, <2>3, <3>1 DEF Listed, FilesInv, TypeOK
    <3> QED
      BY <3>1 DEF Visible
  <2>6. ASSUME NEW q \in Procs PROVE Holds(q)'
    <3>1. cur'["boot"] = cur["boot"]
      BY <2>0, <2>3 DEF Logs
    <3> QED
      BY <2>0, <2>4, <2>5, <3>1, GrowHolds
  <2> QED
    BY <2>1, <2>2, <2>6 DEF IInv
<1>17. ASSUME NEW l \in Std, Pm2Write(l) PROVE IInv'
  <2>0. /\ l \in Logs /\ fd[l] \in Inodes /\ lines + 1 \in Nat
        /\ data' = [data EXCEPT ![fd[l]] = @ \cup {lines + 1}] /\ lines' = lines + 1
        /\ UNCHANGED <<cur, arch, stamp, fd, mu, pc, job, rotations, requests, crashes>>
    BY <1>0, <1>17 DEF Pm2Write, dir, ctl, Logs, FilesInv, TypeOK
  <2>1. /\ TypeOK' /\ (\A i \in Inodes : data[i] \subseteq data'[i])
        /\ \A i \in Inodes : i # fd[l] => data'[i] = data[i]
    BY <1>0, <2>0 DEF FilesInv, TypeOK
  <2>2. OneName' /\ Stamps'
    BY <1>0, <2>0 DEF FilesInv, OneName, Listed, Stamps
  <2>3. Writers'
    <3> SUFFICES ASSUME NEW m \in Std, fd[m] # None, fd[m] # cur[m], cur[m] # None
                 PROVE  data'[cur[m]] = {}
      BY <1>0, <2>0 DEF FilesInv, Writers, Newer
    <3>1. m \in Logs /\ cur[m] \in Inodes /\ cur[m] \in Listed(m)
      BY <1>0 DEF FilesInv, TypeOK, Logs, Listed
    <3>2. cur[m] # fd[l]
      BY <1>0, <3>1 DEF FilesInv, OneName
    <3>3. data[cur[m]] = {}
      BY <1>0 DEF FilesInv, Writers
    <3> QED
      BY <2>1, <3>1, <3>2, <3>3
  <2>4. ASSUME NEW x PROVE At(x) \subseteq At(x)'
    BY <1>0, <2>0, <2>1 DEF At, FilesInv, TypeOK
  <2>5. ASSUME NEW m \in Logs PROVE Visible(m) \subseteq Visible(m)'
    <3>1. ASSUME NEW i \in Listed(m) PROVE i \in Listed(m)' /\ data[i] \subseteq data'[i]
      BY <1>0, <2>0, <2>1, <3>1 DEF Listed, FilesInv, TypeOK
    <3> QED
      BY <3>1 DEF Visible
  <2>6. ASSUME NEW q \in Procs PROVE Holds(q)'
    BY <1>0, <2>0, <2>4, <2>5, GrowHolds DEF FilesInv
  <2> QED
    BY <2>1, <2>2, <2>3, <2>6 DEF IInv
<1>18. ASSUME NEW l \in Std, Pm2Close(l) PROVE IInv'
  <2>0. /\ fd' = [fd EXCEPT ![l] = None]
        /\ UNCHANGED <<cur, arch, stamp, data, mu, pc, job, lines, rotations, requests, crashes>>
    BY <1>18 DEF Pm2Close, dir, ctl
  <2>1. TypeOK' /\ fd'[l] = None /\ \A m \in Std : m # l => fd'[m] = fd[m]
    BY <1>0, <2>0 DEF FilesInv, TypeOK
  <2>2. \A m \in Logs : None \notin Listed(m)
    BY <1>0 DEF FilesInv, TypeOK, Listed
  <2>3. OneName'
    BY <1>0, <2>0, <2>1, <2>2 DEF FilesInv, OneName, Listed
  <2>4. Writers'
    BY <1>0, <2>0, <2>1, <2>2 DEF FilesInv, Writers, Newer, Listed, Logs
  <2>5. Stamps'
    BY <1>0, <2>0 DEF FilesInv, Stamps
  <2>6. ASSUME NEW q \in Procs PROVE Holds(q)'
    BY <2>0 DEF IInv, Holds, Visible, Listed, At
  <2> QED
    BY <2>1, <2>3, <2>4, <2>5, <2>6 DEF IInv
<1>19. ASSUME Crash PROVE IInv'
  <2>1. TypeOK'
    BY <1>0, <1>19 DEF Crash, dir, FilesInv, TypeOK
  <2>2. OneName' /\ Writers' /\ Stamps'
    BY <1>0, <1>19 DEF Crash, dir, FilesInv, OneName, Listed, Writers, Newer, Stamps
  <2>3. ASSUME NEW q \in Procs PROVE Holds(q)'
    BY <1>19 DEF Crash, Holds, Steps
  <2> QED
    BY <2>1, <2>2, <2>3 DEF IInv
<1>20. ASSUME UNCHANGED vars PROVE IInv'
  <2>1. TypeOK'
    BY <1>0, <1>20 DEF vars, FilesInv, TypeOK
  <2>2. OneName' /\ Writers' /\ Stamps'
    BY <1>0, <1>20 DEF vars, FilesInv, OneName, Listed, Writers, Newer, Stamps
  <2>3. ASSUME NEW q \in Procs PROVE Holds(q)'
    BY <1>20 DEF vars, IInv, Holds, Visible, Listed, At
  <2> QED
    BY <2>1, <2>2, <2>3 DEF IInv
<1> QED
  BY <1>1, <1>2, <1>3, <1>4, <1>5, <1>6, <1>7, <1>9, <1>10, <1>11, <1>12, <1>13, <1>14, <1>15,
     <1>16, <1>17, <1>18, <1>19, <1>20 DEF Next

\* The type and the part of every caller, whatever the interleaving.
THEOREM Invariance == Spec => []IInv
<1> QED
  BY InitIInv, NextIInv, PTL DEF Spec

\* A search that comes back with less than its limit has found every matching
\* line that was in the tool's logs when it got the lock, but for lines before
\* the tail of a file and those of files it could not read.
THEOREM SearchesComplete == Spec => []SearchComplete
<1>1. ASSUME IInv PROVE SearchComplete
  <2> SUFFICES ASSUME NEW p \in Procs, pc[p] = "read", job[p].paths = {}
               PROVE  \/ Cardinality(job[p].found) = Limit
                      \/ job[p].due \cap Asked \subseteq job[p].found \cup job[p].hidden
    BY DEF SearchComplete
  <2>1. Covered(job[p].paths, job[p])
    BY <1>1 DEF IInv, Holds, Covered
  <2> QED
    BY <2>1 DEF Covered
<1> QED
  BY Invariance, <1>1, PTL

-----------------------------------------------------------------------------
(* What a step does to a file that has a name *)

\* But for Cleanup, it keeps one unless rotation had to remove it.
LEMMA ListedStep ==
  ASSUME IInv, [Next]_vars, \A p \in Procs : pc[p] # "unlink",
         NEW l \in Logs, NEW i \in Listed(l)
  PROVE  i \in Listed(l)' \/ i \in Surplus(l)
<1> USE LogsAssumption
<1>0. TypeOK /\ i \in Inodes
  BY DEF IInv, TypeOK, Listed
<1>1. ASSUME arch' = arch, \A m \in Logs : cur[m] # None => cur'[m] = cur[m]
      PROVE  i \in Listed(l)'
  BY <1>1 DEF Listed
<1>2. ASSUME NEW m \in Logs, WriteEmpty(m) PROVE \A n \in Logs : cur[n] # None => cur'[n] = cur[n]
  BY <1>0, <1>2 DEF WriteEmpty, TypeOK
<1>3. ASSUME NEW m \in Logs, NEW w, OpenAppend(m, w) PROVE \A n \in Logs : cur[n] # None => cur'[n] = cur[n]
  BY <1>0, <1>3 DEF OpenAppend, TypeOK
<1>4. ASSUME NEW p \in Procs,
             \/ Issue(p) \/ Lock(p) \/ EnsureFile(p) \/ Looped(p) \/ List(p) \/ Read(p) \/ Answer(p) \/ Fail(p)
      PROVE  i \in Listed(l)'
  BY <1>1, <1>4 DEF Issue, Lock, EnsureFile, Looped, List, Read, Answer, Fail, dir
<1>5. ASSUME NEW p \in Procs, Create(p) \/ Recreate(p) PROVE i \in Listed(l)'
  <2>1. job[p].at \in Logs
    BY <1>5 DEF IInv, Holds, Create, Recreate
  <2> QED
    BY <1>1, <1>2, <1>5, <2>1 DEF Create, Recreate
<1>6. ASSUME NEW p \in Procs, RotateIfNeeded(p) PROVE i \in Listed(l)'
  <2>0. job[p] \in Job
    BY <1>6, <1>0 DEF RotateIfNeeded, TypeOK
  <2>1. PICK m \in job[p].todo :
          \/ cur' = cur /\ arch' = arch
          \/ arch' = [arch EXCEPT ![m] = @ \cup {cur[m]}] /\ cur' = [cur EXCEPT ![m] = None]
    BY <1>6 DEF RotateIfNeeded, dir
  <2>2. m \in Logs
    BY <2>0 DEF Job
  <2> QED
    BY <1>0, <2>1, <2>2 DEF Listed, TypeOK
<1>7. ASSUME NEW p \in Procs, Trim(p) PROVE i \in Listed(l)' \/ i \in Surplus(l)
  <2>1. PICK gone \in SUBSET Surplus(job[p].at) :
          arch' = [arch EXCEPT ![job[p].at] = @ \ gone] /\ cur' = cur
    BY <1>7 DEF Trim
  <2>2. CASE job[p].at = l
    BY <1>0, <2>1, <2>2 DEF Listed, TypeOK
  <2>3. CASE job[p].at # l
    BY <1>0, <2>1, <2>3 DEF Listed, TypeOK
  <2> QED
    BY <2>2, <2>3
<1>8. ASSUME NEW p \in Procs, AppendBoot(p) PROVE i \in Listed(l)'
  BY <1>1, <1>3, <1>8 DEF AppendBoot, Logs
<1>9. ASSUME NEW p \in Procs, Truncate(p) PROVE i \in Listed(l)'
  <2>1. job[p] \in Job
    BY <1>9, <1>0 DEF Truncate, TypeOK
  <2>2. arch' = arch /\ ((\E m \in job[p].todo : WriteEmpty(m)) \/ cur' = cur)
    BY <1>9 DEF Truncate
  <2>3. job[p].todo \subseteq Logs
    BY <2>1 DEF Job
  <2> QED
    BY <1>1, <1>2, <2>2, <2>3
<1>10. ASSUME NEW m \in Std, Pm2Open(m) \/ Pm2Write(m) \/ Pm2Close(m) PROVE i \in Listed(l)'
  BY <1>1, <1>3, <1>10 DEF Pm2Open, Pm2Write, Pm2Close, dir, Logs
<1>11. ASSUME Crash \/ UNCHANGED vars PROVE i \in Listed(l)'
  BY <1>1, <1>11 DEF Crash, vars, dir
<1>12. \A p \in Procs : ~Unlink(p)
  BY DEF Unlink
<1> QED
  BY <1>4, <1>5, <1>6, <1>7, <1>8, <1>9, <1>10, <1>11, <1>12 DEF Next

\* Rotation never takes from a running tool the file it writes to.
THEOREM KeepsWriter == Spec => WriterKept
<1> DEFINE Step == \A l \in Std : fd[l] \in Listed(l) /\ fd'[l] = fd[l]
                      => fd[l] \in Listed(l)' \/ \E p \in Procs : pc[p] = "unlink"
<1>1. ASSUME IInv, [Next]_vars PROVE Step
  <2> SUFFICES ASSUME NEW l \in Std, fd[l] \in Listed(l), \A p \in Procs : pc[p] # "unlink"
               PROVE  fd[l] \in Listed(l)'
    OBVIOUS
  <2>1. l \in Logs
    BY DEF Logs
  <2>2. fd[l] \in Listed(l)' \/ fd[l] \in Surplus(l)
    BY <1>1, <2>1, ListedStep
  <2>3. ASSUME fd[l] \in Surplus(l) PROVE FALSE
    <3>1. fd[l] \in arch[l] /\ Cardinality(Newer(l, fd[l])) >= MaxArchives
      BY <2>3 DEF Surplus
    <3>2. Newer(l, fd[l]) = {}
      BY <1>1, <3>1 DEF IInv, Writers
    <3>3. Cardinality(Newer(l, fd[l])) = 0
      BY <3>2, FS_EmptySet
    <3> QED
      BY <3>1, <3>3, LogsAssumption
  <2> QED
    BY <2>2, <2>3
<1>2. IInv /\ [Next]_vars => [Step]_vars
  BY <1>1
<1> QED
  BY Invariance, <1>2, PTL DEF Spec, WriterKept

\* And the lines of the file stay, if Cleanup is not at work and no file that has
\* just been opened is made anew.
LEMMA DataStep ==
  ASSUME IInv, [Next]_vars, NEW l \in Logs, NEW i \in Listed(l),
         \A p \in Procs : /\ pc[p] \notin {"truncate", "unlink"}
                          /\ ~(pc[p] \in {"create", "recreate"} /\ l \in Std /\ i = cur[l])
  PROVE  data[i] \subseteq data'[i]
<1> USE LogsAssumption
<1>0. TypeOK /\ i \in Inodes
  BY DEF IInv, TypeOK, Listed
<1>1. ASSUME NEW p \in Procs,
             \/ Issue(p) \/ Lock(p) \/ EnsureFile(p) \/ RotateIfNeeded(p) \/ Trim(p)
             \/ Looped(p) \/ List(p) \/ Read(p) \/ Answer(p) \/ Fail(p)
      PROVE  data' = data
  BY <1>1 DEF Issue, Lock, EnsureFile, RotateIfNeeded, Trim, Looped, List, Read, Answer, Fail
<1>2. ASSUME NEW p \in Procs, Create(p) \/ Recreate(p) PROVE data[i] \subseteq data'[i]
  <2> DEFINE m == job[p].at
  <2>1. m \in Logs /\ WriteEmpty(m) /\ pc[p] \in {"create", "recreate"}
    BY <1>2 DEF Create, Recreate, IInv, Holds
  <2>2. m = "boot" => cur[m] = None
    BY <2>1 DEF IInv, Holds
  <2>3. CASE cur[m] = None
    <3>1. PICK f \in Unused : data' = [data EXCEPT ![f] = {}]
      BY <2>1, <2>3 DEF WriteEmpty
    <3>2. f # i
      BY <3>1, UnusedFresh DEF Listed
    <3> QED
      BY <1>0, <3>1, <3>2 DEF TypeOK
  <2>4. CASE cur[m] # None
    <3>1. data' = [data EXCEPT ![cur[m]] = {}]
      BY <2>1, <2>4 DEF WriteEmpty
    <3>2. m \in Std /\ cur[m] \in Listed(m)
      BY <2>1, <2>2, <2>4 DEF Logs, Listed
    <3>3. i # cur[m]
      BY <2>1, <3>2 DEF IInv, OneName
    <3> QED
      BY <1>0, <3>1, <3>3 DEF TypeOK
  <2> QED
    BY <2>3, <2>4
<1>3. ASSUME NEW m \in Logs, NEW w \in SUBSET Nat, OpenAppend(m, w) PROVE data[i] \subseteq data'[i]
  <2>1. CASE cur[m] = None
    <3>1. PICK f \in Unused : data' = [data EXCEPT ![f] = w]
      BY <1>3, <2>1 DEF OpenAppend
    <3>2. f # i
      BY <3>1, UnusedFresh DEF Listed
    <3> QED
      BY <1>0, <3>1, <3>2 DEF TypeOK
  <2>2. CASE cur[m] # None
    BY <1>0, <1>3, <2>2 DEF OpenAppend, TypeOK
  <2> QED
    BY <2>1, <2>2
<1>4. ASSUME NEW p \in Procs, AppendBoot(p) PROVE data[i] \subseteq data'[i]
  BY <1>0, <1>3, <1>4 DEF AppendBoot, Logs, TypeOK
<1>5. ASSUME NEW m \in Std, Pm2Open(m) \/ Pm2Write(m) \/ Pm2Close(m) PROVE data[i] \subseteq data'[i]
  <2>1. CASE Pm2Open(m)
    BY <1>3, <2>1 DEF Pm2Open, Logs
  <2>2. CASE Pm2Write(m)
    BY <1>0, <2>2 DEF Pm2Write, TypeOK
  <2>3. CASE Pm2Close(m)
    BY <2>3 DEF Pm2Close
  <2> QED
    BY <1>5, <2>1, <2>2, <2>3
<1>6. ASSUME Crash \/ UNCHANGED vars PROVE data' = data
  BY <1>6 DEF Crash, vars
<1>7. \A p \in Procs : ~Truncate(p) /\ ~Unlink(p)
  BY DEF Truncate, Unlink
<1> QED
  BY <1>1, <1>2, <1>4, <1>5, <1>6, <1>7 DEF Next

\* But for Cleanup and a file made anew as PM2 opens it, lines disappear only
\* with an archive that rotation had to remove.
THEOREM KeepsLines == Spec => RotationKeeps
<1> DEFINE Step ==
      \A l \in Logs : \A i \in Listed(l) :
        (\A p \in Procs : pc[p] \notin {"truncate", "unlink"}
                          /\ ~(pc[p] \in {"create", "recreate"} /\ l \in Std /\ i = cur[l]))
          => i \in Surplus(l) \/ data[i] \subseteq Visible(l)'
<1>1. ASSUME IInv, [Next]_vars PROVE Step
  <2> SUFFICES ASSUME NEW l \in Logs, NEW i \in Listed(l),
                      \A p \in Procs : /\ pc[p] \notin {"truncate", "unlink"}
                                       /\ ~(pc[p] \in {"create", "recreate"} /\ l \in Std /\ i = cur[l])
               PROVE  i \in Surplus(l) \/ data[i] \subseteq Visible(l)'
    OBVIOUS
  <2>1. i \in Listed(l)' \/ i \in Surplus(l)
    BY <1>1, ListedStep
  <2>2. data[i] \subseteq data'[i]
    BY <1>1, DataStep
  <2>3. i \in Listed(l)' => data'[i] \subseteq Visible(l)'
    BY DEF Visible
  <2> QED
    BY <2>1, <2>2, <2>3
<1>2. IInv /\ [Next]_vars => [Step]_vars
  BY <1>1
<1> QED
  BY Invariance, <1>2, PTL DEF Spec, RotationKeeps
==============================================================================
