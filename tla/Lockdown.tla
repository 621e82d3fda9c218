------------------------------- MODULE Lockdown -------------------------------
(***************************************************************************)
(* The lockdown file: internal/httpapi/server.go, handleLogin of auth.go,   *)
(* and unlockLockdown of cmd/htm/main.go.                                   *)
(*                                                                          *)
(* Handlers serialise their accesses with authMu; the local command is      *)
(* another process and takes no lock.  Both write <file>.tmp (truncate,     *)
(* then write) and rename it.  Names and contents are kept apart, because a *)
(* writer keeps writing to the file it opened when the name has moved.      *)
(***************************************************************************)
EXTENDS Naturals, FiniteSets

CONSTANTS
  Procs,       \* concurrent request handlers
  Soft, Hard,  \* 5 and 10 attempts
  Inodes,      \* files that can exist at once
  MayFail,     \* the steps of a save that may return an error
  MaxUnlocks, MaxCrashes,
  Free, None,  \* the free lock; no file
  Empty,       \* a truncated file
  Garbage      \* a file that is no JSON

\* lockdownState: until says whether LockedUntil is unset, ahead or over.
State == [failed : Nat, locked : BOOLEAN, until : {"none", "ahead", "over"}]
Zero  == [failed |-> 0, locked |-> FALSE, until |-> "none"]

Contents == State \cup {Empty, Garbage}

ASSUME ConstantsAssumption ==
  /\ Soft \in Nat \ {0} /\ Hard \in Nat /\ Soft <= Hard
  /\ Free \notin Procs /\ None \notin Inodes
  /\ {Empty, Garbage} \cap State = {} /\ Empty # Garbage
  /\ IsFiniteSet(Procs)
  /\ MayFail \subseteq {"open", "write", "rename"}
  /\ MaxUnlocks \in Nat /\ MaxCrashes \in Nat

VARIABLES
  path, tmp,  \* the file the lockdown name, the temporary name designates
  data,       \* the content of each file
  authMu,
  pc, want,   \* what a handler does, and the state it saves
  fd,         \* the file it has open
  cli, clifd, \* the same of the local command
  raced,      \* whether a save has overlapped a run of the command
  unlocks, crashes

vars == <<path, tmp, data, authMu, pc, want, fd, cli, clifd, raced, unlocks, crashes>>
files == <<path, tmp, data>>
local == <<cli, clifd, raced, unlocks>>

Init ==
  /\ path = None /\ tmp = None
  /\ data = [i \in Inodes |-> Empty]
  /\ authMu = Free
  /\ pc = [h \in Procs |-> "idle"]
  /\ want = [h \in Procs |-> Zero]
  /\ fd = [h \in Procs |-> None]
  /\ cli = "idle" /\ clifd = None
  /\ raced = "never"
  /\ unlocks = 0 /\ crashes = 0

-----------------------------------------------------------------------------

\* loadLockdownStateUnlocked: no file and an empty file are the zero state.
Loaded ==
  IF path = None THEN Zero
  ELSE IF data[path] = Empty THEN Zero ELSE data[path]

\* Defect: a block is taken for a lock.
RefusesForGood(st) == st \in State /\ (st.locked \/ st.until # "none")

Refuses(st) == st \in State /\ (st.locked \/ st.until = "ahead")

Finish(h) == pc' = [pc EXCEPT ![h] = "idle"]

\* Defect: requests are let through without a look at the state.
CheckNothing(h) ==
  /\ pc[h] = "idle" /\ authMu = Free
  /\ \E verdict \in {"invalid", "valid"} : pc' = [pc EXCEPT ![h] = verdict]
  /\ UNCHANGED <<files, authMu, want, fd, local, crashes>>

\* authMiddleware or handleLogin lets the request through to the comparison of
\* its token.  A file that does not parse is an error for the former, and no
\* block for the latter.
Check(h) ==
  /\ pc[h] = "idle" /\ authMu = Free
  /\ \E verdict \in {"invalid", "valid"}, login \in BOOLEAN :
       /\ IF Loaded = Garbage THEN login ELSE ~Refuses(Loaded)
       /\ pc' = [pc EXCEPT ![h] = verdict]
  /\ UNCHANGED <<files, authMu, want, fd, local, crashes>>

\* What recordFailedAttempt and clearFailedAttempts make of the state.
Recorded(st) ==
  [failed |-> st.failed + 1,
   until  |-> IF st.failed + 1 >= Soft THEN "ahead" ELSE st.until,
   locked |-> st.locked \/ st.failed + 1 >= Hard]

\* Defect: a login ends the lock.
ClearedUnlocking(st) == Zero

Cleared(st) == [st EXCEPT !.failed = 0, !.until = "none"]

\* authMu is taken and the state loaded; a state that does not parse is an
\* error, and a count that is zero is not cleared.
Enter(h) ==
  /\ pc[h] \in {"invalid", "valid"} /\ authMu = Free
  /\ \/ /\ \/ Loaded = Garbage
           \/ pc[h] = "valid" /\ Loaded # Garbage /\ Loaded.failed = 0 /\ ~Loaded.locked
        /\ Finish(h) /\ UNCHANGED <<authMu, want, raced>>
     \/ /\ Loaded # Garbage
        /\ pc[h] = "valid" => Loaded.failed # 0 \/ Loaded.locked
        /\ authMu' = h
        /\ want' = [want EXCEPT ![h] = IF pc[h] = "invalid" THEN Recorded(Loaded) ELSE Cleared(Loaded)]
        /\ pc' = [pc EXCEPT ![h] = "open"]
        /\ raced' = IF cli = "idle" THEN raced ELSE "now"
  /\ UNCHANGED <<files, fd, cli, clifd, unlocks, crashes>>

\* The end of a save, with or without an error: defer authMu.Unlock().
Leave(h) ==
  /\ Finish(h)
  /\ authMu' = Free
  /\ fd' = [fd EXCEPT ![h] = None]
  /\ want' = [want EXCEPT ![h] = Zero]

\* The temporary file becomes the lockdown file; the one before is gone, but
\* for a writer that has it open.  Without a temporary file it is an error.
Move ==
  IF tmp = None THEN UNCHANGED files
  ELSE /\ path' = tmp /\ tmp' = None
       /\ data' = [i \in Inodes |-> IF i = path THEN Empty ELSE data[i]]

\* O_CREATE|O_TRUNC: the file the temporary name has, or a new one.
Truncate(i) ==
  /\ IF tmp # None THEN i = tmp
     ELSE i \notin {path, clifd} \cup {fd[h] : h \in Procs}
  /\ tmp' = i
  /\ data' = [data EXCEPT ![i] = Empty]
  /\ UNCHANGED path

\* Defect: the state is written in place.
OpenInPlace(h) ==
  /\ pc[h] = "open"
  /\ \E i \in Inodes :
       /\ path # None => i = path
       /\ path' = i /\ data' = [data EXCEPT ![i] = Empty]
       /\ fd' = [fd EXCEPT ![h] = i]
  /\ pc' = [pc EXCEPT ![h] = "write"]
  /\ UNCHANGED <<tmp, authMu, want, local, crashes>>

Open(h) ==
  /\ pc[h] = "open"
  /\ \E i \in Inodes : Truncate(i) /\ fd' = [fd EXCEPT ![h] = i]
  /\ pc' = [pc EXCEPT ![h] = "write"]
  /\ UNCHANGED <<authMu, want, local, crashes>>

\* The server's indented state is longer than the command's, so it covers
\* whatever the file holds.
Write(h) ==
  /\ pc[h] = "write"
  /\ data' = [data EXCEPT ![fd[h]] = want[h]]
  /\ pc' = [pc EXCEPT ![h] = "rename"]
  /\ UNCHANGED <<path, tmp, authMu, want, fd, local, crashes>>

Rename(h) ==
  /\ pc[h] = "rename"
  /\ Move
  /\ Leave(h)
  /\ UNCHANGED <<local, crashes>>

\* The save fails; a failed write may leave part of the state.
SaveFails(h) ==
  /\ pc[h] \in MayFail
  /\ \/ UNCHANGED data
     \/ pc[h] = "write" /\ data' = [data EXCEPT ![fd[h]] = Garbage]
  /\ Leave(h)
  /\ UNCHANGED <<path, tmp, local, crashes>>

-----------------------------------------------------------------------------
(* htm unlock *)

UnlockOpen ==
  /\ cli = "idle" /\ unlocks < MaxUnlocks
  /\ \E i \in Inodes : Truncate(i) /\ clifd' = i
  /\ unlocks' = unlocks + 1 /\ cli' = "write"
  /\ raced' = IF authMu # Free THEN "now" ELSE IF raced = "never" THEN "never" ELSE "earlier"
  /\ UNCHANGED <<authMu, pc, want, fd, crashes>>

\* Defect: the command resets the count and leaves the lock.
UnlockWriteLocked ==
  /\ cli = "write"
  /\ data' = [data EXCEPT ![clifd] = IF Loaded \in State THEN Cleared(Loaded) ELSE Zero]
  /\ cli' = "rename"
  /\ UNCHANGED <<path, tmp, authMu, pc, want, fd, clifd, raced, unlocks, crashes>>

\* The command's state is shorter than the server's: over what a save has written
\* to the same file meanwhile, it leaves a tail.
UnlockWrite ==
  /\ cli = "write"
  /\ data' = [data EXCEPT ![clifd] = IF @ = Empty THEN Zero ELSE Garbage]
  /\ cli' = "rename"
  /\ UNCHANGED <<path, tmp, authMu, pc, want, fd, clifd, raced, unlocks, crashes>>

UnlockRename ==
  /\ cli = "rename"
  /\ Move
  /\ cli' = "idle" /\ clifd' = None
  /\ UNCHANGED <<authMu, pc, want, fd, raced, unlocks, crashes>>

-----------------------------------------------------------------------------

Lapsed(st) == IF st \in State /\ st.until = "ahead" THEN [st EXCEPT !.until = "over"] ELSE st

\* lockdownWindow (15 minutes) passes for every block set so far; no save takes
\* that long.
Lapse ==
  /\ \A h \in Procs : pc[h] \notin {"open", "write", "rename"}
  /\ data' = [i \in Inodes |-> Lapsed(data[i])]
  /\ UNCHANGED <<path, tmp, authMu, pc, want, fd, local, crashes>>

\* The server dies and is started again; the files are as they are.
Crash ==
  /\ crashes < MaxCrashes
  /\ crashes' = crashes + 1
  /\ authMu' = Free
  /\ pc' = [h \in Procs |-> "idle"]
  /\ fd' = [h \in Procs |-> None]
  /\ want' = [h \in Procs |-> Zero]
  /\ UNCHANGED <<files, local>>

-----------------------------------------------------------------------------

Work(h) == Enter(h) \/ Open(h) \/ Write(h) \/ Rename(h) \/ SaveFails(h)

Next ==
  \/ \E h \in Procs : Check(h) \/ Work(h)
  \/ UnlockOpen \/ UnlockWrite \/ UnlockRename
  \/ Lapse
  \/ Crash

Spec == Init /\ [][Next]_vars

\* Goroutines are scheduled, sync.Mutex starves nobody, and time passes.
FairSpec ==
  /\ Spec
  /\ \A h \in Procs : SF_vars(Work(h))
  /\ WF_vars(Lapse)

-----------------------------------------------------------------------------
(* Properties *)

Labels == {"idle", "invalid", "valid", "open", "write", "rename"}

TypeOK ==
  /\ path \in Inodes \cup {None} /\ tmp \in Inodes \cup {None}
  /\ data \in [Inodes -> Contents]
  /\ authMu \in Procs \cup {Free}
  /\ pc \in [Procs -> Labels]
  /\ want \in [Procs -> State]
  /\ fd \in [Procs -> Inodes \cup {None}]
  /\ cli \in {"idle", "write", "rename"} /\ clifd \in Inodes \cup {None}
  /\ raced \in {"never", "earlier", "now"}
  /\ unlocks \in Nat /\ crashes \in Nat

\* Who saves has the lock and, from the open to the rename, a file of its own.
Holding(h) ==
  /\ pc[h] \in {"open", "write", "rename"} <=> authMu = h
  /\ fd[h] # None <=> pc[h] \in {"write", "rename"}

\* The two names never designate one file, and a run of the command that met no
\* save has the temporary file to itself.
Unlocking ==
  /\ path # None => path # tmp
  /\ clifd # None <=> cli # "idle"
  /\ cli # "idle" /\ raced # "now" =>
       /\ authMu = Free /\ clifd = tmp /\ path # clifd
       /\ data[clifd] = IF cli = "write" THEN Empty ELSE Zero

\* Why the file stays whole and counts every attempt as long as no save and no
\* run of the command overlap: who saves has the state that follows from the
\* file's, in a temporary file that is not the lockdown file and is complete
\* before the rename.
Saving(h) ==
  /\ fd[h] # None => fd[h] = tmp
  /\ pc[h] = "rename" => data[tmp] = want[h]
  /\ authMu = h => want[h] \in {Recorded(Loaded), Cleared(Loaded)}

Whole == path # None => data[path] \in State

Quiet == raced = "never" => Whole /\ \A h \in Procs : Saving(h)

IInv == TypeOK /\ Unlocking /\ (\A h \in Procs : Holding(h)) /\ Quiet

\* Unless an unlock overlapped a save, the lockdown file always holds a state
\* that parses: a save that fails or dies half-way leaves the one before.
FileWhole == raced = "never" => Whole

\* An unlock that met no save leaves no attempt, block or lock behind, whatever
\* was there: a torn file of an earlier unlock that did meet one is repaired.
UnlockWorks ==
  [][cli = "rename" /\ cli' = "idle" /\ raced # "now" => path' # None /\ Loaded' = Zero]_vars

\* The requests that passed the check and may still add an attempt.
Late == {h \in Procs : pc[h] = "invalid" \/ (authMu = h /\ want[h].failed # 0)}

\* Once the limit is reached no request passes the check, and each of those that
\* had, but for the one that reached it, adds one.
Counted ==
  raced = "never" /\ Loaded.failed >= Hard =>
    Loaded.locked /\ Loaded.failed + Cardinality(Late) < Hard + Cardinality(Procs)

\* The count does not run past the limit by more than the requests that had
\* passed the check when it was reached, the one that reached it being counted.
Overshoot ==
  raced = "never" => Loaded.failed < Hard + Cardinality(Procs)

\* A block (not a lock) ends, although requests in flight may renew it.
BlockEnds ==
  LET locked == Loaded \in State /\ Loaded.locked IN
  Refuses(Loaded) /\ ~locked ~> ~Refuses(Loaded) \/ locked

\* Until an unlock overlaps a save, the file implements an atomic counter: no
\* attempt is lost to a concurrent one, only the command unlocks, a failed save
\* and a crash change nothing.
Counter == INSTANCE AttemptCounter
  WITH failed <- Loaded.failed, blocked <- (Loaded.until = "ahead"), locked <- Loaded.locked

CounterSpec ==
  /\ Counter!Init
  /\ [][raced' = "never" => /\ [Counter!Next]_(Counter!vars)
                            /\ cli' = cli => [Counter!Served]_(Counter!vars)]_vars

\* The service refuses requests as being in lockdown only after Hard attempts
\* (README.md: "After 10 invalid-token attempts, service enters lockdown mode").
RefusesFromHard == Loaded \in State /\ Refuses(Loaded) => Loaded.failed >= Hard \/ Loaded.locked

\* The lock appears only with the Hard-th attempt since the last unlock or login.
LocksAtHard ==
  [][LET old == Loaded  new == Loaded' IN
     old \in State /\ new \in State /\ ~old.locked /\ new.locked => old.failed + 1 >= Hard]_vars
==============================================================================
