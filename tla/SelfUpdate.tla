------------------------------ MODULE SelfUpdate ------------------------------
(***************************************************************************)
(* SelfUpdate of internal/tool/manager.go: the manager replaces its own     *)
(* installation.  The entries of the installation directory are runtime     *)
(* state (data, backups, tools, ...), which is moved aside into a temporary *)
(* directory and back, and program files, which are removed and copied from *)
(* the release.  Manager.mu is held, so there is one self-update at a time; *)
(* requests that do not take the mutex still create entries meanwhile.      *)
(***************************************************************************)
EXTENDS Naturals

CONSTANTS
  Items,      \* runtimeDirs and runtimeFiles
  Dirs,       \* those of Items that are directories
  Program,    \* the entries of a release
  Server,     \* the entry systemd starts
  Touched,    \* runtime entries other requests create when missing
  BootMade,   \* runtime entries the server creates at its start when missing
  MayFail,    \* the phases that may return an error
  MaxAttempts,  \* httpRetryAttempts
  MaxRuns, MaxCrashes,
  Nothing

Entries == Items \cup Program

\* What is at an entry: the state or program that was there before, the new
\* release's, an empty entry somebody made anew, part of a copy, or nothing.
Contents == {"old", "new", "fresh", "torn", "absent"}

\* What a download leaves: nothing, the part that came before it broke off, all
\* of it, or bytes that are not the release's although no error told so.
Downloads == {"absent", "torn", "wrong", "whole"}

Fetching == {"tag", "asset", "sums"}
Phases == Fetching \cup {"verify", "preserve", "wipe", "install", "restore", "systemctl"}

ASSUME ConstantsAssumption ==
  /\ Dirs \subseteq Items /\ Touched \subseteq Items /\ BootMade \subseteq Items
  /\ Items \cap Program = {}
  /\ Server \in Program
  /\ Nothing \notin Entries
  /\ MayFail \subseteq Phases
  /\ MaxAttempts \in Nat \ {0}
  /\ MaxRuns \in Nat /\ MaxCrashes \in Nat

VARIABLES
  dir,       \* the installation directory
  preserve,  \* the preserve directory under /tmp
  pc,        \* what SelfUpdate does
  asset, sums,  \* the release's archive and its checksums under /tmp
  attempt,   \* how often the present download has been tried
  todo, at,  \* the entries its loop has still to visit, and the one it copies
  up,        \* does the server run?
  running,   \* the release it runs
  owned,     \* the runtime state there was when the self-update began
  failed,    \* has a call of the last self-update returned an error?
  runs, crashes

release == <<asset, sums, attempt>>
outer == <<up, running, owned, failed, runs, crashes>>
rest == <<release, outer>>
vars == <<dir, preserve, pc, todo, at, rest>>

Empty == [i \in Items |-> "absent"]
Present(d) == {e \in DOMAIN d : d[e] # "absent"}

Init ==
  /\ dir = [e \in Entries |-> "old"]
  /\ preserve = Empty
  /\ pc = "idle" /\ todo = {} /\ at = Nothing
  /\ asset = "absent" /\ sums = "absent" /\ attempt = 0
  /\ up = TRUE /\ running = "old"
  /\ owned = {} /\ failed = FALSE
  /\ runs = 0 /\ crashes = 0

-----------------------------------------------------------------------------
(* The phases *)

\* SelfUpdate returns; defer os.RemoveAll(tmpDir) runs.
Return ==
  /\ pc' = "idle" /\ todo' = {} /\ at' = Nothing
  /\ preserve' = Empty
  /\ asset' = "absent" /\ sums' = "absent" /\ attempt' = 0

Begin ==
  /\ up /\ pc = "idle" /\ runs < MaxRuns
  /\ runs' = runs + 1
  /\ owned' = {i \in Items : dir[i] = "old"} /\ failed' = FALSE
  /\ pc' = "tag" /\ attempt' = 1
  /\ UNCHANGED <<dir, preserve, todo, at, asset, sums, up, running, crashes>>

\* latestRelease and downloadFile try again, over what the attempt before left.
Torn ==
  /\ asset' \in IF pc = "asset" THEN {asset, "torn"} ELSE {asset}
  /\ sums' \in IF pc = "sums" THEN {sums, "torn"} ELSE {sums}

\* Defect: after the last attempt it begins again.
RetryForEver ==
  /\ pc \in Fetching
  /\ attempt' = IF attempt < MaxAttempts THEN attempt + 1 ELSE 1
  /\ Torn
  /\ UNCHANGED <<dir, preserve, pc, todo, at, outer>>

Retry ==
  /\ pc \in Fetching /\ attempt < MaxAttempts
  /\ attempt' = attempt + 1
  /\ Torn
  /\ UNCHANGED <<dir, preserve, pc, todo, at, outer>>

\* The tag of the latest release, then its archive, then its checksums.
Fetch ==
  /\ pc \in Fetching
  /\ pc' = CASE pc = "tag" -> "asset" [] pc = "asset" -> "sums" [] OTHER -> "verify"
  /\ attempt' = 1
  /\ asset' \in IF pc = "asset" THEN {"wrong", "whole"} ELSE {asset}
  /\ sums' \in IF pc = "sums" THEN {"wrong", "whole"} ELSE {sums}
  /\ UNCHANGED <<dir, preserve, todo, at, outer>>

\* Defect: the checksums are fetched and not compared.
VerifyNothing ==
  /\ pc = "verify"
  /\ pc' = "preserve" /\ todo' = Items
  /\ UNCHANGED <<dir, preserve, at, rest>>

\* verifyTarChecksum finds the archive's line, and its sum right; or an error.
\* The archive is unpacked into the stage directory.
Verify ==
  /\ pc = "verify"
  /\ IF asset = "whole" /\ sums = "whole"
     THEN /\ pc' = "preserve" /\ todo' = Items
          /\ UNCHANGED <<preserve, at, release>>
     ELSE Return
  /\ UNCHANGED <<dir, outer>>

\* Defect: only the directories are preserved.
PreserveDirs(i) ==
  /\ pc = "preserve" /\ i \in todo
  /\ todo' = todo \ {i}
  /\ IF dir[i] = "absent" \/ i \notin Dirs THEN UNCHANGED <<dir, preserve>>
     ELSE /\ preserve' = [preserve EXCEPT ![i] = dir[i]]
          /\ dir' = [dir EXCEPT ![i] = "absent"]
  /\ UNCHANGED <<pc, at, rest>>

\* preserveRuntimeState: a missing entry is skipped, any other renamed.
Preserve(i) ==
  /\ pc = "preserve" /\ i \in todo
  /\ todo' = todo \ {i}
  /\ IF dir[i] = "absent" THEN UNCHANGED <<dir, preserve>>
     ELSE /\ preserve' = [preserve EXCEPT ![i] = dir[i]]
          /\ dir' = [dir EXCEPT ![i] = "absent"]
  /\ UNCHANGED <<pc, at, rest>>

\* replaceInstallDirWithStage lists the directory, ...
Preserved ==
  /\ pc = "preserve" /\ todo = {}
  /\ pc' = "wipe" /\ todo' = Present(dir)
  /\ UNCHANGED <<dir, preserve, at, rest>>

\* ... removes what it listed, ...
Wipe(e) ==
  /\ pc = "wipe" /\ e \in todo
  /\ todo' = todo \ {e}
  /\ dir' = [dir EXCEPT ![e] = "absent"]
  /\ UNCHANGED <<preserve, pc, at, rest>>

\* ... and copies the release.
Wiped ==
  /\ pc = "wipe" /\ todo = {}
  /\ pc' = "install" /\ todo' = Program
  /\ UNCHANGED <<dir, preserve, at, rest>>

Install(f) ==
  /\ pc = "install" /\ at = Nothing /\ f \in todo
  /\ at' = f
  /\ dir' = [dir EXCEPT ![f] = "torn"]
  /\ UNCHANGED <<preserve, pc, todo, rest>>

Installed ==
  /\ pc = "install" /\ at # Nothing
  /\ dir' = [dir EXCEPT ![at] = IF asset = "whole" THEN "new" ELSE "torn"]
  /\ todo' = todo \ {at} /\ at' = Nothing
  /\ UNCHANGED <<preserve, pc, rest>>

\* restoreRuntimeState lists what was preserved.
StartRestore ==
  /\ pc = "install" /\ todo = {}
  /\ pc' = "restore" /\ todo' = Present(preserve)
  /\ UNCHANGED <<dir, preserve, at, rest>>

\* Rename fails onto a directory that exists; a file is replaced.
Renames(i) == dir[i] = "absent" \/ i \notin Dirs

\* Defect: an entry that is there again is taken for the preserved one.
RestoreMissing(i) ==
  /\ pc = "restore" /\ at = Nothing /\ i \in todo
  /\ IF dir[i] = "absent"
     THEN dir' = [dir EXCEPT ![i] = preserve[i]]
     ELSE UNCHANGED dir
  /\ preserve' = [preserve EXCEPT ![i] = "absent"]
  /\ todo' = todo \ {i}
  /\ UNCHANGED <<pc, at, rest>>

\* Defect: without the fallback to copyPath the phase ends in an error.
RestoreByRename(i) ==
  /\ pc = "restore" /\ at = Nothing /\ i \in todo
  /\ IF Renames(i)
     THEN /\ dir' = [dir EXCEPT ![i] = preserve[i]]
          /\ preserve' = [preserve EXCEPT ![i] = "absent"]
          /\ todo' = todo \ {i} /\ UNCHANGED <<pc, at, release>>
     ELSE Return /\ UNCHANGED dir
  /\ UNCHANGED outer

Restore(i) ==
  /\ pc = "restore" /\ at = Nothing /\ i \in todo
  /\ IF Renames(i)
     THEN /\ dir' = [dir EXCEPT ![i] = preserve[i]]
          /\ preserve' = [preserve EXCEPT ![i] = "absent"]
          /\ todo' = todo \ {i} /\ UNCHANGED at
     ELSE /\ dir' = [dir EXCEPT ![i] = "torn"]
          /\ at' = i /\ UNCHANGED <<preserve, todo>>
  /\ UNCHANGED <<pc, rest>>

\* copyPath over what is there, then os.RemoveAll(src).
Merged ==
  /\ pc = "restore" /\ at # Nothing
  /\ dir' = [dir EXCEPT ![at] = preserve[at]]
  /\ preserve' = [preserve EXCEPT ![at] = "absent"]
  /\ todo' = todo \ {at} /\ at' = Nothing
  /\ UNCHANGED <<pc, rest>>

AllRestored ==
  /\ pc = "restore" /\ todo = {}
  /\ pc' = "systemctl"
  /\ UNCHANGED <<dir, preserve, todo, at, rest>>

\* systemctl daemon-reload and restart: the server is killed with SelfUpdate in it.
Restart ==
  /\ pc = "systemctl"
  /\ Return
  /\ up' = FALSE
  /\ UNCHANGED <<dir, running, owned, failed, runs, crashes>>

\* A phase returns its error; os.RemoveAll may have removed part of an entry.
Fail ==
  /\ pc \in MayFail
  /\ Return
  /\ \/ UNCHANGED dir
     \/ pc = "wipe" /\ \E e \in todo : dir' = [dir EXCEPT ![e] = "torn"]
  /\ failed' = TRUE
  /\ UNCHANGED <<up, running, owned, runs, crashes>>

-----------------------------------------------------------------------------
(* What happens around it *)

\* An unlocked request (a start, a log line, a failed login) makes an entry.
Touch(i) ==
  /\ up /\ i \in Touched /\ dir[i] = "absent"
  /\ dir' = [dir EXCEPT ![i] = "fresh"]
  /\ UNCHANGED <<preserve, pc, todo, at, rest>>

\* systemd starts the server (Restart=always); main makes its directories and
\* New the session secret.
Boot ==
  /\ ~up /\ dir[Server] \in {"old", "new"}
  /\ up' = TRUE /\ running' = dir[Server]
  /\ dir' = [e \in Entries |-> IF e \in BootMade /\ dir[e] = "absent" THEN "fresh" ELSE dir[e]]
  /\ UNCHANGED <<preserve, pc, todo, at, release, owned, failed, runs, crashes>>

\* The server dies: the preserve directory stays in /tmp, where nothing looks
\* for it.
Crash ==
  /\ up /\ crashes < MaxCrashes
  /\ crashes' = crashes + 1
  /\ up' = FALSE
  /\ Return
  /\ UNCHANGED <<dir, running, owned, failed, runs>>

-----------------------------------------------------------------------------

Step ==
  \/ Retry \/ Fetch \/ Verify \/ Preserved \/ Wiped \/ Installed \/ StartRestore
  \/ Merged \/ AllRestored \/ Restart \/ Fail
  \/ \E e \in Entries : Preserve(e) \/ Wipe(e) \/ Install(e) \/ Restore(e)

Next == Begin \/ Step \/ Boot \/ Crash \/ \E i \in Items : Touch(i)

Spec == Init /\ [][Next]_vars

\* Transfers, tar and systemctl have timeouts; systemd restarts the server.
FairSpec == Spec /\ WF_vars(Step) /\ WF_vars(Boot)

-----------------------------------------------------------------------------
(* Properties *)

TypeOK ==
  /\ dir \in [Entries -> Contents]
  /\ preserve \in [Items -> Contents]
  /\ pc \in Phases \cup {"idle"}
  /\ asset \in Downloads /\ sums \in Downloads /\ attempt \in Nat
  /\ todo \subseteq Entries /\ at \in Entries \cup {Nothing}
  /\ up \in BOOLEAN /\ running \in {"old", "new"}
  /\ owned \subseteq Items /\ failed \in BOOLEAN
  /\ runs \in Nat /\ crashes \in Nat

\* As long as a self-update is under way, every piece of runtime state it found
\* is whole in the installation or in the preserve directory, although other
\* requests make some of the entries anew: the next phase can always save it.
StateSurvives ==
  pc # "idle" => \A i \in owned : dir[i] = "old" \/ preserve[i] = "old"

\* When systemd is told to restart the server, all runtime state is back in
\* place and the program is the new release's, none of it left from the old, and
\* none of it from a transfer that broke off or brought something else.
BackInPlace ==
  pc = "systemctl" =>
    /\ \A i \in owned : dir[i] = "old"
    /\ \A f \in Program : dir[f] = "new"

\* Once the release is in place, the self-update ends with the new release
\* running, whatever entries are made anew while it works and whenever the
\* server dies, unless copying an entry back or systemctl returns an error: the
\* restore cannot stop at an entry that exists again.
UpdateTakesEffect == pc = "restore" ~> (up /\ running = "new") \/ failed

\* A self-update ends, and with it the hold on Manager.mu: each download gives up
\* after some attempts, and no phase waits for another request.
SelfUpdateEnds == pc # "idle" ~> pc = "idle"

\* The runtime state is in place whenever no self-update is under way
\* (README.md: "Self-update now preserves runtime state before replacing
\* application files").
RuntimeKept == pc = "idle" => \A i \in Items : dir[i] = "old"

-----------------------------------------------------------------------------
(* The inductive invariant *)

\* Where each piece of runtime state is, phase by phase.
Whereabouts ==
  \A i \in owned :
    /\ pc \in Fetching \cup {"verify"} => dir[i] = "old"
    /\ pc = "preserve" => IF i \in todo THEN dir[i] = "old" ELSE preserve[i] = "old"
    /\ pc \in {"wipe", "install"} => preserve[i] = "old"
    /\ pc = "restore" => IF i \in todo THEN preserve[i] = "old" ELSE dir[i] = "old"
    /\ pc = "systemctl" => dir[i] = "old"

\* The new release is complete before anything is restored.
Released ==
  /\ pc \in Phases \ (Fetching \cup {"verify"}) => asset = "whole"
  /\ pc = "install" => \A f \in Program \ todo : dir[f] = "new"
  /\ pc \in {"restore", "systemctl"} => \A f \in Program : dir[f] = "new"

\* What the loops range over.
Loops ==
  /\ pc = "preserve" => todo \subseteq Items
  /\ pc = "install" => todo \subseteq Program
  /\ pc = "restore" => todo \subseteq Items
  /\ pc \notin {"install", "restore"} => at = Nothing
  /\ at # Nothing => at \in todo

IInv == TypeOK /\ Whereabouts /\ Released /\ Loops
==============================================================================
