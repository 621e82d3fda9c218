------------------------------ MODULE Installer ------------------------------
(***************************************************************************)
(* scripts/install.sh run on a machine that may have an installation: it    *)
(* stops the service, moves runtime state aside, removes the rest, makes    *)
(* directories, copies the release, moves the state back and starts the     *)
(* service.  Every run has a TMP_DIR of its own, deleted at the end of a    *)
(* run that succeeds and only then (set -e).  The stop is "|| true": the    *)
(* server may go on and make entries anew while the script works.           *)
(*                                                                          *)
(* An entry is the sequence of what lies in it: mv of a directory d onto an *)
(* existing directory d makes d/d, so <<"fresh", "state">> is a new         *)
(* directory with the old one inside, and << >> is no entry.                *)
(***************************************************************************)
EXTENDS Naturals, SequencesExt

CONSTANTS
  Dirs, Files,  \* data backups tools logs configs; .token .lockdown.json .session-secret
  Made,         \* the directories mkdir -p makes
  Touched,      \* the entries a running server makes when missing
  MaxRuns

Items == Dirs \cup Files
Runs  == 1..MaxRuns

ASSUME InstallerAssumption ==
  /\ Dirs \cap Files = {}
  /\ Made \subseteq Dirs /\ Touched \subseteq Items
  /\ MaxRuns \in Nat

VARIABLES
  dir,       \* INSTALL_DIR: item -> what lies in it
  program,   \* the release's files in it: "absent", "torn", "old", "new"
  existing,  \* does INSTALL_DIR or the unit file exist?
  aside,     \* run -> its PRESERVE_DIR
  up,        \* does the service run?
  pc, todo,  \* the script's phase, and what its loop has still to visit
  run,       \* the number of the run
  owned      \* the items there was state in at first

vars == <<dir, program, existing, aside, up, pc, todo, run, owned>>

NoItem == << >>
Holds(e) == "state" \in ToSet(e)

Init ==
  /\ owned \in SUBSET Items
  /\ dir = [i \in Items |-> IF i \in owned THEN <<"state">> ELSE NoItem]
  /\ program \in IF owned = {} THEN {"absent", "old"} ELSE {"old"}
  /\ existing = (program = "old")
  /\ up \in IF existing THEN BOOLEAN ELSE {FALSE}
  /\ aside = [r \in Runs |-> [i \in Items |-> NoItem]]
  /\ pc = "idle" /\ todo = {} /\ run = 0

-----------------------------------------------------------------------------

Begin ==
  /\ pc = "idle" /\ run < MaxRuns
  /\ run' = run + 1
  /\ pc' = "fetch"
  /\ UNCHANGED <<dir, program, existing, aside, up, todo, owned>>

\* Release and checksum; the service still runs.
Fetch ==
  /\ pc = "fetch"
  /\ pc' = IF existing THEN "stop" ELSE "make"
  /\ UNCHANGED <<dir, program, existing, aside, up, todo, run, owned>>

\* systemctl stop || true
Stop ==
  /\ pc = "stop"
  /\ up' \in {FALSE, up}
  /\ pc' = "preserve" /\ todo' = Items
  /\ UNCHANGED <<dir, program, existing, aside, run, owned>>

\* Defect: auth and session files are not preserved.
PreserveDirs(i) ==
  /\ pc = "preserve" /\ i \in todo
  /\ todo' = todo \ {i}
  /\ aside' = [aside EXCEPT ![run][i] = IF i \in Dirs THEN dir[i] ELSE NoItem]
  /\ dir' = [dir EXCEPT ![i] = IF i \in Dirs THEN NoItem ELSE @]
  /\ UNCHANGED <<program, existing, up, pc, run, owned>>

\* mv INSTALL_DIR/i PRESERVE_DIR/i, if it is there.
Preserve(i) ==
  /\ pc = "preserve" /\ i \in todo
  /\ todo' = todo \ {i}
  /\ aside' = [aside EXCEPT ![run][i] = dir[i]]
  /\ dir' = [dir EXCEPT ![i] = NoItem]
  /\ UNCHANGED <<program, existing, up, pc, run, owned>>

\* find INSTALL_DIR -exec rm -rf, whatever was made anew included.
Wipe ==
  /\ pc = "preserve" /\ todo = {}
  /\ dir' = [i \in Items |-> NoItem]
  /\ program' = "absent"
  /\ pc' = "make"
  /\ UNCHANGED <<existing, aside, up, todo, run, owned>>

\* ensure_pm2_prereqs, then mkdir -p.
Make ==
  /\ pc = "make"
  /\ dir' = [i \in Items |-> IF i \in Made /\ dir[i] = NoItem THEN <<"fresh">> ELSE dir[i]]
  /\ existing' = TRUE
  /\ pc' = "copy"
  /\ UNCHANGED <<program, aside, up, todo, run, owned>>

\* tar, cp -a, chmod and the service file.
Copy ==
  /\ pc = "copy"
  /\ program' = "new"
  /\ pc' = "restore" /\ todo' = {i \in Items : aside[run][i] # NoItem}
  /\ UNCHANGED <<dir, existing, aside, up, run, owned>>

\* Defect: mv -n; an entry that is there is left alone.
RestoreMissing(i) ==
  /\ pc = "restore" /\ i \in todo
  /\ todo' = todo \ {i}
  /\ dir' = [dir EXCEPT ![i] = IF @ = NoItem THEN aside[run][i] ELSE @]
  /\ UNCHANGED <<program, existing, aside, up, pc, run, owned>>

\* mv PRESERVE_DIR/i INSTALL_DIR/i: over a file, into a directory.
Restore(i) ==
  /\ pc = "restore" /\ i \in todo
  /\ todo' = todo \ {i}
  /\ dir' = [dir EXCEPT ![i] = IF i \in Dirs THEN @ \o aside[run][i] ELSE aside[run][i]]
  /\ aside' = [aside EXCEPT ![run][i] = NoItem]
  /\ UNCHANGED <<program, existing, up, pc, run, owned>>

\* daemon-reload, enable, restart.
Start ==
  /\ pc = "restore" /\ todo = {}
  /\ up' = TRUE
  /\ pc' = "finish"
  /\ UNCHANGED <<dir, program, existing, aside, todo, run, owned>>

\* Links, the log, and rm -rf TMP_DIR.
Finish ==
  /\ pc = "finish"
  /\ aside' = [aside EXCEPT ![run] = [i \in Items |-> NoItem]]
  /\ pc' = "idle"
  /\ UNCHANGED <<dir, program, existing, up, todo, run, owned>>

\* What a command that broke off leaves: removal and copy may be half done.
Broken == IF pc \in {"preserve", "copy"} /\ todo = {} THEN {program, "torn"} ELSE {program}

\* Defect: the trap removes TMP_DIR whatever the exit code is.
FailCleaning ==
  /\ pc # "idle"
  /\ program' \in Broken
  /\ aside' = [aside EXCEPT ![run] = [i \in Items |-> NoItem]]
  /\ pc' = "idle" /\ todo' = {}
  /\ UNCHANGED <<dir, existing, up, run, owned>>

\* A command fails, or the script is killed: the trap only writes a log line.
Fail ==
  /\ pc # "idle"
  /\ program' \in Broken
  /\ pc' = "idle" /\ todo' = {}
  /\ UNCHANGED <<dir, existing, aside, up, run, owned>>

\* A server that runs makes what it misses.
Touch(i) ==
  /\ up /\ i \in Touched /\ dir[i] = NoItem
  /\ dir' = [dir EXCEPT ![i] = <<"fresh">>]
  /\ UNCHANGED <<program, existing, aside, up, pc, todo, run, owned>>

Next ==
  \/ Begin \/ Fetch \/ Stop \/ Wipe \/ Make \/ Copy \/ Start \/ Finish \/ Fail
  \/ \E i \in Items : Preserve(i) \/ Restore(i) \/ Touch(i)

Spec == Init /\ [][Next]_vars

-----------------------------------------------------------------------------
(* Properties *)

TypeOK ==
  /\ dir \in [Items -> Seq({"state", "fresh"})]
  /\ program \in {"absent", "torn", "old", "new"}
  /\ existing \in BOOLEAN /\ up \in BOOLEAN
  /\ aside \in [Runs -> [Items -> Seq({"state", "fresh"})]]
  /\ pc \in {"idle", "fetch", "stop", "preserve", "make", "copy", "restore", "finish"}
  /\ todo \subseteq Items /\ owned \subseteq Items
  /\ run \in Nat

\* However often the script is run, whatever fails and whatever a server that
\* would not stop makes anew, no runtime state is ever deleted: it is in the
\* installation, or in the PRESERVE_DIR of some run.
NothingDeleted ==
  \A i \in owned : Holds(dir[i]) \/ \E r \in Runs : Holds(aside[r][i])

\* When the service is started all state this run set aside is under
\* INSTALL_DIR again, files at their own place, and the program is complete.
StartsWithState ==
  pc = "finish" =>
    /\ program = "new"
    /\ \A i \in owned :
         (\A r \in 1..(run - 1) : ~Holds(aside[r][i])) =>
           Holds(dir[i]) /\ (i \in Files => dir[i] = <<"state">>)

\* A run that ends well has put the directories it set aside back where the
\* server looks for them (install.sh: "preserve runtime state (data, backups,
\* tools, logs, auth/session files)").
StateInPlace ==
  pc = "finish" =>
    \A i \in owned : (\A r \in 1..(run - 1) : ~Holds(aside[r][i])) => Head(dir[i]) = "state"

-----------------------------------------------------------------------------
(* The inductive invariant *)

\* The runs to come have set nothing aside, and the current one no item its
\* loop has not reached.
Ahead ==
  /\ pc # "idle" => run \in Runs
  /\ \A r \in Runs, i \in Items :
       /\ r > run => aside[r][i] = NoItem
       /\ r = run /\ (pc \in {"fetch", "stop"} \/ (pc = "preserve" /\ i \in todo)) => aside[r][i] = NoItem
       /\ r = run /\ (pc = "finish" \/ (pc = "restore" /\ i \notin todo)) => aside[r][i] = NoItem

\* Nothing is left where the script removes or overwrites.
Cleared ==
  \A i \in Items :
    Holds(dir[i]) =>
      /\ pc \notin {"make", "copy"}
      /\ pc = "preserve" => i \in todo
      /\ pc = "restore" => i \notin todo

\* State there was none of does not appear; a file is one or none.
Plain ==
  /\ ~existing => owned = {}
  /\ \A i \in Items \ owned : ~Holds(dir[i]) /\ \A r \in Runs : ~Holds(aside[r][i])
  /\ \A f \in Files : \A e \in {dir[f]} \cup {aside[r][f] : r \in Runs} :
       e \in {NoItem, <<"state">>, <<"fresh">>}

IInv ==
  /\ TypeOK /\ NothingDeleted /\ Ahead /\ Cleared /\ Plain
  /\ pc \in {"restore", "finish"} => program = "new"
==============================================================================
