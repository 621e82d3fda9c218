---------------------------- MODULE UpdateHistory ----------------------------
(***************************************************************************)
(* ToolManager with a history variable: which requests a rival has          *)
(* overlapped.  Start, Stop, Restart and Status do not take Manager.mu, so   *)
(* they run beside an update or a rollback of the same tool.  A rival is one *)
(* of them that is not only restarting what the update installs: it writes   *)
(* the folder, or is about to start another executable of it.  What an       *)
(* update promises holds of those no rival has overlapped, however many      *)
(* other requests there are.                                                *)
(***************************************************************************)
EXTENDS ToolManager

VARIABLE raced  \* the requests under way that a rival has overlapped

hvars == <<vars, raced>>

\* The labels at which a thread writes into the folder or may go on to, ...
Writing == {"get", "open", "transfer", "unpacking", "migrating"}

\* ... and those that lead to pm2 start.
Starting == {"inspect", "pstop", "pdelete", "pstart"}

Rival(t, u) ==
  /\ u # t /\ pc[u] \in Writing \cup Starting /\ Slug(u) = Slug(t)
  /\ pc[u] \in Writing \/ Target(u).bin # Target(t).bin

\* From the read of its row (for a registration, from the mutex) to its return.
UnderWay(t) == pc[t] \notin {"idle", "lock", "read"}

HInit == Init /\ raced = {}

HNext ==
  /\ Next
  /\ raced' = {t \in Threads : UnderWay(t)' /\ (t \in raced \/ \E u \in Threads : Rival(t, u)')}

HSpec == HInit /\ [][HNext]_hvars

Undisturbed(t) == UnderWay(t) /\ t \notin raced

-----------------------------------------------------------------------------
(* Properties *)

\* While an update downloads, the newest backup is the binary it is about to
\* replace: nothing slips in between backupToolFiles and downloadBinary, and no
\* failed attempt touches the old binary.
SnapshotHeld ==
  \A t \in Threads :
    Undisturbed(t) /\ pc[t] \in {"get", "open", "transfer"} /\ job[t].saved
      => /\ backups[Slug(t)] # <<>>
         /\ Last(backups[Slug(t)]) = files[Slug(t)][job[t].row.bin]
         /\ files[Slug(t)][job[t].row.bin] \in Payloads \cup {Partial}

\* What the last copy or download has written is what the operation installs:
\* not if the archive does not name the binary, and one lies there already.
Installs(t) ==
  /\ job[t].op \in Updating \cup {"Rollback"} /\ job[t].want # Absent
  /\ job[t].op = "Rollback" \/ KindOf[Target(t).url] # "unnamed"

\* An update, configuration or rollback that got as far as pm2 save has put its
\* payload at the tool's path, and a process PM2 has under the name runs that
\* payload, not the one replaced: no Start or Restart beside it, however timed,
\* leaves the old one up.
SuccessInstalls ==
  \A t \in Threads :
    Undisturbed(t) /\ pc[t] \in {"save", "trim", "record"} /\ Installs(t)
      => /\ files[Slug(t)][Target(t).bin] = job[t].want
         /\ pm2[job[t].name] # NotManaged => pm2[job[t].name].img = job[t].want

-----------------------------------------------------------------------------
(* The inductive invariant *)

\* Whoever has a rival now has been overlapped.
RacedKnown == \A t \in Threads :
  UnderWay(t) /\ (\E u \in Threads : Rival(t, u)) => t \in raced

\* What is being written is written by a thread at a step that writes, in its
\* own folder; a temporary name is its writer's.
Owned == \A s \in Slugs, b \in Bins, u \in Threads :
  /\ files[s][b] = u => pc[u] \in {"transfer", "unpacking", "restoring", "migrating"} /\ Slug(u) = s
  /\ tmp[s][b] = u => pc[u] = "transfer" /\ Slug(u) = s /\ b = Fetched(u).bin

\* Only an update or a rollback has its backup, from the step that takes it on.
Backed == \A t \in Threads : pc[t] # "idle" /\ job[t].saved =>
  /\ job[t].op \in Updating \cup {"Rollback"}
  /\ pc[t] \notin {"lock", "read", "migrate", "migrating", "persist", "rewrite", "select", "ensure"}

\* A thread knows what it writes; a rollback has written nothing before it
\* restores.
WantKnown == \A t \in Threads :
  /\ pc[t] \in {"transfer", "unpacking", "restoring", "migrating"} => job[t].want # Absent
  /\ pc[t] \in {"lock", "read", "migrate", "persist", "select", "backup", "halt", "restore"}
       /\ job[t].op = "Rollback" => job[t].want = Absent

\* An update found the binary it is to back up, and nothing but a cleanup
\* removes one.
Present == \A t \in Threads : pc[t] # "idle" /\ job[t].op \in Updating =>
  /\ pc[t] = "backup" \/ (job[t].saved /\ pc[t] \in {"get", "open", "transfer"})
       => files[Slug(t)][job[t].row.bin] # Absent
  /\ pc[t] = "unpacking" => files[Slug(t)][Fetched(t).bin] # Absent

\* Undisturbed, what an update or rollback writes is found under the name it
\* wrote it to.
Holding == \A t \in Threads : Undisturbed(t) /\ job[t].op \in Updating \cup {"Rollback"} =>
  /\ pc[t] = "transfer" => tmp[Slug(t)][Fetched(t).bin] = t
  /\ pc[t] = "unpacking" => files[Slug(t)][Fetched(t).bin] = t
  /\ pc[t] = "restoring" => files[Slug(t)][Target(t).bin] = t

\* Once installed, it stays, ...
Installed == \A t \in Threads :
  Undisturbed(t) /\ Installs(t) /\ pc[t] \in Starting \cup {"wait", "save", "trim", "record"}
    => files[Slug(t)][Target(t).bin] = job[t].want

\* ... and once the old process is gone, none but the new one is started.
Started == \A t \in Threads :
  Undisturbed(t) /\ Installs(t) /\ pc[t] \in {"pstart", "wait", "save", "trim", "record"}
    /\ pm2[job[t].name] # NotManaged
    => pm2[job[t].name].img = job[t].want

HInv ==
  /\ IInv /\ raced \subseteq Threads
  /\ RacedKnown /\ Owned /\ Backed /\ WantKnown /\ Present /\ Holding /\ SnapshotHeld
  /\ Installed /\ Started
==============================================================================
