----------------------------- MODULE ToolRegistry -----------------------------
(***************************************************************************)
(* What the manager promises about what it keeps of a tool, with no thread, *)
(* no mutex, no file transfer and no crash: a tool is registered or not;    *)
(* only a registered tool owns backups and history; short of the tool's     *)
(* removal the newest Keep backups survive whatever happens (but a backup   *)
(* of the same second replaces the last), the surplus goes newest first;    *)
(* a tool leaves only when nothing of it is left, and until then a removal  *)
(* may be given up.                                                         *)
(***************************************************************************)
EXTENDS Naturals, Sequences

CONSTANTS
  Names, Slugs, SlugOf, Rows, NoRow,
  Saves,    \* what a backup may hold
  Nothing,  \* a backup without its binary
  Keep      \* the backups kept

VARIABLES
  rows,    \* name -> its configuration, or NoRow
  snaps,   \* folder -> the backups, oldest first
  hist,    \* name -> number of history records
  leaving  \* the names whose removal is under way

vars == <<rows, snaps, hist, leaving>>

Owner(n, s) == rows[n] # NoRow /\ SlugOf[n] = s

Init ==
  /\ rows \in [Names -> Rows \cup {NoRow}]
  /\ \A m, n \in Names : rows[m] # NoRow /\ Owner(n, SlugOf[m]) => m = n
  /\ snaps = [s \in Slugs |-> <<>>]
  /\ hist = [n \in Names |-> 0]
  /\ leaving = {}

\* A new tool gets a folder no other tool has.
Register(n, r) ==
  /\ \A m \in Names : ~Owner(m, SlugOf[n])
  /\ rows' = [rows EXCEPT ![n] = r]
  /\ UNCHANGED <<snaps, hist, leaving>>

Reconfigure(n, r) ==
  /\ rows[n] # NoRow
  /\ rows' = [rows EXCEPT ![n] = r]
  /\ UNCHANGED <<snaps, hist, leaving>>

\* A backup is added, or replaces the one taken within the same second.
Snapshot(n, c) ==
  /\ rows[n] # NoRow /\ n \notin leaving
  /\ LET s == SlugOf[n] IN
     \/ snaps' = [snaps EXCEPT ![s] = Append(@, c)]
     \/ /\ snaps[s] # <<>>
        /\ snaps' = [snaps EXCEPT ![s] = [@ EXCEPT ![Len(@)] = c]]
  /\ UNCHANGED <<rows, hist, leaving>>

Newest(bs) == SubSeq(bs, Len(bs) - Keep + 1, Len(bs))

\* Of the surplus only the i oldest backups are left.
Discard(n, i) ==
  /\ rows[n] # NoRow /\ n \notin leaving
  /\ LET bs == snaps[SlugOf[n]] IN
     /\ i + Keep < Len(bs)
     /\ snaps' = [snaps EXCEPT ![SlugOf[n]] = SubSeq(bs, 1, i) \o Newest(bs)]
  /\ UNCHANGED <<rows, hist, leaving>>

\* The next one is left too, but half removed: it counts as the newest now.
Spoil(n, i) ==
  /\ rows[n] # NoRow /\ n \notin leaving
  /\ LET bs == snaps[SlugOf[n]] IN
     /\ i + Keep < Len(bs)
     /\ \E c \in {bs[i + 1], Nothing} :
          snaps' = [snaps EXCEPT ![SlugOf[n]] = SubSeq(bs, 1, i) \o Newest(bs) \o <<c>>]
  /\ UNCHANGED <<rows, hist, leaving>>

RecordVersion(n) ==
  /\ rows[n] # NoRow /\ n \notin leaving
  /\ hist' = [hist EXCEPT ![n] = @ + 1]
  /\ UNCHANGED <<rows, snaps, leaving>>

BeginRemoval(n) ==
  /\ rows[n] # NoRow /\ leaving = {}
  /\ leaving' = {n}
  /\ UNCHANGED <<rows, snaps, hist>>

\* A removal leaves some of the backups, with or without their binaries.
Lose(n) ==
  /\ n \in leaving
  /\ LET old == snaps[SlugOf[n]] IN
     \E k \in 0..Len(old) :
       \E bs \in [1..k -> {old[i] : i \in 1..Len(old)} \cup {Nothing}] :
         snaps' = [snaps EXCEPT ![SlugOf[n]] = bs]
  /\ leaving' \in {{}, {n}}
  /\ UNCHANGED <<rows, hist>>

GiveUp(n) ==
  /\ n \in leaving
  /\ leaving' = {}
  /\ UNCHANGED <<rows, snaps, hist>>

ForgetVersions(n) ==
  /\ n \in leaving /\ snaps[SlugOf[n]] = <<>>
  /\ hist' = [hist EXCEPT ![n] = 0]
  /\ UNCHANGED <<rows, snaps, leaving>>

Remove(n) ==
  /\ n \in leaving /\ snaps[SlugOf[n]] = <<>> /\ hist[n] = 0
  /\ rows' = [rows EXCEPT ![n] = NoRow]
  /\ leaving' = {}
  /\ UNCHANGED <<snaps, hist>>

Next ==
  \E n \in Names :
    \/ \E r \in Rows : Register(n, r) \/ Reconfigure(n, r)
    \/ \E c \in Saves : Snapshot(n, c)
    \/ \E i \in 0..Len(snaps[SlugOf[n]]) : Discard(n, i) \/ Spoil(n, i)
    \/ RecordVersion(n)
    \/ BeginRemoval(n) \/ Lose(n) \/ GiveUp(n) \/ ForgetVersions(n) \/ Remove(n)

Spec == Init /\ [][Next]_vars
==============================================================================
