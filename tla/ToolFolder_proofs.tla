-------------------------- MODULE ToolFolder_proofs --------------------------
(***************************************************************************)
(* For every folder, archive and number of backups, failures and edits: a   *)
(* rollback gives back what was saved, no operation loses the last whole    *)
(* executable, and the best executable of an archive is chosen.             *)
(***************************************************************************)
EXTENDS ToolFolder, TLAPS

LEMMA Positive ==
  /\ Positions \subseteq Nat \ {0} /\ 1 \in Positions /\ Bin \in Protected
  /\ Protected \subseteq Files /\ Bin \in Files
  /\ \A n \in Nat \ {0} : n <= Len(Order) => n \in Positions /\ Order[n] \in Protected
  /\ \A i \in Positions : i <= Len(Order) /\ Order[i] \in Protected
BY FolderAssumption DEF Positions, Protected, Bin

LEMMA Distinct == /\ None \notin Data /\ Torn \notin Data /\ Any \notin Data
                  /\ None # Torn /\ None # Any /\ Torn # Any
BY FolderAssumption

THEOREM InitIInv == Init => IInv
BY Positive, FolderAssumption
   DEF Init, IInv, TypeOK, Ordered, CopiesTrue, BinSaved, GivingBack, Choosing, Nothing, Steps, Cells, Stamps

\* A backup is begun: an update's and a rollback's alike.
LEMMA BackupBegun ==
  ASSUME IInv, pc # "backup", BeginBackup, UNCHANGED <<folder, list, best, touched, edits, breaks>>,
         op' \in {"update", "rollback"}, pick' \in Nat, op' = "rollback" => pick' \in taken
  PROVE  IInv'
<1> USE Positive, Distinct DEF IInv, BeginBackup, Goto, Stamps
<1>1. /\ pc' = "backup" /\ at' = 1 /\ clock' = clock + 1 /\ clock \in Nat /\ clock + 1 \in Stamps
      /\ taken' = taken \cup {clock + 1} /\ taken \subseteq 1 .. clock /\ clock + 1 \notin taken
      /\ folder' = folder
  BY FolderAssumption DEF TypeOK
<1>2. /\ copy'[clock + 1] = Nothing /\ was'[clock + 1] = [f \in Protected |-> folder[f]]
      /\ \A s \in taken : copy'[s] = copy[s] /\ was'[s] = was[s]
  BY <1>1 DEF TypeOK
<1>3. TypeOK'
  <2>1. Nothing \in [Protected -> Cells] /\ [f \in Protected |-> folder[f]] \in [Protected -> Cells \cup {Any}]
    BY DEF TypeOK, Nothing, Cells
  <2>2. copy' \in [Stamps -> [Protected -> Cells]] /\ was' \in [Stamps -> [Protected -> Cells \cup {Any}]]
    BY <2>1 DEF TypeOK
  <2> QED
    BY <1>1, <2>2, FolderAssumption DEF TypeOK, Steps
<1>4. Ordered'
  BY <1>1 DEF Ordered
<1>5. CopiesTrue'
  <2> SUFFICES ASSUME NEW s \in taken', NEW i \in Positions, was'[s][Order[i]] # Any
               PROVE  IF s = clock' /\ i >= 1 THEN folder[Order[i]] = was'[s][Order[i]]
                      ELSE copy'[s][Order[i]] = was'[s][Order[i]]
    BY <1>1 DEF CopiesTrue
  <2>1. CASE s = clock + 1
    BY <1>1, <1>2, <2>1
  <2>2. CASE s \in taken
    <3>1. s # clock + 1
      BY <1>1, <2>2
    <3> QED
      BY <1>1, <1>2, <2>2, <3>1 DEF CopiesTrue
  <2> QED
    BY <1>1, <2>1, <2>2
<1>6. BinSaved'
  BY <1>1, <1>2 DEF BinSaved, Nothing
<1>7. GivingBack' /\ Choosing'
  BY <1>1 DEF GivingBack, Choosing
<1> QED
  BY <1>3, <1>4, <1>5, <1>6, <1>7

\* What the archive has at a place within it.
LEMMA EntryThere ==
  ASSUME IInv, NEW n \in Nat \ {0}, n <= Len(list)
  PROVE  /\ n \in DOMAIN list /\ list[n] \in Entry /\ list[n].file \in Files /\ list[n].data \in Data
         /\ TmpOf[list[n].file] \in Files \ Protected /\ TmpOf[list[n].file] # list[n].file
         /\ list \in Seq(Entry)
<1>1. CASE list = <<>>
  BY <1>1
<1>2. CASE list \in Archives
  <2>1. list \in Seq(Entry) /\ \A i \in DOMAIN list : list[i].file \in DOMAIN TmpOf
    BY <1>2, FolderAssumption
  <2>2. n \in DOMAIN list /\ list[n] \in Entry
    BY <2>1
  <2> QED
    BY <2>1, <2>2, FolderAssumption DEF Entry
<1> QED
  BY <1>1, <1>2 DEF IInv, TypeOK

LEMMA LengthNat == ASSUME TypeOK PROVE Len(list) \in Nat
<1>1. CASE list = <<>>
  BY <1>1
<1>2. CASE list \in Archives
  <2>1. list \in Seq(Entry)
    BY <1>2, FolderAssumption
  <2> QED
    BY <2>1
<1> QED
  BY <1>1, <1>2 DEF TypeOK

LEMMA SaveSafe == ASSUME IInv, Save PROVE IInv'
<1> USE Positive, Distinct DEF IInv, Save, Stamps, others
<1> DEFINE f == Order[at]
<1>1. /\ at \in Positions /\ f \in Protected /\ clock \in Stamps /\ clock \in taken
      /\ copy' = [copy EXCEPT ![clock][f] = folder[f]]
      /\ UNCHANGED <<folder, taken, was, clock, pc, op>>
  BY DEF TypeOK, Ordered
<1>2. /\ copy'[clock][f] = folder[f]
      /\ \A g \in Protected : g # f => copy'[clock][g] = copy[clock][g]
      /\ \A s \in Stamps : s # clock => copy'[s] = copy[s]
  BY <1>1 DEF TypeOK
<1>3. TypeOK'
  <2>1. folder[f] \in Cells
    BY <1>1 DEF TypeOK
  <2>2. copy' \in [Stamps -> [Protected -> Cells]]
    BY <1>1, <2>1 DEF TypeOK
  <2> QED
    BY <2>2 DEF TypeOK
<1>4. Ordered'
  BY DEF Ordered
<1>5. CopiesTrue'
  <2> SUFFICES ASSUME NEW s \in taken, NEW i \in Positions, was[s][Order[i]] # Any
               PROVE  IF s = clock /\ i >= at + 1 THEN folder[Order[i]] = was[s][Order[i]]
                      ELSE copy'[s][Order[i]] = was[s][Order[i]]
    BY DEF CopiesTrue
  <2>1. s \in Stamps /\ i \in Nat /\ at \in Nat
    BY FolderAssumption DEF TypeOK
  <2>2. CASE s # clock
    BY <1>2, <2>1, <2>2 DEF CopiesTrue
  <2>3. CASE s = clock /\ i = at
    BY <1>2, <2>1, <2>3 DEF CopiesTrue
  <2>4. CASE s = clock /\ i # at
    <3>1. Order[i] # f
      BY <1>1, <2>4, FolderAssumption
    <3> QED
      BY <1>2, <2>1, <2>4, <3>1 DEF CopiesTrue
  <2> QED
    BY <2>2, <2>3, <2>4
<1>6. BinSaved'
  <2>1. CASE at = 1
    BY <1>1, <1>2, <2>1 DEF BinSaved, Bin
  <2>2. CASE at # 1
    <3>1. Bin # f
      BY <1>1, <2>2, FolderAssumption DEF Bin
    <3> QED
      BY <1>1, <1>2, <2>2, <3>1 DEF BinSaved, TypeOK
  <2> QED
    BY <2>1, <2>2
<1>7. GivingBack' /\ Choosing'
  BY DEF GivingBack, Choosing
<1> QED
  BY <1>3, <1>4, <1>5, <1>6, <1>7

\* X.tmp is none of the files that are backed up, and the owner leaves the
\* binary's alone.
LEMMA OpenEntrySafe == ASSUME IInv, OpenEntry PROVE IInv'
<1> USE DEF IInv, OpenEntry, backups, others
<1>1. Tmp \in Files \ Protected
  BY EntryThere DEF TypeOK, Tmp
<1>2. folder' \in [Files -> Cells] /\ folder'[Tmp] = Torn /\ \A f \in Protected : folder'[f] = folder[f]
  BY <1>1, Positive DEF TypeOK, Cells
<1>3. TypeOK' /\ Ordered'
  BY <1>2, LengthNat DEF TypeOK, Ordered, Steps
<1>4. BinSaved'
  BY <1>2 DEF BinSaved, Tmp
<1> QED
  BY <1>3, <1>4 DEF CopiesTrue, GivingBack, Choosing

LEMMA ExtractSafe == ASSUME IInv, Extract PROVE IInv'
<1> USE DEF IInv, Extract, backups, others
<1>1. at <= Len(list) /\ list[at].file \in Files /\ list[at].data \in Data /\ Tmp \in Files
  BY EntryThere DEF TypeOK, Ordered, Tmp
<1>2. folder' \in [Files -> Cells]
  BY <1>1 DEF TypeOK, Cells
<1>3. TypeOK'
  BY <1>2 DEF TypeOK, Steps
<1> QED
  BY <1>3 DEF Ordered, CopiesTrue, BinSaved, GivingBack, Choosing

-----------------------------------------------------------------------------
(* The choice of the executable *)

\* A greater sum of points is a better entry by the rules, and an equal one is
\* no better.
LEMMA ScoreRanks ==
  ASSUME NEW d \in Entry, NEW e \in Entry
  PROVE  /\ Score(d) > Score(e) => Better(d, e)
         /\ ~(Score(d) > Score(e)) => ~Better(d, e)
BY DEF Score, Better, Entry

\* Better is transitive, also where one of the two is only not worse.
LEMMA BetterTransitive ==
  ASSUME NEW c \in Entry, NEW d \in Entry, NEW e \in Entry
  PROVE  /\ Better(c, d) /\ Better(d, e) => Better(c, e)
         /\ Better(c, d) /\ ~Better(e, d) => Better(c, e)
BY DEF Better, Entry

LEMMA ScanSafe == ASSUME IInv, Scan PROVE IInv'
<1> USE DEF IInv, Scan, backups, others
<1>1. /\ at \in Nat \ {0} /\ best \in Nat /\ best < at /\ at <= Len(list)
      /\ folder' = folder /\ list' = list /\ touched' = touched /\ at' = at + 1
  BY DEF TypeOK, Choosing
<1>2. \A n \in 1 .. at : n \in DOMAIN list /\ list[n] \in Entry
  BY <1>1, EntryThere, LengthNat
<1>3. best' \in Nat /\ best' < at + 1
  BY <1>1
<1>4. ASSUME NEW i \in 1 .. at, Candidate(list[i]), list[i].file \notin touched, i # best'
      PROVE  /\ best' # 0
             /\ \/ Better(list[best'], list[i])
                \/ best' < i /\ ~Better(list[i], list[best'])
  <2> USE <1>4
  <2>1. CASE best' = at
    <3>1. i < at /\ Candidate(list[at]) /\ (best = 0 \/ Score(list[at]) > Score(list[best]))
      BY <1>1, <2>1
    <3>2. CASE best = 0
      BY <1>1, <3>1, <3>2 DEF Choosing, BestOf
    <3>3. CASE best # 0
      <4>1. Better(list[at], list[best])
        BY <1>1, <1>2, <3>1, <3>3, ScoreRanks
      <4>2. i = best \/ Better(list[best], list[i]) \/ ~Better(list[i], list[best])
        BY <1>1, <3>1 DEF Choosing, BestOf
      <4>3. Better(list[at], list[i])
        BY <1>1, <1>2, <3>3, <4>1, <4>2, BetterTransitive
      <4> QED
        BY <1>1, <2>1, <4>3
    <3> QED
      BY <3>2, <3>3
  <2>2. CASE best' # at
    <3>1. best' = best
      BY <2>2
    <3>2. CASE i < at
      BY <1>1, <3>1, <3>2 DEF Choosing, BestOf
    <3>3. CASE i = at
      <4>1. best # 0 /\ ~(Score(list[at]) > Score(list[best]))
        BY <1>4, <2>2, <3>3
      <4>2. ~Better(list[at], list[best])
        BY <1>1, <1>2, <4>1, ScoreRanks
      <4> QED
        BY <1>1, <3>1, <3>3, <4>1, <4>2
    <3> QED
      BY <1>1, <3>2, <3>3
  <2> QED
    BY <2>1, <2>2
<1>5. Choosing'
  <2>1. at' - 1 = at
    BY <1>1
  <2>2. BestOf(at - 1)'
    BY <1>1, <1>4, <2>1 DEF BestOf, Candidate, Better, IsNamed
  <2> QED
    BY <1>1, <1>3, <2>2 DEF Choosing
<1>6. TypeOK' /\ Ordered'
  BY <1>1, <1>3 DEF TypeOK, Ordered
<1> QED
  BY <1>5, <1>6 DEF CopiesTrue, BinSaved, GivingBack

-----------------------------------------------------------------------------
(* The rest of the steps *)

\* An operation ends, whatever became of the folder outside of the backups.
LEMMA EndSafe ==
  ASSUME IInv, End, folder' \in [Files -> Cells], UNCHANGED <<clock, edits>>, breaks' \in Nat,
         taken' \subseteq taken,
         copy' \in [Stamps -> [Protected -> Cells]],
         was' \in [Stamps -> [Protected -> Cells \cup {Any}]],
         \A s \in taken', f \in Protected : was'[s][f] # Any => copy'[s][f] = was'[s][f]
  PROVE  IInv'
<1> USE DEF IInv, End, Goto
<1>1. TypeOK'
  BY DEF TypeOK, Steps
<1>2. CopiesTrue'
  BY Positive DEF CopiesTrue
<1> QED
  BY <1>1, <1>2 DEF Ordered, BinSaved, GivingBack, Choosing

\* What is complete is true.
LEMMA Complete ==
  ASSUME IInv, NEW s \in taken, NEW f \in Protected, pc # "backup" \/ s # clock, was[s][f] # Any
  PROVE  copy[s][f] = was[s][f]
BY DEF IInv, CopiesTrue, Protected

LEMMA ChooseSafe == ASSUME IInv, Choose PROVE IInv'
<1> USE DEF Choose, backups
<1>1. pc = "scan" /\ at = Len(list) + 1 /\ best < at /\ best \in Nat /\ Len(list) \in Nat
  BY LengthNat DEF IInv, TypeOK, Choosing
<1>2. CASE best = 0 \/ folder[list[best].file] = None
  <2>1. End /\ UNCHANGED <<folder, taken, copy, was, clock, edits, breaks>>
    BY <1>2
  <2>2. folder \in [Files -> Cells] /\ copy \in [Stamps -> [Protected -> Cells]]
        /\ was \in [Stamps -> [Protected -> Cells \cup {Any}]] /\ breaks \in Nat
    BY DEF IInv, TypeOK
  <2> QED
    BY <1>1, <2>1, <2>2, EndSafe, Complete
<1>3. CASE ~(best = 0 \/ folder[list[best].file] = None)
  <2>1. list[best].file \in Files
    BY <1>1, <1>3, EntryThere
  <2>2. folder' \in [Files -> Cells]
    BY <1>3, <2>1, Positive DEF IInv, TypeOK
  <2> QED
    BY <1>1, <1>3, <2>2, Positive, Distinct
    DEF Goto, IInv, TypeOK, Steps, Ordered, CopiesTrue, BinSaved, GivingBack, Choosing
<1> QED
  BY <1>2, <1>3

LEMMA FetchedSafe == ASSUME IInv, Fetched PROVE IInv'
<1> USE DEF Fetched
<1>1. CASE op = "install"
  <2>1. End /\ UNCHANGED <<folder, taken, copy, was, clock, edits, breaks>>
    BY <1>1 DEF backups
  <2>2. folder \in [Files -> Cells] /\ copy \in [Stamps -> [Protected -> Cells]]
        /\ was \in [Stamps -> [Protected -> Cells \cup {Any}]] /\ breaks \in Nat
    BY DEF IInv, TypeOK
  <2> QED
    BY <2>1, <2>2, EndSafe, Complete
<1>2. CASE op = "ensure"
  BY <1>2, BackupBegun DEF IInv, TypeOK
<1>3. CASE op = "update"
  <2>1. /\ pc = "fetched" /\ pc' = "start" /\ at' = 1
        /\ UNCHANGED <<folder, taken, copy, was, clock, op, list, best, pick, touched, edits, breaks>>
    BY <1>3 DEF Goto, backups
  <2>2. TypeOK' /\ Ordered'
    BY <1>3, <2>1 DEF IInv, TypeOK, Ordered, Steps
  <2>3. CopiesTrue' /\ BinSaved' /\ GivingBack' /\ Choosing'
    BY <1>3, <2>1 DEF IInv, CopiesTrue, BinSaved, GivingBack, Choosing
  <2> QED
    BY <2>2, <2>3 DEF IInv
<1> QED
  BY <1>1, <1>2, <1>3

LEMMA ExtractFailsSafe == ASSUME IInv, ExtractFails PROVE IInv'
<1>1. \A s \in taken, f \in Protected : was[s][f] # Any => copy[s][f] = was[s][f]
  BY Complete DEF ExtractFails
<1> QED
  BY <1>1, EndSafe DEF ExtractFails, backups, IInv, TypeOK

\* A trim that goes through, and one that stops between two backups.
LEMMA KeepingSafe ==
  ASSUME IInv, pc = "start", NEW left \in SUBSET taken, Keeping(left), End,
         UNCHANGED <<folder, edits>>, breaks' \in Nat
  PROVE  IInv'
<1>1. /\ taken' = left /\ clock' = clock
      /\ copy' = [s \in Stamps |-> IF s \in left THEN copy[s] ELSE Nothing]
      /\ was' = [s \in Stamps |-> IF s \in left THEN was[s] ELSE Nothing]
  BY DEF Keeping
<1>2. taken \subseteq Stamps
  BY FolderAssumption DEF IInv, TypeOK, Stamps
<1>3. Nothing \in [Protected -> Cells]
  BY DEF Nothing, Cells
<1>4. folder \in [Files -> Cells]
      /\ copy' \in [Stamps -> [Protected -> Cells]]
      /\ was' \in [Stamps -> [Protected -> Cells \cup {Any}]]
  BY <1>1, <1>3 DEF IInv, TypeOK
<1>5. \A s \in taken', f \in Protected : was'[s][f] # Any => copy'[s][f] = was'[s][f]
  BY <1>1, <1>2, Complete
<1> QED
  BY <1>1, <1>4, <1>5, EndSafe

LEMMA StartSafe == ASSUME IInv, Start PROVE IInv'
<1>1. taken \ Surplus \in SUBSET taken /\ breaks' \in Nat
  BY DEF Start, IInv, TypeOK
<1> QED
  BY <1>1, KeepingSafe DEF Start

LEMMA TrimStopsSafe == ASSUME IInv, NEW s \in Surplus, TrimStops(s) PROVE IInv'
<1>1. taken \ {u \in Surplus : u > s} \in SUBSET taken /\ breaks' \in Nat
  BY DEF TrimStops, IInv, TypeOK
<1> QED
  BY <1>1, KeepingSafe DEF TrimStops

\* What is left of a backup that is half removed is what was in it.
LEMMA TrimTearsSafe == ASSUME IInv, NEW s \in Surplus, TrimTears(s) PROVE IInv'
<1> USE DEF TrimTears
<1>1. /\ pc = "start" /\ End /\ folder' = folder /\ edits' = edits /\ breaks' \in Nat
      /\ clock' = clock + 1 /\ clock \in Nat /\ clock + 1 \in Stamps /\ clock' \in 0 .. MaxStamps
      /\ taken' = (taken \ {u \in Surplus : u >= s}) \cup {clock + 1}
  BY FolderAssumption DEF IInv, TypeOK, Stamps
<1>2. s \in taken /\ taken \subseteq Stamps /\ clock + 1 \notin taken /\ taken \subseteq 1 .. clock
  BY <1>1, FolderAssumption DEF Surplus, IInv, TypeOK, Stamps
<1>3. PICK h \in HalfRemoved(copy[s]) :
        /\ copy' = [u \in Stamps |-> IF u = clock' THEN h ELSE IF u \in taken' THEN copy[u] ELSE Nothing]
        /\ was' = [u \in Stamps |->
                     IF u = clock' THEN [f \in Protected |-> IF h[f] = copy[s][f] THEN was[s][f] ELSE Any]
                     ELSE IF u \in taken' THEN was[u] ELSE Nothing]
  OBVIOUS
<1>4. Nothing \in [Protected -> Cells] /\ h \in [Protected -> Cells]
  BY DEF Nothing, Cells, HalfRemoved
<1>5. copy' \in [Stamps -> [Protected -> Cells]]
  BY <1>3, <1>4 DEF IInv, TypeOK
<1>6. was' \in [Stamps -> [Protected -> Cells \cup {Any}]]
  <2>1. [f \in Protected |-> IF h[f] = copy[s][f] THEN was[s][f] ELSE Any] \in [Protected -> Cells \cup {Any}]
    BY <1>2 DEF IInv, TypeOK
  <2> QED
    BY <1>3, <1>4, <2>1 DEF IInv, TypeOK
<1>7. ASSUME NEW u \in taken', NEW f \in Protected, was'[u][f] # Any PROVE copy'[u][f] = was'[u][f]
  <2>1. CASE u = clock + 1
    <3>1. copy'[u][f] = h[f] /\ was'[u][f] = IF h[f] = copy[s][f] THEN was[s][f] ELSE Any
      BY <1>1, <1>3, <2>1
    <3> QED
      BY <1>1, <1>2, <1>7, <3>1, Complete
  <2>2. CASE u # clock + 1
    <3>1. u \in taken /\ copy'[u] = copy[u] /\ was'[u] = was[u]
      BY <1>1, <1>2, <1>3, <2>2
    <3> QED
      BY <1>1, <1>7, <3>1, Complete
  <2> QED
    BY <2>1, <2>2
<1>8. TypeOK'
  <2>1. taken' \subseteq 1 .. clock'
    BY <1>1, <1>2
  <2> QED
    BY <1>1, <1>5, <1>6, <2>1 DEF IInv, TypeOK, End, Goto, Steps
<1>9. CopiesTrue'
  BY <1>1, <1>7, Positive DEF CopiesTrue, End, Goto
<1> QED
  BY <1>1, <1>8, <1>9 DEF IInv, End, Goto, Ordered, BinSaved, GivingBack, Choosing

LEMMA StartFailsSafe == ASSUME IInv, StartFails PROVE IInv'
<1>1. \A s \in taken, f \in Protected : was[s][f] # Any => copy[s][f] = was[s][f]
  BY Complete DEF StartFails
<1> QED
  BY <1>1, EndSafe DEF StartFails, backups, IInv, TypeOK

LEMMA BreakSafe == ASSUME IInv, Break PROVE IInv'
<1> USE Positive DEF Break
<1>1. End /\ UNCHANGED <<taken, clock, edits>> /\ breaks' \in Nat
  BY DEF IInv, TypeOK
<1>2. at <= Len(Order) => Order[at] \in Protected /\ Order[at] \in Files
  BY DEF IInv, TypeOK
<1>3. folder' \in [Files -> Cells]
  <2>1. pc = "extracting" => Tmp \in Files
    BY EntryThere DEF IInv, TypeOK, Ordered, Tmp
  <2> QED
    BY <1>2, <2>1 DEF IInv, TypeOK, Cells
<1>4. copy' \in [Stamps -> [Protected -> Cells]]
  <2>1. \/ copy' = copy
        \/ pc = "backup" /\ at <= Len(Order) /\ copy' = [copy EXCEPT ![clock][Order[at]] = Torn]
    OBVIOUS
  <2>2. pc = "backup" => clock \in Stamps
    BY FolderAssumption DEF IInv, TypeOK, Ordered, Stamps
  <2>3. pc = "backup" /\ at <= Len(Order) => [copy[clock] EXCEPT ![Order[at]] = Torn] \in [Protected -> Cells]
    BY <1>2, <2>2 DEF IInv, TypeOK, Cells
  <2> QED
    BY <2>1, <2>2, <2>3 DEF IInv, TypeOK
<1>5. was' \in [Stamps -> [Protected -> Cells \cup {Any}]]
  BY DEF IInv, TypeOK
<1>6. ASSUME NEW s \in taken, NEW f \in Protected, was'[s][f] # Any PROVE copy'[s][f] = was'[s][f]
  <2>1. s \in Stamps
    BY FolderAssumption DEF IInv, TypeOK, Stamps
  <2>2. CASE pc = "backup"
    <3>1. s # clock
      BY <1>6, <2>1, <2>2 DEF IInv, TypeOK
    <3>2. was'[s] = was[s] /\ copy'[s] = copy[s]
      BY <2>1, <2>2, <3>1 DEF IInv, TypeOK
    <3> QED
      BY <1>6, <3>1, <3>2, Complete
  <2>3. CASE pc # "backup"
    BY <1>6, <2>3, Complete
  <2> QED
    BY <2>2, <2>3
<1> QED
  BY <1>1, <1>3, <1>4, <1>5, <1>6, EndSafe

THEOREM NextIInv == IInv /\ [Next]_vars => IInv'
<1> SUFFICES ASSUME IInv, [Next]_vars PROVE IInv'
  OBVIOUS
<1> USE Positive, Distinct
    DEF IInv, TypeOK, Ordered, CopiesTrue, BinSaved, GivingBack, Choosing, Steps, Cells,
        backups, others, Goto, Tmp
<1>1. CASE Install
  BY <1>1 DEF Install
<1>2. CASE Update
  <2>1. CASE folder[Bin] = None
    <3>1. /\ pc = "idle" /\ pc' = "fetch" /\ op' = "ensure" /\ at' = 1
          /\ UNCHANGED <<folder, taken, copy, was, clock, list, best, pick, touched, edits, breaks>>
      BY <1>2, <2>1 DEF Update
    <3>2. TypeOK' /\ Ordered' /\ CopiesTrue'
      BY <3>1
    <3>3. BinSaved' /\ GivingBack' /\ Choosing'
      BY <3>1
    <3> QED
      BY <3>2, <3>3
  <2>2. CASE folder[Bin] # None
    BY <1>2, <2>2, BackupBegun DEF Update
  <2> QED
    BY <2>1, <2>2
<1>3. CASE Rollback
  BY <1>3, BackupBegun, FolderAssumption DEF Rollback
<1>4. CASE Save
  BY <1>4, SaveSafe
<1>5. CASE Saved
  BY <1>5 DEF Saved
<1>6. CASE FetchBinary
  BY <1>6, FolderAssumption DEF FetchBinary
<1>7. CASE FetchArchive
  BY <1>7, FolderAssumption DEF FetchArchive
<1>8. CASE OpenEntry \/ Extract \/ ExtractFails
  BY <1>8, OpenEntrySafe, ExtractSafe, ExtractFailsSafe
<1>9. CASE TakeExisting
  BY <1>9 DEF TakeExisting
<1>10. CASE BeginScan
  BY <1>10 DEF BeginScan, BestOf
<1>11. CASE Scan
  BY <1>11, ScanSafe
<1>12. CASE Choose
  BY <1>12, ChooseSafe
<1>13. CASE Clean
  <2>1. folder' \in [Files -> Cells] /\ folder'[Bin] = folder[Bin]
    BY <1>13, FolderAssumption DEF Clean
  <2>2. TypeOK' /\ Ordered' /\ BinSaved'
    BY <1>13, <2>1 DEF Clean
  <2> QED
    BY <1>13, <2>2 DEF Clean
<1>14. CASE Fetched
  BY <1>14, FetchedSafe
<1>15. CASE Restore
  <2>1. at \in Positions /\ pick \in taken /\ pick \in Stamps
    BY <1>15, FolderAssumption DEF Restore, Stamps
  <2>2. TypeOK' /\ Ordered' /\ BinSaved' /\ Choosing' /\ CopiesTrue'
    BY <1>15, <2>1 DEF Restore
  <2>3. GivingBack'
    <3>1. /\ op = "rollback" /\ pc = "restore" /\ op' = op /\ pc' = pc /\ at' = at + 1
          /\ UNCHANGED <<was, pick, touched>> /\ at \in Nat
      BY <1>15 DEF Restore
    <3>2. SUFFICES ASSUME NEW i \in Positions, i < at + 1,
                          Order[i] \notin touched, was[pick][Order[i]] \notin {Any, None}
                   PROVE  folder'[Order[i]] = was[pick][Order[i]]
      BY <3>1
    <3>3. copy[pick][Order[i]] = was[pick][Order[i]]
      BY <2>1, <3>1, <3>2, Complete
    <3>4. CASE i = at
      BY <1>15, <3>2, <3>3, <3>4 DEF Restore
    <3>5. CASE i # at
      <4>1. i < at /\ Order[i] # Order[at]
        BY <2>1, <3>1, <3>2, <3>5, FolderAssumption
      <4>2. folder'[Order[i]] = folder[Order[i]]
        BY <1>15, <2>1, <4>1 DEF Restore
      <4> QED
        BY <3>1, <3>2, <4>1, <4>2
    <3> QED
      BY <3>4, <3>5
  <2> QED
    BY <2>2, <2>3
<1>16. CASE Restored
  BY <1>16 DEF Restored
<1>17. CASE Start \/ \E s \in Surplus : TrimStops(s) \/ TrimTears(s)
  BY <1>17, StartSafe, TrimStopsSafe, TrimTearsSafe
<1>18. CASE Break
  BY <1>18, BreakSafe
<1>19. ASSUME NEW f \in Written, Edit(f) PROVE IInv'
  <2>1. was' \in [Stamps -> [Protected -> Cells \cup {Any}]]
    <3>1. CASE pc = "backup" /\ f \in Protected
      <4>1. clock \in Stamps
        BY <3>1, FolderAssumption DEF Stamps
      <4>2. [was[clock] EXCEPT ![f] = Any] \in [Protected -> Cells \cup {Any}]
        BY <4>1
      <4>3. was' = [was EXCEPT ![clock] = [was[clock] EXCEPT ![f] = Any]]
        BY <1>19, <3>1 DEF Edit
      <4> QED
        BY <4>2, <4>3
    <3>2. CASE ~(pc = "backup" /\ f \in Protected)
      BY <1>19, <3>2 DEF Edit
    <3> QED
      BY <3>1, <3>2
  <2>2. folder' \in [Files -> Cells] /\ f \in Files /\ \A g \in Files : g # f => folder'[g] = folder[g]
    BY <1>19, FolderAssumption DEF Edit
  <2>3. TypeOK' /\ Ordered'
    <3>1. /\ edits' \in Nat /\ touched' \subseteq Files
          /\ UNCHANGED <<taken, copy, clock, pc, op, at, list, best, pick, breaks>>
      BY <1>19, <2>2 DEF Edit
    <3> QED
      BY <2>1, <2>2, <3>1
  <2>4. CopiesTrue'
    BY <1>19, <2>2, FolderAssumption DEF Edit, Stamps
  <2>5. BinSaved'
    <3>1. f # Bin /\ f # TmpOf[Bin] /\ TmpOf[Bin] \in Files
      BY FolderAssumption
    <3>2. folder'[Bin] = folder[Bin] /\ folder'[TmpOf[Bin]] = folder[TmpOf[Bin]]
      BY <2>2, <3>1
    <3> QED
      BY <1>19, <3>2 DEF Edit
  <2>6. GivingBack' /\ Choosing'
    BY <1>19, <2>2, FolderAssumption DEF Edit, BestOf, Candidate
  <2> QED
    BY <2>3, <2>4, <2>5, <2>6
<1>20. CASE StartFails
  BY <1>20, StartFailsSafe
<1>21. CASE UNCHANGED vars
  <2>1. TypeOK' /\ Ordered'
    BY <1>21 DEF vars
  <2>2. CopiesTrue'
    BY <1>21 DEF vars
  <2>3. BinSaved'
    BY <1>21 DEF vars
  <2>4. GivingBack'
    BY <1>21 DEF vars
  <2>5. Choosing'
    BY <1>21 DEF vars, BestOf, Candidate
  <2> QED
    BY <2>1, <2>2, <2>3, <2>4, <2>5
<1> QED
  BY <1>1, <1>2, <1>3, <1>4, <1>5, <1>6, <1>7, <1>8, <1>9, <1>10, <1>11, <1>12, <1>13, <1>14,
     <1>15, <1>16, <1>17, <1>18, <1>19, <1>20, <1>21 DEF Next

\* The invariant holds in every state of every instance.
THEOREM Invariance == Spec => []IInv
<1> QED
  BY InitIInv, NextIInv, PTL DEF Spec

\* A rollback that goes through gives back what its backup was begun with,
\* whatever broke off, was edited or was trimmed before and in between: but for
\* what others wrote meanwhile and what a trim has torn from the backup.
THEOREM AlwaysGivesBack == Spec => []GivesBack
<1>1. IInv => GivesBack
  BY DEF IInv, GivingBack, GivesBack, Protected
<1> QED
  BY <1>1, Invariance, PTL

\* The scan of an archive ends with its best executable.
THEOREM AlwaysChosenBest == Spec => []ChosenBest
<1>1. IInv => ChosenBest
  <2> SUFFICES ASSUME IInv, pc = "scan", at > Len(list) PROVE BestOf(Len(list))
    BY DEF ChosenBest
  <2>1. at - 1 = Len(list) /\ BestOf(at - 1)
    BY LengthNat DEF IInv, TypeOK, Choosing
  <2> QED
    BY <2>1
<1> QED
  BY <1>1, Invariance, PTL

-----------------------------------------------------------------------------

\* A backup begun anew takes nothing away.
LEMMA BegunKeeps ==
  ASSUME IInv, Recoverable, BeginBackup, UNCHANGED folder
  PROVE  Recoverable'
<1>1. \A s \in taken : s \in Stamps /\ s # clock + 1
  BY FolderAssumption DEF IInv, TypeOK, Stamps
<1> QED
  BY <1>1 DEF BeginBackup, Recoverable, IInv, TypeOK

\* No step loses the last whole executable, but for a trim over a torn one.
LEMMA StepKeeps ==
  ASSUME IInv, [Next]_vars, Recoverable, ~(pc = "start" /\ folder[Bin] = Torn)
  PROVE  Recoverable'
<1> USE Positive, Distinct DEF Recoverable
<1>0. \A s \in taken : s \in Stamps
  BY FolderAssumption DEF IInv, TypeOK, Stamps
<1>1. CASE UNCHANGED <<folder, taken, copy>>
  BY <1>1
<1>2. CASE Update \/ Rollback \/ Fetched
  BY <1>2, <1>1, BegunKeeps DEF Update, Rollback, Fetched, backups
<1>3. CASE Save
  <2> DEFINE f == Order[at]
  <2>1. at \in Positions /\ f \in Protected /\ folder' = folder /\ taken' = taken
        /\ copy' = [copy EXCEPT ![clock][f] = folder[f]]
    BY <1>3 DEF Save, IInv, TypeOK
  <2>2. \A s \in taken : s # clock => copy'[s] = copy[s]
    BY <1>0, <2>1 DEF IInv, TypeOK
  <2>3. clock \in taken => copy'[clock][Bin] = IF at = 1 THEN folder[Bin] ELSE copy[clock][Bin]
    <3>1. f = Bin <=> at = 1
      BY <2>1, FolderAssumption DEF Bin
    <3> QED
      BY <1>0, <2>1, <3>1 DEF IInv, TypeOK
  <2>4. at = 1 => copy[clock][Bin] = None
    BY <1>3 DEF Save, IInv, BinSaved
  <2> QED
    BY <2>1, <2>2, <2>3, <2>4
<1>4. CASE FetchBinary
  BY <1>4, FolderAssumption DEF FetchBinary, IInv, TypeOK
<1>5. CASE OpenEntry \/ Extract \/ ExtractFails
  <2>1. at <= Len(list)
    BY <1>5, LengthNat DEF OpenEntry, Extract, ExtractFails, IInv, Ordered
  <2>2. /\ list[at].file \in Files /\ list[at].data \in Data
        /\ Tmp \in Files \ Protected /\ Tmp # list[at].file
    BY <2>1, EntryThere DEF IInv, TypeOK, Tmp
  <2>3. CASE OpenEntry
    BY <2>2, <2>3 DEF OpenEntry, backups, IInv, TypeOK
  <2>4. CASE Extract
    <3>1. taken' = taken /\ copy' = copy
      BY <2>4 DEF Extract, backups
    <3>2. folder'[Bin] = folder[Bin] \/ folder'[Bin] \in Data
      <4>1. PICK v \in {list[at].data} \cup (IF folder[Tmp] = Torn THEN {} ELSE {folder[Tmp], Torn}) :
              folder' = [folder EXCEPT ![list[at].file] = v, ![Tmp] = None]
        BY <2>4 DEF Extract
      <4>2. list[at].file = Bin => v \in Data
        BY <2>2, <2>4 DEF Extract, IInv, BinSaved
      <4> QED
        BY <2>2, <4>1, <4>2 DEF IInv, TypeOK
    <3> QED
      BY <3>1, <3>2
  <2>5. CASE ExtractFails
    BY <2>5 DEF ExtractFails, backups
  <2> QED
    BY <1>5, <2>3, <2>4, <2>5
<1>6. CASE Choose
  BY <1>6 DEF Choose, backups, IInv, Choosing
<1>7. CASE Clean
  BY <1>7, FolderAssumption DEF Clean, backups
<1>8. CASE Restore
  <2>1. at \in Positions /\ taken' = taken /\ copy' = copy
    BY <1>8 DEF Restore, backups, IInv, TypeOK
  <2>2. CASE folder[Bin] \in Data
    BY <1>8, <2>1, <2>2 DEF Restore, IInv, BinSaved
  <2>3. CASE folder[Bin] \notin Data
    BY <2>1, <2>3
  <2> QED
    BY <2>2, <2>3
<1>9. CASE Start \/ \E s \in Surplus : TrimStops(s) \/ TrimTears(s)
  <2>1. folder' = folder /\ pc = "start"
    BY <1>9 DEF Start, TrimStops, TrimTears
  <2>2. folder[Bin] \in Data
    BY <2>1 DEF IInv, TypeOK, Cells, BinSaved
  <2> QED
    BY <2>1, <2>2
<1>10. CASE Break
  <2>1. taken' = taken
    BY <1>10 DEF Break
  <2>2. CASE UNCHANGED <<folder, copy>>
    BY <2>1, <2>2
  <2>3. CASE /\ pc = "backup" /\ at <= Len(Order)
             /\ copy' = [copy EXCEPT ![clock][Order[at]] = Torn]
             /\ UNCHANGED folder
    <3>1. at \in Positions /\ (Order[at] = Bin <=> at = 1)
      BY <2>3, FolderAssumption DEF IInv, TypeOK, Bin
    <3>2. at = 1 => copy[clock][Bin] = None
      BY <2>3 DEF IInv, BinSaved
    <3>3. \A s \in taken : copy'[s][Bin] = IF s = clock /\ at = 1 THEN Torn ELSE copy[s][Bin]
      BY <1>0, <2>3, <3>1 DEF IInv, TypeOK
    <3> QED
      BY <2>1, <2>3, <3>2, <3>3
  <2>4. CASE pc = "restore" /\ UNCHANGED copy
    BY <2>1, <2>4 DEF IInv, BinSaved
  <2>5. CASE pc = "scan" /\ UNCHANGED copy
    BY <2>1, <2>5 DEF IInv, Choosing
  <2>6. CASE pc = "extracting" /\ folder' = [folder EXCEPT ![Tmp] = None] /\ UNCHANGED copy
    <3>1. Tmp \in Files \ Protected
      BY <2>6, EntryThere DEF IInv, TypeOK, Ordered, Tmp
    <3> QED
      BY <2>1, <2>6, <3>1 DEF IInv, TypeOK
  <2> QED
    BY <1>10, <2>2, <2>3, <2>4, <2>5, <2>6 DEF Break
<1>11. ASSUME NEW f \in Written, Edit(f) PROVE Recoverable'
  BY <1>11, FolderAssumption DEF Edit, IInv, TypeOK
<1> QED
  BY <1>1, <1>2, <1>3, <1>4, <1>5, <1>6, <1>7, <1>8, <1>9, <1>10, <1>11
  DEF Next, vars, Install, Saved, FetchArchive, TakeExisting, BeginScan, Scan, Restored, StartFails,
      backups

\* Wherever an install, an update, a rollback or a trim breaks off, there is a
\* whole executable, in the folder or in a backup, if there has been one: but for
\* a trim after a torn one was started and called online.
THEOREM ExecutableKept == Spec => NeverLost
<1>1. [Next]_vars /\ IInv =>
        [Recoverable /\ ~(pc = "start" /\ folder[Bin] = Torn) => Recoverable']_vars
  BY StepKeeps
<1> QED
  BY <1>1, Invariance, PTL DEF Spec, NeverLost

\* What disappears is an archive in the folder, the X.tmp beside an entry X, or
\* the directory that a rollback replaces: nothing else that no one removes.
THEOREM OthersKept == Spec => NothingDeleted
<1> DEFINE Kept == \A f \in Files : folder[f] # None /\ folder'[f] = None =>
                     \/ pc = "clean" /\ f \in Artifacts
                     \/ pc = "extracting" /\ f = Tmp
                     \/ pc = "restore" /\ f = Configs
                     \/ edits' # edits
<1>1. IInv /\ [Next]_vars => [Kept]_vars
  <2> SUFFICES ASSUME IInv, Next PROVE Kept
    OBVIOUS
  <2> USE Positive, Distinct
  <2>1. CASE UNCHANGED folder
    BY <2>1
  <2>2. CASE FetchBinary
    BY <2>2, FolderAssumption DEF FetchBinary, IInv, TypeOK
  <2>3. CASE Extract
    <3>1. PICK v \in {list[at].data} \cup (IF folder[Tmp] = Torn THEN {} ELSE {folder[Tmp], Torn}) :
            folder' = [folder EXCEPT ![list[at].file] = v, ![Tmp] = None]
      BY <2>3 DEF Extract
    <3>2. at <= Len(list) /\ list[at].data \in Data
      BY <2>3, EntryThere DEF Extract, IInv, TypeOK, Ordered
    <3>3. v # None
      BY <2>3, <3>2 DEF Extract
    <3> QED
      BY <2>3, <3>1, <3>3 DEF Extract, IInv, TypeOK
  <2>4. CASE Choose
    BY <2>4 DEF Choose, IInv, TypeOK
  <2>5. CASE Clean
    BY <2>5 DEF Clean
  <2>6. CASE Restore
    BY <2>6 DEF Restore, IInv, TypeOK
  <2>7. CASE Break
    <3>1. \/ UNCHANGED folder
          \/ folder' = [folder EXCEPT ![Bin] = Torn]
          \/ /\ pc = "restore"
             /\ \E v \in {Torn, None} : /\ v = None => Order[at] = Configs
                                        /\ folder' = [folder EXCEPT ![Order[at]] = v]
          \/ pc = "extracting" /\ folder' = [folder EXCEPT ![Tmp] = None]
      BY <2>7 DEF Break
    <3> QED
      BY <3>1 DEF IInv, TypeOK
  <2>8. ASSUME NEW f \in Written, Edit(f) PROVE Kept
    BY <2>8 DEF Edit, IInv, TypeOK
  <2>9. CASE OpenEntry
    BY <2>9 DEF OpenEntry, IInv, TypeOK
  <2> QED
    BY <2>1, <2>2, <2>3, <2>4, <2>5, <2>6, <2>7, <2>8, <2>9
    DEF Next, Install, Update, Rollback, Save, Saved, FetchArchive, ExtractFails, TakeExisting, BeginScan,
        Scan, Fetched, Restored, Start, StartFails, TrimStops, TrimTears
<1> QED
  BY <1>1, Invariance, PTL DEF Spec, NothingDeleted
==============================================================================
