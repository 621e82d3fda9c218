---------------------------- MODULE Lockdown_proofs ----------------------------
(***************************************************************************)
(* What holds of the lockdown file for every number of handlers, attempts   *)
(* and unlock commands, whatever save fails and whenever the server dies.   *)
(***************************************************************************)
EXTENDS Lockdown, TLAPS, FiniteSetTheorems

USE DEF files, local

LEMMA Kinds == Zero \in State /\ Empty \notin State /\ Garbage \notin State
  BY ConstantsAssumption DEF State, Zero

\* With the lockdown file whole, what is loaded is a state.
LEMMA LoadedState ==
  ASSUME TypeOK, Whole
  PROVE  Loaded \in State
  BY Kinds DEF Loaded, Whole, TypeOK

LEMMA NextStates ==
  ASSUME NEW st \in State
  PROVE  Recorded(st) \in State /\ Cleared(st) \in State
<1>1. st.failed \in Nat /\ st.locked \in BOOLEAN /\ st.until \in {"none", "ahead", "over"}
  BY DEF State
<1>2. Recorded(st) \in State
  BY <1>1, ConstantsAssumption DEF Recorded, State
<1>3. Cleared(st) \in State
  BY <1>1 DEF Cleared, State
<1> QED
  BY <1>2, <1>3

\* Nothing loaded changes while the name and its content stay.
LEMMA SameLoaded ==
  ASSUME path' = path, path # None => data'[path] = data[path]
  PROVE  Loaded' = Loaded
  BY DEF Loaded

\* A step that keeps the names, the file's content and the state of the race
\* keeps what Quiet says, if it keeps what it says of each handler.
LEMMA InitIInv == Init => IInv
  BY ConstantsAssumption, Kinds
  DEF Init, IInv, TypeOK, Unlocking, Quiet, Whole, Holding, Saving, Contents, Labels

LEMMA CheckIInv ==
  ASSUME IInv, NEW h \in Procs, Check(h)
  PROVE  IInv'
<1>1. Loaded' = Loaded
  BY SameLoaded DEF Check
<1>2. pc' \in [Procs -> Labels] /\ TypeOK' /\ Unlocking'
  BY DEF IInv, TypeOK, Unlocking, Check, Labels
<1>3. ASSUME NEW g \in Procs PROVE Holding(g)'
  BY ConstantsAssumption DEF IInv, TypeOK, Holding, Check
<1>4. Quiet'
  <2>1. Recorded(Loaded)' = Recorded(Loaded) /\ Cleared(Loaded)' = Cleared(Loaded)
    BY <1>1 DEF Recorded, Cleared
  <2> QED
    BY <1>1, <2>1, ConstantsAssumption DEF IInv, TypeOK, Quiet, Whole, Saving, Holding, Check
<1> QED
  BY <1>2, <1>3, <1>4 DEF IInv

\* The lock was free, so nobody was saving.
LEMMA EnterIInv ==
  ASSUME IInv, NEW h \in Procs, Enter(h)
  PROVE  IInv'
<1>1. Loaded' = Loaded /\ (Loaded # Garbage => Loaded \in State)
  BY SameLoaded, Kinds DEF Enter, IInv, TypeOK, Loaded, Contents
<1>2. Loaded \in State => Recorded(Loaded) \in State /\ Cleared(Loaded) \in State
  BY <1>1, NextStates
<1>3. TypeOK'
  BY <1>1, <1>2, ConstantsAssumption DEF IInv, TypeOK, Enter, Finish, Labels
<1>4. Unlocking'
  BY DEF IInv, TypeOK, Unlocking, Enter
<1>5. ASSUME NEW g \in Procs PROVE Holding(g)'
  BY ConstantsAssumption DEF IInv, TypeOK, Holding, Enter, Finish
<1>6. Quiet'
  <2>1. Recorded(Loaded)' = Recorded(Loaded) /\ Cleared(Loaded)' = Cleared(Loaded)
    BY <1>1 DEF Recorded, Cleared
  <2>2. raced' = "never" => raced = "never"
    BY DEF Enter
  <2>3. Quiet => (raced = "never" => Whole') /\ (raced = "never" => Whole)
    BY DEF Quiet, Enter, Whole
  <2>4. ASSUME raced = "never", NEW g \in Procs PROVE Saving(g)'
    BY <1>1, <2>1, <2>4, ConstantsAssumption
    DEF IInv, TypeOK, Holding, Quiet, Saving, Enter, Finish
  <2> QED
    BY <2>2, <2>3, <2>4 DEF Quiet, IInv
<1> QED
  BY <1>3, <1>4, <1>5, <1>6 DEF IInv

\* While a handler saves, no run of the command counts on having met none.
LEMMA SaverAlone ==
  ASSUME IInv, NEW h \in Procs, authMu = h
  PROVE  /\ cli # "idle" => raced = "now"
         /\ \A g \in Procs \ {h} : authMu # g /\ fd[g] = None
  BY ConstantsAssumption DEF IInv, TypeOK, Unlocking, Holding

\* Opening the temporary file touches neither the lockdown file nor a file that
\* somebody has open under another name.
LEMMA Truncates ==
  ASSUME IInv, NEW i \in Inodes, Truncate(i)
  PROVE  /\ path' = path /\ tmp' = i /\ path # i
         /\ data' = [data EXCEPT ![i] = Empty] /\ data' \in [Inodes -> Contents]
         /\ path # None => data'[path] = data[path]
         /\ Loaded' = Loaded
<1>1. path' = path /\ tmp' = i /\ path # i /\ data' = [data EXCEPT ![i] = Empty]
  BY ConstantsAssumption DEF IInv, TypeOK, Unlocking, Truncate
<1>2. path # None => data'[path] = data[path]
  BY <1>1 DEF IInv, TypeOK
<1> QED
  BY <1>1, <1>2, SameLoaded DEF IInv, TypeOK, Contents

LEMMA OpenIInv ==
  ASSUME IInv, NEW h \in Procs, Open(h)
  PROVE  IInv'
<1>1. authMu = h /\ fd[h] = None
  BY DEF IInv, Holding, Open
<1>2. PICK i \in Inodes : Truncate(i) /\ fd' = [fd EXCEPT ![h] = i]
  BY DEF Open
<1>3. TypeOK'
  BY <1>2, Truncates DEF IInv, TypeOK, Open, Labels
<1>4. Unlocking'
  BY <1>1, <1>2, Truncates, SaverAlone DEF IInv, Unlocking, Open
<1>5. ASSUME NEW g \in Procs PROVE Holding(g)'
  BY <1>1, <1>2, ConstantsAssumption DEF IInv, TypeOK, Holding, Open
<1>6. Quiet'
  <2>1. Recorded(Loaded)' = Recorded(Loaded) /\ Cleared(Loaded)' = Cleared(Loaded)
    BY <1>2, Truncates DEF Recorded, Cleared
  <2>2. ASSUME raced = "never", NEW g \in Procs PROVE Saving(g)'
    BY <1>1, <1>2, <2>1, <2>2, Truncates, SaverAlone, ConstantsAssumption
    DEF IInv, TypeOK, Holding, Quiet, Saving, Open
  <2>3. raced = "never" => Whole'
    BY <1>2, Truncates DEF IInv, Quiet, Whole
  <2> QED
    BY <2>2, <2>3 DEF Quiet, Open
<1> QED
  BY <1>3, <1>4, <1>5, <1>6 DEF IInv

LEMMA WriteIInv ==
  ASSUME IInv, NEW h \in Procs, Write(h)
  PROVE  IInv'
<1>1. authMu = h /\ fd[h] \in Inodes
  BY DEF IInv, TypeOK, Holding, Write
<1>2. TypeOK'
  BY DEF IInv, TypeOK, Write, Labels, Contents
<1>3. Unlocking'
  BY <1>1, SaverAlone DEF IInv, Unlocking, Write
<1>4. ASSUME NEW g \in Procs PROVE Holding(g)'
  BY <1>1, ConstantsAssumption DEF IInv, TypeOK, Holding, Write
<1>5. Quiet'
  <2> SUFFICES ASSUME raced = "never" PROVE Whole' /\ \A g \in Procs : Saving(g)'
    BY DEF Quiet, Write
  <2>1. fd[h] = tmp /\ (path # None => path # tmp)
    BY <1>1, ConstantsAssumption DEF IInv, Quiet, Saving, Unlocking
  <2>2. Loaded' = Loaded
    BY <2>1, SameLoaded DEF Write, IInv, TypeOK
  <2>3. Recorded(Loaded)' = Recorded(Loaded) /\ Cleared(Loaded)' = Cleared(Loaded)
    BY <2>2 DEF Recorded, Cleared
  <2>4. Whole'
    BY <2>1 DEF IInv, TypeOK, Quiet, Whole, Write
  <2>5. ASSUME NEW g \in Procs PROVE Saving(g)'
    BY <1>1, <2>1, <2>3, SaverAlone, ConstantsAssumption DEF IInv, TypeOK, Holding, Quiet, Saving, Write
  <2> QED
    BY <2>4, <2>5
<1> QED
  BY <1>2, <1>3, <1>4, <1>5 DEF IInv

\* A rename keeps the two names apart, and what is loaded is what the temporary
\* file held.
LEMMA Moves ==
  ASSUME IInv, Move
  PROVE  /\ path' \in Inodes \cup {None} /\ tmp' = None
         /\ data' \in [Inodes -> Contents]
         /\ path' # None => path' # tmp'
         /\ tmp # None => /\ path' = tmp /\ data'[tmp] = data[tmp]
                          /\ Loaded' = IF data[tmp] = Empty THEN Zero ELSE data[tmp]
<1>1. CASE tmp = None
  BY <1>1 DEF Move, IInv, TypeOK
<1>2. CASE tmp # None
  <2>1. /\ path' = tmp /\ tmp' = None /\ tmp \in Inodes /\ tmp # path
        /\ data' = [i \in Inodes |-> IF i = path THEN Empty ELSE data[i]]
    BY <1>2, ConstantsAssumption DEF Move, IInv, TypeOK, Unlocking
  <2>2. data'[tmp] = data[tmp] /\ data' \in [Inodes -> Contents]
    BY <2>1 DEF IInv, TypeOK, Contents
  <2> QED
    BY <1>2, <2>1, <2>2 DEF Loaded
<1> QED
  BY <1>1, <1>2

\* Until a race, the saved state replaces the file's.
LEMMA RenameSaves ==
  ASSUME IInv, NEW h \in Procs, Rename(h), raced = "never"
  PROVE  path' = tmp /\ data'[tmp] = want[h] /\ Loaded' = want[h] /\ want[h] \in State
<1>1. authMu = h /\ fd[h] # None
  BY DEF Rename, IInv, Holding
<1>2. fd[h] = tmp /\ data[tmp] = want[h] /\ want[h] \in State
  BY <1>1 DEF Rename, IInv, TypeOK, Quiet, Saving
<1> QED
  BY <1>1, <1>2, Moves, Kinds DEF Rename

LEMMA RenameIInv ==
  ASSUME IInv, NEW h \in Procs, Rename(h)
  PROVE  IInv'
<1>1. authMu = h /\ Move
  BY DEF IInv, Holding, Rename
<1>2. TypeOK'
  BY <1>1, Moves, Kinds DEF IInv, TypeOK, Rename, Leave, Finish, Labels
<1>3. Unlocking'
  BY <1>1, Moves, SaverAlone DEF IInv, Unlocking, Rename
<1>4. ASSUME NEW g \in Procs PROVE Holding(g)'
  BY <1>1, ConstantsAssumption DEF IInv, TypeOK, Holding, Rename, Leave, Finish
<1>5. Quiet'
  <2>1. ASSUME raced = "never", NEW g \in Procs PROVE Saving(g)'
    BY <1>1, <1>4, ConstantsAssumption, SaverAlone DEF IInv, TypeOK, Saving, Holding, Rename, Leave, Finish
  <2>2. raced = "never" => Whole'
    BY RenameSaves DEF Whole
  <2> QED
    BY <2>1, <2>2 DEF Quiet, Rename
<1> QED
  BY <1>2, <1>3, <1>4, <1>5 DEF IInv

LEMMA FailsIInv ==
  ASSUME IInv, NEW h \in Procs, SaveFails(h)
  PROVE  IInv'
<1>1. authMu = h
  BY ConstantsAssumption DEF IInv, Holding, SaveFails
<1>2. TypeOK'
  BY <1>1, Kinds, ConstantsAssumption DEF IInv, TypeOK, Contents, SaveFails, Leave, Finish, Labels
<1>3. Unlocking'
  BY <1>1, SaverAlone DEF IInv, Unlocking, SaveFails
<1>4. ASSUME NEW g \in Procs PROVE Holding(g)'
  BY <1>1, ConstantsAssumption DEF IInv, TypeOK, Holding, SaveFails, Leave, Finish
<1>5. Quiet'
  <2> SUFFICES ASSUME raced = "never" PROVE Whole' /\ \A g \in Procs : Saving(g)'
    BY DEF Quiet, SaveFails
  <2>1. path # None => data'[path] = data[path]
    BY <1>1, ConstantsAssumption DEF IInv, TypeOK, Quiet, Saving, Holding, Unlocking, SaveFails
  <2>2. Whole'
    BY <2>1 DEF IInv, Quiet, Whole, SaveFails
  <2>3. ASSUME NEW g \in Procs PROVE Saving(g)'
    BY <1>1, <1>4, SaverAlone, ConstantsAssumption
    DEF IInv, TypeOK, Holding, Saving, SaveFails, Leave, Finish
  <2> QED
    BY <2>2, <2>3
<1> QED
  BY <1>2, <1>3, <1>4, <1>5 DEF IInv

\* The command, when nobody saves.
LEMMA NobodySaves ==
  ASSUME IInv, authMu = Free, NEW h \in Procs
  PROVE  pc[h] \notin {"open", "write", "rename"} /\ fd[h] = None
  BY ConstantsAssumption DEF IInv, Holding

LEMMA UnlockOpenIInv ==
  ASSUME IInv, UnlockOpen
  PROVE  IInv'
<1>1. PICK i \in Inodes : Truncate(i) /\ clifd' = i
  BY DEF UnlockOpen
<1>2. TypeOK'
  BY <1>1, Truncates DEF IInv, TypeOK, UnlockOpen
<1>3. Unlocking'
  BY <1>1, Truncates, ConstantsAssumption DEF IInv, TypeOK, Unlocking, UnlockOpen
<1>4. ASSUME NEW g \in Procs PROVE Holding(g)'
  BY DEF IInv, Holding, UnlockOpen
<1>5. Quiet'
  <2> SUFFICES ASSUME raced' = "never" PROVE Whole' /\ \A g \in Procs : Saving(g)'
    BY DEF Quiet
  <2>1. raced = "never" /\ authMu = Free
    BY DEF UnlockOpen
  <2>2. Whole'
    BY <1>1, <2>1, Truncates DEF IInv, Quiet, Whole
  <2> QED
    BY <2>1, <2>2, NobodySaves, ConstantsAssumption DEF Saving, UnlockOpen
<1> QED
  BY <1>2, <1>3, <1>4, <1>5 DEF IInv

LEMMA UnlockWriteIInv ==
  ASSUME IInv, UnlockWrite
  PROVE  IInv'
<1>1. clifd \in Inodes
  BY DEF IInv, TypeOK, Unlocking, UnlockWrite
<1>2. TypeOK'
  BY <1>1, Kinds DEF IInv, TypeOK, Contents, UnlockWrite
<1>3. Unlocking'
  BY <1>1 DEF IInv, TypeOK, Unlocking, UnlockWrite
<1>4. ASSUME NEW g \in Procs PROVE Holding(g)'
  BY DEF IInv, Holding, UnlockWrite
<1>5. Quiet'
  <2> SUFFICES ASSUME raced = "never" PROVE Whole' /\ \A g \in Procs : Saving(g)'
    BY DEF Quiet, UnlockWrite
  <2>1. authMu = Free /\ path # clifd
    BY DEF IInv, Unlocking, UnlockWrite
  <2>2. Whole'
    BY <2>1 DEF IInv, TypeOK, Quiet, Whole, UnlockWrite
  <2> QED
    BY <2>1, <2>2, NobodySaves, ConstantsAssumption DEF Saving, UnlockWrite
<1> QED
  BY <1>2, <1>3, <1>4, <1>5 DEF IInv

\* What a run of the command that met no save has written becomes the file.
LEMMA UnlockZero ==
  ASSUME IInv, UnlockRename, raced # "now"
  PROVE  path' # None /\ data'[path'] = Zero /\ Loaded' = Zero
<1>1. clifd = tmp /\ tmp # None /\ data[tmp] = Zero
  BY DEF IInv, Unlocking, UnlockRename
<1> QED
  BY <1>1, Moves, Kinds DEF UnlockRename

LEMMA UnlockRenameIInv ==
  ASSUME IInv, UnlockRename
  PROVE  IInv'
<1>1. TypeOK' /\ Unlocking'
  BY Moves DEF IInv, TypeOK, Unlocking, UnlockRename
<1>2. ASSUME NEW g \in Procs PROVE Holding(g)'
  BY DEF IInv, Holding, UnlockRename
<1>3. Quiet'
  <2> SUFFICES ASSUME raced = "never" PROVE Whole' /\ \A g \in Procs : Saving(g)'
    BY DEF Quiet, UnlockRename
  <2>1. authMu = Free
    BY DEF IInv, Unlocking, UnlockRename
  <2> QED
    BY <2>1, UnlockZero, Kinds, NobodySaves, ConstantsAssumption DEF Saving, Whole, UnlockRename
<1> QED
  BY <1>1, <1>2, <1>3 DEF IInv

LEMMA LapseIInv ==
  ASSUME IInv, Lapse
  PROVE  IInv'
<1>1. ASSUME NEW c \in Contents
      PROVE  /\ Lapsed(c) \in Contents /\ (c \in State => Lapsed(c) \in State)
             /\ c \in {Empty, Zero} => Lapsed(c) = c
  BY <1>1, Kinds DEF Lapsed, Contents, State, Zero
<1>2. TypeOK'
  BY <1>1 DEF IInv, TypeOK, Lapse
<1>3. Unlocking'
  BY <1>1, Kinds DEF IInv, TypeOK, Unlocking, Lapse, Contents
<1>4. ASSUME NEW g \in Procs PROVE Holding(g)'
  BY DEF IInv, Holding, Lapse
<1>5. Quiet'
  BY <1>1, ConstantsAssumption DEF IInv, TypeOK, Quiet, Whole, Saving, Holding, Lapse
<1> QED
  BY <1>2, <1>3, <1>4, <1>5 DEF IInv

LEMMA CrashIInv ==
  ASSUME IInv, Crash
  PROVE  IInv'
<1>1. TypeOK' /\ Unlocking'
  BY Kinds DEF IInv, TypeOK, Unlocking, Crash, Labels
<1>2. ASSUME NEW g \in Procs PROVE Holding(g)'
  BY ConstantsAssumption DEF IInv, TypeOK, Holding, Crash
<1>3. Quiet'
  BY ConstantsAssumption DEF IInv, TypeOK, Quiet, Whole, Saving, Crash
<1> QED
  BY <1>1, <1>2, <1>3 DEF IInv

LEMMA NextIInv ==
  ASSUME IInv, [Next]_vars
  PROVE  IInv'
<1>1. CASE UNCHANGED vars
  BY <1>1 DEF vars, IInv, TypeOK, Unlocking, Quiet, Whole, Holding, Saving, Loaded, Recorded, Cleared
<1>2. CASE Next
  BY <1>2, CheckIInv, EnterIInv, OpenIInv, WriteIInv, RenameIInv, FailsIInv, UnlockOpenIInv,
     UnlockWriteIInv, UnlockRenameIInv, LapseIInv, CrashIInv DEF Next, Work
<1> QED
  BY <1>1, <1>2

\* The inductive invariant of the lockdown file holds throughout.
THEOREM Invariance == Spec => []IInv
  BY InitIInv, NextIInv, PTL DEF Spec

\* Whatever save fails and whenever the server dies (defer authMu.Unlock, write
\* and rename of saveLockdownStateUnlocked), the lockdown file parses, unless an
\* unlock overlapped a save.
THEOREM AlwaysWhole == Spec => []FileWhole
<1>1. IInv => FileWhole
  BY DEF IInv, Quiet, FileWhole
<1> QED
  BY <1>1, Invariance, PTL

\* unlockLockdown (cmd/htm/main.go) ends with the zero state in the lockdown file,
\* whatever was there, if no save was under way while it ran.
THEOREM UnlocksForSure == Spec => UnlockWorks
<1>1. ASSUME IInv, [Next]_vars
      PROVE  [cli = "rename" /\ cli' = "idle" /\ raced # "now" => path' # None /\ Loaded' = Zero]_vars
  <2>1. CASE UNCHANGED vars
    BY <2>1
  <2>2. CASE UnlockRename
    BY <1>1, <2>2, UnlockZero
  <2>3. CASE Next /\ ~UnlockRename
    BY <2>3 DEF Next, Work, Check, Enter, Open, Write, Rename, SaveFails, UnlockOpen, UnlockWrite, Lapse, Crash
  <2> QED
    BY <1>1, <2>1, <2>2, <2>3
<1> QED
  BY <1>1, Invariance, PTL DEF Spec, UnlockWorks

-----------------------------------------------------------------------------

\* A step that loads the same state is a stutter of the counter.
LEMMA Unseen ==
  ASSUME Loaded' = Loaded
  PROVE  UNCHANGED Counter!vars
  BY DEF Counter!vars

\* Nobody but a rename changes what is loaded, until a race.
LEMMA OthersUnseen ==
  ASSUME IInv, raced = "never", NEW h \in Procs,
         Check(h) \/ Enter(h) \/ Open(h) \/ Write(h) \/ SaveFails(h)
  PROVE  Loaded' = Loaded
<1>1. CASE Open(h)
  BY <1>1, Truncates DEF Open
<1>2. CASE ~Open(h)
  <2>1. path' = path
    BY <1>2 DEF Check, Enter, Write, SaveFails
  <2>2. path # None => data'[path] = data[path]
    BY <1>2, ConstantsAssumption
    DEF IInv, TypeOK, Quiet, Saving, Holding, Unlocking, Check, Enter, Write, SaveFails
  <2> QED
    BY <2>1, <2>2, SameLoaded
<1> QED
  BY <1>1, <1>2

LEMMA CommandUnseen ==
  ASSUME IInv, raced' = "never", UnlockOpen \/ UnlockWrite
  PROVE  Loaded' = Loaded
<1>1. CASE UnlockOpen
  BY <1>1, Truncates DEF UnlockOpen
<1>2. CASE UnlockWrite
  BY <1>2, SameLoaded DEF IInv, TypeOK, Unlocking, UnlockWrite
<1> QED
  BY <1>1, <1>2

LEMMA RenameCounts ==
  ASSUME IInv, raced = "never", NEW h \in Procs, Rename(h)
  PROVE  /\ Loaded \in State /\ Loaded' \in {Recorded(Loaded), Cleared(Loaded)}
         /\ [Counter!Served]_(Counter!vars)
<1>1. Loaded' \in {Recorded(Loaded), Cleared(Loaded)} /\ Loaded \in State
  BY RenameSaves, LoadedState DEF IInv, Holding, Quiet, Saving, Rename
<1>2. CASE Loaded' = Recorded(Loaded)
  BY <1>1, <1>2 DEF Counter!Served, Counter!Attempt, Recorded, State
<1>3. CASE Loaded' = Cleared(Loaded)
  BY <1>1, <1>3 DEF Counter!Served, Counter!Login, Cleared, State
<1> QED
  BY <1>1, <1>2, <1>3

LEMMA LapseLoads ==
  ASSUME IInv, raced = "never", Lapse
  PROVE  Loaded' = Lapsed(Loaded) /\ Loaded \in State
<1>1. Loaded \in State
  BY LoadedState DEF IInv, Quiet
<1>2. CASE path = None
  BY <1>1, <1>2 DEF Lapse, Loaded, Lapsed, Zero
<1>3. CASE path # None
  <2>1. path \in Inodes /\ data[path] \in State /\ Loaded = data[path] /\ path' = path
    BY <1>3, Kinds DEF IInv, TypeOK, Quiet, Whole, Lapse, Loaded
  <2>2. data'[path] = Lapsed(data[path]) /\ Lapsed(data[path]) \in State
    BY <2>1 DEF Lapse, Lapsed, State
  <2> QED
    BY <1>1, <1>3, <2>1, <2>2, Kinds DEF Loaded
<1> QED
  BY <1>2, <1>3

LEMMA LapseExpires ==
  ASSUME IInv, raced = "never", Lapse
  PROVE  [Counter!Served]_(Counter!vars)
<1>1. Loaded' = Lapsed(Loaded) /\ Loaded \in State
  BY LapseLoads
<1>2. CASE Loaded.until = "ahead"
  BY <1>1, <1>2 DEF Counter!Served, Counter!Expire, Lapsed, State
<1>3. CASE Loaded.until # "ahead"
  BY <1>1, <1>3, Unseen DEF Lapsed
<1> QED
  BY <1>2, <1>3

\* A race is never forgotten.
LEMMA RaceStays ==
  ASSUME [Next]_vars, raced' = "never"
  PROVE  raced = "never"
  BY DEF Next, Work, Check, Enter, Open, Write, Rename, SaveFails, UnlockOpen, UnlockWrite, UnlockRename,
     Lapse, Crash, vars

\* Handlers that load, save and rename under authMu, and a command that meets no
\* save, implement an atomic counter: no failed attempt is lost or counted twice,
\* whatever fails.
THEOREM ImplementsCounter == Spec => CounterSpec
<1>1. Init => Counter!Init
  BY DEF Init, Counter!Init, Loaded, Zero
<1>2. ASSUME IInv, [Next]_vars, raced' = "never", ~UnlockRename PROVE [Counter!Served]_(Counter!vars)
  <2>0. raced = "never"
    BY <1>2, RaceStays
  <2>1. CASE UNCHANGED vars
    BY <2>1, Unseen, SameLoaded DEF vars
  <2>2. CASE Crash
    BY <2>2, SameLoaded, Unseen DEF Crash
  <2>3. CASE Next /\ ~Crash
    BY <1>2, <2>0, <2>3, RenameCounts, LapseExpires, OthersUnseen, CommandUnseen, Unseen DEF Next, Work
  <2> QED
    BY <1>2, <2>1, <2>2, <2>3
<1>3. ASSUME IInv, [Next]_vars, raced' = "never", UnlockRename PROVE Counter!Unlock /\ cli' # cli
  <2>1. Loaded' = Zero
    BY <1>3, UnlockZero, RaceStays
  <2> QED
    BY <1>3, <2>1 DEF Counter!Unlock, Zero, UnlockRename
<1>4. IInv /\ [Next]_vars =>
        [raced' = "never" => /\ [Counter!Next]_(Counter!vars)
                             /\ cli' = cli => [Counter!Served]_(Counter!vars)]_vars
  BY <1>2, <1>3 DEF Counter!Next
<1> QED
  BY <1>1, <1>4, Invariance, PTL DEF Spec, CounterSpec

-----------------------------------------------------------------------------

LEMMA LateFinite ==
  /\ IsFiniteSet(Late) /\ Late \subseteq Procs
  /\ Cardinality(Late) \in Nat /\ Cardinality(Procs) \in Nat
  /\ Cardinality(Late) <= Cardinality(Procs)
  BY ConstantsAssumption, FS_Subset, FS_CardinalityType DEF Late

\* A step that adds no attempt and no request to those in flight.
LEMMA CountedStays ==
  ASSUME IInv, Counted, raced = "never", Loaded'.failed = Loaded.failed, Loaded'.locked = Loaded.locked,
         Late' \subseteq Late
  PROVE  Counted'
<1>1. Cardinality(Late') <= Cardinality(Late) /\ Cardinality(Late') \in Nat
  BY LateFinite, FS_Subset, FS_CardinalityType
<1>2. Loaded.failed \in Nat
  BY LoadedState DEF IInv, Quiet, State
<1>3. CASE Loaded.failed >= Hard
  BY <1>1, <1>2, <1>3, LateFinite, ConstantsAssumption DEF Counted
<1>4. CASE ~(Loaded.failed >= Hard)
  BY <1>4 DEF Counted
<1> QED
  BY <1>3, <1>4

\* Nobody passes the check of a state that is locked.
LEMMA CheckCounted ==
  ASSUME IInv, Counted, raced = "never", NEW h \in Procs, Check(h)
  PROVE  Counted'
<1>1. Loaded' = Loaded
  BY SameLoaded DEF Check
<1>2. Loaded \in State /\ Loaded # Garbage /\ ~Loaded.locked
  BY LoadedState, Kinds DEF IInv, Quiet, Check, Refuses
<1> QED
  BY <1>1, <1>2 DEF Counted

\* The rename that reaches the limit leaves at most the others in flight, each
\* later one is one of those.
LEMMA RenameCounted ==
  ASSUME IInv, Counted, raced = "never", NEW h \in Procs, Rename(h)
  PROVE  Counted'
<1>1. /\ Loaded \in State /\ Loaded' \in {Recorded(Loaded), Cleared(Loaded)} /\ Loaded' = want[h]
      /\ authMu = h /\ authMu' = Free
  BY RenameCounts, RenameSaves DEF Rename, Leave, IInv, Holding
<1>2. Loaded.failed \in Nat /\ Loaded.locked \in BOOLEAN
  BY <1>1 DEF State
<1>3. Late' \subseteq Late \ {h}
  BY <1>1, ConstantsAssumption DEF Late, Rename, Leave, Finish, IInv, TypeOK
<1>4. CASE Loaded' = Cleared(Loaded)
  BY <1>4, ConstantsAssumption DEF Cleared, Counted, State
<1>5. CASE Loaded' = Recorded(Loaded)
  <2>1. Loaded'.failed = Loaded.failed + 1 /\ Loaded'.locked = (Loaded.locked \/ Loaded.failed + 1 >= Hard)
    BY <1>5 DEF Recorded
  <2>2. h \in Late
    BY <1>1, <1>2, <2>1 DEF Late
  <2>3. Cardinality(Late \ {h}) = Cardinality(Late) - 1
    BY <2>2, LateFinite, FS_RemoveElement
  <2>4. Cardinality(Late') <= Cardinality(Late) - 1 /\ Cardinality(Late') \in Nat
    BY <1>3, <2>3, LateFinite, FS_Subset, FS_RemoveElement, FS_CardinalityType
  <2>5. CASE Loaded.failed >= Hard
    BY <1>2, <2>1, <2>4, <2>5, LateFinite, ConstantsAssumption DEF Counted
  <2>6. CASE ~(Loaded.failed >= Hard)
    <3> SUFFICES ASSUME Loaded'.failed >= Hard
                 PROVE  Loaded'.locked /\ Loaded'.failed + Cardinality(Late') < Hard + Cardinality(Procs)
      BY DEF Counted
    <3>1. Loaded'.locked
      BY <2>1
    <3>2. Loaded'.failed = Hard
      BY <1>2, <2>1, <2>6, ConstantsAssumption
    <3> QED
      BY <2>4, <3>1, <3>2, LateFinite, ConstantsAssumption
  <2> QED
    BY <2>5, <2>6
<1> QED
  BY <1>1, <1>4, <1>5

\* Recording makes a count of at least one, clearing one of zero.
LEMMA EnterLate ==
  ASSUME IInv, NEW h \in Procs, Enter(h)
  PROVE  Late' \subseteq Late
<1>1. \A g \in Procs \ {h} : pc'[g] = pc[g] /\ want'[g] = want[g] /\ (authMu' = g => authMu = g)
  BY ConstantsAssumption DEF Enter, Finish, IInv, TypeOK
<1>2. pc'[h] # "invalid"
  BY DEF Enter, Finish, IInv, TypeOK
<1>3. authMu' = h /\ pc[h] # "invalid" => want'[h].failed = 0
  <2> SUFFICES ASSUME authMu' = h, pc[h] # "invalid" PROVE want'[h].failed = 0
    OBVIOUS
  <2>1. want' = [want EXCEPT ![h] = Cleared(Loaded)]
    BY ConstantsAssumption DEF Enter
  <2> QED
    BY <2>1 DEF Cleared, IInv, TypeOK, State
<1>4. authMu' # h => h \notin Late'
  BY <1>2 DEF Late
<1>5. pc[h] = "invalid" => h \in Late
  BY DEF Late
<1> QED
  BY <1>1, <1>2, <1>3, <1>4, <1>5 DEF Late

\* While nothing has raced, the count keeps to its bound.
LEMMA NextCounted ==
  ASSUME IInv, Counted, [Next]_vars
  PROVE  Counted'
<1> SUFFICES ASSUME raced' = "never" PROVE Counted'
  BY DEF Counted
<1>0. raced = "never"
  BY RaceStays
<1>1. CASE UNCHANGED vars
  BY <1>0, <1>1, CountedStays, SameLoaded DEF vars, Late
<1>2. CASE Crash
  BY <1>0, <1>2, CountedStays, SameLoaded, ConstantsAssumption DEF Crash, Late
<1>3. CASE Lapse
  <2>1. Loaded'.failed = Loaded.failed /\ Loaded'.locked = Loaded.locked
    BY <1>0, <1>3, LapseLoads DEF Lapsed, State
  <2> QED
    BY <1>0, <1>3, <2>1, CountedStays DEF Lapse, Late
<1>4. CASE UnlockRename
  BY <1>0, <1>4, UnlockZero, ConstantsAssumption DEF Zero, Counted
<1>5. CASE UnlockOpen \/ UnlockWrite
  BY <1>0, <1>5, CommandUnseen, CountedStays DEF UnlockOpen, UnlockWrite, Late
<1>6. ASSUME NEW h \in Procs, Open(h) \/ Write(h) \/ SaveFails(h) PROVE Counted'
  <2>1. Late' \subseteq Late
    BY <1>6, ConstantsAssumption DEF Open, Write, SaveFails, Leave, Finish, Late, IInv, TypeOK
  <2> QED
    BY <1>0, <1>6, <2>1, OthersUnseen, CountedStays
<1>7. ASSUME NEW h \in Procs, Enter(h) PROVE Counted'
  BY <1>0, <1>7, EnterLate, OthersUnseen, CountedStays
<1> QED
  BY <1>0, <1>1, <1>2, <1>3, <1>4, <1>5, <1>6, <1>7, CheckCounted, RenameCounted DEF Next, Work

\* recordFailedAttempt cannot be driven past the tenth attempt by more than the
\* requests authMiddleware or handleLogin had let through by then.
THEOREM NeverOvershoots == Spec => []Overshoot
<1>1. Init => Counted
  BY ConstantsAssumption DEF Init, Counted, Loaded, Zero
<1>2. IInv /\ Counted => Overshoot
  <2> SUFFICES ASSUME IInv, Counted, raced = "never" PROVE Loaded.failed < Hard + Cardinality(Procs)
    BY DEF Overshoot
  <2>1. Loaded.failed \in Nat
    BY LoadedState DEF IInv, Quiet, State
  <2>2. CASE Loaded.failed >= Hard
    BY <2>1, <2>2, LateFinite, ConstantsAssumption DEF Counted
  <2>3. CASE ~(Loaded.failed >= Hard) /\ Cardinality(Procs) # 0
    BY <2>1, <2>3, LateFinite, ConstantsAssumption
  <2>4. CASE ~(Loaded.failed >= Hard) /\ Cardinality(Procs) = 0
    BY <2>1, <2>4, LateFinite, ConstantsAssumption
  <2> QED
    BY <2>2, <2>3, <2>4
<1>3. Spec => []Counted
  BY <1>1, NextCounted, Invariance, PTL DEF Spec
<1> QED
  BY <1>2, <1>3, Invariance, PTL
================================================================================
