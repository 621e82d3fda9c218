--------------------------- MODULE SelfUpdate_proofs ---------------------------
(***************************************************************************)
(* What holds of a self-update for every set of runtime entries and program *)
(* files, whatever fails, is made anew by others, or is cut off by a crash. *)
(***************************************************************************)
EXTENDS SelfUpdate, TLAPS

LEMMA InitIInv == Init => IInv
<1> SUFFICES ASSUME Init PROVE IInv
  OBVIOUS
<1>1. failed \in BOOLEAN /\ up \in BOOLEAN
  BY Zenon DEF Init
<1> QED
  BY <1>1, ConstantsAssumption
  DEF Init, IInv, TypeOK, Whereabouts, Released, Loops, Empty, Contents, Entries, Phases,
      Fetching, Downloads

\* A return leaves nothing for the invariant to say but types.
LEMMA ReturnIInv ==
  ASSUME IInv, Return, dir' \in [Entries -> Contents],
         up' \in BOOLEAN, failed' \in BOOLEAN, UNCHANGED <<running, owned, runs>>, crashes' \in Nat
  PROVE  IInv'
  BY DEF IInv, TypeOK, Whereabouts, Released, Loops, Return, Empty, Contents, Phases, Fetching,
     Downloads

\* The moves of the loops over runtime state keep it where Whereabouts says.
LEMMA MovesIInv ==
  ASSUME IInv, NEW i \in Entries, Preserve(i) \/ Restore(i)
  PROVE  IInv'
<1>1. i \in Items
  BY DEF IInv, Loops, Preserve, Restore
<1>2. CASE Preserve(i)
  <2>1. TypeOK'
    BY <1>1, <1>2, ConstantsAssumption
    DEF IInv, TypeOK, Preserve, rest, release, outer, Entries, Contents
  <2>2. Loops' /\ Released'
    BY <1>1, <1>2 DEF IInv, Loops, Released, Preserve, rest, release, outer
  <2>3. Whereabouts'
    BY <1>1, <1>2, ConstantsAssumption
    DEF IInv, TypeOK, Whereabouts, Preserve, rest, release, outer, Entries, Fetching
  <2> QED
    BY <2>1, <2>2, <2>3 DEF IInv
<1>3. CASE Restore(i)
  <2>1. TypeOK' /\ Loops' /\ Released'
    BY <1>1, <1>3, ConstantsAssumption
    DEF IInv, TypeOK, Loops, Released, Restore, rest, release, outer, Entries, Contents
  <2>2. Whereabouts'
    BY <1>1, <1>3, ConstantsAssumption
    DEF IInv, TypeOK, Whereabouts, Restore, rest, release, outer, Entries, Fetching
  <2> QED
    BY <2>1, <2>2 DEF IInv
<1> QED
  BY <1>2, <1>3

\* Removing and copying touch no entry of the runtime state that is in place.
LEMMA FilesIInv ==
  ASSUME IInv, NEW e \in Entries, Wipe(e) \/ Install(e)
  PROVE  IInv'
<1>1. CASE Wipe(e)
  BY <1>1
  DEF IInv, TypeOK, Whereabouts, Released, Loops, Wipe,
      rest, release, outer, Contents, Phases, Fetching
<1>2. CASE Install(e)
  BY <1>2
  DEF IInv, TypeOK, Whereabouts, Released, Loops, Install,
      rest, release, outer, Contents, Phases, Fetching
<1> QED
  BY <1>1, <1>2

LEMMA EndsIInv ==
  ASSUME IInv, Installed \/ Merged
  PROVE  IInv'
<1>1. CASE Installed
  <2>1. at \in Program /\ at \notin Items
    BY <1>1, ConstantsAssumption DEF IInv, Loops, Installed
  <2> QED
    BY <1>1, <2>1, ConstantsAssumption
    DEF IInv, TypeOK, Whereabouts, Released, Loops, Installed,
        rest, release, outer, Contents, Entries, Phases, Fetching
<1>2. CASE Merged
  <2>1. at \in Items /\ at \in todo /\ at \notin Program
    BY <1>2, ConstantsAssumption DEF IInv, Loops, Merged
  <2>2. TypeOK' /\ Loops' /\ Released'
    BY <1>2, <2>1, ConstantsAssumption
    DEF IInv, TypeOK, Loops, Released, Merged,
        rest, release, outer, Contents, Entries, Phases, Fetching
  <2>3. Whereabouts'
    BY <1>2, <2>1 DEF IInv, TypeOK, Whereabouts, Merged, rest, release, outer, Entries, Fetching
  <2> QED
    BY <2>2, <2>3 DEF IInv
<1> QED
  BY <1>1, <1>2

\* From one phase to the next, with the entries the next one has to visit.
LEMMA PhasesIInv ==
  ASSUME IInv, Begin \/ Retry \/ Fetch \/ Verify \/ Preserved \/ Wiped \/ StartRestore \/
       AllRestored
  PROVE  IInv'
<1> USE ConstantsAssumption DEF IInv, TypeOK, Whereabouts, Released, Loops, rest, release, outer,
    Contents, Entries, Phases, Fetching, Downloads
<1>1. CASE Begin
  <2>1. failed' \in BOOLEAN /\ up' \in BOOLEAN
    BY <1>1, Zenon DEF Begin
  <2> QED
    BY <1>1, <2>1 DEF Begin
<1>2. CASE Retry \/ Fetch
  BY <1>2 DEF Retry, Fetch, Torn
<1>7. CASE Verify
  <2>1. CASE asset = "whole" /\ sums = "whole"
    BY <1>7, <2>1 DEF Verify
  <2>2. CASE ~(asset = "whole" /\ sums = "whole")
    BY <1>7, <2>2, ReturnIInv DEF Verify
  <2> QED
    BY <2>1, <2>2
<1>3. CASE Preserved
  BY <1>3 DEF Preserved, Present
<1>4. CASE Wiped
  BY <1>4 DEF Wiped
<1>5. CASE StartRestore
  BY <1>5 DEF StartRestore, Present
<1>6. CASE AllRestored
  BY <1>6 DEF AllRestored
<1> QED
  BY <1>1, <1>2, <1>3, <1>4, <1>5, <1>6, <1>7

\* What others do only makes missing entries, and never a preserved one.
LEMMA AroundIInv ==
  ASSUME IInv, (\E i \in Items : Touch(i)) \/ Boot
  PROVE  IInv'
<1>1. ASSUME NEW i \in Items, Touch(i) PROVE IInv'
  BY <1>1, ConstantsAssumption
  DEF IInv, TypeOK, Whereabouts, Released, Loops, Touch,
      rest, release, outer, Contents, Entries, Phases, Fetching
<1>2. CASE Boot
  BY <1>2, ConstantsAssumption
  DEF IInv, TypeOK, Whereabouts, Released, Loops, Boot, release, Contents, Entries, Phases, Fetching
<1> QED
  BY <1>1, <1>2

LEMMA EndIInv ==
  ASSUME IInv, Restart \/ Fail \/ Crash
  PROVE  IInv'
<1>1. dir' \in [Entries -> Contents]
  BY DEF IInv, TypeOK, Restart, Fail, Crash, Contents
<1>2. Return /\ UNCHANGED <<running, owned, runs>> /\ crashes' \in Nat
  BY DEF IInv, TypeOK, Restart, Fail, Crash, rest, release, outer
<1>3. up' \in BOOLEAN /\ failed' \in BOOLEAN
  <2>1. CASE Fail
    <3>1. up' = up /\ up \in BOOLEAN /\ failed' = TRUE
      BY <2>1 DEF IInv, TypeOK, Fail
    <3> QED
      BY <3>1
  <2>2. CASE Restart \/ Crash
    <3>1. up' = FALSE /\ failed' = failed /\ failed \in BOOLEAN
      BY <2>2 DEF IInv, TypeOK, Restart, Crash
    <3> QED
      BY <3>1
  <2> QED
    BY <2>1, <2>2
<1> QED
  BY <1>1, <1>2, <1>3, ReturnIInv

LEMMA NextIInv == IInv /\ [Next]_vars => IInv'
<1> SUFFICES ASSUME IInv, [Next]_vars PROVE IInv'
  OBVIOUS
<1>1. CASE UNCHANGED vars
  BY <1>1 DEF vars, rest, release, outer, IInv, TypeOK, Whereabouts, Released, Loops
<1>2. CASE Begin
  BY <1>2, PhasesIInv
<1>3. CASE Step
  BY <1>3, PhasesIInv, EndsIInv, EndIInv, MovesIInv, FilesIInv DEF Step
<1>4. CASE Boot \/ \E i \in Items : Touch(i)
  BY <1>4, AroundIInv
<1>5. CASE Crash
  BY <1>5, EndIInv
<1> QED
  BY <1>1, <1>2, <1>3, <1>4, <1>5 DEF Next

THEOREM Invariance == Spec => []IInv
  BY InitIInv, NextIInv, PTL DEF Spec

\* No entry of the runtime state is ever only in part, or nowhere, while a
\* self-update is under way.
THEOREM NeverNowhere == Spec => []StateSurvives
<1>1. IInv => StateSurvives
  BY DEF IInv, TypeOK, Whereabouts, StateSurvives, Phases, Fetching
<1> QED
  BY <1>1, Invariance, PTL

\* The server is restarted on a complete release with all its state.
THEOREM RestartsWhole == Spec => []BackInPlace
<1>1. IInv => BackInPlace
  BY DEF IInv, Whereabouts, Released, BackInPlace
<1> QED
  BY <1>1, Invariance, PTL
==============================================================================
