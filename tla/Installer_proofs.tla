--------------------------- MODULE Installer_proofs ---------------------------
(***************************************************************************)
(* The installer never deletes runtime state: the inductive invariant of    *)
(* Installer, for every set of entries and every number of runs.            *)
(***************************************************************************)
EXTENDS Installer, TLAPS

Kinds == {"state", "fresh"}

\* mv of a directory into a directory keeps what either holds.
LEMMA HoldsConcat ==
  ASSUME NEW d \in Seq(Kinds), NEW e \in Seq(Kinds)
  PROVE  /\ d \o e \in Seq(Kinds)
         /\ Holds(d \o e) <=> Holds(d) \/ Holds(e)
<1>1. d \o e \in Seq(Kinds)
  OBVIOUS
<1>2. ASSUME Holds(d)
      PROVE  Holds(d \o e)
  <2>1. PICK k \in 1..Len(d) : d[k] = "state"
    BY <1>2 DEF Holds, ToSet
  <2>2. k \in 1..Len(d \o e) /\ (d \o e)[k] = "state"
    BY <2>1
  <2> QED
    BY <2>2, <1>1 DEF Holds, ToSet
<1>3. ASSUME Holds(e)
      PROVE  Holds(d \o e)
  <2>1. PICK k \in 1..Len(e) : e[k] = "state"
    BY <1>3 DEF Holds, ToSet
  <2>2. Len(d) + k \in 1..Len(d \o e) /\ (d \o e)[Len(d) + k] = "state"
    BY <2>1
  <2> QED
    BY <2>2, <1>1 DEF Holds, ToSet
<1>4. ASSUME Holds(d \o e)
      PROVE  Holds(d) \/ Holds(e)
  <2>1. PICK k \in 1..(Len(d) + Len(e)) : (d \o e)[k] = "state"
    BY <1>4 DEF Holds, ToSet
  <2>2. CASE k <= Len(d)
    BY <2>1, <2>2 DEF Holds, ToSet
  <2>3. CASE k > Len(d)
    <3>1. k - Len(d) \in 1..Len(e) /\ e[k - Len(d)] = "state"
      BY <2>1, <2>3
    <3> QED
      BY <3>1 DEF Holds, ToSet
  <2> QED
    BY <2>1, <2>2, <2>3
<1> QED
  BY <1>1, <1>2, <1>3, <1>4

\* What the entries the script makes hold.
LEMMA HoldsSimple ==
  /\ NoItem \in Seq(Kinds) /\ ~Holds(NoItem)
  /\ <<"fresh">> \in Seq(Kinds) /\ ~Holds(<<"fresh">>)
  /\ <<"state">> \in Seq(Kinds) /\ Holds(<<"state">>)
  /\ <<"fresh">> # NoItem /\ <<"state">> # NoItem /\ <<"state">> # <<"fresh">>
BY DEF Kinds, NoItem, Holds, ToSet

\* State survives a step in which, entry by entry, what held it in the
\* installation or a PRESERVE_DIR still does.
LEMMA StillThere ==
  ASSUME NothingDeleted, owned' = owned,
         \A i \in owned : Holds(dir[i]) => Holds(dir'[i]) \/ \E r \in Runs : Holds(aside'[r][i]),
         \A i \in owned : \A r \in Runs :
           Holds(aside[r][i]) => Holds(dir'[i]) \/ \E q \in Runs : Holds(aside'[q][i])
  PROVE  NothingDeleted'
BY DEF NothingDeleted, Holds

THEOREM InitIInv == Init => IInv
<1> SUFFICES ASSUME Init PROVE IInv
  OBVIOUS
<1>1. \A i \in Items : dir[i] \in {NoItem, <<"state">>} /\ (Holds(dir[i]) <=> i \in owned)
  BY HoldsSimple DEF Init
<1>2. TypeOK
  BY <1>1, HoldsSimple DEF Init, TypeOK, Kinds
<1>3. NothingDeleted
  BY <1>1 DEF Init, NothingDeleted
<1>4. Ahead /\ Cleared
  BY DEF Init, Ahead, Cleared
<1>5. Plain
  BY <1>1, HoldsSimple, InstallerAssumption DEF Init, Plain, Items
<1> QED
  BY <1>2, <1>3, <1>4, <1>5 DEF Init, IInv

THEOREM NextIInv == IInv /\ [Next]_vars => IInv'
<1> SUFFICES ASSUME IInv, [Next]_vars PROVE IInv'
  OBVIOUS
<1> USE InstallerAssumption, HoldsSimple DEF IInv
<1>1. CASE Begin
  <2>1. TypeOK'
    BY <1>1 DEF Begin, TypeOK, Kinds, Runs, Broken
  <2>2. NothingDeleted'
    BY <1>1, StillThere DEF Begin
  <2>3. Ahead'
    BY <1>1 DEF Begin, TypeOK, Ahead, Runs
  <2>4. Cleared' /\ Plain'
    BY <1>1 DEF Begin, TypeOK, Cleared, Plain, Items
  <2> QED
    BY <1>1, <2>1, <2>2, <2>3, <2>4 DEF Begin
<1>2. CASE Fetch
  <2>1. TypeOK'
    BY <1>2 DEF Fetch, TypeOK, Kinds, Runs, Broken
  <2>2. NothingDeleted'
    BY <1>2, StillThere DEF Fetch
  <2>3. Ahead'
    BY <1>2 DEF Fetch, TypeOK, Ahead, Runs
  <2>4. Cleared' /\ Plain'
    BY <1>2 DEF Fetch, TypeOK, Cleared, Plain, Items
  <2> QED
    BY <1>2, <2>1, <2>2, <2>3, <2>4 DEF Fetch
<1>3. CASE Stop
  <2>1. TypeOK'
    BY <1>3 DEF Stop, TypeOK, Kinds, Runs, Broken
  <2>2. NothingDeleted'
    BY <1>3, StillThere DEF Stop
  <2>3. Ahead'
    BY <1>3 DEF Stop, TypeOK, Ahead, Runs
  <2>4. Cleared' /\ Plain'
    BY <1>3 DEF Stop, TypeOK, Cleared, Plain, Items
  <2> QED
    BY <1>3, <2>1, <2>2, <2>3, <2>4 DEF Stop
<1>4. CASE Wipe
  <2>1. TypeOK'
    BY <1>4 DEF Wipe, TypeOK, Kinds, Runs, Broken
  <2>2. NothingDeleted'
    <3>1. \A i \in owned : ~Holds(dir[i])
      BY <1>4 DEF Wipe, TypeOK, Cleared
    <3> QED
      BY <1>4, <3>1, StillThere DEF Wipe
  <2>3. Ahead'
    BY <1>4 DEF Wipe, TypeOK, Ahead, Runs
  <2>4. Cleared' /\ Plain'
    BY <1>4 DEF Wipe, TypeOK, Cleared, Plain, Items
  <2> QED
    BY <1>4, <2>1, <2>2, <2>3, <2>4 DEF Wipe
<1>5. CASE Make
  <2>1. TypeOK'
    BY <1>5 DEF Make, TypeOK, Kinds, Runs, Broken
  <2>2. NothingDeleted'
    <3>1. \A i \in owned : Holds(dir[i]) => dir'[i] = dir[i]
      BY <1>5 DEF Make, TypeOK
    <3>2. \A i \in owned : Holds(dir[i]) => Holds(dir'[i])
      BY <3>1
    <3> QED
      BY <1>5, <3>2, StillThere DEF Make
  <2>3. Ahead'
    BY <1>5 DEF Make, TypeOK, Ahead, Runs
  <2>4. Cleared' /\ Plain'
    BY <1>5 DEF Make, TypeOK, Cleared, Plain, Items
  <2> QED
    BY <1>5, <2>1, <2>2, <2>3, <2>4 DEF Make
<1>6. CASE Copy
  <2>1. TypeOK'
    BY <1>6 DEF Copy, TypeOK, Kinds, Runs, Broken
  <2>2. NothingDeleted'
    BY <1>6, StillThere DEF Copy
  <2>3. Ahead'
    BY <1>6 DEF Copy, TypeOK, Ahead, Runs
  <2>4. Cleared' /\ Plain'
    BY <1>6 DEF Copy, TypeOK, Cleared, Plain, Items
  <2> QED
    BY <1>6, <2>1, <2>2, <2>3, <2>4 DEF Copy
<1>7. CASE Start
  <2>1. TypeOK'
    BY <1>7 DEF Start, TypeOK, Kinds, Runs, Broken
  <2>2. NothingDeleted'
    BY <1>7, StillThere DEF Start
  <2>3. Ahead'
    BY <1>7 DEF Start, TypeOK, Ahead, Runs
  <2>4. Cleared' /\ Plain'
    BY <1>7 DEF Start, TypeOK, Cleared, Plain, Items
  <2> QED
    BY <1>7, <2>1, <2>2, <2>3, <2>4 DEF Start
<1>8. CASE Finish
  <2>1. TypeOK'
    BY <1>8 DEF Finish, TypeOK, Kinds, Runs, Broken
  <2>2. NothingDeleted'
    <3>1. \A i \in owned, r \in Runs : Holds(aside[r][i]) => aside'[r][i] = aside[r][i]
      BY <1>8 DEF Finish, TypeOK, Ahead
    <3>2. \A i \in owned, r \in Runs : Holds(aside[r][i]) => Holds(aside'[r][i])
      BY <3>1
    <3> QED
      BY <1>8, <3>2, StillThere DEF Finish
  <2>3. Ahead'
    BY <1>8 DEF Finish, TypeOK, Ahead, Runs
  <2>4. Cleared' /\ Plain'
    BY <1>8 DEF Finish, TypeOK, Cleared, Plain, Items
  <2> QED
    BY <1>8, <2>1, <2>2, <2>3, <2>4 DEF Finish
<1>9. CASE Fail
  <2>1. TypeOK'
    BY <1>9 DEF Fail, TypeOK, Kinds, Runs, Broken
  <2>2. NothingDeleted'
    BY <1>9, StillThere DEF Fail
  <2>3. Ahead'
    BY <1>9 DEF Fail, TypeOK, Ahead, Runs
  <2>4. Cleared' /\ Plain'
    BY <1>9 DEF Fail, TypeOK, Cleared, Plain, Items
  <2> QED
    BY <1>9, <2>1, <2>2, <2>3, <2>4 DEF Fail
<1>10. ASSUME NEW i \in Items, Preserve(i)
      PROVE  IInv'
  <2>1. TypeOK'
    BY <1>10 DEF Preserve, TypeOK, Kinds, Runs
  <2>2. NothingDeleted'
    <3>1. \A j \in owned : j # i => dir'[j] = dir[j]
      BY <1>10 DEF Preserve, TypeOK
    <3>2. run \in Runs /\ aside'[run][i] = dir[i] /\ aside[run][i] = NoItem
      BY <1>10 DEF Preserve, TypeOK, Ahead
    <3>3. \A j \in owned, r \in Runs : j # i \/ r # run => aside'[r][j] = aside[r][j]
      BY <1>10 DEF Preserve, TypeOK
    <3>4. \A j \in owned : Holds(dir[j]) => Holds(dir'[j]) \/ \E r \in Runs : Holds(aside'[r][j])
      BY <3>1, <3>2
    <3>5. \A j \in owned, r \in Runs : Holds(aside[r][j]) => Holds(aside'[r][j])
      BY <3>2, <3>3
    <3> QED
      BY <1>10, <3>4, <3>5, StillThere DEF Preserve
  <2>3. Ahead'
    BY <1>10 DEF Preserve, TypeOK, Ahead, Runs
  <2>4. Cleared' /\ Plain'
    BY <1>10 DEF Preserve, TypeOK, Cleared, Plain, Items
  <2> QED
    BY <1>10, <2>1, <2>2, <2>3, <2>4 DEF Preserve
<1>11. ASSUME NEW i \in Items, Restore(i)
      PROVE  IInv'
  <2> DEFINE old == dir[i]  kept == aside[run][i]
  <2>1. /\ run \in Runs /\ i \in todo /\ pc = "restore" /\ pc' = "restore"
        /\ old \in Seq(Kinds) /\ kept \in Seq(Kinds) /\ ~Holds(old)
    BY <1>11 DEF Restore, TypeOK, Ahead, Cleared, Kinds
  <2>2. /\ dir'[i] \in Seq(Kinds)
        /\ Holds(dir'[i]) <=> Holds(kept)
        /\ i \in Files => dir'[i] = kept
    <3>1. old \o kept \in Seq(Kinds) /\ (Holds(old \o kept) <=> Holds(kept))
      BY <2>1, HoldsConcat
    <3>2. dir'[i] = IF i \in Dirs THEN old \o kept ELSE kept
      BY <1>11 DEF Restore, TypeOK
    <3> QED
      BY <2>1, <3>1, <3>2
  <2>3. /\ dir' \in [Items -> Seq(Kinds)]
        /\ \A j \in Items : j # i => dir'[j] = dir[j]
    BY <1>11, <2>2 DEF Restore, TypeOK, Kinds
  <2>4. /\ aside' \in [Runs -> [Items -> Seq(Kinds)]]
        /\ aside'[run][i] = NoItem
        /\ \A j \in Items, r \in Runs : j # i \/ r # run => aside'[r][j] = aside[r][j]
    BY <1>11, <2>1 DEF Restore, TypeOK, Kinds
  <2>5. TypeOK'
    BY <1>11, <2>3, <2>4 DEF Restore, TypeOK, Kinds
  <2>6. NothingDeleted'
    <3>1. \A j \in owned : Holds(dir[j]) => Holds(dir'[j])
      BY <2>1, <2>3 DEF TypeOK
    <3>2. \A j \in owned, r \in Runs : Holds(aside[r][j]) => Holds(dir'[j]) \/ Holds(aside'[r][j])
      BY <2>2, <2>4 DEF TypeOK
    <3> QED
      BY <1>11, <3>1, <3>2, StillThere DEF Restore
  <2>7. Ahead'
    BY <1>11, <2>1, <2>4 DEF Restore, Ahead, Runs
  <2>8. Cleared'
    BY <1>11, <2>1, <2>3 DEF Restore, Cleared
  <2>9. Plain'
    <3>1. i \notin owned => ~Holds(kept)
      BY <2>1 DEF Plain
    <3>2. \A j \in Items \ owned : ~Holds(dir'[j]) /\ \A r \in Runs : ~Holds(aside'[r][j])
      BY <2>2, <2>3, <2>4, <3>1 DEF Plain
    <3>3. \A f \in Files : f # i => dir'[f] = dir[f]
      BY <2>3 DEF Items
    <3>4. i \in Files => dir'[i] \in {NoItem, <<"state">>, <<"fresh">>}
      BY <2>1, <2>2 DEF Plain
    <3>5. \A f \in Files, r \in Runs : aside'[r][f] \in {aside[r][f], NoItem}
      BY <2>4 DEF Items
    <3>6. \A f \in Files : \A e \in {dir'[f]} \cup {aside'[r][f] : r \in Runs} :
            e \in {NoItem, <<"state">>, <<"fresh">>}
      BY <3>3, <3>4, <3>5 DEF Plain
    <3> QED
      BY <1>11, <3>2, <3>6 DEF Restore, Plain
  <2> QED
    BY <1>11, <2>1, <2>5, <2>6, <2>7, <2>8, <2>9 DEF Restore
<1>12. ASSUME NEW i \in Items, Touch(i)
      PROVE  IInv'
  <2>1. TypeOK'
    BY <1>12 DEF Touch, TypeOK, Kinds, Runs
  <2>2. NothingDeleted'
    BY <1>12, StillThere DEF Touch
  <2>3. Ahead'
    BY <1>12 DEF Touch, TypeOK, Ahead, Runs
  <2>4. Cleared' /\ Plain'
    BY <1>12 DEF Touch, TypeOK, Cleared, Plain, Items
  <2> QED
    BY <1>12, <2>1, <2>2, <2>3, <2>4 DEF Touch
<1>13. CASE UNCHANGED vars
  BY <1>13 DEF vars, TypeOK, NothingDeleted, Ahead, Cleared, Plain, Holds
<1> QED
  BY <1>1, <1>2, <1>3, <1>4, <1>5, <1>6, <1>7, <1>8, <1>9, <1>10, <1>11, <1>12, <1>13 DEF Next

\* The invariant holds for every installation, every set of entries and any
\* number of runs of scripts/install.sh.
THEOREM Invariance == Spec => []IInv
<1> QED
  BY InitIInv, NextIInv, PTL DEF Spec

\* No run of the installer ever deletes runtime state, whatever fails.
THEOREM NeverDeletes == Spec => []NothingDeleted
<1>1. IInv => NothingDeleted
  BY DEF IInv
<1> QED
  BY <1>1, Invariance, PTL

\* The service is started with the new release and all the state the run set
\* aside under INSTALL_DIR.
THEOREM StartsComplete == Spec => []StartsWithState
<1>1. IInv => StartsWithState
  <2> SUFFICES ASSUME IInv, pc = "finish",
                      NEW i \in owned, \A r \in 1..(run - 1) : ~Holds(aside[r][i])
               PROVE  program = "new" /\ Holds(dir[i]) /\ (i \in Files => dir[i] = <<"state">>)
    BY DEF StartsWithState, IInv
  <2>1. i \in Items
    BY DEF IInv, TypeOK
  <2>2. ASSUME NEW r \in Runs
        PROVE  ~Holds(aside[r][i])
    <3>1. r \in 1..(run - 1) \/ r = run \/ r > run
      BY InstallerAssumption DEF IInv, TypeOK, Runs
    <3>2. r = run \/ r > run => aside[r][i] = NoItem
      BY <2>1 DEF IInv, Ahead
    <3> QED
      BY <3>1, <3>2, HoldsSimple
  <2>3. Holds(dir[i])
    BY <2>2 DEF IInv, NothingDeleted
  <2>4. i \in Files => dir[i] = <<"state">>
    BY <2>3, HoldsSimple DEF IInv, Plain
  <2> QED
    BY <2>3, <2>4 DEF IInv
<1> QED
  BY <1>1, Invariance, PTL
==============================================================================
