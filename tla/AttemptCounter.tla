---------------------------- MODULE AttemptCounter ----------------------------
(***************************************************************************)
(* What the lockdown protection promises, with no file, lock or process: a  *)
(* counter of failed logins that blocks for a while from Soft on and locks  *)
(* for good at Hard; every attempt counts once; only a login resets the     *)
(* count, and nothing but the local command unlocks.                        *)
(***************************************************************************)
EXTENDS Naturals

CONSTANTS Soft, Hard

VARIABLES failed, blocked, locked

vars == <<failed, blocked, locked>>

Init == failed = 0 /\ blocked = FALSE /\ locked = FALSE

Attempt ==
  /\ failed' = failed + 1
  /\ blocked' = (blocked \/ failed + 1 >= Soft)
  /\ locked' = (locked \/ failed + 1 >= Hard)

Login == failed' = 0 /\ blocked' = FALSE /\ UNCHANGED locked

Expire == blocked' = FALSE /\ UNCHANGED <<failed, locked>>

\* The local command.
Unlock == failed' = 0 /\ blocked' = FALSE /\ locked' = FALSE

\* What the service does; only the command unlocks.
Served == Attempt \/ Login \/ Expire

Next == Served \/ Unlock

Spec == Init /\ [][Next]_vars
==============================================================================
