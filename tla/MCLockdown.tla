----------------------------- MODULE MCLockdown ------------------------------
(***************************************************************************)
(* Lockdown with few attempts: a block at the second, a lock at the third.  *)
(***************************************************************************)
EXTENDS Lockdown

CONSTANTS h1, h2, a, b, c
==============================================================================
