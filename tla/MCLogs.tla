-------------------------------- MODULE MCLogs --------------------------------
(***************************************************************************)
(* boot.log and one log PM2 writes, full with its second line.             *)
(***************************************************************************)
EXTENDS Logs, TLC

CONSTANTS p1, p2, a, b, c, d, e, f

Swaps == Permutations(Procs) \cup Permutations(Inodes)
==============================================================================
