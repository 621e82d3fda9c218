---------------------------- MODULE MCSelfUpdate -----------------------------
(***************************************************************************)
(* An installation with a directory nobody recreates, one that requests     *)
(* recreate, a file they recreate and a file made at the start of the       *)
(* server; two program files.                                               *)
(***************************************************************************)
EXTENDS SelfUpdate

MCItems   == {"data", "tools", ".lockdown.json", ".token"}
MCDirs    == {"data", "tools"}
MCProgram == {"bin", "service"}
MCTouched == {"tools", ".lockdown.json"}
MCBootMade == {"data", "tools"}
==============================================================================
