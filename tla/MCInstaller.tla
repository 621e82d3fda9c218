----------------------------- MODULE MCInstaller -----------------------------
(***************************************************************************)
(* A directory the script makes and a running server may make, one nobody  *)
(* makes, a file the server makes and one it does not.                      *)
(***************************************************************************)
EXTENDS Installer

MCDirs    == {"data", "configs"}
MCFiles   == {".token", ".lockdown.json"}
MCMade    == {"data"}
MCTouched == {"data", ".lockdown.json"}
==============================================================================
