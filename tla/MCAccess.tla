------------------------------- MODULE MCAccess -------------------------------
(***************************************************************************)
(* One session and one request with it, two requests with a token; two      *)
(* tokens, one htm init, a block at the first attempt and a lock at the     *)
(* second.                                                                  *)
(***************************************************************************)
EXTENDS Access
==============================================================================
