--------------------------- MODULE MCUpdateHistory ---------------------------
(* The instances of ToolManager, with the history of rivals. *)
EXTENDS UpdateHistory, MCToolManager
==============================================================================
