---------------------------- MODULE MCToolManager ----------------------------
(***************************************************************************)
(* Instances of ToolManager: a tool "scale" and "twin", a second name for   *)
(* its folder (slugifyName maps several names to one slug); URLs of each    *)
(* kind.  An archive's binary is named after the slug, a direct download    *)
(* after the URL, which may end in the slug too ("asset").                  *)
(***************************************************************************)
EXTENDS ToolManager

CONSTANTS scale, twin, folder, v1, v2, h1, h2, boot

MCSlugOf == [n \in Names |-> folder]

MCBinOf   == [u \in Urls |-> CASE u = "direct" -> "tool" [] u = "other" -> "tool-v2" [] OTHER -> "slug"]
MCKindOf  == [u \in Urls |-> CASE u = "zip" -> "named" [] u = "odd" -> "unnamed" [] OTHER -> "direct"]
BothServed == [u \in Urls |-> {v1, v2}]
OneServed  == [u \in Urls |-> {v2}]

\* One tool; OldLayout: its row names a binary under a former ToolsDir.
Direct    == [n \in Names |-> IF n = scale THEN [url |-> "direct", bin |-> "tool"] ELSE NoRow]
Asset     == [n \in Names |-> IF n = scale THEN [url |-> "asset", bin |-> "slug"] ELSE NoRow]
Archive   == [n \in Names |-> IF n = scale THEN [url |-> "odd", bin |-> "slug"] ELSE NoRow]
OldLayout == [n \in Names |-> IF n = scale THEN [url |-> "direct", bin |-> "old"] ELSE NoRow]

NoFaults  == {}
AllFaults == Fallible \cup Residual

Workers == Permutations(Procs)
==============================================================================
