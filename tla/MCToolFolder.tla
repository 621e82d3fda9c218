----------------------------- MODULE MCToolFolder -----------------------------
(***************************************************************************)
(* A binary, a configuration file and directory, and a file of the owner's; *)
(* an archive with the binary in it, and one whose best executable lies in   *)
(* a directory, beside another one, a readme and an archive.  The owner has *)
(* a conf.tmp too.                                                          *)
(***************************************************************************)
EXTENDS ToolFolder

CONSTANTS bin, conf, configs, own, alt, sub, readme, zip, v1, v2,
          binTmp, confTmp, altTmp, subTmp, readmeTmp, zipTmp

MCTmpOf == [f \in {bin, conf, alt, sub, readme, zip} |->
  CASE f = bin -> binTmp [] f = conf -> confTmp [] f = alt -> altTmp
    [] f = sub -> subTmp [] f = readme -> readmeTmp [] f = zip -> zipTmp]

MCOrder == <<bin, conf, configs>>

MCArchives ==
  { << [file |-> conf, exec |-> FALSE, data |-> v2],
       [file |-> bin,  exec |-> TRUE,  data |-> v2] >>,
    << [file |-> readme, exec |-> FALSE, data |-> v1],
       [file |-> alt,  exec |-> TRUE,  data |-> v1],
       [file |-> sub,  exec |-> FALSE, data |-> v2],
       [file |-> zip,  exec |-> TRUE, data |-> v1] >> }
==============================================================================
