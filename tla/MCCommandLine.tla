---------------------------- MODULE MCCommandLine ----------------------------
(***************************************************************************)
(* Every command, and up to three arguments out of one or two of each      *)
(* family that parse_options treats alike.                                 *)
(***************************************************************************)
EXTENDS CommandLine

MCArguments ==
  [kind : {"view"}, name : {"overview", "headers", "strings", "disasm", "hex"}]
  \cup [kind : {"flag"}, name : Flag]
  \cup [kind : {"default"}, name : {"hit limit", "hex width"}]
  \cup [kind : {"no disasm", "help", "invalid"}, name : {"-"}]
=============================================================================
