----------------------------- MODULE MCUpxUnpack -----------------------------
(***************************************************************************)
(* Two processes and two roots; every kind of request meets every other.   *)
(***************************************************************************)
EXTENDS UpxUnpack

MCRequest(user, version, fetch, elf, release) ==
  [user |-> user, version |-> version, fetch |-> fetch, elf |-> elf,
   release |-> release]

MCRequests ==
  {MCRequest(TRUE,  "v1",      TRUE,  TRUE,  "v2"),
   MCRequest(FALSE, "v1",      TRUE,  TRUE,  "v2"),
   MCRequest(FALSE, "v1",      FALSE, TRUE,  NoVersion),
   MCRequest(FALSE, NoVersion, TRUE,  TRUE,  "v1"),
   MCRequest(FALSE, NoVersion, FALSE, TRUE,  "v1"),
   MCRequest(FALSE, NoVersion, TRUE,  FALSE, "v1")}

MCInstalled ==
  {[vr \in Version \X Root |-> IF vr \in S THEN "whole" ELSE "absent"] :
     S \in {{}, {<<"v1", 2>>}, {<<"v2", 1>>}}}
=============================================================================
