----------------------------- MODULE MCPatchMode -----------------------------
(***************************************************************************)
(* A size_t of three bits and files of up to three bytes, so that patches  *)
(* touch, overlap, reach past the end and wrap around.                     *)
(***************************************************************************)
EXTENDS PatchMode

MCByte   == {"0", "x", "y"}
MCInputs == {<<>>, <<"0", "0", "0">>}

MCRequests ==
  [offset : {0, 1, 2, 7}, bytes : {<<"x">>, <<"y", "x">>}]
=============================================================================
