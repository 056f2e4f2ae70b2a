------------------------------ MODULE MCRawViews ------------------------------
(***************************************************************************)
(* Files over a zero and a letter, long enough for overlapping matches and *)
(* for the two UTF-16 readings of the same characters at both parities.    *)
(***************************************************************************)
EXTENDS RawViews

MCByte  == {"0", "a"}
MCFiles == UNION {[1..n -> MCByte] : n \in {0, 1, 4, 5}}
MCTexts == {<<"a">>, <<"a", "a">>, <<"0", "a">>}

MCHexRequests ==
  [start : {0, 1, 5, 6}, length : {4, 9}, width : {2}]
=============================================================================
