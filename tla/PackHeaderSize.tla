--------------------------- MODULE PackHeaderSize ---------------------------
(***************************************************************************)
(* get_pack_header_size of src/upx_repair.c: how long the header of a UPX  *)
(* version is for an output format.  28 and more are the layouts that      *)
(* carry the unpacked file size.                                           *)
(***************************************************************************)
EXTENDS Integers

HeaderSize(version, format) ==
  CASE version <= 3                          -> 24
    [] version \in 4..9 /\ format \in {1, 2} -> 20
    [] version \in 4..9 /\ format \in {3, 7} -> 25
    [] version \in 4..9                      -> 28
    [] format \in {1, 2}                     -> 22
    [] format \in {3, 7}                     -> 27
    [] OTHER                                 -> 32
=============================================================================
