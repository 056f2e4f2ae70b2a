--------------------------- MODULE UpxPackHeader ---------------------------
(***************************************************************************)
(* The UPX PackHeader of an ELF file as src/upx_repair.c and               *)
(* src/binsight.c judge it.                                                *)
(*                                                                         *)
(* A header is the run of bytes that follows a 4-byte magic.  Its fields   *)
(* are kept as numbers and the magic as a value: the code only ever        *)
(* compares a magic with "UPX!", with four zero bytes, or with another     *)
(* magic read from the same file.                                          *)
(*                                                                         *)
(*   version, format   bytes 4 and 5                                       *)
(*   ulen, clen        the words at offsets 16 and 20                      *)
(*   usize             the word at offset 24, the unpacked file size       *)
(*   csum              the stored checksum, the header's last byte         *)
(*   whole             whether the file holds every byte of the header     *)
(*   marker            what the release markers in these bytes, or behind  *)
(*                     them up to the next magic, say                      *)
(***************************************************************************)
EXTENDS PackHeaderSize

CONSTANT OtherMagics   \* four bytes that are neither "UPX!" nor all zero

UPX  == "UPX!"
Zero == "zero"         \* four zero bytes

Magics == {UPX, Zero} \cup OtherMagics

ASSUME MagicAssumption == OtherMagics \cap {UPX, Zero} = {}

(***************************************************************************)
(* What "$Id: UPX " markers say: the first digit behind one; failing that  *)
(* Word if a token without a digit follows one; and NoToken otherwise.     *)
(***************************************************************************)
NoToken == -2
Word    == -1
Token   == NoToken..9

Header ==
  [magic : Magics, version : Nat, format : Nat, ulen : Nat, clen : Nat,
   usize : Nat, csum : Nat, whole : BOOLEAN, marker : Token]

(***************************************************************************)
(* get_pack_header_checksum: the sum of the bytes between the magic and    *)
(* the stored checksum, modulo 251.  The magic takes no part in it.        *)
(***************************************************************************)
Checksum(h) == (h.version + h.format + h.ulen + h.clen + h.usize) % 251

ChecksumValid(h) == h.version >= 10 => h.csum = Checksum(h)

\* The tests every reader of a header makes, whatever it expects of it.
PlausibleHeader(h) ==
  /\ h.whole
  /\ h.version \in 1..20
  /\ h.format # 0
  /\ HeaderSize(h.version, h.format) >= 28
  /\ h.usize # 0
  /\ ChecksumValid(h)

\* decode_pack_header_candidate in a file of `size` bytes.
DecodesIn(h, size) ==
  /\ h.magic = UPX
  /\ PlausibleHeader(h)
  /\ h.ulen >= 2
  /\ h.clen >= 2
  /\ h.ulen <= size \/ h.clen <= size
  /\ h.ulen <= h.usize \/ h.clen <= h.usize

\* recompute_pack_header_checksum
Resummed(h) == IF h.version < 10 THEN h ELSE [h EXCEPT !.csum = Checksum(h)]
=============================================================================
