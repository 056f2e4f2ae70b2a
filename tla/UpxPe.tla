-------------------------------- MODULE UpxPe --------------------------------
(***************************************************************************)
(* repair_upx_pe_buffer of src/upx_repair.c, and the packed-file test of   *)
(* detect_upx_pe_packing in src/binsight.c, on the bytes of one PE file.   *)
(*                                                                         *)
(* Both look for the UPX header in two windows near the raw data of the    *)
(* second and third section, byte by byte.  Candidates may share bytes     *)
(* with each other and with the PE headers, so a file is its bytes: the    *)
(* byte at offset o is f[o + 1].                                           *)
(***************************************************************************)
EXTENDS PackHeaderSize, Sequences

Byte   == 0..255
PeFile == Seq(Byte)

CONSTANTS
  Names,    \* what may be written over a section name
  Magics,   \* what may be written over the magic of the header
  Tails     \* what may be appended

ASSUME TamperAssumption ==
  Names \subseteq [1..8 -> Byte] /\ Magics \subseteq [1..4 -> Byte] /\ Tails \subseteq PeFile

U16(f, o) == f[o + 1] + 256 * f[o + 2]
U32(f, o) == U16(f, o) + 65536 * U16(f, o + 2)

\* memcmp: the bytes s stand at offset o.
Holds(f, o, s) == \A k \in 1..Len(s) : f[o + k] = s[k]

\* patch_bytes
Patch(f, o, s) ==
  [i \in 1..Len(f) |-> IF i - o \in 1..Len(s) THEN s[i - o] ELSE f[i]]

UPX  == <<85, 80, 88, 33>>                  \* "UPX!"
UPX0 == <<85, 80, 88, 48, 0, 0, 0, 0>>
UPX1 == <<85, 80, 88, 49, 0, 0, 0, 0>>

-----------------------------------------------------------------------------
(***************************************************************************)
(* infer_pe_layout.  Machine and section count stand behind the signature, *)
(* the section table behind the optional header.                           *)
(***************************************************************************)
PeOffset(f)     == U32(f, 60)
Count(f)        == U16(f, PeOffset(f) + 6)
OptionalSize(f) == U16(f, PeOffset(f) + 20)
Optional(f)     == PeOffset(f) + 24

SectionAt(f, i) == Optional(f) + OptionalSize(f) + 40 * i

TableEnd(f) == SectionAt(f, Count(f))

RawSize(f, i)   == U32(f, SectionAt(f, i) + 16)
RawOffset(f, i) == U32(f, SectionAt(f, i) + 20)

Signed(f) ==
  /\ Len(f) >= 64 /\ Holds(f, 0, <<77, 90>>)
  /\ Optional(f) <= Len(f) /\ Holds(f, PeOffset(f), <<80, 69, 0, 0>>)

TableFits(f) == Count(f) \in 2..16 /\ TableEnd(f) <= Len(f)

Sound(f) ==
  /\ Signed(f)
  /\ TableFits(f)
  /\ OptionalSize(f) >= 96
  /\ U16(f, Optional(f)) \in {267, 523}
  /\ \A i \in 0..(Count(f) - 1) :
       RawSize(f, i) = 0 \/ RawOffset(f, i) + RawSize(f, i) <= Len(f)

\* pe_machine_to_upx_format; 0 stands for the machines that have no format.
WinceArm == 21

Format(f) ==
  LET machine == U16(f, PeOffset(f) + 4)
  IN  CASE machine = 332          -> 9
        [] machine = 34404        -> 36
        [] machine \in {450, 452} -> WinceArm
        [] OTHER                  -> 0

Efi(f) == U16(f, Optional(f) + 68) \in 10..13

-----------------------------------------------------------------------------
\* The windows: 64 bytes before the second section's data, and the third's.
Window == 1..2

Start(f, w) == IF w = 1 THEN RawOffset(f, 1) - 64 ELSE RawOffset(f, 2)

\* A bug: off by one, the window may begin before the file.
ExistsTooEarly(f, w) == IF w = 1 THEN RawOffset(f, 1) >= 63 ELSE Count(f) >= 3

Exists(f, w) == IF w = 1 THEN RawOffset(f, 1) >= 64 ELSE Count(f) >= 3

Least(a, b) == IF a <= b THEN a ELSE b

Limit(f, w) == Least(Start(f, w) + 1024, Len(f))

\* The loop condition of the scan.
Scans(f, w, o) == o + 28 <= Limit(f, w) /\ o < Start(f, w) + 128

(***************************************************************************)
(* get_pack_header_checksum: the sum of the bytes between the magic and    *)
(* the stored checksum, modulo 251.  Where there is one, and the header is *)
(* long enough to be looked at, it has 32 bytes, so these are 27.          *)
(***************************************************************************)
Three(f, i) == f[i] + f[i + 1] + f[i + 2]
Nine(f, i)  == Three(f, i) + Three(f, i + 3) + Three(f, i + 6)

Checksum(f, o) == (Nine(f, o + 5) + Nine(f, o + 14) + Nine(f, o + 23)) % 251

Version(f, o) == f[o + 5]

HeaderEnd(f, o) == o + HeaderSize(Version(f, o), f[o + 6])

ChecksumValid(f, o) == Version(f, o) >= 10 => f[o + 32] = Checksum(f, o)

(***************************************************************************)
(* The tests of detect_pe_pack_header_in_window.  The magic is not one of  *)
(* them, and the lengths are held to other bounds than those of the        *)
(* ELF search.                                                             *)
(***************************************************************************)
Accepts(f, w, o) ==
  /\ Version(f, o) \in 1..20 /\ f[o + 6] = Format(f)
  /\ HeaderEnd(f, o) >= o + 28 /\ HeaderEnd(f, o) <= Limit(f, w)
  /\ U32(f, o + 20) >= 2 /\ U32(f, o + 16) >= U32(f, o + 20)
  /\ U32(f, o + 24) # 0
  /\ ChecksumValid(f, o)

Hits(f, w) ==
  {o \in Start(f, w)..(Start(f, w) + 127) :
     Exists(f, w) /\ Scans(f, w, o) /\ Accepts(f, w, o)}

First(S) == {o \in S : \A q \in S : o <= q}

Located(f) == IF Hits(f, 1) # {} THEN First(Hits(f, 1)) ELSE First(Hits(f, 2))

SmallLayout(f) ==
  /\ Sound(f)
  /\ Format(f) # 0
  /\ Count(f) \in (IF Efi(f) THEN 2 ELSE 3)..(IF Format(f) = WinceArm THEN 4 ELSE 3)

Repairable(f) == SmallLayout(f) /\ Located(f) # {}

TheOffset(f) == CHOOSE o \in Located(f) : TRUE

-----------------------------------------------------------------------------
(***************************************************************************)
(* The writes, in their order: the magic, the two names, the checksum.  A  *)
(* name is tested by its first four bytes and written with eight, where    *)
(* and in the version that the sample f said.                              *)
(***************************************************************************)
Named(b, at, name) ==
  IF Holds(b, at, SubSeq(name, 1, 4)) THEN b ELSE Patch(b, at, name)

Summed(b, o, version) ==
  IF version < 10 THEN b ELSE Patch(b, o + 31, <<Checksum(b, o)>>)

WithMagic(f) == Patch(f, TheOffset(f), UPX)
WithFirst(f) == Named(WithMagic(f), SectionAt(f, 0), UPX0)
WithNames(f) == Named(WithFirst(f), SectionAt(f, 1), UPX1)

Repaired(f) == Summed(WithNames(f), TheOffset(f), Version(f, TheOffset(f)))

\* What the summary lists: the magic, and which names were restored.
Fixes(f) ==
  {s \in {"pack magic", "first name", "second name"} :
     \/ s = "pack magic"  /\ ~Holds(f, TheOffset(f), UPX)
     \/ s = "first name"  /\ ~Holds(WithMagic(f), SectionAt(f, 0), SubSeq(UPX0, 1, 4))
     \/ s = "second name" /\ ~Holds(WithFirst(f), SectionAt(f, 1), SubSeq(UPX1, 1, 4))}

-----------------------------------------------------------------------------
(***************************************************************************)
(* detect_upx_pe_packing: the header fileinfo prints, and whether it calls *)
(* the file packed.  It asks for the magic, and not for sane lengths.      *)
(***************************************************************************)
Decodes(f, o) ==
  /\ Holds(f, o, UPX)
  /\ Version(f, o) \in 1..20 /\ f[o + 6] = Format(f)
  /\ HeaderEnd(f, o) >= o + 28 /\ HeaderEnd(f, o) <= Len(f)
  /\ U32(f, o + 24) # 0
  /\ ChecksumValid(f, o)

\* A bug: the scan is shorter than that of the repair.
FileinfoHitsNear(f, w) ==
  {o \in Start(f, w)..(Start(f, w) + 64) :
     Exists(f, w) /\ Scans(f, w, o) /\ Decodes(f, o)}

FileinfoHits(f, w) ==
  {o \in Start(f, w)..(Start(f, w) + 127) :
     Exists(f, w) /\ Scans(f, w, o) /\ Decodes(f, o)}

FileinfoReads(f) == Signed(f) /\ Format(f) # 0 /\ TableFits(f)

FileinfoOffset(f) ==
  IF ~FileinfoReads(f) THEN {}
  ELSE IF FileinfoHits(f, 1) # {} THEN First(FileinfoHits(f, 1))
  ELSE First(FileinfoHits(f, 2))

FileinfoPacked(f) ==
  /\ FileinfoReads(f)
  /\ \/ /\ Holds(f, SectionAt(f, 0), SubSeq(UPX0, 1, 4))
        /\ Holds(f, SectionAt(f, 1), SubSeq(UPX1, 1, 4))
     \/ FileinfoOffset(f) # {}

-----------------------------------------------------------------------------
(***************************************************************************)
(* Offsets that may read as something else after a repair of f, or after   *)
(* its magic and names are tampered with: writing n bytes at `at` changes  *)
(* one of the bytes 4 to 31 behind q, which are those that the scan tests. *)
(***************************************************************************)
Meets(q, at, n) == q + 4 < at + n /\ at < q + 32

Disturbs(f, q) ==
  \/ Meets(q, TheOffset(f), 4)
  \/ Meets(q, SectionAt(f, 0), 8) \/ Meets(q, SectionAt(f, 1), 8)

(***************************************************************************)
(* What UPX writes: sections in file order, its section names, and behind  *)
(* the section table a header of its own that is the first thing in the    *)
(* windows to read as one.                                                 *)
(***************************************************************************)
IsPacked(f) ==
  /\ Repairable(f)
  /\ TableEnd(f) <= TheOffset(f)
  /\ RawOffset(f, 1) < 64 \/ Count(f) < 3 \/ RawOffset(f, 1) + 64 <= RawOffset(f, 2)
  /\ Holds(f, TheOffset(f), UPX)
  /\ Holds(f, SectionAt(f, 0), UPX0) /\ Holds(f, SectionAt(f, 1), UPX1)

(***************************************************************************)
(* The README's cases, for a file whose own header is at offset o: section *)
(* names changed, the header's magic changed; and bytes appended.          *)
(***************************************************************************)
Tamperings(f, o) ==
  {Patch(f, SectionAt(f, i), n) : i \in 0..1, n \in Names}
  \cup {Patch(f, o, m) : m \in Magics}
  \cup {f \o t : t \in Tails}
=============================================================================
