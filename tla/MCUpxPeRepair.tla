---------------------------- MODULE MCUpxPeRepair ----------------------------
(***************************************************************************)
(* Packed files with headers in the first window, in the second, at the    *)
(* last offset that the scan reaches, and at the end of the file; decoys   *)
(* before and after them, some of which share bytes with them; and layouts *)
(* of two, three and four sections.                                        *)
(***************************************************************************)
EXTENDS UpxPeRepair

LOCAL INSTANCE SequencesExt

Zeros(n) == [k \in 1..n |-> 0]
Short(n) == <<n % 256, n \div 256>>
Long(n)  == Short(n) \o <<0, 0>>

\* An image of zeros with pieces put at their offsets, in order.
Image(size, pieces) ==
  FoldLeft(LAMBDA f, p : SubSeq(Patch(f, p[1], p[2]), 1, size), Zeros(size), pieces)

YTS == <<89, 84, 83, 33>>

-----------------------------------------------------------------------------
\* A header of 32 bytes with its checksum, and one of 28.
MCHead(version, format, ulen, clen) ==
  LET h == UPX \o <<version, format, 2, 9>> \o Long(7) \o Long(7)
           \o Long(ulen) \o Long(clen) \o Long(900) \o Zeros(4)
  IN  [h EXCEPT ![32] = Checksum(h, 0)]

Own(format) == MCHead(13, format, 600, 300)
Old(format) == SubSeq(MCHead(8, format, 600, 300), 1, 28)

\* A sum that is wrong, and lengths that only fileinfo accepts.
Broken(format) == [Own(format) EXCEPT ![32] = (@ + 1) % 251]
Stray(format)  == MCHead(12, format, 300, 600)

-----------------------------------------------------------------------------
(***************************************************************************)
(* The section table is at 184 and ends before 352.  The first window of a *)
(* file with raw1 = 416 begins at 352, the second with raw2 = 480 there.   *)
(***************************************************************************)
Headers(machine, count, subsystem, raw1, raw2) ==
  << <<0, <<77, 90>>>>, <<60, Long(64)>>, <<64, <<80, 69, 0, 0>>>>,
     <<68, Short(machine) \o Short(count)>>, <<84, Short(96)>>,
     <<88, Short(267)>>, <<156, Short(subsystem)>>,
     <<184, UPX0>>, <<224, UPX1>>,
     <<244, Long(raw1)>>, <<284, Long(raw2)>> >>

I386 == 332
Amd64 == 34404
Thumb == 450

\* A place twenty bytes before o that reads as a header only if the magic at o,
\* taken for a length, is a lesser number than "UPX!".
Ambush(o) == << <<o - 16, <<9, 9>>>>, <<o - 4, <<0, 0, 85, 33>>>> >>

Genuine ==
  {Image(500, Headers(I386, 3, 0, 416, 480)
              \o << <<352, Own(9)>>, <<384, Own(9)>> >>),
   Image(511, Headers(Amd64, 2, 10, 416, 0)
              \o << <<352, Broken(36)>>, <<479, Own(36)>> >>),
   Image(560, Headers(Thumb, 4, 0, 416, 480)
              \o << <<380, Stray(21)>>, <<500, Old(21)>> >>),
   Image(532, Headers(I386, 3, 0, 0, 480) \o Ambush(500)
              \o << <<500, Own(9)>> >>),
   Image(520, Headers(I386, 3, 0, 416, 480) \o Ambush(460)
              \o << <<460, Own(9)>>, <<498, SubSeq(Own(9), 1, 22)>> >>)}

-----------------------------------------------------------------------------
\* No header in either window, and in windows that are empty.
Headerless ==
  {Image(500, Headers(I386, 3, 0, 416, 480) \o << <<352, Broken(9)>> >>),
   Image(500, Headers(I386, 3, 0, 0, 5000) \o << <<352, Own(9)>> >>),
   Image(500, Headers(Amd64, 2, 10, 63, 0) \o << <<352, Own(36)>> >>)}

\* The layouts that are refused, whatever header the file has.
Refused ==
  {Image(size, p \o << <<352, Own(9)>> >>) :
     <<size, p>> \in
       {<<500, Headers(I386, 4, 0, 416, 480)>>, <<500, Headers(I386, 2, 0, 416, 480)>>,
        <<500, Headers(Amd64, 1, 10, 416, 480)>>, <<500, Headers(2, 3, 0, 416, 480)>>,
        <<500, Headers(I386, 3, 0, 416, 480) \o << <<240, Long(999)>> >> >>,
        <<500, Headers(I386, 3, 0, 416, 480) \o << <<88, Short(1)>> >> >>}}

\* A header whose lengths are the name of the first section.
InTheTable ==
  Summed(Image(500, Headers(I386, 3, 0, 232, 480)
                    \o << <<168, SubSeq(Own(9), 1, 16)>>,
                          <<184, <<46, 116, 101, 120, 116, 0, 0, 0>>>>,
                          <<192, Long(900)>> >>),
         168, 13)

\* A header without its magic.  With the magic, offset 384 reads as one too.
MakesAnother ==
  Image(500, Headers(I386, 3, 0, 416, 480)
             \o << <<388, <<9, 9>>>>, <<400, Own(9)>>, <<400, Zeros(4)>> >>)

OtherFiles == Headerless \cup Refused \cup {InTheTable, MakesAnother}

\* Definitions by name alone, which TLC evaluates once.
MCPacked == Genuine
MCOthers == OtherFiles

MCNames  == {<<46, 116, 101, 120, 116, 0, 0, 0>>, <<85, 80, 88, 48, 1, 1, 1, 1>>}
MCMagics == {<<0, 0, 0, 0>>, YTS}
MCTails  == {SubSeq(Own(9), 23, 32)}
=============================================================================
