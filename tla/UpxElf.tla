------------------------------- MODULE UpxElf -------------------------------
(***************************************************************************)
(* repair_upx_elf_buffer of src/upx_repair.c, and the packed-file test of  *)
(* detect_upx_elf_packing in src/binsight.c, on one ELF file.              *)
(*                                                                         *)
(* A file is its ELF header, the l_info and p_info records that UPX keeps  *)
(* behind the program headers, and the sequence of the places behind them  *)
(* where a magic may stand ("slots"): slot k starts at offset              *)
(* BaseSize + (k-1)*SlotSize and is read as a PackHeader.  Position 0 is   *)
(* the l_info magic, which a search over the whole file also meets.        *)
(***************************************************************************)
EXTENDS UpxPackHeader, Sequences

BaseSize == 144        \* a 64-byte header, one program header, l_info, p_info
SlotSize == 32

ElfFile ==
  [elfMagic : BOOLEAN,       \* the leading 7f 45 4c 46
   ident    : BOOLEAN,       \* EI_CLASS, EI_DATA and EI_VERSION are legal
   tables   : BOOLEAN,       \* header sizes agree; l_info, p_info in the file
   lmagic   : Magics, lversion : Nat, lformat : Nat,
   psize    : Nat, pblock : Nat,
   ids      : Seq(Token),    \* the release markers before the first slot
   slots    : Seq(Header)]

FileSize(f) == BaseSize + SlotSize * Len(f.slots)

\* infer_elf_layout: the identification bytes only matter without a magic.
LayoutOk(f) == f.tables /\ (f.elfMagic \/ f.ident)

MagicAt(f, k) == IF k = 0 THEN f.lmagic ELSE f.slots[k].magic

Occurrences(f, m) == {k \in 0..Len(f.slots) : MagicAt(f, k) = m}

\* find_last_occurrence: the greatest of a set of places, if it has any.
Last(S) == {k \in S : \A j \in S : j <= k}

\* The release markers of the whole file, those of an overlay included.
Tokens(f) == f.ids \o [k \in DOMAIN f.slots |-> f.slots[k].marker]

\* detect_upx_release_major: the first token that starts with a digit.
MajorIs(f, d) ==
  \E i \in DOMAIN Tokens(f) :
    /\ Tokens(f)[i] = d
    /\ \A j \in 1..(i - 1) : Tokens(f)[j] \in {NoToken, Word}

HasInline(f) == f.lversion # 0 /\ f.lformat # 0

HealthyInline(f) ==
  /\ HasInline(f)
  /\ f.lmagic = UPX
  /\ f.psize # 0
  /\ IF MajorIs(f, 4) THEN f.pblock # 0 ELSE f.pblock = f.psize

\* A bug: the l_info magic is never searched for.
PatternIsUpx(f) == UPX

(***************************************************************************)
(* detect_pack_header: only the last "UPX!" of the file is looked at, or,  *)
(* when there is none, the last copy of a non-zero l_info magic.           *)
(***************************************************************************)
Pattern(f) ==
  IF Occurrences(f, UPX) = {} /\ f.lmagic # Zero THEN f.lmagic ELSE UPX

MatchesInline(f, k) ==
  f.slots[k].version = f.lversion /\ f.slots[k].format = f.lformat

StrictHeaders(f) ==
  {k \in DOMAIN f.slots : /\ HasInline(f)
                          /\ k \in Last(Occurrences(f, Pattern(f)))
                          /\ PlausibleHeader(f.slots[k])
                          /\ MatchesInline(f, k)}

\* detect_any_trailing_pack_header: the last slot that decodes.
Decodable(f) == {k \in DOMAIN f.slots : DecodesIn(f.slots[k], FileSize(f))}

LastDecodable(f) == Last(Decodable(f))

(***************************************************************************)
(* The search for the trailing header: a file that lost its ELF magic but  *)
(* kept healthy metadata takes the last decodable header if it agrees with *)
(* l_info; otherwise l_info says what to look for; and a file without ELF  *)
(* magic finally takes any decodable header.  `generic` is                 *)
(* used_generic_trailing_fallback.                                         *)
(***************************************************************************)
Preferred(f) ==
  IF ~f.elfMagic /\ HealthyInline(f)
    THEN {k \in LastDecodable(f) : MatchesInline(f, k)}
    ELSE {}

Fallback(f) == IF f.elfMagic THEN {} ELSE LastDecodable(f)

IsGeneric(f) == Preferred(f) # {} \/ StrictHeaders(f) = {}

Located(f) ==
  IF Preferred(f) # {} THEN Preferred(f)
  ELSE IF StrictHeaders(f) # {} THEN StrictHeaders(f)
  ELSE Fallback(f)

Repairable(f) == LayoutOk(f) /\ Located(f) # {}

TheHeader(f) == CHOOSE k \in Located(f) : TRUE

\* Two bugs: the block size is not looked at, or nothing is.
RewritesEmptyFileSize(f) == HasInline(f) /\ ~MajorIs(f, 4) /\ f.psize = 0
RewritesAlways(f)        == HasInline(f) /\ ~MajorIs(f, 4)

RewritesPInfo(f) ==
  /\ HasInline(f)
  /\ ~MajorIs(f, 4)
  /\ f.psize = 0 \/ f.pblock = 0 \/ f.psize # f.pblock

Trims(f) == ~IsGeneric(f) /\ TheHeader(f) < Len(f.slots)

(***************************************************************************)
(* The buffer that repair_upx_elf_buffer leaves behind when it succeeds.   *)
(***************************************************************************)
RepairedHeader(f) ==
  LET h == [f.slots[TheHeader(f)] EXCEPT !.magic = UPX]
  IN  IF IsGeneric(f) THEN h ELSE Resummed(h)

\* A bug: the file is cut one header too late.
RepairedSlotsCutLate(f) ==
  LET patched == [f.slots EXCEPT ![TheHeader(f)] = RepairedHeader(f)]
  IN  IF Trims(f) THEN SubSeq(patched, 1, TheHeader(f) + 1) ELSE patched

RepairedSlots(f) ==
  LET patched == [f.slots EXCEPT ![TheHeader(f)] = RepairedHeader(f)]
  IN  IF Trims(f) THEN SubSeq(patched, 1, TheHeader(f)) ELSE patched

Repaired(f) ==
  [f EXCEPT
     !.elfMagic = TRUE,
     !.lmagic   = IF HasInline(f) THEN UPX ELSE @,
     !.psize    = IF RewritesPInfo(f) THEN f.slots[TheHeader(f)].usize ELSE @,
     !.pblock   = IF RewritesPInfo(f) THEN f.slots[TheHeader(f)].usize ELSE @,
     !.slots    = RepairedSlots(f)]

\* A bug: the recomputed checksum is listed as a fix of its own.
FixesWithChecksum(f) ==
  {x \in {"elf magic", "checksum"} :
     IF x = "elf magic" THEN ~f.elfMagic ELSE ~IsGeneric(f)}

\* The fixes upx_repair_summary_t reports for the repair of f.
Fixes(f) ==
  {x \in {"elf magic", "l_info magic", "pack magic", "p_info", "overlay"} :
     \/ x = "elf magic"    /\ ~f.elfMagic
     \/ x = "l_info magic" /\ HasInline(f) /\ f.lmagic # UPX
     \/ x = "pack magic"   /\ f.slots[TheHeader(f)].magic # UPX
     \/ x = "p_info"       /\ RewritesPInfo(f)
     \/ x = "overlay"      /\ Trims(f)}

(***************************************************************************)
(* detect_upx_elf_packing: what fileinfo reports of a file, as a set that  *)
(* is empty or holds the pack-header version and format it prints.         *)
(***************************************************************************)
DecodesLoosely(h) == h.magic = UPX /\ PlausibleHeader(h)

\* A bug: the l_info magic is not looked at.
FileinfoTrailing(f) ==
  {<<f.slots[k].version, f.slots[k].format>> :
     k \in {k \in Last(Occurrences(f, UPX)) : DecodesLoosely(f.slots[k])}}

FileinfoHeader(f) ==
  IF ~(f.elfMagic /\ f.ident /\ f.tables) THEN {}
  ELSE IF f.lmagic = UPX THEN {<<f.lversion, f.lformat>>}
  ELSE {<<f.slots[k].version, f.slots[k].format>> :
          k \in {k \in Last(Occurrences(f, UPX)) :
                   /\ DecodesLoosely(f.slots[k])
                   /\ HasInline(f) => MatchesInline(f, k)}}
=============================================================================
