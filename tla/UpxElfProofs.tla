---------------------------- MODULE UpxElfProofs ----------------------------
(***************************************************************************)
(* Proofs about the ELF repair, for every file, every set of genuine files *)
(* and every amount of tampering: the repair is a function on ELF files,   *)
(* later runs settle whenever l_info guided it, its summary lists a fix    *)
(* exactly when it changed the file, and the runs of UpxElfRepair keep all *)
(* three whatever fails or crashes.  Every file of those runs descends     *)
(* from the genuine one, which is why the repair gives it back, why        *)
(* exactly the samples that keep a trace of the packer's header are        *)
(* accepted, and why fileinfo names that header afterwards.                *)
(***************************************************************************)
EXTENDS UpxElfRepair, TLAPS

\* Last picks at most one place.
LEMMA LastUnique ==
  ASSUME NEW S \in SUBSET Int, NEW j \in Last(S), NEW k \in Last(S)
  PROVE  j = k
BY DEF Last

LEMMA LastIsIn ==
  ASSUME NEW S, NEW k \in Last(S)
  PROVE  k \in S /\ \A j \in S : j <= k
BY DEF Last

\* The located header is one of the file's slots, and a plausible one.
LEMMA LocatedIsSlot ==
  ASSUME NEW f \in ElfFile, Repairable(f)
  PROVE  /\ TheHeader(f) \in Located(f)
         /\ TheHeader(f) \in 1..Len(f.slots)
         /\ PlausibleHeader(f.slots[TheHeader(f)])
<1> DEFINE k == TheHeader(f)
<1>1. k \in Located(f)
  BY DEF TheHeader, Repairable
<1>2. f.slots \in Seq(Header) /\ DOMAIN f.slots = 1..Len(f.slots)
  BY DEF ElfFile
<1>3. ASSUME k \in LastDecodable(f)
      PROVE  k \in DOMAIN f.slots /\ PlausibleHeader(f.slots[k])
  BY <1>3 DEF LastDecodable, Last, Decodable, DecodesIn
<1>4. ASSUME k \in StrictHeaders(f)
      PROVE  k \in DOMAIN f.slots /\ PlausibleHeader(f.slots[k])
  BY <1>4 DEF StrictHeaders
<1>5. k \in LastDecodable(f) \/ k \in StrictHeaders(f)
  BY <1>1 DEF Located, Preferred, Fallback
<1> QED
  BY <1>1, <1>2, <1>3, <1>4, <1>5

LEMMA PlausibleFields ==
  ASSUME NEW f \in ElfFile, Repairable(f)
  PROVE  /\ f.slots \in Seq(Header)
         /\ f.slots[TheHeader(f)] \in Header
         /\ f.slots[TheHeader(f)].usize \in Nat \ {0}
<1>1. f.slots \in Seq(Header)
  BY DEF ElfFile
<1>2. f.slots[TheHeader(f)] \in Header
  BY <1>1, LocatedIsSlot
<1>3. f.slots[TheHeader(f)].usize # 0
  BY LocatedIsSlot DEF PlausibleHeader
<1> QED
  BY <1>1, <1>2, <1>3 DEF Header

\* Recomputing the checksum of a plausible header changes nothing.
LEMMA ResummedIsNoOp ==
  ASSUME NEW h \in Header, ChecksumValid(h)
  PROVE  Resummed([h EXCEPT !.magic = UPX]) = [h EXCEPT !.magic = UPX]
<1> DEFINE g == [h EXCEPT !.magic = UPX]
<1>1. g.version = h.version /\ g.csum = h.csum /\ Checksum(g) = Checksum(h)
  BY DEF Checksum, Header
<1>2. CASE h.version < 10
  BY <1>1, <1>2 DEF Resummed
<1>3. CASE ~(h.version < 10)
  <2>1. h.version >= 10
    BY <1>3 DEF Header
  <2>2. g.csum = Checksum(g)
    BY <2>1, <1>1 DEF ChecksumValid
  <2>3. [g EXCEPT !.csum = g.csum] = g
    BY DEF Header
  <2> QED
    BY <2>2, <2>3, <1>1, <1>3 DEF Resummed
<1> QED
  BY <1>2, <1>3

\* So the repair writes exactly one thing into the header: its magic.
LEMMA RepairedHeaderIs ==
  ASSUME NEW f \in ElfFile, Repairable(f)
  PROVE  /\ RepairedHeader(f) = [f.slots[TheHeader(f)] EXCEPT !.magic = UPX]
         /\ RepairedHeader(f) \in Header
<1> DEFINE h == f.slots[TheHeader(f)]
<1>1. h \in Header /\ ChecksumValid(h)
  BY LocatedIsSlot, PlausibleFields DEF PlausibleHeader
<1>2. RepairedHeader(f) = [h EXCEPT !.magic = UPX]
  BY <1>1, ResummedIsNoOp DEF RepairedHeader
<1>3. [h EXCEPT !.magic = UPX] \in Header
  BY <1>1 DEF Header, Magics
<1> QED
  BY <1>2, <1>3
\* The slots stay a sequence of headers, and the header stays where it was.
LEMMA RepairedSlotsAre ==
  ASSUME NEW f \in ElfFile, Repairable(f)
  PROVE  /\ RepairedSlots(f) \in Seq(Header)
         /\ Len(RepairedSlots(f)) = IF Trims(f) THEN TheHeader(f) ELSE Len(f.slots)
         /\ \A j \in 1..Len(RepairedSlots(f)) :
              RepairedSlots(f)[j] =
                IF j = TheHeader(f) THEN RepairedHeader(f) ELSE f.slots[j]
<1> DEFINE k == TheHeader(f)
           patched == [f.slots EXCEPT ![k] = RepairedHeader(f)]
<1>1. f.slots \in Seq(Header) /\ k \in 1..Len(f.slots)
  BY LocatedIsSlot, PlausibleFields
<1>2. RepairedHeader(f) \in Header
  BY RepairedHeaderIs
<1>3. /\ patched \in Seq(Header) /\ Len(patched) = Len(f.slots)
      /\ \A j \in 1..Len(f.slots) :
           patched[j] = IF j = k THEN RepairedHeader(f) ELSE f.slots[j]
  BY <1>1, <1>2
<1>4. CASE Trims(f)
  <2>1. RepairedSlots(f) = SubSeq(patched, 1, k)
    BY <1>4 DEF RepairedSlots
  <2> HIDE DEF patched, k
  <2>2. /\ SubSeq(patched, 1, k) \in Seq(Header)
        /\ Len(SubSeq(patched, 1, k)) = k
        /\ \A j \in 1..k : SubSeq(patched, 1, k)[j] = patched[j]
    BY <1>1, <1>3
  <2>3. \A j \in 1..k : j \in 1..Len(f.slots)
    BY <1>1
  <2>4. \A j \in 1..k :
          RepairedSlots(f)[j] = IF j = k THEN RepairedHeader(f) ELSE f.slots[j]
    BY <2>1, <2>2, <2>3, <1>3
  <2> QED
    BY <2>1, <2>2, <2>4, <1>4 DEF k
<1>5. CASE ~Trims(f)
  <2>1. RepairedSlots(f) = patched
    BY <1>5 DEF RepairedSlots
  <2> QED
    BY <2>1, <1>3, <1>5
<1> QED
  BY <1>4, <1>5

(***************************************************************************)
(* repair_upx_elf_buffer turns an ELF file it accepts into an ELF file.    *)
(***************************************************************************)
THEOREM RepairedIsElfFile ==
  ASSUME NEW f \in ElfFile, Repairable(f)
  PROVE  Repaired(f) \in ElfFile
<1>1. RepairedSlots(f) \in Seq(Header)
  BY RepairedSlotsAre
<1>2. f.slots[TheHeader(f)].usize \in Nat
  BY PlausibleFields
<1> QED
  BY <1>1, <1>2 DEF Repaired, ElfFile, Magics
(***************************************************************************)
(* The output of a repair that l_info guided.                              *)
(***************************************************************************)
LEMMA GuidedIsStrict ==
  ASSUME NEW f \in ElfFile, Repairable(f), ~IsGeneric(f)
  PROVE  /\ TheHeader(f) \in StrictHeaders(f)
         /\ HasInline(f)
         /\ MatchesInline(f, TheHeader(f))
BY LocatedIsSlot DEF IsGeneric, Located, StrictHeaders

LEMMA GuidedHeaderIsLast ==
  ASSUME NEW f \in ElfFile, Repairable(f), ~IsGeneric(f)
  PROVE  TheHeader(f) = Len(Repaired(f).slots)
<1> DEFINE k == TheHeader(f)
<1>1. k \in 1..Len(f.slots) /\ Len(f.slots) \in Nat
  BY LocatedIsSlot, PlausibleFields
<1>2. Repaired(f).slots = RepairedSlots(f)
  BY DEF Repaired, ElfFile
<1>3. Trims(f) \/ k = Len(f.slots)
  BY <1>1 DEF Trims
<1> QED
  BY <1>1, <1>2, <1>3, RepairedSlotsAre
\* Overwriting the magic disturbs no other test of a header.
LEMMA MagicIsIndependent ==
  ASSUME NEW h \in Header, PlausibleHeader(h)
  PROVE  PlausibleHeader([h EXCEPT !.magic = UPX])
<1> DEFINE g == [h EXCEPT !.magic = UPX]
<1>1. /\ g.whole = h.whole /\ g.version = h.version /\ g.format = h.format
      /\ g.usize = h.usize /\ g.csum = h.csum /\ g.ulen = h.ulen /\ g.clen = h.clen
  BY DEF Header
<1>2. Checksum(g) = Checksum(h)
  BY <1>1 DEF Checksum
<1> HIDE DEF g
<1>3. ChecksumValid(g)
  BY <1>1, <1>2 DEF ChecksumValid, PlausibleHeader
<1>4. PlausibleHeader(g)
  BY <1>1, <1>3 DEF PlausibleHeader
<1> QED
  BY <1>4 DEF g

\* What the guided repair leaves in each field of the file.
LEMMA GuidedFields ==
  ASSUME NEW f \in ElfFile, Repairable(f), ~IsGeneric(f)
  PROVE  LET r == Repaired(f)
             k == TheHeader(f)
         IN  /\ r \in ElfFile /\ k \in 1..Len(r.slots) /\ k = Len(r.slots)
             /\ r.elfMagic = TRUE /\ r.lmagic = UPX
             /\ r.tables = f.tables /\ r.ids = f.ids
             /\ r.lversion = f.lversion /\ r.lformat = f.lformat
             /\ r.slots[k] \in Header
             /\ r.slots[k] = [f.slots[k] EXCEPT !.magic = UPX]
<1> DEFINE r == Repaired(f)
           k == TheHeader(f)
<1>1. r \in ElfFile
  BY RepairedIsElfFile
<1>2. k = Len(r.slots)
  BY GuidedHeaderIsLast
<1>3. k \in 1..Len(r.slots)
  <2>1. k \in 1..Len(f.slots) /\ Len(f.slots) \in Nat
    BY LocatedIsSlot, PlausibleFields
  <2> QED
    BY <2>1, <1>2
<1>4. /\ r.elfMagic = TRUE /\ r.tables = f.tables /\ r.ids = f.ids
      /\ r.lversion = f.lversion /\ r.lformat = f.lformat
      /\ r.slots = RepairedSlots(f)
  BY DEF Repaired, ElfFile
<1>5. r.lmagic = UPX
  BY GuidedIsStrict DEF Repaired, ElfFile
<1>6. r.slots[k] = RepairedHeader(f)
  BY <1>3, <1>4, RepairedSlotsAre
<1> QED
  BY <1>1, <1>2, <1>3, <1>4, <1>5, <1>6, RepairedHeaderIs

\* A second repair finds the same header, again by l_info.
LEMMA GuidedIsFoundAgain ==
  ASSUME NEW f \in ElfFile, Repairable(f), ~IsGeneric(f)
  PROVE  /\ Repairable(Repaired(f)) /\ ~IsGeneric(Repaired(f))
         /\ TheHeader(Repaired(f)) = TheHeader(f)
<1> DEFINE r == Repaired(f)
           k == TheHeader(f)
<1>1. /\ r \in ElfFile /\ k \in 1..Len(r.slots) /\ k = Len(r.slots)
      /\ r.elfMagic = TRUE /\ r.lmagic = UPX /\ r.tables = f.tables
      /\ r.lversion = f.lversion /\ r.lformat = f.lformat
      /\ r.slots[k] \in Header
      /\ r.slots[k] = [f.slots[k] EXCEPT !.magic = UPX]
  BY GuidedFields
<1>2. f.slots[k] \in Header /\ PlausibleHeader(f.slots[k])
  BY LocatedIsSlot, PlausibleFields
<1>3. HasInline(f) /\ MatchesInline(f, k)
  BY GuidedIsStrict
<1> HIDE DEF r, k
<1>4. PlausibleHeader(r.slots[k])
  BY <1>1, <1>2, MagicIsIndependent
<1>5. HasInline(r) /\ MatchesInline(r, k)
  BY <1>1, <1>2, <1>3 DEF HasInline, MatchesInline, Header
<1>6. k \in Occurrences(r, UPX) /\ \A j \in Occurrences(r, UPX) : j <= k
  <2>1. r.slots[k].magic = UPX
    BY <1>1, <1>2 DEF Header
  <2>2. k # 0 /\ k \in 0..Len(r.slots)
    BY <1>1
  <2>3. \A j \in 0..Len(r.slots) : j <= k
    BY <1>1
  <2>4. MagicAt(r, k) = UPX
    BY <2>1, <2>2 DEF MagicAt
  <2> QED
    BY <2>2, <2>3, <2>4 DEF Occurrences
<1>7. Pattern(r) = UPX /\ k \in Last(Occurrences(r, UPX))
  BY <1>6 DEF Pattern, Last
<1>8. k \in StrictHeaders(r)
  BY <1>1, <1>4, <1>5, <1>7 DEF StrictHeaders, ElfFile
<1>9. \A j \in StrictHeaders(r) : j = k
  BY <1>6, <1>7, <1>1 DEF StrictHeaders, Last, ElfFile
<1>10. Preferred(r) = {}
  BY <1>1 DEF Preferred
<1>11. Located(r) = {k} /\ ~IsGeneric(r)
  BY <1>8, <1>9, <1>10 DEF Located, IsGeneric
<1>12. LayoutOk(r)
  BY <1>1 DEF LayoutOk, Repairable, r
<1> QED
  BY <1>11, <1>12 DEF Repairable, TheHeader, r, k

\* A sample not taken for one of UPX 4 gets a p_info that needs no more repair.
LEMMA GuidedNeedsNoPInfo ==
  ASSUME NEW f \in ElfFile, Repairable(f), ~IsGeneric(f), ~MajorIs(f, 4)
  PROVE  ~RewritesPInfo(Repaired(f))
<1> DEFINE r == Repaired(f)
           n == f.slots[TheHeader(f)].usize
<1>1. HasInline(f) /\ n \in Nat \ {0}
  BY GuidedIsStrict, PlausibleFields
<1>2. CASE RewritesPInfo(f)
  <2>1. r.psize = n /\ r.pblock = n
    BY <1>2 DEF Repaired, ElfFile
  <2> QED
    BY <2>1, <1>1 DEF RewritesPInfo
<1>3. CASE ~RewritesPInfo(f)
  <2>1. r.psize = f.psize /\ r.pblock = f.pblock
    BY <1>3 DEF Repaired, ElfFile
  <2>2. f.psize # 0 /\ f.pblock # 0 /\ f.psize = f.pblock
    BY <1>1, <1>3 DEF RewritesPInfo
  <2> QED
    BY <2>1, <2>2 DEF RewritesPInfo
<1> QED
  BY <1>2, <1>3

\* Two sequences of headers with the same elements are the same.
LEMMA SameSlots ==
  ASSUME NEW s \in Seq(Header), NEW t \in Seq(Header), Len(s) = Len(t),
         \A j \in 1..Len(s) : s[j] = t[j]
  PROVE  s = t
OBVIOUS

\* What a second repair of a guided repair's output lists.
LEMMA GuidedLeavesPInfo ==
  ASSUME NEW f \in ElfFile, Repairable(f), ~IsGeneric(f)
  PROVE  Fixes(Repaired(f)) =
           IF RewritesPInfo(Repaired(f)) THEN {"p_info"} ELSE {}
<1> DEFINE r == Repaired(f)
           k == TheHeader(f)
<1>1. /\ r \in ElfFile /\ k \in 1..Len(r.slots) /\ k = Len(r.slots)
      /\ r.elfMagic = TRUE /\ r.lmagic = UPX
      /\ r.slots[k] = [f.slots[k] EXCEPT !.magic = UPX]
  BY GuidedFields
<1>2. TheHeader(r) = k
  BY GuidedIsFoundAgain
<1>3. r.slots[k].magic = UPX
  BY <1>1, PlausibleFields DEF Header
<1> HIDE DEF r, k
<1>4. ~Trims(r)
  BY <1>1, <1>2 DEF Trims
<1>5. Fixes(r) = IF RewritesPInfo(r) THEN {"p_info"} ELSE {}
  BY <1>1, <1>2, <1>3, <1>4 DEF Fixes
<1> QED
  BY <1>5 DEF r

\* A guided repair whose p_info needs no more repair is a fixed point.
LEMMA GuidedIsStable ==
  ASSUME NEW f \in ElfFile, Repairable(f), ~IsGeneric(f),
         ~RewritesPInfo(Repaired(f))
  PROVE  Stable(Repaired(f))
<1> DEFINE r == Repaired(f)
           k == TheHeader(f)
<1>1. /\ r \in ElfFile /\ k \in 1..Len(r.slots) /\ k = Len(r.slots)
      /\ r.elfMagic = TRUE /\ r.lmagic = UPX /\ r.slots[k] \in Header
      /\ r.slots[k] = [f.slots[k] EXCEPT !.magic = UPX]
  BY GuidedFields
<1>2. Repairable(r) /\ ~IsGeneric(r) /\ TheHeader(r) = k
  BY GuidedIsFoundAgain
<1>3. ~RewritesPInfo(r)
  OBVIOUS
<1>4. r.slots[k].magic = UPX
  BY <1>1, PlausibleFields DEF Header
<1> HIDE DEF r, k
<1>5. ~Trims(r)
  BY <1>1, <1>2 DEF Trims
<1>6. Fixes(r) = {}
  BY <1>3, GuidedLeavesPInfo DEF r
<1>7. RepairedHeader(r) = r.slots[k]
  <2>1. RepairedHeader(r) = [r.slots[k] EXCEPT !.magic = UPX]
    BY <1>1, <1>2, RepairedHeaderIs
  <2> QED
    BY <2>1, <1>1, <1>4 DEF Header
<1>8. RepairedSlots(r) = r.slots
  <2>1. RepairedSlots(r) \in Seq(Header) /\ r.slots \in Seq(Header)
    BY <1>1, <1>2, RepairedSlotsAre DEF ElfFile
  <2>2. Len(RepairedSlots(r)) = Len(r.slots)
    BY <1>1, <1>2, <1>5, RepairedSlotsAre
  <2>3. \A j \in 1..Len(RepairedSlots(r)) : RepairedSlots(r)[j] = r.slots[j]
    BY <1>1, <1>2, <1>7, RepairedSlotsAre
  <2> QED
    BY <2>1, <2>2, <2>3, SameSlots
<1>9. Repaired(r) = r
  BY <1>1, <1>3, <1>8 DEF Repaired, ElfFile
<1> QED
  BY <1>2, <1>6, <1>9 DEF Stable, r

(***************************************************************************)
(* A repair that l_info guided settles.  The same repair accepts its       *)
(* output and reports no fix and leaves it as it is, unless the overlay it *)
(* trimmed held the only marker of UPX 4; then the second repair rewrites  *)
(* p_info and nothing else.  A third one never has anything to do.         *)
(***************************************************************************)
THEOREM GuidedSettles ==
  ASSUME NEW f \in ElfFile, Repairable(f), ~IsGeneric(f)
  PROVE  LET r == Repaired(f)
         IN  /\ Stable(r) \/ (TailDecides(f) /\ Repairable(r) /\ Fixes(r) = {"p_info"})
             /\ Stable(Repaired(r))
<1> DEFINE r == Repaired(f)
<1>1. r \in ElfFile /\ Repairable(r) /\ ~IsGeneric(r)
  BY RepairedIsElfFile, GuidedIsFoundAgain
<1>2. CASE ~RewritesPInfo(r)
  <2>1. Stable(r)
    BY <1>2, GuidedIsStable
  <2> HIDE DEF r
  <2>2. Repaired(r) = r
    BY <2>1 DEF Stable
  <2> QED
    BY <2>1, <2>2 DEF r
<1>3. CASE RewritesPInfo(r)
  <2>1. ~MajorIs(r, 4)
    BY <1>3 DEF RewritesPInfo
  <2>2. MajorIs(f, 4)
    BY <1>3, GuidedNeedsNoPInfo
  <2>3. TailDecides(f)
    BY <2>1, <2>2 DEF TailDecides
  <2>4. Fixes(r) = {"p_info"}
    BY <1>3, GuidedLeavesPInfo
  <2> HIDE DEF r
  <2>5. ~RewritesPInfo(Repaired(r))
    BY <1>1, <2>1, GuidedNeedsNoPInfo
  <2>6. Stable(Repaired(r))
    BY <1>1, <2>5, GuidedIsStable
  <2> QED
    BY <1>1, <2>3, <2>4, <2>6 DEF r
<1> QED
  BY <1>2, <1>3

(***************************************************************************)
(* The summary of a repair lists no fix exactly when the repair changes    *)
(* nothing, with or without the guidance of l_info.                        *)
(***************************************************************************)
THEOREM NoFixIsNoChange ==
  ASSUME NEW f \in ElfFile, Repairable(f)
  PROVE  Fixes(f) = {} <=> Repaired(f) = f
<1> DEFINE k == TheHeader(f)
<1>1. /\ k \in 1..Len(f.slots) /\ f.slots \in Seq(Header)
      /\ f.slots[k] \in Header /\ f.slots[k].usize \in Nat \ {0}
  BY LocatedIsSlot, PlausibleFields
<1>2. RepairedHeader(f) = [f.slots[k] EXCEPT !.magic = UPX]
  BY RepairedHeaderIs
<1>3. ASSUME Fixes(f) = {}
      PROVE  Repaired(f) = f
  <2>1. /\ f.elfMagic /\ ~(HasInline(f) /\ f.lmagic # UPX)
        /\ ~(f.slots[k].magic # UPX) /\ ~RewritesPInfo(f) /\ ~Trims(f)
    BY <1>3 DEF Fixes
  <2>2. RepairedHeader(f) = f.slots[k]
    BY <1>1, <1>2, <2>1 DEF Header
  <2>3. /\ RepairedSlots(f) \in Seq(Header) /\ Len(RepairedSlots(f)) = Len(f.slots)
        /\ \A j \in 1..Len(RepairedSlots(f)) : RepairedSlots(f)[j] = f.slots[j]
    BY <2>1, <2>2, RepairedSlotsAre
  <2>4. RepairedSlots(f) = f.slots
    BY <1>1, <2>3, SameSlots
  <2>5. f.elfMagic = TRUE
    BY <2>1 DEF ElfFile
  <2> QED
    BY <2>1, <2>4, <2>5 DEF Repaired, ElfFile
<1>4. ASSUME Repaired(f) = f
      PROVE  Fixes(f) = {}
  <2>1. f.elfMagic = TRUE
    BY <1>4 DEF Repaired, ElfFile
  <2>2. RepairedSlots(f) = f.slots
    BY <1>4 DEF Repaired, ElfFile
  <2>3. HasInline(f) => f.lmagic = UPX
    BY <1>4 DEF Repaired, ElfFile
  <2>4. ~RewritesPInfo(f)
    <3>1. SUFFICES ASSUME RewritesPInfo(f) PROVE FALSE
      OBVIOUS
    <3>2. Repaired(f).psize = f.slots[k].usize /\ Repaired(f).pblock = f.slots[k].usize
      BY <3>1 DEF Repaired, ElfFile
    <3> QED
      BY <3>1, <3>2, <1>1, <1>4 DEF RewritesPInfo
  <2>5. ~Trims(f)
    BY <2>2, <1>1, RepairedSlotsAre DEF Trims
  <2>6. f.slots[k] = RepairedHeader(f)
    BY <2>2, <2>5, <1>1, RepairedSlotsAre
  <2>7. f.slots[k].magic = UPX
    BY <2>6, <1>1, <1>2 DEF Header
  <2> QED
    BY <2>1, <2>3, <2>4, <2>5, <2>7 DEF Fixes
<1> QED
  BY <1>3, <1>4

-----------------------------------------------------------------------------
LEMMA ExceptStaysSeq ==
  ASSUME NEW S, NEW s \in Seq(S), NEW k, NEW v, k \in 1..Len(s) => v \in S
  PROVE  [s EXCEPT ![k] = v] \in Seq(S)
<1>1. CASE k \in 1..Len(s)
  BY <1>1
<1>2. CASE k \notin 1..Len(s)
  <2>1. \A j \in 1..Len(s) : [s EXCEPT ![k] = v][j] = s[j]
    BY <1>2
  <2>2. [s EXCEPT ![k] = v] = s
    BY <2>1, <1>2
  <2> QED
    BY <2>2
<1> QED
  BY <1>1, <1>2

\* Every way of tampering leaves an ELF file.
LEMMA TamperingsAreElfFiles ==
  ASSUME NEW f \in ElfFile, NEW g \in Tamperings(f)
  PROVE  g \in ElfFile
<1>1. f.slots \in Seq(Header)
  BY DEF ElfFile
<1>2. /\ [f EXCEPT !.elfMagic = FALSE] \in ElfFile
      /\ [f EXCEPT !.psize = 0] \in ElfFile
      /\ [f EXCEPT !.pblock = 0] \in ElfFile
  <2>1. [f EXCEPT !.elfMagic = FALSE] \in ElfFile
    BY DEF ElfFile
  <2>2. [f EXCEPT !.psize = 0] \in ElfFile
    BY DEF ElfFile
  <2>3. [f EXCEPT !.pblock = 0] \in ElfFile
    BY DEF ElfFile
  <2> QED
    BY <2>1, <2>2, <2>3
<1>3. CASE \E m \in Magics : g = [f EXCEPT !.lmagic = m]
  BY <1>3 DEF ElfFile
<1>4. CASE \E m \in Magics : g = [f EXCEPT !.slots[HeaderSlot].magic = m]
  <2>1. PICK m \in Magics : g = [f EXCEPT !.slots[HeaderSlot].magic = m]
    BY <1>4
  <2>2. \A k \in 1..Len(f.slots) : [f.slots[k] EXCEPT !.magic = m] \in Header
    <3> SUFFICES ASSUME NEW k \in 1..Len(f.slots)
                 PROVE  [f.slots[k] EXCEPT !.magic = m] \in Header
      OBVIOUS
    <3>1. f.slots[k] \in Header
      BY <1>1
    <3> QED
      BY <3>1 DEF Header
  <2>3. [f.slots EXCEPT ![HeaderSlot] = [f.slots[HeaderSlot] EXCEPT !.magic = m]]
          \in Seq(Header)
    BY <1>1, <2>2, ExceptStaysSeq
  <2> QED
    BY <2>1, <2>3 DEF ElfFile
<1>5. CASE \E h \in Junk : g = [f EXCEPT !.slots = Append(f.slots, h)]
  <2>1. PICK h \in Junk : g = [f EXCEPT !.slots = Append(f.slots, h)]
    BY <1>5
  <2>2. Append(f.slots, h) \in Seq(Header)
    BY <1>1, JunkAssumption
  <2> QED
    BY <2>1, <2>2 DEF ElfFile
<1> QED
  BY <1>2, <1>3, <1>4, <1>5 DEF Tamperings

\* What a short write leaves is nothing or one shorter ELF file.
LEMMA TornIsElfFile ==
  ASSUME NEW f \in ElfFile, NEW t \in Torn(f)
  PROVE  t = {} \/ \E g \in ElfFile : t = {g}
<1>1. CASE t = {}
  BY <1>1
<1>2. CASE \E n \in 0..(Len(f.slots) - 1) : t = {[f EXCEPT !.slots = SubSeq(f.slots, 1, n)]}
  <2>1. PICK n \in 0..(Len(f.slots) - 1) : t = {[f EXCEPT !.slots = SubSeq(f.slots, 1, n)]}
    BY <1>2
  <2>2. f.slots \in Seq(Header) /\ n \in Nat /\ n <= Len(f.slots)
    BY DEF ElfFile
  <2>3. SubSeq(f.slots, 1, n) \in Seq(Header)
    BY <2>2
  <2> QED
    BY <2>1, <2>3 DEF ElfFile
<1> QED
  BY <1>1, <1>2 DEF Torn

Inv == TypeOK /\ RunInv

LEMMA InitInv == Init => Inv
BY PackedAssumption, BoundsAssumption DEF Init, Inv, TypeOK, RunInv, Path, PC
\* A path of the disk holds one file or none, so a write of one keeps the type.
LEMMA DiskWrite ==
  ASSUME TypeOK, NEW p \in Path, NEW t,
         t = {} \/ \E f \in ElfFile : t = {f},
         disk' = [disk EXCEPT ![p] = t]
  PROVE  /\ disk' \in [Path -> SUBSET ElfFile]
         /\ \A q \in Path : \A f, g \in disk'[q] : f = g
         /\ disk'[p] = t
<1>1. t \in SUBSET ElfFile /\ \A f, g \in t : f = g
  OBVIOUS
<1> QED
  BY <1>1 DEF TypeOK

LEMMA RepairsLoadedImage ==
  ASSUME TypeOK, NEW images, RepairsLoaded(images)
  PROVE  \E f \in ElfFile : images = {f}
<1>1. PICK l \in loaded : Repairable(l) /\ images = {Repaired(l)}
  BY DEF RepairsLoaded
<1>2. l \in ElfFile
  BY DEF TypeOK
<1> QED
  BY <1>1, <1>2, RepairedIsElfFile

LEMMA NextInv == Inv /\ [Next]_vars => Inv'
<1> SUFFICES ASSUME Inv, [Next]_vars PROVE Inv'
  OBVIOUS
<1> USE DEF Inv
<1>1. CASE Tamper
  <2>1. PICK f \in disk["sample"] : \E g \in Tamperings(f) :
               disk' = [disk EXCEPT !["sample"] = {g}]
    BY <1>1 DEF Tamper
  <2>2. f \in ElfFile /\ "sample" \in Path
    BY DEF TypeOK, Path
  <2>3. PICK g \in ElfFile : disk' = [disk EXCEPT !["sample"] = {g}]
    BY <2>1, <2>2, TamperingsAreElfFiles
  <2>4. /\ disk' \in [Path -> SUBSET ElfFile]
        /\ \A q \in Path : \A a, b \in disk'[q] : a = b
    BY <2>2, <2>3, DiskWrite
  <2>5. tampers' \in 0..MaxTampers
    <3>1. /\ tampers \in 0..MaxTampers /\ tampers < MaxTampers
          /\ tampers' = tampers + 1
      BY <1>1 DEF Tamper, TypeOK
    <3> QED
      BY <3>1, BoundsAssumption
  <2>6. TypeOK'
    BY <1>1, <2>4, <2>5 DEF Tamper, TypeOK
  <2>7. RunInv'
    BY <1>1 DEF Tamper, RunInv
  <2> QED
    BY <2>6, <2>7
<1>2. ASSUME NEW p \in Path, NEW q \in Path, Start(p, q)
      PROVE  Inv'
  <2>1. runs' \in 0..MaxRuns /\ runs' # 0
    <3>1. runs \in 0..MaxRuns /\ runs < MaxRuns /\ runs' = runs + 1
      BY <1>2 DEF Start, TypeOK
    <3> QED
      BY <3>1, BoundsAssumption
  <2>2. TypeOK'
    BY <1>2, <2>1 DEF Start, TypeOK, PC
  <2>3. RunInv'
    BY <1>2, <2>1 DEF Start, RunInv
  <2> QED
    BY <2>2, <2>3
<1>3. CASE ReadFile
  <2>1. TypeOK'
    BY <1>3 DEF ReadFile, Fail, TypeOK, PC
  <2>2. disk[src] # {} => \E l \in disk[src] : disk[src] = {l}
    BY DEF TypeOK
  <2>3. RunInv'
    BY <1>3, <2>2 DEF ReadFile, Fail, RunInv
  <2> QED
    BY <2>1, <2>3
<1>4. CASE RepairBuffer
  <2>1. PICK f \in buffer :
          \/ /\ Repairable(f) /\ buffer' = {Repaired(f)} /\ fixes' = Fixes(f)
             /\ pc' = "open"
          \/ Fail /\ UNCHANGED fixes
    BY <1>4 DEF RepairBuffer
  <2>2. f \in ElfFile /\ loaded = {f}
    BY <1>4 DEF RepairBuffer, RunInv, TypeOK
  <2>3. Repairable(f) => {Repaired(f)} \in SUBSET ElfFile
    BY <2>2, RepairedIsElfFile
  <2>4. Fixes(f) \in SUBSET {"elf magic", "l_info magic", "pack magic", "p_info",
                             "overlay"}
    BY DEF Fixes
  <2>5. TypeOK'
    BY <1>4, <2>1, <2>3, <2>4 DEF RepairBuffer, Fail, TypeOK, PC
  <2>6. RunInv'
    BY <1>4, <2>1, <2>2 DEF RepairBuffer, Fail, RunInv, RepairsLoaded
  <2> QED
    BY <2>5, <2>6
<1>5. CASE OpenOutput
  <2>1. dst \in Path
    BY DEF TypeOK
  <2>2. /\ disk' \in [Path -> SUBSET ElfFile]
        /\ \A q \in Path : \A f, g \in disk'[q] : f = g
    BY <1>5, <2>1, DiskWrite DEF OpenOutput, TypeOK
  <2>3. TypeOK'
    BY <1>5, <2>2 DEF OpenOutput, Fail, TypeOK, PC
  <2>4. RunInv'
    BY <1>5 DEF OpenOutput, Fail, RunInv, RepairsLoaded
  <2> QED
    BY <2>3, <2>4
<1>6. CASE WriteOutput
  <2>1. PICK f \in ElfFile : buffer = {f}
    BY <1>6, RepairsLoadedImage DEF WriteOutput, RunInv
  <2>2. PICK t : /\ t = {} \/ \E g \in ElfFile : t = {g}
                 /\ disk' = [disk EXCEPT ![dst] = t]
                 /\ (pc' = "close" /\ t = buffer /\ UNCHANGED buffer) \/ Fail
    BY <1>6, <2>1, TornIsElfFile DEF WriteOutput
  <2>3. dst \in Path
    BY DEF TypeOK
  <2>4. /\ disk' \in [Path -> SUBSET ElfFile] /\ disk'[dst] = t
        /\ \A q \in Path : \A a, b \in disk'[q] : a = b
    BY <2>2, <2>3, DiskWrite
  <2>5. TypeOK'
    BY <1>6, <2>2, <2>4 DEF WriteOutput, Fail, TypeOK, PC
  <2>6. RunInv'
    BY <1>6, <2>2, <2>4 DEF WriteOutput, Fail, RunInv, RepairsLoaded
  <2> QED
    BY <2>5, <2>6
<1>7. CASE CloseOutput
  <2>1. PICK f \in ElfFile : buffer = {f}
    BY <1>7, RepairsLoadedImage DEF CloseOutput, RunInv
  <2>2. CASE pc' = "exit 0" /\ UNCHANGED <<disk, buffer>>
    <3>1. TypeOK'
      BY <1>7, <2>2 DEF CloseOutput, TypeOK, PC
    <3>2. RunInv'
      BY <1>7, <2>2 DEF CloseOutput, RunInv, RepairsLoaded
    <3> QED
      BY <3>1, <3>2
  <2>3. CASE Fail /\ \E t \in Torn(f) \cup {{f}} : disk' = [disk EXCEPT ![dst] = t]
    <3>1. PICK t : /\ t = {} \/ \E g \in ElfFile : t = {g}
                   /\ disk' = [disk EXCEPT ![dst] = t]
      BY <2>3, <2>1, TornIsElfFile
    <3>2. /\ disk' \in [Path -> SUBSET ElfFile]
          /\ \A q \in Path : \A a, b \in disk'[q] : a = b
      BY <3>1, DiskWrite DEF TypeOK
    <3>3. TypeOK'
      BY <1>7, <2>3, <3>2 DEF CloseOutput, Fail, TypeOK, PC
    <3>4. RunInv'
      BY <1>7, <2>3 DEF CloseOutput, Fail, RunInv
    <3> QED
      BY <3>3, <3>4
  <2> QED
    BY <1>7, <2>1, <2>2, <2>3 DEF CloseOutput
<1>8. CASE Crash
  <2>1. /\ disk' \in [Path -> SUBSET ElfFile]
        /\ \A q \in Path : \A a, b \in disk'[q] : a = b
    <3>1. CASE UNCHANGED disk
      BY <3>1 DEF TypeOK
    <3>2. CASE /\ pc \in {"write", "close"}
               /\ \E f \in buffer : \E t \in Torn(f) \cup {{f}} :
                    disk' = [disk EXCEPT ![dst] = t]
      <4>1. PICK f \in buffer : \E t \in Torn(f) \cup {{f}} :
                                disk' = [disk EXCEPT ![dst] = t]
        BY <3>2
      <4>2. f \in ElfFile
        BY DEF TypeOK
      <4>3. PICK t : /\ t = {} \/ \E g \in ElfFile : t = {g}
                     /\ disk' = [disk EXCEPT ![dst] = t]
        BY <4>1, <4>2, TornIsElfFile
      <4> QED
        BY <4>3, DiskWrite DEF TypeOK
    <3> QED
      BY <1>8, <3>1, <3>2 DEF Crash
  <2>2. TypeOK'
    BY <1>8, <2>1 DEF Crash, TypeOK, PC
  <2>3. RunInv'
    BY <1>8 DEF Crash, Running, RunInv
  <2> QED
    BY <2>2, <2>3
<1>9. CASE UNCHANGED vars
  BY <1>9 DEF vars, TypeOK, RunInv, RepairsLoaded
<1> QED
  BY <1>1, <1>2, <1>3, <1>4, <1>5, <1>6, <1>7, <1>8, <1>9 DEF Next

-----------------------------------------------------------------------------
(***************************************************************************)
(* The state of every run, failed and crashed ones included, is typed: a   *)
(* path holds at most one ELF file, and so does the buffer.                *)
(***************************************************************************)
THEOREM TypeCorrect == Spec => []TypeOK
<1>1. Inv => TypeOK
  BY DEF Inv
<1> QED
  BY InitInv, NextInv, <1>1, PTL DEF Spec

(***************************************************************************)
(* A run, failed or crashed or not, holds and writes nothing but the       *)
(* repair of what it read.                                                 *)
(***************************************************************************)
THEOREM RunsRepairWhatTheyRead == Spec => [](TypeOK /\ RunInv)
<1>1. Inv => TypeOK /\ RunInv
  BY DEF Inv
<1> QED
  BY InitInv, NextInv, <1>1, PTL DEF Spec

(***************************************************************************)
(* A second run of `binsight --repair-upx` on the output of a run that was *)
(* guided by l_info changes nothing and reports nothing, or, after the     *)
(* overlay with the only marker of UPX 4 was trimmed, rewrites p_info; a   *)
(* third run has nothing left to do.                                       *)
(***************************************************************************)
THEOREM LaterRunsSettle == Spec => []RepairSettles
<1>1. Inv => RepairSettles
  <2> SUFFICES ASSUME Inv, Succeeded, NEW f \in disk[dst], NEW l \in loaded,
                      ~IsGeneric(l)
               PROVE  /\ \/ Stable(f)
                         \/ TailDecides(l) /\ Repairable(f) /\ Fixes(f) = {"p_info"}
                      /\ Stable(Repaired(f))
    BY DEF RepairSettles
  <2>1. Repairable(l) /\ f = Repaired(l) /\ l \in ElfFile
    BY DEF Inv, TypeOK, RunInv, RepairsLoaded, Succeeded
  <2> QED
    BY <2>1, GuidedSettles
<1> QED
  BY InitInv, NextInv, <1>1, PTL DEF Spec

(***************************************************************************)
(* A run that succeeds reports no fix exactly when its output is, byte for *)
(* byte, the file it was given.                                            *)
(***************************************************************************)
THEOREM SummariesAreTruthful == Spec => []SummaryIsTruthful
<1>1. Inv => SummaryIsTruthful
  <2> SUFFICES ASSUME Inv, Succeeded PROVE fixes = {} <=> disk[dst] = loaded
    BY DEF SummaryIsTruthful
  <2>1. PICK l \in loaded : /\ loaded = {l} /\ Repairable(l)
                            /\ disk[dst] = {Repaired(l)} /\ fixes = Fixes(l)
    BY DEF Inv, RunInv, RepairsLoaded, Succeeded
  <2>2. l \in ElfFile
    BY DEF Inv, TypeOK
  <2>3. disk[dst] = loaded <=> Repaired(l) = l
    BY <2>1
  <2> QED
    BY <2>1, <2>2, <2>3, NoFixIsNoChange
<1> QED
  BY InitInv, NextInv, <1>1, PTL DEF Spec

-----------------------------------------------------------------------------
(***************************************************************************)
(* Where the files of the runs come from.  Every file that is read, held   *)
(* or written descends from the genuine one: it is cut short, or only its  *)
(* own header and inline magics, its p_info sizes and its ELF magic may    *)
(* differ, and nothing behind the packer's header reads as a header.       *)
(***************************************************************************)
Descends(f) ==
  LET n == Len(genuine.slots)
  IN  /\ f.ident = genuine.ident /\ f.tables = genuine.tables
      /\ f.ids = genuine.ids
      /\ f.lversion = genuine.lversion /\ f.lformat = genuine.lformat
      /\ f.psize \in {0, genuine.psize} /\ f.pblock \in {0, genuine.pblock}
      /\ \A k \in 1..Len(f.slots) :
           /\ k < n => f.slots[k] = genuine.slots[k]
           /\ k = n => \E m \in Magics :
                         f.slots[k] = [genuine.slots[k] EXCEPT !.magic = m]
           /\ k > n => ~PlausibleHeader(f.slots[k])

\* It still has the packer's header.
Complete(f) == Len(f.slots) >= HeaderSlot

(***************************************************************************)
(* Files lose slots only in a write that was cut short, so what the first  *)
(* run reads is complete.                                                  *)
(***************************************************************************)
FirstRead == runs = 0 \/ (runs = 1 /\ pc = "read")

FilesInv ==
  /\ \A p \in Path : \A f \in disk[p] : Descends(f)
  /\ \A f \in loaded : Descends(f)
  /\ \A f \in buffer : Descends(f)
  /\ FirstRead => \A p \in Path : \A f \in disk[p] : Complete(f)
  /\ runs = 1 /\ pc = "repair" => \A f \in buffer : Complete(f)

\* What is known of the genuine file.
LEMMA GenuineIs ==
  ASSUME TypeOK
  PROVE  /\ genuine \in ElfFile /\ IsPacked(genuine)
         /\ genuine.slots \in Seq(Header) /\ HeaderSlot \in 1..Len(genuine.slots)
         /\ HeaderSlot \in Nat \ {0}
         /\ genuine.slots[HeaderSlot] \in Header
         /\ DecodesIn(genuine.slots[HeaderSlot], FileSize(genuine))
         /\ \A k \in 1..Len(genuine.slots) : k # HeaderSlot =>
              ~PlausibleHeader(genuine.slots[k])
<1>1. genuine \in ElfFile /\ IsPacked(genuine)
  BY PackedAssumption DEF TypeOK
<1>2. genuine.slots \in Seq(Header)
  BY <1>1 DEF ElfFile
<1>3. HeaderSlot \in 1..Len(genuine.slots) /\ HeaderSlot \in Nat \ {0}
  BY <1>1, <1>2 DEF IsPacked, HeaderSlot
<1>4. \A k \in 1..Len(genuine.slots) : k # HeaderSlot =>
              ~PlausibleHeader(genuine.slots[k])
  <2> SUFFICES ASSUME NEW k \in 1..Len(genuine.slots), k # HeaderSlot
               PROVE  ~PlausibleHeader(genuine.slots[k])
    OBVIOUS
  <2>1. k \in 1..(Len(genuine.slots) - 1)
    BY <1>2 DEF HeaderSlot
  <2> QED
    BY <2>1, <1>1 DEF IsPacked
<1>5. DecodesIn(genuine.slots[HeaderSlot], FileSize(genuine))
  BY <1>1 DEF IsPacked, HeaderSlot
<1> QED
  BY <1>1, <1>2, <1>3, <1>4, <1>5

\* The genuine file descends from itself.
LEMMA GenuineDescends ==
  ASSUME TypeOK
  PROVE  Descends(genuine) /\ Complete(genuine)
<1>1. genuine.slots \in Seq(Header) /\ HeaderSlot = Len(genuine.slots)
  BY GenuineIs DEF HeaderSlot
<1>2. /\ genuine.slots[HeaderSlot].magic \in Magics
      /\ genuine.slots[HeaderSlot] =
           [genuine.slots[HeaderSlot] EXCEPT !.magic = genuine.slots[HeaderSlot].magic]
  BY GenuineIs DEF Header
<1> QED
  BY <1>1, <1>2 DEF Descends, Complete, HeaderSlot

\* Only the packer's header can pass for one, and only a complete file has it.
LEMMA OnlyTheHeader ==
  ASSUME TypeOK, NEW f \in ElfFile, Descends(f), NEW k \in 1..Len(f.slots),
         PlausibleHeader(f.slots[k])
  PROVE  k = HeaderSlot /\ Complete(f)
<1>1. f.slots \in Seq(Header) /\ Len(f.slots) \in Nat
  BY DEF ElfFile
<1>2. ~(k < HeaderSlot)
  BY GenuineIs DEF Descends, HeaderSlot
<1>3. ~(k > HeaderSlot)
  BY DEF Descends, HeaderSlot
<1>4. HeaderSlot \in Nat
  BY GenuineIs
<1> QED
  BY <1>1, <1>2, <1>3, <1>4 DEF Complete

\* The header of a complete file is the packer's but for its magic.
LEMMA HeaderAsPacked ==
  ASSUME TypeOK, NEW f \in ElfFile, Descends(f), Complete(f)
  PROVE  LET h == f.slots[HeaderSlot]
             g == genuine.slots[HeaderSlot]
         IN  /\ HeaderSlot \in 1..Len(f.slots) /\ h \in Header
             /\ h = [g EXCEPT !.magic = h.magic]
             /\ PlausibleHeader(h)
             /\ HasInline(f) => MatchesInline(f, HeaderSlot)
<1> DEFINE h == f.slots[HeaderSlot]
           g == genuine.slots[HeaderSlot]
<1>1. /\ f.slots \in Seq(Header) /\ HeaderSlot \in 1..Len(f.slots)
      /\ HeaderSlot \in 1..Len(genuine.slots)
  BY GenuineIs DEF ElfFile, Complete
<1>2. g \in Header /\ PlausibleHeader(g)
  BY GenuineIs DEF DecodesIn
<1>3. h \in Header
  BY <1>1
<1>4. PICK m \in Magics : h = [g EXCEPT !.magic = m]
  BY <1>1 DEF Descends, HeaderSlot
<1>5. /\ h.whole = g.whole /\ h.version = g.version /\ h.format = g.format
      /\ h.usize = g.usize /\ h.csum = g.csum /\ h.ulen = g.ulen /\ h.clen = g.clen
      /\ h.magic = m
  BY <1>2, <1>4 DEF Header
<1>6. ASSUME HasInline(f) PROVE MatchesInline(f, HeaderSlot)
  <2>1. HasInline(genuine) /\ f.lversion = genuine.lversion
        /\ f.lformat = genuine.lformat
    BY <1>6 DEF Descends, HasInline
  <2>2. MatchesInline(genuine, HeaderSlot)
    BY <2>1, GenuineIs DEF IsPacked, HeaderSlot
  <2> QED
    BY <2>1, <2>2, <1>5 DEF MatchesInline
<1> HIDE DEF h, g
<1>7. Checksum(h) = Checksum(g)
  BY <1>5 DEF Checksum
<1>8. PlausibleHeader(h)
  BY <1>2, <1>5, <1>7 DEF PlausibleHeader, ChecksumValid
<1>9. h = [g EXCEPT !.magic = h.magic]
  BY <1>4, <1>5
<1> QED
  BY <1>1, <1>3, <1>6, <1>8, <1>9 DEF h, g

\* Undoing the change of its magic undoes everything.
LEMMA MagicUndone ==
  ASSUME TypeOK, NEW f \in ElfFile, Descends(f), Complete(f)
  PROVE  [f.slots[HeaderSlot] EXCEPT !.magic = UPX] = genuine.slots[HeaderSlot]
<1> DEFINE h == f.slots[HeaderSlot]
           g == genuine.slots[HeaderSlot]
<1>1. h = [g EXCEPT !.magic = h.magic]
  BY HeaderAsPacked
<1>2. g \in Header /\ g.magic = UPX
  BY GenuineIs DEF DecodesIn
<1> HIDE DEF h, g
<1>3. [h EXCEPT !.magic = UPX] = [g EXCEPT !.magic = UPX]
  BY <1>1, <1>2 DEF Header
<1>4. [g EXCEPT !.magic = UPX] = g
  BY <1>2 DEF Header
<1> QED
  BY <1>3, <1>4 DEF h, g

\* Two sequences that share a prefix, behind the same beginning.
LEMMA SharedPrefix ==
  ASSUME NEW S, NEW a \in Seq(S), NEW s \in Seq(S), NEW t \in Seq(S),
         Len(s) <= Len(t), \A k \in 1..Len(s) : t[k] = s[k]
  PROVE  /\ a \o s \in Seq(S) /\ a \o t \in Seq(S) /\ Len(a \o s) <= Len(a \o t)
         /\ \A i \in 1..Len(a \o s) : (a \o t)[i] = (a \o s)[i]
OBVIOUS

\* A file that goes on where another ends keeps the release the other names.
LEMMA LongerKeepsMajor ==
  ASSUME NEW f \in ElfFile, NEW g \in ElfFile, NEW d, MajorIs(g, d),
         f.ids = g.ids, Len(g.slots) <= Len(f.slots),
         \A k \in 1..Len(g.slots) : f.slots[k].marker = g.slots[k].marker
  PROVE  MajorIs(f, d)
<1> DEFINE mg == [k \in DOMAIN g.slots |-> g.slots[k].marker]
           mf == [k \in DOMAIN f.slots |-> f.slots[k].marker]
<1>1. /\ g.ids \in Seq(Token) /\ f.slots \in Seq(Header) /\ g.slots \in Seq(Header)
  BY DEF ElfFile
<1>2. /\ mg \in Seq(Token) /\ Len(mg) = Len(g.slots)
      /\ mf \in Seq(Token) /\ Len(mf) = Len(f.slots)
      /\ \A k \in 1..Len(mg) : mf[k] = mg[k]
  <2>1. DOMAIN f.slots = 1..Len(f.slots) /\ DOMAIN g.slots = 1..Len(g.slots)
    BY <1>1
  <2>2. /\ \A k \in 1..Len(g.slots) : g.slots[k].marker \in Token
        /\ \A k \in 1..Len(f.slots) : f.slots[k].marker \in Token
    <3>1. \A h \in Header : h.marker \in Token
      BY DEF Header
    <3>2. /\ \A k \in 1..Len(g.slots) : g.slots[k] \in Header
          /\ \A k \in 1..Len(f.slots) : f.slots[k] \in Header
      BY <1>1
    <3> QED
      BY <3>1, <3>2
  <2>3. mg \in [1..Len(g.slots) -> Token] /\ mf \in [1..Len(f.slots) -> Token]
    BY <2>1, <2>2
  <2>4. Len(g.slots) \in Nat /\ Len(f.slots) \in Nat
    BY <1>1
  <2>5. /\ mg \in Seq(Token) /\ Len(mg) = Len(g.slots)
        /\ mf \in Seq(Token) /\ Len(mf) = Len(f.slots)
    <3> HIDE DEF mg, mf
    <3> QED
      BY <2>3, <2>4
  <2> QED
    BY <2>1, <2>4, <2>5
<1>3. Tokens(g) = g.ids \o mg /\ Tokens(f) = g.ids \o mf
  BY DEF Tokens
<1> HIDE DEF mg, mf
<1>4. /\ Tokens(g) \in Seq(Token) /\ Tokens(f) \in Seq(Token)
      /\ Len(Tokens(g)) <= Len(Tokens(f))
      /\ \A i \in 1..Len(Tokens(g)) : Tokens(f)[i] = Tokens(g)[i]
  <2>1. Len(mg) <= Len(mf)
    BY <1>2
  <2> DEFINE a == g.ids
  <2>2. a \in Seq(Token)
    BY <1>1
  <2>3. mg \in Seq(Token)
    BY <1>2
  <2>4. mf \in Seq(Token)
    BY <1>2
  <2>5. \A k \in 1..Len(mg) : mf[k] = mg[k]
    BY <1>2
  <2>6. Tokens(g) = a \o mg
    BY <1>3
  <2>7. Tokens(f) = a \o mf
    BY <1>3
  <2> HIDE DEF a
  <2> QED
    BY <2>1, <2>2, <2>3, <2>4, <2>5, <2>6, <2>7, SharedPrefix
<1> QED
  BY <1>4 DEF MajorIs

\* Every complete descendant of a file of UPX 4 is taken for one.
LEMMA MajorIsKept ==
  ASSUME TypeOK, NEW f \in ElfFile, Descends(f), Complete(f), MajorIs(genuine, 4)
  PROVE  MajorIs(f, 4)
<1>1. /\ genuine \in ElfFile /\ f.ids = genuine.ids
      /\ Len(genuine.slots) <= Len(f.slots)
      /\ Len(genuine.slots) \in Nat /\ Len(f.slots) \in Nat
      /\ genuine.slots \in Seq(Header)
  BY GenuineIs DEF Descends, Complete, HeaderSlot, ElfFile
<1>2. ASSUME NEW k \in 1..Len(genuine.slots)
      PROVE  f.slots[k].marker = genuine.slots[k].marker
  <2>1. k \in 1..Len(f.slots) /\ genuine.slots[k] \in Header
    BY <1>1
  <2>2. \/ f.slots[k] = genuine.slots[k]
        \/ \E m \in Magics : f.slots[k] = [genuine.slots[k] EXCEPT !.magic = m]
    BY <2>1, <1>1 DEF Descends
  <2> QED
    BY <2>1, <2>2 DEF Header
<1> QED
  BY <1>1, <1>2, LongerKeepsMajor

\* The file sizes a repair writes are the packer's own.
LEMMA SizesAsPacked ==
  ASSUME TypeOK, NEW f \in ElfFile, Descends(f), Complete(f)
  PROVE  /\ HasInline(f) <=> HasInline(genuine)
         /\ HasInline(f) /\ ~MajorIs(f, 4) =>
              /\ genuine.psize = f.slots[HeaderSlot].usize
              /\ genuine.pblock = f.slots[HeaderSlot].usize
<1>1. HasInline(f) <=> HasInline(genuine)
  BY DEF Descends, HasInline
<1>2. f.slots[HeaderSlot].usize = genuine.slots[HeaderSlot].usize
  BY HeaderAsPacked, GenuineIs DEF Header
<1>3. ASSUME HasInline(genuine), ~MajorIs(genuine, 4)
      PROVE  /\ genuine.psize = genuine.slots[HeaderSlot].usize
             /\ genuine.pblock = genuine.psize
  BY <1>3, GenuineIs DEF IsPacked, HealthyInline, HeaderSlot
<1> QED
  BY <1>1, <1>2, <1>3, MajorIsKept

\* What an accepted file is.
LEMMA AcceptedIsComplete ==
  ASSUME TypeOK, NEW f \in ElfFile, Descends(f), Repairable(f)
  PROVE  TheHeader(f) = HeaderSlot /\ Complete(f)
BY OnlyTheHeader, LocatedIsSlot

(***************************************************************************)
(* Tampering, repairing and cutting short all keep a file a descendant of  *)
(* the genuine one.                                                        *)
(***************************************************************************)
LEMMA TamperingsDescend ==
  ASSUME TypeOK, NEW f \in ElfFile, Descends(f), Complete(f),
         NEW g \in Tamperings(f)
  PROVE  Descends(g) /\ Complete(g)
<1>1. f.slots \in Seq(Header) /\ Len(f.slots) \in Nat
  BY DEF ElfFile
<1>2. CASE g \in {[f EXCEPT !.elfMagic = FALSE], [f EXCEPT !.psize = 0],
                  [f EXCEPT !.pblock = 0]}
  <2>1. /\ g.ident = f.ident /\ g.tables = f.tables /\ g.ids = f.ids
        /\ g.lversion = f.lversion /\ g.lformat = f.lformat /\ g.slots = f.slots
        /\ g.psize \in {0, f.psize} /\ g.pblock \in {0, f.pblock}
    BY <1>2 DEF ElfFile
  <2>2. g.psize \in {0, genuine.psize} /\ g.pblock \in {0, genuine.pblock}
    BY <2>1 DEF Descends
  <2> HIDE <1>2
  <2> QED
    BY <2>1, <2>2 DEF Descends, Complete
<1>3. CASE \E m \in Magics : g = [f EXCEPT !.lmagic = m]
  <2>1. /\ g.ident = f.ident /\ g.tables = f.tables /\ g.ids = f.ids
        /\ g.lversion = f.lversion /\ g.lformat = f.lformat /\ g.slots = f.slots
        /\ g.psize = f.psize /\ g.pblock = f.pblock
    BY <1>3 DEF ElfFile
  <2> QED
    BY <2>1 DEF Descends, Complete
<1>4. CASE \E m \in Magics : g = [f EXCEPT !.slots[HeaderSlot].magic = m]
  <2>1. PICK m \in Magics : g = [f EXCEPT !.slots[HeaderSlot].magic = m]
    BY <1>4
  <2> DEFINE h == [f.slots[HeaderSlot] EXCEPT !.magic = m]
             s == [f.slots EXCEPT ![HeaderSlot] = h]
  <2>2. /\ g.ident = f.ident /\ g.tables = f.tables /\ g.ids = f.ids
        /\ g.lversion = f.lversion /\ g.lformat = f.lformat /\ g.slots = s
        /\ g.psize = f.psize /\ g.pblock = f.pblock
    BY <2>1 DEF ElfFile
  <2>3. HeaderSlot \in 1..Len(f.slots) /\ h \in Header
    BY HeaderAsPacked DEF Header
  <2>4. h = [genuine.slots[HeaderSlot] EXCEPT !.magic = m]
    BY HeaderAsPacked, GenuineIs DEF Header
  <2>5. /\ Len(s) = Len(f.slots) /\ s[HeaderSlot] = h
        /\ \A k \in 1..Len(s) : k # HeaderSlot => s[k] = f.slots[k]
    BY <1>1, <2>3
  <2> HIDE DEF s, h
  <2>6. Complete(g)
    BY <2>2, <2>5 DEF Complete
  <2>7. ASSUME NEW k \in 1..Len(s)
        PROVE  /\ k < HeaderSlot => s[k] = genuine.slots[k]
               /\ k = HeaderSlot =>
                    \E x \in Magics : s[k] = [genuine.slots[k] EXCEPT !.magic = x]
               /\ k > HeaderSlot => ~PlausibleHeader(s[k])
    <3>1. HeaderSlot \in Nat
      BY GenuineIs
    <3> QED
      BY <2>4, <2>5, <3>1 DEF Descends, HeaderSlot
  <2> QED
    BY <2>2, <2>6, <2>7 DEF Descends, HeaderSlot
<1>5. CASE \E h \in Junk : g = [f EXCEPT !.slots = Append(f.slots, h)]
  <2>1. PICK h \in Junk : g = [f EXCEPT !.slots = Append(f.slots, h)]
    BY <1>5
  <2>2. h \in Header /\ ~PlausibleHeader(h)
    BY JunkAssumption
  <2> DEFINE s == Append(f.slots, h)
  <2>3. /\ g.ident = f.ident /\ g.tables = f.tables /\ g.ids = f.ids
        /\ g.lversion = f.lversion /\ g.lformat = f.lformat /\ g.slots = s
        /\ g.psize = f.psize /\ g.pblock = f.pblock
    BY <2>1 DEF ElfFile
  <2>4. /\ Len(s) = Len(f.slots) + 1 /\ s[Len(f.slots) + 1] = h
        /\ \A k \in 1..Len(f.slots) : s[k] = f.slots[k]
    BY <1>1, <2>2
  <2> HIDE DEF s
  <2>5. HeaderSlot \in Nat /\ HeaderSlot <= Len(f.slots)
    BY GenuineIs DEF Complete
  <2>6. Complete(g)
    BY <2>3, <2>4, <2>5, <1>1 DEF Complete
  <2>7. ASSUME NEW k \in 1..Len(s)
        PROVE  /\ k < HeaderSlot => s[k] = genuine.slots[k]
               /\ k = HeaderSlot =>
                    \E x \in Magics : s[k] = [genuine.slots[k] EXCEPT !.magic = x]
               /\ k > HeaderSlot => ~PlausibleHeader(s[k])
    <3>1. CASE k = Len(f.slots) + 1
      BY <3>1, <2>2, <2>4, <2>5, <1>1
    <3>2. CASE k \in 1..Len(f.slots)
      BY <3>2, <2>4 DEF Descends, HeaderSlot
    <3>3. Len(f.slots) \in Nat
      BY <1>1
    <3> QED
      BY <3>1, <3>2, <3>3, <2>4
  <2> QED
    BY <2>3, <2>6, <2>7 DEF Descends, HeaderSlot
<1> QED
  BY <1>2, <1>3, <1>4, <1>5 DEF Tamperings

LEMMA RepairsDescend ==
  ASSUME TypeOK, NEW f \in ElfFile, Descends(f), Repairable(f)
  PROVE  Descends(Repaired(f)) /\ Complete(Repaired(f))
<1> DEFINE r == Repaired(f)
           s == RepairedSlots(f)
<1>1. TheHeader(f) = HeaderSlot /\ Complete(f)
  BY AcceptedIsComplete
<1>2. /\ r.ident = f.ident /\ r.tables = f.tables /\ r.ids = f.ids
      /\ r.lversion = f.lversion /\ r.lformat = f.lformat /\ r.slots = s
      /\ r.psize = IF RewritesPInfo(f) THEN f.slots[TheHeader(f)].usize ELSE f.psize
      /\ r.pblock = IF RewritesPInfo(f) THEN f.slots[TheHeader(f)].usize ELSE f.pblock
  BY DEF Repaired, ElfFile
<1>3. r.psize \in {0, genuine.psize} /\ r.pblock \in {0, genuine.pblock}
  <2>1. CASE RewritesPInfo(f)
    <3>1. HasInline(f) /\ ~MajorIs(f, 4)
      BY <2>1 DEF RewritesPInfo
    <3> QED
      BY <2>1, <3>1, <1>1, <1>2, SizesAsPacked
  <2>2. CASE ~RewritesPInfo(f)
    <3>1. r.psize = f.psize /\ r.pblock = f.pblock
      BY <2>2, <1>2
    <3> QED
      BY <3>1 DEF Descends
  <2> QED
    BY <2>1, <2>2
<1>4. /\ Len(s) \in {HeaderSlot, Len(f.slots)}
      /\ \A j \in 1..Len(s) :
           s[j] = IF j = HeaderSlot THEN RepairedHeader(f) ELSE f.slots[j]
  BY <1>1, RepairedSlotsAre
<1>5. RepairedHeader(f) = [genuine.slots[HeaderSlot] EXCEPT !.magic = UPX]
  <2>1. RepairedHeader(f) = genuine.slots[HeaderSlot]
    BY <1>1, RepairedHeaderIs, MagicUndone
  <2> QED
    BY <2>1, GenuineIs DEF DecodesIn, Header
<1>6. /\ HeaderSlot \in Nat /\ HeaderSlot <= Len(f.slots) /\ Len(f.slots) \in Nat
  BY <1>1, GenuineIs DEF Complete, ElfFile
<1> HIDE DEF r, s
<1>7. Complete(r)
  BY <1>2, <1>4, <1>6 DEF Complete
<1>8. ASSUME NEW k \in 1..Len(s)
      PROVE  /\ k < HeaderSlot => s[k] = genuine.slots[k]
             /\ k = HeaderSlot =>
                  \E x \in Magics : s[k] = [genuine.slots[k] EXCEPT !.magic = x]
             /\ k > HeaderSlot => ~PlausibleHeader(s[k])
  <2>1. CASE k = HeaderSlot
    <3>1. s[k] = [genuine.slots[k] EXCEPT !.magic = UPX] /\ UPX \in Magics
      BY <2>1, <1>4, <1>5 DEF Magics
    <3> QED
      BY <2>1, <3>1, <1>6
  <2>2. CASE k # HeaderSlot
    <3>1. s[k] = f.slots[k] /\ k \in 1..Len(f.slots)
      BY <2>2, <1>4, <1>6
    <3> QED
      BY <2>2, <3>1 DEF Descends, HeaderSlot
  <2> QED
    BY <2>1, <2>2
<1>9. /\ r.ident = genuine.ident /\ r.tables = genuine.tables /\ r.ids = genuine.ids
      /\ r.lversion = genuine.lversion /\ r.lformat = genuine.lformat
  BY <1>2 DEF Descends
<1>10. Descends(r)
  BY <1>2, <1>3, <1>8, <1>9 DEF Descends, HeaderSlot
<1> QED
  BY <1>7, <1>10 DEF r

LEMMA TornDescends ==
  ASSUME TypeOK, NEW f \in ElfFile, Descends(f), NEW t \in Torn(f), NEW g \in t
  PROVE  Descends(g)
<1>1. PICK n \in 0..(Len(f.slots) - 1) : g = [f EXCEPT !.slots = SubSeq(f.slots, 1, n)]
  BY DEF Torn
<1> DEFINE s == SubSeq(f.slots, 1, n)
<1>2. f.slots \in Seq(Header) /\ n \in Nat /\ n <= Len(f.slots)
  BY DEF ElfFile
<1>3. /\ g.ident = f.ident /\ g.tables = f.tables /\ g.ids = f.ids
      /\ g.lversion = f.lversion /\ g.lformat = f.lformat /\ g.slots = s
      /\ g.psize = f.psize /\ g.pblock = f.pblock
  BY <1>1 DEF ElfFile
<1>4. Len(s) = n /\ \A k \in 1..n : s[k] = f.slots[k] /\ k \in 1..Len(f.slots)
  BY <1>2
<1> HIDE DEF s
<1>5. /\ g.ident = genuine.ident /\ g.tables = genuine.tables /\ g.ids = genuine.ids
      /\ g.lversion = genuine.lversion /\ g.lformat = genuine.lformat
      /\ g.psize \in {0, genuine.psize} /\ g.pblock \in {0, genuine.pblock}
  BY <1>3 DEF Descends
<1>6. ASSUME NEW k \in 1..Len(s)
      PROVE  /\ k < HeaderSlot => s[k] = genuine.slots[k]
             /\ k = HeaderSlot =>
                  \E x \in Magics : s[k] = [genuine.slots[k] EXCEPT !.magic = x]
             /\ k > HeaderSlot => ~PlausibleHeader(s[k])
  <2>1. s[k] = f.slots[k] /\ k \in 1..Len(f.slots)
    BY <1>4
  <2> QED
    BY <2>1 DEF Descends, HeaderSlot
<1> QED
  BY <1>3, <1>5, <1>6 DEF Descends, HeaderSlot

(***************************************************************************)
(* The repair of a file that descends from the genuine one is the genuine  *)
(* file, up to what the repair does not promise.                           *)
(***************************************************************************)
LEMMA RepairsRestore ==
  ASSUME TypeOK, NEW f \in ElfFile, Descends(f), Repairable(f)
  PROVE  Restored(Repaired(f), IsGeneric(f), MajorIs(f, 4))
<1> DEFINE r == Repaired(f)
           s == RepairedSlots(f)
           Body(x) == [x EXCEPT !.lmagic = UPX, !.psize = 0, !.pblock = 0,
                                !.slots = <<>>]
<1>1. TheHeader(f) = HeaderSlot /\ Complete(f) /\ HeaderSlot = Len(genuine.slots)
  BY AcceptedIsComplete DEF HeaderSlot
<1>2. genuine \in ElfFile /\ genuine.elfMagic = TRUE
  BY GenuineIs DEF IsPacked, ElfFile
<1>3. /\ r \in ElfFile /\ r.slots = s /\ r.elfMagic = TRUE
      /\ r.lmagic = IF HasInline(f) THEN UPX ELSE f.lmagic
      /\ r.psize = IF RewritesPInfo(f) THEN f.slots[TheHeader(f)].usize ELSE f.psize
      /\ r.pblock = IF RewritesPInfo(f) THEN f.slots[TheHeader(f)].usize ELSE f.pblock
  <2>1. r \in ElfFile
    BY RepairedIsElfFile
  <2> QED
    BY <2>1 DEF Repaired, ElfFile
<1>4. /\ r.ident = genuine.ident /\ r.tables = genuine.tables /\ r.ids = genuine.ids
      /\ r.lversion = genuine.lversion /\ r.lformat = genuine.lformat
  BY RepairsDescend DEF Descends
<1>5. /\ s \in Seq(Header)
      /\ Len(s) = IF Trims(f) THEN HeaderSlot ELSE Len(f.slots)
      /\ \A j \in 1..Len(s) :
           s[j] = IF j = HeaderSlot THEN RepairedHeader(f) ELSE f.slots[j]
  BY <1>1, RepairedSlotsAre
<1>6. RepairedHeader(f) = genuine.slots[HeaderSlot]
  BY <1>1, RepairedHeaderIs, MagicUndone
<1>7. ASSUME HasInline(genuine), ~MajorIs(f, 4)
      PROVE  r.psize = genuine.psize /\ r.pblock = genuine.pblock
  <2>1. HasInline(f) /\ ~MajorIs(f, 4)
    BY <1>1, <1>7, SizesAsPacked
  <2>2. CASE RewritesPInfo(f)
    BY <2>1, <2>2, <1>1, <1>3, SizesAsPacked
  <2>3. CASE ~RewritesPInfo(f)
    <3>1. f.psize # 0 /\ f.pblock # 0
      BY <2>1, <2>3 DEF RewritesPInfo
    <3> QED
      BY <2>3, <3>1, <1>3 DEF Descends
  <2> QED
    BY <2>2, <2>3
<1>8. HasInline(genuine) => r.lmagic = UPX
  BY <1>1, <1>3, SizesAsPacked
<1>9. IsGeneric(f) \/ Len(s) = HeaderSlot
  BY <1>1, <1>3, GuidedHeaderIsLast
<1> HIDE DEF r, s
<1>10. Body(r) = Body(genuine)
  BY <1>2, <1>3, <1>4 DEF ElfFile
<1>11. /\ HeaderSlot \in Nat /\ HeaderSlot <= Len(f.slots) /\ Len(f.slots) \in Nat
       /\ genuine.slots \in Seq(Header)
  BY <1>1, GenuineIs DEF Complete, ElfFile
<1>12. Len(s) >= HeaderSlot
  BY <1>5, <1>11
<1>13. SubSeq(s, 1, HeaderSlot) = genuine.slots
  <2>1. /\ SubSeq(s, 1, HeaderSlot) \in Seq(Header)
        /\ Len(SubSeq(s, 1, HeaderSlot)) = HeaderSlot
        /\ \A j \in 1..HeaderSlot : SubSeq(s, 1, HeaderSlot)[j] = s[j]
    BY <1>5, <1>11, <1>12
  <2>2. ASSUME NEW j \in 1..HeaderSlot PROVE s[j] = genuine.slots[j]
    <3>1. j \in 1..Len(s) /\ j \in 1..Len(f.slots)
      BY <1>11, <1>12, <1>5
    <3>2. CASE j = HeaderSlot
      BY <3>1, <3>2, <1>5, <1>6
    <3>3. CASE j < HeaderSlot
      <4>1. s[j] = f.slots[j]
        BY <3>1, <3>3, <1>5
      <4>2. f.slots[j] = genuine.slots[j]
        BY <3>1, <3>3, <1>1 DEF Descends
      <4> QED
        BY <4>1, <4>2
    <3> QED
      BY <3>2, <3>3, <1>11
  <2> QED
    BY <2>1, <2>2, <1>1, <1>11, SameSlots
<1>14. Restored(r, IsGeneric(f), MajorIs(f, 4))
  BY <1>1, <1>3, <1>7, <1>8, <1>9, <1>10, <1>12, <1>13 DEF Restored
<1> QED
  BY <1>14 DEF r

(***************************************************************************)
(* Which complete files are accepted: the search of                        *)
(* repair_upx_elf_buffer, solved for the packer's header.                  *)
(***************************************************************************)
LEMMA LastOccurrenceIsHeader ==
  ASSUME TypeOK, NEW f \in ElfFile, Complete(f), NEW m
  PROVE  HeaderSlot \in Last(Occurrences(f, m)) <=>
           /\ f.slots[HeaderSlot].magic = m
           /\ \A k \in (HeaderSlot + 1)..Len(f.slots) : f.slots[k].magic # m
<1>1. /\ HeaderSlot \in Nat \ {0} /\ HeaderSlot <= Len(f.slots)
      /\ Len(f.slots) \in Nat
  BY GenuineIs DEF Complete, ElfFile
<1>2. MagicAt(f, HeaderSlot) = f.slots[HeaderSlot].magic
  BY <1>1 DEF MagicAt
<1>3. \A k \in (HeaderSlot + 1)..Len(f.slots) :
        MagicAt(f, k) = f.slots[k].magic /\ k \in 0..Len(f.slots) /\ ~(k <= HeaderSlot)
  BY <1>1 DEF MagicAt
<1>4. ASSUME HeaderSlot \in Last(Occurrences(f, m))
      PROVE  /\ f.slots[HeaderSlot].magic = m
             /\ \A k \in (HeaderSlot + 1)..Len(f.slots) : f.slots[k].magic # m
  BY <1>2, <1>3, <1>4 DEF Last, Occurrences
<1>5. ASSUME f.slots[HeaderSlot].magic = m,
             \A k \in (HeaderSlot + 1)..Len(f.slots) : f.slots[k].magic # m
      PROVE  HeaderSlot \in Last(Occurrences(f, m))
  <2>1. HeaderSlot \in Occurrences(f, m)
    BY <1>1, <1>2, <1>5 DEF Occurrences
  <2>2. ASSUME NEW j \in Occurrences(f, m) PROVE j <= HeaderSlot
    <3>1. j \in 0..Len(f.slots) /\ MagicAt(f, j) = m
      BY <2>2 DEF Occurrences
    <3>2. j \notin (HeaderSlot + 1)..Len(f.slots)
      BY <3>1, <1>3, <1>5
    <3> QED
      BY <3>1, <3>2, <1>1
  <2> QED
    BY <2>1, <2>2 DEF Last
<1> QED
  BY <1>4, <1>5

LEMMA NoOccurrence ==
  ASSUME NEW f \in ElfFile
  PROVE  Occurrences(f, UPX) = {} <=>
           f.lmagic # UPX /\ \A k \in DOMAIN f.slots : f.slots[k].magic # UPX
<1>1. DOMAIN f.slots = 1..Len(f.slots) /\ Len(f.slots) \in Nat
  BY DEF ElfFile
<1>2. /\ 0 \in 0..Len(f.slots) /\ MagicAt(f, 0) = f.lmagic
      /\ \A k \in 1..Len(f.slots) : k \in 0..Len(f.slots)
           /\ MagicAt(f, k) = f.slots[k].magic
      /\ \A k \in 0..Len(f.slots) : k = 0 \/ k \in 1..Len(f.slots)
  BY <1>1 DEF MagicAt
<1> QED
  BY <1>1, <1>2 DEF Occurrences

\* The pattern finds the header by its own magic or by l_info's.
LEMMA PatternFindsHeader ==
  ASSUME TypeOK, NEW f \in ElfFile, Complete(f)
  PROVE  HeaderSlot \in Last(Occurrences(f, Pattern(f))) <=>
           \/ /\ f.slots[HeaderSlot].magic = UPX
              /\ \A k \in (HeaderSlot + 1)..Len(f.slots) : f.slots[k].magic # UPX
           \/ FoundByInlineMagic(f)
<1>1. f.lmagic \in Magics /\ OtherMagics \cap {UPX, Zero} = {}
  BY MagicAssumption DEF ElfFile
<1>2. HeaderSlot \in DOMAIN f.slots
  BY GenuineIs DEF ElfFile, Complete
<1>3. CASE Occurrences(f, UPX) = {} /\ f.lmagic # Zero
  <2>1. Pattern(f) = f.lmagic
    BY <1>3 DEF Pattern
  <2>2. f.lmagic \in OtherMagics /\ \A k \in DOMAIN f.slots : f.slots[k].magic # UPX
    BY <1>1, <1>3, NoOccurrence DEF Magics
  <2> QED
    BY <2>1, <2>2, <1>2, LastOccurrenceIsHeader DEF FoundByInlineMagic
<1>4. CASE ~(Occurrences(f, UPX) = {} /\ f.lmagic # Zero)
  <2>1. Pattern(f) = UPX
    BY <1>4 DEF Pattern
  <2>2. ~FoundByInlineMagic(f)
    <3> SUFFICES ASSUME FoundByInlineMagic(f) PROVE FALSE
      OBVIOUS
    <3>1. f.lmagic \in OtherMagics /\ \A k \in DOMAIN f.slots : f.slots[k].magic # UPX
      BY DEF FoundByInlineMagic
    <3>2. f.lmagic # UPX /\ f.lmagic # Zero
      BY <3>1, <1>1
    <3> QED
      BY <3>1, <3>2, <1>4, NoOccurrence
  <2> QED
    BY <2>1, <2>2, LastOccurrenceIsHeader
<1> QED
  BY <1>3, <1>4

\* The only header that decodes is the packer's, while it has its own magic.
LEMMA OnlyTheHeaderDecodes ==
  ASSUME TypeOK, NEW f \in ElfFile, Descends(f), Complete(f)
  PROVE  LastDecodable(f) # {} <=> f.slots[HeaderSlot].magic = UPX
<1> DEFINE h == f.slots[HeaderSlot]
           g == genuine.slots[HeaderSlot]
<1>1. /\ HeaderSlot \in 1..Len(f.slots) /\ DOMAIN f.slots = 1..Len(f.slots)
      /\ h \in Header /\ PlausibleHeader(h) /\ h = [g EXCEPT !.magic = h.magic]
  BY HeaderAsPacked DEF ElfFile
<1>2. \A k \in Decodable(f) : k = HeaderSlot /\ h.magic = UPX
  BY <1>1, OnlyTheHeader DEF Decodable, DecodesIn
<1>3. ASSUME h.magic = UPX
      PROVE  HeaderSlot \in LastDecodable(f)
  <2>1. h = g
    BY <1>1, <1>3, MagicUndone, GenuineIs DEF Header
  <2>2. FileSize(genuine) <= FileSize(f) /\ FileSize(genuine) \in Nat
        /\ FileSize(f) \in Nat
    <3>1. /\ Len(genuine.slots) \in Nat /\ Len(f.slots) \in Nat
          /\ Len(genuine.slots) <= Len(f.slots)
      BY GenuineIs DEF ElfFile, Complete, HeaderSlot
    <3> QED
      BY <3>1 DEF FileSize, BaseSize, SlotSize
  <2>3. DecodesIn(g, FileSize(genuine)) /\ g \in Header
    BY GenuineIs
  <2>4. g.ulen \in Nat /\ g.clen \in Nat
    BY <2>3 DEF Header
  <2>5. DecodesIn(g, FileSize(f))
    <3>1. g.ulen <= FileSize(f) \/ g.clen <= FileSize(f)
      BY <2>2, <2>3, <2>4 DEF DecodesIn
    <3> QED
      BY <2>3, <3>1 DEF DecodesIn
  <2>6. HeaderSlot \in Decodable(f)
    BY <1>1, <2>1, <2>5 DEF Decodable
  <2> QED
    BY <2>6, <1>2, <1>1 DEF LastDecodable, Last
<1> QED
  BY <1>2, <1>3 DEF LastDecodable, Last

LEMMA AcceptsExactlyThese ==
  ASSUME TypeOK, NEW f \in ElfFile, Descends(f), Complete(f)
  PROVE  Repairable(f) <=>
           \/ FoundByOwnMagic(f) /\ (HasInline(f) \/ ~f.elfMagic)
           \/ FoundByInlineMagic(f) /\ HasInline(f)
<1>1. LayoutOk(f)
  BY GenuineIs DEF LayoutOk, Descends, IsPacked
<1>2. /\ HeaderSlot \in 1..Len(f.slots) /\ DOMAIN f.slots = 1..Len(f.slots)
      /\ PlausibleHeader(f.slots[HeaderSlot])
      /\ HasInline(f) => MatchesInline(f, HeaderSlot)
  <2>1. DOMAIN f.slots = 1..Len(f.slots)
    BY DEF ElfFile
  <2> QED
    BY <2>1, HeaderAsPacked
<1>3. StrictHeaders(f) # {} <=>
        HasInline(f) /\ HeaderSlot \in Last(Occurrences(f, Pattern(f)))
  <2>1. \A k \in StrictHeaders(f) :
          k = HeaderSlot /\ HasInline(f) /\ k \in Last(Occurrences(f, Pattern(f)))
    BY <1>2, OnlyTheHeader DEF StrictHeaders
  <2>2. ASSUME HasInline(f), HeaderSlot \in Last(Occurrences(f, Pattern(f)))
        PROVE  HeaderSlot \in StrictHeaders(f)
    BY <2>2, <1>2 DEF StrictHeaders
  <2> QED
    BY <2>1, <2>2
<1>4. Located(f) # {} <=>
        StrictHeaders(f) # {} \/ (~f.elfMagic /\ LastDecodable(f) # {})
  BY DEF Located, Preferred, Fallback
<1>5. Repairable(f) <=>
        \/ HasInline(f) /\ HeaderSlot \in Last(Occurrences(f, Pattern(f)))
        \/ ~f.elfMagic /\ f.slots[HeaderSlot].magic = UPX
  BY <1>1, <1>3, <1>4, OnlyTheHeaderDecodes DEF Repairable
<1> QED
  BY <1>5, PatternFindsHeader DEF FoundByOwnMagic

\* What fileinfo says of a repaired file.
LEMMA FileinfoOfRepair ==
  ASSUME TypeOK, NEW l \in ElfFile, Descends(l), Repairable(l)
  PROVE  LET f == Repaired(l)
             k == TheHeader(l)
         IN  HasInline(f) \/ (f.lmagic # UPX /\ k \in Last(Occurrences(f, UPX)))
               => FileinfoHeader(f) = {<<f.slots[k].version, f.slots[k].format>>}
<1> DEFINE f == Repaired(l)
           k == TheHeader(l)
           S == {<<f.slots[k].version, f.slots[k].format>>}
<1>1. f \in ElfFile /\ Descends(f) /\ Complete(f)
  BY RepairsDescend, RepairedIsElfFile
<1>2. k = HeaderSlot
  BY AcceptedIsComplete
<1>3. f.elfMagic /\ f.ident /\ f.tables
  <2>1. f.elfMagic = TRUE
    BY DEF Repaired, ElfFile
  <2> QED
    BY <2>1, <1>1, GenuineIs DEF Descends, IsPacked
<1>4. HasInline(f) => f.lmagic = UPX
  BY DEF Repaired, ElfFile, HasInline
<1>5. /\ f.slots[k] \in Header /\ PlausibleHeader(f.slots[k])
      /\ HasInline(f) => MatchesInline(f, k)
  BY <1>1, <1>2, HeaderAsPacked
<1> HIDE DEF f, k
<1>6. ASSUME HasInline(f) PROVE FileinfoHeader(f) = S
  <2>1. FileinfoHeader(f) = {<<f.lversion, f.lformat>>}
    BY <1>3, <1>4, <1>6 DEF FileinfoHeader
  <2> QED
    BY <2>1, <1>5, <1>6 DEF MatchesInline
<1>7. ASSUME ~HasInline(f), f.lmagic # UPX, k \in Last(Occurrences(f, UPX))
      PROVE  FileinfoHeader(f) = S
  <2>1. k # 0 /\ MagicAt(f, k) = UPX
    BY <1>2, <1>7, GenuineIs DEF Last, Occurrences
  <2>2. DecodesLoosely(f.slots[k])
    BY <2>1, <1>5 DEF DecodesLoosely, MagicAt
  <2>3. \A j \in Last(Occurrences(f, UPX)) : j = k
    BY <1>7, LastUnique DEF Last, Occurrences
  <2>4. {j \in Last(Occurrences(f, UPX)) :
           /\ DecodesLoosely(f.slots[j])
           /\ HasInline(f) => MatchesInline(f, j)} = {k}
    BY <2>2, <2>3, <1>7
  <2> QED
    BY <2>4, <1>3, <1>7 DEF FileinfoHeader
<1> QED
  BY <1>6, <1>7 DEF f, k

-----------------------------------------------------------------------------
LEMMA InitFiles == Init => FilesInv
<1> SUFFICES ASSUME Init PROVE FilesInv
  OBVIOUS
<1>1. TypeOK
  BY InitInv DEF Inv
<1>2. \A p \in Path : \A f \in disk[p] : f = genuine
  BY DEF Init
<1> QED
  BY <1>1, <1>2, GenuineDescends DEF Init, FilesInv

\* A write leaves the other path alone, and every file a descendant if it wrote one.
LEMMA DiskDescends ==
  ASSUME TypeOK, FilesInv, NEW p \in Path, NEW t, \A g \in t : Descends(g),
         disk' = [disk EXCEPT ![p] = t]
  PROVE  \A q \in Path : \A f \in disk'[q] : Descends(f)
<1>1. \A q \in Path : disk'[q] = t \/ disk'[q] = disk[q]
  BY DEF TypeOK
<1> QED
  BY <1>1 DEF FilesInv

\* The genuine file never changes, so neither does what descends from it.
LEMMA DescendsStays ==
  ASSUME genuine' = genuine, NEW f
  PROVE  (Descends(f)' <=> Descends(f)) /\ (Complete(f)' <=> Complete(f))
BY DEF Descends, Complete, HeaderSlot

LEMMA FilesInvNext ==
  ASSUME genuine' = genuine,
         \A q \in Path : \A f \in disk'[q] : Descends(f),
         \A f \in loaded' : Descends(f),
         \A f \in buffer' : Descends(f),
         FirstRead' => \A q \in Path : \A f \in disk'[q] : Complete(f),
         runs' = 1 /\ pc' = "repair" => \A f \in buffer' : Complete(f)
  PROVE  FilesInv'
<1>1. \A q \in Path : \A f \in disk'[q] : Descends(f)'
  BY DescendsStays
<1>2. \A f \in loaded' : Descends(f)'
  BY DescendsStays
<1>3. \A f \in buffer' : Descends(f)'
  BY DescendsStays
<1>4. FirstRead' => \A q \in Path : \A f \in disk'[q] : Complete(f)'
  BY DescendsStays
<1>5. runs' = 1 /\ pc' = "repair" => \A f \in buffer' : Complete(f)'
  BY DescendsStays
<1> QED
  BY <1>1, <1>2, <1>3, <1>4, <1>5 DEF FilesInv

\* After the first run has read its input the number of slots is not kept.
LEMMA FilesInvLater ==
  ASSUME genuine' = genuine, runs # 0, runs' = runs,
         pc' \notin {"read", "repair"},
         \A q \in Path : \A f \in disk'[q] : Descends(f),
         \A f \in loaded' : Descends(f),
         \A f \in buffer' : Descends(f)
  PROVE  FilesInv'
<1>1. ~FirstRead' /\ ~(runs' = 1 /\ pc' = "repair")
  BY DEF FirstRead
<1> QED
  BY <1>1, FilesInvNext

LEMMA NextFiles == Inv /\ FilesInv /\ [Next]_vars => FilesInv'
<1> SUFFICES ASSUME Inv, FilesInv, [Next]_vars PROVE FilesInv'
  OBVIOUS
<1> USE DEF Inv
<1>1. CASE Tamper
  <2>1. PICK f \in disk["sample"] : \E g \in Tamperings(f) :
               disk' = [disk EXCEPT !["sample"] = {g}]
    BY <1>1 DEF Tamper
  <2>2. PICK g \in Tamperings(f) : disk' = [disk EXCEPT !["sample"] = {g}]
    BY <2>1
  <2>3. /\ "sample" \in Path /\ f \in ElfFile /\ Descends(f) /\ Complete(f)
        /\ runs = 0 /\ FirstRead
    BY <1>1 DEF Tamper, TypeOK, Path, FilesInv, FirstRead
  <2>4. Descends(g) /\ Complete(g)
    BY <2>2, <2>3, TamperingsDescend
  <2>5. \A q \in Path : \A x \in disk'[q] : Descends(x)
    BY <2>2, <2>3, <2>4, DiskDescends
  <2>6. \A q \in Path : \A x \in disk'[q] : Complete(x)
    <3>1. \A q \in Path : disk'[q] = {g} \/ disk'[q] = disk[q]
      BY <2>2 DEF TypeOK
    <3> QED
      BY <3>1, <2>3, <2>4 DEF FilesInv
  <2>7. /\ genuine' = genuine /\ loaded' = loaded /\ buffer' = buffer /\ runs' = runs
    BY <1>1 DEF Tamper
  <2> QED
    BY <2>3, <2>5, <2>6, <2>7, FilesInvNext DEF FilesInv
<1>2. ASSUME NEW p \in Path, NEW q \in Path, Start(p, q)
      PROVE  FilesInv'
  <2>1. /\ genuine' = genuine /\ disk' = disk /\ loaded' = {} /\ buffer' = {}
        /\ runs' = runs + 1 /\ runs \in Nat /\ pc' = "read"
    <3>1. runs \in 0..MaxRuns /\ MaxRuns \in Nat
      BY BoundsAssumption DEF TypeOK
    <3>2. runs \in Nat
      BY <3>1
    <3> QED
      BY <1>2, <3>2 DEF Start
  <2>2. FirstRead' => FirstRead
    BY <2>1 DEF FirstRead
  <2> QED
    BY <2>1, <2>2, FilesInvNext DEF FilesInv
<1>3. CASE ReadFile
  <2>1. /\ genuine' = genuine /\ disk' = disk /\ runs' = runs /\ pc = "read"
        /\ src \in Path /\ runs # 0
    BY <1>3 DEF ReadFile, TypeOK, RunInv
  <2>2. CASE buffer' = disk[src] /\ loaded' = disk[src] /\ pc' = "repair"
    <3>1. \A f \in disk[src] : Descends(f) /\ (FirstRead => Complete(f))
      BY <2>1 DEF FilesInv
    <3>2. runs = 1 => FirstRead
      BY <2>1 DEF FirstRead
    <3>3. ~FirstRead'
      BY <2>1, <2>2 DEF FirstRead
    <3>4. ASSUME runs' = 1 PROVE \A f \in buffer' : Complete(f)
      <4>1. FirstRead /\ buffer' = disk[src]
        BY <3>2, <3>4, <2>1, <2>2
      <4> QED
        BY <4>1, <3>1
    <3> QED
      BY <2>1, <2>2, <3>1, <3>3, <3>4, FilesInvNext DEF FilesInv
  <2>3. CASE Fail /\ UNCHANGED loaded
    <3>1. pc' \notin {"read", "repair"} /\ buffer' = {}
      BY <2>3 DEF Fail
    <3> QED
      BY <2>1, <2>3, <3>1, FilesInvLater DEF FilesInv
  <2> QED
    BY <1>3, <2>2, <2>3 DEF ReadFile
<1>4. CASE RepairBuffer
  <2>1. PICK f \in buffer :
          \/ Repairable(f) /\ buffer' = {Repaired(f)} /\ pc' = "open"
          \/ Fail
    BY <1>4 DEF RepairBuffer
  <2>2. f \in ElfFile /\ Descends(f) /\ runs # 0
    BY <1>4 DEF RepairBuffer, RunInv, TypeOK, FilesInv
  <2>3. /\ pc' \notin {"read", "repair"} /\ \A g \in buffer' : Descends(g)
    BY <2>1, <2>2, RepairsDescend DEF Fail
  <2>4. /\ genuine' = genuine /\ runs' = runs /\ disk' = disk /\ loaded' = loaded
    BY <1>4 DEF RepairBuffer
  <2> QED
    BY <2>2, <2>3, <2>4, FilesInvLater DEF FilesInv
<1>5. CASE OpenOutput
  <2>1. /\ genuine' = genuine /\ runs' = runs /\ loaded' = loaded /\ runs # 0
        /\ dst \in Path /\ (buffer' = buffer \/ buffer' = {})
        /\ pc' \notin {"read", "repair"}
    BY <1>5 DEF OpenOutput, Fail, RunInv, TypeOK
  <2>2. disk' = disk \/ disk' = [disk EXCEPT ![dst] = {}]
    BY <1>5 DEF OpenOutput
  <2>3. \A q \in Path : \A f \in disk'[q] : Descends(f)
    BY <2>1, <2>2, DiskDescends DEF FilesInv
  <2> QED
    BY <2>1, <2>3, FilesInvLater DEF FilesInv
<1>6. CASE WriteOutput
  <2>1. /\ genuine' = genuine /\ runs' = runs /\ loaded' = loaded /\ runs # 0
        /\ dst \in Path /\ (buffer' = buffer \/ buffer' = {})
        /\ pc' \notin {"read", "repair"}
    BY <1>6 DEF WriteOutput, Fail, RunInv, TypeOK
  <2>2. PICK t : disk' = [disk EXCEPT ![dst] = t] /\ \A g \in t : Descends(g)
    <3>1. CASE disk' = [disk EXCEPT ![dst] = buffer]
      BY <3>1 DEF FilesInv
    <3>2. CASE \E f \in buffer : \E t \in Torn(f) : disk' = [disk EXCEPT ![dst] = t]
      <4>1. PICK f \in buffer : \E t \in Torn(f) : disk' = [disk EXCEPT ![dst] = t]
        BY <3>2
      <4>2. f \in ElfFile /\ Descends(f)
        BY DEF TypeOK, FilesInv
      <4> QED
        BY <4>1, <4>2, TornDescends
    <3> QED
      BY <1>6, <3>1, <3>2 DEF WriteOutput
  <2>3. \A q \in Path : \A f \in disk'[q] : Descends(f)
    BY <2>1, <2>2, DiskDescends
  <2> QED
    BY <2>1, <2>3, FilesInvLater DEF FilesInv
<1>7. CASE CloseOutput
  <2>1. /\ genuine' = genuine /\ runs' = runs /\ loaded' = loaded /\ runs # 0
        /\ dst \in Path /\ (buffer' = buffer \/ buffer' = {})
        /\ pc' \notin {"read", "repair"}
    BY <1>7 DEF CloseOutput, Fail, RunInv, TypeOK
  <2>2. \A q \in Path : \A f \in disk'[q] : Descends(f)
    <3>1. CASE UNCHANGED disk
      BY <3>1 DEF FilesInv
    <3>2. CASE \E f \in buffer : \E t \in Torn(f) \cup {{f}} :
                 disk' = [disk EXCEPT ![dst] = t]
      <4>1. PICK f \in buffer : \E t \in Torn(f) \cup {{f}} :
                 disk' = [disk EXCEPT ![dst] = t]
        BY <3>2
      <4>2. f \in ElfFile /\ Descends(f)
        BY DEF TypeOK, FilesInv
      <4>3. PICK t : disk' = [disk EXCEPT ![dst] = t] /\ \A g \in t : Descends(g)
        BY <4>1, <4>2, TornDescends
      <4> QED
        BY <4>3, <2>1, DiskDescends
    <3> QED
      BY <1>7, <3>1, <3>2 DEF CloseOutput
  <2> QED
    BY <2>1, <2>2, FilesInvLater DEF FilesInv
<1>8. CASE Crash
  <2>1. /\ genuine' = genuine /\ runs' = runs /\ loaded' = loaded /\ runs # 0
        /\ dst \in Path /\ buffer' = {} /\ pc' \notin {"read", "repair"}
    BY <1>8 DEF Crash, Running, RunInv, TypeOK
  <2>2. \A q \in Path : \A f \in disk'[q] : Descends(f)
    <3>1. CASE UNCHANGED disk
      BY <3>1 DEF FilesInv
    <3>2. CASE \E f \in buffer : \E t \in Torn(f) \cup {{f}} :
                 disk' = [disk EXCEPT ![dst] = t]
      <4>1. PICK f \in buffer : \E t \in Torn(f) \cup {{f}} :
                 disk' = [disk EXCEPT ![dst] = t]
        BY <3>2
      <4>2. f \in ElfFile /\ Descends(f)
        BY DEF TypeOK, FilesInv
      <4>3. PICK t : disk' = [disk EXCEPT ![dst] = t] /\ \A g \in t : Descends(g)
        BY <4>1, <4>2, TornDescends
      <4> QED
        BY <4>3, <2>1, DiskDescends
    <3> QED
      BY <1>8, <3>1, <3>2 DEF Crash
  <2> QED
    BY <2>1, <2>2, FilesInvLater DEF FilesInv
<1>9. CASE UNCHANGED vars
  <2>1. /\ genuine' = genuine /\ disk' = disk /\ loaded' = loaded
        /\ buffer' = buffer /\ runs' = runs /\ pc' = pc
    BY <1>9 DEF vars
  <2>2. FirstRead' <=> FirstRead
    BY <2>1 DEF FirstRead
  <2> QED
    BY <2>1, <2>2, FilesInvNext DEF FilesInv
<1> QED
  BY <1>1, <1>2, <1>3, <1>4, <1>5, <1>6, <1>7, <1>8, <1>9 DEF Next

(***************************************************************************)
(* Every file the runs read, hold or leave behind descends from the file   *)
(* the packer wrote.                                                       *)
(***************************************************************************)
LEMMA FilesDescend == Spec => [](Inv /\ FilesInv)
BY InitInv, InitFiles, NextInv, NextFiles, PTL DEF Spec

(***************************************************************************)
(* Whatever mix of tampering the sample went through, and however many     *)
(* runs of `binsight --repair-upx` were cut short, failed half-way or      *)
(* overwrote their own input, a run that succeeds has written the genuine  *)
(* file, up to the three things the repair does not promise.               *)
(***************************************************************************)
THEOREM GenuineComesBack == Spec => []RestoresGenuine
<1>1. Inv /\ FilesInv => RestoresGenuine
  <2> SUFFICES ASSUME Inv, FilesInv, Succeeded
               PROVE  \E f \in disk[dst], l \in loaded :
                        Restored(f, IsGeneric(l), MajorIs(l, 4))
    BY DEF RestoresGenuine
  <2>1. PICK l \in loaded : Repairable(l) /\ disk[dst] = {Repaired(l)}
    BY DEF Inv, RunInv, RepairsLoaded, Succeeded
  <2>2. TypeOK /\ l \in ElfFile /\ Descends(l)
    BY DEF Inv, TypeOK, FilesInv
  <2> QED
    BY <2>1, <2>2, RepairsRestore
<1> QED
  BY FilesDescend, <1>1, PTL

(***************************************************************************)
(* The samples the first run accepts are exactly those whose packer header *)
(* its own magic or the l_info magic gives away.                           *)
(***************************************************************************)
THEOREM AcceptedSamples == Spec => []AcceptsExactly
<1>1. Inv /\ FilesInv => AcceptsExactly
  <2> SUFFICES ASSUME Inv, FilesInv, pc = "repair", runs = 1, NEW f \in buffer
               PROVE  Repairable(f) <=>
                        \/ FoundByOwnMagic(f) /\ (HasInline(f) \/ ~f.elfMagic)
                        \/ FoundByInlineMagic(f) /\ HasInline(f)
    BY DEF AcceptsExactly
  <2>1. TypeOK /\ f \in ElfFile /\ Descends(f) /\ Complete(f)
    BY DEF Inv, TypeOK, FilesInv
  <2> QED
    BY <2>1, AcceptsExactlyThese
<1> QED
  BY FilesDescend, <1>1, PTL

(***************************************************************************)
(* fileinfo names the header the repair reported, for every file a run of  *)
(* the repair has left behind with its l_info filled in, or blank and not  *)
(* followed by another "UPX!".                                             *)
(***************************************************************************)
THEOREM FileinfoFollows == Spec => []FileinfoAgrees
<1>1. Inv /\ FilesInv => FileinfoAgrees
  <2> SUFFICES ASSUME Inv, FilesInv, Succeeded, NEW f \in disk[dst], NEW l \in loaded,
                      HasInline(f) \/ (f.lmagic # UPX
                                       /\ TheHeader(l) \in Last(Occurrences(f, UPX)))
               PROVE  FileinfoHeader(f) = {<<f.slots[TheHeader(l)].version,
                                             f.slots[TheHeader(l)].format>>}
    BY DEF FileinfoAgrees
  <2>1. Repairable(l) /\ f = Repaired(l)
    BY DEF Inv, RunInv, RepairsLoaded, Succeeded
  <2>2. TypeOK /\ l \in ElfFile /\ Descends(l)
    BY DEF Inv, TypeOK, FilesInv
  <2> QED
    BY <2>1, <2>2, FileinfoOfRepair
<1> QED
  BY FilesDescend, <1>1, PTL
=============================================================================
