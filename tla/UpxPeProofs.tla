----------------------------- MODULE UpxPeProofs -----------------------------
(***************************************************************************)
(* Proofs about the PE repair, for every set of files, every placement of  *)
(* headers, overlapping ones included, and every amount of tampering: the  *)
(* scan of UpxPeRepair implements the one step of UpxPePromise, a second   *)
(* run changes nothing, and what a packer wrote comes back, each with the  *)
(* exceptions that UpxPeRepair states.                                     *)
(***************************************************************************)
EXTENDS UpxPeRepair, FiniteSetTheorems, SequenceTheorems, WellFoundedInduction, TLAPS

-----------------------------------------------------------------------------
(***************************************************************************)
(* Bytes, words and patches.                                               *)
(***************************************************************************)
LEMMA ByteIs == ASSUME NEW x \in Byte PROVE x \in Nat /\ x <= 255
BY DEF Byte

LEMMA LengthIs == ASSUME NEW f \in PeFile PROVE Len(f) \in Nat
BY DEF PeFile

LEMMA EitherSide ==
  ASSUME NEW l \in Nat, NEW k \in 1..l, NEW n \in Nat
  PROVE  k <= n \/ k > n
OBVIOUS

LEMMA ByteAt ==
  ASSUME NEW f \in PeFile, NEW i \in 1..Len(f)
  PROVE  f[i] \in Nat /\ f[i] <= 255 /\ f[i] \in Byte
<1>1. f[i] \in Byte
  BY DEF PeFile
<1> QED
  BY <1>1, ByteIs

LEMMA WordAt ==
  ASSUME NEW f \in PeFile, NEW o \in Nat, o + 2 <= Len(f)
  PROVE  U16(f, o) \in Nat
<1>1. o + 1 \in 1..Len(f) /\ o + 2 \in 1..Len(f)
  BY DEF PeFile
<1> QED
  BY <1>1, ByteAt DEF U16

LEMMA LongAt ==
  ASSUME NEW f \in PeFile, NEW o \in Nat, o + 4 <= Len(f)
  PROVE  U32(f, o) \in Nat
<1>1. Len(f) \in Nat
  BY DEF PeFile
<1>2. U16(f, o) \in Nat /\ U16(f, o + 2) \in Nat
  BY <1>1, WordAt
<1> QED
  BY <1>2 DEF U32

\* Equal bytes make equal words.
LEMMA SameWord ==
  ASSUME NEW f, NEW g, NEW o, f[o + 1] = g[o + 1], f[o + 2] = g[o + 2]
  PROVE  U16(f, o) = U16(g, o)
BY DEF U16

LEMMA SameLong ==
  ASSUME NEW f, NEW g, NEW o \in Nat, \A k \in (o + 1)..(o + 4) : f[k] = g[k]
  PROVE  U32(f, o) = U32(g, o)
<1>1. U16(f, o) = U16(g, o)
  BY SameWord
<1>2. (o + 2) + 1 = o + 3 /\ (o + 2) + 2 = o + 4 /\ o + 2 \in Nat
  OBVIOUS
<1>3. U16(f, o + 2) = U16(g, o + 2)
  BY <1>2, SameWord
<1> QED
  BY <1>1, <1>3 DEF U32

LEMMA PatchIsPeFile ==
  ASSUME NEW f \in PeFile, NEW o, NEW s, \A k \in 1..Len(s) : s[k] \in Byte
  PROVE  /\ Patch(f, o, s) \in PeFile
         /\ Len(Patch(f, o, s)) = Len(f)
         /\ \A i \in 1..Len(f) :
              Patch(f, o, s)[i] = IF i - o \in 1..Len(s) THEN s[i - o] ELSE f[i]
<1> DEFINE e(i) == IF i - o \in 1..Len(s) THEN s[i - o] ELSE f[i]
<1>1. Len(f) \in Nat /\ \A i \in 1..Len(f) : f[i] \in Byte
  BY DEF PeFile
<1>2. \A i \in 1..Len(f) : e(i) \in Byte
  BY <1>1
<1>3. Patch(f, o, s) = [i \in 1..Len(f) |-> e(i)]
  BY DEF Patch
<1> HIDE DEF e
<1>4. [i \in 1..Len(f) |-> e(i)] \in [1..Len(f) -> Byte]
  BY <1>2
<1>5. [i \in 1..Len(f) |-> e(i)] \in Seq(Byte)
  BY <1>1, <1>4, SeqDef
<1>6. Len([i \in 1..Len(f) |-> e(i)]) = Len(f)
  BY <1>1, <1>5, LenProperties
<1> QED
  BY <1>3, <1>5, <1>6 DEF PeFile, e

\* Two files of one length with the same bytes are one file.
LEMMA SameFile ==
  ASSUME NEW f \in PeFile, NEW g \in PeFile, Len(f) = Len(g),
         \A k \in 1..Len(f) : f[k] = g[k]
  PROVE  f = g
BY SeqEqual DEF PeFile

LEMMA TheStrings ==
  /\ Len(UPX) = 4 /\ Len(UPX0) = 8 /\ Len(UPX1) = 8
  /\ \A k \in 1..4 : UPX[k] \in Byte
  /\ \A n \in {UPX0, UPX1} :
       /\ \A k \in 1..8 : n[k] \in Byte
       /\ Len(SubSeq(n, 1, 4)) = 4
       /\ \A k \in 1..4 : SubSeq(n, 1, 4)[k] = n[k]
<1>1. 85 \in Byte /\ 80 \in Byte /\ 88 \in Byte /\ 33 \in Byte /\ 48 \in Byte /\ 49 \in Byte
      /\ 0 \in Byte
  BY DEF Byte
<1>2. UPX0 \in Seq(Byte) /\ Len(UPX0) = 8
  BY <1>1 DEF UPX0
<1>3. UPX1 \in Seq(Byte) /\ Len(UPX1) = 8
  BY <1>1 DEF UPX1
<1>4. UPX \in Seq(Byte) /\ Len(UPX) = 4
  BY <1>1 DEF UPX
<1>5. ASSUME NEW n \in Seq(Byte), Len(n) = 8
      PROVE  /\ \A k \in 1..8 : n[k] \in Byte
             /\ Len(SubSeq(n, 1, 4)) = 4
             /\ \A k \in 1..4 : SubSeq(n, 1, 4)[k] = n[k]
  <2>1. ASSUME NEW k \in 1..8 PROVE n[k] \in Byte
    BY <1>5, ElementOfSeq
  <2> QED
    BY <1>5, <2>1, SubSeqProperties
<1>6. \A k \in 1..4 : UPX[k] \in Byte
  BY <1>4
<1> QED
  BY <1>2, <1>3, <1>4, <1>5, <1>6

\* A name that is written: what becomes of the file, and what of the name.
LEMMA NamedIs ==
  ASSUME NEW b \in PeFile, NEW at, NEW n \in {UPX0, UPX1}
  PROVE  /\ Named(b, at, n) \in PeFile
         /\ Len(Named(b, at, n)) = Len(b)
         /\ Holds(b, at, SubSeq(n, 1, 4)) => Named(b, at, n) = b
         /\ ~Holds(b, at, SubSeq(n, 1, 4)) =>
              \A i \in 1..Len(b) :
                Named(b, at, n)[i] = IF i - at \in 1..8 THEN n[i - at] ELSE b[i]
<1>1. Len(n) = 8 /\ \A k \in 1..8 : n[k] \in Byte
  BY TheStrings
<1>2. CASE Holds(b, at, SubSeq(n, 1, 4))
  <2>1. Named(b, at, n) = b
    BY <1>2 DEF Named
  <2> QED
    BY <1>2, <2>1
<1>3. CASE ~Holds(b, at, SubSeq(n, 1, 4))
  <2>1. Named(b, at, n) = Patch(b, at, n)
    BY <1>3 DEF Named
  <2> QED
    <3>1. Patch(b, at, n) \in PeFile /\ Len(Patch(b, at, n)) = Len(b)
      BY <1>1, PatchIsPeFile
    <3>2. ASSUME NEW i \in 1..Len(b)
          PROVE  Patch(b, at, n)[i] = IF i - at \in 1..8 THEN n[i - at] ELSE b[i]
      <4>1. Patch(b, at, n)[i] = IF i - at \in 1..Len(n) THEN n[i - at] ELSE b[i]
        BY DEF Patch
      <4> QED
        BY <1>1, <4>1, Zenon
    <3> QED
      BY <1>3, <2>1, <3>1, <3>2
<1> QED
  BY <1>2, <1>3

-----------------------------------------------------------------------------
(***************************************************************************)
(* The layout of a file that the repair does not refuse for it.            *)
(***************************************************************************)
LEMMA LayoutIs ==
  ASSUME NEW f \in PeFile, SmallLayout(f)
  PROVE  /\ Len(f) \in Nat /\ Len(f) >= 64
         /\ PeOffset(f) \in Nat /\ Optional(f) = PeOffset(f) + 24 /\ Optional(f) <= Len(f)
         /\ Count(f) \in 2..4 /\ Count(f) \in {2, 3, 4}
         /\ OptionalSize(f) \in Nat /\ OptionalSize(f) >= 96
         /\ SectionAt(f, 0) = Optional(f) + OptionalSize(f)
         /\ SectionAt(f, 0) \in Nat /\ SectionAt(f, 0) >= PeOffset(f) + 120
         /\ SectionAt(f, 1) = SectionAt(f, 0) + 40
         /\ SectionAt(f, 2) = SectionAt(f, 0) + 80
         /\ SectionAt(f, 3) = SectionAt(f, 0) + 120
         /\ TableEnd(f) = SectionAt(f, 0) + 40 * Count(f)
         /\ TableEnd(f) \in Nat /\ TableEnd(f) >= SectionAt(f, 0) + 80
         /\ TableEnd(f) <= Len(f)
<1>1. Len(f) \in Nat /\ Len(f) >= 64 /\ Optional(f) <= Len(f)
  BY DEF SmallLayout, Sound, Signed, PeFile
<1>2. PeOffset(f) \in Nat
  BY <1>1, LongAt DEF PeOffset
<1>3. Optional(f) = PeOffset(f) + 24
  BY DEF Optional
<1>4. U16(f, PeOffset(f) + 6) \in Nat /\ U16(f, PeOffset(f) + 20) \in Nat
  BY <1>1, <1>2, <1>3, WordAt
<1>5. Count(f) \in Nat /\ OptionalSize(f) \in Nat
  BY <1>4 DEF Count, OptionalSize
<1>6. OptionalSize(f) >= 96 /\ TableEnd(f) <= Len(f)
  BY DEF SmallLayout, Sound, TableFits
<1>7. Count(f) \in 2..4 /\ Count(f) \in {2, 3, 4}
  BY <1>5 DEF SmallLayout
<1>8. /\ SectionAt(f, 0) = Optional(f) + OptionalSize(f)
      /\ SectionAt(f, 1) = SectionAt(f, 0) + 40
      /\ SectionAt(f, 2) = SectionAt(f, 0) + 80
      /\ SectionAt(f, 3) = SectionAt(f, 0) + 120
      /\ TableEnd(f) = SectionAt(f, 0) + 40 * Count(f)
  BY <1>1, <1>2, <1>3, <1>5, <1>7 DEF SectionAt, TableEnd
<1>9. SectionAt(f, 0) \in Nat /\ SectionAt(f, 0) >= PeOffset(f) + 120
  BY <1>2, <1>3, <1>5, <1>6, <1>8
<1>10. TableEnd(f) \in Nat /\ TableEnd(f) >= SectionAt(f, 0) + 80
  BY <1>7, <1>8, <1>9
<1> QED
  BY <1>1, <1>2, <1>3, <1>5, <1>6, <1>7, <1>8, <1>9, <1>10

LEMMA RawIs ==
  ASSUME NEW f \in PeFile, SmallLayout(f), NEW i \in 0..(Count(f) - 1)
  PROVE  RawOffset(f, i) \in Nat /\ RawSize(f, i) \in Nat
<1> DEFINE s == SectionAt(f, 0)
<1>1. s \in Nat /\ Count(f) \in 2..4 /\ TableEnd(f) = s + 40 * Count(f) /\ TableEnd(f) <= Len(f)
      /\ Len(f) \in Nat
  BY LayoutIs
<1>2. SectionAt(f, i) = s + 40 * i
  BY LayoutIs DEF SectionAt
<1>3. i \in {0, 1, 2, 3} /\ i < Count(f)
  BY <1>1
<1>4. SectionAt(f, i) \in Nat /\ SectionAt(f, i) + 40 <= Len(f)
  BY <1>1, <1>2, <1>3
<1>5. U32(f, SectionAt(f, i) + 16) \in Nat /\ U32(f, SectionAt(f, i) + 20) \in Nat
  BY <1>1, <1>4, LongAt
<1> QED
  BY <1>5 DEF RawOffset, RawSize

LEMMA StartIsOffset ==
  ASSUME NEW f \in PeFile, SmallLayout(f), NEW w \in Window, Exists(f, w)
  PROVE  Start(f, w) \in Nat /\ Limit(f, w) \in Nat
<1>1. Len(f) \in Nat /\ Count(f) \in 2..4
  BY LayoutIs
<1>2. CASE w = 1
  <2>1. RawOffset(f, 1) \in Nat
    BY <1>1, RawIs
  <2> QED
    BY <1>1, <1>2, <2>1 DEF Start, Exists, Limit, Least
<1>3. CASE w = 2
  <2>1. RawOffset(f, 2) \in Nat
    BY <1>1, <1>3, RawIs DEF Exists
  <2> QED
    BY <1>1, <1>3, <2>1 DEF Start, Exists, Limit, Least
<1> QED
  BY <1>2, <1>3 DEF Window

-----------------------------------------------------------------------------
(***************************************************************************)
(* The scan.  What it accepts is a header that reads well and lies in the  *)
(* file: a window's own limit never cuts one that begins in the window.    *)
(***************************************************************************)
Reads(f, o) ==
  /\ Version(f, o) \in 1..20 /\ f[o + 6] = Format(f)
  /\ HeaderEnd(f, o) >= o + 28 /\ HeaderEnd(f, o) <= Len(f)
  /\ U32(f, o + 20) >= 2 /\ U32(f, o + 16) >= U32(f, o + 20)
  /\ U32(f, o + 24) # 0
  /\ ChecksumValid(f, o)

LEMMA HeaderEnds ==
  ASSUME NEW f, NEW o \in Nat, Version(f, o) \in 1..20
  PROVE  /\ HeaderEnd(f, o) \in Nat /\ HeaderEnd(f, o) <= o + 32
         /\ HeaderEnd(f, o) >= o + 28 /\ Version(f, o) >= 10 => HeaderEnd(f, o) = o + 32
<1> DEFINE v == Version(f, o)
           m == f[o + 6]
<1>1. v \in Nat
  OBVIOUS
<1> HIDE DEF v
<1>2. /\ HeaderSize(v, m) \in {20, 22, 24, 25, 27, 28, 32}
      /\ HeaderSize(v, m) >= 28 /\ v >= 10 => HeaderSize(v, m) = 32
  BY <1>1 DEF HeaderSize
<1>3. HeaderEnd(f, o) = o + HeaderSize(v, m)
  BY DEF HeaderEnd, v
<1> QED
  BY <1>2, <1>3 DEF v

LEMMA HitIs ==
  ASSUME NEW f \in PeFile, SmallLayout(f), NEW w \in Window, NEW q
  PROVE  q \in Hits(f, w) <=>
           Exists(f, w) /\ q \in Start(f, w)..(Start(f, w) + 127) /\ Reads(f, q)
<1>1. CASE ~Exists(f, w)
  BY <1>1 DEF Hits
<1>2. CASE Exists(f, w) /\ q \in Start(f, w)..(Start(f, w) + 127)
  <2>1. Start(f, w) \in Nat /\ Limit(f, w) \in Nat /\ Len(f) \in Nat /\ q \in Nat
    BY <1>2, StartIsOffset, LayoutIs
  <2>2. Limit(f, w) = Len(f) \/ (Limit(f, w) = Start(f, w) + 1024 /\ Limit(f, w) <= Len(f))
    BY <2>1 DEF Limit, Least
  <2>3. ASSUME Version(f, q) \in 1..20
        PROVE  /\ HeaderEnd(f, q) <= Limit(f, w) <=> HeaderEnd(f, q) <= Len(f)
               /\ HeaderEnd(f, q) >= q + 28 /\ HeaderEnd(f, q) <= Limit(f, w) =>
                    Scans(f, w, q)
    <3>1. HeaderEnd(f, q) \in Nat /\ HeaderEnd(f, q) <= q + 32
      BY <2>1, <2>3, HeaderEnds
    <3> QED
      BY <1>2, <2>1, <2>2, <3>1 DEF Scans
  <2>4. Accepts(f, w, q) /\ Scans(f, w, q) <=> Reads(f, q)
    <3>1. CASE Version(f, q) \in 1..20
      BY <2>3, <3>1 DEF Accepts, Reads
    <3>2. CASE Version(f, q) \notin 1..20
      BY <3>2 DEF Accepts, Reads
    <3> QED
      BY <3>1, <3>2
  <2> QED
    BY <1>2, <2>4 DEF Hits
<1>3. CASE q \notin Start(f, w)..(Start(f, w) + 127)
  BY <1>3 DEF Hits
<1> QED
  BY <1>1, <1>2, <1>3

LEMMA HitsAreOffsets ==
  ASSUME NEW f \in PeFile, SmallLayout(f), NEW w \in Window
  PROVE  Hits(f, w) \in SUBSET Nat
<1>1. ASSUME NEW q \in Hits(f, w) PROVE q \in Nat
  <2>1. Exists(f, w) /\ q \in Start(f, w)..(Start(f, w) + 127)
    BY HitIs
  <2> QED
    BY <2>1, StartIsOffset
<1> QED
  BY <1>1

\* A set of offsets has at most one first element.
LEMMA FirstUnique ==
  ASSUME NEW S \in SUBSET Nat, NEW a \in First(S), NEW b \in First(S)
  PROVE  a = b
BY DEF First

\* The located header is the first hit of the first window that has any.
LEMMA LocatedIn ==
  ASSUME NEW f, NEW o \in Located(f)
  PROVE  \E w \in Window : o \in First(Hits(f, w)) /\ (w = 2 => Hits(f, 1) = {})
BY DEF Located, Window

LEMMA LocatedIsTheOffset ==
  ASSUME NEW f \in PeFile, SmallLayout(f), NEW o \in Located(f)
  PROVE  /\ TheOffset(f) = o /\ o \in Nat /\ Reads(f, o)
<1>1. TheOffset(f) \in Located(f)
  BY DEF TheOffset
<1>2. PICK w \in Window : o \in First(Hits(f, w)) /\ (w = 2 => Hits(f, 1) = {})
  BY LocatedIn
<1>3. \E v \in Window : Located(f) = First(Hits(f, v))
  BY DEF Located, Window
<1>4. PICK v \in Window : Located(f) = First(Hits(f, v))
  BY <1>3
<1>5. o \in Hits(f, v) /\ Hits(f, v) \in SUBSET Nat
  BY <1>4, HitsAreOffsets DEF First
<1>6. TheOffset(f) = o
  BY <1>1, <1>4, <1>5, FirstUnique
<1> QED
  BY <1>5, <1>6, HitIs

\* The first hit of the first window that has any is the located header.
LEMMA FirstIsLocated ==
  ASSUME NEW f \in PeFile, SmallLayout(f), NEW w \in Window, NEW o \in First(Hits(f, w)),
         w = 2 => Hits(f, 1) = {}
  PROVE  o \in Located(f) /\ Repairable(f) /\ TheOffset(f) = o
<1>1. o \in Hits(f, w)
  BY DEF First
<1>2. o \in Located(f)
  BY <1>1 DEF Located, Window
<1> QED
  BY <1>2, LocatedIsTheOffset DEF Repairable

-----------------------------------------------------------------------------
(***************************************************************************)
(* Files that differ in names, magic and what follows have one layout, and *)
(* read alike at every offset that those bytes do not meet.                *)
(***************************************************************************)
Behind(f) == TableEnd(f) <= TheOffset(f)

LEMMA SameByte ==
  ASSUME NEW f, NEW g, OnlyTampered(f, g), NEW k \in 1..Len(f),
         k - TheOffset(f) \notin 1..4,
         k - SectionAt(f, 0) \notin 1..8, k - SectionAt(f, 1) \notin 1..8
  PROVE  g[k] = f[k]
<1>1. \A i \in 0..1 : k - SectionAt(f, i) \notin 1..8
  <2> SUFFICES ASSUME NEW i \in 0..1 PROVE k - SectionAt(f, i) \notin 1..8
    OBVIOUS
  <2>1. i = 0 \/ i = 1
    OBVIOUS
  <2> QED
    BY <2>1
<1> QED
  BY <1>1 DEF OnlyTampered

LEMMA NoNameByte ==
  ASSUME NEW k \in Nat, NEW s \in Nat,
         k <= s \/ (k >= s + 9 /\ k <= s + 40) \/ k >= s + 49
  PROVE  k - s \notin 1..8 /\ k - (s + 40) \notin 1..8
OBVIOUS

\* Before the first name, and in the fields of a section behind its name.
LEMMA SameLayoutByte ==
  ASSUME NEW f \in PeFile, NEW g \in PeFile, OnlyTampered(f, g), SmallLayout(f),
         TheOffset(f) \in Nat, Behind(f), NEW k \in Nat, k >= 1,
         \/ k <= SectionAt(f, 0)
         \/ \E i \in 0..(Count(f) - 1) :
              k >= SectionAt(f, 0) + 40 * i + 9 /\ k <= SectionAt(f, 0) + 40 * i + 40
  PROVE  k \in 1..Len(f) /\ g[k] = f[k]
<1> DEFINE s == SectionAt(f, 0)
<1>1. /\ s \in Nat /\ SectionAt(f, 1) = s + 40 /\ TableEnd(f) \in Nat
      /\ TableEnd(f) >= s + 80 /\ TableEnd(f) <= Len(f) /\ Len(f) \in Nat
      /\ TableEnd(f) = s + 40 * Count(f) /\ Count(f) \in {2, 3, 4}
  BY LayoutIs
<1>2. ASSUME k <= s \/ (k >= s + 9 /\ k <= s + 40) \/ k >= s + 49, k <= TableEnd(f)
      PROVE  k \in 1..Len(f) /\ g[k] = f[k]
  <2>1. k \in 1..Len(f)
    BY <1>1, <1>2
  <2>2. k - TheOffset(f) \notin 1..4
    BY <1>1, <1>2 DEF Behind
  <2>3. k - s \notin 1..8 /\ k - (s + 40) \notin 1..8
    BY <1>1, <1>2, NoNameByte
  <2>4. k - SectionAt(f, 1) \notin 1..8
    BY <1>1, <2>3
  <2> QED
    BY <2>1, <2>2, <2>3, <2>4, SameByte
<1>3. CASE \E i \in 0..(Count(f) - 1) : k >= s + 40 * i + 9 /\ k <= s + 40 * i + 40
  <2>1. PICK i \in 0..(Count(f) - 1) : k >= s + 40 * i + 9 /\ k <= s + 40 * i + 40
    BY <1>3
  <2>2. i = 0 \/ i = 1 \/ (i = 2 /\ Count(f) >= 3) \/ (i = 3 /\ Count(f) = 4)
    BY <1>1
  <2>3. TableEnd(f) = s + 80 \/ TableEnd(f) = s + 120 \/ TableEnd(f) = s + 160
    BY <1>1
  <2>4. /\ Count(f) >= 3 => TableEnd(f) >= s + 120
        /\ Count(f) = 4 => TableEnd(f) = s + 160
    BY <1>1
  <2>5. (k >= s + 9 /\ k <= s + 40) \/ k >= s + 49
    BY <1>1, <2>1, <2>2
  <2>6. k <= TableEnd(f)
    BY <1>1, <2>1, <2>2, <2>3, <2>4
  <2> QED
    BY <1>2, <2>5, <2>6
<1>4. CASE k <= s
  BY <1>1, <1>2, <1>4
<1> QED
  BY <1>3, <1>4

LEMMA SameNumbers ==
  ASSUME NEW f \in PeFile, NEW g \in PeFile, OnlyTampered(f, g), SmallLayout(f),
         TheOffset(f) \in Nat, Behind(f)
  PROVE  /\ PeOffset(g) = PeOffset(f) /\ Optional(g) = Optional(f)
         /\ Count(g) = Count(f) /\ OptionalSize(g) = OptionalSize(f)
         /\ \A i : SectionAt(g, i) = SectionAt(f, i)
         /\ TableEnd(g) = TableEnd(f)
         /\ Format(g) = Format(f) /\ (Efi(g) <=> Efi(f))
         /\ U16(g, Optional(g)) = U16(f, Optional(f))
<1> DEFINE s == SectionAt(f, 0)
           p == PeOffset(f)
<1>1. /\ s \in Nat /\ p \in Nat /\ Optional(f) = p + 24 /\ OptionalSize(f) \in Nat
      /\ s >= p + 120
  BY LayoutIs
<1>2. ASSUME NEW k \in Nat, k >= 1, k <= s PROVE g[k] = f[k]
  BY <1>2, SameLayoutByte
<1>3. PeOffset(g) = p
  <2>1. \A k \in (60 + 1)..(60 + 4) : g[k] = f[k]
    BY <1>1, <1>2
  <2> QED
    BY <2>1, SameLong DEF PeOffset
<1>4. Optional(g) = Optional(f)
  BY <1>3 DEF Optional
<1>5. ASSUME NEW o \in Nat, o + 2 <= s PROVE U16(g, o) = U16(f, o)
  <2>1. g[o + 1] = f[o + 1] /\ g[o + 2] = f[o + 2]
    BY <1>1, <1>2, <1>5
  <2> QED
    BY <2>1, SameWord
<1>6. /\ U16(g, p + 6) = U16(f, p + 6) /\ U16(g, p + 20) = U16(f, p + 20)
      /\ U16(g, p + 4) = U16(f, p + 4)
      /\ U16(g, Optional(f)) = U16(f, Optional(f))
      /\ U16(g, Optional(f) + 68) = U16(f, Optional(f) + 68)
  BY <1>1, <1>5
<1>7. Count(g) = Count(f) /\ OptionalSize(g) = OptionalSize(f)
  BY <1>3, <1>6 DEF Count, OptionalSize
<1>8. \A i : SectionAt(g, i) = SectionAt(f, i)
  BY <1>4, <1>7 DEF SectionAt
<1>9. TableEnd(g) = TableEnd(f)
  BY <1>7, <1>8 DEF TableEnd
<1>10. Format(g) = Format(f)
  BY <1>3, <1>6 DEF Format
<1>11. Efi(g) <=> Efi(f)
  BY <1>4, <1>6 DEF Efi
<1> QED
  BY <1>3, <1>4, <1>6, <1>7, <1>8, <1>9, <1>10, <1>11

LEMMA SameRaw ==
  ASSUME NEW f \in PeFile, NEW g \in PeFile, OnlyTampered(f, g), SmallLayout(f),
         TheOffset(f) \in Nat, Behind(f), NEW i \in 0..(Count(f) - 1)
  PROVE  RawOffset(g, i) = RawOffset(f, i) /\ RawSize(g, i) = RawSize(f, i)
<1> DEFINE s == SectionAt(f, 0)
           a == SectionAt(f, i)
<1>1. s \in Nat /\ Count(f) \in 2..4
  BY LayoutIs
<1>2. a = s + 40 * i
  BY LayoutIs DEF SectionAt
<1>3. SectionAt(g, i) = a
  BY SameNumbers
<1>4. i \in {0, 1, 2, 3}
  BY <1>1
<1>5. a \in Nat
  BY <1>1, <1>2, <1>4
<1>6. ASSUME NEW k \in Nat, k >= a + 9, k <= a + 40 PROVE g[k] = f[k]
  <2>1. k >= 1 /\ k >= s + 40 * i + 9 /\ k <= s + 40 * i + 40
    BY <1>2, <1>5, <1>6
  <2> QED
    BY <2>1, SameLayoutByte
<1>7. /\ \A k \in ((a + 16) + 1)..((a + 16) + 4) : g[k] = f[k]
      /\ \A k \in ((a + 20) + 1)..((a + 20) + 4) : g[k] = f[k]
  BY <1>5, <1>6
<1>8. a + 16 \in Nat /\ a + 20 \in Nat
  BY <1>5
<1>9. U32(g, a + 16) = U32(f, a + 16)
  BY <1>7, <1>8, SameLong
<1>10. U32(g, a + 20) = U32(f, a + 20)
  BY <1>7, <1>8, SameLong
<1> QED
  BY <1>3, <1>9, <1>10 DEF RawOffset, RawSize

LEMMA SameLayout ==
  ASSUME NEW f \in PeFile, NEW g \in PeFile, OnlyTampered(f, g), SmallLayout(f),
         TheOffset(f) \in Nat, Behind(f)
  PROVE  /\ SmallLayout(g)
         /\ \A w \in Window : (Exists(g, w) <=> Exists(f, w)) /\
                              (Exists(f, w) => Start(g, w) = Start(f, w))
<1> DEFINE p == PeOffset(f)
           s == SectionAt(f, 0)
<1>1. /\ Len(f) \in Nat /\ Len(g) \in Nat /\ Len(f) <= Len(g)
      /\ Count(f) \in 2..4 /\ TableEnd(f) <= Len(f)
      /\ Len(f) >= 64 /\ Optional(f) <= Len(f)
      /\ p \in Nat /\ s \in Nat /\ s >= p + 120 /\ Optional(f) = p + 24
  <2>1. Len(g) \in Nat /\ Len(f) <= Len(g)
    BY DEF OnlyTampered, PeFile
  <2> QED
    BY <2>1, LayoutIs
<1>2. ASSUME NEW k \in Nat, k >= 1, k <= s PROVE g[k] = f[k]
  BY <1>2, SameLayoutByte
<1>3. /\ PeOffset(g) = p /\ Optional(g) = Optional(f)
      /\ Count(g) = Count(f) /\ OptionalSize(g) = OptionalSize(f)
      /\ TableEnd(g) = TableEnd(f)
      /\ Format(g) = Format(f) /\ (Efi(g) <=> Efi(f))
      /\ U16(g, Optional(g)) = U16(f, Optional(f))
  BY SameNumbers
<1>4. Signed(g)
  <2>1. Holds(f, 0, <<77, 90>>) /\ Holds(f, p, <<80, 69, 0, 0>>)
    BY DEF SmallLayout, Sound, Signed
  <2>2. Len(<<77, 90>>) = 2 /\ Len(<<80, 69, 0, 0>>) = 4
    OBVIOUS
  <2>3. \A k \in 1..2 : g[0 + k] = f[0 + k]
    <3> SUFFICES ASSUME NEW k \in 1..2 PROVE g[0 + k] = f[0 + k]
      OBVIOUS
    <3>1. 0 + k \in Nat /\ 0 + k >= 1 /\ 0 + k <= s
      BY <1>1
    <3> QED
      BY <1>2, <3>1
  <2>4. \A k \in 1..4 : g[p + k] = f[p + k]
    <3> SUFFICES ASSUME NEW k \in 1..4 PROVE g[p + k] = f[p + k]
      OBVIOUS
    <3>1. p + k \in Nat /\ p + k >= 1 /\ p + k <= s
      BY <1>1
    <3> QED
      BY <1>2, <3>1
  <2>5. Holds(g, 0, <<77, 90>>)
    BY <2>1, <2>2, <2>3 DEF Holds
  <2>6. Holds(g, p, <<80, 69, 0, 0>>)
    BY <2>1, <2>2, <2>4 DEF Holds
  <2> QED
    BY <1>1, <1>3, <2>5, <2>6 DEF Signed
<1>5. ASSUME NEW i \in 0..(Count(f) - 1)
      PROVE  RawSize(g, i) = 0 \/ RawOffset(g, i) + RawSize(g, i) <= Len(g)
  <2>1. RawSize(f, i) = 0 \/ RawOffset(f, i) + RawSize(f, i) <= Len(f)
    BY DEF SmallLayout, Sound
  <2>2. RawOffset(f, i) \in Nat /\ RawSize(f, i) \in Nat
    BY RawIs
  <2> QED
    <3>1. RawOffset(g, i) = RawOffset(f, i) /\ RawSize(g, i) = RawSize(f, i)
      BY SameRaw
    <3> QED
      BY <1>1, <2>1, <2>2, <3>1
<1>6. TableFits(g)
  <2>1. Count(f) \in 2..16 /\ TableEnd(f) \in Nat
    BY <1>1, LayoutIs
  <2> QED
    BY <1>1, <1>3, <2>1 DEF TableFits
<1>7. Sound(g)
  BY <1>3, <1>4, <1>5, <1>6 DEF SmallLayout, Sound
<1>8. SmallLayout(g)
  BY <1>3, <1>7 DEF SmallLayout
<1>9. RawOffset(g, 1) = RawOffset(f, 1)
  BY <1>1, SameRaw
<1>10. Count(f) >= 3 => RawOffset(g, 2) = RawOffset(f, 2)
  BY <1>1, SameRaw
<1> QED
  BY <1>3, <1>8, <1>9, <1>10 DEF Window, Exists, Start

-----------------------------------------------------------------------------
\* Every set of offsets that is not empty has a first one: the initial
\* intervals it spans are finite, and strict inclusion of those is well-founded.
LEMMA FirstExists ==
  ASSUME NEW S \in SUBSET Nat, S # {}
  PROVE  First(S) # {}
<1> DEFINE U == {0..n : n \in S}
<1>1. U \subseteq FiniteSubsetsOf(Nat) /\ U # {}
  <2>1. ASSUME NEW n \in S PROVE IsFiniteSet(0..n) /\ 0..n \in SUBSET Nat
    BY FS_Interval
  <2> QED
    BY <2>1 DEF FiniteSubsetsOf
<1>2. PICK I \in U : \A J \in U : ~(<<J, I>> \in StrictSubsetOrdering(Nat))
  BY <1>1, FS_StrictSubsetOrderingWellFounded, WFMin
<1>3. PICK x \in S : I = 0..x
  OBVIOUS
<1>4. ASSUME NEW y \in S, y < x PROVE FALSE
  <2> DEFINE A == 0..y
             B == 0..x
  <2>1. A \subseteq B /\ A # B /\ A \in SUBSET Nat /\ B \in SUBSET Nat /\ A \in U
    BY <1>4
  <2>2. ~(<<A, B>> \in StrictSubsetOrdering(Nat))
    BY <1>2, <1>3, <2>1
  <2> HIDE DEF A, B
  <2>3. <<A, B>> \in StrictSubsetOrdering(Nat)
    BY <2>1 DEF StrictSubsetOrdering
  <2> QED
    BY <2>2, <2>3
<1>5. \A y \in S : x <= y
  BY <1>4
<1> QED
  BY <1>5 DEF First

\* What a header reads is in the bytes 4 to 31 behind its offset.
LEMMA ReadsAreBytes ==
  ASSUME NEW f \in PeFile, NEW g \in PeFile, NEW q \in Nat, Len(f) <= Len(g),
         Format(g) = Format(f),
         \A k \in (q + 5)..(q + 32) : k <= Len(f) => g[k] = f[k]
  PROVE  /\ Reads(f, q) => Reads(g, q)
         /\ Reads(g, q) => Reads(f, q) \/ HeaderEnd(g, q) > Len(f)
         /\ q + 28 <= Len(f) => HeaderEnd(g, q) = HeaderEnd(f, q)
<1>1. Len(f) \in Nat /\ Len(g) \in Nat
  BY DEF PeFile
<1>2. ASSUME q + 28 <= Len(f)
      PROVE  /\ Version(g, q) = Version(f, q) /\ g[q + 6] = f[q + 6]
             /\ HeaderEnd(g, q) = HeaderEnd(f, q)
             /\ U32(g, q + 16) = U32(f, q + 16) /\ U32(g, q + 20) = U32(f, q + 20)
             /\ U32(g, q + 24) = U32(f, q + 24)
  <2>1. ASSUME NEW o \in Nat, o >= q + 4, o + 4 <= q + 28 PROVE U32(g, o) = U32(f, o)
    <3>1. \A k \in (o + 1)..(o + 4) : g[k] = f[k]
      BY <1>1, <1>2, <2>1
    <3> QED
      BY <3>1, SameLong
  <2>2. g[q + 5] = f[q + 5] /\ g[q + 6] = f[q + 6]
    BY <1>1, <1>2
  <2>3. /\ q + 16 \in Nat /\ q + 16 >= q + 4 /\ (q + 16) + 4 <= q + 28
        /\ q + 20 \in Nat /\ q + 20 >= q + 4 /\ (q + 20) + 4 <= q + 28
        /\ q + 24 \in Nat /\ q + 24 >= q + 4 /\ (q + 24) + 4 <= q + 28
    OBVIOUS
  <2>4. /\ U32(g, q + 16) = U32(f, q + 16) /\ U32(g, q + 20) = U32(f, q + 20)
        /\ U32(g, q + 24) = U32(f, q + 24)
    BY <2>1, <2>3
  <2> QED
    BY <2>2, <2>4 DEF Version, HeaderEnd
<1>3. ASSUME q + 32 <= Len(f)
      PROVE  Checksum(g, q) = Checksum(f, q) /\ g[q + 32] = f[q + 32]
  <2>1. \A k \in (q + 5)..(q + 32) : g[k] = f[k]
    BY <1>1, <1>3
  <2>2. ASSUME NEW i \in Nat, i >= q + 5, i + 2 <= q + 32 PROVE Three(g, i) = Three(f, i)
    <3>1. g[i] = f[i] /\ g[i + 1] = f[i + 1] /\ g[i + 2] = f[i + 2]
      BY <2>1, <2>2
    <3> QED
      BY <3>1 DEF Three
  <2>3. ASSUME NEW i \in Nat, i >= q + 5, i + 8 <= q + 32 PROVE Nine(g, i) = Nine(f, i)
    <3>1. /\ i + 3 \in Nat /\ i + 3 >= q + 5 /\ (i + 3) + 2 <= q + 32
          /\ i + 6 \in Nat /\ i + 6 >= q + 5 /\ (i + 6) + 2 <= q + 32 /\ i + 2 <= q + 32
      BY <2>3
    <3>2. Three(g, i) = Three(f, i) /\ Three(g, i + 3) = Three(f, i + 3)
          /\ Three(g, i + 6) = Three(f, i + 6)
      BY <2>2, <2>3, <3>1
    <3> QED
      BY <3>2 DEF Nine
  <2>4. /\ q + 5 \in Nat /\ q + 5 >= q + 5 /\ (q + 5) + 8 <= q + 32
        /\ q + 14 \in Nat /\ q + 14 >= q + 5 /\ (q + 14) + 8 <= q + 32
        /\ q + 23 \in Nat /\ q + 23 >= q + 5 /\ (q + 23) + 8 <= q + 32
    OBVIOUS
  <2>5. /\ Nine(g, q + 5) = Nine(f, q + 5) /\ Nine(g, q + 14) = Nine(f, q + 14)
        /\ Nine(g, q + 23) = Nine(f, q + 23)
    BY <2>3, <2>4
  <2> QED
    BY <2>1, <2>5 DEF Checksum
<1>4. ASSUME Version(f, q) \in 1..20, q + 28 <= HeaderEnd(f, q), HeaderEnd(f, q) <= Len(f)
      PROVE  Reads(g, q) <=> Reads(f, q)
  <2>1. HeaderEnd(f, q) \in Nat /\ (Version(f, q) >= 10 => HeaderEnd(f, q) = q + 32)
    BY <1>4, HeaderEnds
  <2>2. q + 28 <= Len(f) /\ (Version(f, q) >= 10 => q + 32 <= Len(f))
    BY <1>1, <1>4, <2>1
  <2>3. ChecksumValid(g, q) <=> ChecksumValid(f, q)
    BY <1>2, <1>3, <2>2 DEF ChecksumValid
  <2>4. HeaderEnd(f, q) <= Len(g)
    BY <1>1, <1>4, <2>1
  <2> QED
    BY <1>2, <1>4, <2>2, <2>3, <2>4 DEF Reads
<1>5. Reads(f, q) => Reads(g, q)
  BY <1>4 DEF Reads
<1>6. ASSUME Reads(g, q), ~(HeaderEnd(g, q) > Len(f)) PROVE Reads(f, q)
  <2>1. Version(g, q) \in 1..20 /\ HeaderEnd(g, q) >= q + 28
    BY <1>6 DEF Reads
  <2>2. HeaderEnd(g, q) \in Nat
    BY <2>1, HeaderEnds
  <2>3. HeaderEnd(g, q) <= Len(f) /\ q + 28 <= Len(f)
    BY <1>1, <1>6, <2>1, <2>2
  <2> QED
    BY <1>2, <1>4, <1>6, <2>1, <2>3
<1> QED
  BY <1>2, <1>5, <1>6

LEMMA UndisturbedReads ==
  ASSUME NEW f \in PeFile, NEW g \in PeFile, OnlyTampered(f, g), SmallLayout(f),
         TheOffset(f) \in Nat, Behind(f), NEW q \in Nat, ~Disturbs(f, q)
  PROVE  /\ Reads(f, q) => Reads(g, q)
         /\ Reads(g, q) => Reads(f, q) \/ HeaderEnd(g, q) > Len(f)
<1>1. Format(g) = Format(f) /\ Len(f) <= Len(g) /\ Len(f) \in Nat
  BY SameNumbers DEF OnlyTampered, PeFile
<1>2. SectionAt(f, 0) \in Nat /\ SectionAt(f, 1) = SectionAt(f, 0) + 40
  BY LayoutIs
<1>3. ASSUME NEW k \in (q + 5)..(q + 32), k <= Len(f) PROVE g[k] = f[k]
  <2>1. ASSUME NEW at \in Nat, NEW n \in Nat, ~Meets(q, at, n) PROVE k - at \notin 1..n
    <3>1. ~(q + 4 < at + n /\ at < q + 32)
      BY <2>1 DEF Meets
    <3> QED
      BY <3>1
  <2>2. /\ k - TheOffset(f) \notin 1..4
        /\ k - SectionAt(f, 0) \notin 1..8 /\ k - SectionAt(f, 1) \notin 1..8
    BY <1>2, <2>1 DEF Disturbs
  <2>3. k \in 1..Len(f)
    BY <1>1, <1>3
  <2> QED
    BY <2>2, <2>3, SameByte
<1> QED
  BY <1>1, <1>3, ReadsAreBytes

\* Its own header is not disturbed.
LEMMA OwnUndisturbed ==
  ASSUME NEW f \in PeFile, SmallLayout(f), TheOffset(f) \in Nat, Behind(f)
  PROVE  ~Disturbs(f, TheOffset(f))
<1>1. /\ SectionAt(f, 0) \in Nat /\ SectionAt(f, 1) = SectionAt(f, 0) + 40
      /\ TableEnd(f) \in Nat /\ TableEnd(f) >= SectionAt(f, 0) + 80
      /\ TableEnd(f) <= TheOffset(f)
  BY LayoutIs DEF Behind
<1> QED
  BY <1>1 DEF Disturbs, Meets

(***************************************************************************)
(* The header of f is found in g too, unless another is: one that the      *)
(* changed bytes meet.  Nothing that was appended comes before it, since   *)
(* the windows of f do not cross or g is no longer than f.                 *)
(***************************************************************************)
Ordered(f) ==
  RawOffset(f, 1) < 64 \/ Count(f) < 3 \/ RawOffset(f, 1) + 64 <= RawOffset(f, 2)

LEMMA FoundAgain ==
  ASSUME NEW f \in PeFile, NEW g \in PeFile, OnlyTampered(f, g), Repairable(f), Behind(f),
         Ordered(f) \/ Len(g) = Len(f)
  PROVE  /\ Repairable(g)
         /\ TheOffset(g) \in Nat
         /\ TheOffset(g) = TheOffset(f) \/ Disturbs(f, TheOffset(g))
<1> DEFINE o == TheOffset(f)
           p == TheOffset(g)
<1>1. SmallLayout(f) /\ o \in Located(f)
  BY DEF Repairable, TheOffset
<1>2. PICK v \in Window : o \in First(Hits(f, v)) /\ (v = 2 => Hits(f, 1) = {})
  BY <1>1, LocatedIn
<1>3. o \in Nat /\ Reads(f, o) /\ o \in Hits(f, v)
  BY <1>1, <1>2, LocatedIsTheOffset DEF First
<1>4. /\ SmallLayout(g)
      /\ \A w \in Window : (Exists(g, w) <=> Exists(f, w)) /\
                           (Exists(f, w) => Start(g, w) = Start(f, w))
  BY <1>1, <1>3, SameLayout
<1>5. ASSUME NEW w \in Window, NEW q, Reads(f, q) <=> Reads(g, q)
      PROVE  q \in Hits(f, w) <=> q \in Hits(g, w)
  BY <1>1, <1>4, <1>5, HitIs
<1>6. Reads(g, o)
  BY <1>1, <1>3, OwnUndisturbed, UndisturbedReads
<1>7. o \in Hits(g, v)
  BY <1>3, <1>5, <1>6
<1>8. Located(g) # {}
  <2>1. Hits(g, 1) \in SUBSET Nat /\ Hits(g, 2) \in SUBSET Nat
    BY <1>4, HitsAreOffsets DEF Window
  <2>2. CASE Hits(g, 1) # {}
    BY <2>1, <2>2, FirstExists DEF Located
  <2>3. CASE Hits(g, 1) = {}
    <3>1. Hits(g, 2) # {}
      BY <1>7, <2>3 DEF Window
    <3> QED
      BY <2>1, <2>3, <3>1, FirstExists DEF Located
  <2> QED
    BY <2>2, <2>3
<1>9. Repairable(g) /\ p \in Located(g)
  BY <1>4, <1>8 DEF Repairable, TheOffset
<1>10. PICK w \in Window : p \in First(Hits(g, w)) /\ (w = 2 => Hits(g, 1) = {})
  BY <1>9, LocatedIn
<1>11. p \in Nat /\ Reads(g, p) /\ p \in Hits(g, w)
  BY <1>4, <1>9, <1>10, LocatedIsTheOffset DEF First
<1>12. v = 1 => w = 1
  BY <1>7, <1>10 DEF Window
<1>13. v = w => p <= o
  BY <1>7, <1>10 DEF First
<1>14. ASSUME Reads(f, p) PROVE p = o
  <2>1. p \in Hits(f, w)
    BY <1>5, <1>11, <1>14
  <2>2. v = w
    BY <1>2, <1>12, <2>1 DEF Window
  <2>3. o <= p
    BY <1>2, <2>1, <2>2 DEF First
  <2> QED
    BY <1>3, <1>11, <1>13, <2>2, <2>3
<1>15. ASSUME HeaderEnd(g, p) > Len(f) PROVE p = o \/ Meets(p, o, 4)
  <2>1. /\ Len(f) \in Nat /\ Len(g) \in Nat /\ HeaderEnd(g, p) \in Nat
        /\ HeaderEnd(g, p) <= p + 32 /\ HeaderEnd(g, p) <= Len(g)
    BY <1>11, HeaderEnds DEF Reads, PeFile
  <2>2. o + 28 <= Len(f)
    <3>1. HeaderEnd(f, o) \in Nat /\ HeaderEnd(f, o) >= o + 28 /\ HeaderEnd(f, o) <= Len(f)
      BY <1>3, HeaderEnds DEF Reads
    <3> QED
      BY <1>3, <2>1, <3>1
  <2>3. o < p + 4 /\ Ordered(f)
    BY <1>3, <1>11, <1>15, <2>1, <2>2
  <2>4. CASE v = w
    BY <1>3, <1>11, <1>13, <2>3, <2>4 DEF Meets
  <2>5. CASE v # w
    <3>1. v = 2 /\ w = 1
      BY <1>12, <2>5 DEF Window
    <3>2. Exists(f, 1) /\ p \in Start(f, 1)..(Start(f, 1) + 127)
      BY <1>4, <1>11, <3>1, HitIs
    <3>3. Exists(f, 2) /\ o \in Start(f, 2)..(Start(f, 2) + 127)
      BY <1>1, <1>3, <3>1, HitIs
    <3>4. Count(f) >= 3 /\ RawOffset(f, 1) >= 64
          /\ Start(f, 1) = RawOffset(f, 1) - 64 /\ Start(f, 2) = RawOffset(f, 2)
      BY <3>2, <3>3 DEF Exists, Start
    <3>5. RawOffset(f, 1) \in Nat /\ RawOffset(f, 2) \in Nat /\ Count(f) \in Nat
      <4>1. Count(f) \in 2..4
        BY <1>1, LayoutIs
      <4> QED
        BY <1>1, <3>4, <4>1, RawIs
    <3>6. RawOffset(f, 1) + 64 <= RawOffset(f, 2)
      BY <2>3, <3>4, <3>5 DEF Ordered
    <3>7. p < o
      BY <1>3, <1>11, <3>2, <3>3, <3>4, <3>5, <3>6
    <3> QED
      BY <1>3, <1>11, <2>3, <3>7 DEF Meets
  <2> QED
    BY <2>4, <2>5
<1>16. p = o \/ Disturbs(f, p)
  <2> SUFFICES ASSUME ~Disturbs(f, p) PROVE p = o
    OBVIOUS
  <2>1. Reads(f, p) \/ HeaderEnd(g, p) > Len(f)
    BY <1>1, <1>3, <1>11, UndisturbedReads
  <2> QED
    BY <1>14, <1>15, <2>1 DEF Disturbs
<1> QED
  BY <1>9, <1>11, <1>16

-----------------------------------------------------------------------------
(***************************************************************************)
(* What the repair writes.                                                 *)
(***************************************************************************)
LEMMA ChecksumIsByte ==
  ASSUME NEW b \in PeFile, NEW o \in Nat, o + 32 <= Len(b)
  PROVE  Checksum(b, o) \in Byte
<1>1. ASSUME NEW i \in Nat, i >= 1, i + 8 <= Len(b) PROVE Nine(b, i) \in Nat
  <2>1. Len(b) \in Nat
    BY DEF PeFile
  <2>2. \A k \in i..(i + 8) : b[k] \in Nat
    BY <1>1, <2>1, ByteAt
  <2>3. ASSUME NEW j \in Nat, j >= i, j + 2 <= i + 8 PROVE Three(b, j) \in Nat
    <3>1. b[j] \in Nat /\ b[j + 1] \in Nat /\ b[j + 2] \in Nat
      BY <2>2, <2>3
    <3> QED
      BY <3>1 DEF Three
  <2>4. Three(b, i) \in Nat /\ Three(b, i + 3) \in Nat /\ Three(b, i + 6) \in Nat
    BY <2>3
  <2> QED
    BY <2>4 DEF Nine
<1>2. /\ o + 5 \in Nat /\ o + 5 >= 1 /\ (o + 5) + 8 <= Len(b)
      /\ o + 14 \in Nat /\ o + 14 >= 1 /\ (o + 14) + 8 <= Len(b)
      /\ o + 23 \in Nat /\ o + 23 >= 1 /\ (o + 23) + 8 <= Len(b)
  BY DEF PeFile
<1>3. Nine(b, o + 5) \in Nat /\ Nine(b, o + 14) \in Nat /\ Nine(b, o + 23) \in Nat
  BY <1>1, <1>2
<1>4. ASSUME NEW n \in Nat PROVE n % 251 \in Byte
  BY DEF Byte
<1> QED
  BY <1>3, <1>4 DEF Checksum

LEMMA SummedIsPeFile ==
  ASSUME NEW b \in PeFile, NEW o \in Nat, NEW v, v >= 10 => o + 32 <= Len(b), v \in Nat
  PROVE  Summed(b, o, v) \in PeFile /\ Len(Summed(b, o, v)) = Len(b)
<1>1. CASE v < 10
  BY <1>1 DEF Summed
<1>2. CASE ~(v < 10)
  <2>1. Checksum(b, o) \in Byte
    BY <1>2, ChecksumIsByte
  <2>2. Len(<<Checksum(b, o)>>) = 1 /\ <<Checksum(b, o)>>[1] = Checksum(b, o)
    OBVIOUS
  <2>3. \A k \in 1..Len(<<Checksum(b, o)>>) : <<Checksum(b, o)>>[k] \in Byte
    BY <2>1, <2>2
  <2>4. Summed(b, o, v) = Patch(b, o + 31, <<Checksum(b, o)>>)
    BY <1>2 DEF Summed
  <2> QED
    BY <2>3, <2>4, PatchIsPeFile
<1> QED
  BY <1>1, <1>2

LEMMA MagicIs ==
  ASSUME NEW f \in PeFile, NEW o
  PROVE  /\ Patch(f, o, UPX) \in PeFile /\ Len(Patch(f, o, UPX)) = Len(f)
         /\ \A i \in 1..Len(f) :
              Patch(f, o, UPX)[i] = IF i - o \in 1..4 THEN UPX[i - o] ELSE f[i]
<1>1. Len(UPX) = 4 /\ \A k \in 1..Len(UPX) : UPX[k] \in Byte
  BY TheStrings
<1>2. Patch(f, o, UPX) \in PeFile /\ Len(Patch(f, o, UPX)) = Len(f)
  BY <1>1, PatchIsPeFile
<1>3. ASSUME NEW i \in 1..Len(f)
      PROVE  Patch(f, o, UPX)[i] = IF i - o \in 1..4 THEN UPX[i - o] ELSE f[i]
  <2>1. Patch(f, o, UPX)[i] = IF i - o \in 1..Len(UPX) THEN UPX[i - o] ELSE f[i]
    BY DEF Patch
  <2> QED
    BY <1>1, <2>1, Zenon
<1> QED
  BY <1>2, <1>3

LEMMA WritesArePeFiles ==
  ASSUME NEW f \in PeFile
  PROVE  /\ WithMagic(f) \in PeFile /\ Len(WithMagic(f)) = Len(f)
         /\ WithFirst(f) \in PeFile /\ Len(WithFirst(f)) = Len(f)
         /\ WithNames(f) \in PeFile /\ Len(WithNames(f)) = Len(f)
<1>1. WithMagic(f) \in PeFile /\ Len(WithMagic(f)) = Len(f)
  BY MagicIs DEF WithMagic
<1>2. WithFirst(f) \in PeFile /\ Len(WithFirst(f)) = Len(f)
  BY <1>1, NamedIs DEF WithFirst
<1>3. WithNames(f) \in PeFile /\ Len(WithNames(f)) = Len(f)
  BY <1>2, NamedIs DEF WithNames
<1> QED
  BY <1>1, <1>2, <1>3

LEMMA ReadsFits ==
  ASSUME NEW f \in PeFile, NEW o \in Nat, Reads(f, o)
  PROVE  /\ Version(f, o) \in Nat /\ o + 28 <= Len(f)
         /\ Version(f, o) >= 10 => o + 32 <= Len(f)
<1>1. Version(f, o) \in 1..20 /\ HeaderEnd(f, o) >= o + 28 /\ HeaderEnd(f, o) <= Len(f)
  BY DEF Reads
<1>2. /\ HeaderEnd(f, o) \in Nat /\ Len(f) \in Nat
      /\ Version(f, o) >= 10 => HeaderEnd(f, o) = o + 32
  BY <1>1, HeaderEnds DEF PeFile
<1> QED
  BY <1>1, <1>2

LEMMA RepairedIsPeFile ==
  ASSUME NEW f \in PeFile, Repairable(f)
  PROVE  Repaired(f) \in PeFile /\ Len(Repaired(f)) = Len(f)
<1> DEFINE o == TheOffset(f)
<1>1. o \in Nat /\ Reads(f, o)
  BY LocatedIsTheOffset DEF Repairable
<1> QED
  BY <1>1, ReadsFits, WritesArePeFiles, SummedIsPeFile DEF Repaired

\* The head of a name at another place is not touched by a write of n bytes.
LEMMA HoldsAlike ==
  ASSUME NEW f, NEW g, NEW at, NEW n \in {UPX0, UPX1},
         \A k \in 1..4 : g[at + k] = f[at + k]
  PROVE  Holds(g, at, SubSeq(n, 1, 4)) <=> Holds(f, at, SubSeq(n, 1, 4))
<1>1. Len(SubSeq(n, 1, 4)) = 4
  BY TheStrings
<1> QED
  BY <1>1 DEF Holds

\* The two names and a header behind the section table do not meet.
LEMMA Apart ==
  ASSUME NEW s \in Nat, NEW o \in Nat, o >= s + 80, NEW l \in Nat, s + 80 <= l
  PROVE  /\ \A i \in 1..4 : s + i \in 1..l /\ (s + i) - o \notin 1..4
         /\ \A i \in 1..4 : /\ (s + 40) + i \in 1..l /\ ((s + 40) + i) - s \notin 1..8
                           /\ ((s + 40) + i) - o \notin 1..4
         /\ \A k \in 1..l : /\ k - o \in 1..4 => k - s \notin 1..8 /\ k - (s + 40) \notin 1..8
                           /\ k - s \in 1..8 => k - (s + 40) \notin 1..8
OBVIOUS

\* Byte by byte, where the header lies behind the section table.
LEMMA NamesWritten ==
  ASSUME NEW f \in PeFile, SmallLayout(f), TheOffset(f) \in Nat, Behind(f),
         NEW k \in 1..Len(f)
  PROVE  LET o == TheOffset(f)
             s == SectionAt(f, 0)
             t == SectionAt(f, 1)
             r == WithNames(f)
             a == Holds(f, s, SubSeq(UPX0, 1, 4))
             b == Holds(f, t, SubSeq(UPX1, 1, 4))
         IN  /\ k - o \in 1..4 => r[k] = UPX[k - o]
             /\ k - s \in 1..8 /\ ~a => r[k] = UPX0[k - s]
             /\ k - t \in 1..8 /\ ~b => r[k] = UPX1[k - t]
             /\ k - o \notin 1..4 /\ (a \/ k - s \notin 1..8) /\ (b \/ k - t \notin 1..8) =>
                  r[k] = f[k]
<1> DEFINE o == TheOffset(f)
           s == SectionAt(f, 0)
           t == SectionAt(f, 1)
           m == WithMagic(f)
           n == WithFirst(f)
           r == WithNames(f)
           a == Holds(f, s, SubSeq(UPX0, 1, 4))
           b == Holds(f, t, SubSeq(UPX1, 1, 4))
<1>1. /\ s \in Nat /\ t = s + 40 /\ o \in Nat /\ o >= s + 80 /\ Len(f) \in Nat
      /\ s + 80 <= Len(f)
  <2>1. /\ s \in Nat /\ t = s + 40 /\ Len(f) \in Nat /\ TableEnd(f) \in Nat
        /\ TableEnd(f) >= s + 80 /\ TableEnd(f) <= Len(f)
    BY LayoutIs
  <2>2. o \in Nat /\ TableEnd(f) <= o
    BY DEF Behind
  <2> HIDE DEF s, t, o
  <2> QED
    BY <2>1, <2>2
<1>2. ASSUME NEW i \in 1..Len(f)
      PROVE  m[i] = IF i - o \in 1..4 THEN UPX[i - o] ELSE f[i]
  BY MagicIs DEF WithMagic
<1>3. m \in PeFile /\ Len(m) = Len(f) /\ n \in PeFile /\ Len(n) = Len(f)
  BY WritesArePeFiles
<1>4. Holds(m, s, SubSeq(UPX0, 1, 4)) <=> a
  <2>1. ASSUME NEW i \in 1..4 PROVE m[s + i] = f[s + i]
    <3>1. s + i \in 1..Len(f) /\ (s + i) - o \notin 1..4
      BY <1>1, Apart
    <3> QED
      BY <1>2, <3>1
  <2> QED
    BY <2>1, HoldsAlike
<1>5. ASSUME NEW i \in 1..Len(f)
      PROVE  /\ i - s \in 1..8 /\ ~a => n[i] = UPX0[i - s]
             /\ a \/ i - s \notin 1..8 => n[i] = m[i]
  <2>1. n = Named(m, s, UPX0)
    BY DEF WithFirst
  <2>2. CASE a
    BY <1>3, <1>4, <2>1, <2>2, NamedIs
  <2>3. CASE ~a
    <3>1. n[i] = IF i - s \in 1..8 THEN UPX0[i - s] ELSE m[i]
      BY <1>3, <1>4, <2>1, <2>3, NamedIs
    <3> QED
      BY <2>3, <3>1
  <2> QED
    BY <2>2, <2>3
<1>6. Holds(n, t, SubSeq(UPX1, 1, 4)) <=> b
  <2>1. \A i \in 1..4 : n[t + i] = f[t + i]
    <3> SUFFICES ASSUME NEW i \in 1..4 PROVE n[t + i] = f[t + i]
      OBVIOUS
    <3>1. t + i \in 1..Len(f) /\ (t + i) - s \notin 1..8 /\ (t + i) - o \notin 1..4
      BY <1>1, Apart
    <3> QED
      BY <1>2, <1>5, <3>1
  <2> QED
    BY <2>1, HoldsAlike
<1>7. /\ k - t \in 1..8 /\ ~b => r[k] = UPX1[k - t]
      /\ b \/ k - t \notin 1..8 => r[k] = n[k]
  <2>1. r = Named(n, t, UPX1)
    BY DEF WithNames
  <2>2. CASE b
    BY <1>3, <1>6, <2>1, <2>2, NamedIs
  <2>3. CASE ~b
    <3>1. r[k] = IF k - t \in 1..8 THEN UPX1[k - t] ELSE n[k]
      BY <1>3, <1>6, <2>1, <2>3, NamedIs
    <3> QED
      BY <2>3, <3>1
  <2> QED
    BY <2>2, <2>3
<1>8. /\ k - o \in 1..4 => k - s \notin 1..8 /\ k - t \notin 1..8
      /\ k - s \in 1..8 => k - t \notin 1..8
  <2>1. /\ k - o \in 1..4 => k - s \notin 1..8 /\ k - (s + 40) \notin 1..8
        /\ k - s \in 1..8 => k - (s + 40) \notin 1..8
    <3> HIDE DEF s, t, o
    <3> QED
      BY <1>1, Apart
  <2> QED
    BY <1>1, <2>1
<1> HIDE DEF o, s, t, m, n, r, a, b
<1>9. /\ k - o \in 1..4 => r[k] = UPX[k - o]
      /\ k - s \in 1..8 /\ ~a => r[k] = UPX0[k - s]
      /\ k - t \in 1..8 /\ ~b => r[k] = UPX1[k - t]
      /\ k - o \notin 1..4 /\ (a \/ k - s \notin 1..8) /\ (b \/ k - t \notin 1..8) =>
           r[k] = f[k]
  BY <1>2, <1>5, <1>7, <1>8
<1> QED
  BY <1>9 DEF o, s, t, m, n, r, a, b

\* A repair changes only what tampering may change.
LEMMA RepairedIsTampered ==
  ASSUME NEW f \in PeFile, Repairable(f), Behind(f)
  PROVE  /\ Repaired(f) = WithNames(f)
         /\ Repaired(f) \in PeFile /\ Len(Repaired(f)) = Len(f)
         /\ OnlyTampered(f, Repaired(f))
<1> DEFINE o == TheOffset(f)
           n == WithNames(f)
<1>1. SmallLayout(f) /\ o \in Nat /\ Reads(f, o)
  BY LocatedIsTheOffset DEF Repairable
<1>2. n \in PeFile /\ Len(n) = Len(f) /\ Len(f) \in Nat
  BY WritesArePeFiles DEF PeFile
<1>3. ASSUME NEW k \in 1..Len(f)
      PROVE  \/ n[k] = f[k] \/ k - o \in 1..4
             \/ k - SectionAt(f, 0) \in 1..8 \/ k - SectionAt(f, 1) \in 1..8
  BY <1>1, NamesWritten
<1>4. OnlyTampered(f, n)
  <2>1. \A k \in 1..Len(f) :
          n[k] = f[k] \/ k - o \in 1..4 \/ \E i \in 0..1 : k - SectionAt(f, i) \in 1..8
    BY <1>3
  <2> HIDE DEF n
  <2> QED
    BY <1>2, <2>1 DEF OnlyTampered
<1>5. Reads(n, o)
  BY <1>1, <1>2, <1>4, OwnUndisturbed, UndisturbedReads
<1>6. Version(n, o) = Version(f, o)
  <2>1. /\ SectionAt(f, 0) \in Nat /\ SectionAt(f, 1) = SectionAt(f, 0) + 40
        /\ TableEnd(f) \in Nat /\ TableEnd(f) >= SectionAt(f, 0) + 80
        /\ TableEnd(f) <= o /\ o + 28 <= Len(f)
    BY <1>1, LayoutIs, ReadsFits DEF Behind
  <2>2. /\ o + 5 \in 1..Len(f) /\ (o + 5) - o \notin 1..4
        /\ (o + 5) - SectionAt(f, 0) \notin 1..8 /\ (o + 5) - SectionAt(f, 1) \notin 1..8
    <3> HIDE DEF o
    <3> QED
      BY <1>1, <1>2, <2>1
  <2>3. n[o + 5] = f[o + 5]
    BY <1>4, <2>2, SameByte
  <2> QED
    BY <2>3 DEF Version
<1>7. Repaired(f) = n
  <2>1. Repaired(f) = Summed(n, o, Version(f, o))
    BY DEF Repaired
  <2>2. CASE Version(f, o) < 10
    BY <2>1, <2>2 DEF Summed
  <2>3. CASE ~(Version(f, o) < 10)
    <3> DEFINE c == Checksum(n, o)
    <3>1. Version(f, o) \in Nat /\ Version(f, o) >= 10
      BY <1>1, <2>3, ReadsFits
    <3>2. n[o + 32] = c /\ o + 32 <= Len(n)
      BY <1>1, <1>2, <1>5, <1>6, <3>1, ReadsFits DEF Reads, ChecksumValid
    <3>3. c \in Byte
      BY <1>1, <1>2, <3>2, ChecksumIsByte
    <3> DEFINE q == Patch(n, o + 31, <<c>>)
    <3>4. Len(<<c>>) = 1 /\ <<c>>[1] = c
      OBVIOUS
    <3>5. q \in PeFile /\ Len(q) = Len(n)
      <4>1. \A k \in 1..Len(<<c>>) : <<c>>[k] \in Byte
        BY <3>3, <3>4
      <4> QED
        BY <1>2, <4>1, PatchIsPeFile
    <3>6. ASSUME NEW k \in 1..Len(n) PROVE q[k] = n[k]
      <4>1. q[k] = IF k - (o + 31) \in 1..Len(<<c>>) THEN <<c>>[k - (o + 31)] ELSE n[k]
        BY DEF Patch
      <4>2. CASE k - (o + 31) \in 1..Len(<<c>>)
        <5>1. k = o + 32 /\ k - (o + 31) = 1
          BY <1>1, <1>2, <3>4, <4>2
        <5> QED
          BY <3>2, <3>4, <4>1, <4>2, <5>1
      <4>3. CASE k - (o + 31) \notin 1..Len(<<c>>)
        BY <4>1, <4>3
      <4> QED
        BY <4>2, <4>3
    <3>7. q = n
      BY <1>2, <3>5, <3>6, SameFile
    <3> QED
      BY <2>1, <2>3, <3>7 DEF Summed
  <2> QED
    BY <2>2, <2>3
<1> QED
  BY <1>2, <1>4, <1>7

\* After a repair the magic and the names hold.
LEMMA RepairedHolds ==
  ASSUME NEW f \in PeFile, Repairable(f), Behind(f)
  PROVE  LET r == Repaired(f)
         IN  /\ Holds(r, TheOffset(f), UPX)
             /\ Holds(r, SectionAt(f, 0), SubSeq(UPX0, 1, 4))
             /\ Holds(r, SectionAt(f, 1), SubSeq(UPX1, 1, 4))
<1> DEFINE o == TheOffset(f)
           s == SectionAt(f, 0)
           t == SectionAt(f, 1)
           r == Repaired(f)
           a == Holds(f, s, SubSeq(UPX0, 1, 4))
           b == Holds(f, t, SubSeq(UPX1, 1, 4))
<1>1. SmallLayout(f) /\ o \in Nat /\ o + 28 <= Len(f) /\ Len(f) \in Nat
  BY LocatedIsTheOffset, ReadsFits DEF Repairable, PeFile
<1>2. s \in Nat /\ t = s + 40 /\ s + 80 <= Len(f) /\ s + 80 <= o
  <2>1. /\ s \in Nat /\ t = s + 40 /\ TableEnd(f) \in Nat
        /\ TableEnd(f) >= s + 80 /\ TableEnd(f) <= Len(f)
    BY <1>1, LayoutIs
  <2>2. TableEnd(f) <= o
    BY DEF Behind
  <2> HIDE DEF s, t, o
  <2> QED
    BY <1>1, <2>1, <2>2
<1>3. r = WithNames(f)
  BY RepairedIsTampered
<1>4. ASSUME NEW k \in 1..Len(f)
      PROVE  /\ k - o \in 1..4 => r[k] = UPX[k - o]
             /\ k - s \in 1..8 /\ ~a => r[k] = UPX0[k - s]
             /\ k - t \in 1..8 /\ ~b => r[k] = UPX1[k - t]
             /\ k - o \notin 1..4 /\ (a \/ k - s \notin 1..8) /\ (b \/ k - t \notin 1..8) =>
                  r[k] = f[k]
  BY <1>1, <1>3, NamesWritten
<1>5. ASSUME NEW k \in 1..4
      PROVE  r[o + k] = UPX[k] /\ r[s + k] = UPX0[k] /\ r[t + k] = UPX1[k]
  <2> HIDE DEF o, s, t, r
  <2>1. /\ o + k \in 1..Len(f) /\ (o + k) - o = k /\ (o + k) - o \in 1..4
        /\ s + k \in 1..Len(f) /\ (s + k) - s = k /\ (s + k) - s \in 1..8
        /\ (s + k) - o \notin 1..4 /\ (s + k) - t \notin 1..8
        /\ t + k \in 1..Len(f) /\ (t + k) - t = k /\ (t + k) - t \in 1..8
        /\ (t + k) - o \notin 1..4 /\ (t + k) - s \notin 1..8
    BY <1>1, <1>2
  <2>2. a => f[s + k] = UPX0[k]
    BY TheStrings DEF Holds
  <2>3. b => f[t + k] = UPX1[k]
    BY TheStrings DEF Holds
  <2> HIDE DEF a, b
  <2>4. r[o + k] = UPX[k]
    BY <1>4, <2>1
  <2>5. r[s + k] = UPX0[k]
    BY <1>4, <2>1, <2>2
  <2>6. r[t + k] = UPX1[k]
    BY <1>4, <2>1, <2>3
  <2> QED
    BY <2>4, <2>5, <2>6
<1>6. Holds(r, o, UPX)
  BY <1>5, TheStrings DEF Holds
<1>7. Holds(r, s, SubSeq(UPX0, 1, 4))
  BY <1>5, TheStrings DEF Holds
<1>8. Holds(r, t, SubSeq(UPX1, 1, 4))
  BY <1>5, TheStrings DEF Holds
<1> QED
  BY <1>6, <1>7, <1>8

\* With nothing to restore, the writes write what is there.
LEMMA NothingToWrite ==
  ASSUME NEW f \in PeFile, Holds(f, TheOffset(f), UPX),
         Holds(f, SectionAt(f, 0), SubSeq(UPX0, 1, 4)),
         Holds(f, SectionAt(f, 1), SubSeq(UPX1, 1, 4)), TheOffset(f) \in Nat
  PROVE  WithNames(f) = f /\ Fixes(f) = {}
<1> DEFINE o == TheOffset(f)
           m == WithMagic(f)
<1>1. m = f
  <2>1. m \in PeFile /\ Len(m) = Len(f) /\ Len(f) \in Nat
    BY WritesArePeFiles DEF PeFile
  <2>2. ASSUME NEW k \in 1..Len(f) PROVE m[k] = f[k]
    <3>1. m[k] = IF k - o \in 1..4 THEN UPX[k - o] ELSE f[k]
      BY MagicIs DEF WithMagic
    <3>2. CASE k - o \in 1..4
      <4>1. \A j \in 1..4 : f[o + j] = UPX[j]
        BY TheStrings DEF Holds
      <4>2. f[o + (k - o)] = UPX[k - o] /\ o + (k - o) = k
        BY <2>1, <3>2, <4>1
      <4> QED
        BY <3>1, <3>2, <4>2
    <3>3. CASE k - o \notin 1..4
      BY <3>1, <3>3
    <3> QED
      BY <3>2, <3>3
  <2> HIDE DEF m
  <2> QED
    BY <2>1, <2>2, SameFile
<1>2. WithFirst(f) = f
  BY <1>1 DEF WithFirst, Named
<1>3. WithNames(f) = f
  BY <1>2 DEF WithNames, Named
<1> QED
  BY <1>1, <1>2, <1>3 DEF Fixes

LEMMA RepairedIsFoundAgain ==
  ASSUME NEW f \in PeFile, Repairable(f), ~Disturbed(f)
  PROVE  LET r == Repaired(f)
         IN  /\ Behind(f) /\ Behind(r) /\ r \in PeFile
             /\ Repairable(r) /\ TheOffset(r) = TheOffset(f)
             /\ SectionAt(r, 0) = SectionAt(f, 0) /\ SectionAt(r, 1) = SectionAt(f, 1)
<1> DEFINE o == TheOffset(f)
           r == Repaired(f)
<1>1. SmallLayout(f) /\ o \in Nat
  BY LocatedIsTheOffset DEF Repairable
<1>2. TableEnd(f) \in Nat
  BY <1>1, LayoutIs
<1>3. Behind(f)
  BY <1>1, <1>2 DEF Disturbed, Behind
<1>4. r \in PeFile /\ Len(r) = Len(f) /\ OnlyTampered(f, r)
  BY <1>3, RepairedIsTampered
<1>5. Repairable(r) /\ (TheOffset(r) = o \/ Disturbs(f, TheOffset(r)))
  BY <1>3, <1>4, FoundAgain
<1>6. TheOffset(r) \in Located(r)
  BY <1>5 DEF Repairable, TheOffset
<1>7. TheOffset(r) = o
  BY <1>5, <1>6 DEF Disturbed
<1>8. /\ TableEnd(r) = TableEnd(f)
      /\ SectionAt(r, 0) = SectionAt(f, 0) /\ SectionAt(r, 1) = SectionAt(f, 1)
  BY <1>1, <1>3, <1>4, SameNumbers
<1> QED
  BY <1>3, <1>4, <1>5, <1>7, <1>8 DEF Behind

(***************************************************************************)
(* For every PE file that the repair accepts, candidates that overlap or   *)
(* not: it accepts its own output, lists no fix, and changes nothing more, *)
(* unless the header lies in the file's section table, or the output reads *)
(* at a place that the writes met as a header, which comes first.          *)
(***************************************************************************)
THEOREM PeRepairSettlesDown ==
  ASSUME NEW f \in PeFile, Repairable(f), ~Disturbed(f)
  PROVE  Stable(Repaired(f))
<1> DEFINE r == Repaired(f)
<1>1. /\ Behind(f) /\ Behind(r) /\ r \in PeFile
      /\ Repairable(r) /\ TheOffset(r) = TheOffset(f)
      /\ SectionAt(r, 0) = SectionAt(f, 0) /\ SectionAt(r, 1) = SectionAt(f, 1)
  BY RepairedIsFoundAgain
<1>2. TheOffset(f) \in Nat
  BY LocatedIsTheOffset DEF Repairable
<1>3. /\ Holds(r, TheOffset(r), UPX)
      /\ Holds(r, SectionAt(r, 0), SubSeq(UPX0, 1, 4))
      /\ Holds(r, SectionAt(r, 1), SubSeq(UPX1, 1, 4))
  BY <1>1, RepairedHolds
<1>4. WithNames(r) = r /\ Fixes(r) = {}
  BY <1>1, <1>2, <1>3, NothingToWrite
<1>5. Repaired(r) = r
  BY <1>1, <1>4, RepairedIsTampered
<1> QED
  BY <1>1, <1>4, <1>5 DEF Stable

-----------------------------------------------------------------------------
(***************************************************************************)
(* The inductive invariant of a run.  The scan has passed over no hit, and *)
(* each write brings the buffer one part closer to Repaired(sample).       *)
(***************************************************************************)
ScanInv ==
  pc = "scan" =>
    /\ SmallLayout(sample) /\ Exists(sample, window)
    /\ offset >= Start(sample, window)
    /\ window = 2 => Hits(sample, 1) = {}
    /\ \A o \in Hits(sample, window) : offset <= o

Writing == pc \in {"magic", "first name", "second name", "checksum", "exit 0"}

FoundInv ==
  Writing => SmallLayout(sample) /\ offset \in Located(sample)

BufferInv ==
  /\ pc \in {"scan", "magic"} => buffer = sample
  /\ pc = "first name"  => buffer = WithMagic(sample)
  /\ pc = "second name" => buffer = WithFirst(sample)
  /\ pc = "checksum"    => buffer = WithNames(sample)
  /\ pc = "exit 0"      => buffer = Repaired(sample)

RefusedInv == pc = "refused" => ~Repairable(sample)

Inv == TypeOK /\ ScanInv /\ FoundInv /\ BufferInv /\ RefusedInv

LEMMA InitInv == Init => Inv
<1> SUFFICES ASSUME Init PROVE Inv
  OBVIOUS
<1>1. TypeOK
  BY PackedAssumption, OthersAssumption, BoundAssumption
     DEF Init, TypeOK, PC, Window
<1> QED
  BY <1>1 DEF Init, Inv, ScanInv, FoundInv, Writing, BufferInv, RefusedInv

LEMMA TamperedIsPeFile ==
  ASSUME NEW f \in PeFile, NEW o, NEW t \in Tamperings(f, o)
  PROVE  t \in PeFile
<1>1. ASSUME NEW at, NEW n \in Nat, NEW s \in [1..n -> Byte] PROVE Patch(f, at, s) \in PeFile
  <2>1. s \in Seq(Byte) /\ Len(s) = n
    <3>1. s \in Seq(Byte)
      BY SeqDef
    <3> QED
      BY <3>1, LenProperties
  <2>2. \A k \in 1..Len(s) : s[k] \in Byte
    BY <2>1
  <2> QED
    BY <2>2, PatchIsPeFile
<1>2. CASE \E i \in 0..1, n \in Names : t = Patch(f, SectionAt(f, i), n)
  <2>1. ASSUME NEW at, NEW n \in Names PROVE Patch(f, at, n) \in PeFile
    <3>1. n \in [1..8 -> Byte] /\ 8 \in Nat
      BY TamperAssumption
    <3> QED
      BY <1>1, <3>1
  <2> QED
    BY <1>2, <2>1
<1>3. CASE \E m \in Magics : t = Patch(f, o, m)
  <2>1. ASSUME NEW m \in Magics PROVE Patch(f, o, m) \in PeFile
    <3>1. m \in [1..4 -> Byte] /\ 4 \in Nat
      BY TamperAssumption
    <3> QED
      BY <1>1, <3>1
  <2> QED
    BY <1>3, <2>1
<1>4. CASE \E a \in Tails : t = f \o a
  <2>1. PICK a \in Tails : t = f \o a
    BY <1>4
  <2>2. a \in PeFile
    BY TamperAssumption
  <2> QED
    BY <2>1, <2>2, ConcatProperties DEF PeFile
<1> QED
  BY <1>2, <1>3, <1>4 DEF Tamperings

\* Hits lie in a window, from its start on.
LEMMA HitsFromStart ==
  ASSUME NEW f, NEW w
  PROVE  /\ \A o \in Hits(f, w) : Start(f, w) <= o /\ Scans(f, w, o) /\ Accepts(f, w, o)
         /\ ~Exists(f, w) => Hits(f, w) = {}
<1>1. ASSUME NEW o \in Hits(f, w)
      PROVE  Start(f, w) <= o /\ Scans(f, w, o) /\ Accepts(f, w, o)
  <2>1. o >= Start(f, w) /\ Scans(f, w, o) /\ Accepts(f, w, o)
    BY DEF Hits
  <2> QED
    BY <2>1
<1> QED
  BY <1>1 DEF Hits

LEMMA LayoutInv == Inv /\ Layout => Inv'
<1> SUFFICES ASSUME Inv, Layout PROVE Inv'
  OBVIOUS
<1> USE DEF Inv, TypeOK
<1>1. sample \in PeFile /\ pc' \in PC /\ buffer' = sample
      /\ sample' = sample /\ genuine' = genuine /\ tampers' = tampers
  BY DEF Layout, ScanFrom, Refuse, PC
<1>2. ASSUME NEW w \in Window, SmallLayout(sample), Exists(sample, w), ScanFrom(w),
             w = 2 => ~Exists(sample, 1)
      PROVE  Inv'
  <2>1. window' = w /\ offset' = Start(sample, w) /\ pc' = "scan"
    BY <1>2 DEF ScanFrom
  <2>2. offset' \in Nat
    BY <1>1, <1>2, <2>1, StartIsOffset
  <2>3. ScanInv'
    BY <1>1, <1>2, <2>1, <2>2, HitsFromStart DEF ScanInv
  <2> QED
    BY <1>1, <2>1, <2>2, <2>3 DEF FoundInv, Writing, BufferInv, RefusedInv
<1>3. ASSUME ~SmallLayout(sample) \/ \A w \in Window : ~Exists(sample, w), Refuse
      PROVE  Inv'
  <2>1. ~Repairable(sample)
    <3>1. CASE ~SmallLayout(sample)
      BY <3>1 DEF Repairable
    <3>2. CASE \A w \in Window : ~Exists(sample, w)
      <4>1. Hits(sample, 1) = {} /\ Hits(sample, 2) = {}
        BY <3>2, HitsFromStart DEF Window
      <4> QED
        BY <4>1 DEF Repairable, Located, First
    <3> QED
      BY <1>3, <3>1, <3>2
  <2> QED
    BY <1>1, <1>3, <2>1
       DEF Refuse, ScanInv, FoundInv, Writing, BufferInv, RefusedInv
<1>4. ASSUME pc' = "no memory", UNCHANGED <<window, offset>>
      PROVE  Inv'
  BY <1>1, <1>4 DEF ScanInv, FoundInv, Writing, BufferInv, RefusedInv
<1>5. CASE SmallLayout(sample) /\ Exists(sample, 1) /\ ScanFrom(1)
  BY <1>2, <1>5 DEF Window
<1>6. CASE /\ SmallLayout(sample) /\ ~Exists(sample, 1) /\ Exists(sample, 2)
           /\ ScanFrom(2)
  BY <1>2, <1>6 DEF Window
<1> QED
  BY <1>3, <1>4, <1>5, <1>6, Zenon DEF Layout

LEMMA ScanStepInv == Inv /\ Scan => Inv'
<1> SUFFICES ASSUME Inv, Scan PROVE Inv'
  OBVIOUS
<1> USE DEF Inv, TypeOK
<1> DEFINE S == Hits(sample, window)
<1>1. /\ pc = "scan" /\ sample \in PeFile /\ buffer = sample
      /\ buffer' = buffer /\ sample' = sample
      /\ genuine' = genuine /\ tampers' = tampers
      /\ window \in Window /\ offset \in Nat
  BY DEF Scan, BufferInv
<1>2. /\ SmallLayout(sample) /\ Exists(sample, window)
      /\ offset >= Start(sample, window)
      /\ window = 2 => Hits(sample, 1) = {}
      /\ \A o \in S : offset <= o
  BY <1>1 DEF ScanInv
<1>3. Start(sample, window) \in Nat /\ Limit(sample, window) \in Nat
  BY <1>1, <1>2, StartIsOffset
<1>4. CASE Scans(sample, window, offset) /\ Accepts(sample, window, offset)
           /\ pc' = "magic" /\ UNCHANGED <<window, offset>>
  <2>1. offset \in S
    BY <1>1, <1>2, <1>3, <1>4 DEF Hits, Scans
  <2>2. offset \in First(S)
    BY <1>2, <2>1 DEF First
  <2>3. offset \in Located(sample)
    <3>1. CASE window = 1
      BY <2>1, <2>2, <3>1 DEF Located
    <3>2. CASE window = 2
      BY <1>2, <2>2, <3>2 DEF Located
    <3> QED
      BY <1>1, <3>1, <3>2 DEF Window
  <2> QED
    BY <1>1, <1>2, <1>4, <2>3
       DEF PC, ScanInv, FoundInv, Writing, BufferInv, RefusedInv
<1>5. CASE Scans(sample, window, offset) /\ ~Accepts(sample, window, offset)
           /\ offset' = offset + 1 /\ UNCHANGED <<pc, window>>
  <2>1. offset \notin S
    BY <1>5 DEF Hits
  <2>2. \A o \in S : offset + 1 <= o
    BY <1>1, <1>2, <2>1, HitsAreOffsets
  <2>3. offset' >= Start(sample, window)
    BY <1>1, <1>2, <1>3, <1>5
  <2> QED
    BY <1>1, <1>2, <1>5, <2>2, <2>3
       DEF PC, ScanInv, FoundInv, Writing, BufferInv, RefusedInv
<1>6. ASSUME ~Scans(sample, window, offset)
      PROVE  S = {}
  <2>1. SUFFICES ASSUME NEW o \in S PROVE FALSE
    OBVIOUS
  <2>2. o \in Nat /\ offset <= o /\ Scans(sample, window, o)
    BY <1>2, HitsAreOffsets, HitsFromStart
  <2> QED
    BY <1>1, <1>3, <1>6, <2>2 DEF Scans
<1>7. CASE ~Scans(sample, window, offset) /\ window = 1 /\ Exists(sample, 2) /\ ScanFrom(2)
  <2>1. Start(sample, 2) \in Nat
    BY <1>1, <1>2, <1>7, StartIsOffset DEF Window
  <2>2. ScanInv'
    BY <1>1, <1>2, <1>6, <1>7, <2>1, HitsFromStart DEF ScanFrom, ScanInv
  <2> QED
    BY <1>1, <1>7, <2>1, <2>2
       DEF ScanFrom, PC, Window, FoundInv, Writing, BufferInv, RefusedInv
<1>8. CASE ~Scans(sample, window, offset) /\ (window = 2 \/ ~Exists(sample, 2)) /\ Refuse
  <2>1. Hits(sample, 1) = {} /\ Hits(sample, 2) = {}
    BY <1>1, <1>2, <1>6, <1>8, HitsFromStart DEF Window
  <2>2. ~Repairable(sample)
    BY <2>1 DEF Repairable, Located, First
  <2> QED
    BY <1>1, <1>8, <2>2
       DEF Refuse, PC, ScanInv, FoundInv, Writing, BufferInv, RefusedInv
<1> QED
  BY <1>4, <1>5, <1>7, <1>8 DEF Scan

\* The four writes: each one adds its part of the repair to the buffer.
LEMMA WritesInv ==
  Inv /\ (FixMagic \/ FixFirstName \/ FixSecondName \/ FixChecksum) => Inv'
<1> SUFFICES ASSUME Inv, FixMagic \/ FixFirstName \/ FixSecondName \/ FixChecksum
             PROVE  Inv'
  OBVIOUS
<1> USE DEF Inv, TypeOK
<1>1. /\ genuine' = genuine /\ tampers' = tampers /\ sample' = sample
      /\ window' = window /\ offset' = offset
      /\ pc \in {"magic", "first name", "second name", "checksum"}
  BY DEF FixMagic, FixFirstName, FixSecondName, FixChecksum, Write
<1>2. sample \in PeFile /\ SmallLayout(sample) /\ offset \in Located(sample)
  BY <1>1 DEF FoundInv, Writing
<1>3. TheOffset(sample) = offset /\ Repairable(sample)
  BY <1>2, LocatedIsTheOffset DEF Repairable
<1>4. ASSUME buffer' \in PeFile, pc' \in {"first name", "second name", "checksum", "exit 0"},
             BufferInv'
      PROVE  Inv'
  BY <1>1, <1>2, <1>4 DEF PC, ScanInv, FoundInv, Writing, RefusedInv
<1>5. CASE FixMagic
  <2>1. pc' = "first name" /\ buffer' = WithMagic(sample)
    BY <1>3, <1>5 DEF FixMagic, Write, WithMagic, BufferInv
  <2> QED
    BY <1>1, <1>2, <1>4, <2>1, WritesArePeFiles DEF BufferInv
<1>6. CASE FixFirstName
  <2>1. pc' = "second name" /\ buffer' = WithFirst(sample)
    BY <1>6 DEF FixFirstName, Write, WithFirst, BufferInv
  <2> QED
    BY <1>1, <1>2, <1>4, <2>1, WritesArePeFiles DEF BufferInv
<1>7. CASE FixSecondName
  <2>1. pc' = "checksum" /\ buffer' = WithNames(sample)
    BY <1>7 DEF FixSecondName, Write, WithNames, BufferInv
  <2> QED
    BY <1>1, <1>2, <1>4, <2>1, WritesArePeFiles DEF BufferInv
<1>8. CASE FixChecksum
  <2>1. pc' = "exit 0" /\ buffer' = Repaired(sample)
    BY <1>3, <1>8 DEF FixChecksum, Write, Repaired, BufferInv
  <2> QED
    BY <1>1, <1>2, <1>3, <1>4, <2>1, RepairedIsPeFile DEF BufferInv
<1> QED
  BY <1>5, <1>6, <1>7, <1>8

LEMMA NextInv == Inv /\ [Next]_vars => Inv'
<1> SUFFICES ASSUME Inv, [Next]_vars PROVE Inv'
  OBVIOUS
<1>1. CASE Tamper
  <2>1. /\ pc' = pc /\ pc = "layout" /\ window' = window /\ offset' = offset
        /\ buffer' = buffer /\ genuine' = genuine /\ genuine \in Packed
        /\ tampers' = tampers + 1 /\ tampers < MaxTampers
        /\ sample' \in Tamperings(sample, TheOffset(genuine))
    BY <1>1 DEF Tamper
  <2>2. sample' \in PeFile
    BY <2>1, TamperedIsPeFile DEF Inv, TypeOK
  <2>3. tampers' \in 0..MaxTampers
    BY <2>1, BoundAssumption DEF Inv, TypeOK
  <2> QED
    BY <2>1, <2>2, <2>3
       DEF Inv, TypeOK, ScanInv, FoundInv, Writing, BufferInv, RefusedInv
<1>2. CASE Again
  BY <1>2 DEF Again, Inv, TypeOK, PC, ScanInv, FoundInv, Writing, BufferInv, RefusedInv
<1>3. CASE UNCHANGED vars
  BY <1>3 DEF vars, Inv, TypeOK, ScanInv, FoundInv, Writing, BufferInv, RefusedInv
<1> QED
  BY <1>1, <1>2, <1>3, LayoutInv, ScanStepInv, WritesInv DEF Next

LEMMA SpecInv == Spec => []Inv
<1> QED
  BY InitInv, NextInv, PTL DEF Spec

-----------------------------------------------------------------------------
(***************************************************************************)
(* A second run on the output of a repair lists no fix and changes         *)
(* nothing, for every set of PE files, with the exceptions that            *)
(* PeRepairSettles names.                                                  *)
(***************************************************************************)
THEOREM PeLaterRunsSettle == Spec => []PeRepairSettles
<1>1. Inv => PeRepairSettles
  <2> SUFFICES ASSUME Inv, pc = "exit 0", ~Disturbed(sample) PROVE Stable(buffer)
    BY DEF PeRepairSettles, Succeeded
  <2>1. buffer = Repaired(sample) /\ sample \in PeFile /\ Repairable(sample)
    BY DEF Inv, TypeOK, BufferInv, FoundInv, Writing, Repairable
  <2> QED
    BY <2>1, PeRepairSettlesDown
<1> QED
  BY <1>1, SpecInv, PTL

-----------------------------------------------------------------------------
LEMMA NamesApart ==
  ASSUME NEW k \in Nat, NEW x \in Nat, NEW o \in Nat, x + 80 <= o
  PROVE  /\ k - x \in 1..8 => k - o \notin 1..4 /\ k - (x + 40) \notin 1..8
         /\ k - (x + 40) \in 1..8 => k - o \notin 1..4 /\ k - x \notin 1..8
OBVIOUS

\* Byte by byte: the repair s of what was made of g, with its header found.
LEMMA ByteComesBack ==
  ASSUME NEW g \in PeFile, IsPacked(g), NEW s \in PeFile, OnlyTampered(g, s),
         Repairable(s), TheOffset(s) = TheOffset(g), NEW k \in 1..Len(s)
  PROVE  LET r == Repaired(s)
         IN  \/ /\ k <= Len(g) => r[k] = g[k]
                /\ k > Len(g) => r[k] = s[k]
             \/ /\ k \in NameTail(g, 0) /\ r[k] = s[k]
                /\ Holds(s, SectionAt(g, 0), SubSeq(UPX0, 1, 4))
             \/ /\ k \in NameTail(g, 1) /\ r[k] = s[k]
                /\ Holds(s, SectionAt(g, 1), SubSeq(UPX1, 1, 4))
<1> DEFINE o == TheOffset(g)
           x == SectionAt(g, 0)
           y == SectionAt(g, 1)
           r == Repaired(s)
           a == Holds(s, x, SubSeq(UPX0, 1, 4))
           b == Holds(s, y, SubSeq(UPX1, 1, 4))
<1>1. /\ SmallLayout(g) /\ Repairable(g) /\ o \in Nat /\ o + 28 <= Len(g) /\ Len(g) \in Nat
      /\ Len(s) \in Nat
  BY LocatedIsTheOffset, ReadsFits DEF IsPacked, Repairable, PeFile
<1>2. Behind(g) /\ SmallLayout(s)
  BY DEF IsPacked, Behind, Repairable
<1>3. /\ x \in Nat /\ y = x + 40 /\ x + 80 <= Len(g) /\ x + 80 <= o
  <2>1. /\ x \in Nat /\ y = x + 40 /\ TableEnd(g) \in Nat
        /\ TableEnd(g) >= x + 80 /\ TableEnd(g) <= Len(g)
    BY <1>1, LayoutIs
  <2>2. TableEnd(g) <= o
    BY <1>2 DEF Behind
  <2> HIDE DEF x, y, o
  <2> QED
    BY <1>1, <2>1, <2>2
<1>4. SectionAt(s, 0) = x /\ SectionAt(s, 1) = y /\ Behind(s)
  <2>1. /\ \A i : SectionAt(s, i) = SectionAt(g, i)
        /\ TableEnd(s) = TableEnd(g)
    BY <1>1, <1>2, SameNumbers
  <2> QED
    BY <1>2, <2>1 DEF Behind
<1>5. r = WithNames(s)
  BY <1>4, RepairedIsTampered
<1>6. /\ k - o \in 1..4 => r[k] = UPX[k - o]
      /\ k - x \in 1..8 /\ ~a => r[k] = UPX0[k - x]
      /\ k - y \in 1..8 /\ ~b => r[k] = UPX1[k - y]
      /\ k - o \notin 1..4 /\ (a \/ k - x \notin 1..8) /\ (b \/ k - y \notin 1..8) =>
           r[k] = s[k]
  BY <1>1, <1>2, <1>4, <1>5, NamesWritten
<1>7. /\ \A i \in 1..4 : g[o + i] = UPX[i]
      /\ \A i \in 1..8 : g[x + i] = UPX0[i] /\ g[y + i] = UPX1[i]
  BY TheStrings DEF IsPacked, Holds
<1>8. /\ a => \A i \in 1..4 : s[x + i] = UPX0[i]
      /\ b => \A i \in 1..4 : s[y + i] = UPX1[i]
  BY TheStrings DEF Holds
<1>9. k - o \notin 1..4 /\ k - x \notin 1..8 /\ k - y \notin 1..8 /\ k <= Len(g) => s[k] = g[k]
  BY <1>1, SameByte
<1>10. /\ NameTail(g, 0) = (x + 5)..(x + 8)
       /\ NameTail(g, 1) = (y + 5)..(y + 8)
  BY DEF NameTail
<1> HIDE DEF o, x, y, r, a, b
<1>11. k \in Nat /\ o + (k - o) = k /\ x + (k - x) = k /\ y + (k - y) = k
  BY <1>1, <1>3
<1>12. /\ k - o \in 1..4 => g[k] = UPX[k - o] /\ k <= Len(g)
       /\ k - x \in 1..8 => g[k] = UPX0[k - x] /\ k <= Len(g)
       /\ k - y \in 1..8 => g[k] = UPX1[k - y] /\ k <= Len(g)
  <2>1. /\ k - o \in 1..4 => k <= Len(g)
        /\ k - x \in 1..8 => k <= Len(g)
        /\ k - y \in 1..8 => k <= Len(g)
    BY <1>1, <1>3
  <2>2. /\ k - o \in 1..4 => g[o + (k - o)] = UPX[k - o]
        /\ k - x \in 1..8 => g[x + (k - x)] = UPX0[k - x]
        /\ k - y \in 1..8 => g[y + (k - y)] = UPX1[k - y]
    BY <1>7
  <2> QED
    BY <1>11, <2>1, <2>2
<1>13. /\ k - x \in 1..8 => k - o \notin 1..4 /\ k - y \notin 1..8
       /\ k - y \in 1..8 => k - o \notin 1..4 /\ k - x \notin 1..8
  BY <1>1, <1>3, <1>11, NamesApart
<1>14. k - o \in 1..4 => r[k] = g[k] /\ k <= Len(g)
  BY <1>6, <1>12
<1>15. ASSUME k - x \in 1..8
       PROVE  \/ r[k] = g[k] /\ k <= Len(g)
              \/ k \in (x + 5)..(x + 8) /\ r[k] = s[k] /\ a
  <2>1. CASE ~a
    BY <1>6, <1>12, <1>15, <2>1
  <2>2. CASE a
    <3>1. r[k] = s[k]
      BY <1>6, <1>13, <1>15, <2>2
    <3>2. CASE k - x \in 1..4
      <4>1. s[x + (k - x)] = UPX0[k - x]
        BY <1>8, <2>2, <3>2
      <4> QED
        BY <1>11, <1>12, <1>15, <3>1, <4>1
    <3>3. CASE k - x \notin 1..4
      <4>1. k \in (x + 5)..(x + 8)
        BY <1>3, <1>11, <1>15, <3>3
      <4> QED
        BY <2>2, <3>1, <4>1
    <3> QED
      BY <3>2, <3>3
  <2> QED
    BY <2>1, <2>2
<1>16. ASSUME k - y \in 1..8
       PROVE  \/ r[k] = g[k] /\ k <= Len(g)
              \/ k \in (y + 5)..(y + 8) /\ r[k] = s[k] /\ b
  <2>1. CASE ~b
    BY <1>6, <1>12, <1>16, <2>1
  <2>2. CASE b
    <3>1. r[k] = s[k]
      BY <1>6, <1>13, <1>16, <2>2
    <3>2. CASE k - y \in 1..4
      <4>1. s[y + (k - y)] = UPX1[k - y]
        BY <1>8, <2>2, <3>2
      <4> QED
        BY <1>11, <1>12, <1>16, <3>1, <4>1
    <3>3. CASE k - y \notin 1..4
      <4>1. k \in (y + 5)..(y + 8)
        BY <1>3, <1>11, <1>16, <3>3
      <4> QED
        BY <2>2, <3>1, <4>1
    <3> QED
      BY <3>2, <3>3
  <2> QED
    BY <2>1, <2>2
<1>17. k - o \notin 1..4 /\ k - x \notin 1..8 /\ k - y \notin 1..8 =>
         r[k] = s[k] /\ (k <= Len(g) => r[k] = g[k])
  BY <1>6, <1>9
<1>18. ~(k <= Len(g) /\ k > Len(g))
  BY <1>1, <1>11
<1>19. \/ /\ k <= Len(g) => r[k] = g[k]
          /\ k > Len(g) => r[k] = s[k]
       \/ k \in (x + 5)..(x + 8) /\ r[k] = s[k] /\ a
       \/ k \in (y + 5)..(y + 8) /\ r[k] = s[k] /\ b
  BY <1>14, <1>15, <1>16, <1>17, <1>18
<1> QED
  BY <1>10, <1>19 DEF r, a, b, x, y

(***************************************************************************)
(* A packed file of which only names and magic were changed comes back,    *)
(* however much was appended, for every set of files, unless a place that  *)
(* meets what was changed came to read as a header and was taken instead.  *)
(***************************************************************************)
THEOREM PeGenuineComesBack == Spec => []PeRestoresGenuine
<1>1. Inv => PeRestoresGenuine
  <2> SUFFICES ASSUME Inv, pc = "exit 0", genuine \in Packed, OnlyTampered(genuine, sample)
               PROVE  ComesBack \/ (offset # TheOffset(genuine) /\ Disturbs(genuine, offset))
    BY DEF PeRestoresGenuine, Succeeded
  <2>1. /\ genuine \in PeFile /\ IsPacked(genuine) /\ sample \in PeFile
        /\ buffer = Repaired(sample) /\ SmallLayout(sample) /\ offset \in Located(sample)
    BY PackedAssumption DEF Inv, TypeOK, BufferInv, FoundInv, Writing
  <2>2. Repairable(sample) /\ TheOffset(sample) = offset
    BY <2>1, LocatedIsTheOffset DEF Repairable
  <2>3. Repairable(genuine) /\ Behind(genuine) /\ Ordered(genuine)
    BY <2>1 DEF IsPacked, Behind, Ordered
  <2>4. offset = TheOffset(genuine) \/ Disturbs(genuine, offset)
    BY <2>1, <2>2, <2>3, FoundAgain
  <2>5. CASE offset = TheOffset(genuine)
    <3>1. Len(buffer) = Len(sample) /\ Len(genuine) \in Nat /\ Len(sample) \in Nat
      <4>1. Len(buffer) = Len(sample)
        BY <2>1, <2>2, RepairedIsPeFile
      <4>2. Len(genuine) \in Nat /\ Len(sample) \in Nat
        BY <2>1, LengthIs
      <4> QED
        BY <4>1, <4>2
    <3>2. ASSUME NEW k \in 1..Len(sample)
          PROVE  \/ buffer[k] = IF k <= Len(genuine) THEN genuine[k] ELSE sample[k]
                 \/ /\ k \in NameTail(genuine, 0) /\ buffer[k] = sample[k]
                    /\ Holds(sample, SectionAt(genuine, 0), SubSeq(UPX0, 1, 4))
                 \/ /\ k \in NameTail(genuine, 1) /\ buffer[k] = sample[k]
                    /\ Holds(sample, SectionAt(genuine, 1), SubSeq(UPX1, 1, 4))
      <4>1. \/ /\ k <= Len(genuine) => buffer[k] = genuine[k]
               /\ k > Len(genuine) => buffer[k] = sample[k]
            \/ /\ k \in NameTail(genuine, 0) /\ buffer[k] = sample[k]
               /\ Holds(sample, SectionAt(genuine, 0), SubSeq(UPX0, 1, 4))
            \/ /\ k \in NameTail(genuine, 1) /\ buffer[k] = sample[k]
               /\ Holds(sample, SectionAt(genuine, 1), SubSeq(UPX1, 1, 4))
        BY <2>1, <2>2, <2>5, ByteComesBack
      <4>2. k <= Len(genuine) \/ k > Len(genuine)
        BY <3>1, EitherSide
      <4> QED
        BY <3>1, <4>1, <4>2
    <3> QED
      BY <3>1, <3>2 DEF ComesBack
  <2> QED
    BY <2>4, <2>5
<1> QED
  BY <1>1, SpecInv, PTL

(***************************************************************************)
(* The samples and buffers of every run are PE files, and the offsets that *)
(* the scan looks at are offsets.                                          *)
(***************************************************************************)
THEOREM TypeCorrect == Spec => []TypeOK
<1>1. Inv => TypeOK
  BY DEF Inv
<1> QED
  BY <1>1, SpecInv, PTL

-----------------------------------------------------------------------------
LEMMA FileinfoHitsAreOffsets ==
  ASSUME NEW f \in PeFile, SmallLayout(f), NEW w \in Window
  PROVE  FileinfoHits(f, w) \in SUBSET Nat
<1>1. ASSUME NEW q \in FileinfoHits(f, w) PROVE q \in Nat
  <2>1. Exists(f, w) /\ q \in Start(f, w)..(Start(f, w) + 127)
    BY DEF FileinfoHits
  <2> QED
    BY <2>1, StartIsOffset
<1> QED
  BY <1>1

\* Where fileinfo decodes, a header has room in either window that scans it.
LEMMA DecodedFits ==
  ASSUME NEW f \in PeFile, SmallLayout(f), NEW v \in Window, NEW w \in Window,
         NEW o \in FileinfoHits(f, w), Accepts(f, v, o)
  PROVE  o \in Hits(f, w)
<1>1. Exists(f, w) /\ o \in Start(f, w)..(Start(f, w) + 127) /\ Decodes(f, o)
  BY DEF FileinfoHits
<1>2. Reads(f, o)
  BY <1>1 DEF Accepts, Decodes, Reads
<1> QED
  BY <1>1, <1>2, HitIs

\* What the repair accepts and has the magic, fileinfo decodes.
LEMMA AcceptedDecodes ==
  ASSUME NEW f \in PeFile, SmallLayout(f), NEW w \in Window, NEW o \in Hits(f, w),
         Holds(f, o, UPX)
  PROVE  o \in FileinfoHits(f, w)
<1>1. Exists(f, w) /\ o \in Start(f, w)..(Start(f, w) + 127) /\ Reads(f, o) /\ Scans(f, w, o)
  BY HitIs, HitsFromStart
<1>2. Decodes(f, o)
  BY <1>1 DEF Reads, Decodes
<1> QED
  BY <1>1, <1>2 DEF FileinfoHits

(***************************************************************************)
(* After every repair, of whatever file and with whatever decoys around,   *)
(* fileinfo calls the file packed, and reads the header that was repaired  *)
(* unless an earlier one has lengths that only the repair looks at, or the *)
(* file is one of those that PeRepairSettles excepts.                      *)
(***************************************************************************)
THEOREM PeFileinfoFollows == Spec => []PeFileinfoAgrees
<1>1. Inv => PeFileinfoAgrees
  <2> SUFFICES ASSUME Inv, Succeeded, ~Disturbed(sample)
               PROVE  /\ FileinfoPacked(buffer)
                      /\ \E o \in FileinfoOffset(buffer) :
                           o = offset \/ (~Accepts(buffer, 1, o) /\ ~Accepts(buffer, 2, o))
    BY DEF PeFileinfoAgrees
  <2>1. buffer = Repaired(sample) /\ sample \in PeFile /\ Repairable(sample)
        /\ offset = TheOffset(sample)
    <3>1. sample \in PeFile /\ SmallLayout(sample) /\ offset \in Located(sample)
          /\ buffer = Repaired(sample)
      BY DEF Inv, TypeOK, BufferInv, FoundInv, Writing, Succeeded
    <3> QED
      BY <3>1, LocatedIsTheOffset DEF Repairable
  <2>2. /\ Behind(sample) /\ buffer \in PeFile /\ Repairable(buffer)
        /\ TheOffset(buffer) = offset
        /\ SectionAt(buffer, 0) = SectionAt(sample, 0)
        /\ SectionAt(buffer, 1) = SectionAt(sample, 1)
    BY <2>1, RepairedIsFoundAgain
  <2>3. /\ Holds(buffer, offset, UPX)
        /\ Holds(buffer, SectionAt(buffer, 0), SubSeq(UPX0, 1, 4))
        /\ Holds(buffer, SectionAt(buffer, 1), SubSeq(UPX1, 1, 4))
    BY <2>1, <2>2, RepairedHolds
  <2>4. SmallLayout(buffer) /\ FileinfoReads(buffer) /\ offset \in Located(buffer)
    BY <2>2 DEF Repairable, SmallLayout, Sound, FileinfoReads, TheOffset
  <2>5. 1 \in Window /\ 2 \in Window
    BY DEF Window
  <2>6. PICK u \in Window :
          offset \in First(Hits(buffer, u)) /\ (u = 2 => Hits(buffer, 1) = {})
    BY <2>4, LocatedIn
  <2>7. offset \in FileinfoHits(buffer, u)
    BY <2>2, <2>3, <2>4, <2>6, AcceptedDecodes DEF First
  <2>8. FileinfoOffset(buffer) # {}
    <3>1. u = 1 \/ u = 2
      BY DEF Window
    <3>2. /\ FileinfoHits(buffer, 1) \in SUBSET Nat
          /\ FileinfoHits(buffer, 2) \in SUBSET Nat
      BY <2>2, <2>4, <2>5, FileinfoHitsAreOffsets
    <3> QED
      BY <2>4, <2>7, <3>1, <3>2, FirstExists DEF FileinfoOffset
  <2>9. ASSUME NEW o \in FileinfoOffset(buffer), NEW v \in Window, Accepts(buffer, v, o)
        PROVE  o = offset
    <3>1. PICK w \in Window :
            /\ o \in First(FileinfoHits(buffer, w))
            /\ w = 2 => FileinfoHits(buffer, 1) = {}
      BY <2>4, <2>5, <2>9 DEF FileinfoOffset
    <3>2. o \in Hits(buffer, w)
      BY <2>2, <2>4, <2>9, <3>1, DecodedFits DEF First
    <3>3. u = w
      BY <2>6, <2>7, <3>1, <3>2 DEF Window
    <3>4. /\ Hits(buffer, w) \in SUBSET Nat
          /\ FileinfoHits(buffer, w) \in SUBSET Nat
      BY <2>2, <2>4, FileinfoHitsAreOffsets, HitsAreOffsets
    <3>5. offset \in Nat /\ o \in Nat /\ o <= offset /\ offset <= o
      BY <2>6, <2>7, <3>1, <3>2, <3>3, <3>4 DEF First
    <3> QED
      BY <3>5
  <2>10. FileinfoPacked(buffer)
    BY <2>3, <2>4 DEF FileinfoPacked
  <2>11. PICK o \in FileinfoOffset(buffer) : TRUE
    BY <2>8
  <2>12. o = offset \/ (~Accepts(buffer, 1, o) /\ ~Accepts(buffer, 2, o))
    BY <2>5, <2>9
  <2> QED
    BY <2>10, <2>12
<1> QED
  BY <1>1, SpecInv, PTL

-----------------------------------------------------------------------------
(***************************************************************************)
(* UpxPePromise instantiates UpxPe with the constants of UpxPeRepair, so   *)
(* its operators are the same.                                             *)
(***************************************************************************)
LEMMA SameWords ==
  ASSUME NEW f, NEW o
  PROVE  Promise!U16(f, o) = U16(f, o) /\ Promise!U32(f, o) = U32(f, o)
BY DEF U16, Promise!U16, U32, Promise!U32

LEMMA SameFields ==
  ASSUME NEW f, NEW i
  PROVE  /\ Promise!PeOffset(f) = PeOffset(f) /\ Promise!Count(f) = Count(f)
         /\ Promise!OptionalSize(f) = OptionalSize(f) /\ Promise!Optional(f) = Optional(f)
         /\ Promise!SectionAt(f, i) = SectionAt(f, i) /\ Promise!TableEnd(f) = TableEnd(f)
         /\ Promise!RawSize(f, i) = RawSize(f, i)
         /\ Promise!RawOffset(f, i) = RawOffset(f, i)
         /\ Promise!Format(f) = Format(f) /\ (Promise!Efi(f) <=> Efi(f))
<1>1. Promise!PeOffset(f) = PeOffset(f)
  BY SameWords DEF PeOffset, Promise!PeOffset
<1>2. /\ Promise!Count(f) = Count(f) /\ Promise!OptionalSize(f) = OptionalSize(f)
      /\ Promise!Optional(f) = Optional(f)
  BY <1>1, SameWords DEF Count, Promise!Count, OptionalSize, Promise!OptionalSize,
                         Optional, Promise!Optional
<1>3. ASSUME NEW j PROVE Promise!SectionAt(f, j) = SectionAt(f, j)
  BY <1>2 DEF SectionAt, Promise!SectionAt
<1>4. Promise!TableEnd(f) = TableEnd(f)
  BY <1>2, <1>3 DEF TableEnd, Promise!TableEnd
<1>5. /\ Promise!RawSize(f, i) = RawSize(f, i)
      /\ Promise!RawOffset(f, i) = RawOffset(f, i)
  BY <1>3, SameWords DEF RawSize, Promise!RawSize, RawOffset, Promise!RawOffset
<1>6. Promise!Format(f) = Format(f)
  BY <1>1, SameWords DEF Format, Promise!Format, WinceArm, Promise!WinceArm
<1>7. Promise!Efi(f) <=> Efi(f)
  BY <1>2, SameWords DEF Efi, Promise!Efi
<1> QED
  BY <1>1, <1>2, <1>3, <1>4, <1>5, <1>6, <1>7

LEMMA SameSmallLayout ==
  ASSUME NEW f PROVE Promise!SmallLayout(f) <=> SmallLayout(f)
<1>1. Promise!Signed(f) <=> Signed(f)
  BY SameFields DEF Signed, Promise!Signed, Holds, Promise!Holds
<1>2. Promise!TableFits(f) <=> TableFits(f)
  BY SameFields DEF TableFits, Promise!TableFits
<1>3. Promise!Sound(f) <=> Sound(f)
  BY <1>1, <1>2, SameFields, SameWords DEF Sound, Promise!Sound
<1> QED
  BY <1>3, SameFields DEF SmallLayout, Promise!SmallLayout, WinceArm, Promise!WinceArm

LEMMA SameHeader ==
  ASSUME NEW f, NEW o
  PROVE  /\ Promise!Version(f, o) = Version(f, o)
         /\ Promise!HeaderEnd(f, o) = HeaderEnd(f, o)
         /\ Promise!Checksum(f, o) = Checksum(f, o)
         /\ Promise!ChecksumValid(f, o) <=> ChecksumValid(f, o)
<1>1. Promise!Version(f, o) = Version(f, o)
  BY DEF Version, Promise!Version
<1>2. ASSUME NEW v, NEW m PROVE Promise!HeaderSize(v, m) = HeaderSize(v, m)
  BY DEF HeaderSize, Promise!HeaderSize
<1>3. ASSUME NEW i PROVE Promise!Nine(f, i) = Nine(f, i)
  BY DEF Nine, Promise!Nine, Three, Promise!Three
<1>4. Promise!Checksum(f, o) = Checksum(f, o)
  BY <1>3 DEF Checksum, Promise!Checksum
<1> QED
  BY <1>1, <1>2, <1>4 DEF HeaderEnd, Promise!HeaderEnd, ChecksumValid, Promise!ChecksumValid

LEMMA SameLocated ==
  ASSUME NEW f
  PROVE  Promise!Located(f) = Located(f) /\ Promise!TheOffset(f) = TheOffset(f)
<1>1. ASSUME NEW w PROVE Promise!Hits(f, w) = Hits(f, w)
  <2>1. /\ Promise!Start(f, w) = Start(f, w) /\ Promise!Limit(f, w) = Limit(f, w)
        /\ Promise!Exists(f, w) <=> Exists(f, w)
    BY SameFields DEF Start, Promise!Start, Limit, Promise!Limit, Least, Promise!Least,
                      Exists, Promise!Exists
  <2>2. ASSUME NEW o
        PROVE  /\ Promise!Accepts(f, w, o) <=> Accepts(f, w, o)
               /\ Promise!Scans(f, w, o) <=> Scans(f, w, o)
    BY <2>1, SameHeader, SameFields, SameWords
       DEF Accepts, Promise!Accepts, Scans, Promise!Scans
  <2> QED
    BY <2>1, <2>2 DEF Hits, Promise!Hits
<1>2. Promise!Located(f) = Located(f)
  BY <1>1 DEF Located, Promise!Located, First, Promise!First
<1> QED
  BY <1>2 DEF TheOffset, Promise!TheOffset

LEMMA SameRepairable == ASSUME NEW f PROVE Promise!Repairable(f) <=> Repairable(f)
BY SameSmallLayout, SameLocated DEF Repairable, Promise!Repairable

LEMMA SamePatch ==
  ASSUME NEW f, NEW o, NEW s
  PROVE  /\ Promise!Patch(f, o, s) = Patch(f, o, s)
         /\ Promise!Holds(f, o, s) <=> Holds(f, o, s)
         /\ Promise!Named(f, o, s) = Named(f, o, s)
         /\ Promise!Summed(f, o, s) = Summed(f, o, s)
<1>1. ASSUME NEW t PROVE Promise!Patch(f, o + 31, t) = Patch(f, o + 31, t)
  BY DEF Patch, Promise!Patch
<1>2. Promise!Patch(f, o, s) = Patch(f, o, s)
  BY DEF Patch, Promise!Patch
<1>3. ASSUME NEW t PROVE Promise!Holds(f, o, t) <=> Holds(f, o, t)
  BY DEF Holds, Promise!Holds
<1>4. Promise!Named(f, o, s) = Named(f, o, s)
  BY <1>2, <1>3 DEF Named, Promise!Named
<1>5. Promise!Summed(f, o, s) = Summed(f, o, s)
  BY <1>1, SameHeader DEF Summed, Promise!Summed
<1> QED
  BY <1>2, <1>3, <1>4, <1>5

LEMMA SameRepaired == ASSUME NEW f PROVE Promise!Repaired(f) = Repaired(f)
<1>1. Promise!UPX = UPX /\ Promise!UPX0 = UPX0 /\ Promise!UPX1 = UPX1
  BY DEF UPX, Promise!UPX, UPX0, Promise!UPX0, UPX1, Promise!UPX1
<1>2. Promise!WithMagic(f) = WithMagic(f)
  BY <1>1, SamePatch, SameLocated DEF WithMagic, Promise!WithMagic
<1>3. Promise!WithFirst(f) = WithFirst(f)
  BY <1>1, <1>2, SamePatch, SameFields DEF WithFirst, Promise!WithFirst
<1>4. Promise!WithNames(f) = WithNames(f)
  BY <1>1, <1>3, SamePatch, SameFields DEF WithNames, Promise!WithNames
<1> QED
  BY <1>4, SamePatch, SameLocated, SameHeader DEF Repaired, Promise!Repaired

LEMMA SameTamperings ==
  ASSUME NEW f, NEW o PROVE Promise!Tamperings(f, o) = Tamperings(f, o)
BY SamePatch, SameFields DEF Tamperings, Promise!Tamperings

(***************************************************************************)
(* The scan implements the one step of UpxPePromise: only its last step    *)
(* writes the result, and it refuses exactly what is not repairable.       *)
(***************************************************************************)
THEOREM PeScanImplementsPromise == Spec => ImplementsPromise
<1> DEFINE Status == CASE pc = "exit 0"    -> "done"
                       [] pc = "refused"   -> "refused"
                       [] pc = "no memory" -> "failed"
                       [] OTHER            -> "ready"
           Result == IF pc = "exit 0" THEN {buffer} ELSE {}
<1>1. Init => Promise!Init
  BY DEF Init, Promise!Init
<1>2. Inv /\ Inv' /\ [Next]_vars => [Promise!Next]_(Promise!promiseVars)
  <2> SUFFICES ASSUME Inv, Inv', [Next]_vars
               PROVE  [Promise!Next]_(Promise!promiseVars)
    OBVIOUS
  <2>1. CASE Tamper
    <3>1. Promise!Tamper
      BY <2>1, SameTamperings, SameLocated DEF Tamper, Promise!Tamper
    <3> QED
      BY <3>1 DEF Promise!Next
  <2>2. CASE Again
    <3>1. Promise!Again
      BY <2>2 DEF Again, Promise!Again
    <3> QED
      BY <3>1 DEF Promise!Next
  <2>3. CASE (Layout \/ Scan) /\ pc' = "refused"
    <3>1. pc \in {"layout", "scan"} /\ UNCHANGED <<genuine, tampers, sample>>
      BY <2>3 DEF Layout, Scan
    <3>2. ~Repairable(sample)
      BY <2>3, <3>1 DEF Inv, RefusedInv
    <3>3. Promise!Refuse
      BY <2>3, <3>1, <3>2, SameRepairable DEF Promise!Refuse
    <3> QED
      BY <3>3 DEF Promise!Next
  <2>4. CASE (Layout \/ Scan) /\ pc' = "no memory"
    <3>1. pc \in {"layout", "scan"} /\ UNCHANGED <<genuine, tampers, sample>>
      BY <2>4 DEF Layout, Scan
    <3>2. Promise!Refuse
      BY <2>4, <3>1 DEF Promise!Refuse
    <3> QED
      BY <3>2 DEF Promise!Next
  <2>5. CASE (Layout \/ Scan) /\ pc' \notin {"refused", "no memory"}
    <3>1. /\ pc \in {"layout", "scan"} /\ pc' \in {"scan", "magic"}
          /\ UNCHANGED <<genuine, tampers, sample>>
      BY <2>5 DEF Layout, Scan, ScanFrom, Refuse
    <3> QED
      BY <3>1 DEF Promise!promiseVars
  <2>6. CASE FixMagic \/ FixFirstName \/ FixSecondName
    <3>1. /\ pc \in {"magic", "first name", "second name"}
          /\ pc' \in {"first name", "second name", "checksum"}
          /\ UNCHANGED <<genuine, tampers, sample>>
      BY <2>6 DEF FixMagic, FixFirstName, FixSecondName, Write
    <3> QED
      BY <3>1 DEF Promise!promiseVars
  <2>7. CASE FixChecksum
    <3>1. pc = "checksum" /\ pc' = "exit 0" /\ UNCHANGED <<genuine, tampers, sample>>
      BY <2>7 DEF FixChecksum, Write
    <3>2. Repairable(sample) /\ buffer' = Repaired(sample)
      BY <3>1 DEF Inv, FoundInv, Writing, BufferInv, Repairable
    <3>3. Promise!Repair
      BY <3>1, <3>2, SameRepairable, SameRepaired DEF Promise!Repair
    <3> QED
      BY <3>3 DEF Promise!Next
  <2>8. CASE UNCHANGED vars
    BY <2>8 DEF vars, Promise!promiseVars
  <2> QED
    BY <2>1, <2>2, <2>3, <2>4, <2>5, <2>6, <2>7, <2>8 DEF Next
<1> QED
  BY <1>1, <1>2, SpecInv, PTL DEF Spec, ImplementsPromise, Promise!Spec

=============================================================================
