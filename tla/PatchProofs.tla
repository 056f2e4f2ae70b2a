----------------------------- MODULE PatchProofs -----------------------------
(***************************************************************************)
(* Proofs about patch mode, for every file, every list of patches and      *)
(* every width of size_t: no patch leaves the buffer, a request is refused *)
(* exactly when two patches share a byte, and the file a successful run    *)
(* writes holds every patch.                                               *)
(***************************************************************************)
EXTENDS PatchMode, TLAPS

\* A patch that passed the bounds test ends inside the file, without wrapping.
LEMMA FitsMeansInside ==
  ASSUME NEW p \in Requests, NEW n \in 0..SizeMax, Fits(p, n)
  PROVE  /\ p.offset \in Nat /\ Len(p.bytes) \in Nat \ {0}
         /\ p.offset + Len(p.bytes) <= n
         /\ End(p) = p.offset + Len(p.bytes)
<1>1. p.offset \in 0..SizeMax /\ Len(p.bytes) \in 1..SizeMax
  BY RequestAssumption
<1>2. p.offset <= n /\ Len(p.bytes) <= n - p.offset
  BY DEF Fits
<1>3. p.offset + Len(p.bytes) <= n /\ p.offset + Len(p.bytes) <= SizeMax
  BY <1>1, <1>2, SizeAssumption
<1> QED
  BY <1>1, <1>3 DEF End, Wrap

\* So patches_overlap is right: ranges overlap when a byte lies in both.
LEMMA OverlapMeansSharedByte ==
  ASSUME NEW p \in Requests, NEW q \in Requests, NEW n \in 0..SizeMax,
         Fits(p, n), Fits(q, n)
  PROVE  Overlap(p, q) <=> \E b \in 1..n : Covers(p, b) /\ Covers(q, b)
<1> DEFINE pe == p.offset + Len(p.bytes)
           qe == q.offset + Len(q.bytes)
<1>1. /\ p.offset \in Nat /\ Len(p.bytes) \in Nat \ {0} /\ pe <= n /\ End(p) = pe
      /\ q.offset \in Nat /\ Len(q.bytes) \in Nat \ {0} /\ qe <= n /\ End(q) = qe
      /\ n \in Nat
  BY FitsMeansInside, SizeAssumption
<1>2. ASSUME Overlap(p, q)
      PROVE  \E b \in 1..n : Covers(p, b) /\ Covers(q, b)
  <2> DEFINE b == IF p.offset <= q.offset THEN q.offset + 1 ELSE p.offset + 1
  <2>1. p.offset < qe /\ q.offset < pe
    BY <1>1, <1>2 DEF Overlap
  <2>2. b \in 1..n /\ Covers(p, b) /\ Covers(q, b)
    BY <1>1, <2>1 DEF Covers
  <2> QED
    BY <2>2
<1>3. ASSUME NEW b \in 1..n, Covers(p, b), Covers(q, b)
      PROVE  Overlap(p, q)
  BY <1>1, <1>3 DEF Covers, Overlap
<1> QED
  BY <1>2, <1>3

LEMMA PatchedIsFile ==
  ASSUME NEW f \in Seq(Byte), NEW p \in Requests, Fits(p, Len(f)), Len(f) <= SizeMax
  PROVE  /\ Patched(f, p) \in Seq(Byte) /\ Len(Patched(f, p)) = Len(f)
         /\ \A b \in 1..Len(f) :
              Patched(f, p)[b] =
                IF Covers(p, b) THEN p.bytes[b - p.offset] ELSE f[b]
<1>1. /\ p.offset \in Nat /\ p.bytes \in Seq(Byte) /\ Len(p.bytes) \in Nat
  BY RequestAssumption
<1>2. \A b \in 1..Len(f) : Covers(p, b) => b - p.offset \in 1..Len(p.bytes)
  BY <1>1 DEF Covers
<1>3. \A b \in 1..Len(f) :
        (IF Covers(p, b) THEN p.bytes[b - p.offset] ELSE f[b]) \in Byte
  BY <1>1, <1>2
<1>4. Patched(f, p) \in [1..Len(f) -> Byte]
  BY <1>3 DEF Patched
<1>5. Len(f) \in Nat
  OBVIOUS
<1>6. Patched(f, p) \in Seq(Byte) /\ Len(Patched(f, p)) = Len(f)
  BY <1>4, <1>5
<1> QED
  BY <1>6 DEF Patched

-----------------------------------------------------------------------------
Checked == pc \in {"overlap", "apply", "open", "write", "close", "exit 0"}
Allowed == pc \in {"apply", "open", "write", "close", "exit 0"}
Applied == pc \in {"open", "write", "close", "exit 0"}

BufferInv ==
  /\ pc \in {"bounds", "overlap"} => buffer = original
  /\ Allowed => Len(buffer) = Len(original)
  /\ pc \in {"close", "exit 0"} => disk[target] = {buffer}

FitInv ==
  /\ pc \in {"parse", "read"} => i = 1
  /\ pc # "parse" => Len(patches) >= 1
  /\ pc = "bounds" =>
       /\ i <= Len(patches) + 1
       /\ \A k \in 1..Len(patches) : k < i => Fits(patches[k], Len(original))
  /\ Checked => \A k \in 1..Len(patches) : Fits(patches[k], Len(original))

ConflictInv ==
  /\ pc = "overlap" =>
       /\ i < j
       /\ \A a, c \in 1..Len(patches) :
            a < i \/ (a = i /\ c < j) => ~Conflict(a, c)
  /\ RefusesExactlyConflicts

LandInv ==
  /\ pc = "apply" =>
       /\ i <= Len(patches) + 1
       /\ \A b \in 1..Len(original) : Landed(buffer, i - 1, b)
  /\ Applied => \A b \in 1..Len(original) : Landed(buffer, Len(patches), b)

Inv == TypeOK /\ BufferInv /\ FitInv /\ ConflictInv /\ LandInv
LEMMA InitInv == Init => Inv
<1> SUFFICES ASSUME Init PROVE Inv
  OBVIOUS
<1>1. PICK f \in Inputs : disk = [p \in Path |-> IF p = "in" THEN {f} ELSE {}]
  BY DEF Init
<1>2. f \in Seq(Byte) /\ Len(f) <= SizeMax
  BY InputAssumption
<1>3. TypeOK
  BY <1>1, <1>2, SizeAssumption DEF Init, TypeOK, PC, Path
<1> QED
  BY <1>3 DEF Init, Inv, BufferInv, FitInv, ConflictInv, LandInv, Checked, Allowed,
              Applied, RefusesExactlyConflicts

\* Writing one file, whole or torn, keeps the disk typed.
LEMMA DiskWrite ==
  ASSUME TypeOK, NEW f \in Seq(Byte), Len(f) <= SizeMax,
         disk' = [disk EXCEPT ![target] = {f}]
  PROVE  /\ disk' \in [Path -> SUBSET Seq(Byte)]
         /\ \A p \in Path : \A g, h \in disk'[p] : g = h
         /\ \A p \in Path : \A g \in disk'[p] : Len(g) <= SizeMax
         /\ disk'[target] = {f}
BY DEF TypeOK

LEMMA TornIsFile ==
  ASSUME NEW f \in Seq(Byte), Len(f) <= SizeMax, NEW g \in Torn(f)
  PROVE  g \in Seq(Byte) /\ Len(g) <= SizeMax
<1>1. PICK n \in 0..Len(f) : g = SubSeq(f, 1, n)
  BY DEF Torn
<1>2. Len(f) \in Nat /\ n \in Nat /\ n <= Len(f)
  OBVIOUS
<1>3. SubSeq(f, 1, n) \in Seq(Byte) /\ Len(SubSeq(f, 1, n)) = n
  BY <1>2
<1> QED
  BY <1>1, <1>2, <1>3, SizeAssumption

\* The steps that only look at the patches.
LEMMA AddPatchInv == Inv /\ (\E p \in Requests : AddPatch(p)) => Inv'
<1> SUFFICES ASSUME Inv, NEW p \in Requests, AddPatch(p) PROVE Inv'
  OBVIOUS
<1>1. patches' \in Seq(Requests) /\ Len(patches') <= MaxPatches
  <2>1. patches \in Seq(Requests) /\ Len(patches) < MaxPatches
        /\ patches' = Append(patches, p)
    BY DEF Inv, TypeOK, AddPatch
  <2>2. Len(patches') = Len(patches) + 1 /\ Len(patches) \in Nat
    BY <2>1
  <2> QED
    BY <2>1, <2>2, SizeAssumption
<1>2. TypeOK'
  BY <1>1 DEF Inv, TypeOK, AddPatch
<1>3. pc' = "parse" /\ i' = 1
  BY DEF Inv, FitInv, AddPatch
<1> QED
  BY <1>2, <1>3 DEF Inv, BufferInv, FitInv, ConflictInv, LandInv, Checked, Allowed,
                    Applied, RefusesExactlyConflicts

LEMMA ReadInv == Inv /\ (Begin \/ ReadFile \/ Repeat) => Inv'
<1> SUFFICES ASSUME Inv, Begin \/ ReadFile \/ Repeat PROVE Inv'
  OBVIOUS
<1>1. CASE Begin
  <2>1. TypeOK'
    BY <1>1 DEF Inv, TypeOK, Begin, PC
  <2> QED
    BY <1>1, <2>1 DEF Inv, Begin, BufferInv, FitInv, ConflictInv, LandInv, Checked,
                      Allowed, Applied, RefusesExactlyConflicts
<1>2. CASE ReadFile
  <2>1. i = 1 /\ i' = 1 /\ patches' = patches /\ Len(patches) >= 1
    BY <1>2 DEF Inv, FitInv, ReadFile
  <2>2. CASE /\ buffer' \in disk["in"] /\ original' = buffer' /\ pc' = "bounds"
    <3>1. buffer' \in Seq(Byte) /\ Len(buffer') <= SizeMax
      BY <2>2 DEF Inv, TypeOK, Path
    <3>2. TypeOK'
      BY <1>2, <2>2, <3>1 DEF Inv, TypeOK, ReadFile, PC
    <3>3. 1 <= Len(patches) + 1 /\ \A k \in 1..Len(patches) : ~(k < 1)
      BY DEF Inv, TypeOK
    <3>4. FitInv'
      BY <2>1, <2>2, <3>3 DEF FitInv, Checked
    <3> QED
      BY <2>2, <3>2, <3>4 DEF Inv, BufferInv, ConflictInv, LandInv, Allowed, Applied,
                              RefusesExactlyConflicts
  <2>3. CASE UNCHANGED <<original, buffer>> /\ pc' = "I/O error"
    <3>1. TypeOK'
      BY <1>2, <2>3 DEF Inv, TypeOK, ReadFile, PC
    <3> QED
      BY <2>1, <2>3, <3>1 DEF Inv, BufferInv, FitInv, ConflictInv, LandInv, Checked,
                        Allowed, Applied, RefusesExactlyConflicts
  <2> QED
    BY <1>2, <2>2, <2>3 DEF ReadFile
<1>3. CASE Repeat
  <2>1. /\ original' \in Seq(Byte) /\ Len(original') <= SizeMax
        /\ buffer' \in Seq(Byte)
        /\ i' \in 1..(MaxPatches + 1) /\ j' \in 1..(MaxPatches + 1)
    BY <1>3, SizeAssumption DEF Repeat
  <2>2. TypeOK'
    BY <1>3, <2>1 DEF Inv, TypeOK, Repeat, PC
  <2>3. pc' = "read" /\ i' = 1 /\ Len(patches') >= 1
    BY <1>3 DEF Inv, FitInv, Repeat, Ended
  <2> QED
    BY <2>2, <2>3 DEF Inv, BufferInv, FitInv, ConflictInv, LandInv, Checked, Allowed,
                      Applied, RefusesExactlyConflicts
<1> QED
  BY <1>1, <1>2, <1>3
LEMMA CheckBoundsInv == Inv /\ CheckBounds => Inv'
<1> SUFFICES ASSUME Inv, CheckBounds PROVE Inv'
  OBVIOUS
<1>1. /\ pc = "bounds" /\ buffer = original
      /\ UNCHANGED <<disk, target, patches, original, buffer>>
      /\ i <= Len(patches) + 1 /\ Len(patches) >= 1
      /\ \A k \in 1..Len(patches) : k < i => Fits(patches[k], Len(original))
  BY DEF Inv, CheckBounds, BufferInv, FitInv
<1>0. /\ i \in Nat \ {0} /\ j \in 1..(MaxPatches + 1)
      /\ Len(patches) \in Nat /\ Len(patches) <= MaxPatches
  <2>1. i \in 1..(MaxPatches + 1) /\ j \in 1..(MaxPatches + 1)
        /\ patches \in Seq(Requests) /\ Len(patches) <= MaxPatches
    BY DEF Inv, TypeOK
  <2> QED
    BY <2>1, SizeAssumption
<1>2. CASE i <= Len(patches) /\ Fits(patches[i], Size) /\ i' = i + 1 /\ UNCHANGED <<pc, j>>
  <2>1. i' \in 1..(MaxPatches + 1)
    BY <1>0, <1>2, SizeAssumption
  <2>2. TypeOK'
    BY <1>1, <1>0, <1>2, <2>1 DEF Inv, TypeOK
  <2>3. \A k \in 1..Len(patches) : k < i + 1 => Fits(patches[k], Len(original))
    <3>1. \A k \in 1..Len(patches) : k < i + 1 => k < i \/ k = i
      BY <1>0
    <3> QED
      BY <3>1, <1>1, <1>2 DEF Size
  <2>4. FitInv'
    BY <1>1, <1>0, <1>2, <2>3 DEF FitInv, Checked
  <2> QED
    BY <1>1, <1>2, <2>2, <2>4 DEF Inv, BufferInv, ConflictInv, LandInv, Allowed,
                                  Applied, RefusesExactlyConflicts
<1>3. CASE pc' = "bad bounds" /\ UNCHANGED <<i, j>>
  <2>1. TypeOK'
    BY <1>1, <1>3 DEF Inv, TypeOK, PC
  <2> QED
    BY <1>1, <1>3, <2>1 DEF Inv, BufferInv, FitInv, ConflictInv, LandInv, Checked, Allowed,
                      Applied, RefusesExactlyConflicts
<1>4. CASE i > Len(patches) /\ pc' = "overlap" /\ i' = 1 /\ j' = 2
  <2>1. 1 \in 1..(MaxPatches + 1) /\ 2 \in 1..(MaxPatches + 1)
    BY <1>1, <1>0, SizeAssumption
  <2>2. TypeOK'
    BY <1>1, <1>4, <2>1 DEF Inv, TypeOK, PC
  <2>3. \A k \in 1..Len(patches) : Fits(patches[k], Len(original))
    BY <1>1, <1>0, <1>4
  <2>4. FitInv'
    BY <1>1, <1>4, <2>3 DEF FitInv, Checked
  <2>5. ConflictInv'
    <3>1. \A a, c \in 1..Len(patches) : ~(a < 1) /\ (a = 1 /\ c < 2 => ~(a < c))
      BY <1>0
    <3> QED
      BY <1>1, <1>4, <3>1 DEF ConflictInv, RefusesExactlyConflicts, Conflict
  <2> QED
    BY <1>1, <1>4, <2>2, <2>4, <2>5 DEF Inv, BufferInv, LandInv, Allowed, Applied
<1> QED
  BY <1>1, <1>2, <1>3, <1>4 DEF CheckBounds
\* The indices and the list are numbers the prover can count with.
LEMMA Counting ==
  ASSUME TypeOK
  PROVE  /\ i \in Nat \ {0} /\ j \in Nat \ {0}
         /\ i <= MaxPatches + 1 /\ j <= MaxPatches + 1
         /\ Len(patches) \in Nat /\ Len(patches) <= MaxPatches
         /\ Len(original) \in 0..SizeMax
<1>1. /\ i \in 1..(MaxPatches + 1) /\ j \in 1..(MaxPatches + 1)
      /\ patches \in Seq(Requests) /\ Len(patches) <= MaxPatches
      /\ original \in Seq(Byte) /\ Len(original) <= SizeMax
  BY DEF TypeOK
<1> QED
  BY <1>1, SizeAssumption

LEMMA CheckOverlapInv == Inv /\ CheckOverlap => Inv'
<1> SUFFICES ASSUME Inv, CheckOverlap PROVE Inv'
  OBVIOUS
<1>1. /\ pc = "overlap" /\ buffer = original /\ i < j
      /\ UNCHANGED <<disk, target, patches, original, buffer>>
      /\ Len(patches) >= 1
      /\ \A k \in 1..Len(patches) : Fits(patches[k], Len(original))
      /\ \A a, c \in 1..Len(patches) : a < i \/ (a = i /\ c < j) => ~Conflict(a, c)
  BY DEF Inv, CheckOverlap, BufferInv, FitInv, ConflictInv, Checked
<1>2. /\ i \in Nat \ {0} /\ j \in Nat \ {0} /\ j <= MaxPatches + 1
      /\ Len(patches) \in Nat /\ Len(patches) <= MaxPatches
      /\ Len(original) \in 0..SizeMax
  BY Counting DEF Inv
<1>3. i <= Len(patches) /\ j <= Len(patches) =>
        (Overlap(patches[i], patches[j]) <=> Conflict(i, j))
  <2> SUFFICES ASSUME i <= Len(patches), j <= Len(patches)
               PROVE  Overlap(patches[i], patches[j]) <=> Conflict(i, j)
    OBVIOUS
  <2>1. i \in 1..Len(patches) /\ j \in 1..Len(patches)
    BY <1>2
  <2>2. patches[i] \in Requests /\ patches[j] \in Requests
    BY <2>1 DEF Inv, TypeOK
  <2> QED
    BY <1>1, <1>2, <2>1, <2>2, OverlapMeansSharedByte DEF Conflict
<1>4. \A a, c : Conflict(a, c)' <=> Conflict(a, c)
  BY <1>1 DEF Conflict
<1>5. CASE /\ i <= Len(patches) /\ j <= Len(patches)
           /\ ~Overlap(patches[i], patches[j])
           /\ j' = j + 1 /\ UNCHANGED <<pc, i>>
  <2>1. j' \in 1..(MaxPatches + 1)
    BY <1>2, <1>5, SizeAssumption
  <2>2. TypeOK'
    BY <1>1, <1>5, <2>1 DEF Inv, TypeOK
  <2>3. \A a, c \in 1..Len(patches) : a < i \/ (a = i /\ c < j + 1) => ~Conflict(a, c)
    <3>1. \A c \in 1..Len(patches) : c < j + 1 => c < j \/ c = j
      BY <1>2
    <3> QED
      BY <3>1, <1>1, <1>3, <1>5
  <2>4. i < j + 1
    BY <1>1, <1>2
  <2>5. ConflictInv'
    BY <1>1, <1>4, <1>5, <2>3, <2>4 DEF ConflictInv, RefusesExactlyConflicts
  <2> QED
    BY <1>1, <1>5, <2>2, <2>5 DEF Inv, BufferInv, FitInv, LandInv, Checked, Allowed,
                                  Applied
<1>6. CASE /\ i <= Len(patches) /\ j <= Len(patches)
           /\ Overlap(patches[i], patches[j])
           /\ pc' = "bad overlap" /\ UNCHANGED <<i, j>>
  <2>1. TypeOK'
    BY <1>1, <1>6 DEF Inv, TypeOK, PC
  <2>2. i \in 1..Len(patches) /\ j \in 1..Len(patches)
    <3>1. i <= Len(patches) /\ j <= Len(patches)
      BY <1>6
    <3> QED
      BY <3>1, <1>2
  <2>3. Conflict(i, j)
    BY <1>3, <1>6
  <2>4. ConflictInv'
    BY <1>1, <1>4, <1>6, <2>2, <2>3 DEF ConflictInv, RefusesExactlyConflicts
  <2> QED
    BY <1>1, <1>6, <2>1, <2>4 DEF Inv, BufferInv, FitInv, LandInv, Checked, Allowed,
                                  Applied
<1>7. CASE /\ i < Len(patches) /\ j > Len(patches)
           /\ i' = i + 1 /\ j' = i + 2 /\ UNCHANGED pc
  <2>1. i' \in 1..(MaxPatches + 1) /\ j' \in 1..(MaxPatches + 1) /\ i' < j'
    BY <1>2, <1>7, SizeAssumption
  <2>2. TypeOK'
    BY <1>1, <1>7, <2>1 DEF Inv, TypeOK
  <2>3. \A a, c \in 1..Len(patches) :
          a < i + 1 \/ (a = i + 1 /\ c < i + 2) => ~Conflict(a, c)
    <3>1. \A a, c \in 1..Len(patches) :
            /\ c < j
            /\ a < i + 1 => a < i \/ a = i
            /\ a = i + 1 /\ c < i + 2 => ~(a < c)
      BY <1>2, <1>7
    <3> QED
      BY <3>1, <1>1 DEF Conflict
  <2>4. ConflictInv'
    BY <1>1, <1>4, <1>7, <2>1, <2>3 DEF ConflictInv, RefusesExactlyConflicts
  <2> QED
    BY <1>1, <1>7, <2>2, <2>4 DEF Inv, BufferInv, FitInv, LandInv, Checked, Allowed,
                                  Applied
<1>8. CASE /\ i >= Len(patches) /\ j > Len(patches)
           /\ pc' = "apply" /\ i' = 1 /\ j' = 1
  <2>1. 1 \in 1..(MaxPatches + 1) /\ 1 <= Len(patches) + 1 /\ 1 - 1 = 0
    BY <1>2, SizeAssumption
  <2>2. TypeOK'
    BY <1>1, <1>8, <2>1 DEF Inv, TypeOK, PC
  <2>3. \A a, c \in 1..Len(patches) : a < i \/ (a = i /\ c < j)
    BY <1>2, <1>8
  <2>4. ConflictInv'
    BY <1>1, <1>4, <1>8, <2>3 DEF ConflictInv, RefusesExactlyConflicts
  <2>5. \A b \in 1..Len(original) : Landed(buffer, 0, b)'
    BY <1>1 DEF Landed
  <2>6. LandInv'
    BY <1>1, <1>8, <2>1, <2>5 DEF LandInv, Applied
  <2> QED
    BY <1>1, <1>8, <2>2, <2>4, <2>6 DEF Inv, BufferInv, FitInv, Checked, Allowed
<1> QED
  BY <1>1, <1>5, <1>6, <1>7, <1>8 DEF CheckOverlap
LEMMA ApplyPatchInv == Inv /\ ApplyPatch => Inv'
<1> SUFFICES ASSUME Inv, ApplyPatch PROVE Inv'
  OBVIOUS
<1>1. /\ pc = "apply" /\ Len(buffer) = Len(original) /\ Len(patches) >= 1
      /\ UNCHANGED <<disk, target, patches, original, j>>
      /\ \A k \in 1..Len(patches) : Fits(patches[k], Len(original))
      /\ \A a, c \in 1..Len(patches) : ~Conflict(a, c)
      /\ i <= Len(patches) + 1
      /\ \A b \in 1..Len(original) : Landed(buffer, i - 1, b)
  BY DEF Inv, ApplyPatch, BufferInv, FitInv, ConflictInv, LandInv, Checked, Allowed,
         RefusesExactlyConflicts
<1>2. /\ i \in Nat \ {0} /\ Len(patches) \in Nat /\ Len(patches) <= MaxPatches
  BY Counting DEF Inv
<1>3. \A a, c : Conflict(a, c)' <=> Conflict(a, c)
  BY <1>1 DEF Conflict
<1>4. ConflictInv' /\ BufferInv' <=> Len(buffer') = Len(original)
  BY <1>1, <1>3 DEF ConflictInv, RefusesExactlyConflicts, BufferInv, Allowed, ApplyPatch
<1>5. CASE i <= Len(patches) /\ buffer' = Patched(buffer, patches[i])
           /\ i' = i + 1 /\ UNCHANGED pc
  <2> DEFINE p == patches[i]
  <2>1. i \in 1..Len(patches) /\ i' \in 1..(MaxPatches + 1)
    BY <1>2, <1>5, SizeAssumption
  <2>2. p \in Requests /\ buffer \in Seq(Byte) /\ Len(buffer) <= SizeMax
        /\ Fits(p, Len(buffer))
    BY <1>1, <2>1 DEF Inv, TypeOK
  <2>3. /\ buffer' \in Seq(Byte) /\ Len(buffer') = Len(buffer)
        /\ \A b \in 1..Len(buffer) :
             buffer'[b] = IF Covers(p, b) THEN p.bytes[b - p.offset] ELSE buffer[b]
    BY <1>5, <2>2, PatchedIsFile
  <2>4. TypeOK'
    BY <1>1, <1>5, <2>1, <2>3 DEF Inv, TypeOK
  <2>5. \A b \in 1..Len(original) : Landed(buffer', i, b)
    <3> SUFFICES ASSUME NEW b \in 1..Len(original) PROVE Landed(buffer', i, b)
      OBVIOUS
    <3>1. Landed(buffer, i - 1, b)
      BY <1>1
    <3>2. buffer'[b] = IF Covers(p, b) THEN p.bytes[b - p.offset] ELSE buffer[b]
      BY <1>1, <2>3
    <3>3. \A k \in 1..i : k = i \/ k \in 1..(i - 1)
      BY <1>2
    <3>4. \A k \in 1..(i - 1) : k \in 1..i /\ k \in 1..Len(patches) /\ k < i
      BY <1>2, <1>5
    <3>5. ASSUME NEW k \in 1..i, Covers(patches[k], b)
          PROVE  buffer'[b] = patches[k].bytes[b - patches[k].offset]
      <4>1. CASE k = i
        BY <3>2, <3>5, <4>1
      <4>2. CASE k \in 1..(i - 1)
        <5>1. ~Conflict(k, i) /\ k < i
          BY <1>1, <2>1, <3>4, <4>2
        <5>2. ~Covers(p, b)
          BY <3>5, <5>1 DEF Conflict
        <5> QED
          BY <3>1, <3>2, <3>5, <4>2, <5>2 DEF Landed
      <4> QED
        BY <3>3, <4>1, <4>2
    <3>6. ASSUME \A k \in 1..i : ~Covers(patches[k], b)
          PROVE  buffer'[b] = original[b]
      <4>1. i \in 1..i
        BY <1>2
      <4> QED
        BY <3>1, <3>2, <3>4, <3>6, <4>1 DEF Landed
    <3> QED
      BY <3>5, <3>6 DEF Landed
  <2>6. i + 1 <= Len(patches) + 1 /\ (i + 1) - 1 = i
    BY <1>2, <1>5
  <2>7. LandInv'
    BY <1>1, <1>5, <2>5, <2>6 DEF LandInv, Applied, Landed
  <2> QED
    BY <1>1, <1>4, <1>5, <2>3, <2>4, <2>7 DEF Inv, FitInv, Checked
<1>6. CASE i > Len(patches) /\ pc' = "open" /\ UNCHANGED <<buffer, i>>
  <2>1. TypeOK'
    BY <1>1, <1>6 DEF Inv, TypeOK, PC
  <2>2. i - 1 = Len(patches)
    BY <1>1, <1>2, <1>6
  <2>3. LandInv'
    BY <1>1, <1>6, <2>2 DEF LandInv, Applied, Landed
  <2> QED
    BY <1>1, <1>4, <1>6, <2>1, <2>3 DEF Inv, FitInv, Checked
<1> QED
  BY <1>5, <1>6 DEF ApplyPatch
\* write_file_bytes: whatever reaches the disk is the buffer or a piece of it.
LEMMA OutputInv == Inv /\ (OpenOutput \/ WriteOutput \/ CloseOutput \/ Crash) => Inv'
<1> SUFFICES ASSUME Inv, OpenOutput \/ WriteOutput \/ CloseOutput \/ Crash PROVE Inv'
  OBVIOUS
<1> DEFINE Writes(f) == disk' = [disk EXCEPT ![target] = {f}]
<1>1. /\ UNCHANGED <<target, patches, original, buffer, i, j>>
      /\ pc # "parse" /\ Len(patches) >= 1
  BY DEF Inv, FitInv, OpenOutput, WriteOutput, CloseOutput, Crash
<1>2. pc \in {"open", "write", "close"} => buffer \in Seq(Byte) /\ Len(buffer) <= SizeMax
  BY DEF Inv, TypeOK, BufferInv, Allowed
<1>3. \A a, c : Conflict(a, c)' <=> Conflict(a, c)
  BY <1>1 DEF Conflict
<1>4. CASE pc' \in {"I/O error", "crashed"}
  <2>1. UNCHANGED disk \/ \E f \in Seq(Byte) : Len(f) <= SizeMax /\ Writes(f)
    BY <1>2, <1>4, TornIsFile DEF OpenOutput, WriteOutput, CloseOutput, Crash
  <2>2. /\ disk' \in [Path -> SUBSET Seq(Byte)]
        /\ \A p \in Path : \A g, h \in disk'[p] : g = h
        /\ \A p \in Path : \A g \in disk'[p] : Len(g) <= SizeMax
    BY <2>1, DiskWrite DEF Inv, TypeOK
  <2>3. TypeOK'
    BY <1>1, <1>4, <2>2 DEF Inv, TypeOK, PC
  <2> QED
    BY <1>1, <1>4, <2>3 DEF Inv, BufferInv, FitInv, ConflictInv, LandInv, Checked,
                            Allowed, Applied, RefusesExactlyConflicts
<1>5. CASE /\ pc \in {"open", "write", "close"} /\ pc' \in {"write", "close", "exit 0"}
           /\ pc' \in {"close", "exit 0"} => disk'[target] = {buffer}
           /\ UNCHANGED disk \/ \E f \in Seq(Byte) : Len(f) <= SizeMax /\ Writes(f)
  <2>1. /\ disk' \in [Path -> SUBSET Seq(Byte)]
        /\ \A p \in Path : \A g, h \in disk'[p] : g = h
        /\ \A p \in Path : \A g \in disk'[p] : Len(g) <= SizeMax
    BY <1>5, DiskWrite DEF Inv, TypeOK
  <2>2. TypeOK'
    BY <1>1, <1>5, <2>1 DEF Inv, TypeOK, PC
  <2>3. ConflictInv'
    BY <1>1, <1>3, <1>5 DEF Inv, ConflictInv, RefusesExactlyConflicts
  <2>4. LandInv'
    BY <1>1, <1>5 DEF Inv, LandInv, Applied, Landed
  <2>5. FitInv'
    BY <1>1, <1>5 DEF Inv, FitInv, Checked
  <2> QED
    BY <1>1, <1>5, <2>2, <2>3, <2>4, <2>5 DEF Inv, BufferInv, Allowed
<1>6. CASE OpenOutput /\ pc' = "write"
  <2>1. Len(<<>>) <= SizeMax /\ <<>> \in Seq(Byte)
    BY SizeAssumption
  <2> QED
    BY <1>5, <1>6, <2>1 DEF OpenOutput
<1>7. CASE WriteOutput /\ pc' = "close"
  <2>1. disk'[target] = {buffer} /\ pc = "write" /\ Writes(buffer)
    BY <1>7 DEF WriteOutput, Inv, TypeOK
  <2> QED
    BY <1>2, <1>5, <1>7, <2>1
<1>8. CASE CloseOutput /\ pc' = "exit 0"
  <2>1. pc = "close" /\ UNCHANGED disk /\ disk[target] = {buffer}
    BY <1>8 DEF CloseOutput, Inv, BufferInv
  <2> QED
    BY <1>1, <1>5, <1>8, <2>1
<1> QED
  BY <1>4, <1>6, <1>7, <1>8 DEF OpenOutput, WriteOutput, CloseOutput, Crash

LEMMA NextInv == Inv /\ [Next]_vars => Inv'
<1>1. Inv /\ UNCHANGED vars => Inv'
  <2> SUFFICES ASSUME Inv, UNCHANGED vars PROVE Inv'
    OBVIOUS
  <2>1. \A a, c : Conflict(a, c)' <=> Conflict(a, c)
    BY DEF vars, Conflict
  <2>2. TypeOK' /\ BufferInv' /\ FitInv'
    BY DEF vars, Inv, TypeOK, BufferInv, FitInv, Checked, Allowed
  <2>3. ConflictInv'
    BY <2>1 DEF vars, Inv, ConflictInv, RefusesExactlyConflicts
  <2>4. LandInv'
    BY DEF vars, Inv, LandInv, Applied, Landed
  <2> QED
    BY <2>2, <2>3, <2>4 DEF Inv
<1> QED
  BY <1>1, AddPatchInv, ReadInv, CheckBoundsInv, CheckOverlapInv, ApplyPatchInv,
     OutputInv DEF Next

-----------------------------------------------------------------------------
(***************************************************************************)
(* The state of patch mode keeps its type: the loop indices stay within    *)
(* the queue, and no file grows beyond SIZE_MAX, for every width of it.    *)
(***************************************************************************)
THEOREM TypeCorrect == Spec => []TypeOK
<1>1. Inv => TypeOK
  BY DEF Inv
<1> QED
  BY InitInv, NextInv, <1>1, PTL DEF Spec

(***************************************************************************)
(* memcpy stays inside the buffer, whatever the offsets, the file and the  *)
(* width of size_t are.                                                    *)
(***************************************************************************)
THEOREM PatchesFit == Spec => []EveryPatchFits
<1>1. Inv => EveryPatchFits
  <2> SUFFICES ASSUME Inv, pc = "apply", NEW k \in i..Len(patches)
               PROVE  patches[k].offset + Len(patches[k].bytes) <= Len(buffer)
    BY DEF EveryPatchFits
  <2>1. k \in 1..Len(patches)
    BY Counting DEF Inv
  <2>2. Fits(patches[k], Len(original)) /\ Len(buffer) = Len(original)
    BY <2>1 DEF Inv, FitInv, BufferInv, Checked, Allowed
  <2>3. patches[k] \in Requests /\ Len(original) \in 0..SizeMax
    BY <2>1, Counting DEF Inv, TypeOK
  <2> QED
    BY <2>2, <2>3, FitsMeansInside
<1> QED
  BY InitInv, NextInv, <1>1, PTL DEF Spec

(***************************************************************************)
(* The overlap test refuses a request exactly when it is ambiguous.        *)
(***************************************************************************)
THEOREM ConflictsAreRefused == Spec => []RefusesExactlyConflicts
<1>1. Inv => RefusesExactlyConflicts
  BY DEF Inv, ConflictInv
<1> QED
  BY InitInv, NextInv, <1>1, PTL DEF Spec

(***************************************************************************)
(* The file of a successful run is the input with every patch in place and *)
(* nothing else changed, in whatever order the patches were given.         *)
(***************************************************************************)
THEOREM PatchesLand == Spec => []EveryPatchLands
<1>1. Inv => EveryPatchLands
  BY DEF Inv, EveryPatchLands, LandInv, BufferInv, Applied, Allowed
<1> QED
  BY InitInv, NextInv, <1>1, PTL DEF Spec
=============================================================================
