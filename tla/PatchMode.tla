------------------------------ MODULE PatchMode ------------------------------
(***************************************************************************)
(* `binsight --patch OFFSET:HEX ... --patch-out OUT IN`: add_byte_patch    *)
(* and apply_byte_patches of src/binsight.c, one action per loop           *)
(* iteration, with the failures of reading and writing and with a crash    *)
(* anywhere.  A byte of a file is at position offset + 1 of a sequence.    *)
(***************************************************************************)
EXTENDS Integers, Sequences

CONSTANTS
  Byte,          \* the values of a byte
  SizeMax,       \* SIZE_MAX; a size_t sum beyond it wraps around
  Inputs,        \* the files the user may want to patch
  Requests,      \* the arguments of --patch: an offset and non-empty bytes
  MaxPatches     \* bound: how many --patch arguments are given

ASSUME SizeAssumption   == SizeMax \in Nat /\ MaxPatches \in Nat
ASSUME InputAssumption  == Inputs \subseteq {f \in Seq(Byte) : Len(f) <= SizeMax}
ASSUME RequestAssumption ==
  Requests \subseteq {p \in [offset : 0..SizeMax, bytes : Seq(Byte)] :
                        Len(p.bytes) \in 1..SizeMax}

Path == {"in", "out"}

VARIABLES
  disk,      \* per path: the file there, or nothing
  pc,        \* where the run is
  target,    \* the path given to --patch-out; it may be the input itself
  patches,   \* the queued patches, in command-line order
  original,  \* the file as the current run read it
  buffer,    \* the file image in memory
  i, j       \* the loop indices

vars == <<disk, pc, target, patches, original, buffer, i, j>>

PC == {"parse", "read", "bounds", "overlap", "apply", "open", "write", "close",
       "exit 0", "bad bounds", "bad overlap", "I/O error", "crashed"}

Size == Len(buffer)

TypeOK ==
  /\ disk \in [Path -> SUBSET Seq(Byte)]
  /\ \A p \in Path : \A f, g \in disk[p] : f = g
  /\ \A p \in Path : \A f \in disk[p] : Len(f) <= SizeMax
  /\ pc \in PC
  /\ target \in Path
  /\ patches \in Seq(Requests) /\ Len(patches) <= MaxPatches
  /\ original \in Seq(Byte) /\ Len(original) <= SizeMax
  /\ buffer \in Seq(Byte)
  /\ i \in 1..(MaxPatches + 1) /\ j \in 1..(MaxPatches + 1)

Init ==
  /\ \E f \in Inputs : disk = [p \in Path |-> IF p = "in" THEN {f} ELSE {}]
  /\ pc = "parse"
  /\ target \in Path
  /\ patches = <<>>
  /\ original = <<>> /\ buffer = <<>>
  /\ i = 1 /\ j = 1

-----------------------------------------------------------------------------
\* add_byte_patch: the queue keeps the order of the command line.
AddPatch(p) ==
  /\ pc = "parse"
  /\ Len(patches) < MaxPatches
  /\ patches' = Append(patches, p)
  /\ UNCHANGED <<disk, pc, target, original, buffer, i, j>>

\* parse_options accepts the command line and main calls apply_byte_patches.
Begin ==
  /\ pc = "parse"
  /\ patches # <<>>
  /\ pc' = "read"
  /\ UNCHANGED <<disk, target, patches, original, buffer, i, j>>

\* read_file_bytes: an empty file is read, a missing or unreadable one is not.
ReadFile ==
  /\ pc = "read"
  /\ \/ /\ buffer' \in disk["in"]
        /\ original' = buffer'
        /\ pc' = "bounds"
     \/ UNCHANGED <<original, buffer>> /\ pc' = "I/O error"
  /\ UNCHANGED <<disk, target, patches, i, j>>

\* A bug: one test of the sum, which may wrap around.
FitsBySum(p, size) == (p.offset + Len(p.bytes)) % (SizeMax + 1) <= size

\* The two tests are made in this order, so the subtraction cannot wrap.
Fits(p, size) == p.offset <= size /\ Len(p.bytes) <= size - p.offset

CheckBounds ==
  /\ pc = "bounds"
  /\ \/ /\ i <= Len(patches) /\ Fits(patches[i], Size)
        /\ i' = i + 1
        /\ UNCHANGED <<pc, j>>
     \/ /\ i <= Len(patches) /\ ~Fits(patches[i], Size)
        /\ pc' = "bad bounds"
        /\ UNCHANGED <<i, j>>
     \/ /\ i > Len(patches)
        /\ pc' = "overlap" /\ i' = 1 /\ j' = 2
  /\ UNCHANGED <<disk, target, patches, original, buffer>>

\* patches_overlap, on half-open ranges whose ends are size_t sums.
Wrap(n) == IF n <= SizeMax THEN n ELSE n - (SizeMax + 1)

End(p) == Wrap(p.offset + Len(p.bytes))

\* Two bugs: touching ranges overlap, or only a later start is looked for.
OverlapOrTouch(left, right) ==
  left.offset <= End(right) /\ right.offset <= End(left)
OverlapFromLeft(left, right) ==
  left.offset < right.offset /\ right.offset < End(left)

Overlap(left, right) == left.offset < End(right) /\ right.offset < End(left)

\* A bug: the inner loop starts one patch too late.
CheckOverlapLate ==
  /\ pc = "overlap"
  /\ \/ j <= Len(patches) /\ j' = j + 1 /\ UNCHANGED <<pc, i>>
     \/ i < Len(patches) /\ j > Len(patches) /\ i' = i + 1 /\ j' = i + 3 /\ UNCHANGED pc
  /\ UNCHANGED <<disk, target, patches, original, buffer>>

CheckOverlap ==
  /\ pc = "overlap"
  /\ \/ /\ i <= Len(patches) /\ j <= Len(patches)
        /\ ~Overlap(patches[i], patches[j])
        /\ j' = j + 1
        /\ UNCHANGED <<pc, i>>
     \/ /\ i <= Len(patches) /\ j <= Len(patches)
        /\ Overlap(patches[i], patches[j])
        /\ pc' = "bad overlap"
        /\ UNCHANGED <<i, j>>
     \/ /\ i < Len(patches) /\ j > Len(patches)
        /\ i' = i + 1 /\ j' = i + 2
        /\ UNCHANGED pc
     \/ /\ i >= Len(patches) /\ j > Len(patches)
        /\ pc' = "apply" /\ i' = 1 /\ j' = 1
  /\ UNCHANGED <<disk, target, patches, original, buffer>>

Covers(p, b) == p.offset < b /\ b <= p.offset + Len(p.bytes)

\* memcpy of one patch into the buffer.
Patched(f, p) ==
  [b \in 1..Len(f) |-> IF Covers(p, b) THEN p.bytes[b - p.offset] ELSE f[b]]

ApplyPatch ==
  /\ pc = "apply"
  /\ \/ /\ i <= Len(patches)
        /\ buffer' = Patched(buffer, patches[i])
        /\ i' = i + 1
        /\ UNCHANGED pc
     \/ /\ i > Len(patches)
        /\ pc' = "open"
        /\ UNCHANGED <<buffer, i>>
  /\ UNCHANGED <<disk, target, patches, original, j>>

\* write_file_bytes: fopen(path, "wb") truncates, a short write leaves a prefix.
OpenOutput ==
  /\ pc = "open"
  /\ \/ disk' = [disk EXCEPT ![target] = {<<>>}] /\ pc' = "write"
     \/ UNCHANGED disk /\ pc' = "I/O error"
  /\ UNCHANGED <<target, patches, original, buffer, i, j>>

Torn(f) == {SubSeq(f, 1, n) : n \in 0..Len(f)}

WriteOutput ==
  /\ pc = "write"
  /\ \/ disk' = [disk EXCEPT ![target] = {buffer}] /\ pc' = "close"
     \/ /\ \E f \in Torn(buffer) : disk' = [disk EXCEPT ![target] = {f}]
        /\ pc' = "I/O error"
  /\ UNCHANGED <<target, patches, original, buffer, i, j>>

CloseOutput ==
  /\ pc = "close"
  /\ \/ pc' = "exit 0" /\ UNCHANGED disk
     \/ /\ \E f \in Torn(buffer) : disk' = [disk EXCEPT ![target] = {f}]
        /\ pc' = "I/O error"
  /\ UNCHANGED <<target, patches, original, buffer, i, j>>

Ended == pc \in {"exit 0", "bad bounds", "bad overlap", "I/O error", "crashed"}

Crash ==
  /\ pc # "parse" /\ ~Ended
  /\ pc' = "crashed"
  /\ \/ UNCHANGED disk
     \/ /\ pc \in {"write", "close"}
        /\ \E f \in Torn(buffer) : disk' = [disk EXCEPT ![target] = {f}]
  /\ UNCHANGED <<target, patches, original, buffer, i, j>>

\* The user repeats the command, on whatever the input path now holds.
Repeat ==
  /\ Ended
  /\ pc' = "read"
  /\ i' = 1 /\ j' = 1
  /\ original' = <<>> /\ buffer' = <<>>
  /\ UNCHANGED <<disk, target, patches>>

Next ==
  \/ \E p \in Requests : AddPatch(p)
  \/ Begin \/ ReadFile \/ CheckBounds \/ CheckOverlap \/ ApplyPatch
  \/ OpenOutput \/ WriteOutput \/ CloseOutput \/ Crash \/ Repeat

Spec == Init /\ [][Next]_vars

-----------------------------------------------------------------------------
\* Patches number a and c write the same byte of the file.
Conflict(a, c) ==
  a < c /\ \E b \in 1..Len(original) : Covers(patches[a], b) /\ Covers(patches[c], b)

(***************************************************************************)
(* memcpy never leaves the buffer: a patch that is about to be applied     *)
(* ends inside it, in unbounded arithmetic, whatever its offset was.       *)
(***************************************************************************)
EveryPatchFits ==
  pc = "apply" =>
    \A k \in i..Len(patches) :
      patches[k].offset + Len(patches[k].bytes) <= Len(buffer)

(***************************************************************************)
(* The request is refused as ambiguous exactly when two patches share a    *)
(* byte of the file; patches that only touch are fine (the comment of      *)
(* patches_overlap), and size_t arithmetic never hides a shared byte.      *)
(***************************************************************************)
RefusesExactlyConflicts ==
  /\ pc = "bad overlap" =>
       \E a, c \in 1..Len(patches) : Conflict(a, c)
  /\ pc \in {"apply", "open", "write", "close", "exit 0"} =>
       \A a, c \in 1..Len(patches) : ~Conflict(a, c)

(***************************************************************************)
(* Byte b of f is what the first n patches make of it: each of them that   *)
(* covers b has its byte there, so none has been silently overwritten.     *)
(***************************************************************************)
Landed(f, n, b) ==
  /\ \A k \in 1..n :
       Covers(patches[k], b) => f[b] = patches[k].bytes[b - patches[k].offset]
  /\ (\A k \in 1..n : ~Covers(patches[k], b)) => f[b] = original[b]

(***************************************************************************)
(* A run that exits 0 has written the input with every patch in place and  *)
(* no other byte changed, so the order of the --patch arguments does not   *)
(* matter, and neither do earlier runs that failed or crashed.             *)
(***************************************************************************)
EveryPatchLands ==
  pc = "exit 0" =>
    \E f \in disk[target] :
      /\ Len(f) = Len(original)
      /\ \A b \in 1..Len(f) : Landed(f, Len(patches), b)

(***************************************************************************)
(* src/binsight.c:6069 "Patch mode always writes a separate output file;   *)
(* the input stays untouched".                                             *)
(***************************************************************************)
InputUntouched == [][disk'["in"] = disk["in"]]_vars
=============================================================================
