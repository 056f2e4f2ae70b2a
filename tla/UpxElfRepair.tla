---------------------------- MODULE UpxElfRepair ----------------------------
(***************************************************************************)
(* `binsight --repair-upx` on an ELF sample: repair_upx_file of            *)
(* src/upx_repair.c, from reading the sample to closing the output, with   *)
(* the failures of every step, a crash anywhere, and later runs on what an *)
(* earlier run left behind.  The output path may be the input path.        *)
(*                                                                         *)
(* The environment first writes one genuine packed file and then tampers   *)
(* with it in the ways the README describes.                               *)
(***************************************************************************)
EXTENDS UpxElf, FiniteSets

CONSTANTS
  Packed,        \* the files a packer may have written
  Junk,          \* what may be appended behind a packed file
  MaxTampers,    \* bound: how often the sample is tampered with
  MaxRuns        \* bound: how many runs the user starts

(***************************************************************************)
(* What UPX writes: its header is the last thing in the file, agrees with  *)
(* l_info where the file has one, and no earlier bytes read as a header.   *)
(***************************************************************************)
IsPacked(f) ==
  LET last == Len(f.slots)
  IN  /\ f.elfMagic /\ f.ident /\ f.tables
      /\ last # 0
      /\ DecodesIn(f.slots[last], FileSize(f))
      /\ \A k \in 1..(last - 1) : f.slots[k].whole /\ ~PlausibleHeader(f.slots[k])
      /\ HasInline(f) => HealthyInline(f) /\ MatchesInline(f, last)
      /\ HasInline(f) /\ ~MajorIs(f, 4) => f.psize = f.slots[last].usize

ASSUME PackedAssumption  == Packed \subseteq {f \in ElfFile : IsPacked(f)}

\* A tail that is a valid header itself cannot be told from the packer's own.
ASSUME JunkAssumption    == Junk \subseteq {h \in Header : ~PlausibleHeader(h)}

ASSUME BoundsAssumption  == MaxTampers \in Nat /\ MaxRuns \in Nat

Path == {"sample", "copy"}

VARIABLES
  genuine,   \* the file the packer wrote
  tampers,   \* how often it has been tampered with
  disk,      \* per path: the file there, or nothing (missing or empty)
  runs,      \* how many runs have been started
  pc,        \* where the current run is
  src, dst,  \* its input and output path
  buffer,    \* the file image it holds in memory, if any
  loaded,    \* the file it read, if any
  fixes      \* the fixes in its summary

vars == <<genuine, tampers, disk, runs, pc, src, dst, buffer, loaded, fixes>>

PC == {"idle", "read", "repair", "open", "write", "close", "exit 0", "exit 1",
       "crashed"}

Running == pc \in {"read", "repair", "open", "write", "close"}

TypeOK ==
  /\ genuine \in Packed
  /\ tampers \in 0..MaxTampers
  /\ disk \in [Path -> SUBSET ElfFile]
  /\ \A p \in Path : \A f, g \in disk[p] : f = g
  /\ runs \in 0..MaxRuns
  /\ pc \in PC
  /\ src \in Path /\ dst \in Path
  /\ buffer \in SUBSET ElfFile
  /\ loaded \in SUBSET ElfFile
  /\ fixes \in SUBSET {"elf magic", "l_info magic", "pack magic", "p_info",
                       "overlay"}

Init ==
  /\ genuine \in Packed
  /\ tampers = 0
  /\ disk = [p \in Path |-> IF p = "sample" THEN {genuine} ELSE {}]
  /\ runs = 0
  /\ pc = "idle"
  /\ src = "sample" /\ dst = "copy"
  /\ buffer = {} /\ loaded = {} /\ fixes = {}

-----------------------------------------------------------------------------
(***************************************************************************)
(* Tampering, before the first run.  The packer's header is the last slot  *)
(* of the genuine file.                                                    *)
(***************************************************************************)
HeaderSlot == Len(genuine.slots)

Tamperings(f) ==
  {[f EXCEPT !.elfMagic = FALSE], [f EXCEPT !.psize = 0], [f EXCEPT !.pblock = 0]}
  \cup {[f EXCEPT !.lmagic = m] : m \in Magics}
  \cup {[f EXCEPT !.slots[HeaderSlot].magic = m] : m \in Magics}
  \cup {[f EXCEPT !.slots = Append(@, h)] :
           h \in {h \in Junk : f.slots[Len(f.slots)].whole}}

Tamper ==
  /\ runs = 0
  /\ tampers < MaxTampers
  /\ \E f \in disk["sample"] : \E g \in Tamperings(f) :
       disk' = [disk EXCEPT !["sample"] = {g}]
  /\ tampers' = tampers + 1
  /\ UNCHANGED <<genuine, runs, pc, src, dst, buffer, loaded, fixes>>

-----------------------------------------------------------------------------
\* main: a run with the arguments --repair-upx q p.
Start(p, q) ==
  /\ ~Running
  /\ runs < MaxRuns
  /\ runs' = runs + 1
  /\ src' = p /\ dst' = q
  /\ pc' = "read"
  /\ buffer' = {} /\ loaded' = {} /\ fixes' = {}
  /\ UNCHANGED <<genuine, tampers, disk>>

Fail == pc' = "exit 1" /\ buffer' = {}

\* read_file and infer_elf_layout; a missing or empty file is an error.
ReadFile ==
  /\ pc = "read"
  /\ \/ /\ disk[src] # {}
        /\ buffer' = disk[src]
        /\ loaded' = disk[src]
        /\ pc' = "repair"
     \/ Fail /\ UNCHANGED loaded
  /\ UNCHANGED <<genuine, tampers, disk, runs, src, dst, fixes>>

\* A bug: the buffer is kept as it was when it cannot be trimmed.
RepairBufferUntrimmed ==
  /\ pc = "repair"
  /\ \E f \in buffer :
       /\ Repairable(f)
       /\ buffer' \in {{Repaired(f)}, {[Repaired(f) EXCEPT !.slots = f.slots]}}
       /\ fixes' = Fixes(f)
       /\ pc' = "open"
  /\ UNCHANGED <<genuine, tampers, disk, runs, src, dst, loaded>>

\* repair_upx_elf_buffer, where trimming the buffer may run out of memory.
RepairBuffer ==
  /\ pc = "repair"
  /\ \E f \in buffer :
       \/ /\ Repairable(f)
          /\ buffer' = {Repaired(f)}
          /\ fixes' = Fixes(f)
          /\ pc' = "open"
       \/ /\ ~Repairable(f) \/ Trims(f)
          /\ Fail
          /\ UNCHANGED fixes
  /\ UNCHANGED <<genuine, tampers, disk, runs, src, dst, loaded>>

\* write_file: fopen(path, "wb") truncates the output before a byte is written.
OpenOutput ==
  /\ pc = "open"
  /\ \/ disk' = [disk EXCEPT ![dst] = {}] /\ pc' = "write" /\ UNCHANGED buffer
     \/ UNCHANGED disk /\ Fail
  /\ UNCHANGED <<genuine, tampers, runs, src, dst, loaded, fixes>>

\* What a short write leaves: nothing, or the file up to one of its slots.
Torn(f) ==
  {{}} \cup {{[f EXCEPT !.slots = SubSeq(@, 1, n)]} : n \in 0..(Len(f.slots) - 1)}

WriteOutput ==
  /\ pc = "write"
  /\ \/ disk' = [disk EXCEPT ![dst] = buffer] /\ pc' = "close" /\ UNCHANGED buffer
     \/ /\ \E f \in buffer : \E t \in Torn(f) : disk' = [disk EXCEPT ![dst] = t]
        /\ Fail
  /\ UNCHANGED <<genuine, tampers, runs, src, dst, loaded, fixes>>

\* fclose: what stdio still held may not reach the file.
CloseOutput ==
  /\ pc = "close"
  /\ \/ pc' = "exit 0" /\ UNCHANGED <<disk, buffer>>
     \/ /\ \E f \in buffer : \E t \in Torn(f) \cup {{f}} :
             disk' = [disk EXCEPT ![dst] = t]
        /\ Fail
  /\ UNCHANGED <<genuine, tampers, runs, src, dst, loaded, fixes>>

\* The process dies; an output it has opened keeps whatever reached it.
Crash ==
  /\ Running
  /\ pc' = "crashed"
  /\ buffer' = {}
  /\ \/ UNCHANGED disk
     \/ /\ pc \in {"write", "close"}
        /\ \E f \in buffer : \E t \in Torn(f) \cup {{f}} :
             disk' = [disk EXCEPT ![dst] = t]
  /\ UNCHANGED <<genuine, tampers, runs, src, dst, loaded, fixes>>

Next ==
  \/ Tamper
  \/ \E p, q \in Path : Start(p, q)
  \/ ReadFile \/ RepairBuffer \/ OpenOutput \/ WriteOutput \/ CloseOutput
  \/ Crash

Spec == Init /\ [][Next]_vars

-----------------------------------------------------------------------------
Succeeded == pc = "exit 0"

(***************************************************************************)
(* What a run holds in memory, and what it has written once it has written *)
(* all of it, is the repair of the file it read, and so is its summary.    *)
(* This is what the proofs carry from step to step.                        *)
(***************************************************************************)
RepairsLoaded(images) ==
  \E l \in loaded : /\ loaded = {l} /\ Repairable(l)
                    /\ images = {Repaired(l)} /\ fixes = Fixes(l)

RunInv ==
  /\ runs = 0 => pc = "idle"
  /\ pc = "repair" => buffer = loaded /\ \E l \in loaded : loaded = {l}
  /\ pc \in {"open", "write", "close"} => RepairsLoaded(buffer)
  /\ pc \in {"close", "exit 0"} => RepairsLoaded(disk[dst])

(***************************************************************************)
(* A file that differs from the genuine one in nothing the repair promises *)
(* to restore.  Three things it does not promise: without inline metadata  *)
(* the l_info and p_info areas are left alone, a sample whose first        *)
(* release marker says UPX 4 keeps its p_info, even if that marker stands  *)
(* in an overlay, and a header found without the help of l_info keeps its  *)
(* tail.                                                                   *)
(***************************************************************************)
Restored(f, keepsTail, keepsPInfo) ==
  LET body == [f EXCEPT !.lmagic = UPX, !.psize = 0, !.pblock = 0, !.slots = <<>>]
      n    == Len(genuine.slots)
  IN  /\ body = [genuine EXCEPT !.lmagic = UPX, !.psize = 0, !.pblock = 0,
                                !.slots = <<>>]
      /\ HasInline(genuine) => f.lmagic = UPX
      /\ HasInline(genuine) /\ ~keepsPInfo
           => f.psize = genuine.psize /\ f.pblock = genuine.pblock
      /\ Len(f.slots) >= n /\ SubSeq(f.slots, 1, n) = genuine.slots
      /\ keepsTail \/ Len(f.slots) = n

(***************************************************************************)
(* Whatever mix of tampering the sample went through, and however many     *)
(* runs were cut short, failed half-way or overwrote their own input, a    *)
(* run that exits 0 has written the genuine file.                          *)
(***************************************************************************)
RestoresGenuine ==
  Succeeded =>
    \E f \in disk[dst], l \in loaded :
      Restored(f, IsGeneric(l), MajorIs(l, 4))

(***************************************************************************)
(* The samples the repair accepts are exactly these: the packer's header   *)
(* is found by its own magic when no later "UPX!" hides it or when the ELF *)
(* magic is gone, and by the l_info magic when both were overwritten alike *)
(* and nothing else in the file bears either magic.                        *)
(***************************************************************************)
FoundByOwnMagic(f) ==
  /\ f.slots[HeaderSlot].magic = UPX
  /\ ~f.elfMagic \/ \A k \in (HeaderSlot + 1)..Len(f.slots) : f.slots[k].magic # UPX

FoundByInlineMagic(f) ==
  /\ f.slots[HeaderSlot].magic = f.lmagic
  /\ f.lmagic \in OtherMagics
  /\ \A k \in DOMAIN f.slots : f.slots[k].magic # UPX
  /\ \A k \in (HeaderSlot + 1)..Len(f.slots) : f.slots[k].magic # f.lmagic

AcceptsExactly ==
  pc = "repair" /\ runs = 1 =>
    \A f \in buffer :
      Repairable(f) <=>
        \/ FoundByOwnMagic(f) /\ (HasInline(f) \/ ~f.elfMagic)
        \/ FoundByInlineMagic(f) /\ HasInline(f)

(***************************************************************************)
(* A repair that was guided by l_info settles: a second run accepts its    *)
(* output, reports no fix, and writes the same bytes.  It is not so when   *)
(* the trimmed overlay held the marker by which the first run took the     *)
(* sample for one of UPX 4: then the second run may still rewrite p_info,  *)
(* and the third one has nothing left to do.                               *)
(***************************************************************************)
Stable(f) == Repairable(f) /\ Repaired(f) = f /\ Fixes(f) = {}

TailDecides(f) == MajorIs(f, 4) /\ ~MajorIs(Repaired(f), 4)

RepairSettles ==
  Succeeded =>
    \A f \in disk[dst], l \in loaded :
      ~IsGeneric(l) =>
        /\ Stable(f) \/ (TailDecides(l) /\ Repairable(f) /\ Fixes(f) = {"p_info"})
        /\ Stable(Repaired(f))

(***************************************************************************)
(* print_upx_repair_summary tells the truth: a run that lists no fix has   *)
(* copied its input, and one that lists a fix has changed it.              *)
(***************************************************************************)
SummaryIsTruthful ==
  Succeeded => (fixes = {} <=> disk[dst] = loaded)

(***************************************************************************)
(* What fileinfo then says of the output agrees with the header the repair *)
(* reported, when l_info is filled in, or is blank and no "UPX!" follows.   *)
(***************************************************************************)
FileinfoAgrees ==
  Succeeded =>
    \A f \in disk[dst], l \in loaded :
      LET k == TheHeader(l)
      IN  HasInline(f) \/ (f.lmagic # UPX /\ k \in Last(Occurrences(f, UPX)))
            => FileinfoHeader(f) = {<<f.slots[k].version, f.slots[k].format>>}

(***************************************************************************)
(* README.md:207 "trimmed trailing overlay bytes after the final UPX pack  *)
(* header": the repair of a file with inline loader metadata would end     *)
(* with its pack header.                                                   *)
(***************************************************************************)
OverlayTrimmed ==
  Succeeded => \A f \in disk[dst], l \in loaded :
                 HasInline(l) => TheHeader(l) = Len(f.slots)
=============================================================================
