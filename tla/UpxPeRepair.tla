----------------------------- MODULE UpxPeRepair -----------------------------
(***************************************************************************)
(* repair_upx_pe_buffer of src/upx_repair.c step by step: the layout test, *)
(* the scan of the two windows one offset at a time, and the four writes   *)
(* into the buffer.  Reading and writing files is as in UpxElfRepair.      *)
(***************************************************************************)
EXTENDS UpxPe

CONSTANTS
  Packed,      \* the files a packer may have written
  Others,      \* other PE files that binsight may be run on
  MaxTampers   \* bound: how often a sample is tampered with

ASSUME PackedAssumption == Packed \subseteq {f \in PeFile : IsPacked(f)}
ASSUME OthersAssumption == Others \subseteq PeFile
ASSUME BoundAssumption  == MaxTampers \in Nat

VARIABLES
  genuine,   \* the file as it was first written
  tampers,   \* how often it has been tampered with
  sample,    \* the input of the current run
  pc,        \* where the run is
  window,    \* the window being scanned
  offset,    \* the offset being looked at, then that of the header
  buffer     \* the file image

vars == <<genuine, tampers, sample, pc, window, offset, buffer>>

PC == {"layout", "scan", "magic", "first name", "second name", "checksum",
       "exit 0", "refused", "no memory"}

TypeOK ==
  /\ genuine \in Packed \cup Others
  /\ tampers \in 0..MaxTampers
  /\ sample \in PeFile /\ buffer \in PeFile
  /\ pc \in PC
  /\ window \in Window
  /\ offset \in Nat

Init ==
  /\ genuine \in Packed \cup Others
  /\ tampers = 0
  /\ sample = genuine /\ buffer = genuine
  /\ pc = "layout"
  /\ window = 1 /\ offset = 0

-----------------------------------------------------------------------------
Tamper ==
  /\ pc = "layout" /\ tampers < MaxTampers
  /\ genuine \in Packed
  /\ sample' \in Tamperings(sample, TheOffset(genuine))
  /\ tampers' = tampers + 1
  /\ UNCHANGED <<genuine, pc, window, offset, buffer>>

ScanFrom(w) == window' = w /\ offset' = Start(sample, w) /\ pc' = "scan"

Refuse == pc' = "refused" /\ UNCHANGED <<window, offset>>

\* infer_pe_layout, which allocates the section list, and the layout tests.
Layout ==
  /\ pc = "layout"
  /\ buffer' = sample
  /\ \/ SmallLayout(sample) /\ Exists(sample, 1) /\ ScanFrom(1)
     \/ SmallLayout(sample) /\ ~Exists(sample, 1) /\ Exists(sample, 2) /\ ScanFrom(2)
     \/ ~SmallLayout(sample) /\ Refuse
     \/ SmallLayout(sample) /\ (\A w \in Window : ~Exists(sample, w)) /\ Refuse
     \/ pc' = "no memory" /\ UNCHANGED <<window, offset>>
  /\ UNCHANGED <<genuine, tampers, sample>>

\* A bug: the scan moves on by whole headers.
ScanByHeader ==
  /\ pc = "scan"
  /\ \/ /\ Scans(sample, window, offset) /\ Accepts(sample, window, offset)
        /\ pc' = "magic" /\ UNCHANGED <<window, offset>>
     \/ /\ Scans(sample, window, offset) /\ ~Accepts(sample, window, offset)
        /\ offset' = offset + 32 /\ UNCHANGED <<pc, window>>
     \/ ~Scans(sample, window, offset) /\ Refuse
  /\ UNCHANGED <<genuine, tampers, sample, buffer>>

\* detect_pe_pack_header_in_window, one iteration, and what follows its end.
Scan ==
  /\ pc = "scan"
  /\ \/ /\ Scans(sample, window, offset) /\ Accepts(sample, window, offset)
        /\ pc' = "magic" /\ UNCHANGED <<window, offset>>
     \/ /\ Scans(sample, window, offset) /\ ~Accepts(sample, window, offset)
        /\ offset' = offset + 1 /\ UNCHANGED <<pc, window>>
     \/ /\ ~Scans(sample, window, offset)
        /\ window = 1 /\ Exists(sample, 2) /\ ScanFrom(2)
     \/ /\ ~Scans(sample, window, offset)
        /\ window = 2 \/ ~Exists(sample, 2)
        /\ Refuse
  /\ UNCHANGED <<genuine, tampers, sample, buffer>>

Write(from, to, image) ==
  /\ pc = from /\ pc' = to
  /\ buffer' = image
  /\ UNCHANGED <<genuine, tampers, sample, window, offset>>

FixMagic == Write("magic", "first name", Patch(buffer, offset, UPX))

\* A bug: the first four bytes are written, and the rest is left as it is.
FixFirstNameOnly ==
  Write("first name", "second name",
        Patch(buffer, SectionAt(sample, 0), SubSeq(UPX0, 1, 4)))

FixFirstName ==
  Write("first name", "second name", Named(buffer, SectionAt(sample, 0), UPX0))

\* A bug: the first name once more.
FixSecondNameAlike ==
  Write("second name", "checksum", Named(buffer, SectionAt(sample, 1), UPX0))

FixSecondName ==
  Write("second name", "checksum", Named(buffer, SectionAt(sample, 1), UPX1))

FixChecksum ==
  Write("checksum", "exit 0", Summed(buffer, offset, Version(sample, offset)))

\* A run on the output of the last one.
Again ==
  /\ pc = "exit 0"
  /\ sample' = buffer
  /\ pc' = "layout"
  /\ UNCHANGED <<genuine, tampers, window, offset, buffer>>

Next ==
  \/ Tamper \/ Layout \/ Scan
  \/ FixMagic \/ FixFirstName \/ FixSecondName \/ FixChecksum
  \/ Again

Spec == Init /\ [][Next]_vars

-----------------------------------------------------------------------------
Succeeded == pc = "exit 0"

(***************************************************************************)
(* A packed file of which nothing but the names and the magic was changed, *)
(* and which may have been appended to, comes back as it was, with what    *)
(* was appended.  The last four bytes of a name that still begins right    *)
(* are not looked at, so they stay.  Only where a place that shares bytes  *)
(* with what was changed came to read as a header is that one taken        *)
(* instead.                                                                *)
(***************************************************************************)
OnlyTampered(g, f) ==
  /\ Len(g) <= Len(f)
  /\ \A k \in 1..Len(g) :
       \/ f[k] = g[k]
       \/ k - TheOffset(g) \in 1..4
       \/ \E i \in 0..1 : k - SectionAt(g, i) \in 1..8

NameTail(f, i) == (SectionAt(f, i) + 5)..(SectionAt(f, i) + 8)

ComesBack ==
  /\ Len(buffer) = Len(sample)
  /\ \A k \in 1..Len(buffer) :
       \/ buffer[k] = IF k <= Len(genuine) THEN genuine[k] ELSE sample[k]
       \/ /\ k \in NameTail(genuine, 0) /\ buffer[k] = sample[k]
          /\ Holds(sample, SectionAt(genuine, 0), SubSeq(UPX0, 1, 4))
       \/ /\ k \in NameTail(genuine, 1) /\ buffer[k] = sample[k]
          /\ Holds(sample, SectionAt(genuine, 1), SubSeq(UPX1, 1, 4))

PeRestoresGenuine ==
  Succeeded /\ genuine \in Packed /\ OnlyTampered(genuine, sample) =>
    ComesBack \/ (offset # TheOffset(genuine) /\ Disturbs(genuine, offset))

(***************************************************************************)
(* The scan ignores the magic and the names, which are all that a repair   *)
(* changes: so the output of a repair is repaired again without a fix.     *)
(* Two kinds of file are excepted: those whose header lies in their own    *)
(* section table, and those where a write made a place that shares bytes   *)
(* with it read as a header, which is then the first.                      *)
(***************************************************************************)
Stable(f) == Repairable(f) /\ Repaired(f) = f /\ Fixes(f) = {}

Disturbed(f) ==
  \/ TheOffset(f) < TableEnd(f)
  \/ \E q \in Located(Repaired(f)) : q # TheOffset(f) /\ Disturbs(f, q)

PeRepairSettles == Succeeded => Stable(buffer) \/ Disturbed(sample)

(***************************************************************************)
(* fileinfo then calls the file packed and prints the version of the       *)
(* header that was repaired, unless an earlier "UPX!" in the windows reads *)
(* as a header with lengths that only the repair looks at, or the file is  *)
(* one of those excepted above.                                            *)
(***************************************************************************)
PeFileinfoAgrees ==
  Succeeded =>
    \/ Disturbed(sample)
    \/ /\ FileinfoPacked(buffer)
       /\ \E o \in FileinfoOffset(buffer) :
            o = offset \/ (~Accepts(buffer, 1, o) /\ ~Accepts(buffer, 2, o))

(***************************************************************************)
(* A run is one step of UpxPePromise: the scan finds the first plausible   *)
(* header of the windows or there is none, and nothing else is written.    *)
(***************************************************************************)
Promise ==
  INSTANCE UpxPePromise WITH
    status <- CASE pc = "exit 0"    -> "done"
                [] pc = "refused"   -> "refused"
                [] pc = "no memory" -> "failed"
                [] OTHER            -> "ready",
    result <- IF pc = "exit 0" THEN {buffer} ELSE {}

ImplementsPromise == Promise!Spec
=============================================================================
