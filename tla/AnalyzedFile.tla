----------------------------- MODULE AnalyzedFile -----------------------------
(***************************************************************************)
(* The file an analysis report is made of, and how the collectors of       *)
(* src/binsight.c find their way in it: PE addresses through the section   *)
(* table, ELF addresses through the segments, strings with a terminator.   *)
(*                                                                         *)
(* A file is what these readers can see of it: its size, its tables, and   *)
(* what lies at the offsets where a directory, a descriptor, a thunk or a  *)
(* string begins.  Every other byte is zero, and so is what is read there. *)
(***************************************************************************)
EXTENDS Integers, Sequences

CONSTANTS
  Wrap,   \* the number of values of a uint32_t
  Wrap64  \* of a uint64_t, which is what a size_t is

\* Two of the former never sum up to one of the latter that wraps.
ASSUME WrapAssumption ==
  Wrap \in Nat \ {0} /\ Wrap64 \in Nat \ {0} /\ 2 * Wrap <= Wrap64

VARIABLES
  file,  \* what read_file_bytes returned
  pc     \* which part of the report is being made

UInt32 == 0..(Wrap - 1)
UInt64 == 0..(Wrap64 - 1)

Section ==
  [virtualSize : UInt32, virtualAddress : UInt32,
   rawSize : UInt32, rawPointer : UInt32]

\* A text in the file, and how far its terminator is. When that is past the
\* end of the file, the text goes on in whatever memory holds behind it.
FileString == [text : STRING, length : Nat]

\* What PE addresses and strings are found by.
HasAddresses(f) ==
  /\ f.size \in Nat /\ f.sizeOfHeaders \in Nat /\ f.sections \in Seq(Section)
  /\ \A o \in DOMAIN f.strings : f.strings[o] \in FileString

Lowest(S) == CHOOSE i \in S : \A j \in S : i <= j

\* Optional values: at most one of them.
Some(x) == {x}
None    == {}
The(o)  == CHOOSE x \in o : TRUE

-----------------------------------------------------------------------------
Span(s) == IF s.virtualSize > s.rawSize THEN s.virtualSize ELSE s.rawSize

\* The sum is a uint32_t: a section that reaches 2^32 claims nothing.
Claims(s, rva) ==
  Span(s) # 0 /\ rva >= s.virtualAddress /\ rva < (s.virtualAddress + Span(s)) % Wrap

Claimants(f, rva) == {i \in DOMAIN f.sections : Claims(f.sections[i], rva)}

\* The first section of the table that claims the address decides.
Claimant(f, rva) == f.sections[Lowest(Claimants(f, rva))]

\* map_pe_rva_to_offset: the headers first, then the claiming section.
PeOffset(f, rva) ==
  IF rva < f.sizeOfHeaders /\ rva < f.size THEN Some(rva)
  ELSE IF Claimants(f, rva) = {} THEN None
  ELSE LET s == Claimant(f, rva)
           offset == s.rawPointer + (rva - s.virtualAddress)
       IN  IF offset < f.size THEN Some(offset) ELSE None

\* pe_resource_directory_bounds: the end of what the section has on disk.
PeSectionEnd(f, rva) ==
  IF Claimants(f, rva) = {} THEN None
  ELSE LET s == Claimant(f, rva)
           end == s.rawPointer + s.rawSize
       IN  IF s.rawPointer >= f.size THEN None
           ELSE Some(IF end > f.size THEN f.size ELSE end)

-----------------------------------------------------------------------------
\* The sums are of uint64_t, and a file may give any values.
Covers(g, vaddr) ==
  g.type = "load" /\ vaddr >= g.vaddr /\ vaddr < (g.vaddr + g.memsz) % Wrap64

\* map_elf_vaddr_to_offset: the first loaded segment that covers the address.
ElfOffset(f, vaddr) ==
  LET covering == {i \in DOMAIN f.segments : Covers(f.segments[i], vaddr)}
      g == f.segments[Lowest(covering)]
      delta == vaddr - g.vaddr
      offset == (g.offset + delta) % Wrap64
  IN  IF covering = {} \/ delta >= g.filesz \/ offset >= f.size
      THEN None ELSE Some(offset)

-----------------------------------------------------------------------------
Empty == ""

\* What stands at an offset: a text, and how far its terminator is.
StringAt(f, offset) ==
  IF offset \in DOMAIN f.strings THEN f.strings[offset] ELSE [text |-> Empty, length |-> 0]

\* The test of bounded_file_string; the sum is a size_t and may wrap.
InBounds(f, offset, max) ==
  offset < f.size /\ max # 0 /\ (offset + max) % Wrap64 <= f.size

\* bounded_file_string: the text at offset, if it ends within max bytes.
BoundedString(f, offset, max) ==
  IF InBounds(f, offset, max) /\ StringAt(f, offset).length < max
  THEN Some(StringAt(f, offset).text)
  ELSE None

\* After a sum that wrapped, memchr looks for the terminator behind the file.
Overruns(f, offset, max) ==
  /\ InBounds(f, offset, max) /\ offset + max > f.size
  /\ offset + StringAt(f, offset).length >= f.size

\* append_string_unique, when its allocations succeed.
AppendUnique(list, text) ==
  IF text = Empty \/ \E i \in DOMAIN list : list[i] = text
  THEN list
  ELSE Append(list, text)

\* A list of n elements that begins with room for `first` and doubles must be
\* reallocated before the next one.
GrowsAt(n, first) == n = 0 \/ \E k \in 0..12 : n = first * 2 ^ k

\* Whether append_string_unique allocates at all, so that it can fail.
Allocates(list, text) == AppendUnique(list, text) # list
=============================================================================
