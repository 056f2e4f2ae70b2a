----------------------------- MODULE Disassembly -----------------------------
(***************************************************************************)
(* disassemble_section of src/binsight.c: a section's bytes are handed to  *)
(* a decoder of libopcodes, which says how many of them an instruction     *)
(* takes, or that it could not tell.  Whatever it says, the listing goes   *)
(* on byte by byte to the end of the section, with each symbol's label     *)
(* above the line that begins at its address.                              *)
(***************************************************************************)
EXTENDS Integers, Sequences, FiniteSets

CONSTANTS
  AddressSpace,  \* the number of values of a bfd_vma
  SkipZeroes,    \* info.skip_zeroes: 16, unless the target sets it
  MaxDecoded     \* bound: the longest instruction a decoder reports

ASSUME AddressAssumption == AddressSpace \in Nat \ {0}
ASSUME DecoderAssumption == SkipZeroes \in Nat \ {0} /\ MaxDecoded \in Nat

VARIABLES
  section,  \* the section: its address, its bytes and its symbols
  table,    \* section_symbols: those that may be shown, by address and name
  address,  \* of the loop
  cursor,   \* symbol_cursor
  lines,    \* the lines printed: where each begins and how long it is
  labels,   \* the labels printed, each with the number of its line
  zeros     \* the trailing zeros that were skipped, if they were

listingVars == <<table, address, cursor, lines, labels, zeros>>

Symbol == [name : Nat, value : Nat, shown : BOOLEAN]

\* Of a byte it matters whether it is zero.
Section == [vma : 0..(AddressSpace - 1), bytes : Seq(0..1), symbols : Seq(Symbol)]

-----------------------------------------------------------------------------
Size == Len(section.bytes)

\* bfd_vma wraps: a section that reaches the end of the addresses ends at 0.
End == (section.vma + Size) % AddressSpace

Offset == address - section.vma

\* compare_symbols_by_address; equal symbols print the same label.
Before(s, i, j) ==
  \/ s[i].value < s[j].value
  \/ s[i].value = s[j].value /\ s[i].name < s[j].name
  \/ s[i].value = s[j].value /\ s[i].name = s[j].name /\ i < j

\* collect_section_symbols and symbol_is_displayable.
SortedSymbols(s) ==
  LET shown == {i \in DOMAIN s : s[i].shown}
      At(k) == CHOOSE i \in shown : Cardinality({j \in shown : Before(s, j, i)}) = k - 1
  IN  [k \in 1..Cardinality(shown) |-> s[At(k)]]

\* remaining_bytes_are_zero
OnlyZerosFrom(o) == \A i \in (o + 1)..Size : section.bytes[i] = 0

AtZeros == Size - Offset >= SkipZeroes /\ OnlyZerosFrom(Offset)

AtEnd == address >= End \/ Offset >= Size

\* The first symbol at or after n whose address does not satisfy the test.
FirstNot(Test(_), n) ==
  CHOOSE k \in n..(Len(table) + 1) :
    /\ k = Len(table) + 1 \/ ~Test(table[k].value)
    /\ \A j \in n..(k - 1) : Test(table[j].value)

\* A bug: the cursor stops at the first symbol, passed by or not.
FromBefore == cursor

\* The symbols that stand at the address: from here ...
From == FirstNot(LAMBDA v : v < address, cursor)

\* ... to before here.
To == FirstNot(LAMBDA v : v = address, From)

\* A bug: a decoder that reads on past the section is followed.
FollowsDecoder(n) == IF n <= 0 THEN 1 ELSE n

\* The bytes a line takes: at least one, and none beyond the section.
Taken(n) ==
  LET size == IF n <= 0 THEN 1 ELSE n
  IN  IF Offset + size > Size THEN Size - Offset ELSE size

-----------------------------------------------------------------------------
\* The listing of a section begins.
StartListing(s) ==
  /\ section' = s
  /\ table' = SortedSymbols(s.symbols)
  /\ address' = s.vma
  /\ cursor' = 1
  /\ lines' = <<>> /\ labels' = <<>> /\ zeros' = {}

SkipZeros ==
  /\ ~AtEnd /\ AtZeros
  /\ zeros' = {Size - Offset}
  /\ UNCHANGED <<section, table, address, cursor, lines, labels>>

\* The labels at the address; then the decoder is called.
PrintLabels ==
  /\ ~AtEnd /\ ~AtZeros
  /\ labels' = labels \o [k \in 1..(To - From) |->
                            [name |-> table[From + k - 1].name, line |-> Len(lines) + 1]]
  /\ cursor' = To
  /\ UNCHANGED <<section, table, address, lines, zeros>>

\* One line, n being what the decoder returned.
PrintLine(n) ==
  /\ lines' = Append(lines, [at |-> Offset, length |-> Taken(n)])
  /\ address' = address + Taken(n)
  /\ UNCHANGED <<section, table, cursor, labels, zeros>>

ListingTypeOK ==
  /\ table \in Seq(Symbol)
  /\ address \in 0..AddressSpace
  /\ cursor \in 1..(Len(table) + 1)
  /\ lines \in Seq([at : Nat, length : Nat])
  /\ labels \in Seq([name : Nat, line : Nat])
  /\ zeros \in SUBSET Nat

-----------------------------------------------------------------------------
(***************************************************************************)
(* Whatever the decoder returns, the lines follow one another without a    *)
(* gap or an overlap from the section's first byte, none is empty and none *)
(* goes beyond the section; a tail that is left out is all zeros.          *)
(***************************************************************************)
LinesTile ==
  /\ \A i \in DOMAIN lines :
       /\ lines[i].length >= 1
       /\ lines[i].at + lines[i].length =
            IF i = Len(lines) THEN Offset ELSE lines[i + 1].at
  /\ lines # <<>> => lines[1].at = 0
  /\ Offset <= Size
  /\ \A n \in zeros : Offset + n = Size /\ OnlyZerosFrom(Offset)

\* Where a line begins that has its labels.
LabelledAt(i) == IF i <= Len(lines) THEN section.vma + lines[i].at ELSE address

(***************************************************************************)
(* Above a line stand the labels of exactly the symbols at its address,    *)
(* one for one and in the order of their names: a symbol inside an         *)
(* instruction has none, and holds back no label after it.  Symbols of one *)
(* address are neighbours, so their labels are d places further on.        *)
(***************************************************************************)
LabelsAreExact ==
  LET sorted == SortedSymbols(section.symbols)
  IN  \A i \in 1..Len(lines) :
        LET here  == {k \in DOMAIN sorted : sorted[k].value = LabelledAt(i)}
            above == {k \in DOMAIN labels : labels[k].line = i}
        IN  \E d \in -Len(sorted)..Len(labels) :
              /\ above = {k + d : k \in here}
              /\ \A k \in here : labels[k + d].name = sorted[k].name

\* A listing that came to its end left nothing out, unless the section ends
\* where the addresses do, and then there is no listing at all.
ListingIsWhole ==
  IF section.vma + Size >= AddressSpace THEN lines = <<>> /\ zeros = {}
  ELSE zeros # {} \/ Offset = Size
=============================================================================
