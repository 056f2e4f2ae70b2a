----------------------------- MODULE PeResources -----------------------------
(***************************************************************************)
(* The resource part of an analysis report: collect_pe_resources and the   *)
(* recursive walk collect_pe_resource_directory_entries of                 *)
(* src/binsight.c.  The walk keeps no set of the directories it has been   *)
(* in and resource trees may be cyclic; its stack is explicit here.        *)
(***************************************************************************)
EXTENDS AnalyzedFile

CONSTANTS
  MaxResources,  \* MAX_PE_RESOURCE_ENTRIES
  FirstCapacity  \* of the list of resources

ASSUME ResourceAssumption ==
  MaxResources \in Nat \ {0} /\ FirstCapacity \in Nat \ {0}

VARIABLES
  available,  \* pe_resources_available
  base, end,  \* resource_base_offset and resource_section_end
  stack,      \* the calls of the walk: where, which entry is next, labels above
  resources,  \* pe_resources
  capacity    \* pe_resource_capacity

resourceVars == <<available, base, end, stack, resources, capacity>>

MaxDepth == 4

\* An entry of a resource directory, and where it leads from the base.
DirectoryEntry == [named : BOOLEAN, id : Nat, sub : BOOLEAN, to : Nat]

\* What the walk reads of a file.
HasResources(f) ==
  /\ f.resources \in [rva : Nat, size : Nat]
  /\ \A o \in DOMAIN f.directories : f.directories[o] \in Seq(DirectoryEntry)
  /\ \A o \in DOMAIN f.dataEntries : f.dataEntries[o] \in Nat
  /\ \A o \in DOMAIN f.names : f.names[o] \in FileString

Label == [kind : {"id", "text", "unreadable"}, id : Nat, text : STRING \cup {Empty}]

ResourcesInit ==
  /\ available = FALSE
  /\ base = 0 /\ end = 0
  /\ stack = <<>>
  /\ resources = <<>> /\ capacity = 0

-----------------------------------------------------------------------------
InSection(offset, length) == offset + length <= end /\ offset + length <= file.size

Directory(offset) ==
  IF offset \in DOMAIN file.directories THEN file.directories[offset] ELSE <<>>

DataRva(offset) ==
  IF offset \in DOMAIN file.dataEntries THEN file.dataEntries[offset] ELSE 0

\* read_pe_resource_name_string: bounded by the file, not by the section.
NameAt(offset) ==
  IF /\ offset \in DOMAIN file.names
     /\ file.names[offset].length > 0
     /\ offset + 2 + 2 * file.names[offset].length <= file.size
  THEN Some(file.names[offset].text) ELSE None

\* The type, name and language labels: the identifiers at depths 0, 1 and 2.
LabelOf(entry, depth) ==
  IF ~entry.named \/ depth = 2 THEN [kind |-> "id", id |-> entry.id, text |-> Empty]
  ELSE IF NameAt(base + entry.id) = None THEN [kind |-> "unreadable", id |-> 0, text |-> Empty]
  ELSE [kind |-> "text", id |-> 0, text |-> The(NameAt(base + entry.id))]

Depth == Len(stack) - 1
Top   == stack[Len(stack)]
Below == SubSeq(stack, 1, Len(stack) - 1)

Readable(offset) ==
  /\ InSection(offset, 16)
  /\ InSection(offset, 16 + 8 * Len(Directory(offset)))

Entry == Directory(Top.at)[Top.next]

Finished ==
  Depth > MaxDepth \/ ~Readable(Top.at) \/ Top.next > Len(Directory(Top.at))

\* A bug: the labels go on below the language.
LabelledDeeper == Append(Top.labels, LabelOf(Entry, Depth))

Labelled ==
  IF Depth <= 2 THEN Append(Top.labels, LabelOf(Entry, Depth)) ELSE Top.labels

Advanced == Append(Below, [Top EXCEPT !.next = @ + 1])

Records == Depth >= 2 /\ InSection(base + Entry.to, 16)

Resource ==
  [labels |-> Labelled, rva |-> DataRva(base + Entry.to),
   offset |-> PeOffset(file, DataRva(base + Entry.to))]

\* A bug: the last doubling is not cut to the limit.
DoubledOnly == IF capacity = 0 THEN FirstCapacity ELSE 2 * capacity

Grown ==
  LET doubled == IF capacity = 0 THEN FirstCapacity ELSE 2 * capacity
  IN  IF doubled > MaxResources THEN MaxResources ELSE doubled

-----------------------------------------------------------------------------
\* collect_pe_resources, up to the walk.
FindResources ==
  /\ pc = "resources"
  /\ IF /\ file.headersOk
        /\ file.resources.rva # 0 /\ file.resources.size >= 16
        /\ PeOffset(file, file.resources.rva) # None
        /\ PeSectionEnd(file, file.resources.rva) # None
     THEN /\ available' = TRUE
          /\ base' = The(PeOffset(file, file.resources.rva))
          /\ end' = The(PeSectionEnd(file, file.resources.rva))
          /\ stack' = <<[at |-> base', next |-> 1, labels |-> <<>>]>>
          /\ pc' = "walk"
     ELSE pc' = "overlay" /\ UNCHANGED <<available, base, end, stack>>
  /\ UNCHANGED <<file, resources, capacity>>

LeaveDirectory ==
  /\ pc = "walk"
  /\ Finished
  /\ stack' = Below
  /\ pc' = IF Below = <<>> THEN "overlay" ELSE "walk"
  /\ UNCHANGED <<file, available, base, end, resources, capacity>>

\* A bug: the caller comes back to the entry it has just followed.
EnterAndForget ==
  /\ pc = "walk"
  /\ ~Finished /\ Entry.sub
  /\ stack' = Append(stack, [at |-> base + Entry.to, next |-> 1, labels |-> Labelled])
  /\ UNCHANGED <<file, pc, available, base, end, resources, capacity>>

EnterDirectory ==
  /\ pc = "walk"
  /\ ~Finished /\ Entry.sub
  /\ stack' = Append(Advanced, [at |-> base + Entry.to, next |-> 1, labels |-> Labelled])
  /\ UNCHANGED <<file, pc, available, base, end, resources, capacity>>

SkipEntry ==
  /\ pc = "walk"
  /\ ~Finished /\ ~Entry.sub
  /\ ~Records \/ Len(resources) >= MaxResources
  /\ stack' = Advanced
  /\ UNCHANGED <<file, pc, available, base, end, resources, capacity>>

RecordResource ==
  /\ pc = "walk"
  /\ ~Finished /\ ~Entry.sub
  /\ Records /\ Len(resources) < MaxResources
  /\ capacity' = IF Len(resources) = capacity THEN Grown ELSE capacity
  /\ resources' = Append(resources, Resource)
  /\ stack' = Advanced
  /\ UNCHANGED <<file, pc, available, base, end>>

\* The list cannot grow: every call of the walk returns false.
ResourcesOutOfMemory ==
  /\ pc = "walk"
  /\ ~Finished /\ ~Entry.sub
  /\ Records /\ Len(resources) < MaxResources /\ Len(resources) = capacity
  /\ stack' = <<>>
  /\ pc' = "reported"
  /\ UNCHANGED <<file, available, base, end, resources, capacity>>

ResourcesNext ==
  \/ FindResources \/ LeaveDirectory \/ EnterDirectory
  \/ SkipEntry \/ RecordResource \/ ResourcesOutOfMemory

ResourcesTypeOK ==
  /\ available \in BOOLEAN /\ base \in Nat /\ end \in 0..file.size
  /\ Len(stack) <= MaxDepth + 2
  /\ \A i \in DOMAIN stack :
       stack[i].at \in Nat /\ stack[i].next \in Nat \ {0}
       /\ stack[i].labels \in Seq(Label) /\ Len(stack[i].labels) <= 3
  /\ \A i \in DOMAIN resources : Len(resources[i].labels) = 3
  /\ Len(resources) <= capacity /\ capacity <= MaxResources
=============================================================================
