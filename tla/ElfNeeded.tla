------------------------------ MODULE ElfNeeded ------------------------------
(***************************************************************************)
(* The dependencies of an ELF file: collect_elf_dependencies of            *)
(* src/binsight.c.  The dynamic table is read to its end before any name   *)
(* in it can be, since the string table may be the last thing it gives.    *)
(***************************************************************************)
EXTENDS AnalyzedFile

VARIABLES
  cursor,  \* the entry of the dynamic table, then the index in needed
  found,   \* what the dynamic table has given so far: tag to value
  needed,  \* needed_offsets
  names,   \* elf_needed_libraries
  texts,   \* elf_soname, elf_rpath and elf_runpath
  isElf    \* dependency_summary_is_elf

neededVars == <<cursor, found, needed, names, texts, isElf>>

\* The words of an ELF file of 64 bits, or of 32.
Word(f) == IF f.entrySize = 16 THEN UInt64 ELSE UInt32

Segment(f) ==
  [type : STRING, offset : Word(f), vaddr : Word(f), filesz : Word(f), memsz : Word(f)]

DynamicEntry(f) == [tag : STRING, value : Word(f)]

\* What the collector reads of a file.
HasDynamic(f) ==
  /\ f.size \in UInt64 /\ f.entrySize \in {8, 16}
  /\ f.segments \in Seq(Segment(f)) /\ f.dynamic \in Seq(DynamicEntry(f))
  /\ \A o \in DOMAIN f.strings : f.strings[o] \in FileString

TextTags == {"soname", "rpath", "runpath"}
KeptTags == TextTags \cup {"strtab", "strsz"}

NeededInit ==
  /\ cursor = 0
  /\ found = [t \in KeptTags |-> None]
  /\ needed = <<>> /\ names = <<>>
  /\ texts = [t \in TextTags |-> Empty]
  /\ isElf = FALSE

-----------------------------------------------------------------------------
Dynamics(f) == {i \in DOMAIN f.segments : f.segments[i].type = "dynamic"}

Table(f) == f.segments[Lowest(Dynamics(f))]

\* Where the dynamic table ends; the sum may wrap.
TableLimit(f) == (Table(f).offset + Table(f).filesz) % Wrap64

\* Whether there is a dynamic table, and how many entries it holds: none, or
\* less, when its end has wrapped.
HasTable(f) ==
  /\ f.headersOk /\ Dynamics(f) # {}
  /\ Table(f).filesz # 0 /\ Table(f).offset < f.size /\ TableLimit(f) <= f.size

TableLength(f) == (TableLimit(f) - Table(f).offset) \div f.entrySize

EntryAt(f, i) ==
  IF i + 1 \in DOMAIN f.dynamic THEN f.dynamic[i + 1] ELSE [tag |-> "null", value |-> 0]

TableEnds(f, i) ==
  ~HasTable(f) \/ i >= TableLength(f) \/ EntryAt(f, i).tag = "null"

Value(t) == IF found[t] = None THEN 0 ELSE The(found[t])

StringTable == ElfOffset(file, Value("strtab"))

\* A size near 2^64 makes the sum wrap, and then the table is as good as any.
StringsReadable ==
  /\ Value("strtab") # 0 /\ Value("strsz") # 0
  /\ \E at \in StringTable : (at + Value("strsz")) % Wrap64 <= file.size

\* Where the string at an offset of the string table begins.
TextOffset(offset) == (The(StringTable) + offset) % Wrap64

\* The string at an offset of the string table.
TextIn(offset) ==
  IF offset >= Value("strsz") THEN None
  ELSE BoundedString(file, TextOffset(offset), Value("strsz") - offset)

\* Reading it goes on behind the file.
ReadsBehind(offset) ==
  /\ offset < Value("strsz")
  /\ Overruns(file, TextOffset(offset), Value("strsz") - offset)

-----------------------------------------------------------------------------
ReadDynamic ==
  /\ pc = "dynamic"
  /\ ~TableEnds(file, cursor)
  /\ LET e == EntryAt(file, cursor) IN
       /\ found' = IF e.tag \in KeptTags
                   THEN [found EXCEPT ![e.tag] = Some(e.value)] ELSE found
       /\ needed' = IF e.tag = "needed" THEN Append(needed, e.value) ELSE needed
  /\ cursor' = cursor + 1
  /\ UNCHANGED <<file, pc, names, texts, isElf>>

DynamicOutOfMemory ==
  /\ pc = "dynamic"
  /\ ~TableEnds(file, cursor)
  /\ EntryAt(file, cursor).tag = "needed" /\ GrowsAt(Len(needed), 4)
  /\ pc' = "reported"
  /\ UNCHANGED <<file, neededVars>>

ResolveStrings ==
  /\ pc = "dynamic"
  /\ TableEnds(file, cursor)
  /\ pc' = IF HasTable(file) /\ StringsReadable THEN "needed" ELSE "overlay"
  /\ cursor' = 0
  /\ UNCHANGED <<file, found, needed, names, texts, isElf>>

AddNeeded ==
  /\ pc = "needed"
  /\ cursor < Len(needed)
  /\ names' = LET text == TextIn(needed[cursor + 1]) IN
              IF text = None THEN names ELSE AppendUnique(names, The(text))
  /\ cursor' = cursor + 1
  /\ UNCHANGED <<file, pc, found, needed, texts, isElf>>

NeededOutOfMemory ==
  /\ pc = "needed"
  /\ cursor < Len(needed)
  /\ \E text \in TextIn(needed[cursor + 1]) : Allocates(names, text)
  /\ pc' = "reported"
  /\ UNCHANGED <<file, neededVars>>

SetTexts ==
  /\ pc = "needed"
  /\ cursor >= Len(needed)
  /\ texts' = [t \in TextTags |->
       IF found[t] = None \/ TextIn(The(found[t])) = None THEN texts[t]
       ELSE The(TextIn(The(found[t])))]
  /\ isElf' = (names # <<>> \/ \E t \in TextTags : texts'[t] # Empty)
  /\ pc' = "overlay"
  /\ UNCHANGED <<file, cursor, found, needed, names>>

\* Memory behind the file need not be there to be read.
DieBehindFile ==
  /\ pc = "needed"
  /\ IF cursor < Len(needed) THEN ReadsBehind(needed[cursor + 1])
     ELSE \E t \in TextTags : \E offset \in found[t] : ReadsBehind(offset)
  /\ pc' = "died"
  /\ UNCHANGED <<file, neededVars>>

NeededNext ==
  \/ ReadDynamic \/ DynamicOutOfMemory \/ ResolveStrings
  \/ AddNeeded \/ NeededOutOfMemory \/ SetTexts \/ DieBehindFile

NeededTypeOK ==
  /\ cursor \in Nat
  /\ \A i \in DOMAIN needed : needed[i] \in Nat
  /\ DOMAIN found = KeptTags /\ DOMAIN texts = TextTags
  /\ \A i, j \in DOMAIN names : names[i] = names[j] => i = j
  /\ isElf \in BOOLEAN
=============================================================================
