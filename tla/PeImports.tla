------------------------------ MODULE PeImports ------------------------------
(***************************************************************************)
(* The dependencies of a PE file: collect_pe_dependencies and              *)
(* collect_pe_import_directory of src/binsight.c, for the import directory *)
(* and then for the delayed one.                                           *)
(***************************************************************************)
EXTENDS AnalyzedFile, TLC

VARIABLES
  lists,       \* pe_imports and pe_delay_imports: libraries and their symbols
  descriptor,  \* index
  pointers,    \* dll_name_rva and thunk_rva of the descriptor, once read
  library,     \* the library whose thunks are being read; 0: none
  thunk,       \* thunk_offset
  exports,     \* pe_export_count
  isPe         \* dependency_summary_is_pe

importVars == <<lists, descriptor, pointers, library, thunk, exports, isPe>>

Directories == {"imports", "delayed"}

Descriptor == [attributes : Nat, name : Nat, table : Nat, addresses : Nat]

\* What the import collectors read of a file.
HasImports(f) ==
  /\ \A d \in Directories : f[d] \in [rva : Nat, size : Nat]
  /\ f.exports \in [rva : Nat, size : Nat, count : Nat]
  /\ f.imageBase \in Nat /\ f.thunkSize \in Nat \ {0}
  /\ \A o \in DOMAIN f.descriptors : f.descriptors[o] \in Descriptor
  /\ \A o \in DOMAIN f.thunks : f.thunks[o] \in [ordinal : BOOLEAN, value : Nat]

ImportsInit ==
  /\ lists = [d \in Directories |-> <<>>]
  /\ descriptor = 0 /\ pointers = None /\ library = 0 /\ thunk = 0
  /\ exports = 0
  /\ isPe = FALSE

-----------------------------------------------------------------------------
DescriptorSize(d) == IF d = "imports" THEN 20 ELSE 32

DirectoryAt(f, d) == PeOffset(f, f[d].rva)

Usable(f, d) == f[d].rva # 0 /\ f[d].size >= 20 /\ DirectoryAt(f, d) # None

OffsetOf(f, d, i) == The(DirectoryAt(f, d)) + i * DescriptorSize(d)

Fields(f, d, i) ==
  IF OffsetOf(f, d, i) \in DOMAIN f.descriptors THEN f.descriptors[OffsetOf(f, d, i)]
  ELSE [attributes |-> 0, name |-> 0, table |-> 0, addresses |-> 0]

\* normalize_pe_pointer_to_rva: with attributes 1 it is an RVA already.
Normalized(f, value, attributes) ==
  IF attributes = 1 THEN value
  ELSE IF value >= f.imageBase THEN value - f.imageBase ELSE 0

FirstNonzero(x, y) == IF x # 0 THEN x ELSE y

\* The name and the thunks of a descriptor, as addresses in the image.
Pointers(f, d, i) ==
  LET raw == Fields(f, d, i)
      Rva(x) == Normalized(f, x, raw.attributes)
      delayed == [name |-> Rva(raw.name),
                  thunk |-> FirstNonzero(Rva(raw.table), Rva(raw.addresses))]
  IN  IF d = "imports"
      THEN [name |-> raw.name, thunk |-> FirstNonzero(raw.table, raw.addresses)]
      ELSE IF raw.attributes = 0 /\ delayed = [name |-> 0, thunk |-> 0]
      THEN [name |-> raw.name, thunk |-> raw.table]
      ELSE delayed

\* Where the loop over the descriptors stops.
Ends(f, d, i) ==
  \/ i >= f[d].size \div DescriptorSize(d)
  \/ OffsetOf(f, d, i) + DescriptorSize(d) > f.size
  \/ Pointers(f, d, i) = [name |-> 0, thunk |-> 0]

\* The text at an address, skipping the hint of an imported name.
TextAt(f, rva, hint) ==
  IF PeOffset(f, rva) = None THEN None
  ELSE LET offset == The(PeOffset(f, rva)) + hint
       IN  IF offset < f.size THEN BoundedString(f, offset, f.size - offset) ELSE None

\* Where thunks begin, if there are any.
ThunksAt(f, rva) == IF rva = 0 THEN None ELSE PeOffset(f, rva)

ThunkAt(f, offset) ==
  IF offset \in DOMAIN f.thunks /\ offset + f.thunkSize <= f.size
  THEN Some(f.thunks[offset]) ELSE None

\* An import by ordinal, which has 16 bits.
Ordinal(value) == "ordinal#" \o ToString(value % 65536)

\* The symbol a thunk names, or no text for one that is skipped.
SymbolOf(f, t) ==
  IF t.ordinal THEN Ordinal(t.value)
  ELSE IF TextAt(f, t.value, 2) = None THEN Empty
  ELSE The(TextAt(f, t.value, 2))

Named(list, name) == {k \in DOMAIN list : list[k].name = name}

-----------------------------------------------------------------------------
\* The directory is absent or its descriptors are over.
EndImports(d) ==
  /\ pc = d /\ library = 0 /\ pointers = None
  /\ IF file.headersOk /\ Usable(file, d) THEN Ends(file, d, descriptor) ELSE TRUE
  /\ descriptor' = 0
  /\ pc' = IF d = "imports" THEN "delayed" ELSE "exports"
  /\ UNCHANGED <<file, lists, pointers, library, thunk, exports, isPe>>

ReadDescriptor(d) ==
  /\ pc = d /\ library = 0 /\ pointers = None
  /\ file.headersOk /\ Usable(file, d) /\ ~Ends(file, d, descriptor)
  /\ pointers' = Some(Pointers(file, d, descriptor))
  /\ UNCHANGED <<file, pc, lists, descriptor, library, thunk, exports, isPe>>

SkipDescriptor(d) ==
  /\ pc = d /\ library = 0
  /\ \E p \in pointers : TextAt(file, p.name, 0) = None
  /\ descriptor' = descriptor + 1 /\ pointers' = None
  /\ UNCHANGED <<file, pc, lists, library, thunk, exports, isPe>>

\* A bug: a library that was seen before is listed again.
AlwaysAdded(list, name) == Append(list, [name |-> name, symbols |-> <<>>])

\* find_or_add_import_library
FoundOrAdded(list, name) ==
  IF Named(list, name) = {} THEN Append(list, [name |-> name, symbols |-> <<>>]) ELSE list

\* The library a descriptor names, and on to its thunks.
TakeLibrary(d) ==
  /\ pc = d /\ library = 0
  /\ \E p \in pointers : \E name \in TextAt(file, p.name, 0) :
       LET list  == FoundOrAdded(lists[d], name)
           begin == ThunksAt(file, p.thunk)
       IN  /\ lists' = [lists EXCEPT ![d] = list]
           /\ IF begin = None
              THEN descriptor' = descriptor + 1 /\ UNCHANGED <<library, thunk>>
              ELSE /\ library' = Lowest(Named(list, name))
                   /\ thunk' = The(begin)
                   /\ UNCHANGED descriptor
  /\ pointers' = None
  /\ UNCHANGED <<file, pc, exports, isPe>>

LibraryOutOfMemory(d) ==
  /\ pc = d /\ library = 0
  /\ \E p \in pointers : \E name \in TextAt(file, p.name, 0) : Named(lists[d], name) = {}
  /\ pc' = "reported"
  /\ UNCHANGED <<file, importVars>>

\* One turn of the loop over the thunks.
TakeThunk(d) ==
  /\ pc = d /\ library # 0
  /\ \E t \in ThunkAt(file, thunk) :
       lists' = [lists EXCEPT ![d][library].symbols = AppendUnique(@, SymbolOf(file, t))]
  /\ thunk' = thunk + file.thunkSize
  /\ UNCHANGED <<file, pc, descriptor, pointers, library, exports, isPe>>

ThunkOutOfMemory(d) ==
  /\ pc = d /\ library # 0
  /\ \E t \in ThunkAt(file, thunk) :
       Allocates(lists[d][library].symbols, SymbolOf(file, t))
  /\ pc' = "reported"
  /\ UNCHANGED <<file, importVars>>

EndThunks(d) ==
  /\ pc = d /\ library # 0
  /\ ThunkAt(file, thunk) = None
  /\ library' = 0
  /\ descriptor' = descriptor + 1
  /\ UNCHANGED <<file, pc, lists, pointers, thunk, exports, isPe>>

\* The number of exports, and whether there is a summary to print.
CountExports ==
  /\ pc = "exports"
  /\ LET at == PeOffset(file, file.exports.rva) IN
       exports' = IF /\ file.headersOk
                     /\ file.exports.rva # 0 /\ file.exports.size >= 40
                     /\ \E offset \in at : offset + 40 <= file.size
                  THEN file.exports.count ELSE 0
  /\ isPe' = (exports' # 0 \/ \E d \in Directories : lists[d] # <<>>)
  /\ pc' = "resources"
  /\ UNCHANGED <<file, lists, descriptor, pointers, library, thunk>>

ImportsNext ==
  \/ \E d \in Directories :
       \/ EndImports(d) \/ ReadDescriptor(d) \/ SkipDescriptor(d)
       \/ TakeLibrary(d) \/ LibraryOutOfMemory(d) \/ TakeThunk(d) \/ ThunkOutOfMemory(d) \/ EndThunks(d)
  \/ CountExports

ImportsTypeOK ==
  /\ DOMAIN lists = Directories
  /\ descriptor \in Nat /\ thunk \in Nat /\ exports \in Nat
  /\ (pointers # None => library = 0)
  /\ library \in Nat /\ (pc \in Directories => library <= Len(lists[pc]))
  /\ isPe \in BOOLEAN
=============================================================================
