---------------------------- MODULE BinutilsLoader ----------------------------
(***************************************************************************)
(* The runtime loader of src/binsight.c: load_bfd_runtime and              *)
(* load_opcodes_runtime, which find the two Binutils libraries through the *)
(* environment, the names the linker knows and the system's directories.   *)
(* One action per dlopen; a copy of a library is what dlopen and dlsym can *)
(* tell of it, and None is a name that does not open.                      *)
(***************************************************************************)
EXTENDS Naturals, Sequences, SequencesExt

CONSTANTS
  Worlds,            \* the machines binsight may run on
  SystemDirectories  \* the ones that are searched, in order

Library == {"bfd", "opcodes"}

Some(x) == {x}
None    == {}
The(o)  == CHOOSE x \in o : TRUE

(***************************************************************************)
(* directory is where the path of the copy says it is, or nothing for a    *)
(* bare name; complete: it has every symbol binsight calls; compatible:    *)
(* its bfd_init returns BFD_INIT_MAGIC.                                    *)
(***************************************************************************)
Copy == [directory : STRING, complete : BOOLEAN, compatible : BOOLEAN]

\* An entry of a directory: a library's copy opens or not, a directory has a name.
DirectoryEntry ==
  [kind : Library \cup {"directory", "other"}, copy : SUBSET Copy, name : STRING]

ASSUME WorldAssumption ==
  \A w \in Worlds :
    /\ \A l \in Library :
         w.env[l] \in SUBSET Copy /\ w.sonames[l] \in Seq(SUBSET Copy)
    /\ \A d \in DOMAIN w.disk : w.disk[d] \in Seq(DirectoryEntry)

ASSUME DirectoriesAssumption == SystemDirectories \in Seq(STRING)

VARIABLES
  world,     \* what is installed
  pc,        \* where the run is
  attempt,   \* how many paths have been tried for the library being opened
  handle,    \* bfd_handle and opcodes_handle
  loaded     \* bfd_loaded and opcodes_loaded, as the set of those that are

loaderVars == <<attempt, handle, loaded>>

LoaderInit ==
  /\ attempt = 0
  /\ handle = [l \in Library |-> None]
  /\ loaded = {}

-----------------------------------------------------------------------------
\* The entries of a directory, in the order readdir returns them.
EntriesOf(directory) ==
  IF directory \in DOMAIN world.disk THEN world.disk[directory] ELSE <<>>

\* path_has_shared_library_name decides before the type of the entry does.
Matching(directory, l) ==
  FlattenSeq([k \in DOMAIN EntriesOf(directory) |->
    LET e == EntriesOf(directory)[k] IN IF e.kind = l THEN <<e.copy>> ELSE <<>>])

\* scan_library_directory: the subdirectories too, one level deep.
Scan(directory, l) ==
  FlattenSeq([k \in DOMAIN EntriesOf(directory) |->
    LET e == EntriesOf(directory)[k]
    IN  IF e.kind = l THEN <<e.copy>>
        ELSE IF e.kind = "directory" THEN Matching(e.name, l)
        ELSE <<>>])

\* bfd_directory, which remember_library_directory has cut from a path.
Preferred(l) ==
  IF l = "opcodes" /\ handle["bfd"] # None THEN The(handle["bfd"]).directory ELSE ""

\* open_binutils_library: the path in the environment, then the bare names ...
Named(l) == (IF world.env[l] = None THEN <<>> ELSE <<world.env[l]>>) \o world.sonames[l]

\* ... then what the directories hold: the other library's, and the system's.
InDirectories(l) ==
  Scan(Preferred(l), l)
  \o FlattenSeq([k \in DOMAIN SystemDirectories |-> Scan(SystemDirectories[k], l)])

\* What the n-th of these paths opens.
Opened(l, n) ==
  IF n <= Len(Named(l)) THEN Named(l)[n] ELSE InDirectories(l)[n - Len(Named(l))]

-----------------------------------------------------------------------------
OpenLabel(l)    == IF l = "bfd" THEN "open bfd" ELSE "open opcodes"
ResolveLabel(l) == IF l = "bfd" THEN "resolve bfd" ELSE "resolve opcodes"

Opening(l)   == pc = OpenLabel(l)
Resolving(l) == pc = ResolveLabel(l)

\* try_open_library_path
TryPath(l) ==
  /\ Opening(l)
  /\ attempt < Len(Named(l)) + Len(InDirectories(l))
  /\ attempt' = attempt + 1
  /\ LET copy == Opened(l, attempt + 1) IN
       IF copy = None THEN UNCHANGED <<pc, handle>>
       ELSE handle' = [handle EXCEPT ![l] = copy] /\ pc' = ResolveLabel(l)
  /\ UNCHANGED <<world, loaded>>

NothingOpens(l) ==
  /\ Opening(l)
  /\ attempt = Len(Named(l)) + Len(InDirectories(l))
  /\ pc' = "exit 1"
  /\ UNCHANGED <<world, loaderVars>>

MissingSymbol(l) ==
  /\ Resolving(l)
  /\ ~The(handle[l]).complete
  /\ pc' = "exit 1"
  /\ UNCHANGED <<world, loaderVars>>

\* A bug: bfd_init is not asked which ABI it is.
AcceptAnyBfd ==
  /\ Resolving("bfd")
  /\ The(handle["bfd"]).complete
  /\ pc' = "open binary" /\ loaded' = loaded \cup {"bfd"}
  /\ attempt' = 0
  /\ UNCHANGED <<world, handle>>

\* The symbols of libbfd, and its ABI check.
AcceptBfd ==
  /\ Resolving("bfd")
  /\ The(handle["bfd"]).complete
  /\ IF The(handle["bfd"]).compatible
     THEN pc' = "open binary" /\ loaded' = loaded \cup {"bfd"}
     ELSE pc' = "exit 1" /\ UNCHANGED loaded
  /\ attempt' = 0
  /\ UNCHANGED <<world, handle>>

\* The symbols of libopcodes, which has no ABI check.
AcceptOpcodes ==
  /\ Resolving("opcodes")
  /\ The(handle["opcodes"]).complete
  /\ pc' = "sections" /\ loaded' = loaded \cup {"opcodes"}
  /\ UNCHANGED <<world, attempt, handle>>

LoaderNext ==
  \/ \E l \in Library : TryPath(l) \/ NothingOpens(l) \/ MissingSymbol(l)
  \/ AcceptBfd \/ AcceptOpcodes

LoaderTypeOK ==
  /\ attempt \in Nat
  /\ handle \in [Library -> SUBSET Copy]
  /\ loaded \subseteq {l \in Library : handle[l] # None}
=============================================================================
