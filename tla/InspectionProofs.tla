--------------------------- MODULE InspectionProofs ---------------------------
(***************************************************************************)
(* Proofs about an inspection, for any machine and any binary: only fit    *)
(* libraries are called, they are the first that open, and whatever the    *)
(* decoder returns the lines of a listing tile its section, each under the *)
(* labels of the symbols at its address.                                   *)
(***************************************************************************)
EXTENDS Inspection, FiniteSetTheorems, WellFoundedInduction, TLAPS

Located == {"sections", "listing", "decode", "listed"}
Reading == {"open binary", "symbols", "report", "views", "open opcodes", "resolve opcodes"}

-----------------------------------------------------------------------------
\* The libraries.

NoneOpened(l, n) == \A k \in 1..n : k <= Len(Named(l)) => Named(l)[k] = None

\* A library that was found was the first of its names that opens.
First(l) ==
  \E n \in Nat \ {0} : NoneOpened(l, n - 1) /\ (n <= Len(Named(l)) => handle[l] = Named(l)[n])

\* loaded, pc and attempt against the two handles.
LoaderInv ==
  /\ world \in Worlds
  /\ attempt \in Nat
  /\ handle = [l \in Library |-> handle[l]]
  /\ loaded \subseteq Library
  /\ \A l \in Library : pc = OpenLabel(l) => NoneOpened(l, attempt) /\ l \notin loaded
  /\ \A l \in Library : pc = ResolveLabel(l) => handle[l] # None /\ l \notin loaded
  /\ \A l \in Library : pc = ResolveLabel(l) \/ l \in loaded => First(l)
  /\ pc \in Reading \cup Located =>
       /\ handle["bfd"] # None
       /\ The(handle["bfd"]).complete /\ The(handle["bfd"]).compatible
  /\ pc \in {"open bfd", "resolve bfd"} => loaded = {}
  /\ pc \in {"open opcodes", "resolve opcodes"} \cup Located => request.disassemble
  /\ pc \in Located => handle["opcodes"] # None /\ The(handle["opcodes"]).complete
  /\ pc \in Reading \ {"open opcodes", "resolve opcodes"} => attempt = 0 /\ "opcodes" \notin loaded

LEMMA TheIsIn == ASSUME NEW o, o # None PROVE The(o) \in o
BY DEF None, The

LEMMA NoneOpenedYet == ASSUME NEW l, NEW n, n = 0 PROVE NoneOpened(l, n)
<1>1. 1..n = {}
  OBVIOUS
<1> QED
  BY <1>1 DEF NoneOpened

LEMMA NamedIsSeq ==
  ASSUME NEW l \in Library, world \in Worlds
  PROVE  /\ Named(l) \in Seq(SUBSET Copy)
         /\ world.env[l] # None => Len(Named(l)) >= 1 /\ Named(l)[1] = world.env[l]
         /\ world.env[l] = None => Named(l) = world.sonames[l]
<1> DEFINE e == world.env[l]
           s == world.sonames[l]
<1>1. e \in SUBSET Copy /\ s \in Seq(SUBSET Copy)
  BY WorldAssumption
<1>2. Named(l) = (IF e = None THEN <<>> ELSE <<e>>) \o s
  BY DEF Named
<1> HIDE DEF e, s
<1>3. CASE e = None
  <2>1. Named(l) = s
    BY <1>1, <1>2, <1>3
  <2> QED
    BY <1>1, <1>3, <2>1 DEF e, s
<1>4. CASE e # None
  <2>1. Named(l) = <<e>> \o s /\ <<e>> \in Seq(SUBSET Copy)
    BY <1>1, <1>2, <1>4
  <2>2. Named(l) \in Seq(SUBSET Copy) /\ Len(Named(l)) = 1 + Len(s) /\ Named(l)[1] = e
    BY <1>1, <2>1
  <2> QED
    BY <1>1, <1>4, <2>2 DEF e
<1> QED
  BY <1>3, <1>4

\* What the first name that opens is.
LEMMA FirstOpens ==
  ASSUME NEW l \in Library, world \in Worlds, First(l)
  PROVE  /\ world.env[l] # None => handle[l] = world.env[l]
         /\ world.env[l] = None /\ (\E k \in DOMAIN world.sonames[l] : world.sonames[l][k] # None)
              => \E k \in DOMAIN world.sonames[l] : handle[l] = world.sonames[l][k]
<1>1. PICK n \in Nat \ {0} : NoneOpened(l, n - 1) /\ (n <= Len(Named(l)) => handle[l] = Named(l)[n])
  BY DEF First
<1>2. CASE world.env[l] # None
  <2>1. ~(1 \in 1..(n - 1))
    BY <1>1, <1>2, NamedIsSeq DEF NoneOpened
  <2>2. n = 1
    BY <2>1
  <2> QED
    BY <1>1, <1>2, <2>2, NamedIsSeq
<1>3. CASE world.env[l] = None
  <2>1. Named(l) = world.sonames[l] /\ Named(l) \in Seq(SUBSET Copy)
    BY <1>3, NamedIsSeq
  <2> SUFFICES ASSUME NEW k \in DOMAIN Named(l), Named(l)[k] # None
               PROVE  \E j \in DOMAIN Named(l) : handle[l] = Named(l)[j]
    BY <1>3, <2>1
  <2>2. k \in 1..Len(Named(l))
    BY <2>1
  <2>3. n <= k
    BY <1>1, <2>1, <2>2 DEF NoneOpened
  <2>4. n \in DOMAIN Named(l)
    BY <2>1, <2>2, <2>3
  <2> QED
    BY <1>1, <2>1, <2>2, <2>3, <2>4
<1> QED
  BY <1>2, <1>3

LEMMA LoaderInvImplies == LoaderInv => OnlyFitLibrariesAreUsed
<1> SUFFICES ASSUME LoaderInv PROVE OnlyFitLibrariesAreUsed
  OBVIOUS
<1>1. FitWhenCalled
  BY TheIsIn DEF LoaderInv, FitWhenCalled, CallsBfd, CallsBoth, Reading, Located
<1>2. FirstThatOpens
  BY FirstOpens DEF LoaderInv, FirstThatOpens
<1> QED
  BY <1>1, <1>2 DEF OnlyFitLibrariesAreUsed

LEMMA LoaderInvInit == Init => LoaderInv
<1> SUFFICES ASSUME Init PROVE LoaderInv
  OBVIOUS
<1>1. world \in Worlds /\ attempt = 0 /\ loaded = {} /\ pc = "open bfd"
      /\ handle = [l \in Library |-> None]
  BY SituationAssumption DEF Init, LoaderInit
<1>2. \A l \in Library : NoneOpened(l, attempt)
  BY <1>1, NoneOpenedYet
<1> QED
  BY <1>1, <1>2 DEF LoaderInv, OpenLabel, ResolveLabel, Reading, Located

\* Without a call of dlopen nothing of this changes but where the run is.
LEMMA LoaderKeeps ==
  ASSUME LoaderInv, UNCHANGED <<world, loaderVars, request>>,
         \/ pc' = pc
         \/ pc' \in {"exit 0", "exit 1"}
         \/ pc \in Reading \ {"open opcodes", "resolve opcodes"}
              /\ pc' \in {"symbols", "report", "views"}
         \/ pc = "views" /\ pc' = "open opcodes" /\ request.disassemble
         \/ pc \in Located /\ pc' \in Located
  PROVE  LoaderInv'
<1>1. /\ world' = world /\ attempt' = attempt /\ handle' = handle /\ loaded' = loaded
      /\ request' = request
  BY DEF loaderVars
<1>2. ASSUME NEW l \in Library PROVE Named(l)' = Named(l)
  BY <1>1 DEF Named
<1>3. ASSUME NEW l \in Library PROVE First(l) => First(l)'
  BY <1>1, <1>2 DEF First, NoneOpened
<1>4. ASSUME NEW l \in Library PROVE NoneOpened(l, attempt) => NoneOpened(l, attempt)'
  BY <1>1, <1>2 DEF NoneOpened
<1>5. ASSUME NEW l \in Library, attempt = 0 PROVE NoneOpened(l, attempt)'
  BY <1>4, <1>5, NoneOpenedYet
<1>6. ASSUME NEW l \in Library PROVE pc' = OpenLabel(l) => NoneOpened(l, attempt)' /\ l \notin loaded
  BY <1>4, <1>5, <1>6 DEF LoaderInv, Library, OpenLabel, ResolveLabel, Reading, Located
<1>7. ASSUME NEW l \in Library
      PROVE  /\ pc' = ResolveLabel(l) => handle[l] # None /\ l \notin loaded
             /\ pc' = ResolveLabel(l) \/ l \in loaded => First(l)'
  BY <1>3, <1>7 DEF LoaderInv, Library, OpenLabel, ResolveLabel, Reading, Located
<1> QED
  BY <1>1, <1>6, <1>7 DEF LoaderInv, Library, OpenLabel, ResolveLabel, Reading, Located

\* The step that may open a library extends what is known of its names.
LEMMA TryPathStep ==
  ASSUME LoaderInv, NEW l \in Library, TryPath(l), UNCHANGED request
  PROVE  LoaderInv'
<1>1. /\ world' = world /\ loaded' = loaded /\ attempt' = attempt + 1 /\ pc = OpenLabel(l)
      /\ attempt \in Nat /\ NoneOpened(l, attempt) /\ l \notin loaded /\ world \in Worlds
  BY DEF TryPath, LoaderInv, Opening
<1> DEFINE copy == Opened(l, attempt + 1)
<1>2. \/ copy = None /\ UNCHANGED <<pc, handle>>
      \/ copy # None /\ handle' = [handle EXCEPT ![l] = copy] /\ pc' = ResolveLabel(l)
  BY DEF TryPath
<1>3. ASSUME NEW m \in Library PROVE Named(m)' = Named(m)
  BY <1>1 DEF Named
<1>4. attempt + 1 <= Len(Named(l)) => copy = Named(l)[attempt + 1]
  BY DEF Opened
<1> HIDE DEF copy
<1>5. CASE copy = None /\ UNCHANGED <<pc, handle>>
  <2>1. ASSUME NEW k \in 1..(attempt + 1), k <= Len(Named(l)) PROVE Named(l)[k] = None
    <3>1. k \in 1..attempt \/ k = attempt + 1
      BY <1>1
    <3> QED
      BY <1>1, <1>4, <1>5, <2>1, <3>1 DEF NoneOpened
  <2>2. NoneOpened(l, attempt)'
    BY <1>1, <1>3, <2>1 DEF NoneOpened
  <2>3. ASSUME NEW m \in Library PROVE First(m) => First(m)'
    BY <1>1, <1>3, <1>5 DEF First, NoneOpened
  <2>4. pc' = pc /\ handle' = handle /\ request' = request /\ attempt' \in Nat
    BY <1>1, <1>5
  <2>5. CASE l = "bfd"
    BY <1>1, <2>2, <2>3, <2>4, <2>5 DEF LoaderInv, Library, OpenLabel, ResolveLabel, Reading, Located
  <2>6. CASE l = "opcodes"
    BY <1>1, <2>2, <2>3, <2>4, <2>6 DEF LoaderInv, Library, OpenLabel, ResolveLabel, Reading, Located
  <2> QED
    BY <2>5, <2>6 DEF Library
<1>6. CASE copy # None /\ handle' = [handle EXCEPT ![l] = copy] /\ pc' = ResolveLabel(l)
  <2>1. handle'[l] = copy /\ \A m \in Library \ {l} : handle'[m] = handle[m]
    BY <1>6 DEF LoaderInv
  <2>2. handle' = [m \in Library |-> handle'[m]]
    BY <1>6 DEF LoaderInv
  <2>3. First(l)'
    <3>1. PICK n \in Nat \ {0} : n = attempt + 1
      BY <1>1
    <3>2. \A k \in 1..(n - 1) : k <= Len(Named(l)) => Named(l)[k] = None
      BY <1>1, <3>1 DEF NoneOpened
    <3>3. n <= Len(Named(l)) => handle'[l] = Named(l)[n]
      BY <1>4, <2>1, <3>1
    <3> QED
      BY <1>3, <3>2, <3>3 DEF First, NoneOpened
  <2>4. ASSUME NEW m \in Library \ {l} PROVE First(m) => First(m)'
    BY <1>1, <1>3, <2>1 DEF First, NoneOpened
  <2>5. request' = request /\ attempt' \in Nat
    BY <1>1
  <2>6. CASE l = "bfd"
    BY <1>1, <1>6, <2>1, <2>2, <2>3, <2>4, <2>5, <2>6
       DEF LoaderInv, Library, OpenLabel, ResolveLabel, Reading, Located
  <2>7. CASE l = "opcodes"
    BY <1>1, <1>6, <2>1, <2>2, <2>3, <2>4, <2>5, <2>7
       DEF LoaderInv, Library, OpenLabel, ResolveLabel, Reading, Located
  <2> QED
    BY <2>6, <2>7 DEF Library
<1> QED
  BY <1>2, <1>5, <1>6

LEMMA AcceptStep ==
  ASSUME LoaderInv, AcceptBfd \/ AcceptOpcodes, UNCHANGED request
  PROVE  LoaderInv'
<1>1. world' = world /\ handle' = handle /\ request' = request
  BY DEF AcceptBfd, AcceptOpcodes
<1>2. ASSUME NEW l \in Library PROVE First(l) => First(l)'
  BY <1>1 DEF First, NoneOpened, Named
<1>3. CASE AcceptBfd
  <2>1. /\ pc = "resolve bfd" /\ attempt' = 0 /\ The(handle["bfd"]).complete
        /\ \/ /\ The(handle["bfd"]).compatible
              /\ pc' = "open binary" /\ loaded' = loaded \cup {"bfd"}
           \/ pc' = "exit 1" /\ loaded' = loaded
    BY <1>3 DEF AcceptBfd, Resolving, ResolveLabel
  <2>2. First("bfd")' /\ handle["bfd"] # None /\ loaded = {}
    BY <1>2, <2>1 DEF LoaderInv, ResolveLabel, Library
  <2> QED
    BY <1>1, <2>1, <2>2 DEF LoaderInv, Library, OpenLabel, ResolveLabel, Reading, Located
<1>4. CASE AcceptOpcodes
  <2>1. /\ pc = "resolve opcodes" /\ attempt' = attempt /\ The(handle["opcodes"]).complete
        /\ pc' = "sections" /\ loaded' = loaded \cup {"opcodes"}
    BY <1>4 DEF AcceptOpcodes, Resolving, ResolveLabel
  <2>2. ASSUME NEW l \in loaded' PROVE First(l)'
    BY <1>2, <2>1, <2>2 DEF LoaderInv, ResolveLabel, Library
  <2> QED
    BY <1>1, <2>1, <2>2 DEF LoaderInv, Library, OpenLabel, ResolveLabel, Reading, Located
<1> QED
  BY <1>3, <1>4

LEMMA LoaderInvNext == LoaderInv /\ [Next]_vars => LoaderInv'
<1> SUFFICES ASSUME LoaderInv, [Next]_vars PROVE LoaderInv'
  OBVIOUS
<1>1. CASE Load
  <2>1. UNCHANGED request
    BY <1>1 DEF Load, inspectionVars
  <2>2. ASSUME NEW l \in Library, NothingOpens(l) \/ MissingSymbol(l) PROVE LoaderInv'
    BY <2>1, <2>2, LoaderKeeps DEF NothingOpens, MissingSymbol
  <2> QED
    BY <1>1, <2>1, <2>2, TryPathStep, AcceptStep DEF Load, LoaderNext
<1>2. CASE OpenBinary \/ LoadSymbols \/ BuildReport \/ PrintViews
  <2>1. UNCHANGED <<world, loaderVars, request>>
    BY <1>2 DEF OpenBinary, LoadSymbols, BuildReport, PrintViews, inspectionVars
  <2>2. \/ pc' \in {"exit 0", "exit 1"}
        \/ pc \in {"open binary", "symbols", "report"} /\ pc' \in {"symbols", "report", "views"}
        \/ pc = "views" /\ pc' = "open opcodes" /\ request.disassemble
    BY <1>2 DEF OpenBinary, LoadSymbols, BuildReport, PrintViews
  <2> QED
    BY <2>1, <2>2, LoaderKeeps DEF Reading
<1>3. CASE PassSection \/ BeginSection \/ CannotBegin \/ Skip \/ Label \/ Decode \/ CannotDecode
           \/ EndListing \/ NextSection \/ EndInspection
  <2>1. UNCHANGED <<world, loaderVars, request>>
    BY <1>3 DEF PassSection, BeginSection, CannotBegin, Skip, Label, Decode, CannotDecode,
       EndListing, NextSection, EndInspection, inspectionVars
  <2>2. pc \in Located /\ pc' \in Located \cup {"exit 0", "exit 1"}
    BY <1>3 DEF PassSection, BeginSection, CannotBegin, Skip, Label, Decode, CannotDecode,
       EndListing, NextSection, EndInspection, Located
  <2> QED
    BY <2>1, <2>2, LoaderKeeps
<1>4. CASE UNCHANGED vars
  BY <1>4, LoaderKeeps DEF vars, inspectionVars
<1> QED
  BY <1>1, <1>2, <1>3, <1>4 DEF Next

(***************************************************************************)
(* load_bfd_runtime and load_opcodes_runtime, on every machine: nothing is *)
(* called in a library that is torn, of another ABI or not asked for, and  *)
(* the one that is used is the first that opens.                           *)
(***************************************************************************)
THEOREM LibrariesFit == Spec => []OnlyFitLibrariesAreUsed
BY LoaderInvInit, LoaderInvNext, LoaderInvImplies, PTL DEF Spec

-----------------------------------------------------------------------------
\* The listing.

Top == section.vma + Size >= AddressSpace

\* The cursor, the lines before it and where the run is.
ListingInv ==
  /\ binary.sections \in Seq(BinarySection) /\ next \in 0..Len(binary.sections)
  /\ section.vma \in 0..(AddressSpace - 1)
  /\ section.bytes \in Seq(0..1) /\ Size <= AddressSpace
  /\ address \in section.vma..(section.vma + Size)
  /\ lines \in Seq([at : Nat, length : Nat])
  /\ LinesTile
  /\ Top => lines = <<>> /\ zeros = {}
  /\ lines = <<>> => address = section.vma
  /\ pc \in {"listing", "decode"} => zeros = {}
  /\ pc = "decode" => ~AtEnd
  /\ pc = "listed" => ListingIsWhole

LEMMA ModuloFacts ==
  ASSUME NEW n \in Nat \ {0}, NEW a \in 0..(2 * n - 1)
  PROVE  a % n = IF a < n THEN a ELSE a - n
<1>1. CASE a < n
  <2>1. a \in 0..(n - 1)
    BY <1>1
  <2> QED
    BY <1>1, <2>1
<1>2. CASE a >= n
  <2>1. a \in n..(2 * n - 1)
    BY <1>2
  <2>2. a % n = a - n
    BY <2>1
  <2> QED
    BY <1>2, <2>2
<1> QED
  BY <1>1, <1>2

\* A section that reaches the end of the addresses is at its end at once.
LEMMA EndValue ==
  ASSUME ListingInv
  PROVE  /\ Size \in Nat
         /\ ~Top => End = section.vma + Size
         /\ Top => AtEnd
<1>1. /\ section.vma \in 0..(AddressSpace - 1) /\ Size \in Nat /\ Size <= AddressSpace
      /\ AddressSpace \in Nat \ {0}
  BY AddressAssumption DEF ListingInv, Size
<1> DEFINE a == section.vma + Size
<1>2. a \in 0..(2 * AddressSpace - 1)
  BY <1>1
<1>3. End = IF a < AddressSpace THEN a ELSE a - AddressSpace
  <2> HIDE DEF a
  <2>1. End = a % AddressSpace
    BY DEF End, a
  <2> QED
    BY <1>1, <1>2, <2>1, ModuloFacts
<1>4. Top => End <= section.vma /\ address = section.vma
  BY <1>1, <1>3 DEF Top, ListingInv
<1>5. ~Top => End = a
  BY <1>1, <1>3 DEF Top
<1> QED
  BY <1>1, <1>4, <1>5 DEF AtEnd

\* What a step that keeps the listing has to show.
LEMMA ListingKeeps ==
  ASSUME ListingInv, UNCHANGED <<section, listingVars, binary, next>>,
         pc' \in {"listing", "decode"} => zeros = {},
         pc' = "decode" => ~AtEnd,
         pc' = "listed" => ListingIsWhole
  PROVE  ListingInv'
BY DEF ListingInv, listingVars, Size, Top, LinesTile, ListingIsWhole, Offset, AtEnd, End, OnlyZerosFrom

LEMMA NoSectionPassed == ASSUME NEW S, NEW q \in Seq(S) PROVE 0 \in 0..Len(q)
<1>1. Len(q) \in Nat
  OBVIOUS
<1> QED
  BY <1>1

LEMMA ListingInvInit == Init => ListingInv
<1> SUFFICES ASSUME Init PROVE ListingInv
  OBVIOUS
<1>1. binary.sections \in Seq(BinarySection) /\ next = 0 /\ pc = "open bfd"
  BY SituationAssumption DEF Init
<1>2. /\ section = [vma |-> 0, bytes |-> <<>>, symbols |-> <<>>]
      /\ address = 0 /\ lines = <<>> /\ zeros = {}
  BY DEF Init
<1>3. Size = 0 /\ section.vma = 0 /\ section.bytes = <<>>
  BY <1>2 DEF Size
<1>4. LinesTile
  BY <1>2, <1>3 DEF LinesTile, Offset
<1>5. 0 \in 0..(AddressSpace - 1) /\ 0 <= AddressSpace
  BY AddressAssumption
<1>6. section.bytes \in Seq(0..1) /\ lines \in Seq([at : Nat, length : Nat])
  BY <1>2, <1>3
<1>7. next \in 0..Len(binary.sections)
  <2>1. next = 0 /\ binary.sections \in Seq(BinarySection)
    BY <1>1
  <2> QED
    BY <2>1, NoSectionPassed
<1>8. address \in section.vma..(section.vma + Size)
  BY <1>2, <1>3
<1> QED
  BY <1>1, <1>2, <1>3, <1>4, <1>5, <1>6, <1>7, <1>8 DEF ListingInv

LEMMA BeginSectionStep ==
  ASSUME ListingInv, BeginSection
  PROVE  ListingInv'
<1>1. next + 1 \in DOMAIN binary.sections /\ binary.sections \in Seq(BinarySection)
  BY DEF ListingInv, BeginSection
<1> DEFINE s == binary.sections[next + 1]
<1>2. s \in BinarySection
  BY <1>1
<1> HIDE DEF s
<1>3. s.vma \in 0..(AddressSpace - 1) /\ s.bytes \in Seq(0..1) /\ Len(s.bytes) <= AddressSpace
  BY <1>2 DEF BinarySection
<1>4. /\ section'.vma = s.vma /\ section'.bytes = s.bytes
      /\ address' = s.vma /\ lines' = <<>> /\ zeros' = {}
      /\ next' = next + 1 /\ binary' = binary /\ pc' = "listing"
  BY DEF BeginSection, StartListing, s
<1>5. Size' = Len(s.bytes) /\ Size' \in Nat
  BY <1>3, <1>4 DEF Size
<1>6. Offset' = 0
  BY <1>3, <1>4 DEF Offset
<1>7. LinesTile'
  BY <1>4, <1>5, <1>6 DEF LinesTile
<1>8. next' \in 0..Len(binary.sections)
  BY <1>1, <1>4 DEF ListingInv
<1> QED
  BY <1>1, <1>3, <1>4, <1>5, <1>7, <1>8 DEF ListingInv, Top

LEMMA SkipStep ==
  ASSUME ListingInv, Skip
  PROVE  ListingInv'
<1>1. /\ UNCHANGED <<section, address, lines, binary, next>>
      /\ zeros' = {Size - Offset} /\ pc' = "listed" /\ ~AtEnd /\ OnlyZerosFrom(Offset)
  BY DEF Skip, SkipZeros, AtZeros, inspectionVars
<1>2. Size' = Size /\ Offset' = Offset /\ OnlyZerosFrom(Offset)' /\ (Top' <=> Top) /\ ~Top
  BY <1>1, EndValue DEF Size, Offset, OnlyZerosFrom, Top
<1>3. Offset \in Int /\ Size \in Nat
  BY EndValue DEF ListingInv, Offset
<1>4. LinesTile'
  BY <1>1, <1>2, <1>3 DEF ListingInv, LinesTile
<1>5. ListingIsWhole'
  BY <1>1, <1>2 DEF ListingIsWhole, Top
<1> QED
  BY <1>1, <1>2, <1>4, <1>5 DEF ListingInv

\* Whatever the decoder returns, at least a byte and no more than is left.
LEMMA TakenIsInside ==
  ASSUME ListingInv, ~AtEnd, NEW n \in Int
  PROVE  Taken(n) \in 1..(Size - Offset) /\ Offset \in 0..(Size - 1)
<1>1. Size \in Nat /\ Offset \in 0..Size /\ Offset < Size
  BY EndValue DEF ListingInv, Offset, AtEnd
<1> QED
  BY <1>1 DEF Taken

LEMMA DecodeStep ==
  ASSUME ListingInv, Decode
  PROVE  ListingInv'
<1>1. PICK n \in -1..MaxDecoded : PrintLine(n)
  BY DEF Decode
<1> DEFINE t == Taken(n)
           o == Offset
<1>2. /\ lines' = Append(lines, [at |-> o, length |-> t]) /\ address' = address + t
      /\ UNCHANGED <<section, binary, next, zeros>> /\ pc = "decode" /\ pc' = "listing"
  BY <1>1 DEF PrintLine, Decode, inspectionVars
<1>3. t \in 1..(Size - o) /\ o \in 0..(Size - 1)
  <2>1. n \in Int
    BY DecoderAssumption
  <2> QED
    BY <1>2, <2>1, TakenIsInside DEF ListingInv
<1>4. Size \in Nat /\ ~Top /\ zeros = {}
  BY <1>2, EndValue DEF ListingInv
<1>5. Size' = Size /\ (Top' <=> Top)
  BY <1>2 DEF Size, Top
<1> HIDE DEF t
<1>6. Offset' = o + t /\ address' \in section.vma..(section.vma + Size)
  <2>1. section.vma \in Nat /\ address \in Nat /\ o = address - section.vma
    BY DEF ListingInv, Offset
  <2>2. Offset' = (address + t) - section.vma
    BY <1>2 DEF Offset
  <2>3. address' = address + t
    BY <1>2
  <2> HIDE DEF o
  <2>4. address + t <= section.vma + Size /\ section.vma <= address + t /\ t \in Int
    BY <1>3, <1>4, <2>1
  <2>5. Offset' = o + t
    BY <2>1, <2>2, <2>4, <1>3
  <2> QED
    BY <1>4, <2>1, <2>3, <2>4, <2>5
<1> HIDE DEF o
<1>7. lines' \in Seq([at : Nat, length : Nat])
  <2>1. [at |-> o, length |-> t] \in [at : Nat, length : Nat]
    BY <1>3, <1>4
  <2> QED
    BY <1>2, <2>1 DEF ListingInv
<1>8. LinesTile'
  <2> DEFINE k == Len(lines)
  <2>1. /\ lines \in Seq([at : Nat, length : Nat]) /\ k \in Nat /\ Len(lines') = k + 1
        /\ \A i \in 1..k : lines'[i] = lines[i]
        /\ lines'[k + 1] = [at |-> o, length |-> t]
        /\ DOMAIN lines' = 1..(k + 1) /\ DOMAIN lines = 1..k
    BY <1>2 DEF ListingInv
  <2>2. /\ \A i \in 1..k : /\ lines[i].length >= 1
                           /\ lines[i].at + lines[i].length = IF i = k THEN o ELSE lines[i + 1].at
        /\ lines # <<>> => lines[1].at = 0
    BY <2>1 DEF ListingInv, LinesTile, o
  <2> HIDE DEF k
  <2>3. ASSUME NEW i \in 1..(k + 1)
        PROVE  /\ lines'[i].length >= 1
               /\ lines'[i].at + lines'[i].length = IF i = k + 1 THEN o + t ELSE lines'[i + 1].at
    <3>1. CASE i = k + 1
      BY <1>3, <2>1, <3>1
    <3>2. CASE i = k
      BY <2>1, <2>2, <3>2
    <3>3. CASE i < k
      <4>1. i \in 1..k /\ i + 1 \in 1..k
        BY <2>1, <3>3
      <4> QED
        BY <2>1, <2>2, <3>3, <4>1
    <3> QED
      BY <2>1, <3>1, <3>2, <3>3
  <2>4. lines'[1].at = 0
    <3>1. CASE k = 0
      <4>1. lines = <<>>
        BY <2>1, <3>1 DEF k
      <4>2. o = 0
        BY <4>1, <1>4 DEF o, Offset, ListingInv
      <4> QED
        BY <2>1, <3>1, <4>2
    <3>2. CASE k # 0
      <4>1. 1 \in 1..k /\ lines # <<>>
        BY <2>1, <3>2 DEF k
      <4> QED
        BY <2>1, <2>2, <4>1
    <3> QED
      BY <3>1, <3>2
  <2>5. Offset' <= Size' /\ zeros' = {}
    BY <1>2, <1>3, <1>4, <1>5, <1>6
  <2> QED
    BY <1>6, <2>1, <2>3, <2>4, <2>5 DEF LinesTile
<1>9. lines' # <<>>
  BY <1>2 DEF ListingInv
<1> QED
  BY <1>2, <1>4, <1>5, <1>6, <1>7, <1>8, <1>9 DEF ListingInv

LEMMA ListingInvNext == ListingInv /\ [Next]_vars => ListingInv'
<1> SUFFICES ASSUME ListingInv, [Next]_vars PROVE ListingInv'
  OBVIOUS
<1>1. CASE Load \/ OpenBinary \/ LoadSymbols \/ BuildReport \/ PrintViews
  <2>1. UNCHANGED <<section, listingVars, binary, next>>
    BY <1>1 DEF Load, OpenBinary, LoadSymbols, BuildReport, PrintViews, inspectionVars
  <2>2. pc' \notin {"listing", "decode", "listed"} \/ pc' = pc
    BY <1>1 DEF Load, LoaderNext, TryPath, NothingOpens, MissingSymbol, AcceptBfd, AcceptOpcodes,
       ResolveLabel, OpenBinary, LoadSymbols, BuildReport, PrintViews
  <2> QED
    BY <2>1, <2>2, ListingKeeps DEF ListingInv
<1>2. CASE PassSection
  <2>1. UNCHANGED <<section, listingVars, binary, pc>> /\ next' = next + 1 /\ next < Len(binary.sections)
    BY <1>2 DEF PassSection
  <2>2. binary.sections \in Seq(BinarySection) /\ next' \in 0..Len(binary.sections)
    BY <2>1 DEF ListingInv
  <2> QED
    BY <2>1, <2>2 DEF ListingInv, listingVars, Size, Top, LinesTile, ListingIsWhole, Offset, AtEnd,
       End, OnlyZerosFrom
<1>3. CASE CannotBegin \/ CannotDecode \/ NextSection \/ EndInspection
  <2>1. /\ UNCHANGED <<section, listingVars, binary, next>>
        /\ pc' \in {"exit 0", "exit 1", "sections"}
    BY <1>3 DEF CannotBegin, CannotDecode, NextSection, EndInspection, inspectionVars
  <2> QED
    BY <2>1, ListingKeeps
<1>4. CASE Label
  <2>1. /\ UNCHANGED <<section, table, address, lines, zeros, binary, next>>
        /\ pc = "listing" /\ pc' = "decode" /\ ~AtEnd
    BY <1>4 DEF Label, PrintLabels, inspectionVars
  <2> QED
    BY <2>1 DEF ListingInv, Size, Top, LinesTile, Offset, AtEnd, End, OnlyZerosFrom
<1>5. CASE EndListing
  <2>1. UNCHANGED <<section, listingVars, binary, next>> /\ AtEnd /\ pc = "listing" /\ pc' = "listed"
    BY <1>5 DEF EndListing, inspectionVars
  <2>2. ListingIsWhole
    <3>1. CASE Top
      BY <3>1 DEF ListingInv, ListingIsWhole, Top
    <3>2. CASE ~Top
      <4>1. End = section.vma + Size /\ Size \in Nat
        BY <3>2, EndValue
      <4>2. address \in section.vma..(section.vma + Size) /\ section.vma \in Nat
        BY DEF ListingInv
      <4>3. Offset = Size
        BY <2>1, <4>1, <4>2 DEF AtEnd, Offset
      <4> QED
        BY <3>2, <4>3 DEF ListingIsWhole, Top
    <3> QED
      BY <3>1, <3>2
  <2> QED
    BY <2>1, <2>2, ListingKeeps
<1>6. CASE UNCHANGED vars
  BY <1>6, ListingKeeps DEF vars, inspectionVars, ListingInv
<1> QED
  BY <1>1, <1>2, <1>3, <1>4, <1>5, <1>6, BeginSectionStep, SkipStep, DecodeStep DEF Next

(***************************************************************************)
(* disassemble_section, for every section, address and decoder: the lines  *)
(* tile the section from its first byte, and a listing that has ended has  *)
(* left out nothing but a tail of zeros, or all of a section that reaches  *)
(* the end of the addresses.                                               *)
(***************************************************************************)
THEOREM LinesTileSections == Spec => [](LinesTile /\ (pc = "listed" => ListingIsWhole))
<1>1. ListingInv => LinesTile /\ (pc = "listed" => ListingIsWhole)
  BY DEF ListingInv
<1> QED
  BY <1>1, ListingInvInit, ListingInvNext, PTL DEF Spec

-----------------------------------------------------------------------------
(***************************************************************************)
(* collect_section_symbols.  A symbol's place in the sorted table is the   *)
(* number of symbols before it, and every place is some symbol's.          *)
(***************************************************************************)
Shown(s) == {i \in DOMAIN s : s[i].shown}

Earlier(s, i) == {j \in Shown(s) : Before(s, j, i)}

\* compare_symbols_by_address orders the symbols that are shown.
LEMMA BeforeIsOrder ==
  ASSUME NEW s \in Seq(Symbol), NEW i \in Shown(s), NEW j \in Shown(s), NEW k \in Shown(s)
  PROVE  /\ ~Before(s, i, i)
         /\ i = j \/ Before(s, i, j) \/ Before(s, j, i)
         /\ Before(s, i, j) /\ Before(s, j, k) => Before(s, i, k)
<1>1. i \in Int /\ j \in Int /\ k \in Int
  BY DEF Shown
<1>2. s[i] \in Symbol /\ s[j] \in Symbol /\ s[k] \in Symbol
  BY DEF Shown
<1>3. /\ s[i].value \in Nat /\ s[j].value \in Nat /\ s[k].value \in Nat
      /\ s[i].name \in Nat /\ s[j].name \in Nat /\ s[k].name \in Nat
  BY <1>2 DEF Symbol
<1> QED
  BY <1>1, <1>3 DEF Before

LEMMA ShownIsFinite ==
  ASSUME NEW s \in Seq(Symbol)
  PROVE  IsFiniteSet(Shown(s)) /\ Cardinality(Shown(s)) \in Nat
<1>1. Len(s) \in Nat /\ Shown(s) \in SUBSET (1..Len(s))
  BY DEF Shown
<1>2. IsFiniteSet(1..Len(s))
  BY <1>1, FS_Interval
<1> QED
  BY <1>1, <1>2, FS_Subset, FS_CardinalityType

LEMMA EarlierCounts ==
  ASSUME NEW s \in Seq(Symbol), NEW i \in Shown(s)
  PROVE  Cardinality(Earlier(s, i)) \in 0..(Cardinality(Shown(s)) - 1)
<1> DEFINE S == Shown(s)
           E == Earlier(s, i)
<1>1. IsFiniteSet(S) /\ Cardinality(S) \in Nat
  BY ShownIsFinite
<1>2. E \in SUBSET (S \ {i})
  BY BeforeIsOrder DEF Earlier
<1>3. IsFiniteSet(S \ {i}) /\ Cardinality(S \ {i}) = Cardinality(S) - 1
  BY <1>1, FS_RemoveElement
<1> HIDE DEF S, E
<1>4. IsFiniteSet(E) /\ Cardinality(E) <= Cardinality(S) - 1
  BY <1>2, <1>3, FS_Subset
<1>5. Cardinality(E) \in Nat
  BY <1>4, FS_CardinalityType
<1> QED
  BY <1>1, <1>4, <1>5 DEF S, E

\* A symbol before another has fewer symbols before it.
LEMMA EarlierGrows ==
  ASSUME NEW s \in Seq(Symbol), NEW i \in Shown(s), NEW j \in Shown(s), Before(s, i, j)
  PROVE  Cardinality(Earlier(s, i)) < Cardinality(Earlier(s, j))
<1> DEFINE A == Earlier(s, i)
           B == Earlier(s, j)
<1>1. i \notin A /\ A \cup {i} \in SUBSET B /\ A \in SUBSET Shown(s) /\ B \in SUBSET Shown(s)
  BY BeforeIsOrder DEF Earlier
<1> HIDE DEF A, B
<1>2. IsFiniteSet(A) /\ IsFiniteSet(B)
  BY <1>1, ShownIsFinite, FS_Subset
<1>3. Cardinality(A \cup {i}) = Cardinality(A) + 1
  BY <1>1, <1>2, FS_AddElement
<1>4. Cardinality(A \cup {i}) <= Cardinality(B)
  BY <1>1, <1>2, FS_Subset
<1>5. Cardinality(A) \in Nat /\ Cardinality(B) \in Nat
  BY <1>2, FS_CardinalityType
<1>6. Cardinality(A) < Cardinality(B)
  BY <1>3, <1>4, <1>5
<1> QED
  BY <1>6 DEF A, B

\* As many counts as symbols, and no two alike: each count is some symbol's.
LEMMA EveryPlaceIsTaken ==
  ASSUME NEW s \in Seq(Symbol), NEW c \in 0..(Cardinality(Shown(s)) - 1)
  PROVE  \E i \in Shown(s) : Cardinality(Earlier(s, i)) = c
<1> DEFINE S == Shown(s)
           N == 0..(Cardinality(S) - 1)
           f == [i \in S |-> Cardinality(Earlier(s, i))]
<1>1. f \in [S -> N]
  BY EarlierCounts
<1>2. ASSUME NEW i \in S, NEW j \in S, f[i] = f[j] PROVE i = j
  <2>1. Cardinality(Earlier(s, i)) = Cardinality(Earlier(s, j))
    BY <1>2
  <2>2. Cardinality(Earlier(s, i)) \in Int
    BY EarlierCounts
  <2>3. ~Before(s, i, j) /\ ~Before(s, j, i)
    BY <2>1, <2>2, EarlierGrows
  <2> QED
    BY <2>3, BeforeIsOrder
<1>3. f \in Injection(S, N)
  BY <1>1, <1>2 DEF Injection, IsInjective
<1>4. Cardinality(S) \in Nat /\ IsFiniteSet(S)
  BY ShownIsFinite
<1> HIDE DEF S, f
<1>5. IsFiniteSet(N) /\ Cardinality(N) = Cardinality(S)
  <2> DEFINE m == Cardinality(S) - 1
  <2>1. m \in Int
    BY <1>4
  <2> HIDE DEF m
  <2>2. IsFiniteSet(0..m) /\ Cardinality(0..m) = IF 0 > m THEN 0 ELSE m - 0 + 1
    BY <2>1, FS_Interval
  <2> QED
    BY <2>2, <1>4 DEF m
<1>6. f \in Surjection(S, N)
  BY <1>3, <1>5, FS_Injection
<1>7. PICK i \in S : f[i] = c
  BY <1>6 DEF Surjection, S
<1> QED
  BY <1>7 DEF f, S
(***************************************************************************)
(* The table is the symbols that are shown, each once, by address.         *)
(***************************************************************************)
LEMMA TableIsSorted ==
  ASSUME NEW s \in Seq(Symbol)
  PROVE  LET t == SortedSymbols(s)
         IN  /\ t \in Seq(Symbol) /\ Len(t) = Cardinality(Shown(s))
             /\ \A j, k \in 1..Len(t) : j < k => t[j].value <= t[k].value
             /\ \E at \in [1..Len(t) -> Shown(s)] :
                  /\ \A k \in 1..Len(t) : t[k] = s[at[k]]
                  /\ \A i \in Shown(s) : \E k \in 1..Len(t) : at[k] = i
                  /\ \A j, k \in 1..Len(t) : j < k => Before(s, at[j], at[k])
<1> DEFINE t == SortedSymbols(s)
           n == Cardinality(Shown(s))
           At(k) == CHOOSE i \in Shown(s) : Cardinality(Earlier(s, i)) = k - 1
           at == [k \in 1..n |-> At(k)]
<1>1. n \in Nat
  BY ShownIsFinite
<1>2. t = [k \in 1..n |-> s[At(k)]]
  BY DEF SortedSymbols, Shown, Earlier
<1>3. ASSUME NEW k \in 1..n
      PROVE  At(k) \in Shown(s) /\ Cardinality(Earlier(s, At(k))) = k - 1
  <2>1. k - 1 \in 0..(n - 1)
    BY <1>1
  <2>2. \E i \in Shown(s) : Cardinality(Earlier(s, i)) = k - 1
    BY <2>1, EveryPlaceIsTaken
  <2> QED
    BY <2>2
<1> HIDE DEF n, At
<1>4. at \in [1..n -> Shown(s)]
  BY <1>3
<1>5. t \in Seq(Symbol) /\ Len(t) = n
  <2>1. \A k \in 1..n : s[At(k)] \in Symbol
    BY <1>3 DEF Shown
  <2> QED
    BY <1>1, <1>2, <2>1
<1>6. ASSUME NEW j \in 1..n, NEW k \in 1..n, j < k
      PROVE  Before(s, at[j], at[k])
  <2>1. /\ at[j] \in Shown(s) /\ Cardinality(Earlier(s, at[j])) = j - 1
        /\ at[k] \in Shown(s) /\ Cardinality(Earlier(s, at[k])) = k - 1
    BY <1>3
  <2>2. j - 1 < k - 1
    BY <1>6
  <2>3. at[j] # at[k] /\ ~Before(s, at[k], at[j])
    BY <2>1, <2>2, EarlierGrows
  <2> QED
    BY <2>1, <2>3, BeforeIsOrder
<1>7. ASSUME NEW i \in Shown(s) PROVE \E k \in 1..n : at[k] = i
  <2> DEFINE k == Cardinality(Earlier(s, i)) + 1
  <2>1. k \in 1..n
    BY EarlierCounts, <1>1 DEF n
  <2>2. at[k] \in Shown(s) /\ Cardinality(Earlier(s, at[k])) = Cardinality(Earlier(s, i))
    BY <1>3, <2>1, EarlierCounts
  <2>3. ~Before(s, at[k], i) /\ ~Before(s, i, at[k])
    <3>1. Cardinality(Earlier(s, i)) \in Int
      BY EarlierCounts
    <3> QED
      BY <2>2, <3>1, EarlierGrows
  <2>4. at[k] = i
    BY <2>2, <2>3, BeforeIsOrder
  <2> QED
    BY <2>1, <2>4
<1>8. ASSUME NEW j \in 1..n, NEW k \in 1..n, j < k
      PROVE  t[j].value <= t[k].value
  <2>1. t[j] = s[at[j]] /\ t[k] = s[at[k]] /\ at[j] \in Shown(s) /\ at[k] \in Shown(s)
    BY <1>2, <1>4
  <2>2. s[at[j]].value \in Nat /\ s[at[k]].value \in Nat
    <3>1. \A i \in Shown(s) : s[i] \in Symbol
      BY DEF Shown
    <3> QED
      BY <2>1, <3>1 DEF Symbol
  <2> QED
    BY <1>6, <1>8, <2>1, <2>2 DEF Before
<1> HIDE DEF t, at
<1>9. /\ \A k \in 1..n : t[k] = s[at[k]]
      /\ \A i \in Shown(s) : \E k \in 1..n : at[k] = i
      /\ \A j, k \in 1..n : j < k => Before(s, at[j], at[k])
  BY <1>2, <1>6, <1>7 DEF at
<1> QED
  BY <1>4, <1>5, <1>8, <1>9 DEF n, t

-----------------------------------------------------------------------------
\* Every set of numbers that is not empty has a least one: the initial
\* intervals it spans are finite, and strict inclusion of those is well-founded.
LEMMA LeastExists ==
  ASSUME NEW S \in SUBSET Nat, S # {}
  PROVE  \E x \in S : \A y \in S : x <= y
<1> DEFINE U == {0..n : n \in S}
<1>1. U \subseteq FiniteSubsetsOf(Nat) /\ U # {}
  <2>1. ASSUME NEW n \in S PROVE IsFiniteSet(0..n) /\ 0..n \in SUBSET Nat
    BY FS_Interval
  <2> QED
    BY <2>1 DEF FiniteSubsetsOf
<1>2. PICK I \in U : \A J \in U : ~(<<J, I>> \in StrictSubsetOrdering(Nat))
  BY <1>1, FS_StrictSubsetOrderingWellFounded, WFMin
<1>3. PICK x \in S : I = 0..x
  OBVIOUS
<1>4. ASSUME NEW y \in S, y < x PROVE FALSE
  <2> DEFINE A == 0..y
             B == 0..x
  <2>1. A \subseteq B /\ A # B /\ A \in SUBSET Nat /\ B \in SUBSET Nat /\ A \in U
    BY <1>4
  <2>2. ~(<<A, B>> \in StrictSubsetOrdering(Nat))
    BY <1>2, <1>3, <2>1
  <2> HIDE DEF A, B
  <2>3. <<A, B>> \in StrictSubsetOrdering(Nat)
    BY <2>1 DEF StrictSubsetOrdering
  <2> QED
    BY <2>2, <2>3
<1> QED
  BY <1>4

\* A walk over the places of P from n on stops at m or at the first outside P.
LEMMA WalkStops ==
  ASSUME NEW n \in Nat, NEW m \in Nat, n <= m, NEW P
  PROVE  \E k \in n..m : (k = m \/ k \notin P) /\ \A j \in n..(k - 1) : j \in P
<1> DEFINE S == {k \in n..m : k = m \/ k \notin P}
<1>1. S \in SUBSET Nat /\ m \in S
  OBVIOUS
<1>2. PICK k \in S : \A j \in S : k <= j
  BY <1>1, LeastExists
<1>3. ASSUME NEW j \in n..(k - 1) PROVE j \in P
  <2>1. j \in n..m /\ j # m /\ ~(k <= j)
    BY <1>3
  <2> QED
    BY <1>2, <2>1
<1> QED
  BY <1>2, <1>3

\* The symbols at the address of the loop are those from From to before To.
LEMMA CursorFindsLabels ==
  ASSUME table \in Seq(Symbol), address \in Nat,
         cursor \in 1..(Len(table) + 1),
         \A j, k \in 1..Len(table) : j < k => table[j].value <= table[k].value,
         \A k \in 1..(cursor - 1) : table[k].value < address
  PROVE  /\ From \in 1..(Len(table) + 1) /\ To \in From..(Len(table) + 1)
         /\ {k \in 1..Len(table) : table[k].value = address} = From..(To - 1)
         /\ \A k \in 1..(To - 1) : table[k].value <= address
<1> DEFINE n == Len(table)
           P == {k \in 1..n : table[k].value < address}
           Q == {k \in 1..n : table[k].value = address}
<1>1. n \in Nat /\ DOMAIN table = 1..n /\ \A k \in 1..n : table[k].value \in Nat
  <2>1. \A k \in 1..n : table[k] \in Symbol
    OBVIOUS
  <2> QED
    BY <2>1 DEF Symbol
<1>2. /\ From \in cursor..(n + 1)
      /\ From = n + 1 \/ ~(table[From].value < address)
      /\ \A j \in cursor..(From - 1) : table[j].value < address
  <2>1. \E k \in cursor..(n + 1) : /\ k = n + 1 \/ k \notin P
                                   /\ \A j \in cursor..(k - 1) : j \in P
    <3>1. cursor \in Nat /\ n + 1 \in Nat /\ cursor <= n + 1
      BY <1>1
    <3> HIDE DEF P, n
    <3> QED
      BY <3>1, WalkStops
  <2>2. \E k \in cursor..(n + 1) : /\ k = n + 1 \/ ~(table[k].value < address)
                                   /\ \A j \in cursor..(k - 1) : table[j].value < address
    BY <2>1, <1>1
  <2> QED
    BY <2>2 DEF From, FirstNot
<1>3. From \in Nat /\ From <= n + 1
  BY <1>1, <1>2
<1>4. /\ To \in From..(n + 1)
      /\ To = n + 1 \/ table[To].value # address
      /\ \A j \in From..(To - 1) : table[j].value = address
  <2>1. \E k \in From..(n + 1) : /\ k = n + 1 \/ k \notin Q
                                 /\ \A j \in From..(k - 1) : j \in Q
    <3>1. From \in Nat /\ n + 1 \in Nat /\ From <= n + 1
      BY <1>1, <1>3
    <3> HIDE DEF Q, n
    <3> QED
      BY <3>1, WalkStops
  <2>2. \E k \in From..(n + 1) : /\ k = n + 1 \/ table[k].value # address
                                 /\ \A j \in From..(k - 1) : table[j].value = address
    BY <2>1, <1>1, <1>2
  <2> QED
    BY <2>2 DEF To, FirstNot
<1> HIDE DEF n
<1>5. From \in 1..(n + 1) /\ To \in Nat /\ cursor \in Nat /\ 1 <= cursor
  BY <1>1, <1>2, <1>4
<1>6. ASSUME NEW k \in 1..n
      PROVE  /\ k < From => table[k].value < address
             /\ k >= From => table[k].value >= address
             /\ k >= To => table[k].value > address
  <2>1. k < From => table[k].value < address
    <3>1. k \in 1..(cursor - 1) \/ k \in cursor..(From - 1) \/ k >= From
      BY <1>1, <1>5
    <3> QED
      BY <3>1, <1>2, <1>5
  <2>2. k >= From => table[k].value >= address
    <3>1. k >= From => From \in 1..n /\ (k = From \/ From < k)
      BY <1>1, <1>5
    <3>2. From \in 1..n => table[From].value >= address
      BY <1>1, <1>2
    <3>3. From \in 1..n /\ From < k => table[From].value <= table[k].value
      BY DEF n
    <3> QED
      BY <1>1, <3>1, <3>2, <3>3
  <2>3. k >= To => table[k].value > address
    <3>1. k >= To => To \in 1..n /\ To >= From /\ (k = To \/ To < k)
      BY <1>1, <1>4, <1>5
    <3>2. To \in 1..n => table[To].value > address
      <4>1. To \in 1..n => To >= From /\ table[To].value # address
        BY <1>1, <1>4, <1>5
      <4>2. To \in 1..n => table[To].value >= address
        <5>1. To \in 1..n => From \in 1..n /\ (To = From \/ From < To)
          BY <1>1, <1>4, <1>5
        <5>2. From \in 1..n => table[From].value >= address
          BY <1>1, <1>2
        <5>3. From \in 1..n /\ To \in 1..n /\ From < To
                => table[From].value <= table[To].value
          BY DEF n
        <5> QED
          BY <1>1, <5>1, <5>2, <5>3
      <4> QED
        BY <1>1, <4>1, <4>2
    <3>3. To \in 1..n /\ To < k => table[To].value <= table[k].value
      BY DEF n
    <3> QED
      BY <1>1, <3>1, <3>2, <3>3
  <2> QED
    BY <2>1, <2>2, <2>3
<1>7. ASSUME NEW k \in 1..n
      PROVE  table[k].value = address <=> k \in From..(To - 1)
  <2>1. table[k].value = address => k >= From /\ ~(k >= To)
    BY <1>1, <1>5, <1>6
  <2>2. k >= From /\ ~(k >= To) <=> k \in From..(To - 1)
    BY <1>1, <1>5
  <2> QED
    BY <2>1, <2>2, <1>4
<1>8. \A k \in From..(To - 1) : k \in 1..n
  BY <1>1, <1>4, <1>5
<1>9. ASSUME NEW k \in 1..(To - 1) PROVE table[k].value <= address
  <2>1. k \in 1..n /\ (k < From \/ k \in From..(To - 1))
    BY <1>1, <1>4, <1>5
  <2> QED
    BY <2>1, <1>1, <1>4, <1>6
<1> QED
  BY <1>4, <1>5, <1>7, <1>8, <1>9 DEF n

LabelLine == [name : Nat, line : Nat]

\* The labels of the i-th line are those of the symbols at its address.
ExactAt(i) ==
  LET here  == {k \in DOMAIN table : table[k].value = LabelledAt(i)}
      above == {k \in DOMAIN labels : labels[k].line = i}
  IN  \E d \in -Len(table)..Len(labels) :
        above = {k + d : k \in here} /\ \A k \in here : labels[k + d].name = table[k].name

(***************************************************************************)
(* The cursor has passed exactly the symbols before the address while the  *)
(* loop is at its top, and those at the address too once their labels are  *)
(* printed; no label belongs to a line that is still to come.              *)
(***************************************************************************)
LabelInv ==
  /\ binary.static \in Seq(BinarySymbol) /\ binary.dynamic \in Seq(BinarySymbol)
  /\ section.symbols \in Seq(Symbol)
  /\ table = SortedSymbols(section.symbols)
  /\ cursor \in 1..(Len(table) + 1)
  /\ labels \in Seq(LabelLine)
  /\ \A i \in 1..Len(lines) : ExactAt(i)
  /\ pc = "listing" =>
       /\ \A k \in 1..(cursor - 1) : table[k].value < address
       /\ \A k \in 1..Len(labels) : labels[k].line <= Len(lines)
  /\ pc = "decode" =>
       /\ \A k \in 1..(cursor - 1) : table[k].value <= address
       /\ \A k \in 1..Len(labels) : labels[k].line <= Len(lines) + 1
       /\ ExactAt(Len(lines) + 1)

LEMMA LabelInvImplies == LabelInv => LabelsAreExact
<1> SUFFICES ASSUME LabelInv PROVE LabelsAreExact
  OBVIOUS
<1>1. \A i \in 1..Len(lines) : ExactAt(i)
  BY DEF LabelInv
<1>2. table = SortedSymbols(section.symbols)
  BY DEF LabelInv
<1> QED
  BY <1>1, <1>2 DEF LabelsAreExact, ExactAt

\* What keeps a line's labels: its address, and that no more are printed for it.
LEMMA ExactKept ==
  ASSUME table \in Seq(Symbol), labels \in Seq(LabelLine),
         NEW i, ExactAt(i), table' = table, LabelledAt(i)' = LabelledAt(i),
         NEW e \in Nat, Len(labels') = Len(labels) + e,
         \A k \in 1..Len(labels) : labels'[k] = labels[k],
         \A k \in (Len(labels) + 1)..(Len(labels) + e) : labels'[k].line # i
  PROVE  ExactAt(i)'
<1> DEFINE n == Len(labels)
           m == Len(table)
           here == {k \in DOMAIN table : table[k].value = LabelledAt(i)}
           above == {k \in DOMAIN labels : labels[k].line = i}
<1>1. n \in Nat /\ m \in Nat /\ DOMAIN labels = 1..n /\ DOMAIN labels' = 1..(n + e)
  OBVIOUS
<1>2. PICK d \in -m..n : /\ above = {k + d : k \in here}
                         /\ \A k \in here : labels[k + d].name = table[k].name
  BY DEF ExactAt
<1>3. {k \in DOMAIN labels' : labels'[k].line = i} = above
  <2>1. ASSUME NEW k \in 1..(n + e) PROVE labels'[k].line = i <=> k \in above
    <3>1. k \in 1..n \/ k \in (n + 1)..(n + e)
      BY <1>1
    <3>2. k \in (n + 1)..(n + e) => k \notin 1..n
      BY <1>1
    <3> QED
      BY <3>1, <3>2, <1>1
  <2>2. above \subseteq 1..(n + e)
    BY <1>1
  <2> QED
    BY <2>1, <2>2, <1>1
<1>4. ASSUME NEW k \in here PROVE labels'[k + d].name = table'[k].name
  <2>1. k + d \in above
    BY <1>2
  <2> QED
    BY <1>1, <1>2, <2>1
<1>5. d \in -Len(table')..Len(labels')
  <2>1. Len(table') = m /\ Len(labels') = n + e
    OBVIOUS
  <2> QED
    BY <1>1, <2>1
<1>6. {k \in DOMAIN table' : table'[k].value = LabelledAt(i)'} = here
  OBVIOUS
<1> HIDE DEF here, above
<1> QED
  BY <1>2, <1>3, <1>4, <1>5, <1>6 DEF ExactAt

\* What a step that keeps the listing has to show.
LEMMA LabelKeeps ==
  ASSUME LabelInv, UNCHANGED <<section, table, address, cursor, lines, labels, binary>>,
         pc' = pc \/ pc' \notin {"listing", "decode"}
  PROVE  LabelInv'
<1>1. ASSUME NEW i, ExactAt(i) PROVE ExactAt(i)'
  BY <1>1 DEF ExactAt, LabelledAt
<1>2. /\ section' = section /\ table' = table /\ cursor' = cursor /\ labels' = labels
      /\ lines' = lines /\ address' = address /\ binary' = binary
  OBVIOUS
<1> QED
  BY <1>1, <1>2 DEF LabelInv

LEMMA LabelInvInit == Init => LabelInv
<1> SUFFICES ASSUME Init PROVE LabelInv
  OBVIOUS
<1>1. binary.static \in Seq(BinarySymbol) /\ binary.dynamic \in Seq(BinarySymbol)
  BY SituationAssumption DEF Init
<1>2. /\ section.symbols = <<>> /\ table = <<>> /\ cursor = 1 /\ labels = <<>>
      /\ lines = <<>>
  BY DEF Init
<1>3. SortedSymbols(<<>>) = <<>>
  <2> DEFINE s == <<>>
  <2>1. s \in Seq(Symbol) /\ Shown(s) = {}
    BY DEF Shown
  <2>2. SortedSymbols(s) \in Seq(Symbol) /\ Len(SortedSymbols(s)) = Cardinality(Shown(s))
    BY <2>1, TableIsSorted
  <2>3. Cardinality(Shown(s)) = 0
    BY <2>1, FS_EmptySet
  <2> QED
    BY <2>2, <2>3
<1>4. 1..Len(lines) = {} /\ cursor \in 1..(Len(table) + 1)
      /\ section.symbols \in Seq(Symbol) /\ labels \in Seq(LabelLine)
  <2>1. Len(lines) = 0 /\ Len(table) = 0
    BY <1>2
  <2>2. 1..Len(lines) = {} /\ cursor \in 1..(Len(table) + 1)
    BY <1>2, <2>1
  <2>3. section.symbols \in Seq(Symbol)
    BY <1>2
  <2>4. labels \in Seq(LabelLine)
    BY <1>2
  <2> QED
    BY <2>2, <2>3, <2>4
<1> QED
  BY <1>1, <1>2, <1>3, <1>4 DEF LabelInv, Init

\* The symbols of a section are the loaded table's, with what is shown of them.
LEMMA SymbolsInIsSeq ==
  ASSUME LabelInv, NEW n
  PROVE  SymbolsIn(n) \in Seq(Symbol)
<1> DEFINE all == CASE symbols = "static"  -> binary.static
                    [] symbols = "dynamic" -> binary.dynamic
                    [] OTHER               -> <<>>
<1>1. all \in Seq(BinarySymbol)
  BY DEF LabelInv
<1> HIDE DEF all
<1>2. \A k \in DOMAIN all :
        [name |-> all[k].name, value |-> all[k].value,
         shown |-> all[k].shown /\ all[k].section = n] \in Symbol
  <2> SUFFICES ASSUME NEW k \in DOMAIN all
               PROVE  [name |-> all[k].name, value |-> all[k].value,
                       shown |-> all[k].shown /\ all[k].section = n] \in Symbol
    OBVIOUS
  <2>1. all[k] \in BinarySymbol
    BY <1>1
  <2> QED
    BY <2>1 DEF BinarySymbol, Symbol
<1>3. DOMAIN all = 1..Len(all) /\ Len(all) \in Nat
  BY <1>1
<1>4. [k \in DOMAIN all |-> [name |-> all[k].name, value |-> all[k].value,
                             shown |-> all[k].shown /\ all[k].section = n]] \in Seq(Symbol)
  BY <1>2, <1>3
<1> QED
  BY <1>4 DEF SymbolsIn, all

LEMMA BeginSectionLabels ==
  ASSUME LabelInv, BeginSection
  PROVE  LabelInv'
<1>1. /\ section'.symbols = SymbolsIn(next + 1) /\ table' = SortedSymbols(section'.symbols)
      /\ cursor' = 1 /\ lines' = <<>> /\ labels' = <<>> /\ pc' = "listing"
      /\ binary' = binary
  BY DEF BeginSection, StartListing
<1>2. section'.symbols \in Seq(Symbol)
  BY <1>1, SymbolsInIsSeq
<1>3. table' \in Seq(Symbol)
  BY <1>1, <1>2, TableIsSorted
<1>4. 1 \in 1..(Len(table') + 1)
  <2>1. Len(table') \in Nat
    BY <1>3
  <2> QED
    BY <2>1
<1> QED
  BY <1>1, <1>2, <1>4 DEF LabelInv

LEMMA ConcatIs ==
  ASSUME NEW S, NEW s \in Seq(S), NEW t \in Seq(S)
  PROVE  /\ s \o t \in Seq(S) /\ Len(s \o t) = Len(s) + Len(t)
         /\ Len(s) \in Nat /\ Len(t) \in Nat
         /\ \A k \in 1..Len(s) : (s \o t)[k] = s[k]
         /\ \A k \in 1..Len(t) : (s \o t)[Len(s) + k] = t[k]
OBVIOUS

\* The labels that PrintLabels appends are those of the next line.
LEMMA LabelStep ==
  ASSUME ListingInv, LabelInv, Label
  PROVE  LabelInv'
<1> DEFINE n == Len(labels)
           e == To - From
           fresh == [k \in 1..e |->
                       [name |-> table[From + k - 1].name, line |-> Len(lines) + 1]]
<1>1. /\ pc = "listing" /\ pc' = "decode" /\ cursor' = To /\ labels' = labels \o fresh
      /\ section' = section /\ table' = table /\ address' = address /\ lines' = lines
      /\ binary' = binary
  BY DEF Label, PrintLabels, inspectionVars
<1>0. /\ table \in Seq(Symbol)
      /\ \A j, k \in 1..Len(table) : j < k => table[j].value <= table[k].value
  BY TableIsSorted DEF LabelInv
<1>2. /\ table \in Seq(Symbol) /\ labels \in Seq(LabelLine)
      /\ lines \in Seq([at : Nat, length : Nat])
  BY <1>0 DEF LabelInv, ListingInv
<1>3. address \in Nat
  BY EndValue DEF ListingInv
<1>4. /\ From \in 1..(Len(table) + 1) /\ To \in From..(Len(table) + 1)
      /\ {k \in 1..Len(table) : table[k].value = address} = From..(To - 1)
      /\ \A k \in 1..(To - 1) : table[k].value <= address
  BY <1>0, <1>1, <1>3, CursorFindsLabels DEF LabelInv
<1>5. n \in Nat /\ e \in Nat /\ Len(lines) \in Nat /\ Len(table) \in Nat
  BY <1>2, <1>4
<1>6. \A k \in 1..e : From + k - 1 \in From..(To - 1) /\ From + k - 1 \in 1..Len(table)
  BY <1>4, <1>5
<1>7. fresh \in Seq(LabelLine) /\ Len(fresh) = e
  <2>1. \A k \in 1..Len(table) : table[k].name \in Nat
    <3>1. \A k \in 1..Len(table) : table[k] \in Symbol
      BY <1>2
    <3> QED
      BY <3>1 DEF Symbol
  <2>2. \A k \in 1..e : [name |-> table[From + k - 1].name, line |-> Len(lines) + 1]
                          \in LabelLine
    BY <1>5, <1>6, <2>1 DEF LabelLine
  <2> HIDE DEF e
  <2> QED
    BY <1>5, <2>2
<1>8. \A k \in 1..e : /\ fresh[k].name = table[From + k - 1].name
                      /\ fresh[k].line = Len(lines) + 1
  OBVIOUS
<1> HIDE DEF fresh, e
<1>9. /\ labels' \in Seq(LabelLine) /\ Len(labels') = n + e
      /\ \A k \in 1..n : labels'[k] = labels[k]
      /\ \A k \in 1..e : labels'[n + k] = fresh[k]
  <2> DEFINE both == labels \o fresh
  <2>1. labels' = both
    BY <1>1
  <2>2. labels \in Seq(LabelLine)
    BY <1>2
  <2>3. /\ both \in Seq(LabelLine) /\ Len(both) = n + e
        /\ \A k \in 1..n : both[k] = labels[k]
        /\ \A k \in 1..e : both[n + k] = fresh[k]
    <3>1. fresh \in Seq(LabelLine) /\ Len(fresh) = e
      BY <1>7
    <3>2. /\ both \in Seq(LabelLine) /\ Len(both) = n + Len(fresh)
          /\ \A k \in 1..n : both[k] = labels[k]
          /\ \A k \in 1..Len(fresh) : both[n + k] = fresh[k]
      <4> HIDE DEF both, n
      <4>1. \A s, t \in Seq(LabelLine) :
              /\ s \o t \in Seq(LabelLine) /\ Len(s \o t) = Len(s) + Len(t)
              /\ \A k \in 1..Len(s) : (s \o t)[k] = s[k]
              /\ \A k \in 1..Len(t) : (s \o t)[Len(s) + k] = t[k]
        BY ConcatIs
      <4> QED
        BY <2>2, <3>1, <4>1 DEF both, n
    <3> HIDE DEF both, n
    <3> QED
      BY <3>1, <3>2
  <2> HIDE DEF both
  <2> QED
    BY <2>1, <2>3
<1>10. \A k \in (n + 1)..(n + e) : labels'[k].line = Len(lines) + 1
  <2> SUFFICES ASSUME NEW k \in (n + 1)..(n + e)
               PROVE  labels'[k].line = Len(lines) + 1
    OBVIOUS
  <2>1. k - n \in 1..e /\ k = n + (k - n)
    BY <1>5
  <2> QED
    BY <1>8, <1>9, <2>1
<1>11. \A k \in 1..n : labels[k].line <= Len(lines) /\ labels[k].line \in Nat
  <2>1. \A k \in 1..n : labels[k] \in LabelLine
    BY <1>2
  <2> QED
    BY <2>1, <1>1 DEF LabelInv, LabelLine
<1>12. \A k \in 1..Len(labels') : labels'[k].line <= Len(lines') + 1
  <2> SUFFICES ASSUME NEW k \in 1..(n + e) PROVE labels'[k].line <= Len(lines) + 1
    BY <1>1, <1>9
  <2>1. k \in 1..n \/ k \in (n + 1)..(n + e)
    BY <1>5
  <2> QED
    BY <1>5, <1>9, <1>10, <1>11, <2>1
<1>13. ASSUME NEW i \in 1..Len(lines) PROVE ExactAt(i)'
  <2>1. ExactAt(i) /\ LabelledAt(i)' = LabelledAt(i)
    BY <1>1 DEF LabelInv, LabelledAt
  <2>2. \A k \in (n + 1)..(n + e) : labels'[k].line # i
    BY <1>5, <1>10
  <2> QED
    BY <1>1, <1>2, <1>5, <1>9, <2>1, <2>2, ExactKept
<1>14. ExactAt(Len(lines) + 1)'
  <2>0. PICK i \in Nat : i = Len(lines) + 1
    BY <1>5
  <2> DEFINE d == n + 1 - From
             here == From..(To - 1)
  <2>1. LabelledAt(i)' = address /\ Len(lines)' = Len(lines)
    BY <1>1, <1>5, <2>0 DEF LabelledAt
  <2>2. {k \in DOMAIN table' : table'[k].value = LabelledAt(i)'} = here
    <3>1. /\ table' = table /\ LabelledAt(i)' = address /\ DOMAIN table = 1..Len(table)
      BY <1>1, <1>2, <2>1
    <3> HIDE DEF here
    <3>2. {k \in 1..Len(table) : table[k].value = address} = here
      BY <1>4 DEF here
    <3> QED
      BY <3>1, <3>2
  <2>3. d \in -Len(table')..Len(labels')
    BY <1>1, <1>4, <1>5, <1>9
  <2>4. {k \in DOMAIN labels' : labels'[k].line = i} = (n + 1)..(n + e)
    <3>1. ASSUME NEW k \in 1..(n + e)
          PROVE  labels'[k].line = i <=> k \in (n + 1)..(n + e)
      <4>1. k \in 1..n => labels'[k].line # i /\ k \notin (n + 1)..(n + e)
        BY <1>5, <1>9, <1>11, <2>0
      <4>2. k \in 1..n \/ k \in (n + 1)..(n + e)
        BY <1>5
      <4> QED
        BY <4>1, <4>2, <1>10, <2>0
    <3>2. DOMAIN labels' = 1..(n + e) /\ (n + 1)..(n + e) \subseteq 1..(n + e)
      BY <1>5, <1>9
    <3> QED
      BY <3>1, <3>2
  <2>5. {k + d : k \in here} = (n + 1)..(n + e)
    <3>1. ASSUME NEW k \in here PROVE k + d \in (n + 1)..(n + e)
      BY <1>4, <1>5 DEF e
    <3>2. ASSUME NEW x \in (n + 1)..(n + e) PROVE x - d \in here /\ x = (x - d) + d
      BY <1>4, <1>5 DEF e
    <3> HIDE DEF here, d
    <3> QED
      BY <3>1, <3>2
  <2>6. ASSUME NEW k \in here PROVE labels'[k + d].name = table'[k].name
    <3>1. /\ k - From + 1 \in 1..e /\ k + d = n + (k - From + 1)
          /\ From + (k - From + 1) - 1 = k
      BY <1>4, <1>5 DEF e
    <3> HIDE DEF d
    <3>2. labels'[k + d] = fresh[k - From + 1]
      BY <3>1, <1>9
    <3>3. fresh[k - From + 1].name = table[k].name
      BY <3>1, <1>8
    <3> QED
      BY <1>1, <3>2, <3>3
  <2> HIDE DEF here, d
  <2>7. /\ {k \in DOMAIN labels' : labels'[k].line = i} = {k + d : k \in here}
        /\ \A k \in here : labels'[k + d].name = table'[k].name
    BY <2>4, <2>5, <2>6
  <2>8. ExactAt(i)'
    BY <2>2, <2>3, <2>7 DEF ExactAt
  <2> QED
    BY <2>0, <2>1, <2>8
<1>15. cursor' \in 1..(Len(table') + 1) /\ \A k \in 1..(cursor' - 1) : table'[k].value <= address'
  BY <1>1, <1>4, <1>5
<1>16. \A i \in 1..Len(lines') : ExactAt(i)'
  BY <1>1, <1>13
<1> QED
  BY <1>1, <1>2, <1>9, <1>12, <1>14, <1>15, <1>16 DEF LabelInv

\* The labels printed before the decoder is called are those of its line.
LEMMA DecodeLabels ==
  ASSUME ListingInv, LabelInv, Decode
  PROVE  LabelInv'
<1>1. PICK n \in -1..MaxDecoded : PrintLine(n)
  BY DEF Decode
<1> DEFINE t == Taken(n)
           o == Offset
           m == Len(lines)
<1>2. /\ lines' = Append(lines, [at |-> o, length |-> t]) /\ address' = address + t
      /\ section' = section /\ table' = table /\ cursor' = cursor /\ labels' = labels
      /\ binary' = binary /\ pc = "decode" /\ pc' = "listing"
  BY <1>1 DEF PrintLine, Decode, inspectionVars
<1>3. t \in Nat /\ t >= 1 /\ o \in Nat /\ section.vma + o = address
  <2>1. n \in Int
    BY DecoderAssumption
  <2>2. t \in 1..(Size - o) /\ o \in 0..(Size - 1)
    BY <1>2, <2>1, TakenIsInside DEF ListingInv
  <2>3. Size \in Nat
    BY EndValue
  <2>4. section.vma \in Nat /\ address \in Nat /\ o = address - section.vma
    BY EndValue DEF ListingInv, Offset
  <2> HIDE DEF t, o
  <2> QED
    BY <2>2, <2>3, <2>4
<1> HIDE DEF t, o
<1>4. /\ table \in Seq(Symbol) /\ labels \in Seq(LabelLine)
      /\ lines \in Seq([at : Nat, length : Nat]) /\ address \in Nat
  BY TableIsSorted, EndValue DEF LabelInv, ListingInv
<1>5. /\ m \in Nat /\ Len(lines') = m + 1 /\ \A i \in 1..m : lines'[i] = lines[i]
      /\ lines'[m + 1] = [at |-> o, length |-> t]
  BY <1>2, <1>4
<1> HIDE DEF m
<1>6. ASSUME NEW i \in 1..(m + 1) PROVE LabelledAt(i)' = LabelledAt(i)
  <2>1. CASE i \in 1..m
    BY <1>2, <1>5, <2>1 DEF LabelledAt, m
  <2>2. CASE i = m + 1
    <3>1. LabelledAt(i) = address
      BY <1>5, <2>2 DEF LabelledAt, m
    <3>2. LabelledAt(i)' = section.vma + o
      BY <1>2, <1>5, <2>2 DEF LabelledAt
    <3> QED
      BY <1>3, <3>1, <3>2
  <2> QED
    BY <1>5, <2>1, <2>2
<1>7. ASSUME NEW i \in 1..(m + 1) PROVE ExactAt(i)'
  <2>1. ExactAt(i)
    <3>1. i \in 1..m \/ i = m + 1
      BY <1>5
    <3> QED
      BY <1>2, <3>1 DEF LabelInv, m
  <2>2. PICK e \in Nat : e = 0
    OBVIOUS
  <2>3. Len(labels') = Len(labels) + e
    BY <1>2, <1>4, <2>2
  <2>4. \A k \in (Len(labels) + 1)..(Len(labels) + e) : labels'[k].line # i
    BY <1>4, <2>2
  <2> QED
    BY <1>2, <1>4, <1>6, <2>1, <2>3, <2>4, ExactKept
<1>8. \A k \in 1..(cursor' - 1) : table'[k].value < address'
  <2>1. \A k \in 1..(cursor - 1) : table[k].value <= address /\ table[k].value \in Nat
    <3>1. \A k \in 1..Len(table) : table[k].value \in Nat
      <4>1. \A k \in 1..Len(table) : table[k] \in Symbol
        BY <1>4
      <4> QED
        BY <4>1 DEF Symbol
    <3>2. cursor \in 1..(Len(table) + 1) /\ Len(table) \in Nat
      BY <1>4 DEF LabelInv
    <3>3. \A k \in 1..(cursor - 1) : k \in 1..Len(table)
      BY <3>2
    <3> QED
      BY <1>2, <3>1, <3>3 DEF LabelInv
  <2> QED
    BY <1>2, <1>3, <1>4, <2>1
<1>9. \A k \in 1..Len(labels') : labels'[k].line <= Len(lines')
  BY <1>2, <1>5 DEF LabelInv, m
<1> QED
  BY <1>2, <1>4, <1>5, <1>7, <1>8, <1>9 DEF LabelInv

LEMMA LabelInvNext == ListingInv /\ LabelInv /\ [Next]_vars => LabelInv'
<1> SUFFICES ASSUME ListingInv, LabelInv, [Next]_vars PROVE LabelInv'
  OBVIOUS
<1>1. CASE Load \/ OpenBinary \/ LoadSymbols \/ BuildReport \/ PrintViews
  <2>1. UNCHANGED <<section, table, address, cursor, lines, labels, binary>>
    BY <1>1 DEF Load, OpenBinary, LoadSymbols, BuildReport, PrintViews, inspectionVars, listingVars
  <2>2. pc' \notin {"listing", "decode"} \/ pc' = pc
    BY <1>1 DEF Load, LoaderNext, TryPath, NothingOpens, MissingSymbol, AcceptBfd, AcceptOpcodes,
       ResolveLabel, OpenBinary, LoadSymbols, BuildReport, PrintViews
  <2> QED
    BY <2>1, <2>2, LabelKeeps
<1>2. CASE PassSection \/ CannotBegin \/ Skip \/ CannotDecode \/ EndListing \/ NextSection
           \/ EndInspection
  <2>1. UNCHANGED <<section, table, address, cursor, lines, labels, binary>>
    BY <1>2 DEF PassSection, CannotBegin, Skip, SkipZeros, CannotDecode, EndListing, NextSection,
       EndInspection, inspectionVars, listingVars
  <2>2. pc' = pc \/ pc' \in {"exit 0", "exit 1", "sections", "listed"}
    BY <1>2 DEF PassSection, CannotBegin, Skip, CannotDecode, EndListing, NextSection, EndInspection
  <2> QED
    BY <2>1, <2>2, LabelKeeps
<1>3. CASE UNCHANGED vars
  BY <1>3, LabelKeeps DEF vars, inspectionVars, listingVars
<1> QED
  BY <1>1, <1>2, <1>3, BeginSectionLabels, LabelStep, DecodeLabels DEF Next

(***************************************************************************)
(* disassemble_section and collect_section_symbols, for every binary and   *)
(* decoder: a listing is its section, line after line without a gap, each  *)
(* with the labels of exactly the symbols at its address, and nothing is   *)
(* left out at its end.                                                    *)
(***************************************************************************)
THEOREM ListingsAreTheSections == Spec => []ListingIsTheSection
<1>1. ListingInv /\ LabelInv => ListingIsTheSection
  BY LabelInvImplies DEF ListingInv, ListingIsTheSection
<1> QED
  BY <1>1, ListingInvInit, ListingInvNext, LabelInvInit, LabelInvNext, PTL DEF Spec

-----------------------------------------------------------------------------
\* The types.

\* FlattenSeq computes from the left: on every number of sequences there is
\* a function that does, and what it gives is a sequence of their elements.
LEMMA FlattenIsSeq ==
  ASSUME NEW S, NEW q \in Seq(Seq(S))
  PROVE  FlattenSeq(q) \in Seq(S)
<1> DEFINE n == Len(q)
           Joins(g, m) == g = [i \in 1..m |-> IF i = 1 THEN q[i] ELSE g[i - 1] \o q[i]]
           Reached(m) == \E g : Joins(g, m)
<1>1. n \in Nat /\ \A i \in 1..n : q[i] \in Seq(S)
  OBVIOUS
<1>2. CASE n = 0
  <2>1. q = <<>> /\ FlattenSeq(q) = q
    BY <1>2 DEF FlattenSeq
  <2>2. <<>> \in Seq(S)
    OBVIOUS
  <2> QED
    BY <2>1, <2>2
<1>3. CASE n # 0
  <2>1. \A m \in 1..n : Reached(m)
    <3> DEFINE B == {m \in 1..n : ~Reached(m)}
    <3> SUFFICES ASSUME B # {} PROVE FALSE
      <4> HIDE DEF Reached, n
      <4> QED
        OBVIOUS
    <3>1. PICK m \in B : \A k \in B : m <= k
      <4>1. B \in SUBSET Nat
        <5> HIDE DEF Reached
        <5> QED
          OBVIOUS
      <4> HIDE DEF B
      <4> QED
        BY <4>1, LeastExists
    <3>2. CASE m = 1
      <4> DEFINE g == [i \in 1..m |-> q[i]]
      <4>1. g = [i \in 1..m |-> IF i = 1 THEN q[i] ELSE g[i - 1] \o q[i]]
        BY <3>2
      <4> QED
        BY <4>1
    <3>3. CASE m # 1
      <4>1. m - 1 \in 1..n /\ ~(m <= m - 1)
        BY <1>1, <3>3
      <4>2. PICK g : Joins(g, m - 1)
        BY <3>1, <4>1
      <4> DEFINE h == [i \in 1..m |-> IF i = m THEN g[m - 1] \o q[m] ELSE g[i]]
      <4>3. ASSUME NEW i \in 1..m
            PROVE  h[i] = IF i = 1 THEN q[i] ELSE h[i - 1] \o q[i]
        <5>1. CASE i = m
          <6>1. i # 1 /\ i - 1 \in 1..m /\ i - 1 # m
            BY <3>3, <5>1
          <6>2. h[i] = g[i - 1] \o q[i] /\ h[i - 1] = g[i - 1]
            BY <5>1, <6>1
          <6> QED
            BY <6>1, <6>2
        <5>2. CASE i # m
          <6>1. i \in 1..(m - 1) /\ h[i] = g[i]
            BY <5>2
          <6>2. g[i] = IF i = 1 THEN q[i] ELSE g[i - 1] \o q[i]
            BY <4>2, <6>1
          <6>3. i # 1 => i - 1 \in 1..m /\ i - 1 # m
            BY <6>1
          <6>4. i # 1 => h[i - 1] = g[i - 1]
            BY <6>3
          <6> QED
            BY <6>1, <6>2, <6>4
        <5> QED
          BY <5>1, <5>2
      <4>4. Joins(h, m)
        <5>1. h = [i \in 1..m |-> h[i]]
          OBVIOUS
        <5> HIDE DEF h
        <5>2. [i \in 1..m |-> h[i]] = [i \in 1..m |-> IF i = 1 THEN q[i] ELSE h[i - 1] \o q[i]]
          BY <4>3
        <5> QED
          BY <5>1, <5>2
      <4> QED
        BY <4>4
    <3> QED
      BY <3>2, <3>3
  <2> DEFINE f == CHOOSE g : Joins(g, n)
  <2>2. Joins(f, n)
    <3>1. n \in 1..n
      BY <1>1, <1>3
    <3>2. Reached(n)
      <4> HIDE DEF Reached, n
      <4> QED
        BY <2>1, <3>1
    <3> HIDE DEF Joins, n
    <3> QED
      BY <3>2
  <2>3. FlattenSeq(q) = f[n]
    BY <1>3 DEF FlattenSeq
  <2> HIDE DEF f
  <2>4. \A i \in 1..n : f[i] = IF i = 1 THEN q[i] ELSE f[i - 1] \o q[i]
    BY <2>2
  <2>5. \A i \in 1..n : f[i] \in Seq(S)
    <3> DEFINE B == {i \in 1..n : f[i] \notin Seq(S)}
    <3> SUFFICES ASSUME B # {} PROVE FALSE
      OBVIOUS
    <3>1. PICK i \in B : \A k \in B : i <= k
      <4>1. B \in SUBSET Nat
        OBVIOUS
      <4> HIDE DEF B
      <4> QED
        BY <4>1, LeastExists
    <3>2. i # 1 => i - 1 \in 1..n /\ i - 1 \notin B
      BY <1>1, <3>1
    <3>3. i # 1 => f[i - 1] \in Seq(S)
      BY <3>2
    <3>4. f[i] \in Seq(S)
      <4>1. f[i] = IF i = 1 THEN q[i] ELSE f[i - 1] \o q[i]
        BY <2>4, <3>1
      <4>2. q[i] \in Seq(S)
        BY <1>1, <3>1
      <4>3. \A s, t \in Seq(S) : s \o t \in Seq(S)
        BY ConcatIs
      <4> QED
        BY <3>3, <4>1, <4>2, <4>3
    <3> QED
      BY <3>4
  <2> QED
    BY <1>1, <1>3, <2>3, <2>5
<1> QED
  BY <1>2, <1>3

\* A directory's entries give copies of libraries, and so do their own.
LEMMA MatchingIsSeq ==
  ASSUME world \in Worlds, NEW d, NEW l
  PROVE  Matching(d, l) \in Seq(SUBSET Copy)
<1> DEFINE entries == EntriesOf(d)
           q == [k \in DOMAIN entries |->
                   LET e == entries[k] IN IF e.kind = l THEN <<e.copy>> ELSE <<>>]
<1>1. entries \in Seq(DirectoryEntry)
  BY WorldAssumption DEF EntriesOf
<1>2. Len(entries) \in Nat /\ DOMAIN entries = 1..Len(entries)
  BY <1>1
<1> HIDE DEF entries
<1>3. \A k \in DOMAIN entries : q[k] \in Seq(SUBSET Copy)
  <2>1. \A k \in DOMAIN entries : entries[k].copy \in SUBSET Copy
    <3>1. \A k \in DOMAIN entries : entries[k] \in DirectoryEntry
      BY <1>1
    <3> QED
      BY <3>1 DEF DirectoryEntry
  <2>2. \A c \in SUBSET Copy : <<c>> \in Seq(SUBSET Copy)
    OBVIOUS
  <2>3. <<>> \in Seq(SUBSET Copy)
    OBVIOUS
  <2>4. \A k \in DOMAIN entries :
          q[k] = IF entries[k].kind = l THEN <<entries[k].copy>> ELSE <<>>
    OBVIOUS
  <2> HIDE DEF q
  <2> QED
    BY <2>1, <2>2, <2>3, <2>4
<1>4. q \in Seq(Seq(SUBSET Copy))
  BY <1>2, <1>3
<1>5. Matching(d, l) = FlattenSeq(q)
  BY DEF Matching, entries
<1> QED
  BY <1>4, <1>5, FlattenIsSeq

LEMMA ScanIsSeq ==
  ASSUME world \in Worlds, NEW d, NEW l
  PROVE  Scan(d, l) \in Seq(SUBSET Copy)
<1> DEFINE entries == EntriesOf(d)
           q == [k \in DOMAIN entries |->
                   LET e == entries[k]
                   IN  IF e.kind = l THEN <<e.copy>>
                       ELSE IF e.kind = "directory" THEN Matching(e.name, l)
                       ELSE <<>>]
<1>1. entries \in Seq(DirectoryEntry)
  BY WorldAssumption DEF EntriesOf
<1>2. Len(entries) \in Nat /\ DOMAIN entries = 1..Len(entries)
  BY <1>1
<1> HIDE DEF entries
<1>3. \A k \in DOMAIN entries : q[k] \in Seq(SUBSET Copy)
  <2>1. \A k \in DOMAIN entries : entries[k].copy \in SUBSET Copy
    <3>1. \A k \in DOMAIN entries : entries[k] \in DirectoryEntry
      BY <1>1
    <3> QED
      BY <3>1 DEF DirectoryEntry
  <2>2. \A k \in DOMAIN entries : Matching(entries[k].name, l) \in Seq(SUBSET Copy)
    BY MatchingIsSeq
  <2>3. \A c \in SUBSET Copy : <<c>> \in Seq(SUBSET Copy)
    OBVIOUS
  <2>4. <<>> \in Seq(SUBSET Copy)
    OBVIOUS
  <2>5. \A k \in DOMAIN entries :
          q[k] = IF entries[k].kind = l THEN <<entries[k].copy>>
                 ELSE IF entries[k].kind = "directory" THEN Matching(entries[k].name, l)
                 ELSE <<>>
    OBVIOUS
  <2> HIDE DEF q
  <2> QED
    BY <2>1, <2>2, <2>3, <2>4, <2>5
<1>4. q \in Seq(Seq(SUBSET Copy))
  BY <1>2, <1>3
<1>5. Scan(d, l) = FlattenSeq(q)
  BY DEF Scan, entries
<1> QED
  BY <1>4, <1>5, FlattenIsSeq

LEMMA DirectoriesAreSeq ==
  ASSUME world \in Worlds, NEW l
  PROVE  InDirectories(l) \in Seq(SUBSET Copy) /\ Len(InDirectories(l)) \in Nat
<1> DEFINE here == Scan(Preferred(l), l)
           q == [k \in DOMAIN SystemDirectories |-> Scan(SystemDirectories[k], l)]
           there == FlattenSeq(q)
<1>1. here \in Seq(SUBSET Copy)
  BY ScanIsSeq
<1>2. there \in Seq(SUBSET Copy)
  <2>1. \A k \in DOMAIN SystemDirectories : Scan(SystemDirectories[k], l) \in Seq(SUBSET Copy)
    BY ScanIsSeq
  <2>2. Len(SystemDirectories) \in Nat /\ DOMAIN SystemDirectories = 1..Len(SystemDirectories)
    BY DirectoriesAssumption
  <2>3. q \in Seq(Seq(SUBSET Copy))
    BY <2>1, <2>2
  <2> HIDE DEF q
  <2> QED
    BY <2>3, FlattenIsSeq
<1>3. InDirectories(l) = here \o there
  BY DEF InDirectories
<1> HIDE DEF here, there
<1>4. InDirectories(l) \in Seq(SUBSET Copy)
  <2>1. \A s, t \in Seq(SUBSET Copy) : s \o t \in Seq(SUBSET Copy)
    BY ConcatIs
  <2> QED
    BY <1>1, <1>2, <1>3, <2>1
<1> QED
  BY <1>4

\* Whatever is tried, it is a copy of a library or does not open.
LEMMA OpenedIsCopy ==
  ASSUME world \in Worlds, NEW l \in Library,
         NEW n \in 1..(Len(Named(l)) + Len(InDirectories(l)))
  PROVE  Opened(l, n) \in SUBSET Copy
<1>4. InDirectories(l) \in Seq(SUBSET Copy)
  BY DirectoriesAreSeq
<1>5. Named(l) \in Seq(SUBSET Copy)
  BY NamedIsSeq
<1>6. Len(Named(l)) \in Nat /\ Len(InDirectories(l)) \in Nat
  BY <1>4, <1>5
<1>7. CASE n <= Len(Named(l))
  <2>1. n \in 1..Len(Named(l))
    BY <1>6, <1>7
  <2> QED
    BY <1>5, <1>7, <2>1 DEF Opened
<1>8. CASE ~(n <= Len(Named(l)))
  <2>1. n - Len(Named(l)) \in 1..Len(InDirectories(l))
    BY <1>6, <1>8
  <2> QED
    BY <1>4, <1>8, <2>1 DEF Opened
<1> QED
  BY <1>7, <1>8

Steps ==
  {"open bfd", "resolve bfd", "open binary", "symbols", "report", "views",
   "open opcodes", "resolve opcodes", "sections", "listing", "decode",
   "listed", "exit 0", "exit 1"}

\* What the other invariants leave open of the types.
TypeInv ==
  /\ handle \in [Library -> SUBSET Copy]
  /\ \A l \in loaded : handle[l] # None
  /\ zeros \subseteq Nat
  /\ symbols \in {"none", "static", "dynamic"}
  /\ pc \in Steps

LEMMA TypeInvImplies == LoaderInv /\ ListingInv /\ LabelInv /\ TypeInv => TypeOK
<1> SUFFICES ASSUME LoaderInv, ListingInv, LabelInv, TypeInv PROVE TypeOK
  OBVIOUS
<1>1. LoaderTypeOK
  BY DEF LoaderInv, TypeInv, LoaderTypeOK
<1>2. address \in 0..AddressSpace
  <2>1. /\ section.vma \in 0..(AddressSpace - 1) /\ Size \in Nat
        /\ address \in section.vma..(section.vma + Size)
        /\ Top => address = section.vma
    BY EndValue DEF ListingInv
  <2>2. ~Top => section.vma + Size < AddressSpace
    BY <2>1, AddressAssumption DEF Top
  <2> QED
    BY <2>1, <2>2, AddressAssumption
<1>3. table \in Seq(Symbol) /\ cursor \in 1..(Len(table) + 1)
  BY TableIsSorted DEF LabelInv
<1>4. lines \in Seq([at : Nat, length : Nat]) /\ labels \in Seq([name : Nat, line : Nat])
  BY DEF ListingInv, LabelInv, LabelLine
<1>5. ListingTypeOK
  BY <1>2, <1>3, <1>4 DEF ListingTypeOK, TypeInv
<1>6. next \in 0..Len(binary.sections)
  BY DEF ListingInv
<1> QED
  BY <1>1, <1>5, <1>6 DEF TypeOK, TypeInv, Steps

LEMMA TypeInvInit == Init => TypeInv
BY DEF Init, LoaderInit, TypeInv, Steps, None

LEMMA TypeInvNext == LoaderInv /\ ListingInv /\ TypeInv /\ [Next]_vars => TypeInv'
<1> SUFFICES ASSUME LoaderInv, ListingInv, TypeInv, [Next]_vars PROVE TypeInv'
  OBVIOUS
<1>1. CASE Load
  <2>1. zeros' = zeros /\ symbols' = symbols
    BY <1>1 DEF Load, listingVars, inspectionVars
  <2>2. ASSUME NEW l \in Library, TryPath(l) PROVE TypeInv'
    <3>1. /\ attempt < Len(Named(l)) + Len(InDirectories(l)) /\ attempt \in Nat
          /\ l \notin loaded /\ loaded' = loaded /\ world \in Worlds
      BY <2>2 DEF TryPath, LoaderInv, Opening
    <3> DEFINE copy == Opened(l, attempt + 1)
    <3>2. \/ UNCHANGED <<pc, handle>>
          \/ handle' = [handle EXCEPT ![l] = copy] /\ pc' = ResolveLabel(l)
      BY <2>2 DEF TryPath
    <3>3. attempt + 1 \in 1..(Len(Named(l)) + Len(InDirectories(l)))
      <4>1. Named(l) \in Seq(SUBSET Copy)
        BY <3>1, NamedIsSeq
      <4>2. Len(Named(l)) \in Nat
        BY <4>1
      <4>3. Len(InDirectories(l)) \in Nat
        BY <3>1, DirectoriesAreSeq
      <4> QED
        BY <3>1, <4>2, <4>3
    <3>4. copy \in SUBSET Copy
      BY <3>1, <3>3, OpenedIsCopy
    <3> HIDE DEF copy
    <3>5. /\ handle' \in [Library -> SUBSET Copy]
          /\ \A m \in loaded : handle'[m] # None
      BY <3>1, <3>2, <3>4 DEF TypeInv, LoaderInv
    <3>6. pc' \in Steps
      BY <3>2 DEF TypeInv, Steps, ResolveLabel
    <3> QED
      BY <2>1, <3>1, <3>5, <3>6 DEF TypeInv
  <2>3. ASSUME NEW l \in Library, NothingOpens(l) \/ MissingSymbol(l) PROVE TypeInv'
    BY <2>1, <2>3 DEF NothingOpens, MissingSymbol, loaderVars, TypeInv, Steps
  <2>4. ASSUME AcceptBfd \/ AcceptOpcodes PROVE TypeInv'
    <3>1. handle' = handle /\ pc' \in Steps
      BY <2>4 DEF AcceptBfd, AcceptOpcodes, Steps
    <3>2. \A l \in loaded' : handle[l] # None
      BY <2>4 DEF AcceptBfd, AcceptOpcodes, Resolving, LoaderInv, Library, TypeInv
    <3> QED
      BY <2>1, <3>1, <3>2 DEF TypeInv
  <2> QED
    BY <1>1, <2>2, <2>3, <2>4 DEF Load, LoaderNext
<1>2. CASE OpenBinary \/ LoadSymbols \/ BuildReport \/ PrintViews
  <2>1. handle' = handle /\ loaded' = loaded /\ zeros' = zeros
    BY <1>2 DEF OpenBinary, LoadSymbols, BuildReport, PrintViews, loaderVars, listingVars
  <2>2. symbols' \in {"none", "static", "dynamic"}
    BY <1>2 DEF OpenBinary, LoadSymbols, BuildReport, PrintViews, inspectionVars, TypeInv
  <2>3. pc' \in Steps
    BY <1>2 DEF OpenBinary, LoadSymbols, BuildReport, PrintViews, Steps
  <2> QED
    BY <2>1, <2>2, <2>3 DEF TypeInv
<1>3. CASE Skip
  <2>1. Size - Offset \in Nat
    BY EndValue DEF ListingInv, Offset
  <2> QED
    BY <1>3, <2>1 DEF Skip, SkipZeros, loaderVars, inspectionVars, TypeInv, Steps
<1>4. CASE PassSection \/ BeginSection \/ CannotBegin \/ Label \/ Decode \/ CannotDecode
           \/ EndListing \/ NextSection \/ EndInspection
  <2>1. handle' = handle /\ loaded' = loaded /\ symbols' = symbols
    BY <1>4 DEF PassSection, BeginSection, CannotBegin, Label, Decode, CannotDecode,
       EndListing, NextSection, EndInspection, loaderVars, inspectionVars
  <2>2. zeros' = zeros \/ zeros' = {}
    BY <1>4 DEF PassSection, BeginSection, StartListing, CannotBegin, Label, PrintLabels, Decode,
       PrintLine, CannotDecode, EndListing, NextSection, EndInspection, listingVars
  <2>3. pc' = pc \/ pc' \in Steps
    BY <1>4 DEF PassSection, BeginSection, CannotBegin, Label, Decode, CannotDecode,
       EndListing, NextSection, EndInspection, Steps
  <2> QED
    BY <2>1, <2>2, <2>3 DEF TypeInv
<1>5. CASE UNCHANGED vars
  BY <1>5 DEF vars, loaderVars, listingVars, inspectionVars, TypeInv
<1> QED
  BY <1>1, <1>2, <1>3, <1>4, <1>5 DEF Next

\* The handles, counters and lists of an inspection stay what they are.
THEOREM TypeCorrect == Spec => []TypeOK
BY LoaderInvInit, LoaderInvNext, ListingInvInit, ListingInvNext, LabelInvInit, LabelInvNext,
   TypeInvInit, TypeInvNext, TypeInvImplies, PTL DEF Spec
=============================================================================
