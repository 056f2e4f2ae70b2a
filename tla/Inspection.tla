------------------------------ MODULE Inspection ------------------------------
(***************************************************************************)
(* An inspection that prints text, from the loading of libbfd in main to   *)
(* its exit status: inspect_binary of src/binsight.c, with the loader and  *)
(* the disassembly it runs.  The report it prints is that of               *)
(* AnalysisReport, one step here.                                          *)
(***************************************************************************)
EXTENDS BinutilsLoader, Disassembly

CONSTANT
  Situations  \* which binary is inspected where, and what is asked of it

\* A section as BFD has it, none larger than the addresses.
BinarySection ==
  [name : STRING, vma : 0..(AddressSpace - 1),
   bytes : {b \in Seq(0..1) : Len(b) <= AddressSpace}, code : BOOLEAN, contents : BOOLEAN]

\* section is the number of its section; shown is what symbol_is_displayable
\* says of its name and flags.
BinarySymbol == [name : Nat, value : Nat, section : Nat, shown : BOOLEAN]

ASSUME SituationAssumption ==
  \A s \in Situations :
    /\ s.world \in Worlds
    /\ s.binary.sections \in Seq(BinarySection)
    /\ s.binary.static \in Seq(BinarySymbol) /\ s.binary.dynamic \in Seq(BinarySymbol)

VARIABLES
  binary,    \* what BFD makes of the file: sections and two symbol tables
  request,   \* options_t, as far as it decides what is disassembled
  symbols,   \* which symbol table was loaded: the static, the dynamic, none
  next       \* the sections that have been passed by

inspectionVars == <<binary, request, symbols, next>>

vars == <<world, pc, loaderVars, section, listingVars, inspectionVars>>

Init ==
  /\ LoaderInit
  /\ pc = "open bfd"
  /\ \E s \in Situations :
       world = s.world /\ binary = s.binary /\ request = s.request
  /\ symbols = "none" /\ next = 0
  /\ section = [vma |-> 0, bytes |-> <<>>, symbols |-> <<>>]
  /\ table = <<>> /\ address = 0 /\ cursor = 1
  /\ lines = <<>> /\ labels = <<>> /\ zeros = {}

-----------------------------------------------------------------------------
\* section_is_selected and section_is_disassemblable.
Selected(s) == request.filter = {} \/ s.name \in request.filter

Disassemblable(s) ==
  /\ Selected(s)
  /\ s.contents /\ Len(s.bytes) # 0
  /\ request.all \/ request.filter # {} \/ s.code

Load ==
  LoaderNext /\ UNCHANGED <<section, listingVars, inspectionVars>>

\* bfd_openr and bfd_check_format_matches.
OpenBinary ==
  /\ pc = "open binary"
  /\ pc' \in {"symbols", "exit 1"}
  /\ UNCHANGED <<world, loaderVars, section, listingVars, inspectionVars>>

\* load_symbols: the dynamic table only if the static one is empty.
LoadSymbols ==
  /\ pc = "symbols"
  /\ \/ /\ pc' = "report"
        /\ symbols' = IF binary.static # <<>> THEN "static"
                      ELSE IF binary.dynamic # <<>> THEN "dynamic" ELSE "none"
     \/ pc' = "exit 1" /\ UNCHANGED symbols
  /\ UNCHANGED <<world, loaderVars, section, listingVars, binary, request, next>>

\* build_analysis_report, and the check that the filters match a section.
BuildReport ==
  /\ pc = "report"
  /\ pc' \in IF \E k \in DOMAIN binary.sections : Selected(binary.sections[k])
             THEN {"views", "exit 1"}
             ELSE IF request.filter = {} THEN {"views", "exit 1"} ELSE {"exit 1"}
  /\ UNCHANGED <<world, loaderVars, section, listingVars, inspectionVars>>

\* The blocks of text before the disassembly; the raw views can fail.
PrintViews ==
  /\ pc = "views"
  /\ pc' \in {IF request.disassemble THEN "open opcodes" ELSE "exit 0", "exit 1"}
  /\ UNCHANGED <<world, loaderVars, section, listingVars, inspectionVars>>

PassSection ==
  /\ pc = "sections"
  /\ next < Len(binary.sections)
  /\ ~Disassemblable(binary.sections[next + 1])
  /\ next' = next + 1
  /\ UNCHANGED <<world, pc, loaderVars, section, listingVars, binary, request, symbols>>

\* The table that was loaded, of which the n-th section shows its own symbols.
SymbolsIn(n) ==
  LET all == CASE symbols = "static"  -> binary.static
               [] symbols = "dynamic" -> binary.dynamic
               [] OTHER               -> <<>>
  IN  [k \in DOMAIN all |->
         [name |-> all[k].name, value |-> all[k].value,
          shown |-> all[k].shown /\ all[k].section = n]]

BeginSection ==
  /\ pc = "sections"
  /\ next < Len(binary.sections)
  /\ LET s == binary.sections[next + 1] IN
       /\ Disassemblable(s)
       /\ StartListing([vma |-> s.vma, bytes |-> s.bytes, symbols |-> SymbolsIn(next + 1)])
  /\ next' = next + 1
  /\ pc' = "listing"
  /\ UNCHANGED <<world, loaderVars, binary, request, symbols>>

\* The contents, the memory for the symbols or a decoder are missing.
CannotBegin ==
  /\ pc = "sections"
  /\ next < Len(binary.sections)
  /\ Disassemblable(binary.sections[next + 1])
  /\ pc' = "exit 1"
  /\ UNCHANGED <<world, loaderVars, section, listingVars, inspectionVars>>

Skip ==
  /\ pc = "listing"
  /\ SkipZeros
  /\ pc' = "listed"
  /\ UNCHANGED <<world, loaderVars, inspectionVars>>

Label ==
  /\ pc = "listing"
  /\ PrintLabels
  /\ pc' = "decode"
  /\ UNCHANGED <<world, loaderVars, inspectionVars>>

\* A bug: a decoder that gives up is asked again.
DecodeAgain ==
  /\ pc = "decode"
  /\ \E n \in -1..MaxDecoded :
       IF n > 0 THEN PrintLine(n) ELSE UNCHANGED <<section, listingVars>>
  /\ pc' = "listing"
  /\ UNCHANGED <<world, loaderVars, inspectionVars>>

Decode ==
  /\ pc = "decode"
  /\ \E n \in -1..MaxDecoded : PrintLine(n)
  /\ pc' = "listing"
  /\ UNCHANGED <<world, loaderVars, inspectionVars>>

\* open_memstream fails.
CannotDecode ==
  /\ pc = "decode"
  /\ pc' = "exit 1"
  /\ UNCHANGED <<world, loaderVars, section, listingVars, inspectionVars>>

EndListing ==
  /\ pc = "listing"
  /\ AtEnd
  /\ pc' = "listed"
  /\ UNCHANGED <<world, loaderVars, section, listingVars, inspectionVars>>

NextSection ==
  /\ pc = "listed"
  /\ pc' = "sections"
  /\ UNCHANGED <<world, loaderVars, section, listingVars, inspectionVars>>

EndInspection ==
  /\ pc = "sections"
  /\ next = Len(binary.sections)
  /\ pc' = "exit 0"
  /\ UNCHANGED <<world, loaderVars, section, listingVars, inspectionVars>>

Next ==
  \/ Load \/ OpenBinary \/ LoadSymbols \/ BuildReport \/ PrintViews
  \/ PassSection \/ BeginSection \/ CannotBegin
  \/ Skip \/ Label \/ Decode \/ CannotDecode \/ EndListing \/ NextSection
  \/ EndInspection

Spec == Init /\ [][Next]_vars /\ WF_vars(Next)

-----------------------------------------------------------------------------
TypeOK ==
  /\ LoaderTypeOK /\ ListingTypeOK
  /\ symbols \in {"none", "static", "dynamic"}
  /\ next \in 0..Len(binary.sections)
  /\ pc \in {"open bfd", "resolve bfd", "open binary", "symbols", "report", "views",
             "open opcodes", "resolve opcodes", "sections", "listing", "decode",
             "listed", "exit 0", "exit 1"}

\* The steps that call into a library.
CallsBfd ==
  pc \in {"open binary", "symbols", "report", "views", "open opcodes", "resolve opcodes"}
CallsBoth == pc \in {"sections", "listing", "decode", "listed"}

\* Whole and of the right ABI; libopcodes, which has no ABI, only on request.
FitWhenCalled ==
  /\ CallsBfd \/ CallsBoth =>
       \E c \in handle["bfd"] : c.complete /\ c.compatible
  /\ CallsBoth => request.disassemble /\ \E c \in handle["opcodes"] : c.complete

\* The environment's, if it opens, else one of the linker's, if one does.
FirstThatOpens ==
  \A l \in loaded :
    /\ world.env[l] # None => handle[l] = world.env[l]
    /\ world.env[l] = None /\ (\E k \in DOMAIN world.sonames[l] : world.sonames[l][k] # None)
         => \E k \in DOMAIN world.sonames[l] : handle[l] = world.sonames[l][k]

(***************************************************************************)
(* README.md:75, "A copied binary will refuse to use an incompatible local *)
(* libbfd instead of crashing", and README.md:78: libbfd is called only    *)
(* when it is whole and of the right ABI, libopcodes only when it is whole *)
(* and disassembly was asked for; a library named in the environment is    *)
(* the one that is used if it opens, and one found in a directory is used  *)
(* only if the linker knows none.                                          *)
(***************************************************************************)
OnlyFitLibrariesAreUsed == FitWhenCalled /\ FirstThatOpens

(***************************************************************************)
(* A listing is the section: lines without gap, labels where the symbols   *)
(* stand, and nothing left out at its end.                                 *)
(***************************************************************************)
ListingIsTheSection ==
  /\ LinesTile
  /\ LabelsAreExact
  /\ pc = "listed" => ListingIsWhole

\* Every inspection ends, whatever the decoder returns.
EveryInspectionEnds == <>(pc \in {"exit 0", "exit 1"})
=============================================================================
