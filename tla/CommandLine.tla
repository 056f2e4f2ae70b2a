----------------------------- MODULE CommandLine -----------------------------
(***************************************************************************)
(* A whole run of binsight, from its command line to its exit status:      *)
(* parse_options, main and inspect_binary of src/binsight.c.  The modes    *)
(* that write a file are one step here; PatchMode, UpxElfRepair and        *)
(* UpxUnpack have their steps.                                             *)
(*                                                                         *)
(* getopt_long moves operands behind the options, so where the path stands *)
(* on the command line does not matter, and only the operands' number does.*)
(***************************************************************************)
EXTENDS Naturals, Sequences

CONSTANTS
  Arguments,     \* the arguments the user may give
  MaxArguments   \* bound: how many of them

View == {"overview", "imports", "headers", "triage", "sections", "disasm",
         "strings", "security", "provenance", "hex", "resources", "overlay",
         "search"}

\* What a block of text needs: a raw view only reads the file's bytes.
RawViews      == {"hex", "search"}
TextOnlyViews == RawViews \cup {"headers", "disasm"}
DefaultViews  == View \ (RawViews \cup {"strings"})

\* k_inspect_commands
NoCommand == "no command"
Commands ==
  [c \in (View \ {"overview"}) \cup {"inspect", "fileinfo"} |->
     IF c = "inspect" THEN DefaultViews
     ELSE IF c = "fileinfo" THEN {"overview"}
     ELSE IF c \in RawViews THEN {c}
     ELSE {"overview", c}]

(***************************************************************************)
(* The fields of options_t besides the views, as the set of those that     *)
(* differ from their defaults.                                             *)
(***************************************************************************)
Writers  == {"patch", "repair", "unpack"}
ToolFlag == {"upx", "version", "fetch"}
Flag == Writers \cup ToolFlag \cup
  {"patch out", "all", "min length", "section", "json", "ndjson", "hex range",
   "hex width", "query", "hit limit"}

\* These take a number, and the default may be given explicitly.
NumberFlag == {"min length", "hex width", "hit limit"}

Argument ==
  [kind : {"view"}, name : View] \cup [kind : {"flag"}, name : Flag]
  \cup [kind : {"default"}, name : NumberFlag]
  \cup [kind : {"no disasm", "help", "invalid"}, name : {"-"}]

ASSUME ArgumentAssumption == Arguments \subseteq Argument /\ MaxArguments \in Nat

VARIABLES
  command,   \* the subcommand in argv[1], if any
  argv,      \* the arguments parsed so far
  options,   \* options_t
  pc,        \* where the run is
  block,     \* inspect_binary: the next block of text
  printed,   \* the blocks and documents printed in full
  loaded,    \* the Binutils libraries loaded
  wrote      \* the writing mode entered, if any

vars == <<command, argv, options, pc, block, printed, loaded, wrote>>

\* The order in which inspect_binary prints its blocks; disassembly is last.
Blocks == <<"overview", "imports", "headers", "triage", "security", "provenance",
            "resources", "overlay", "sections", "strings", "search", "hex">>

TypeOK ==
  /\ command \in DOMAIN Commands \cup {NoCommand}
  /\ argv \in Seq(Arguments) /\ Len(argv) <= MaxArguments
  /\ options \in [views : SUBSET View, explicit : BOOLEAN, given : SUBSET Flag]
  /\ pc \in {"parse", "dispatch", "raw", "hex", "load", "open", "report", "blocks",
             "opcodes", "disassemble", "help", "exit 0", "exit 1"}
  /\ block \in 1..(Len(Blocks) + 1)
  /\ printed \subseteq View \cup {"json", "ndjson"}
  /\ loaded \subseteq {"bfd", "opcodes"}
  /\ wrote \in Writers \cup {"nothing"}

Init ==
  /\ command \in DOMAIN Commands \cup {NoCommand}
  /\ argv = <<>>
  /\ options = [views    |-> IF command = NoCommand THEN DefaultViews
                             ELSE Commands[command],
                explicit |-> command # NoCommand,
                given    |-> {}]
  /\ pc = "parse"
  /\ block = 1 /\ printed = {} /\ loaded = {} /\ wrote = "nothing"

Exit(status) == pc' = IF status THEN "exit 0" ELSE "exit 1"

-----------------------------------------------------------------------------
\* A bug: the default views stay when the first view is named.
SelectedKeepingDefault(o, v) ==
  [o EXCEPT !.views = @ \cup {v}, !.explicit = TRUE]

\* select_output_views: the first view that is named replaces the default.
Selected(o, v) ==
  [o EXCEPT !.views = (IF o.explicit THEN @ ELSE {}) \cup {v}, !.explicit = TRUE]

\* clear_output_views
Cleared(o, v) == [o EXCEPT !.views = @ \ {v}]

\* What one turn of the getopt_long loop does to the options.
Parsed(o, a) ==
  CASE a.kind = "view"      -> Selected(o, a.name)
    [] a.kind = "no disasm" -> Cleared(o, "disasm")
    [] a.kind = "default"   -> [o EXCEPT !.given = @ \ {a.name}]
    [] a.kind = "flag"      ->
         LET g == [o EXCEPT !.given = @ \cup {a.name}]
         IN  IF a.name = "query" THEN Selected(g, "search") ELSE g
    [] OTHER                -> o

Parse(a) ==
  /\ pc = "parse"
  /\ Len(argv) < MaxArguments
  /\ argv' = Append(argv, a)
  /\ options' = Parsed(options, a)
  /\ pc' = CASE a.kind = "help"    -> "help"
             [] a.kind = "invalid" -> "exit 1"
             [] OTHER              -> "parse"
  /\ UNCHANGED <<command, block, printed, loaded, wrote>>

(***************************************************************************)
(* The tests behind the loop.  Most of the inspection tests are skipped in *)
(* the repair modes.                                                       *)
(***************************************************************************)
Repairs(o) == o.given \cap {"repair", "unpack"} # {}

\* A bug: patching and repairing are not held to exclude each other.
BadModesButPatch(o) ==
  \/ {"repair", "unpack"} \subseteq o.given
  \/ o.given \cap ToolFlag # {} /\ "unpack" \notin o.given
  \/ {"json", "ndjson"} \subseteq o.given

BadModes(o) ==
  \/ {"repair", "unpack"} \subseteq o.given
  \/ {"upx", "version"} \subseteq o.given
  \/ {"upx", "fetch"} \subseteq o.given
  \/ o.given \cap ToolFlag # {} /\ "unpack" \notin o.given
  \/ "patch" \in o.given /\ Repairs(o)
  \/ {"json", "ndjson"} \subseteq o.given
  \/ Repairs(o) /\ ("section" \in o.given \/ o.explicit)

\* A bug: -n leaves no trace in the flags, so only the views betray it.
BadPatchButViews(o) ==
  \/ "patch" \in o.given <=> "patch out" \notin o.given
  \/ "patch" \in o.given /\ (o.explicit \/ "json" \in o.given)

BadPatch(o) ==
  \/ "patch" \in o.given <=> "patch out" \notin o.given
  \/ /\ "patch" \in o.given
     /\ \/ o.given \cap {"section", "json", "ndjson", "all", "min length",
                         "hex range", "hex width", "query", "hit limit"} # {}
        \/ o.explicit
        \/ o.views # DefaultViews

\* A bug: only an empty selection is refused.
BadInspectionButText(o) == ~Repairs(o) /\ o.views = {}

BadInspection(o) ==
  /\ ~Repairs(o)
  /\ \/ "section" \in o.given /\ o.views \cap {"sections", "disasm", "strings"} = {}
     \/ "all" \in o.given /\ "disasm" \notin o.views
     \/ /\ o.given \cap {"hex range", "hex width"} # {}
        /\ "patch" \notin o.given /\ "hex" \notin o.views
     \/ "search" \in o.views /\ "query" \notin o.given
     \/ "hit limit" \in o.given /\ "query" \notin o.given
     \/ o.views = {}
     \/ o.given \cap {"json", "ndjson"} # {} /\ o.views \cap TextOnlyViews # {}

\* argv[1] is only taken for a command when something follows it.
EndOfOptions(operands) ==
  /\ pc = "parse"
  /\ command = NoCommand \/ argv # <<>> \/ operands > 0
  /\ pc' = IF operands # 1 \/ BadModes(options) \/ BadPatch(options)
                \/ BadInspection(options)
           THEN "exit 1" ELSE "dispatch"
  /\ UNCHANGED <<command, argv, options, block, printed, loaded, wrote>>

-----------------------------------------------------------------------------
\* main: the repair modes are tried first, then patching, then raw views.
RunRepair ==
  /\ pc = "dispatch"
  /\ Repairs(options)
  /\ wrote' = IF "repair" \in options.given THEN "repair" ELSE "unpack"
  /\ \E status \in BOOLEAN : Exit(status)
  /\ UNCHANGED <<command, argv, options, block, printed, loaded>>

RunPatch ==
  /\ pc = "dispatch"
  /\ ~Repairs(options) /\ "patch" \in options.given
  /\ wrote' = "patch"
  /\ \E status \in BOOLEAN : Exit(status)
  /\ UNCHANGED <<command, argv, options, block, printed, loaded>>

\* A bug: a search is taken to need the object file.
OnlyHex(o) == o.views = {"hex"}

\* output_uses_only_raw_views
OnlyRaw(o) == o.views # {} /\ o.views \subseteq RawViews

Inspects == ~Repairs(options) /\ "patch" \notin options.given

ChooseViews ==
  /\ pc = "dispatch"
  /\ Inspects
  /\ pc' = IF OnlyRaw(options) THEN "raw" ELSE "load"
  /\ UNCHANGED <<command, argv, options, block, printed, loaded, wrote>>

\* A bug: the status of the search is overwritten by that of the hex view.
RawSearchForgetting ==
  /\ pc = "raw"
  /\ printed' \in {printed, printed \cup {"search"}}
  /\ pc' = "hex"
  /\ UNCHANGED <<command, argv, options, block, loaded, wrote>>

\* The raw views without libbfd: a failed search suppresses the hex view.
RawSearch ==
  /\ pc = "raw"
  /\ IF "search" \in options.views
       THEN \/ printed' = printed \cup {"search"} /\ pc' = "hex"
            \/ UNCHANGED printed /\ Exit(FALSE)
       ELSE UNCHANGED printed /\ pc' = "hex"
  /\ UNCHANGED <<command, argv, options, block, loaded, wrote>>

RawHex ==
  /\ pc = "hex"
  /\ IF "hex" \in options.views
       THEN \/ printed' = printed \cup {"hex"} /\ Exit(TRUE)
            \/ UNCHANGED printed /\ Exit(FALSE)
       ELSE UNCHANGED printed /\ Exit(TRUE)
  /\ UNCHANGED <<command, argv, options, block, loaded, wrote>>

\* load_bfd_runtime
LoadBfd ==
  /\ pc = "load"
  /\ \/ loaded' = loaded \cup {"bfd"} /\ pc' = "open"
     \/ UNCHANGED loaded /\ Exit(FALSE)
  /\ UNCHANGED <<command, argv, options, block, printed, wrote>>

\* bfd_openr, the format check, the symbols, the report and the filters.
OpenBinary ==
  /\ pc = "open"
  /\ pc' = "report" \/ Exit(FALSE)
  /\ UNCHANGED <<command, argv, options, block, printed, loaded, wrote>>

\* A bug: a document per flag, whatever the flag is.
PrintReportPerFlag ==
  /\ pc = "report"
  /\ printed' = printed \cup options.given
  /\ pc' = "blocks"
  /\ UNCHANGED <<command, argv, options, block, loaded, wrote>>

\* A machine-readable report replaces every block of text.
PrintReport ==
  /\ pc = "report"
  /\ IF options.given \cap {"json", "ndjson"} # {}
       THEN /\ printed' = printed \cup (options.given \cap {"json", "ndjson"})
            /\ Exit(TRUE)
       ELSE UNCHANGED printed /\ pc' = "blocks"
  /\ UNCHANGED <<command, argv, options, block, loaded, wrote>>

(***************************************************************************)
(* The next block of text.  Native headers that cannot be read are only a  *)
(* warning; a search or a hex view that fails ends the run.                *)
(***************************************************************************)
PrintBlock ==
  LET b == Blocks[block]
  IN
  /\ pc = "blocks" /\ block <= Len(Blocks)
  /\ \/ /\ b \in options.views
        /\ printed' = printed \cup {b} /\ block' = block + 1 /\ UNCHANGED pc
     \/ /\ b \notin options.views \/ b = "headers"
        /\ block' = block + 1 /\ UNCHANGED <<printed, pc>>
     \/ /\ b \in options.views \cap RawViews
        /\ Exit(FALSE) /\ UNCHANGED <<printed, block>>
  /\ UNCHANGED <<command, argv, options, loaded, wrote>>

EndOfBlocks ==
  /\ pc = "blocks" /\ block > Len(Blocks)
  /\ pc' = IF "disasm" \in options.views THEN "opcodes" ELSE "exit 0"
  /\ UNCHANGED <<command, argv, options, block, printed, loaded, wrote>>

\* load_opcodes_runtime
LoadOpcodes ==
  /\ pc = "opcodes"
  /\ \/ loaded' = loaded \cup {"opcodes"} /\ pc' = "disassemble"
     \/ UNCHANGED loaded /\ Exit(FALSE)
  /\ UNCHANGED <<command, argv, options, block, printed, wrote>>

\* disassemble_section for every section that qualifies, until one fails.
Disassemble ==
  /\ pc = "disassemble"
  /\ \/ printed' = printed \cup {"disasm"} /\ Exit(TRUE)
     \/ UNCHANGED printed /\ Exit(FALSE)
  /\ UNCHANGED <<command, argv, options, block, loaded, wrote>>

Next ==
  \/ \E a \in Arguments : Parse(a)
  \/ \E operands \in 0..2 : EndOfOptions(operands)
  \/ RunRepair \/ RunPatch \/ ChooseViews \/ RawSearch \/ RawHex
  \/ LoadBfd \/ OpenBinary \/ PrintReport \/ PrintBlock \/ EndOfBlocks
  \/ LoadOpcodes \/ Disassemble

Spec == Init /\ [][Next]_vars

-----------------------------------------------------------------------------
Given(kind, name) == \E k \in DOMAIN argv : argv[k] = [kind |-> kind, name |-> name]

(***************************************************************************)
(* The views of an accepted command line, said without reference to the    *)
(* order of parsing: the command's views and the named ones, or the        *)
(* default if there are neither; and -n takes the disassembly out unless a *)
(* later --disasm asks for it again.  A search query names its view.       *)
(***************************************************************************)
Named ==
  {v \in View : Given("view", v)} \cup {v \in {"search"} : Given("flag", "query")}

Dropped ==
  {v \in {"disasm"} :
     \E k \in DOMAIN argv :
       /\ argv[k].kind = "no disasm"
       /\ \A j \in k..Len(argv) : argv[j] # [kind |-> "view", name |-> v]}

ViewsAreWhatWasAsked ==
  pc = "dispatch" =>
    LET base == IF command # NoCommand THEN Commands[command]
                ELSE IF Named = {} THEN DefaultViews ELSE {}
    IN  options.views = (base \cup Named) \ Dropped

(***************************************************************************)
(* src/binsight.c:4977 "Keep patching as a narrow write-only mode instead  *)
(* of mixing it with inspection flags": whatever else was given along with *)
(* --patch is a numeric option that ended up at its default.               *)
(***************************************************************************)
PatchModeIsNarrow ==
  wrote = "patch" =>
    /\ command = NoCommand
    /\ \A k \in DOMAIN argv :
         \/ argv[k].name \in {"patch", "patch out"}
         \/ /\ argv[k].name \in NumberFlag
            /\ \E j \in k..Len(argv) : argv[j] = [kind |-> "default", name |-> argv[k].name]

(***************************************************************************)
(* A file is written only by a command line that asks for exactly that     *)
(* mode, and one that asks for a mode and exits 0 has run it: no order of  *)
(* arguments turns an inspection into an edit, or drops an edit silently.  *)
(***************************************************************************)
WritesWhatWasAsked ==
  LET asked == {w \in Writers : Given("flag", w)}
  IN  /\ wrote # "nothing" => asked = {wrote} /\ printed = {} /\ loaded = {}
      /\ pc = "exit 0" => IF asked = {} THEN wrote = "nothing" ELSE asked = {wrote}
      /\ PatchModeIsNarrow

(***************************************************************************)
(* A run that was asked for JSON or NDJSON, exits 0 and writes no file has *)
(* printed one such document and no text, and the document leaves out no   *)
(* view that the command line selected.                                    *)
(***************************************************************************)
DocumentsAreWhole ==
  /\ pc = "exit 0" /\ wrote = "nothing" =>
       \A d \in {"json", "ndjson"} : Given("flag", d) => printed = {d}
  /\ printed \cap {"json", "ndjson"} # {} =>
       options.views # {} /\ options.views \cap TextOnlyViews = {}

(***************************************************************************)
(* An inspection that exits 0 has printed every view that was asked for,   *)
(* native headers excepted, and has run the search if a query was given.   *)
(***************************************************************************)
SuccessMeansPrinted ==
  pc = "exit 0" /\ wrote = "nothing" /\ printed \cap {"json", "ndjson"} = {} =>
    /\ options.views \ {"headers"} \subseteq printed
    /\ printed \subseteq options.views
    /\ Given("flag", "query") => "search" \in printed

(***************************************************************************)
(* README.md, "Build": analysis modes load libbfd, and libopcodes only     *)
(* when disassembly needs it; the raw workflows load neither.              *)
(***************************************************************************)
LibrariesOnlyWhenNeeded ==
  /\ "bfd" \in loaded => Inspects /\ options.views \ RawViews # {}
  /\ "opcodes" \in loaded => "bfd" \in loaded /\ "disasm" \in options.views
  /\ printed \ RawViews # {} => "bfd" \in loaded

(***************************************************************************)
(* What an inspection prints is all of what was asked for, in the form     *)
(* that was asked for, and it needs no library that this does not need.    *)
(***************************************************************************)
ReportsAreWhole == DocumentsAreWhole /\ SuccessMeansPrinted /\ LibrariesOnlyWhenNeeded
=============================================================================
