---------------------------- MODULE AnalysisReport ----------------------------
(***************************************************************************)
(* The whole analysis report of src/binsight.c: build_analysis_report with *)
(* its loop over the sections BFD lists, enrich_analysis_report with the   *)
(* collectors it calls one after another, and collect_overlay_analysis.    *)
(* A failure inside enrich_analysis_report is not reported: the report is  *)
(* printed with what was collected before it.                              *)
(***************************************************************************)
EXTENDS PeResources, PeImports, ElfNeeded, ExtractedStrings, SequencesExt, FiniteSets

CONSTANTS
  Cases,     \* the files that may be analysed, each with what is asked for
  Rules,     \* the sizes of the magics of signature_rules
  MaxHits,   \* MAX_EMBEDDED_SIGNATURE_HITS
  FirstHits  \* embedded_signature_capacity, the first time

\* collect_overlay_analysis compares a whole magic even in a shorter file:
\* no file is.
ASSUME RuleAssumption ==
  /\ Rules \in Seq(Nat \ {0}) /\ MaxHits \in Nat \ {0} /\ FirstHits \in Nat \ {0}
  /\ \A c \in Cases, r \in DOMAIN Rules : Rules[r] <= c.file.size

Kinds == {"elf", "pe", "coff object", "other"}

\* PE and COFF have file positions of 32 bits.
ASSUME CaseAssumption ==
  \A c \in Cases :
    /\ c.file.size \in UInt64 /\ c.file.kind \in Kinds /\ c.file.headersOk \in BOOLEAN
    /\ c.file.listed \in Seq(ListedSection)
    /\ c.file.kind = "elf" => HasDynamic(c.file)
    /\ c.file.kind = "pe" => HasAddresses(c.file) /\ HasResources(c.file) /\ HasImports(c.file)
    /\ c.file.kind \in {"pe", "coff object"} =>
         \A i \in DOMAIN c.file.listed : c.file.listed[i].filepos \in Nat
    /\ c.request \in [strings : BOOLEAN, filtered : BOOLEAN]

VARIABLES
  section,     \* of the loop: how many sections have been reported
  loaded,      \* the sections whose content was read
  densest,     \* highest_entropy_section; 0: none
  suspicious,  \* suspicious_section_count
  mappedEnd,   \* max_mapped_end
  trailing,    \* trailing_bytes_after_sections, if valid
  overlay,     \* overlay_offset and overlay_size, if available
  rule,        \* the signature rule being looked for
  hits,        \* embedded_signatures
  enriched     \* enrich_analysis_report returned true

sectionVars == <<section, loaded, densest, suspicious, mappedEnd, trailing>>
overlayVars == <<overlay, rule, hits>>

collected == <<resourceVars, importVars, neededVars, stringVars>>

vars == <<file, pc, collected, sectionVars, overlayVars, enriched>>

Init ==
  /\ \E c \in Cases : file = c.file /\ request = c.request
  /\ pc = "allocate"
  /\ ResourcesInit /\ ImportsInit /\ NeededInit /\ StringsInit
  /\ section = 0 /\ loaded = {} /\ densest = 0 /\ suspicious = 0
  /\ mappedEnd = 0 /\ trailing = None
  /\ overlay = None /\ rule = 1 /\ hits = <<>>
  /\ enriched = FALSE

-----------------------------------------------------------------------------
\* is_pe_target: PE images and COFF objects, which have no DOS header.
IsPeTarget == file.kind \in {"pe", "coff object"}

\* A bug: what the section holds in memory is taken for what it has on disk.
SizeInMemory(s) == s.size

\* section_on_disk_size, written out again in collect_overlay_analysis.
SizeOnDisk(s) ==
  FirstNonzero(s.rawsize, FirstNonzero(s.compressed, s.size))

Higher(x, y) == IF x > y THEN x ELSE y

Allocate ==
  /\ pc = "allocate"
  /\ pc' \in {"sections", "failed"}
  /\ UNCHANGED <<file, collected, sectionVars, overlayVars, enriched>>

\* One section; its content may be unreadable, which is only a warning.
ReportSection ==
  /\ pc = "sections"
  /\ section < Len(file.listed)
  /\ LET n == section + 1
         s == file.listed[n]
     IN \E read \in {r \in BOOLEAN : r => s.hasContents /\ s.size # 0} :
          /\ loaded' = IF read THEN loaded \cup {n} ELSE loaded
          /\ densest' = IF read /\ (densest = 0 \/ s.entropy > file.listed[densest].entropy)
                        THEN n ELSE densest
          /\ suspicious' = IF s.suspect \/ (read /\ s.dense)
                           THEN suspicious + 1 ELSE suspicious
          /\ mappedEnd' = IF IsPeTarget /\ s.hasContents
                          THEN Higher(mappedEnd, s.filepos + SizeOnDisk(s)) ELSE mappedEnd
          /\ section' = n
  /\ UNCHANGED <<file, pc, collected, trailing, overlayVars, enriched>>

CountTrailingBytes ==
  /\ pc = "sections"
  /\ section = Len(file.listed)
  /\ trailing' = IF IsPeTarget THEN Some(Higher(file.size - mappedEnd, 0)) ELSE None
  /\ pc' = "strings"
  /\ UNCHANGED <<file, collected, section, loaded, densest, suspicious, mappedEnd,
                 overlayVars, enriched>>

CollectStrings ==
  StringsNext /\ UNCHANGED <<resourceVars, importVars, neededVars, sectionVars, overlayVars, enriched>>

\* read_file_bytes, the hashes, and the choice by the first bytes.
ReadFile ==
  /\ pc = "read"
  /\ \/ pc' = "reported"
     \/ pc' = CASE file.kind = "elf" -> "dynamic"
                [] file.kind = "pe"  -> "imports"
                [] OTHER             -> "overlay"
  /\ UNCHANGED <<file, collected, sectionVars, overlayVars, enriched>>

CollectNeeded ==
  NeededNext /\ UNCHANGED <<resourceVars, importVars, stringVars, sectionVars, overlayVars, enriched>>

CollectImports ==
  ImportsNext /\ UNCHANGED <<resourceVars, neededVars, stringVars, sectionVars, overlayVars, enriched>>

CollectResources ==
  ResourcesNext /\ UNCHANGED <<importVars, neededVars, stringVars, sectionVars, overlayVars, enriched>>

References == {i \in DOMAIN file.listed : file.listed[i].hasContents /\ file.listed[i].filepos >= 0}

\* Where the file's content ends for a section: collect_overlay_analysis.
EndOf(s) ==
  LET size == IF s.rawsize # 0 THEN s.rawsize
              ELSE IF s.compressed # 0 THEN s.compressed ELSE s.size
  IN  IF s.filepos + size > file.size THEN file.size ELSE s.filepos + size

LastEnd == Max({EndOf(file.listed[i]) : i \in References})

StartOverlay ==
  /\ pc = "overlay"
  /\ IF References = {} THEN pc' = "hints" /\ UNCHANGED overlay
     ELSE /\ overlay' = Some([offset |-> LastEnd, size |-> file.size - LastEnd])
          /\ pc' = IF LastEnd < file.size THEN "signatures" ELSE "hints"
  /\ UNCHANGED <<file, collected, sectionVars, rule, hits, enriched>>

\* The elements of a set in an order (SetToSortSeq tries all sequences first).
InOrder(S, Before(_, _)) ==
  [k \in 1..Cardinality(S) |->
     CHOOSE x \in S : Cardinality({y \in S : Before(y, x)}) = k - 1]

\* The offsets of the overlay where the magic of a rule stands.
Occurrences(r) ==
  {o \in The(overlay).offset..(file.size - Rules[r]) : <<r, o>> \in file.magics}

Room == MaxHits - Len(hits)

\* The scan for one rule: the list it shares with the others may fill up, or
\* fail to grow, which ends the scan for good.
ScanRule ==
  /\ pc = "signatures" /\ rule <= Len(Rules)
  /\ LET all  == InOrder(Occurrences(rule), <)
         some == SubSeq(all, 1, IF Len(all) < Room THEN Len(all) ELSE Room)
     IN  \E n \in 0..Len(some) :
           /\ hits' = hits \o [i \in 1..n |-> [rule |-> rule, at |-> some[i]]]
           /\ \/ n = Len(some) /\ rule' = rule + 1 /\ UNCHANGED pc
              \/ /\ n < Len(some) /\ GrowsAt(Len(hits) + n, FirstHits)
                 /\ pc' = "hints" /\ UNCHANGED rule
  /\ UNCHANGED <<file, collected, sectionVars, overlay, enriched>>

EndSignatures ==
  /\ pc = "signatures" /\ rule > Len(Rules)
  /\ pc' = "hints"
  /\ UNCHANGED <<file, collected, sectionVars, overlayVars, enriched>>

\* collect_protector_hints and infer_language_guess.
Finish ==
  /\ pc = "hints"
  /\ pc' = "reported"
  /\ enriched' = TRUE
  /\ UNCHANGED <<file, collected, sectionVars, overlayVars>>

Next ==
  \/ Allocate \/ ReportSection \/ CountTrailingBytes \/ CollectStrings \/ ReadFile
  \/ CollectNeeded \/ CollectImports \/ CollectResources
  \/ StartOverlay \/ ScanRule \/ EndSignatures \/ Finish

Spec == Init /\ [][Next]_vars /\ WF_vars(Next)

PC == {"allocate", "sections", "strings", "read", "dynamic", "needed", "imports",
       "delayed", "exports", "resources", "walk", "overlay", "signatures", "hints",
       "reported", "failed", "died"}

-----------------------------------------------------------------------------
\* Every list of the report stays within its limit, and within what was
\* allocated for it; indices stay in the lists they point into.
TypeOK ==
  /\ pc \in PC
  /\ ResourcesTypeOK /\ ImportsTypeOK /\ NeededTypeOK /\ StringsTypeOK
  /\ section \in 0..Len(file.listed) /\ loaded \subseteq 1..section
  /\ densest \in {0} \cup loaded /\ suspicious \in 0..section
  /\ mappedEnd \in Nat /\ trailing \in SUBSET Nat
  /\ rule \in 1..(Len(Rules) + 1)
  /\ Len(hits) <= MaxHits
  /\ enriched \in BOOLEAN

(***************************************************************************)
(* What the walk of the resource tree stands for: the paths of entries     *)
(* that end in a resource, in the order of the tables.                     *)
(***************************************************************************)
StepsFrom(offset) ==
  IF Readable(offset) THEN DOMAIN Directory(offset) ELSE {}

\* The paths of d subdirectories, and the directory each leads to.
PathsAt[d \in 0..MaxDepth] ==
  IF d = 0 THEN {[steps |-> <<>>, entries |-> <<>>, to |-> base]}
  ELSE UNION {{[steps |-> Append(p.steps, i),
                entries |-> Append(p.entries, Directory(p.to)[i]),
                to |-> base + Directory(p.to)[i].to]
                 : i \in {i \in StepsFrom(p.to) : Directory(p.to)[i].sub}}
              : p \in PathsAt[d - 1]}

ResourcePaths ==
  UNION {{[steps |-> Append(p.steps, i),
           entries |-> Append(p.entries, Directory(p.to)[i])]
            : i \in {i \in StepsFrom(p.to) :
                       /\ ~Directory(p.to)[i].sub
                       /\ InSection(base + Directory(p.to)[i].to, 16)}}
         : p \in UNION {PathsAt[d] : d \in 2..MaxDepth}}

Earlier(p, q) ==
  \E k \in DOMAIN p.steps \cap DOMAIN q.steps :
    /\ p.steps[k] < q.steps[k]
    /\ \A j \in 1..(k - 1) : p.steps[j] = q.steps[j]

Expected ==
  LET paths == InOrder(ResourcePaths, Earlier)
      ResourceOf(p) ==
        LET rva == DataRva(base + p.entries[Len(p.entries)].to)
        IN  [labels |-> [k \in 1..3 |-> LabelOf(p.entries[k], k - 1)],
             rva |-> rva, offset |-> PeOffset(file, rva)]
  IN  [k \in DOMAIN paths |-> ResourceOf(paths[k])]

(***************************************************************************)
(* However the directories refer to each other, the resources listed are   *)
(* the first ones the tree reaches in at most five levels, in its order,   *)
(* labelled by the first three levels; and all of them, up to the limit,   *)
(* when the report goes on past them.                                      *)
(***************************************************************************)
ResourcesAreTheTree ==
  available =>
    /\ IsPrefix(resources, Expected)
    /\ pc \notin {"walk", "reported"} \/ enriched =>
         Len(resources) = IF Len(Expected) < MaxResources
                          THEN Len(Expected) ELSE MaxResources

\* The texts of a sequence at their first occurrences.
TextPlaces(s) == {i \in DOMAIN s : s[i] # Empty /\ \A j \in 1..(i - 1) : s[j] # s[i]}

Texts(s) == LET order == InOrder(TextPlaces(s), <) IN [k \in DOMAIN order |-> s[order[k]]]

NameOf(f, d, i) == TextAt(f, Pointers(f, d, i).name, 0)

DescriptorCount(f, d) ==
  IF ~f.headersOk \/ ~Usable(f, d) THEN 0
  ELSE Lowest({n \in 0..(f[d].size \div DescriptorSize(d)) : Ends(f, d, n)})

\* The symbols of a descriptor.
SymbolsOf(f, d, i) ==
  LET begin == ThunksAt(f, Pointers(f, d, i).thunk)
      At(n) == ThunkAt(f, The(begin) + n * f.thunkSize)
      last  == Lowest({n \in 0..f.size : At(n) = None})
  IN  IF begin = None THEN <<>>
      ELSE [n \in 1..last |-> SymbolOf(f, The(At(n - 1)))]

\* Those of the first n descriptors that give a name, and the symbols of them all.
Mentions(f, d, n, name) == {i \in 0..(n - 1) : NameOf(f, d, i) = name}

Mentioned(f, d, n, name) ==
  LET order == InOrder(Mentions(f, d, n, name), <)
  IN  FlattenSeq([k \in DOMAIN order |-> SymbolsOf(f, d, order[k])])

FirstMentions(f, d, n) ==
  {i \in 0..(n - 1) : NameOf(f, d, i) # None /\ Mentions(f, d, i, NameOf(f, d, i)) = {}}

\* The libraries that the first n descriptors of a directory declare.
DeclaredBy(f, d, n) ==
  LET order == InOrder(FirstMentions(f, d, n), <)
  IN  [k \in DOMAIN order |->
         LET name == NameOf(f, d, order[k])
         IN  [name |-> The(name), symbols |-> Texts(Mentioned(f, d, n, name))]]

Declared(f, d) == DeclaredBy(f, d, DescriptorCount(f, d))

NeededPlaces(f) ==
  LET last == Lowest({i \in 0..Len(f.dynamic) : TableEnds(f, i)})
  IN  InOrder({i \in 1..last : f.dynamic[i].tag = "needed"}, <)

NeededTexts ==
  LET places == NeededPlaces(file)
      text == [k \in DOMAIN places |-> TextIn(file.dynamic[places[k]].value)]
  IN  Texts([k \in DOMAIN places |-> IF text[k] = None THEN Empty ELSE The(text[k])])

(***************************************************************************)
(* A dependency summary is only printed when the collectors got to their   *)
(* end, and then it is whole: each library once, in the order of its first *)
(* mention, with each of its symbols once, whatever descriptors share it.  *)
(***************************************************************************)
DependenciesAreWhole ==
  /\ isPe => \A d \in Directories : lists[d] = Declared(file, d)
  /\ isElf => names = NeededTexts
  /\ ~(isPe /\ isElf)
  /\ enriched /\ file.kind = "pe" =>
       isPe = (exports # 0 \/ \E d \in Directories : Declared(file, d) # <<>>)

(***************************************************************************)
(* The two places that work out what lies after the sections agree: the    *)
(* trailing bytes counted from BFD's sections are the overlay; and the     *)
(* signatures found in it lie within it, rule after rule, each once.       *)
(***************************************************************************)
OverlayIsTheRest ==
  /\ \A o \in overlay, n \in trailing : o.size = n
  /\ \A o \in overlay : o.offset + o.size = file.size
  /\ \A i \in DOMAIN hits :
       /\ hits[i].at >= The(overlay).offset
       /\ <<hits[i].rule, hits[i].at>> \in file.magics
       /\ \A j \in 1..(i - 1) :
            \/ hits[j].rule < hits[i].rule
            \/ hits[j].rule = hits[i].rule /\ hits[j].at < hits[i].at

(***************************************************************************)
(* The strings are all the text of the sections that were scanned, once:   *)
(* each run of characters that could not begin earlier, if it is long      *)
(* enough and has a meaning, whatever text of another width or alignment   *)
(* it overlaps, in the order of the sections, the encodings and the file.  *)
(***************************************************************************)
BeginsText(b, e, o) == CharAt(b, e, o) /\ ~CharAt(b, e, o - Width(e))

TextOf(s) ==
  LET Begins(e) == {o \in 0..Len(s.bytes) : BeginsText(s.bytes, e, o) /\ Kept(s.bytes, e, o)}
      In(e) == LET order == InOrder(Begins(e), <)
               IN  [k \in DOMAIN order |-> String(s, e, order[k])]
  IN  FlattenSeq([p \in DOMAIN Passes(file) |-> In(Passes(file)[p])])

StringsAreTheText ==
  /\ \A n \in scanned : Candidate(file.listed[n])
  /\ pc \notin {"allocate", "sections", "strings", "failed"} =>
       strings = FlattenSeq([n \in DOMAIN file.listed |->
                               IF n \in scanned THEN TextOf(file.listed[n]) ELSE <<>>])

\* The size of the string table is so large that the sum for its end wraps.
EndWraps == \E at \in StringTable : at + Value("strsz") >= Wrap64

\* A report is made of every file, cyclic resource trees and repeated import
\* descriptors included: no collector goes on for ever. Only where the end of
\* the string table wraps may the program read behind the file and die.
EveryReportIsMade == <>(pc \in {"reported", "failed"} \/ (pc = "died" /\ EndWraps))
=============================================================================
