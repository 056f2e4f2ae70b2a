# BinSight in TLA+

Models, model-checking runs and machine-checked proofs about BinSight, a
single-threaded C program that inspects binaries, patches bytes, and repairs
and unpacks tampered UPX files. The reference is the code under `src/`
(`src/binsight.c`, `src/upx_repair.c`, `tools/fetch-upx.sh`); line numbers below
are of those files. The program has no test suite: the README and the comments
in the code are the only other statements of what it should do.

Run from this directory:

    tlc -workers 2 -config MCUpxElfRepair.cfg MCUpxElfRepair
    tlapm UpxElfProofs.tla

The bodies of the raw views, of the collectors and of the disassembly are modelled as
well as the modes that write; section 7 says what is not.

## 1. Inventory

One command is one process. It parses its options, then takes exactly one of
four ways: repair, patch, raw views, inspection. Nothing is persisted but the
output file, the temporary file of an unpacking run and the managed UPX
executables, which are shared by every run. Concurrency comes from outside:
several `binsight` processes, and the children they fork.

| Component | State it keeps | Operations | Hard behaviour | Correct when |
|---|---|---|---|---|
| Command line and dispatch (`parse_options` 4680-5058, `main` 7500-7582, `inspect_binary` 7292-7498) | `options_t`, the blocks printed so far | options in any order; some thirty exclusions; block-by-block output | the meaning of views depends on the order of options; a late block fails after early ones were printed | what is shown and written is what was asked for; exit 0 means all of it |
| UPX pack header (`upx_repair.c` 451-481, 630-766, 861-872; `binsight.c` 1547-1591) | none | size, checksum, plausibility | version- and format-dependent layout, checksum modulo 251 | all readers agree on what a header is |
| UPX ELF repair (`upx_repair.c` 220-315, 874-1018, 1376-1424) | file image, summary | layout, three header searches, up to five fixes, write | searches of different trust on tampered bytes; overlay cut; write failures and crashes | a packed file that was tampered with comes back byte for byte; the summary is true; repairing again settles |
| UPX ELF detection for `fileinfo` (`binsight.c` 1593-1665) | part of the report | its own header search | a second implementation of the same search | agrees with the repair |
| UPX PE repair (`upx_repair.c` 317-430, 788-854, 1020-1104) | file image, summary | section names, header in a scan window | window arithmetic; overlapping candidates and decoys before the header, bytes appended behind it | a packed file that was tampered with comes back; repairing again does nothing |
| UPX PE detection for `fileinfo` (`binsight.c` 1667-1762) | part of the report | its own scan of the same windows | other tests than the repair's | agrees with the repair |
| Repair and unpack (`upx_repair.c` 1106-1368, 1447-1483) | temporary file, tool path, two children | mkstemp, repair, resolve, fetch, exec, unlink | kills, shared tool directories, checks that are stale when used | the right tool reads a whole repaired file; nothing is left behind; exit 0 means unpacked |
| UPX fetch script (`tools/fetch-upx.sh`) | a managed tool file | download, `cp`, `chmod` | `cp` is not atomic, the script can die | what it reports installed is there |
| Byte patch mode (`binsight.c` 4549-4642, 6013-6097) | patch queue, file image | bounds, overlap, apply, write | `size_t` wrap-around, ambiguous requests, in-place output | every patch lands and nothing else changes |
| Raw search and hex view (5660-6011) | one buffer of hits for all queries | pattern and UTF-16 scans, rows of a window | hits beyond the limit, a reused buffer, odd-offset mirror hits, a window past the end | every occurrence counted once and the first of them listed; the rows are the window |
| String extraction (2087-2331) | list of strings | an ASCII scan and UTF-16 scans per section | where a scan goes on behind a text, odd offsets, text at the end of a section | every maximal run once, in order |
| PE resources and RVA mapping (3197-3425) | list of resources, the calls of the walk | recursive directory walk | cyclic trees, a limit on the list, 32-bit sums, failed allocations | the walk ends; the list is the tree's, or a prefix of it |
| PE and ELF dependencies (3730-4070) | lists of libraries and symbols, dynamic entries | descriptors, thunks, dynamic table | repeated and empty descriptors, a string table that comes last, 64-bit sums that wrap, silent failures | a summary that is printed is whole |
| Overlay and embedded signatures (3427-3583) | part of the report | end of the sections, magics behind it | the size on disk is worked out twice; a shared list that fills up | both places agree; hits lie in the overlay |
| Disassembly loop (7141-7290) | an address, a symbol cursor | decode, label, skip trailing zeros | decoder errors, symbols inside instructions, an end that wraps | the lines tile the section, each symbol labels its own line, the loop ends |
| Binutils loader (76-378) | two library handles | environment, names, directories; symbols; ABI | the first that opens is taken, and judged afterwards | only fit libraries are called |
| Native headers, digests, printing | none | formatting | - | - |

Interactions: `main` calls one of repair, patch, raw views or `inspect_binary`;
repair and `fileinfo` read the same UPX header with separate code; unpacking
calls repair on a temporary file, then forks the fetch script and `upx`; the
fetch script fills the directory that resolution looks in. `inspect_binary` builds the
report by a chain of collectors that share its lists and give up silently, then prints
it view by view, and loads the second library only when it comes to disassemble.

## 2. The modules

| Module | Models |
|---|---|
| `PackHeaderSize` | `get_pack_header_size` (operators only) |
| `UpxPackHeader` | the header of an ELF file as both readers judge it (operators only) |
| `UpxElf` | `repair_upx_elf_buffer` and `detect_upx_elf_packing` on one file (operators only) |
| `UpxElfRepair` | `--repair-upx` on an ELF sample: reading, repairing, writing, failing, crashing, again |
| `UpxElfProofs` | theorems about the two above |
| `UpxPe` | `repair_upx_pe_buffer` and `detect_upx_pe_packing` on the bytes of one file (operators only) |
| `UpxPePromise` | `--repair-upx` on a PE sample as one step: the abstract specification |
| `UpxPeRepair` | the same with the scan offset by offset and each write; implements the promise |
| `UpxPeProofs` | theorems about the three above |
| `PatchMode` | `--patch`: queue, three loops, output, failures, crash, repetition |
| `PatchProofs` | theorems about it |
| `UpxUnpack` | `--repair-and-unpack-upx` in several processes with their children |
| `UpxUnpackProofs` | theorems about it |
| `CommandLine` | options, validation, dispatch, block order |
| `CommandLineProofs` | theorems about it |
| `RawViews` | `--find-*` and `--hex`: queries, scans, reports, rows |
| `RawViewsProofs` | theorems about it |
| `AnalyzedFile` | the file as the collectors see it: PE and ELF address mapping, strings |
| `ExtractedStrings`, `PeImports`, `PeResources`, `ElfNeeded` | the collectors, each a part of the report's state |
| `AnalysisReport` | their composition: `build_analysis_report` and `enrich_analysis_report`, overlay, signatures |
| `AnalysisReportProofs` | theorems about the report and its collectors |
| `BinutilsLoader` | the search for libbfd and libopcodes, their symbols and ABI |
| `Disassembly` | the listing of one section under any decoder |
| `Inspection` | their composition: `inspect_binary` as far as it calls into a library |
| `InspectionProofs` | theorems about it |
| `MC*` | the instances that TLC checks |

`UpxElfRepair` extends `UpxElf`, and `UpxPeRepair` and `UpxPePromise` extend
`UpxPe`. `UpxElf` extends `UpxPackHeader`, which like `UpxPe` extends
`PackHeaderSize`. `UpxPeRepair` instantiates
`UpxPePromise` with its own state seen from outside. `UpxUnpack`
takes a repair as one step, because the temporary file is private to the run;
`UpxElfRepair` has its steps. `CommandLine` takes each writing mode as one step,
because each has a module of its own, and each view as one block; `RawViews`,
`AnalysisReport` and `Inspection` look into those blocks. `AnalysisReport` extends the
four collectors, which extend `AnalyzedFile` and share its `file` and `pc`; `Inspection`
extends `BinutilsLoader` and `Disassembly` and takes the report as one step.

### UpxPackHeader and UpxElf

A file is a record: its ELF magic, whether its identification and its tables are
sound, the `l_info` and `p_info` fields, the tokens behind the `$Id: UPX `
markers that come before the loader's data (`ids`), and the sequence of places behind the
program headers where a magic can stand. Each place ("slot") is read as a pack header with
numeric fields, and has a `marker`: what a `$Id: UPX ` in its bytes, or behind them up to
the next slot, says.

Abstractions, and what they leave out:

- A slot is exactly as long as a header and only the last can be cut short
  (`whole`). The searches compare offsets only with each other, with the start of
  the loader and with the end of the file. So two candidate headers never share bytes:
  what is said of every file is said of every file of this kind. `UpxPe` has no such limit.
- Position 0 is the `l_info` magic, which a search over the file also meets. The
  bytes behind it are assumed not to read as a pack header.
- Fields are natural numbers; the checksum is their sum modulo 251 in place of the
  sum of their bytes. The code never computes with a field but in the checksum.
- `tables` stands for all the conditions of `infer_elf_layout` on sizes and
  offsets, and for the lesser ones of `fileinfo`, which differ only for files
  that are not repairable.
- A release marker is reduced to the first digit of its token, or to none (`Word`).
  `detect_upx_release_major` (610-628, called at 922) reads the whole buffer before it is
  trimmed: `MajorIs` looks at the markers of all slots, those of an overlay included.
  Trimming and torn writes take them away with their slots. `ids` stays: it stands before the
  first slot, where no write is cut.

### UpxElfRepair

`Start`, `ReadFile`, `RepairBuffer`, `OpenOutput`, `WriteOutput`, `CloseOutput` are
the calls of `repair_upx_file_impl`, `read_file` and `write_file`; each has its
failure disjunct. `fopen(..., "wb")` truncates, so from `OpenOutput` on a failure
or a `Crash` leaves any prefix (`Torn`). The output path may be the input path.
`Tamper` is the environment: before the first run it applies up to `MaxTampers`
of the tamperings the README describes (magics, `p_info`, appended bytes).

### UpxPe, UpxPePromise, UpxPeRepair

A PE file is its bytes, and everything is read from them as the code does: signature,
section count and table, machine, subsystem, raw offsets, and at each offset of a window
the header that would begin there. Candidates may share bytes with each other, with the section
table and with what the repair writes, and the checksum is the sum of the real bytes. The
constants `Names`, `Magics` and `Tails` are what a tampering may write over a name, over the
magic, and append. The magic, the two names and the checksum are four actions, since each
is written, or not, on a test of its own. `UpxPePromise` does not scan: its `Repair` writes
`Repaired(sample)` in one step. Reading and writing files is what `UpxElfRepair` models
of `repair_upx_file_impl`, and is left out here.

`IsPacked` is what UPX writes: sections in file order, names and magic of its own,
and behind the section table a header that is the first in the windows to read as one.
Without the file order the second window could begin before the first ends, and an appended
byte could put a hit of the first before the packer's header.

`Disturbs(f, q)` names the one way in which overlaps matter: a header at `q` would have one of
its bytes 4 to 31, which are those the scan tests, where the repair of `f` writes its magic or a
name. Only there can a write make a place read as a header that did not, or the reverse.

### PatchMode

`AddPatch` queues a parsed patch, `CheckBounds`, `CheckOverlap` and `ApplyPatch`
are one iteration each of the loops of `apply_byte_patches`, with its indices;
the ends of ranges are sums modulo `SizeMax + 1`. Parsing of the hexadecimal text
is in the requests: an offset and a non-empty run of bytes.

### UpxUnpack

Per process: `MakeTemp`, `Repair`, `Resolve`, `StartFetcher`, `FetcherReturns`,
`ResolveAgain`, `StartUnpacker`, `UnpackerReturns`, and `Crash` at any of them; and
the two children, `Download`, `CopyOpen`, `CopyWrite`, `Chmod` of the script and
`Exec`, `Unpack` of upx. A child outlives a killed parent. A managed tool is
absent, torn or whole: `cp` creates its target with the mode of its source, so it
is executable, and found, before it is whole. The three `access` calls of one
resolution are one step, and `version` and `root` replace path names. Two copies
into one file at a time are over-approximated (either may finish it).

### CommandLine

One `Parse` per turn of the `getopt_long` loop, `EndOfOptions` for the tests
behind it, then one action per branch of `main` and per block of
`inspect_binary`. Options that the code treats alike are one flag ("hex range" is
`--hex-start` and `--hex-length`). A numeric option may be given its default
value, which the tests cannot tell from its absence; the model keeps that. The
order in which two error messages win is not state.

### RawViews

One action per turn of each loop: `Scan` looks at one offset, counts a hit and stores it
if it is below the limit; `PrintHits` is `print_search_hits`; a query of kind "utf16" is
scanned in both byte orders, "ascii" and "hex" once. `hits` is the one array that
all the scans share and none clears. A row of the hex view is the piece of the file it shows.
Bytes keep their place in the file; what a byte is matters only for being equal, and for
being zero.

### AnalysisReport and its collectors

A file is a record of what the readers find at the offsets where something begins: section
table, directories, descriptors, thunks, strings, dynamic entries; what is not listed reads as
zero. RVAs are numbers modulo `Wrap`, ELF words modulo `Wrap64`. `pc` names the collector that is running, each
collector has its own variables, and `AnalysisReport` composes them.

- `PeResources`: `collect_pe_resource_directory_entries` calls itself; its calls are an
  explicit `stack` of directory offset, next entry and labels. `ResourcesOutOfMemory` is a failed
  allocation, possible only where the list would grow.
- `PeImports`: one action per descriptor and per thunk. `pointers` is what a descriptor gave;
  `library` points into the list that descriptors share.
- `ElfNeeded`: the dynamic table up to its null entry, then the strings. Addresses, offsets and
  sizes are raw 64-bit values of the file (or 32-bit ones), and the sums at 3643, 3689, 3694,
  3763 and 3819 are modulo `Wrap64`: a `DT_STRSZ` near 2^64 passes the test of the table, and again the
  one of `bounded_file_string`, so a name may be read before the table, or its `memchr` runs on
  behind the file. There the text goes on in whatever memory holds, up to some zero byte, or the
  program dies (`DieBehindFile`). `headersOk` stands for the tests of the ELF header.
- `ExtractedStrings`: one action per turn of a scan (`ScanText`), with an ASCII pass and one
  or two UTF-16 passes per section; an unreadable section is passed over. Which texts
  `extracted_string_looks_meaningful` rejects is the constant `Meaningless`.
- Sections (`ReportSection`), overlay (`StartOverlay`) and signatures (`ScanRule`).

A failed allocation is a disjunct of the action that allocates: it ends the enrichment
(`pc` is "reported" with `enriched` false), and the report is printed.

### BinutilsLoader, Disassembly, Inspection

A machine (`world`) says what each environment variable, each bare name and each directory
entry opens: nothing, or a copy that is whole or not and of the right ABI or not.
`TryPath` is one `dlopen`, in the order of `open_binutils_library`.

A section is its address, its bytes (zero or not) and its symbols. `Decode` takes any result
from -1 to `MaxDecoded`, which covers errors, instructions that reach past the end, and all
lengths that fit the small sections. Addresses are modulo `AddressSpace`. Each of
`SkipZeros`, `PrintLabels`, `PrintLine` is one part of the loop body; a failed
`open_memstream` ends the run.

## 3. What the runs check

| Run | Instance | Distinct states |
|---|---|---|
| `elf_repair` | seven packed files (UPX 1, 3, 4; with and without `l_info`; stray magics; release markers in several places), three tamperings, two runs | 337,935 |
| `pe_repair` | five packed files (three formats; two, three and four sections) and eleven others of 500 to 560 bytes, three tamperings, repairs of repairs | 45,118 |
| `patch_mode` | files of 0 and 3 bytes, up to three patches out of eight, a 3-bit `size_t` | 22,672 |
| `upx_unpack` | two processes, two versions, two roots, six kinds of request, three initial stocks | 111,874 |
| `command_line` | every command, up to three options from every family | 1,076,691 |
| `search` | every file of 0, 1, 4 and 5 bytes over two values, up to two queries, limits 1 and 3, eight hex windows | 1,101,234 |
| `analysis` | families of files for each collector (trees, section tables, descriptors, dynamic tables with and without sums that wrap, overlays, texts) | 125,312 |
| `inspection` | every mix of present, torn and incompatible libraries; sections of 1, 4 and 5 bytes with symbols; 16 addresses | 21,588 |

**elf_repair.** `RunInv`: what is held and written is the repair of what was
read. `RestoresGenuine`: the repair of any tampered sample yields the file
the packer wrote, but for what the code does not promise: a tail if `l_info` did not guide the search,
and `p_info` if the first release marker of the sample says UPX 4, be it in an overlay. `AcceptsExactly`: which samples are refused, said from the
tampering and not from the code. `RepairSettles`: repairing the output of a
guided repair changes nothing, or, if the first run trimmed the overlay whose marker said UPX 4,
only `p_info`, and the third run nothing. `SummaryIsTruthful`: no fix is listed exactly
when nothing changed. `FileinfoAgrees`: on what repair produced, `fileinfo` prints
the header that repair chose. Three tamperings reach every pair that interact
(ELF magic with `l_info` or with an appended header-like tail, a zeroed `p_info` with an
appended marker) with one to spare;
two runs are enough for the properties, which relate a run to the next.

**pe_repair.** `PeRestoresGenuine`: the packed file comes back, with what was appended
to it; a name that still begins "UPX0" or "UPX1" keeps its last four bytes, which the code
does not look at. `PeRepairSettles`: a repaired file is repaired again without a fix.
`PeFileinfoAgrees`: `fileinfo` then calls the file packed and prints the version of
the same header, unless an earlier one only `fileinfo` accepts (its lengths are not sane).
`ImplementsPromise`: the refinement. Two kinds of file are excepted, and both are in the run: a
place that shares bytes with what was written, or with what was tampered with, reads as
a header only then, and is the first; and a header that lies inside its own section table, so that
writing a name changes it. The headers of the packed files stand at the
first and the last offset that the first window is scanned at, at the start of the second, inside, and
where the file ends behind the header, so each bound of the loop decides a
case; decoys with a wrong checksum, or lengths that only one reader accepts, come before and
after. In two packed files a place twenty bytes before the header reads as one only while the magic is
changed, and in another file a place sixteen bytes before does only once it is repaired.
Three tamperings combine any three of the four kinds (either
name, the magic, appended bytes), or one kind thrice.

**patch_mode.** `EveryPatchFits` (no patch leaves the buffer in unbounded
arithmetic), `RefusesExactlyConflicts` (a request is refused exactly when two
patches share a byte), `EveryPatchLands` (exit 0 means input plus every patch and
nothing else, after failed and crashed runs, in place too). Eight requests contain
touching, overlapping, nested, wrapping and out-of-range pairs. Deadlock is
checked: a run can always be repeated.

**upx_unpack.** `TempFileLife`, `RightTool` (with `FetchedIsFound`: the error "no managed
executable was found afterward" cannot happen), `SuccessMeansUnpacked`,
`TornToolHasACulprit`; the action property `TornToolIsKept`, and
under fairness `EveryRunEnds`. `TornToolIsKept` records a limitation: a fetch
killed while it copies leaves an executable fragment that every later run takes for
installed; a change that made the property fail would mend it. Two processes are enough for each race, which is between one process that
copies and one that resolves or executes; two roots distinguish the one that is
fetched into from the others.

**command_line.** `ViewsAreWhatWasAsked` (the views, said without reference to the
order of parsing), `WritesWhatWasAsked` (with `PatchModeIsNarrow`: patch options never go
unheeded), `ReportsAreWhole` (exit 0 means every block; a document is printed whole or not
at all; a library is loaded only by the runs that need it). Each test behind the loop
relates at most three options. Its type invariant is proved instead of run.

**search.** `ReportsAreExact`: each report gives the number of all occurrences, defined
without a scan, and lists the first of them, whatever an earlier scan left in the buffer.
`MirrorsCountOnce`: what may be read in both byte orders is listed by exactly one of the
two reports, and nothing else is dropped. `RowsAreTheFile`: the rows are the window,
cut at the end of the file. Five bytes hold two overlapping UTF-16 texts of two
characters at both parities; a limit of 1 is below, 3 above the number of hits of most
queries; two queries are enough for one to leave something to the next. The windows begin at the
first byte, inside, at the end and behind it.

**analysis.** `ResourcesAreTheTree`: the list is a prefix of the leaves reached in at most five
levels, in the tree's order with the labels of the first three levels, and all of them
up to the limit if the walk was not cut short; the expected list is defined from the paths of
the graph, not from the walk. `DependenciesAreWhole`: a printed summary has each library once, with each of
its symbols once, in the order of first mention, whatever descriptors repeat or lead
nowhere. `OverlayIsTheRest`: the two computations of what follows the sections agree, and
the signatures lie in it. `StringsAreTheText`: the strings are the maximal runs of the sections
scanned. `EveryReportIsMade`: under fairness every file, cyclic trees included, leads to a
report, or to a read behind the file if the end of the string table wraps. That is about the code's
loops, not its time: a tree of five full levels ends in principle only. `TypeOK` holds the limits of the lists (`MaxResources` 3 with a first capacity of 2, so that
the list grows and then fills up; the same for signatures). The families do not
multiply: the collectors share nothing but `file` and the order they run in. Trees have
a root and one directory that may lead to either; section tables up to two entries that overlap, wrap,
have no content or stick out of the file; three descriptors out of six; dynamic tables of five
entries in any order. With `Wrap64` at 65536 string tables, segments and the dynamic table end
beyond it, so that names are read before the table, in it and behind the file. With `Wrap64` at 65536 string tables, segments and the dynamic table end
beyond it, so that names are read before the table, in it and behind the file. Texts are all byte sequences up to length 4 over zero, a character and
another byte, and up to 6 over the first two, with a least length of 2 and one
meaningless text: enough for a UTF-16 text at either parity, overlapped by another.

**inspection.** `OnlyFitLibrariesAreUsed`: no call into a library that is torn, of another
ABI or, for libopcodes, not asked for; and the search order. `ListingIsTheSection`: the lines
tile the section, labels stand above exactly the lines at their symbols' addresses, and a listing that
ended left out only trailing zeros, or all of a section that reaches the top of the
addresses. `EveryInspectionEnds`. Sections start at 8, 11 and 13 of 16 addresses, so
five bytes end below, at and beyond the top. Zeros are skipped from three on
(`SkipZeroes`; sixteen in the code).

`CHECK_DEADLOCK FALSE` is used where the system ends: a process that has exited,
or the bound on runs.

**Fairness.** `upx_unpack` assumes weak fairness of each process, of each fetcher and of
each unpacker. The operating system schedules them, and upx and the local commands of the
script end. That a download ends is an assumption about the network: `curl` and `wget` are
called without a time limit. A kill is never forced and never fair. `analysis` and `inspection`
assume weak fairness of the whole next-state relation: one sequential program that keeps running,
whose reads and library calls return. The other runs check safety only.

## 4. Where code and documentation disagree

Each has a run that TLC refutes.

- `elf_overlay`: the README lists trimmed overlay bytes among the ELF repairs
  (207) without a condition; a file that lost its ELF magic and kept healthy
  `l_info` is repaired through the generic fallback, which does not trim.
- `patch_in_place`: `--patch-out` may name the input, which is then truncated and
  rewritten, though the comment at `binsight.c` 6069 says the input stays untouched.
- `search_mirror`: the comment at `binsight.c` 5710 says that the odd mirror of a UTF-16
  hit is suppressed so that both reports do not count the same bytes; an odd big-endian hit is
  only compared with the little-endian offset after it, so in the bytes `a 0 a 0 a` the text `aa`
  is listed at 0 and at 1, and both hits hold the middle character.
- `auto_fetch_pe`: only the ELF repair looks for a release string, so
  `--upx-auto-fetch` is refused for every PE sample, whatever string it embeds
  (README 251).

Seen while modelling, without a run: after a generic repair a second run may still
trim, so repair is idempotent only when `l_info` guided it, and not always then: if the
deciding `$Id: UPX 4` stands in an overlay, the first run leaves `p_info` as it is (986) and trims the
overlay, the second run rewrites `p_info`, and the third changes nothing; a zeroed `p_info` is not
restored for UPX 4 (README 206); after a PE repair has written `UPX!`, a place sixteen bytes before it, of
which these are the length fields, may read as a header and is what the next run finds; a PE header that
lies in its own section table is changed by the names that are written over it; an ELF string table
whose size is near 2^64 passes the tests at 3819 and 3643, and a summary is printed of names that lie
before it or behind the file; the recomputed checksum always equals the stored
one, because a header with another is not accepted; the repair modes silently ignore
`--json` and several other inspection options; `--json` without a view is refused,
because the default views include text-only ones; unreadable native headers are a
warning and exit 0; a failed allocation in a collector is silent and exit 0
(`binsight.c` 6888); a section that ends at the top of the address space has no
listing (7205).

## 5. What is proved

TLAPS checks the following for every value of the constants.

`UpxElfProofs`, from the assumptions on magics, on packed files, on junk and on
bounds that the modules name:

- `RepairedIsElfFile`, `GuidedSettles`, `NoFixIsNoChange`: of every file of the model (section 2:
  candidate headers do not share bytes), not only the instance's. The argument for `GuidedSettles`: a
  guided header is the last of the
  searched magics and plausible; repair makes its magic "UPX!", which neither
  plausibility nor the checksum reads, cuts the file behind it and makes `l_info` say
  "UPX!"; so the next search finds the same header as the last slot of the file, and
  four of the five fixes do not apply. Nor does the fifth, `p_info`, if both runs read the same release
  major (`GuidedIsStable`). They read another only if the marker of UPX 4 was cut off (`TailDecides`); then the
  second run rewrites `p_info` or nothing, cuts nothing, and so the third reads what the second did.
- `TypeCorrect`, `RunsRepairWhatTheyRead` (`RunInv`), `LaterRunsSettle` (`RepairSettles`),
  `SummariesAreTruthful` (`SummaryIsTruthful`). The inductive invariant is `TypeOK` with
  `RunInv`: where the run holds a repaired buffer, that buffer and the fixes are
  the repair and the fixes of the file it read. Without the link to `loaded` the
  other two do not follow, since the input may have been overwritten by then.
- `GenuineComesBack` (`RestoresGenuine`), `AcceptedSamples` (`AcceptsExactly`), `FileinfoFollows`
  (`FileinfoAgrees`). They rest on `FilesInv`: every file on the disk, in memory or left behind
  *descends* from the packer's file (`Descends`): what stands before the header is the packer's, the
  header is but for its magic, and nothing behind it is plausible. If
  the packer's first release marker says UPX 4, so does its own (`MajorIsKept`). Until the first run
  has read its input, no header is cut off (`Complete`). `FilesInv` is inductive
  because a repair of a descendant descends too, and so does a prefix of one. Of one descendant the three
  are lemmas without a run: `RepairsRestore`, `AcceptsExactlyThese` and the agreement of the
  two searches on a repaired file.

`UpxPeProofs`, from the assumptions on names, magics, tails, packed and other files and the bound. A
file is any sequence of bytes; nothing is assumed of where headers may begin:

- `PeScanImplementsPromise` (`ImplementsPromise`). The inductive invariant: the scan has
  passed over no hit and found none in the first window when it is in the second;
  from `FixMagic` on the offset is that of the located header; the buffer is the sample
  with as many parts of `Repaired` applied as there were writes; a refused sample is not
  repairable. The scan and three of the writes stutter, the last write is `Repair`.
- `PeRepairSettlesDown` of every file, `PeLaterRunsSettle` (`PeRepairSettles`) of every run. A repair
  changes nothing but the magic, two names and a checksum that was right already (`RepairedIsTampered`,
  `RepairedHolds`), none of which the layout is read from (`SameLayout`). A place that does
  not meet them reads as before (`UndisturbedReads`), and the header itself does not, since the names are
  before it and the scan does not test its magic (`OwnUndisturbed`). So unless a place that
  meets them is the first now, the same header is found again (`FoundAgain`), and there is nothing left to
  write (`NothingToWrite`).
- `PeGenuineComesBack` (`PeRestoresGenuine`), by the same `FoundAgain` from the packed file to the sample,
  which differs from it in nothing but names, magic and growth. Growth can add hits only
  where a header would have run past the old end, and those come after the
  packer's own. `ByteComesBack` then goes through the bytes: each is written by one of the writes, or by none
  and is the packer's.
- `PeFileinfoFollows` (`PeFileinfoAgrees`): where both readers accept a header they decode the
  same one (`DecodedFits`, `AcceptedDecodes`); so fileinfo stops at the repaired header or at an
  earlier one the repair does not accept. `TypeCorrect`.

`PatchProofs`, from the assumptions on sizes, inputs and requests:

- `TypeCorrect`, `PatchesFit` (`EveryPatchFits`), `ConflictsAreRefused` (`RefusesExactlyConflicts`),
  `PatchesLand` (`EveryPatchLands`), for every file, width of `size_t` and number of
  patches. The inductive invariant has one part per loop: the patches before `i` fit;
  the pairs before `(i, j)` do not overlap; every byte is what the patches before `i`
  make of it. That a patch that fits cannot wrap (`FitsMeansInside`) makes the machine's
  overlap test the mathematical one (`OverlapMeansSharedByte`), and disjointness keeps
  what earlier patches wrote when a later one is applied.

`UpxUnpackProofs`, from the assumptions on roots, requests and installed tools:

- `TempFiles` (`TempFileLife`), `RightToolRuns` (`RightTool`), `SuccessUnpacked`
  (`SuccessMeansUnpacked`), `TornHasCulprit` (`TornToolHasACulprit`), `TornKept` (`TornToolIsKept`),
  `TypeCorrect`, for any number of processes, versions and roots, with kills. The
  inductive invariant is `TypeOK`, one `ProcInv` per process and `FilesInv`. `ProcInv` ties a
  process to its two children, its temporary file and its tool, and says that a fetcher
  that has written keeps its target from being absent; that is what makes a fetched tool found
  again. `Frame` is what a step of one process leaves to the others, and `OthersKeep` that their
  `ProcInv` survives it: tools never become absent. So each step is judged by its own process alone,
  but for the two that write a file. `TornKept` needs in addition that whoever looks for
  the version finds it in the first root (`NoFetchOfTorn`).

`CommandLineProofs`, without assumptions on the arguments:

- `ViewsAsked` (`ViewsAreWhatWasAsked`), `WritesAsked` (`WritesWhatWasAsked`), `ReportsWhole`
  (`ReportsAreWhole`), `TypeCorrect`, for command lines of any length. `ParseInv` says what the options
  hold in terms of the arguments parsed so far, without their order; `RunInv` relates where the
  run is to what was accepted, printed, written and loaded. Both are needed, since the properties speak of
  the arguments and the run only looks at the options.

`RawViewsProofs`, from the assumptions on bytes, files, texts and limits:

- `ReportsExact` (`ReportsAreExact`), `TypeCorrect` (no hit is stored beyond the limit), with the
  invariant that during a scan the total is the number of occurrences before the
  offset (`ScanInv`) and the buffer holds the first of them. `CountedStep`: one more offset adds
  one element to a finite set or none.
- `MirrorsOnce` (`MirrorsCountOnce`): of two readings of the same characters at
  neighbouring offsets one is odd, and it is the odd one that is dropped.
- `HexRowsAreTheFile` (`RowsAreTheFile`): rows of any width for any window of any file.

`InspectionProofs`, from the assumptions on machines, on sections and on the decoder:

- `LibrariesFit` (`OnlyFitLibrariesAreUsed`). The invariant says of the library being opened
  that none of its names tried so far opens, and of one that is open that it is the first that does.
- `LinesTileSections`: the part of `ListingIsTheSection` about the lines and the end of a
  listing. The invariant (`ListingInv`) adds to it that the cursor is inside the section, and that a section
  which reaches the top of the addresses, where the sum wraps, has no line.
- `ListingsAreTheSections`: all of `ListingIsTheSection`, with the labels. `LabelInv` says that
  the symbols before the cursor are those below the address, so that labels printed are the
  symbols that stand at the address of a line. It needs that the sorted table holds every displayable
  symbol in order (`TableIsSorted`), which is proved by counting the symbols before each.
- `TypeCorrect`: whatever path is tried, a copy of a library is opened or nothing is.

`AnalysisReportProofs`, from the assumptions on the files that may be analysed (`CaseAssumption`:
the shape of the tables, not their content), on rules, limits, the least length of a text
and the widths of an RVA and of a 64-bit word (`WrapAssumption`):

- `OverlaysAreTheRest` (`OverlayIsTheRest`). `SectionInv` says what the loop over the sections has
  taken for the end so far, the greatest end of a section with contents; `OverlayInv` that the
  hits are those of the rules before the running one, in order and behind the last end. That the two
  computations agree is then that the greatest of a set is unique.
- `StringsAreAllTheText` (`StringsAreTheText`). `StringsInv`: the list is the texts of the
  sections and passes done, and of the part of the running pass behind which the scan stands; the
  place a scan stands at (`ScanPosition`) is never inside a run that it passed the beginning of.
- `ResourcesAreTheWholeTree` (`ResourcesAreTheTree`). The stack of the walk is a position in the tree
  of paths, and the list is what the paths before this position, in the tree's order, lead to, as
  far as the limit goes (`Walking`). Leaving a directory moves on to the next sibling of an ancestor,
  entering one to its first entry, and no path lies between. Cycles need no case
  of their own: the tree of paths is cut at the fifth level, where the code stops too.
- `DependenciesAreWholeAndOnce` (`DependenciesAreWhole`). `ImportsWhole`: while descriptor `i` is read the
  list of libraries is what the descriptors before it declare (`DeclaredBy`); while its thunks are
  read it is that with the symbols read so far (`DeclaredSoFar`). `DeclaredBy` is said without
  a loop, in terms of first mentions, and each of finding, adding and passing over is
  one step of it. `NeededWhole`: the names are the texts of the needed entries read so far, without
  repetition; a text is what the wrapped sums lead to, in the table or not, and a run that dies behind the file
  prints nothing. Both then say that nothing of an unfinished collection is printed.
- `TypeCorrect` (`TypeOK`): the limits and capacities of all lists.

Several of these need induction over a number. The library's theorem takes an operator, but that
every set of numbers has a least element (`LeastExists`, from the well-foundedness of strict
inclusion on finite sets) and induction over a set (`Induction`) can be stated
without one and are proved here.

Only model-checked: liveness (`EveryRunEnds`, `EveryReportIsMade`, `EveryInspectionEnds`), which is
out of this prover's reach as everything about ENABLED is. Every invariant and
every safety property of a passing run is stated by a theorem. What the theorems take from the
files as given, such as that a text is what stands at an offset, is in section 2.

## 6. Plan

Done, in this order: UPX header and ELF repair, patch mode, unpacking, command line,
PE repair; raw views; the report with its collectors; loader and disassembly; proofs about
unpacking, the command line, raw views and the inspection; proofs about the report, and of the invariants
of ELF and PE repair, patch mode and the inspection that had only been checked.

1. Proofs: that the inner and outer modules fit, for instance that `AnalysisReport` seen from outside is
   the one step that `Inspection` takes.
2. An abstract specification "the output is absent, torn or the right image" that
   `UpxElfRepair` and `PatchMode` both implement.
3. What stands behind the liveness properties and can be proved: that each step of a walk or scan
   lowers a measure.
4. The block padding of the digests; the security and provenance rules, if two of them turn out to
   interact.

## 7. Not modelled

Components left out: text, JSON and NDJSON formatting and the native header printer
(bounds-checked formatting without state); digests (compression functions are out of a model
checker's reach); security, provenance and protector hints, and the language guess (independent pattern
rules); libbfd, libopcodes, upx, curl and the file system beyond what the code's use of
them shows; the build.

Left out of what is modelled:

- Raw views: with both views asked for, the file is read twice; the model reads it once, so a file
  that changes in between is not covered.
- Report: truncation of long texts (`set_report_text`) and all formatting; entropy is a number a
  section comes with; files shorter than the longest magic (`RuleAssumption`). The ELF program header
  table lies in the file (`headersOk`): its own test, `phoff + phentsize * phnum` (3740), is a sum that may wrap
  too, and entries shorter than the fields read from them (3665) are not modelled. What a name holds that is read
  behind the file is not said.
- ELF repair: candidate headers that share bytes with each other or with a release marker.
- Disassembly: source lines above instructions (`print_disassembly_context_if_available`), and
  targets that change `skip_zeroes`.
- `fileinfo` on UPX: the release string, and the lesser layout tests that differ only for files
  the repair refuses.
