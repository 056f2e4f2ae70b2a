--------------------------- MODULE MCAnalysisReport ---------------------------
(***************************************************************************)
(* One family of files for each collector, so that their cases add up:     *)
(* resource trees, section tables, import descriptors, dynamic tables and  *)
(* sections with what lies after them.                                     *)
(***************************************************************************)
EXTENDS AnalysisReport

SeqsUpTo(S, n) == UNION {[1..k -> S] : k \in 0..n}

NoTable == [rva |-> 0, size |-> 0]
Sec(vs, va, rs, rp) ==
  [virtualSize |-> vs, virtualAddress |-> va, rawSize |-> rs, rawPointer |-> rp]

Unlisted ==
  [hasContents |-> FALSE, filepos |-> 0, rawsize |-> 0, compressed |-> 0, size |-> 0,
   isCompressed |-> FALSE, code |-> FALSE, selected |-> TRUE, bytes |-> <<>>,
   entropy |-> 0, dense |-> FALSE, suspect |-> FALSE]

\* A PE file of 400 bytes whose section has 300 of them at 100, RVA 1000.
PeFile ==
  [kind |-> "pe", endian |-> "little", headersOk |-> TRUE, size |-> 400, sizeOfHeaders |-> 64,
   sections |-> <<Sec(300, 1000, 300, 100)>>, listed |-> <<Unlisted>>,
   resources |-> NoTable, imports |-> NoTable, delayed |-> NoTable,
   exports |-> [rva |-> 0, size |-> 0, count |-> 0], imageBase |-> 2000, thunkSize |-> 4,
   directories |-> <<>>, dataEntries |-> <<>>, names |-> <<>>,
   descriptors |-> <<>>, thunks |-> <<>>, strings |-> <<>>, magics |-> {}]

Sub(i, to)  == [named |-> FALSE, id |-> i, sub |-> TRUE, to |-> to]
NSub(at, to) == [named |-> TRUE, id |-> at, sub |-> TRUE, to |-> to]
Leaf(i, to) == [named |-> FALSE, id |-> i, sub |-> FALSE, to |-> to]

\* A root and a directory below it, either of which may lead to either; a data
\* entry in the section and one that sticks out of it.
TreeFiles ==
  {[PeFile EXCEPT
      !.resources = [rva |-> 1000, size |-> 64],
      !.directories = (100 :> root) @@ (164 :> below),
      !.names = (340 :> [text |-> "ICON", length |-> 4]) @@ (390 :> [text |-> "CUT", length |-> 9]),
      !.dataEntries = (300 :> 1100) @@ (320 :> 9)]
     : root  \in SeqsUpTo({Sub(3, 64), NSub(240, 64), Sub(5, 0)}, 2)
                  \cup {<<NSub(290, 64), Leaf(1, 200)>>},
       below \in SeqsUpTo({NSub(240, 0), Sub(6, 64), Leaf(7, 200), Leaf(9, 290)}, 2)}

\* Section tables: overlapping, wrapping, without content, out of the file.
TableFiles ==
  {[PeFile EXCEPT
      !.sections = table, !.sizeOfHeaders = headers,
      !.resources = [rva |-> rva, size |-> 16],
      !.directories = (40 :> <<Sub(1, 40)>>) @@ (80 :> <<Sub(2, 80)>>) @@ (120 :> <<Leaf(4, 120)>>)
                       @@ (100 :> <<Sub(1, 40)>>) @@ (140 :> <<Sub(2, 80)>>)
                       @@ (180 :> <<Leaf(4, 120)>>)]
     : table \in SeqsUpTo({Sec(300, 1000, 300, 100), Sec(300, 1000, 100, 100), Sec(300, 1000, 0, 400),
                           Sec(3200, 900, 0, 0), Sec(900, 0, 900, 0)}, 2),
       headers \in {64, 2000}, rva \in {40, 1000}}

Descr(a, n, t, i) == [attributes |-> a, name |-> n, table |-> t, addresses |-> i]

\* Import descriptors at 100 and delayed ones at 200: shared libraries, names
\* and thunks that lead nowhere, thunks found through either field.
ImportFiles ==
  LET options == {Descr(0, 1200, 1150, 0), Descr(0, 1200, 0, 1162), Descr(0, 1204, 5000, 1150),
                  Descr(0, 5000, 1150, 0), Descr(0, 0, 1150, 0), Descr(0, 0, 0, 0)}
      late == {Descr(1, 1204, 1162, 0), Descr(0, 3204, 0, 3150), Descr(0, 1200, 1162, 0)}
      blank == Descr(0, 0, 0, 0)
      MakeFile(three, size, delayed, count) ==
        [PeFile EXCEPT
          !.imports = [rva |-> 1000, size |-> size],
          !.delayed = IF delayed = {} THEN NoTable ELSE [rva |-> 1228, size |-> 64 + 32],
          !.exports = [rva |-> 1050, size |-> 40, count |-> count],
          !.descriptors = [o \in {100, 120, 140} |-> three[(o - 80) \div 20]]
                           @@ [o \in (IF delayed = {} THEN {} ELSE {328, 360}) |-> The(delayed)[(o - 296) \div 32]],
          !.thunks = (250 :> [ordinal |-> TRUE, value |-> 7]) @@ (254 :> [ordinal |-> FALSE, value |-> 1210])
                      @@ (262 :> [ordinal |-> FALSE, value |-> 5000])
                      @@ (266 :> [ordinal |-> FALSE, value |-> 1210])
                      @@ (270 :> [ordinal |-> FALSE, value |-> 1220])
                      @@ (274 :> [ordinal |-> TRUE, value |-> 7]),
          !.strings = (300 :> [text |-> "a.dll", length |-> 3]) @@ (304 :> [text |-> "b.dll", length |-> 3])
                       @@ (312 :> [text |-> "f", length |-> 1]) @@ (322 :> [text |-> "ordinal#7", length |-> 9])]
  IN  {MakeFile(three, 60, {}, 0) : three \in [1..3 -> options]}
      \cup {MakeFile(<<o, p, p>>, 45, {}, 2) : o, p \in options}
      \cup {MakeFile(<<o, blank, o>>, 60, {<<x, y>>}, 0) : o \in options, x, y \in late}

ElfFile ==
  [kind |-> "elf", endian |-> "little", headersOk |-> TRUE, size |-> 400, entrySize |-> 16, listed |-> <<Unlisted>>,
   segments |-> <<>>, dynamic |-> <<>>, strings |-> <<>>, magics |-> {}]

Seg(type, offset, vaddr, filesz, memsz) ==
  [type |-> type, offset |-> offset, vaddr |-> vaddr, filesz |-> filesz, memsz |-> memsz]

\* Dynamic tables of five entries in any order, with a string table that is
\* mapped, cut by the file or only in memory.
ElfFiles ==
  LET tags == {"null", "needed", "strtab", "strsz", "soname"}
      values == [null |-> {0}, needed |-> {1, 5, 40}, strtab |-> {900}, strsz |-> {20, 700}, soname |-> {5}]
      entries == UNION {{[tag |-> t, value |-> v] : v \in values[t]} : t \in tags}
  IN  {[ElfFile EXCEPT
          !.segments = <<Seg("load", 300, 880, shape[1], 100), Seg("dynamic", 100, 0, shape[2], 0)>>,
          !.dynamic = <<[tag |-> "strsz", value |-> 30], first>> \o three,
          !.strings = (321 :> [text |-> "libc", length |-> 4]) @@ (325 :> [text |-> "libm", length |-> 4])]
         : shape \in {<<100, 88>>, <<10, 88>>, <<100, 0>>}, three \in [1..3 -> entries],
           first \in {[tag |-> "strtab", value |-> 900], [tag |-> "runpath", value |-> 1]}}

\* Tables whose ends wrap: the string table's, with names in it, before it,
\* none, and behind the file; a segment's in memory and in the file; and the
\* dynamic table's own.
WrappingFiles ==
  LET Near(k) == Wrap64 - k
      entries == {[tag |-> "needed", value |-> v] : v \in {1, 75, 90, Near(30), Near(10)}}
                   \cup {[tag |-> "soname", value |-> v] : v \in {5, 75}}
                   \cup {[tag |-> "strsz", value |-> 30], [tag |-> "null", value |-> 0]}
      loads == {Seg("load", 300, 880, 100, 100), Seg("load", 300, 880, 100, Near(900)),
                Seg("load", 300, 880, 100, Near(880)), Seg("load", Near(5), 880, 100, 100)}
      tables == {Seg("dynamic", 100, 0, 88, 0), Seg("dynamic", 100, 0, Near(50), 0)}
  IN  {[ElfFile EXCEPT
          !.segments = <<load, table>>,
          !.dynamic = <<[tag |-> "strsz", value |-> strsz], [tag |-> "strtab", value |-> 900]>> \o two,
          !.strings = (290 :> [text |-> "before", length |-> 6]) @@ (321 :> [text |-> "libc", length |-> 4])
                       @@ (325 :> [text |-> "libm", length |-> 4]) @@ (395 :> [text |-> "behind", length |-> 9])
                       @@ (16 :> [text |-> "head", length |-> 4])]
         : strsz \in {Near(20), Near(320), Near(1)}, two \in [1..2 -> entries], load \in loads, table \in tables}
      \cup {[ElfFile EXCEPT
               !.entrySize = 8,
               !.segments = <<Seg("load", 300, 880, 100, Wrap - 1), Seg("dynamic", 100, 0, size, 0)>>,
               !.dynamic = <<[tag |-> "strtab", value |-> 900], [tag |-> "strsz", value |-> strsz],
                             [tag |-> "needed", value |-> 1], [tag |-> "soname", value |-> 5]>>,
               !.strings = (321 :> [text |-> "libc", length |-> 4]) @@ (325 :> [text |-> "libm", length |-> 4])]
              : size \in {16, 24, 32, Wrap - 50}, strsz \in {30, 80, Wrap - 20}}

Listed(contents, at, raw, packed, size, e) ==
  [Unlisted EXCEPT !.hasContents = contents, !.filepos = at, !.rawsize = raw,
     !.compressed = packed, !.size = size, !.entropy = e, !.dense = e > 1]

\* Sections as BFD lists them, and magics before and after their end.
OverlayFiles ==
  {[PeFile EXCEPT !.kind = kind, !.headersOk = FALSE, !.size = 20, !.listed = listed,
      !.magics = {<<1, 8>>, <<1, 12>>, <<1, 14>>, <<2, 9>>, <<2, 13>>, <<2, 16>>}]
     : kind \in {"pe", "coff object", "other"},
       listed \in SeqsUpTo({Listed(TRUE, 4, 0, 0, 6, 1), Listed(TRUE, 4, 0, 7, 12, 2),
                            Listed(TRUE, 4, 4, 0, 12, 3), Listed(FALSE, 8, 0, 0, 9, 0),
                            Listed(TRUE, 10, 0, 0, 30, 1)}, 2)}

\* Every short text of 0, a character and another byte, and sections that
\* are or are not asked for, one after another.
StringCases ==
  LET Text(at, bytes) ==
        [Unlisted EXCEPT !.hasContents = TRUE, !.filepos = at, !.size = Len(bytes), !.bytes = bytes]
      Asked(endian, listed, filtered) ==
        [file |-> [ElfFile EXCEPT !.kind = "other", !.endian = endian, !.size = 20, !.listed = listed],
         request |-> [strings |-> TRUE, filtered |-> filtered]]
      words == <<1, 1, Other, 1, 1, 0>>
      kinds == {[Text(4, words) EXCEPT !.code = c, !.selected = s, !.isCompressed = p]
                  : c, s, p \in BOOLEAN}
      samples == SeqsUpTo({0, 1, Other}, 4) \cup SeqsUpTo({0, 1}, 6)
                   \cup {<<Other, 1, 0, 1, 0, Other>>, <<0, 0, 1, 0, 1, Other>>}
  IN  {Asked("unknown", <<Text(4, b)>>, FALSE) : b \in samples}
      \cup {Asked(e, <<Text(4, b)>>, FALSE) : e \in {"little", "big"}, b \in SeqsUpTo({0, 1}, 4)}
      \cup {Asked("big", <<k, Text(12, words)>>, filtered) : k \in kinds, filtered \in BOOLEAN}

MCCases ==
  {[file |-> f, request |-> [strings |-> FALSE, filtered |-> FALSE]]
     : f \in TreeFiles \cup TableFiles \cup ImportFiles \cup ElfFiles \cup WrappingFiles
              \cup OverlayFiles}
  \cup StringCases

MCMeaningless == {<<1, 1, 1>>}
MCRules == <<2, 4>>
=============================================================================
