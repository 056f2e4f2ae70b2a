--------------------------- MODULE ExtractedStrings ---------------------------
(***************************************************************************)
(* The strings of an analysis report: collect_strings_from_sections and    *)
(* collect_strings_from_buffer of src/binsight.c.  Each section that       *)
(* qualifies is scanned for ASCII text and then for UTF-16 text of the     *)
(* target's byte order, or of both orders if it has none.  One action per  *)
(* turn of a scanning loop.                                                *)
(***************************************************************************)
EXTENDS AnalyzedFile

CONSTANTS
  MinLength,   \* options->min_string_length, at least 1
  Meaningless  \* the texts extracted_string_looks_meaningful rejects

ASSUME StringsAssumption == MinLength \in Nat \ {0}

VARIABLES
  request,  \* whether strings are asked for, and whether sections are named
  place,    \* how many sections are done with
  pass,     \* which of the scans of a section is running; 0: none
  start,    \* of the scan
  scanned,  \* the sections whose contents could be read
  strings   \* of the report

stringVars == <<request, place, pass, start, scanned, strings>>

\* Bytes: 0, the printable ones from 1 on, and Other for all the rest.
Other   == -1
Char(b) == b > 0

\* A section as BFD lists it; a file_ptr is signed.
ListedSection ==
  [hasContents : BOOLEAN, filepos : Int, rawsize : Nat, compressed : Nat, size : Nat,
   isCompressed : BOOLEAN, code : BOOLEAN, selected : BOOLEAN, bytes : Seq(Int),
   entropy : Nat, dense : BOOLEAN, suspect : BOOLEAN]

StringsInit ==
  /\ place = 0 /\ pass = 0 /\ start = 0
  /\ scanned = {} /\ strings = <<>>

-----------------------------------------------------------------------------
\* section_is_selected and section_is_string_candidate: code only if named.
Candidate(s) ==
  /\ s.hasContents /\ s.size # 0 /\ ~s.isCompressed
  /\ IF request.filtered THEN s.selected ELSE ~s.code

Passes(f) ==
  CASE f.endian = "little" -> <<"ascii", "utf16le">>
    [] f.endian = "big"    -> <<"ascii", "utf16be">>
    [] OTHER               -> <<"ascii", "utf16le", "utf16be">>

Width(e) == IF e = "ascii" THEN 1 ELSE 2

\* A character begins at offset o, and where its printable byte is.
CharAt(b, e, o) ==
  /\ o >= 0 /\ o + Width(e) <= Len(b)
  /\ CASE e = "ascii"   -> Char(b[o + 1])
       [] e = "utf16le" -> Char(b[o + 1]) /\ b[o + 2] = 0
       [] e = "utf16be" -> b[o + 1] = 0 /\ Char(b[o + 2])

PrintableAt(e, o) == IF e = "utf16be" THEN o + 2 ELSE o + 1

\* How many characters follow one another from offset o on.
Count(b, e, o) == Lowest({k \in 0..Len(b) : ~CharAt(b, e, o + k * Width(e))})

TextFrom(b, e, o) ==
  [i \in 1..Count(b, e, o) |-> b[PrintableAt(e, o + (i - 1) * Width(e))]]

\* append_ascii_string and append_extracted_string drop what has no meaning.
Kept(b, e, o) ==
  Count(b, e, o) >= MinLength /\ TextFrom(b, e, o) \notin Meaningless

String(s, e, o) ==
  [at |-> s.filepos + o, encoding |-> e, text |-> TextFrom(s.bytes, e, o)]

Current  == file.listed[place + 1]
Encoding == Passes(file)[pass]
Bytes    == Current.bytes

MoreText == start + Width(Encoding) <= Len(Bytes)

\* A bug: after a UTF-16 string the scan goes on at its second byte.
NextByte ==
  LET n == Count(Bytes, Encoding, start)
  IN  IF Encoding = "ascii" THEN start + n + 1 ELSE start + 1

\* Behind the text and what ended it; in UTF-16 behind the text, or a byte on.
NextStart ==
  LET n == Count(Bytes, Encoding, start)
  IN  IF Encoding = "ascii" THEN start + n + 1
      ELSE IF n >= MinLength THEN start + 2 * n
      ELSE start + 1

-----------------------------------------------------------------------------
Extracting == pc = "strings" /\ request.strings

\* A section that does not qualify, or that cannot be read: a warning.
LeaveOut ==
  /\ Extracting /\ pass = 0 /\ place < Len(file.listed)
  /\ place' = place + 1
  /\ UNCHANGED <<file, pc, request, pass, start, scanned, strings>>

ReadContents ==
  /\ Extracting /\ pass = 0 /\ place < Len(file.listed)
  /\ Candidate(Current)
  /\ scanned' = scanned \cup {place + 1}
  /\ pass' = 1 /\ start' = 0
  /\ UNCHANGED <<file, pc, request, place, strings>>

ScanText ==
  /\ Extracting /\ pass # 0 /\ MoreText
  /\ strings' = IF Kept(Bytes, Encoding, start)
                THEN Append(strings, String(Current, Encoding, start)) ELSE strings
  /\ start' = NextStart
  /\ UNCHANGED <<file, pc, request, place, pass, scanned>>

StringsOutOfMemory ==
  /\ Extracting /\ pass # 0 /\ MoreText
  /\ Count(Bytes, Encoding, start) >= MinLength
  /\ pc' = "failed"
  /\ UNCHANGED <<file, stringVars>>

NextPass ==
  /\ Extracting /\ pass # 0 /\ ~MoreText
  /\ start' = 0
  /\ IF pass < Len(Passes(file)) THEN pass' = pass + 1 /\ UNCHANGED place
     ELSE pass' = 0 /\ place' = place + 1
  /\ UNCHANGED <<file, pc, request, scanned, strings>>

EndStrings ==
  /\ pc = "strings"
  /\ request.strings => pass = 0 /\ place = Len(file.listed)
  /\ pc' = "read"
  /\ UNCHANGED <<file, stringVars>>

StringsNext ==
  LeaveOut \/ ReadContents \/ ScanText \/ StringsOutOfMemory \/ NextPass \/ EndStrings

StringsTypeOK ==
  /\ place \in 0..Len(file.listed)
  /\ pass \in 0..Len(Passes(file)) /\ start \in Nat
  /\ pass # 0 => place < Len(file.listed) /\ start <= Len(Bytes) + 1
  /\ scanned \subseteq 1..Len(file.listed)
  /\ \A i \in DOMAIN strings : Len(strings[i].text) >= MinLength
=============================================================================
