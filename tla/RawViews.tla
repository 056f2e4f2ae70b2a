------------------------------- MODULE RawViews -------------------------------
(***************************************************************************)
(* The views that read a file as plain bytes, in the order main prints     *)
(* them: print_search_results_for_path (--find-ascii, --find-hex,          *)
(* --find-utf16) and print_hex_view_for_path of src/binsight.c.  One       *)
(* action per loop iteration, so that the buffer of hits, which all the    *)
(* queries share, is seen between any two of them.  Byte o of a file is at *)
(* position o + 1 of a sequence.                                           *)
(***************************************************************************)
EXTENDS Integers, Sequences, FiniteSets

CONSTANTS
  Byte,        \* the values of a byte
  Zero,        \* the byte 0
  Files,       \* the files that may be looked at
  Texts,       \* the arguments of the --find options, as bytes
  Limits,      \* the values of --search-limit
  HexRequests, \* the hex options: where to start, how much, bytes per line
  MaxQueries   \* bound: how many --find options are given

ASSUME ByteAssumption == Zero \in Byte /\ Files \subseteq Seq(Byte)
ASSUME TextAssumption ==
  /\ Texts \subseteq Seq(Byte)
  /\ \A t \in Texts : Len(t) > 0
ASSUME LimitAssumption == Limits \subseteq Nat \ {0} /\ MaxQueries \in Nat
ASSUME HexAssumption ==
  HexRequests \subseteq [start : Nat, length : Nat \ {0}, width : Nat \ {0}]

Kinds  == {"ascii", "hex", "utf16"}
Labels == {"exact", "UTF-16LE", "UTF-16BE"}

\* add_search_query refuses an empty text; a text, unlike bytes, has no NUL.
Queries ==
  {s \in [kind : Kinds, text : Texts] :
     s.kind = "hex" \/ \A i \in DOMAIN s.text : s.text[i] # Zero}

VARIABLES
  file,     \* the bytes at the path
  queries,  \* the queries, in command-line order
  limit,    \* --search-limit
  hex,      \* the hex view asked for, or nothing
  pc,       \* where the run is
  q,        \* query_index + 1
  label,    \* which scan of the query is running
  offset,   \* of the scan
  total,    \* occurrences counted by the scan
  hits,     \* the one buffer of offsets, `limit` long
  reports,  \* what print_search_hits printed, scan after scan
  rows      \* the rows of the hex view printed so far

vars == <<file, queries, limit, hex, pc, q, label, offset, total, hits, reports, rows>>

scan == <<q, label, offset, total, hits, reports>>

request == <<file, queries, limit, hex>>

PC == {"parse", "read", "allocate", "query", "scan", "hex", "rows", "exit 0", "failed"}

Report == [query : Nat, label : Labels, total : Nat, shown : Seq(Nat)]

TypeOK ==
  /\ file \in Seq(Byte)
  /\ queries \in Seq(Queries)
  /\ limit \in Limits
  /\ hex \in SUBSET HexRequests
  /\ pc \in PC
  /\ q \in Nat \ {0}
  /\ label \in Labels
  /\ offset \in Nat /\ total \in Nat
  /\ hits \in [0..(limit - 1) -> Nat]
  /\ reports \in Seq(Report)
  /\ rows \in Seq([at : Nat, bytes : Seq(Byte)])

Init ==
  /\ file \in Files
  /\ queries = <<>>
  /\ limit \in Limits
  /\ hex \in {{}} \cup {{h} : h \in HexRequests}
  /\ pc = "parse"
  /\ q = 1 /\ label = "exact" /\ offset = 0 /\ total = 0
  /\ hits = [i \in 0..(limit - 1) |-> 0]
  /\ reports = <<>> /\ rows = <<>>

-----------------------------------------------------------------------------
\* memcmp of a pattern with the buffer at offset o, inside the file.
At(f, o, p) == \A i \in 1..Len(p) : f[o + i] = p[i]

\* pattern_matches_at, which an offset of -1 (SIZE_MAX) never passes.
Matches(f, o, p) == o \in 0..Len(f) /\ Len(p) <= Len(f) - o /\ At(f, o, p)

\* encode_utf16_literal: each character and a zero byte, in either order.
LittleEndian(t) ==
  [i \in 1..(2 * Len(t)) |-> IF i % 2 = 1 THEN t[(i + 1) \div 2] ELSE Zero]
BigEndian(t) ==
  [i \in 1..(2 * Len(t)) |-> IF i % 2 = 0 THEN t[i \div 2] ELSE Zero]

Pattern(t, l) ==
  CASE l = "exact"    -> t
    [] l = "UTF-16LE" -> LittleEndian(t)
    [] l = "UTF-16BE" -> BigEndian(t)

\* A bug: the mirror is looked for on the same side in both scans.
MirroredBefore(f, o, t, l) ==
  /\ o % 2 = 1
  /\ \/ l = "UTF-16LE" /\ Matches(f, o - 1, BigEndian(t))
     \/ l = "UTF-16BE" /\ Matches(f, o - 1, LittleEndian(t))

\* shifted_opposite: an odd match is dropped for the one it mirrors.
Mirrored(f, o, t, l) ==
  /\ o % 2 = 1
  /\ \/ l = "UTF-16LE" /\ Matches(f, o - 1, BigEndian(t))
     \/ l = "UTF-16BE" /\ Matches(f, o + 1, LittleEndian(t))

Text == queries[q].text

\* A bug: the last offset at which the pattern fits is not looked at.
FitsBefore(f, o, p) == o + Len(p) < Len(f)

Fits(f, o, p) == o + Len(p) <= Len(f)

Stored(buffer, i, o) ==
  [k \in DOMAIN buffer \cup {i} |-> IF k = i THEN o ELSE buffer[k]]

-----------------------------------------------------------------------------
\* add_search_query.
AddQuery(s) ==
  /\ pc = "parse"
  /\ Len(queries) < MaxQueries
  /\ queries' = Append(queries, s)
  /\ UNCHANGED <<file, limit, hex, pc, scan, rows>>

\* main: a search view needs a query, and one of the raw views is shown.
Begin ==
  /\ pc = "parse"
  /\ queries # <<>> \/ hex # {}
  /\ pc' = IF queries # <<>> THEN "read" ELSE "hex"
  /\ UNCHANGED <<request, scan, rows>>

ReadFile ==
  /\ pc = "read"
  /\ pc' \in {"allocate", "failed"}
  /\ UNCHANGED <<request, scan, rows>>

AllocateHits ==
  /\ pc = "allocate"
  /\ pc' \in {"query", "failed"}
  /\ UNCHANGED <<request, scan, rows>>

\* The next query; the encoding of a UTF-16 one may run out of memory.
BeginQuery ==
  /\ pc = "query"
  /\ q <= Len(queries)
  /\ offset' = 0 /\ total' = 0
  /\ \/ label' = (IF queries[q].kind = "utf16" THEN "UTF-16LE" ELSE "exact") /\ pc' = "scan"
     \/ queries[q].kind = "utf16" /\ pc' = "failed" /\ UNCHANGED label
  /\ UNCHANGED <<request, q, hits, reports, rows>>

EndSearch ==
  /\ pc = "query"
  /\ q > Len(queries)
  /\ pc' = IF hex # {} THEN "hex" ELSE "exit 0"
  /\ UNCHANGED <<request, scan, rows>>

\* A bug: the guard of the store lets one hit too many through.
ScanPastLimit ==
  /\ pc = "scan"
  /\ LET p == Pattern(Text, label) IN
       /\ Fits(file, offset, p)
       /\ IF At(file, offset, p) /\ ~Mirrored(file, offset, Text, label)
          THEN /\ hits' = IF total <= limit THEN Stored(hits, total, offset) ELSE hits
               /\ total' = total + 1
          ELSE UNCHANGED <<hits, total>>
  /\ offset' = offset + 1
  /\ UNCHANGED <<request, pc, q, label, reports, rows>>

\* One iteration of collect_pattern_hits or collect_utf16_hits.
Scan ==
  /\ pc = "scan"
  /\ LET p == Pattern(Text, label) IN
       /\ Fits(file, offset, p)
       /\ IF At(file, offset, p) /\ ~Mirrored(file, offset, Text, label)
          THEN /\ hits' = IF total < limit THEN Stored(hits, total, offset) ELSE hits
               /\ total' = total + 1
          ELSE UNCHANGED <<hits, total>>
  /\ offset' = offset + 1
  /\ UNCHANGED <<request, pc, q, label, reports, rows>>

Shown == IF total < limit THEN total ELSE limit

\* print_search_hits, then the big-endian scan or the next query.
PrintHits ==
  /\ pc = "scan"
  /\ ~Fits(file, offset, Pattern(Text, label))
  /\ reports' = Append(reports, [query |-> q, label |-> label, total |-> total,
                                 shown |-> [i \in 1..Shown |-> hits[i - 1]]])
  /\ IF label = "UTF-16LE"
     THEN label' = "UTF-16BE" /\ offset' = 0 /\ total' = 0 /\ UNCHANGED <<pc, q>>
     ELSE q' = q + 1 /\ pc' = "query" /\ UNCHANGED <<label, offset, total>>
  /\ UNCHANGED <<request, hits, rows>>

-----------------------------------------------------------------------------
\* print_hex_view_for_path reads the file again.
ReadForHex ==
  /\ pc = "hex"
  /\ \E h \in hex : pc' \in {"failed"} \cup (IF h.start > Len(file) THEN {} ELSE {"rows"})
  /\ UNCHANGED <<request, scan, rows>>

ShownLength(h) ==
  IF h.length > Len(file) - h.start THEN Len(file) - h.start ELSE h.length

\* A bug: the rows are always 16 bytes apart.
DefaultRowOffset(h) == Len(rows) * 16

RowOffset(h) == Len(rows) * h.width

RowCount(h) ==
  IF h.width > ShownLength(h) - RowOffset(h) THEN ShownLength(h) - RowOffset(h) ELSE h.width

PrintRow ==
  /\ pc = "rows"
  /\ \E h \in hex :
       LET at == h.start + RowOffset(h) IN
       /\ RowOffset(h) < ShownLength(h)
       /\ rows' = Append(rows, [at |-> at,
                                bytes |-> [i \in 1..RowCount(h) |-> file[at + i]]])
  /\ UNCHANGED <<request, pc, scan>>

EndRows ==
  /\ pc = "rows"
  /\ \E h \in hex : RowOffset(h) >= ShownLength(h)
  /\ pc' = "exit 0"
  /\ UNCHANGED <<request, scan, rows>>

Next ==
  \/ \E s \in Queries : AddQuery(s)
  \/ Begin \/ ReadFile \/ AllocateHits \/ BeginQuery \/ EndSearch
  \/ Scan \/ PrintHits \/ ReadForHex \/ PrintRow \/ EndRows

Spec == Init /\ [][Next]_vars

-----------------------------------------------------------------------------
\* The offsets below n at which a scan for t reports an occurrence.
Counted(f, t, l, n) ==
  {o \in 0..(n - 1) : Matches(f, o, Pattern(t, l)) /\ ~Mirrored(f, o, t, l)}

\* h is the occurrence with exactly k others of the set before it.
IsHit(S, k, h) == h \in S /\ Cardinality({o \in S : o < h}) = k

(***************************************************************************)
(* Every report printed gives the number of all the occurrences of its own *)
(* query in the file, overlapping ones and the last one included, and      *)
(* lists the first `limit` of them in ascending order: nothing that an     *)
(* earlier scan left in the shared buffer of hits is ever printed.         *)
(***************************************************************************)
ReportsAreExact ==
  \A r \in 1..Len(reports) :
    LET rep == reports[r]
        S   == Counted(file, queries[rep.query].text, rep.label, Len(file)) IN
    /\ rep.total = Cardinality(S)
    /\ Len(rep.shown) = IF rep.total < limit THEN rep.total ELSE limit
    /\ \A k \in 1..Len(rep.shown) : IsHit(S, k - 1, rep.shown[k])

\* The two reports of one UTF-16 query, with every hit listed.
Pair(little, big) ==
  /\ little.query = big.query
  /\ little.label = "UTF-16LE" /\ big.label = "UTF-16BE"
  /\ little.total <= limit /\ big.total <= limit

Lists(rep, o) == \E k \in 1..Len(rep.shown) : rep.shown[k] = o

(***************************************************************************)
(* When the same characters can be read in both byte orders, exactly one   *)
(* of the two reports lists them, at the even offset ("Prefer the          *)
(* even-aligned match and suppress the odd mirror", src/binsight.c:5709);  *)
(* and no other match is suppressed.                                       *)
(***************************************************************************)
MirrorsCountOnce ==
  \A a, b \in 1..Len(reports) :
    Pair(reports[a], reports[b]) =>
      \A o \in 0..Len(file) :
        LET t      == queries[reports[a].query].text
            little == Matches(file, o + 1, LittleEndian(t))
            big    == Matches(file, o, BigEndian(t)) IN
        /\ little /\ big =>
             /\ Lists(reports[a], o + 1) <=> o % 2 = 1
             /\ Lists(reports[b], o) <=> o % 2 = 0
        /\ little /\ ~big => Lists(reports[a], o + 1)
        /\ big /\ ~little => Lists(reports[b], o)

(***************************************************************************)
(* src/binsight.c:5709 "suppress the odd mirror so both endian reports do  *)
(* not count the same bytes": no character of the file is part of a hit of *)
(* both reports of a query.                                                *)
(***************************************************************************)
NoCharacterTwice ==
  \A a, b \in 1..Len(reports) :
    Pair(reports[a], reports[b]) =>
      \A i, j \in 0..(Len(queries[reports[a].query].text) - 1) :
        ~\E o \in 0..Len(file) :
            Lists(reports[a], o) /\ Lists(reports[b], o + 2 * i - 2 * j - 1)

(***************************************************************************)
(* The rows of the hex view are one piece of the file: they start where    *)
(* the user said, each goes on where the one before it ended, none reads   *)
(* past the end, and when the view is complete they hold exactly the bytes *)
(* asked for that the file has.                                            *)
(***************************************************************************)
RowsAreTheFile ==
  \A h \in hex :
    LET last == rows[Len(rows)]
        end  == IF rows = <<>> THEN h.start ELSE last.at + Len(last.bytes) IN
    /\ \A r \in 1..Len(rows) :
         /\ rows[r].at = IF r = 1 THEN h.start
                         ELSE rows[r - 1].at + Len(rows[r - 1].bytes)
         /\ Len(rows[r].bytes) \in 1..h.width
         /\ rows[r].at + Len(rows[r].bytes) <= Len(file)
         /\ \A i \in 1..Len(rows[r].bytes) : rows[r].bytes[i] = file[rows[r].at + i]
    /\ pc = "exit 0" =>
         /\ end <= Len(file)
         /\ end = h.start + h.length \/ (end = Len(file) /\ end < h.start + h.length)
=============================================================================
