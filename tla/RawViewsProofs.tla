---------------------------- MODULE RawViewsProofs ----------------------------
(***************************************************************************)
(* Proofs about the raw views, for every file, every list of queries,      *)
(* every limit and every hex request: the reports of a search are exact,   *)
(* the two UTF-16 reports share no reading of the same characters, and the *)
(* rows of the hex view are the piece of the file that was asked for.      *)
(***************************************************************************)
EXTENDS RawViews, FiniteSetTheorems, TLAPS

LEMMA PatternType ==
  ASSUME NEW t \in Seq(Byte), Len(t) > 0, NEW l \in Labels
  PROVE  Pattern(t, l) \in Seq(Byte) /\ Len(Pattern(t, l)) \in Nat \ {0}
<1> DEFINE n == 2 * Len(t)
<1>1. n \in Nat \ {0} /\ Zero \in Byte
  BY ByteAssumption
<1>2. \A i \in 1..n : /\ i % 2 = 1 => (i + 1) \div 2 \in 1..Len(t)
                      /\ i % 2 = 0 => i \div 2 \in 1..Len(t)
  OBVIOUS
<1>3. LittleEndian(t) \in [1..n -> Byte] /\ BigEndian(t) \in [1..n -> Byte]
  BY <1>1, <1>2 DEF LittleEndian, BigEndian
<1>4. /\ LittleEndian(t) \in Seq(Byte) /\ Len(LittleEndian(t)) = n
      /\ BigEndian(t) \in Seq(Byte) /\ Len(BigEndian(t)) = n
  BY <1>1, <1>3
<1> QED
  BY <1>1, <1>4 DEF Pattern, Labels

LEMMA CountedFinite ==
  ASSUME NEW f, NEW t, NEW l, NEW n \in Nat
  PROVE  /\ IsFiniteSet(Counted(f, t, l, n))
         /\ Cardinality(Counted(f, t, l, n)) \in Nat
         /\ Counted(f, t, l, n) \in SUBSET Nat
<1>1. IsFiniteSet(0..(n - 1))
  BY FS_Interval
<1>2. Counted(f, t, l, n) \in SUBSET (0..(n - 1))
  BY DEF Counted
<1>3. IsFiniteSet(Counted(f, t, l, n))
  BY <1>1, <1>2, FS_Subset
<1> QED
  BY <1>2, <1>3, FS_CardinalityType

\* One more offset is looked at: its occurrence, if it counts, is the last one.
LEMMA CountedStep ==
  ASSUME NEW f, NEW t, NEW l, NEW n \in Nat
  PROVE  LET S == Counted(f, t, l, n)
             U == Counted(f, t, l, n + 1)
             c == Matches(f, n, Pattern(t, l)) /\ ~Mirrored(f, n, t, l) IN
         /\ ~c => U = S
         /\ c => /\ Cardinality(U) = Cardinality(S) + 1
                 /\ \A k, h \in Nat : IsHit(S, k, h) => IsHit(U, k, h)
                 /\ IsHit(U, Cardinality(S), n)
<1> DEFINE S == Counted(f, t, l, n)
           U == Counted(f, t, l, n + 1)
           c == Matches(f, n, Pattern(t, l)) /\ ~Mirrored(f, n, t, l)
<1>1. 0..n = 0..(n - 1) \cup {n} /\ n \notin 0..(n - 1)
  OBVIOUS
<1>2. (n + 1) - 1 = n
  OBVIOUS
<1>3. ~c => U = S
  BY <1>1, <1>2 DEF Counted
<1>4. c => U = S \cup {n}
  BY <1>1, <1>2 DEF Counted
<1>5. n \notin S /\ \A o \in S : o \in Nat /\ o < n
  BY DEF Counted
<1>6. IsFiniteSet(S)
  BY CountedFinite
<1>7. c => Cardinality(U) = Cardinality(S) + 1
  BY <1>4, <1>5, <1>6, FS_AddElement
<1>8. ASSUME c, NEW k \in Nat, NEW h \in Nat, IsHit(S, k, h)
      PROVE  IsHit(U, k, h)
  <2>1. h \in S
    BY <1>8 DEF IsHit
  <2>2. {o \in U : o < h} = {o \in S : o < h}
    BY <1>4, <1>5, <1>8, <2>1
  <2> QED
    BY <1>4, <1>8, <2>1, <2>2 DEF IsHit
<1>9. c => IsHit(U, Cardinality(S), n)
  <2>1. c => {o \in U : o < n} = S
    BY <1>4, <1>5
  <2> QED
    BY <1>4, <2>1 DEF IsHit
<1> QED
  BY <1>3, <1>7, <1>8, <1>9

\* Where the pattern no longer fits there is nothing left to count.
LEMMA CountedEnd ==
  ASSUME NEW f \in Seq(Byte), NEW t, NEW l, NEW n \in 0..Len(f),
         Len(Pattern(t, l)) \in Nat, ~Fits(f, n, Pattern(t, l))
  PROVE  Counted(f, t, l, n) = Counted(f, t, l, Len(f))
<1>1. \A o \in 0..(Len(f) - 1) : Matches(f, o, Pattern(t, l)) => o <= n - 1
  BY DEF Matches, Fits
<1> QED
  BY <1>1 DEF Counted

-----------------------------------------------------------------------------
QueryInv ==
  /\ pc = "parse" => reports = <<>>
  /\ pc = "scan" => q \in 1..Len(queries)
  /\ \A r \in 1..Len(reports) : reports[r].query \in 1..Len(queries)

ScanInv ==
  pc = "scan" =>
    LET S == Counted(file, Text, label, offset) IN
    /\ offset <= Len(file)
    /\ total = Cardinality(S)
    /\ \A k \in 0..(limit - 1) : k < total => IsHit(S, k, hits[k])

SearchInv == TypeOK /\ QueryInv /\ ScanInv /\ ReportsAreExact

LEMMA QueryType ==
  ASSUME NEW s \in Queries
  PROVE  s.text \in Seq(Byte) /\ Len(s.text) > 0
BY TextAssumption DEF Queries

LEMMA InitSearch == Init => SearchInv
<1> SUFFICES ASSUME Init PROVE SearchInv
  OBVIOUS
<1>1. limit \in Nat \ {0} /\ file \in Seq(Byte)
  BY ByteAssumption, LimitAssumption DEF Init
<1>2. TypeOK
  BY <1>1 DEF Init, TypeOK, PC, Labels, Report
<1> QED
  BY <1>2 DEF Init, SearchInv, QueryInv, ScanInv, ReportsAreExact

\* The text and the pattern of the scan that is running.
LEMMA ScanText ==
  ASSUME TypeOK, QueryInv, pc = "scan"
  PROVE  /\ Text \in Seq(Byte) /\ Len(Text) > 0
         /\ Len(Pattern(Text, label)) \in Nat \ {0}
<1>1. queries[q] \in Queries
  BY DEF TypeOK, QueryInv
<1> QED
  BY <1>1, QueryType, PatternType DEF Text, TypeOK

LEMMA MatchHere ==
  ASSUME NEW f \in Seq(Byte), NEW o \in Nat, NEW p, Len(p) \in Nat, Fits(f, o, p)
  PROVE  Matches(f, o, p) <=> At(f, o, p)
BY DEF Fits, Matches

-----------------------------------------------------------------------------
LEMMA ScanStep ==
  ASSUME SearchInv, Scan
  PROVE  TypeOK' /\ ScanInv'
<1> DEFINE p == Pattern(Text, label)
           S == Counted(file, Text, label, offset)
           U == Counted(file, Text, label, offset + 1)
           c == At(file, offset, p) /\ ~Mirrored(file, offset, Text, label)
<1> USE DEF SearchInv
<1>1. /\ Text \in Seq(Byte) /\ Len(p) \in Nat \ {0}
      /\ pc = "scan" /\ Fits(file, offset, p)
  BY ScanText DEF Scan
<1>2. /\ file \in Seq(Byte) /\ offset \in Nat /\ total \in Nat
      /\ limit \in Nat \ {0} /\ hits \in [0..(limit - 1) -> Nat]
  BY LimitAssumption DEF TypeOK
<1>3. c <=> Matches(file, offset, p) /\ ~Mirrored(file, offset, Text, label)
  BY <1>1, <1>2, MatchHere
<1>4. /\ total = Cardinality(S)
      /\ \A k \in 0..(limit - 1) : k < total => IsHit(S, k, hits[k])
  BY <1>1 DEF ScanInv
<1>5. /\ ~c => U = S
      /\ c => /\ Cardinality(U) = Cardinality(S) + 1
              /\ \A k, h \in Nat : IsHit(S, k, h) => IsHit(U, k, h)
              /\ IsHit(U, Cardinality(S), offset)
  BY <1>2, <1>3, CountedStep
<1>6. /\ c => /\ hits' = IF total < limit THEN Stored(hits, total, offset) ELSE hits
              /\ total' = total + 1
      /\ ~c => hits' = hits /\ total' = total
      /\ offset' = offset + 1
  BY DEF Scan
<1>7. /\ hits' \in [0..(limit - 1) -> Nat]
      /\ total < limit /\ c => /\ hits'[total] = offset
                               /\ \A k \in 0..(limit - 1) : k # total => hits'[k] = hits[k]
  <2>1. total < limit => DOMAIN hits \cup {total} = 0..(limit - 1)
    BY <1>2
  <2> QED
    BY <1>2, <1>6, <2>1 DEF Stored
<1>8. UNCHANGED <<file, queries, limit, hex, pc, q, label, reports, rows>>
  BY DEF Scan, request
<1>9. TypeOK'
  <2>1. total' \in Nat /\ offset' \in Nat
    BY <1>2, <1>6
  <2>2. hits' \in [0..(limit' - 1) -> Nat]
    BY <1>7, <1>8
  <2> HIDE DEF p, S, U, c
  <2> QED
    BY <1>8, <2>1, <2>2 DEF TypeOK
<1>10. offset + 1 <= Len(file)
  BY <1>1, <1>2 DEF Fits
<1>11. ASSUME NEW k \in 0..(limit - 1), k < total'
       PROVE  IsHit(U, k, hits'[k])
  <2>1. CASE ~c
    BY <1>4, <1>5, <1>6, <1>11, <2>1
  <2>2. CASE c /\ k < total
    <3>1. hits'[k] = hits[k] /\ hits[k] \in Nat /\ IsHit(S, k, hits[k])
      BY <1>2, <1>4, <1>6, <1>7, <2>2
    <3> QED
      BY <1>5, <2>2, <3>1
  <2>3. CASE c /\ k = total
    BY <1>2, <1>4, <1>5, <1>7, <2>3
  <2> QED
    BY <1>2, <1>6, <1>11, <2>1, <2>2, <2>3
<1>12. total' = Cardinality(U)
  BY <1>4, <1>5, <1>6
<1>13. Text' = Text
  BY <1>8 DEF Text
<1> QED
  BY <1>6, <1>8, <1>9, <1>10, <1>11, <1>12, <1>13 DEF ScanInv

LEMMA NewScan ==
  ASSUME NEW f, NEW t, NEW l
  PROVE  Counted(f, t, l, 0) = {} /\ Cardinality({}) = 0
BY FS_EmptySet DEF Counted

LEMMA PrintHitsStep ==
  ASSUME SearchInv, PrintHits
  PROVE  SearchInv'
<1> DEFINE S == Counted(file, Text, label, Len(file))
           new == [query |-> q, label |-> label, total |-> total,
                   shown |-> [i \in 1..Shown |-> hits[i - 1]]]
<1> USE DEF SearchInv
<1>1. pc = "scan" /\ Len(Pattern(Text, label)) \in Nat /\ q \in 1..Len(queries)
  BY ScanText DEF PrintHits, QueryInv
<1>2. /\ file \in Seq(Byte) /\ offset \in Nat /\ total \in Nat
      /\ limit \in Nat \ {0} /\ hits \in [0..(limit - 1) -> Nat]
      /\ q \in Nat \ {0} /\ label \in Labels /\ reports \in Seq(Report)
  BY LimitAssumption DEF TypeOK
<1>3. S = Counted(file, Text, label, offset)
  <2>1. offset \in 0..Len(file) /\ ~Fits(file, offset, Pattern(Text, label))
    BY <1>1, <1>2 DEF PrintHits, ScanInv
  <2> QED
    BY <1>1, <1>2, <2>1, CountedEnd
<1>4. /\ total = Cardinality(S)
      /\ \A k \in 0..(limit - 1) : k < total => IsHit(S, k, hits[k])
  BY <1>1, <1>3 DEF ScanInv
<1>5. /\ Shown \in Nat /\ Shown <= limit /\ Shown <= total
      /\ Shown = IF total < limit THEN total ELSE limit
  BY <1>2 DEF Shown
<1>6. new.shown \in Seq(Nat) /\ Len(new.shown) = Shown
      /\ \A k \in 1..Shown : new.shown[k] = hits[k - 1]
  <2>1. new.shown \in [1..Shown -> Nat]
    BY <1>2, <1>5
  <2> QED
    BY <1>5, <2>1
<1>7. new \in Report
  BY <1>2, <1>6 DEF Report
<1>8. /\ reports' = Append(reports, new)
      /\ UNCHANGED <<file, queries, limit, hex, hits, rows>>
      /\ label' \in Labels /\ offset' \in Nat /\ total' \in Nat /\ q' \in Nat \ {0}
      /\ pc' \in {"scan", "query"}
      /\ pc' = "scan" => q' = q /\ offset' = 0 /\ total' = 0
  BY <1>1, <1>2 DEF PrintHits, request, Labels
<1>9. TypeOK'
  <2> HIDE DEF new, S
  <2>1. reports' \in Seq(Report)
    BY <1>2, <1>7, <1>8
  <2> QED
    BY <1>8, <2>1 DEF TypeOK, PC
<1>10. /\ Len(reports') = Len(reports) + 1
       /\ reports'[Len(reports) + 1] = new
       /\ \A r \in 1..Len(reports) : reports'[r] = reports[r]
  <2> HIDE DEF new
  <2> QED
    BY <1>2, <1>7, <1>8
<1>11. QueryInv'
  <2>1. new.query = q
    OBVIOUS
  <2> HIDE DEF new
  <2>2. \A r \in 1..Len(reports) : reports'[r].query \in 1..Len(queries')
    BY <1>8, <1>10 DEF QueryInv
  <2>3. \A r \in 1..Len(reports') : reports'[r].query \in 1..Len(queries')
    <3> TAKE r \in 1..Len(reports')
    <3>1. r \in 1..Len(reports) \/ r = Len(reports) + 1
      BY <1>2, <1>10
    <3>2. r = Len(reports) + 1 => reports'[r].query \in 1..Len(queries')
      BY <1>1, <1>8, <1>10, <2>1
    <3> QED
      BY <2>2, <3>1, <3>2
  <2> QED
    BY <1>1, <1>8, <2>3 DEF QueryInv
<1>12. ScanInv'
  <2>1. pc' = "scan" => Counted(file', Text', label', offset') = {} /\ total' = Cardinality({})
    BY <1>8, NewScan
  <2>2. pc' = "scan" => /\ offset' <= Len(file')
                        /\ \A k \in 0..(limit' - 1) : ~(k < total')
    BY <1>2, <1>8
  <2> HIDE DEF new, S
  <2> QED
    BY <2>1, <2>2 DEF ScanInv
<1>13. ReportsAreExact'
  <2> SUFFICES ASSUME NEW r \in 1..Len(reports')
               PROVE  LET rep == reports'[r]
                          T   == Counted(file, queries[rep.query].text, rep.label, Len(file)) IN
                      /\ rep.total = Cardinality(T)
                      /\ Len(rep.shown) = IF rep.total < limit THEN rep.total ELSE limit
                      /\ \A k \in 1..Len(rep.shown) : IsHit(T, k - 1, rep.shown[k])
    BY <1>8 DEF ReportsAreExact
  <2>1. CASE r \in 1..Len(reports)
    BY <1>10, <2>1 DEF ReportsAreExact
  <2>2. CASE r = Len(reports) + 1
    <3>1. reports'[r] = new
      BY <1>10, <2>2
    <3>2. Counted(file, queries[new.query].text, new.label, Len(file)) = S
      BY DEF Text
    <3>3. \A k \in 1..Len(new.shown) : IsHit(S, k - 1, new.shown[k])
      BY <1>2, <1>4, <1>5, <1>6
    <3>4. new.total = total
      OBVIOUS
    <3>5. new.total = Cardinality(S) /\ Len(new.shown) = IF new.total < limit THEN new.total ELSE limit
      BY <1>4, <1>5, <1>6, <3>4
    <3> HIDE DEF new, S
    <3> QED
      BY <3>1, <3>2, <3>3, <3>5
  <2>3. r \in 1..Len(reports) \/ r = Len(reports) + 1
    BY <1>2, <1>10
  <2> QED
    BY <2>1, <2>2, <2>3
<1> QED
  BY <1>9, <1>11, <1>12, <1>13

-----------------------------------------------------------------------------
\* The steps that print no report and scan nothing.
LEMMA QuietSearch ==
  ASSUME SearchInv, UNCHANGED <<file, queries, limit, hits, reports>>,
         pc' # "scan", pc # "parse" => pc' # "parse"
  PROVE  QueryInv' /\ ScanInv' /\ ReportsAreExact'
<1>1. QueryInv'
  BY DEF SearchInv, QueryInv
<1>2. ReportsAreExact'
  BY DEF SearchInv, ReportsAreExact
<1> QED
  BY <1>1, <1>2 DEF ScanInv

LEMMA RowType ==
  ASSUME TypeOK, PrintRow
  PROVE  rows' \in Seq([at : Nat, bytes : Seq(Byte)])
<1>1. PICK h \in hex :
        /\ RowOffset(h) < ShownLength(h)
        /\ rows' = Append(rows, [at |-> h.start + RowOffset(h),
                                 bytes |-> [i \in 1..RowCount(h) |->
                                              file[h.start + RowOffset(h) + i]]])
  BY DEF PrintRow
<1>2. /\ h.start \in Nat /\ h.width \in Nat \ {0} /\ h.length \in Nat
      /\ file \in Seq(Byte) /\ Len(file) \in Nat /\ Len(rows) \in Nat
  BY HexAssumption DEF TypeOK
<1>3. RowOffset(h) \in Nat
  BY <1>2 DEF RowOffset
<1>4. ShownLength(h) \in Int /\ ShownLength(h) <= Len(file) - h.start
  BY <1>2 DEF ShownLength
<1>5. RowCount(h) \in Nat /\ RowCount(h) <= ShownLength(h) - RowOffset(h)
  BY <1>1, <1>2, <1>3, <1>4 DEF RowCount
<1>6. \A i \in 1..RowCount(h) : h.start + RowOffset(h) + i \in 1..Len(file)
  BY <1>2, <1>3, <1>4, <1>5
<1>7. [i \in 1..RowCount(h) |-> file[h.start + RowOffset(h) + i]] \in [1..RowCount(h) -> Byte]
  BY <1>2, <1>6
<1>8. [i \in 1..RowCount(h) |-> file[h.start + RowOffset(h) + i]] \in Seq(Byte)
  BY <1>5, <1>7
<1> QED
  BY <1>1, <1>2, <1>3, <1>8 DEF TypeOK

LEMMA NextSearch == SearchInv /\ [Next]_vars => SearchInv'
<1> SUFFICES ASSUME SearchInv, [Next]_vars PROVE SearchInv'
  OBVIOUS
<1> USE DEF SearchInv
<1>1. ASSUME NEW s \in Queries, AddQuery(s)
      PROVE  SearchInv'
  <2>1. reports = <<>> /\ reports' = <<>> /\ pc' = "parse"
    BY <1>1 DEF AddQuery, QueryInv, scan
  <2>2. TypeOK'
    BY <1>1 DEF AddQuery, TypeOK, scan
  <2> QED
    BY <2>1, <2>2 DEF QueryInv, ScanInv, ReportsAreExact
<1>2. CASE Begin \/ ReadFile \/ AllocateHits \/ EndSearch \/ ReadForHex \/ EndRows
  <2>1. TypeOK'
    BY <1>2 DEF Begin, ReadFile, AllocateHits, EndSearch, ReadForHex, EndRows,
                TypeOK, PC, scan, request
  <2>2. QueryInv' /\ ScanInv' /\ ReportsAreExact'
    BY <1>2, QuietSearch
       DEF Begin, ReadFile, AllocateHits, EndSearch, ReadForHex, EndRows, scan, request
  <2> QED
    BY <2>1, <2>2
<1>3. CASE BeginQuery
  <2>1. /\ UNCHANGED <<file, queries, limit, hex, q, hits, reports, rows>>
        /\ offset' = 0 /\ total' = 0 /\ label' \in Labels /\ pc' \in {"scan", "failed"}
        /\ q <= Len(queries) /\ pc = "query"
    BY <1>3 DEF BeginQuery, request, TypeOK, Labels
  <2>2. TypeOK'
    BY <2>1 DEF TypeOK, PC
  <2>3. QueryInv'
    BY <2>1 DEF QueryInv, TypeOK
  <2>4. ReportsAreExact'
    BY <2>1 DEF ReportsAreExact
  <2>5. Counted(file', Text', label', offset') = {} /\ total' = Cardinality({})
    BY <2>1, NewScan
  <2>6. offset' <= Len(file') /\ \A k \in 0..(limit' - 1) : ~(k < total')
    BY <2>1 DEF TypeOK
  <2>7. ScanInv'
    BY <2>5, <2>6 DEF ScanInv
  <2> QED
    BY <2>2, <2>3, <2>4, <2>7
<1>4. CASE Scan
  <2>1. TypeOK' /\ ScanInv'
    BY <1>4, ScanStep
  <2>2. QueryInv' /\ ReportsAreExact'
    BY <1>4 DEF Scan, request, QueryInv, ReportsAreExact
  <2> QED
    BY <2>1, <2>2
<1>5. CASE PrintHits
  BY <1>5, PrintHitsStep
<1>6. CASE PrintRow
  <2>1. UNCHANGED <<file, queries, limit, hex, pc, q, label, offset, total, hits, reports>>
        /\ pc = "rows"
    BY <1>6 DEF PrintRow, request, scan
  <2>2. TypeOK'
    BY <1>6, <2>1, RowType DEF TypeOK
  <2> QED
    BY <2>1, <2>2, QuietSearch
<1>7. CASE UNCHANGED vars
  BY <1>7 DEF vars, TypeOK, QueryInv, ScanInv, ReportsAreExact, Text
<1> QED
  BY <1>1, <1>2, <1>3, <1>4, <1>5, <1>6, <1>7 DEF Next

(***************************************************************************)
(* The types, and with them that no scan ever writes past the end of the   *)
(* buffer of hits (collect_pattern_hits, collect_utf16_hits).              *)
(***************************************************************************)
THEOREM TypeCorrect == Spec => []TypeOK
<1>1. SearchInv => TypeOK
  BY DEF SearchInv
<1> QED
  BY <1>1, InitSearch, NextSearch, PTL DEF Spec

(***************************************************************************)
(* Whatever the file and the queries, a printed report counts all the      *)
(* occurrences and lists the first of them.                                *)
(***************************************************************************)
THEOREM ReportsExact == Spec => []ReportsAreExact
<1>1. SearchInv => ReportsAreExact
  BY DEF SearchInv
<1> QED
  BY <1>1, InitSearch, NextSearch, PTL DEF Spec

-----------------------------------------------------------------------------
\* Two occurrences with as many others before them are the same.
LEMMA SameRank ==
  ASSUME NEW S \in SUBSET Nat, IsFiniteSet(S), NEW k \in Nat,
         NEW g \in Nat, NEW h \in Nat, IsHit(S, k, g), IsHit(S, k, h)
  PROVE  ~(g < h)
<1> DEFINE G == {o \in S : o < g}
           H == {o \in S : o < h}
<1>1. ASSUME g < h
      PROVE  FALSE
  <2>1. g \in S /\ Cardinality(G) = k /\ Cardinality(H) = k
    BY DEF IsHit
  <2>2. G \in SUBSET H /\ H \in SUBSET S /\ g \in H /\ g \notin G
    <3>1. \A o \in S : o \in Nat
      OBVIOUS
    <3>2. \A o \in G : o \in S /\ o < g /\ o \in Nat
      BY <3>1
    <3>3. \A o \in G : o < h
      BY <1>1, <3>2
    <3>4. g \in H /\ g \notin G
      BY <1>1, <2>1
    <3>5. \A o \in G : o \in H
      BY <3>2, <3>3
    <3>6. \A o \in H : o \in S
      OBVIOUS
    <3> HIDE DEF G, H
    <3> QED
      BY <3>4, <3>5, <3>6
  <2> HIDE DEF G, H
  <2>3. IsFiniteSet(H)
    BY <2>2, FS_Subset
  <2>4. G = H
    BY <2>1, <2>2, <2>3, FS_Subset
  <2> QED
    BY <2>2, <2>4
<1> QED
  BY <1>1

\* A list of all the ranks is a list of all the occurrences.
LEMMA ListsAll ==
  ASSUME NEW S \in SUBSET Nat, IsFiniteSet(S), NEW l \in Seq(Nat),
         Len(l) = Cardinality(S), \A k \in 1..Len(l) : IsHit(S, k - 1, l[k]),
         NEW o \in Nat
  PROVE  (\E k \in 1..Len(l) : l[k] = o) <=> o \in S
<1> DEFINE below == {x \in S : x < o}
<1>1. ASSUME o \in S
      PROVE  \E k \in 1..Len(l) : l[k] = o
  <2>1. below \in SUBSET S /\ below # S
    BY <1>1
  <2>2. IsFiniteSet(below) /\ Cardinality(below) \in Nat /\ Cardinality(S) \in Nat
    BY <2>1, FS_Subset, FS_CardinalityType
  <2>3. Cardinality(below) < Cardinality(S)
    <3>1. Cardinality(below) <= Cardinality(S) /\ Cardinality(below) # Cardinality(S)
      BY <2>1, FS_Subset
    <3> HIDE DEF below
    <3> QED
      BY <2>2, <3>1
  <2> DEFINE k == Cardinality(below) + 1
  <2>4. k \in 1..Len(l)
    BY <2>2, <2>3
  <2>5. IsHit(S, Cardinality(below), o)
    BY <1>1 DEF IsHit
  <2>6. IsHit(S, Cardinality(below), l[k]) /\ l[k] \in Nat
    BY <2>2, <2>4
  <2>7. ~(l[k] < o) /\ ~(o < l[k])
    <3> HIDE DEF k, below
    <3> QED
      BY <2>2, <2>5, <2>6, SameRank
  <2> QED
    BY <2>4, <2>6, <2>7
<1>2. ASSUME NEW k \in 1..Len(l), l[k] = o
      PROVE  o \in S
  BY <1>2 DEF IsHit
<1> QED
  BY <1>1, <1>2

LEMMA SearchMirrors == SearchInv => MirrorsCountOnce
<1> SUFFICES ASSUME SearchInv,
                    NEW a \in 1..Len(reports), NEW b \in 1..Len(reports),
                    Pair(reports[a], reports[b]),
                    NEW o \in 0..Len(file)
             PROVE  LET t      == queries[reports[a].query].text
                        little == Matches(file, o + 1, LittleEndian(t))
                        big    == Matches(file, o, BigEndian(t)) IN
                    /\ little /\ big =>
                         /\ Lists(reports[a], o + 1) <=> o % 2 = 1
                         /\ Lists(reports[b], o) <=> o % 2 = 0
                    /\ little /\ ~big => Lists(reports[a], o + 1)
                    /\ big /\ ~little => Lists(reports[b], o)
  BY DEF MirrorsCountOnce
<1> DEFINE t      == queries[reports[a].query].text
           little == Matches(file, o + 1, LittleEndian(t))
           big    == Matches(file, o, BigEndian(t))
           L      == Counted(file, t, "UTF-16LE", Len(file))
           B      == Counted(file, t, "UTF-16BE", Len(file))
<1>1. /\ file \in Seq(Byte) /\ reports \in Seq(Report) /\ limit \in Nat
      /\ reports[a].query \in 1..Len(queries) /\ queries \in Seq(Queries)
  BY LimitAssumption DEF SearchInv, TypeOK, QueryInv
<1>2. t \in Seq(Byte) /\ Len(t) > 0
  <2>1. queries[reports[a].query] \in Queries
    BY <1>1
  <2> QED
    BY <2>1, QueryType
<1>3. Len(LittleEndian(t)) \in Nat \ {0} /\ Len(BigEndian(t)) \in Nat \ {0}
  <2>1. /\ Len(Pattern(t, "UTF-16LE")) \in Nat \ {0}
        /\ Len(Pattern(t, "UTF-16BE")) \in Nat \ {0}
    BY <1>2, PatternType DEF Labels
  <2> QED
    BY <2>1 DEF Pattern
<1>4. IsFiniteSet(L) /\ IsFiniteSet(B) /\ L \in SUBSET Nat /\ B \in SUBSET Nat
  BY <1>1, CountedFinite
<1>5. /\ reports[a] \in Report /\ reports[b] \in Report
      /\ reports[a].total = Cardinality(L) /\ Len(reports[a].shown) = Cardinality(L)
      /\ \A k \in 1..Len(reports[a].shown) : IsHit(L, k - 1, reports[a].shown[k])
      /\ reports[b].total = Cardinality(B) /\ Len(reports[b].shown) = Cardinality(B)
      /\ \A k \in 1..Len(reports[b].shown) : IsHit(B, k - 1, reports[b].shown[k])
  <2>1. reports[a] \in Report /\ reports[b] \in Report
    BY <1>1
  <2>2. /\ reports[a].label = "UTF-16LE" /\ reports[b].label = "UTF-16BE"
        /\ reports[b].query = reports[a].query
        /\ reports[a].total <= limit /\ reports[b].total <= limit
    BY DEF Pair
  <2>3. reports[a].total \in Nat /\ reports[b].total \in Nat
    BY <2>1 DEF Report
  <2>4. /\ reports[a].total = Cardinality(L)
        /\ Len(reports[a].shown) = IF reports[a].total < limit THEN reports[a].total ELSE limit
        /\ \A k \in 1..Len(reports[a].shown) : IsHit(L, k - 1, reports[a].shown[k])
    BY <2>2 DEF SearchInv, ReportsAreExact
  <2>5. /\ reports[b].total = Cardinality(B)
        /\ Len(reports[b].shown) = IF reports[b].total < limit THEN reports[b].total ELSE limit
        /\ \A k \in 1..Len(reports[b].shown) : IsHit(B, k - 1, reports[b].shown[k])
    BY <2>2 DEF SearchInv, ReportsAreExact
  <2> HIDE DEF L, B
  <2> QED
    BY <1>1, <2>1, <2>2, <2>3, <2>4, <2>5
<1>6. reports[a].shown \in Seq(Nat) /\ reports[b].shown \in Seq(Nat)
  BY <1>5 DEF Report
<1>7. Lists(reports[a], o + 1) <=> o + 1 \in L
  <2> HIDE DEF L, B, t
  <2>1. o + 1 \in Nat
    BY <1>1
  <2> QED
    BY <1>4, <1>5, <1>6, <2>1, ListsAll DEF Lists
<1>8. Lists(reports[b], o) <=> o \in B
  <2> HIDE DEF L, B, t
  <2>1. o \in Nat
    BY <1>1
  <2> QED
    BY <1>4, <1>5, <1>6, <2>1, ListsAll DEF Lists
<1>9. /\ little => o + 1 \in 0..(Len(file) - 1)
      /\ big => o \in 0..(Len(file) - 1)
  BY <1>1, <1>3 DEF Matches
<1>10. /\ o % 2 \in {0, 1}
       /\ (o + 1) % 2 = 1 <=> o % 2 = 0
       /\ (o + 1) - 1 = o
  BY <1>1
<1>11. o + 1 \in L <=> little /\ ~(o % 2 = 0 /\ big)
  BY <1>9, <1>10 DEF Counted, Pattern, Mirrored
<1>12. o \in B <=> big /\ ~(o % 2 = 1 /\ little)
  BY <1>9, <1>10 DEF Counted, Pattern, Mirrored
<1> QED
  <2> HIDE DEF L, B, t, little, big
  <2>1. /\ little /\ big =>
             /\ Lists(reports[a], o + 1) <=> o % 2 = 1
             /\ Lists(reports[b], o) <=> o % 2 = 0
        /\ little /\ ~big => Lists(reports[a], o + 1)
        /\ big /\ ~little => Lists(reports[b], o)
    BY <1>7, <1>8, <1>10, <1>11, <1>12
  <2> QED
    BY <2>1 DEF t, little, big

(***************************************************************************)
(* Whatever the file and the text, the same characters read in both byte   *)
(* orders are listed once, at the even offset, and nothing else is         *)
(* suppressed (the comment of collect_utf16_hits).                         *)
(***************************************************************************)
THEOREM MirrorsOnce == Spec => []MirrorsCountOnce
BY InitSearch, NextSearch, SearchMirrors, PTL DEF Spec

-----------------------------------------------------------------------------
Begun(h, n) == h.start + (n - 1) * h.width

Left(h, n) == ShownLength(h) - (n - 1) * h.width

GoodRow(h, n, row) ==
  /\ row.at = Begun(h, n)
  /\ Left(h, n) > 0
  /\ Len(row.bytes) = IF h.width > Left(h, n) THEN Left(h, n) ELSE h.width
  /\ \A i \in 1..Len(row.bytes) : row.bytes[i] = file[row.at + i]

\* The hex view: the rows printed so far are the first rows of the request.
RowInv ==
  \A h \in hex :
    /\ \A g \in hex : g = h
    /\ pc \notin {"rows", "exit 0"} => rows = <<>>
    /\ pc \in {"rows", "exit 0"} => h.start <= Len(file)
    /\ pc = "exit 0" => RowOffset(h) >= ShownLength(h)
    /\ \A r \in 1..Len(rows) : GoodRow(h, r, rows[r])

LEMMA HexType ==
  ASSUME TypeOK, NEW h \in hex
  PROVE  /\ h.start \in Nat /\ h.length \in Nat \ {0} /\ h.width \in Nat \ {0}
         /\ Len(file) \in Nat /\ Len(rows) \in Nat
         /\ ShownLength(h) \in Int /\ RowOffset(h) \in Nat
<1>1. /\ h.start \in Nat /\ h.length \in Nat \ {0} /\ h.width \in Nat \ {0}
      /\ Len(file) \in Nat /\ Len(rows) \in Nat
  BY HexAssumption DEF TypeOK
<1> QED
  BY <1>1 DEF ShownLength, RowOffset

LEMMA InitRows == Init => RowInv
BY DEF Init, RowInv

LEMMA PrintRowStep ==
  ASSUME TypeOK, RowInv, PrintRow
  PROVE  RowInv'
<1>1. PICK h \in hex :
        /\ RowOffset(h) < ShownLength(h)
        /\ rows' = Append(rows, [at |-> h.start + RowOffset(h),
                                 bytes |-> [i \in 1..RowCount(h) |->
                                              file[h.start + RowOffset(h) + i]]])
  BY DEF PrintRow
<1> DEFINE new == [at |-> h.start + RowOffset(h),
                   bytes |-> [i \in 1..RowCount(h) |-> file[h.start + RowOffset(h) + i]]]
           n == Len(rows) + 1
<1>2. /\ h.start \in Nat /\ h.length \in Nat \ {0} /\ h.width \in Nat \ {0}
      /\ Len(file) \in Nat /\ Len(rows) \in Nat
      /\ ShownLength(h) \in Int /\ RowOffset(h) \in Nat
  BY HexType
<1>3. /\ pc = "rows" /\ UNCHANGED <<file, hex, pc>>
      /\ \A g \in hex : g = h
      /\ h.start <= Len(file)
  BY DEF PrintRow, request, RowInv
<1>4. (n - 1) * h.width = RowOffset(h)
  BY <1>2 DEF RowOffset
<1>5. /\ RowCount(h) \in Nat
      /\ RowCount(h) = IF h.width > Left(h, n) THEN Left(h, n) ELSE h.width
      /\ Left(h, n) > 0
  BY <1>1, <1>2, <1>4 DEF RowCount, Left
<1>6. GoodRow(h, n, new)
  <2>1. new.at = Begun(h, n)
    BY <1>4 DEF Begun
  <2>2. Len(new.bytes) = RowCount(h)
    BY <1>5
  <2>3. \A i \in 1..Len(new.bytes) : new.bytes[i] = file[new.at + i]
    BY <2>2
  <2> HIDE DEF new, n
  <2> QED
    BY <1>5, <2>1, <2>2, <2>3 DEF GoodRow
<1>7. /\ Len(rows') = n /\ rows'[n] = new
      /\ \A r \in 1..Len(rows) : rows'[r] = rows[r]
  <2>1. rows' \in Seq([at : Nat, bytes : Seq(Byte)])
    BY RowType
  <2> HIDE DEF new
  <2> QED
    BY <1>1, <2>1 DEF TypeOK, new
<1>8. \A r \in 1..Len(rows') : GoodRow(h, r, rows'[r])
  <2> TAKE r \in 1..Len(rows')
  <2>1. r \in 1..Len(rows) \/ r = n
    BY <1>2, <1>7
  <2> HIDE DEF new
  <2>2. r \in 1..Len(rows) => GoodRow(h, r, rows'[r])
    BY <1>7 DEF RowInv
  <2> QED
    BY <1>6, <1>7, <2>1, <2>2
<1>9. \A g, r, row : GoodRow(g, r, row) <=> GoodRow(g, r, row)'
  BY <1>3 DEF GoodRow, Begun, Left, ShownLength
<1> HIDE DEF new, n
<1> QED
  BY <1>3, <1>8, <1>9 DEF RowInv

LEMMA NextRows == TypeOK /\ RowInv /\ [Next]_vars => RowInv'
<1> SUFFICES ASSUME TypeOK, RowInv, [Next]_vars PROVE RowInv'
  OBVIOUS
<1>1. CASE PrintRow
  BY <1>1, PrintRowStep
<1>2. ASSUME UNCHANGED <<file, hex, rows>>,
             pc' \in {"rows", "exit 0"} =>
               \/ pc' = pc
               \/ hex = {}
               \/ /\ pc \notin {"rows", "exit 0"} /\ pc' = "rows"
                  /\ \A h \in hex : h.start <= Len(file)
               \/ /\ pc = "rows" /\ \A h \in hex : RowOffset(h) >= ShownLength(h),
             pc \in {"rows", "exit 0"} => pc' \in {"rows", "exit 0"}
      PROVE  RowInv'
  <2>1. \A g, r, row : GoodRow(g, r, row) <=> GoodRow(g, r, row)'
    <3>1. \A g : ShownLength(g) = ShownLength(g)' /\ file = file'
      BY <1>2 DEF ShownLength
    <3>2. \A g, r : Begun(g, r) = Begun(g, r)' /\ Left(g, r) = Left(g, r)'
      BY <3>1 DEF Begun, Left
    <3> QED
      BY <3>1, <3>2 DEF GoodRow
  <2>2. \A g : RowOffset(g)' = RowOffset(g) /\ ShownLength(g)' = ShownLength(g)
    BY <1>2 DEF RowOffset, ShownLength
  <2> SUFFICES ASSUME NEW h \in hex
               PROVE  /\ \A g \in hex : g = h
                      /\ pc' \notin {"rows", "exit 0"} => rows = <<>>
                      /\ pc' \in {"rows", "exit 0"} => h.start <= Len(file)
                      /\ pc' = "exit 0" => RowOffset(h) >= ShownLength(h)
                      /\ \A r \in 1..Len(rows) : GoodRow(h, r, rows[r])
    BY <1>2, <2>1, <2>2 DEF RowInv
  <2> QED
    BY <1>2 DEF RowInv
<1>3. CASE EndRows
  <2>1. pc = "rows" /\ pc' = "exit 0" /\ UNCHANGED <<file, hex, rows>>
    BY <1>3 DEF EndRows, request
  <2>2. \A h \in hex : RowOffset(h) >= ShownLength(h)
    BY <1>3 DEF EndRows, RowInv
  <2> QED
    BY <1>2, <2>1, <2>2
<1>4. CASE ReadForHex
  <2>1. /\ pc = "hex" /\ pc' \in {"rows", "failed"} /\ UNCHANGED <<file, hex, rows>>
        /\ pc' = "rows" => \E h \in hex : ~(h.start > Len(file))
    BY <1>4 DEF ReadForHex, request
  <2>2. pc' = "rows" => \A h \in hex : h.start <= Len(file)
    BY <2>1, HexType DEF RowInv
  <2> QED
    BY <1>2, <2>1, <2>2
<1>5. CASE EndSearch
  <2>1. /\ pc = "query" /\ pc' = (IF hex # {} THEN "hex" ELSE "exit 0")
        /\ UNCHANGED <<file, hex, rows>>
    BY <1>5 DEF EndSearch, request
  <2> QED
    BY <1>2, <2>1
<1>6. CASE \/ \E s \in Queries : AddQuery(s)
           \/ Begin \/ ReadFile \/ AllocateHits \/ BeginQuery \/ Scan \/ PrintHits
  <2>1. /\ pc \notin {"rows", "exit 0"} /\ pc' \notin {"rows", "exit 0"}
        /\ UNCHANGED <<file, hex, rows>>
    BY <1>6 DEF AddQuery, Begin, ReadFile, AllocateHits, BeginQuery, Scan, PrintHits, request
  <2> QED
    BY <1>2, <2>1
<1>7. CASE UNCHANGED vars
  BY <1>2, <1>7 DEF vars
<1> QED
  BY <1>1, <1>3, <1>4, <1>5, <1>6, <1>7 DEF Next

\* One row further: the bytes of a row that is not the last fill it.
LEMMA RowsMeet ==
  ASSUME TypeOK, NEW h \in hex, NEW r \in Nat \ {0, 1}, Left(h, r) > 0
  PROVE  /\ Begun(h, r) = Begun(h, r - 1) + h.width
         /\ Left(h, r - 1) > h.width
<1> DEFINE x == (r - 1) * h.width
           y == ((r - 1) - 1) * h.width
<1>1. h.width \in Nat \ {0} /\ h.start \in Nat /\ ShownLength(h) \in Int
  BY HexType
<1>2. x = y + h.width /\ y \in Nat
  BY <1>1
<1>3. /\ Begun(h, r) = h.start + x /\ Begun(h, r - 1) = h.start + y
      /\ Left(h, r) = ShownLength(h) - x /\ Left(h, r - 1) = ShownLength(h) - y
  BY DEF Begun, Left
<1> HIDE DEF x, y
<1> QED
  BY <1>1, <1>2, <1>3

LEMMA RowsFile == TypeOK /\ RowInv => RowsAreTheFile
<1> SUFFICES ASSUME TypeOK, RowInv, NEW h \in hex
             PROVE  LET last == rows[Len(rows)]
                        end  == IF rows = <<>> THEN h.start ELSE last.at + Len(last.bytes) IN
                    /\ \A r \in 1..Len(rows) :
                         /\ rows[r].at = IF r = 1 THEN h.start
                                         ELSE rows[r - 1].at + Len(rows[r - 1].bytes)
                         /\ Len(rows[r].bytes) \in 1..h.width
                         /\ rows[r].at + Len(rows[r].bytes) <= Len(file)
                         /\ \A i \in 1..Len(rows[r].bytes) :
                              rows[r].bytes[i] = file[rows[r].at + i]
                    /\ pc = "exit 0" =>
                         /\ end <= Len(file)
                         /\ \/ end = h.start + h.length
                            \/ end = Len(file) /\ end < h.start + h.length
  BY DEF RowsAreTheFile
<1> DEFINE end == IF rows = <<>> THEN h.start
                  ELSE rows[Len(rows)].at + Len(rows[Len(rows)].bytes)
<1>1. /\ h.start \in Nat /\ h.length \in Nat \ {0} /\ h.width \in Nat \ {0}
      /\ Len(file) \in Nat /\ Len(rows) \in Nat
      /\ ShownLength(h) \in Int /\ RowOffset(h) \in Nat
  BY HexType
<1>2. \A r \in 1..Len(rows) : GoodRow(h, r, rows[r])
  BY DEF RowInv
<1>3. rows # <<>> => h.start <= Len(file)
  BY DEF RowInv
<1>4. h.start + ShownLength(h) <= Len(file) /\ ShownLength(h) <= h.length
      /\ (ShownLength(h) = h.length \/ h.start + ShownLength(h) = Len(file))
  BY <1>1 DEF ShownLength
<1>5. ASSUME NEW r \in 1..Len(rows)
      PROVE  /\ rows[r].at = IF r = 1 THEN h.start
                             ELSE rows[r - 1].at + Len(rows[r - 1].bytes)
             /\ Len(rows[r].bytes) \in 1..h.width
             /\ rows[r].at + Len(rows[r].bytes) <= Len(file)
             /\ \A i \in 1..Len(rows[r].bytes) : rows[r].bytes[i] = file[rows[r].at + i]
  <2>1. /\ rows[r].at = Begun(h, r) /\ Left(h, r) > 0
        /\ Len(rows[r].bytes) = IF h.width > Left(h, r) THEN Left(h, r) ELSE h.width
        /\ \A i \in 1..Len(rows[r].bytes) : rows[r].bytes[i] = file[rows[r].at + i]
    BY <1>2 DEF GoodRow
  <2>2. (r - 1) * h.width \in Nat
    BY <1>1
  <2> DEFINE x == (r - 1) * h.width
  <2>7. Begun(h, r) = h.start + x /\ Left(h, r) = ShownLength(h) - x /\ x \in Nat
    BY <2>2 DEF Begun, Left
  <2> HIDE DEF x
  <2>3. Begun(h, r) \in Nat /\ Left(h, r) \in Int
        /\ Begun(h, r) + Left(h, r) = h.start + ShownLength(h)
    BY <1>1, <2>7
  <2>4. Len(rows[r].bytes) \in 1..h.width /\ rows[r].at + Len(rows[r].bytes) <= Len(file)
    BY <1>1, <1>4, <2>1, <2>3
  <2>5. r = 1 => Begun(h, r) = h.start
    BY <1>1 DEF Begun
  <2>6. CASE r # 1
    <3>1. r - 1 \in 1..Len(rows) /\ r \in Nat \ {0, 1}
      BY <1>1, <2>6
    <3>2. rows[r - 1].at = Begun(h, r - 1)
          /\ Len(rows[r - 1].bytes) = IF h.width > Left(h, r - 1) THEN Left(h, r - 1) ELSE h.width
      BY <1>2, <3>1 DEF GoodRow
    <3>3. Begun(h, r) = Begun(h, r - 1) + h.width /\ Left(h, r - 1) > h.width
      BY <2>1, <3>1, RowsMeet
    <3>4. Left(h, r - 1) \in Int
      BY <1>1, <3>1 DEF Left
    <3>5. ~(h.width > Left(h, r - 1))
      BY <1>1, <3>3, <3>4
    <3> QED
      BY <2>1, <2>4, <2>6, <3>2, <3>3, <3>5
  <2> QED
    BY <2>1, <2>4, <2>5, <2>6
<1>6. ASSUME pc = "exit 0"
      PROVE  /\ end <= Len(file)
             /\ end = h.start + h.length \/ (end = Len(file) /\ end < h.start + h.length)
  <2>1. h.start <= Len(file) /\ RowOffset(h) >= ShownLength(h)
    BY <1>6 DEF RowInv
  <2>2. end = h.start + ShownLength(h)
    <3>1. CASE rows = <<>>
      <4>1. RowOffset(h) = 0
        BY <1>1, <3>1 DEF RowOffset
      <4>2. ShownLength(h) = 0
        BY <1>1, <2>1, <4>1 DEF ShownLength
      <4> QED
        BY <1>1, <3>1, <4>2
    <3>2. CASE rows # <<>>
      <4> DEFINE n == Len(rows)
      <4>1. n \in 1..Len(rows)
        BY <1>1, <3>2 DEF TypeOK
      <4>2. /\ rows[n].at = Begun(h, n) /\ Left(h, n) > 0
            /\ Len(rows[n].bytes) = IF h.width > Left(h, n) THEN Left(h, n) ELSE h.width
        BY <1>2, <4>1 DEF GoodRow
      <4>3. n * h.width = (n - 1) * h.width + h.width /\ (n - 1) * h.width \in Nat
        BY <1>1, <4>1
      <4>4. Left(h, n) <= h.width
        BY <1>1, <2>1, <4>3 DEF Left, RowOffset
      <4>5. Left(h, n) \in Int /\ Begun(h, n) + Left(h, n) = h.start + ShownLength(h)
        BY <1>1, <4>3 DEF Begun, Left
      <4> QED
        BY <1>1, <3>2, <4>2, <4>4, <4>5
    <3> QED
      BY <3>1, <3>2
  <2> QED
    BY <1>1, <1>4, <2>2
<1> QED
  BY <1>5, <1>6

(***************************************************************************)
(* Whatever the file, the start, the length and the width, the hex view    *)
(* never reads past the file and its rows are the bytes asked for          *)
(* (print_hex_view_for_path).                                              *)
(***************************************************************************)
THEOREM HexRowsAreTheFile == Spec => []RowsAreTheFile
<1>1. Spec => []TypeOK
  BY TypeCorrect
<1>2. Spec => []RowInv
  BY <1>1, InitRows, NextRows, PTL DEF Spec
<1> QED
  BY <1>1, <1>2, RowsFile, PTL
=============================================================================
