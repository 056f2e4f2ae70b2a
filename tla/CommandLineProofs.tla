--------------------------- MODULE CommandLineProofs ---------------------------
(***************************************************************************)
(* Proofs about the command line, for any number of arguments in any       *)
(* order: the views shown, the mode that writes and the libraries loaded   *)
(* are those that were asked for.                                          *)
(***************************************************************************)
EXTENDS CommandLine, TLAPS

ParsingCommand ==
  IF command # NoCommand THEN Commands[command]
  ELSE IF Named = {} THEN DefaultViews ELSE {}

Unusable(a) == a.kind \in {"help", "invalid"}

\* What the options say about the arguments parsed so far.
ParseInv ==
  /\ \A n \in Flag \ NumberFlag : n \in options.given <=> Given("flag", n)
  /\ \A k \in DOMAIN argv :
       argv[k].kind = "flag" /\ argv[k].name \in NumberFlag =>
         \/ argv[k].name \in options.given
         \/ \E j \in k..Len(argv) : argv[j] = [kind |-> "default", name |-> argv[k].name]
  /\ options.explicit <=> command # NoCommand \/ Named # {}
  /\ options.views = (ParsingCommand \cup Named) \ Dropped
  /\ \/ pc \in {"help", "exit 1"} /\ wrote = "nothing"
     \/ \A k \in DOMAIN argv : ~Unusable(argv[k])

Accepted == ~BadModes(options) /\ ~BadPatch(options) /\ ~BadInspection(options)

Documents == {"json", "ndjson"}

\* The text printed so far: every view but those of S, and no other.
PrintedBut(S) ==
  /\ options.given \cap Documents = {}
  /\ printed \subseteq options.views
  /\ options.views \ ({"headers"} \cup S) \subseteq printed

\* Where the run is, and what it has done by then.
RunInv ==
  /\ pc \notin {"parse", "help", "exit 1"} \/ wrote # "nothing" => Accepted
  /\ pc \in {"raw", "hex", "load", "open", "report", "blocks", "opcodes", "disassemble"}
       => wrote = "nothing" /\ Inspects
  /\ wrote # "nothing" =>
       /\ pc \in {"exit 0", "exit 1"} /\ wrote \in options.given
       /\ printed = {} /\ loaded = {}
  /\ pc \in {"parse", "dispatch", "raw", "hex", "load"} => loaded = {}
  /\ pc \in {"parse", "dispatch", "raw", "load", "open", "report"} => printed = {}
  /\ pc \in {"parse", "dispatch", "load", "open", "report"} => block = 1
  /\ pc \in {"raw", "hex"} => OnlyRaw(options)
  /\ pc = "hex" => printed = options.views \cap {"search"}
  /\ pc \in {"load", "open", "report", "blocks", "opcodes", "disassemble"}
       => options.views \ RawViews # {}
  /\ pc \in {"open", "report", "blocks", "opcodes", "disassemble"} => "bfd" \in loaded
  /\ pc = "blocks" => PrintedBut({"disasm"} \cup {Blocks[i] : i \in block..Len(Blocks)})
  /\ pc \in {"opcodes", "disassemble"} =>
       PrintedBut({"disasm"}) /\ "disasm" \in options.views
  /\ pc = "exit 0" /\ wrote = "nothing" =>
       /\ Inspects
       /\ \/ PrintedBut({})
          \/ \E d \in Documents : printed = {d} /\ options.given \cap Documents = {d}
  /\ printed \cap Documents # {} => pc = "exit 0"
  /\ LibrariesOnlyWhenNeeded

Inv == TypeOK /\ ParseInv /\ RunInv

-----------------------------------------------------------------------------
LEMMA ArgumentShape ==
  ASSUME NEW a \in Argument
  PROVE  /\ a = [kind |-> a.kind, name |-> a.name]
         /\ a.kind \in {"view", "flag", "default", "no disasm", "help", "invalid"}
         /\ a.kind = "view" => a.name \in View
         /\ a.kind = "flag" => a.name \in Flag
         /\ a.kind = "default" => a.name \in NumberFlag
         /\ a.kind \in {"no disasm", "help", "invalid"} => a.name = "-"
BY DEF Argument

LEMMA CommandViews ==
  /\ \A c \in DOMAIN Commands : Commands[c] \subseteq View
  /\ DefaultViews \subseteq View
  /\ NoCommand \notin DOMAIN Commands
BY DEF Commands, View, DefaultViews, RawViews, NoCommand

LEMMA BlockCount == 1..(Len(Blocks) + 1) = 1..13
<1>1. Len(Blocks) = 12
  BY DEF Blocks
<1> QED
  BY <1>1

\* Every view but the disassembly is a block of text.
LEMMA BlockOfView ==
  /\ Len(Blocks) = 12
  /\ \A i \in 1..12 : Blocks[i] \in View \ {"disasm"}
  /\ \A v \in View \ {"disasm"} : \E i \in 1..12 : Blocks[i] = v
<1>1. Len(Blocks) = 12 /\ \A i \in 1..12 : Blocks[i] \in View \ {"disasm"}
  BY DEF Blocks, View
<1>2. /\ Blocks[1] = "overview" /\ Blocks[2] = "imports" /\ Blocks[3] = "headers"
      /\ Blocks[4] = "triage" /\ Blocks[5] = "security" /\ Blocks[6] = "provenance"
      /\ Blocks[7] = "resources" /\ Blocks[8] = "overlay" /\ Blocks[9] = "sections"
      /\ Blocks[10] = "strings" /\ Blocks[11] = "search" /\ Blocks[12] = "hex"
  BY DEF Blocks
<1>3. \A v \in View \ {"disasm"} : \E i \in 1..12 : Blocks[i] = v
  BY <1>2 DEF View
<1> QED
  BY <1>1, <1>3

-----------------------------------------------------------------------------
LEMMA ParsedType ==
  ASSUME NEW o \in [views : SUBSET View, explicit : BOOLEAN, given : SUBSET Flag],
         NEW a \in Argument
  PROVE  Parsed(o, a) \in [views : SUBSET View, explicit : BOOLEAN, given : SUBSET Flag]
<1>1. CASE a.kind = "view"
  BY <1>1, ArgumentShape DEF Parsed, Selected
<1>2. CASE a.kind = "no disasm"
  BY <1>2 DEF Parsed, Cleared
<1>3. CASE a.kind = "default"
  BY <1>3 DEF Parsed
<1>4. CASE a.kind = "flag"
  <2>1. a.name \in Flag /\ "search" \in View
    BY <1>4, ArgumentShape DEF View
  <2> QED
    BY <1>4, <2>1 DEF Parsed, Selected
<1>5. CASE a.kind \in {"help", "invalid"}
  BY <1>5 DEF Parsed
<1> QED
  BY <1>1, <1>2, <1>3, <1>4, <1>5, ArgumentShape

LEMMA ParsedLength ==
  ASSUME NEW s \in Seq(Arguments), NEW a \in Arguments, Len(s) < MaxArguments
  PROVE  Append(s, a) \in Seq(Arguments) /\ Len(Append(s, a)) <= MaxArguments
<1>1. /\ Append(s, a) \in Seq(Arguments) /\ Len(s) \in Nat
      /\ Len(Append(s, a)) = Len(s) + 1
  OBVIOUS
<1> QED
  BY <1>1, ArgumentAssumption

LEMMA InitType == Init => TypeOK
<1> SUFFICES ASSUME Init PROVE TypeOK
  OBVIOUS
<1>1. (IF command = NoCommand THEN DefaultViews ELSE Commands[command]) \subseteq View
  BY CommandViews DEF Init
<1>2. argv \in Seq(Arguments) /\ Len(argv) <= MaxArguments
  BY ArgumentAssumption DEF Init
<1>3. block \in 1..(Len(Blocks) + 1)
  BY BlockOfView DEF Init
<1> QED
  BY <1>1, <1>2, <1>3 DEF Init, TypeOK

LEMMA NextType == TypeOK /\ [Next]_vars => TypeOK'
<1> SUFFICES ASSUME TypeOK, [Next]_vars PROVE TypeOK'
  OBVIOUS
<1> USE DEF TypeOK
<1>1. ASSUME NEW a \in Arguments, Parse(a) PROVE TypeOK'
  <2>1. options' \in [views : SUBSET View, explicit : BOOLEAN, given : SUBSET Flag]
    BY <1>1, ParsedType, ArgumentAssumption DEF Parse
  <2>2. argv' \in Seq(Arguments) /\ Len(argv') <= MaxArguments
    BY <1>1, ParsedLength DEF Parse
  <2> QED
    BY <1>1, <2>1, <2>2 DEF Parse
<1>2. ASSUME NEW operands \in 0..2, EndOfOptions(operands) PROVE TypeOK'
  BY <1>2 DEF EndOfOptions
<1>3. CASE RunRepair
  BY <1>3 DEF RunRepair, Exit, Writers
<1>4. CASE RunPatch
  BY <1>4 DEF RunPatch, Exit, Writers
<1>5. CASE ChooseViews
  BY <1>5 DEF ChooseViews
<1>6. CASE RawSearch
  BY <1>6 DEF RawSearch, Exit, View
<1>7. CASE RawHex
  BY <1>7 DEF RawHex, Exit, View
<1>8. CASE LoadBfd
  BY <1>8 DEF LoadBfd, Exit
<1>9. CASE OpenBinary
  BY <1>9 DEF OpenBinary, Exit
<1>10. CASE PrintReport
  BY <1>10 DEF PrintReport, Exit
<1>11. CASE PrintBlock
  <2>1. block \in 1..12 /\ Blocks[block] \in View
    BY <1>11, BlockOfView DEF PrintBlock
  <2>2. block' \in {block, block + 1} /\ printed' \in {printed, printed \cup {Blocks[block]}}
    BY <1>11 DEF PrintBlock
  <2>3. pc' \in {"blocks", "exit 1"}
    BY <1>11 DEF PrintBlock, Exit
  <2>4. block' \in 1..13
    <3>1. block \in 1..12 /\ block' \in {block, block + 1}
      BY <2>1, <2>2
    <3> HIDE DEF TypeOK
    <3> QED
      BY <3>1
  <2>5. UNCHANGED <<command, argv, options, loaded, wrote>>
    BY <1>11 DEF PrintBlock
  <2>6. printed' \subseteq View \cup {"json", "ndjson"}
    BY <2>1, <2>2
  <2>7. block' \in 1..(Len(Blocks) + 1)
    BY <2>4, BlockCount, Zenon
  <2>8. /\ command' \in DOMAIN Commands \cup {NoCommand} /\ argv' \in Seq(Arguments)
        /\ Len(argv') <= MaxArguments
        /\ options' \in [views : SUBSET View, explicit : BOOLEAN, given : SUBSET Flag]
        /\ loaded' \subseteq {"bfd", "opcodes"} /\ wrote' \in Writers \cup {"nothing"}
    BY <2>5, Zenon
  <2> QED
    BY <2>3, <2>6, <2>7, <2>8
<1>12. CASE EndOfBlocks
  BY <1>12 DEF EndOfBlocks
<1>13. CASE LoadOpcodes
  BY <1>13 DEF LoadOpcodes, Exit
<1>14. CASE Disassemble
  BY <1>14 DEF Disassemble, Exit, View
<1>15. CASE UNCHANGED vars
  BY <1>15 DEF vars
<1> QED
  BY <1>1, <1>2, <1>3, <1>4, <1>5, <1>6, <1>7, <1>8, <1>9, <1>10, <1>11, <1>12, <1>13,
     <1>14, <1>15 DEF Next

\* Whatever the arguments are, the options stay options.
THEOREM TypeCorrect == Spec => []TypeOK
<1> QED
  BY InitType, NextType, PTL DEF Spec

-----------------------------------------------------------------------------
LEMMA Appended ==
  ASSUME NEW s \in Seq(Arguments), NEW a \in Arguments
  PROVE  /\ Append(s, a) \in Seq(Arguments)
         /\ Len(s) \in Nat /\ Len(Append(s, a)) = Len(s) + 1
         /\ DOMAIN s = 1..Len(s) /\ DOMAIN Append(s, a) = 1..(Len(s) + 1)
         /\ \A k \in 1..Len(s) : Append(s, a)[k] = s[k]
         /\ Append(s, a)[Len(s) + 1] = a
OBVIOUS

LEMMA ParsedMore ==
  ASSUME TypeOK, NEW a \in Arguments, argv' = Append(argv, a)
  PROVE  /\ Len(argv) \in Nat /\ Len(argv') = Len(argv) + 1
         /\ DOMAIN argv = 1..Len(argv) /\ DOMAIN argv' = 1..(Len(argv) + 1)
         /\ \A k \in 1..Len(argv) : argv'[k] = argv[k]
         /\ argv'[Len(argv) + 1] = a
<1>1. argv \in Seq(Arguments)
  BY DEF TypeOK
<1> QED
  BY <1>1, Appended

\* What one more argument changes in the words of the properties.
LEMMA OneMore ==
  ASSUME NEW n \in Nat, NEW s, NEW t, NEW a, NEW z,
         \A k \in 1..n : t[k] = s[k], t[n + 1] = a
  PROVE  (\E k \in 1..(n + 1) : t[k] = z) <=> (\E k \in 1..n : s[k] = z) \/ a = z
<1>1. \A k \in 1..(n + 1) : k \in 1..n \/ k = n + 1
  OBVIOUS
<1>2. 1..n \subseteq 1..(n + 1) /\ n + 1 \in 1..(n + 1)
  OBVIOUS
<1> QED
  BY <1>1, <1>2

LEMMA GivenStep ==
  ASSUME TypeOK, NEW a \in Arguments, argv' = Append(argv, a)
  PROVE  \A x, y : Given(x, y)' <=> Given(x, y) \/ a = [kind |-> x, name |-> y]
<1> SUFFICES ASSUME NEW x, NEW y
    PROVE Given(x, y)' <=> Given(x, y) \/ a = [kind |-> x, name |-> y]
  OBVIOUS
<1> DEFINE n == Len(argv)
           z == [kind |-> x, name |-> y]
<1>1. /\ n \in Nat /\ DOMAIN argv = 1..n /\ DOMAIN argv' = 1..(n + 1)
      /\ \A k \in 1..n : argv'[k] = argv[k]
      /\ argv'[n + 1] = a
  BY ParsedMore
<1>2. Given(x, y) <=> \E k \in 1..n : argv[k] = z
  BY <1>1 DEF Given
<1>3. Given(x, y)' <=> \E k \in 1..(n + 1) : argv'[k] = z
  BY <1>1 DEF Given
<1> HIDE DEF n, z
<1>4. (\E k \in 1..(n + 1) : argv'[k] = z) <=> (\E k \in 1..n : argv[k] = z) \/ a = z
  BY <1>1, OneMore
<1> QED
  BY <1>2, <1>3, <1>4 DEF z

LEMMA NamedStep ==
  ASSUME TypeOK, NEW a \in Arguments, argv' = Append(argv, a)
  PROVE  Named' = Named \cup {v \in View : a = [kind |-> "view", name |-> v]}
                   \cup {v \in {"search"} : a = [kind |-> "flag", name |-> "query"]}
<1>1. \A x, y : Given(x, y)' <=> Given(x, y) \/ a = [kind |-> x, name |-> y]
  BY GivenStep
<1>2. /\ Named = {v \in View : Given("view", v)} \cup {v \in {"search"} : Given("flag", "query")}
      /\ Named' = {v \in View : Given("view", v)'} \cup {v \in {"search"} : Given("flag", "query")'}
  BY DEF Named
<1> QED
  BY <1>1, <1>2, Zenon

LEMMA Intervals ==
  ASSUME NEW n \in Nat
  PROVE  /\ \A k \in 1..(n + 1) : k \in 1..n \/ k = n + 1
         /\ \A k \in 1..n : k \in 1..(n + 1)
         /\ n + 1 \in 1..(n + 1)
         /\ \A k \in 1..(n + 1) : n + 1 \in k..(n + 1)
         /\ \A k \in 1..n : \A j \in k..(n + 1) : j \in k..n \/ j = n + 1
         /\ \A k \in 1..n : \A j \in k..n : j \in 1..n /\ j \in k..(n + 1)
         /\ \A j \in (n + 1)..(n + 1) : j = n + 1
OBVIOUS

\* The last "no disasm" of s[1..n] stands behind every z.
NotAgain(s, n, z) ==
  \E k \in 1..n : s[k].kind = "no disasm" /\ \A j \in k..n : s[j] # z

LEMMA LastStep ==
  ASSUME NEW n \in Nat, NEW s, NEW t, NEW a, NEW z,
         \A k \in 1..n : t[k] = s[k], t[n + 1] = a, z.kind # "no disasm"
  PROVE  /\ a.kind = "no disasm" => NotAgain(t, n + 1, z)
         /\ a = z => ~NotAgain(t, n + 1, z)
         /\ a.kind # "no disasm" /\ a # z => (NotAgain(s, n, z) <=> NotAgain(t, n + 1, z))
<1> USE DEF NotAgain
<1>1. /\ \A k \in 1..(n + 1) : k \in 1..n \/ k = n + 1
      /\ \A k \in 1..n : k \in 1..(n + 1)
      /\ n + 1 \in 1..(n + 1)
      /\ \A k \in 1..(n + 1) : n + 1 \in k..(n + 1)
      /\ \A k \in 1..n : \A j \in k..(n + 1) : j \in k..n \/ j = n + 1
      /\ \A k \in 1..n : \A j \in k..n : j \in 1..n /\ j \in k..(n + 1)
      /\ \A j \in (n + 1)..(n + 1) : j = n + 1
  BY Intervals
<1>2. a.kind = "no disasm" => NotAgain(t, n + 1, z)
  BY <1>1
<1>3. a = z => ~NotAgain(t, n + 1, z)
  BY <1>1
<1>4. ASSUME a.kind # "no disasm", a # z, NotAgain(s, n, z) PROVE NotAgain(t, n + 1, z)
  <2>1. PICK k \in 1..n : s[k].kind = "no disasm" /\ \A j \in k..n : s[j] # z
    BY <1>4
  <2>2. t[k].kind = "no disasm" /\ \A j \in k..(n + 1) : t[j] # z
    BY <1>1, <1>4, <2>1
  <2> QED
    BY <1>1, <2>1, <2>2
<1>5. ASSUME a.kind # "no disasm", a # z, NotAgain(t, n + 1, z) PROVE NotAgain(s, n, z)
  <2>1. PICK k \in 1..(n + 1) : t[k].kind = "no disasm" /\ \A j \in k..(n + 1) : t[j] # z
    BY <1>5
  <2>2. k \in 1..n
    BY <1>1, <1>5, <2>1
  <2>3. s[k].kind = "no disasm" /\ \A j \in k..n : s[j] # z
    BY <1>1, <2>1, <2>2
  <2> QED
    BY <2>2, <2>3
<1> QED
  BY <1>2, <1>3, <1>4, <1>5

LEMMA DroppedStep ==
  ASSUME TypeOK, NEW a \in Arguments, argv' = Append(argv, a)
  PROVE  Dropped' = IF a.kind = "no disasm" THEN {"disasm"}
                    ELSE IF a = [kind |-> "view", name |-> "disasm"] THEN {} ELSE Dropped
<1> DEFINE n == Len(argv)
           z == [kind |-> "view", name |-> "disasm"]
           P == NotAgain(argv, n, z)
           Q == NotAgain(argv', n + 1, z)
<1>1. /\ n \in Nat /\ DOMAIN argv = 1..n /\ DOMAIN argv' = 1..(n + 1)
      /\ Len(argv') = n + 1
      /\ \A k \in 1..n : argv'[k] = argv[k]
      /\ argv'[n + 1] = a
  BY ParsedMore
<1>2. Dropped = {v \in {"disasm"} : \E k \in 1..n : /\ argv[k].kind = "no disasm"
                     /\ \A j \in k..n : argv[j] # [kind |-> "view", name |-> v]}
  BY <1>1 DEF Dropped
<1>3. Dropped' = {v \in {"disasm"} : \E k \in 1..(n + 1) : /\ argv'[k].kind = "no disasm"
                     /\ \A j \in k..(n + 1) : argv'[j] # [kind |-> "view", name |-> v]}
  BY <1>1 DEF Dropped
<1>4. Dropped = IF P THEN {"disasm"} ELSE {}
  BY <1>2 DEF NotAgain
<1>5. Dropped' = IF Q THEN {"disasm"} ELSE {}
  BY <1>3 DEF NotAgain
<1>6. z.kind # "no disasm"
  OBVIOUS
<1>7. /\ a.kind = "no disasm" => Q
      /\ a = z => ~Q
      /\ a.kind # "no disasm" /\ a # z => (P <=> Q)
  <2>1. \A s, t : /\ \A k \in 1..n : t[k] = s[k]
                  /\ t[n + 1] = a
                  => /\ a.kind = "no disasm" => NotAgain(t, n + 1, z)
                     /\ a = z => ~NotAgain(t, n + 1, z)
                     /\ a.kind # "no disasm" /\ a # z =>
                          (NotAgain(s, n, z) <=> NotAgain(t, n + 1, z))
    <3>1. n \in Nat
      BY <1>1
    <3> HIDE DEF n, z, P, Q
    <3> QED
      BY <3>1, <1>6, LastStep
  <2> HIDE DEF n, z
  <2> QED
    BY <1>1, <2>1, Zenon
<1> HIDE DEF P, Q
<1> QED
  BY <1>4, <1>5, <1>6, <1>7

-----------------------------------------------------------------------------
IsQuery(a) == a = [kind |-> "flag", name |-> "query"]

LEMMA ParsedFields ==
  ASSUME NEW o \in [views : SUBSET View, explicit : BOOLEAN, given : SUBSET Flag],
         NEW a \in Argument
  PROVE  /\ Parsed(o, a).given = IF a.kind = "default" THEN o.given \ {a.name}
                                 ELSE IF a.kind = "flag" THEN o.given \cup {a.name}
                                 ELSE o.given
         /\ Parsed(o, a).explicit <=> o.explicit \/ a.kind = "view" \/ IsQuery(a)
         /\ Parsed(o, a).views =
              IF a.kind = "view" THEN (IF o.explicit THEN o.views ELSE {}) \cup {a.name}
              ELSE IF IsQuery(a) THEN (IF o.explicit THEN o.views ELSE {}) \cup {"search"}
              ELSE IF a.kind = "no disasm" THEN o.views \ {"disasm"}
              ELSE o.views
<1>0. a = [kind |-> a.kind, name |-> a.name]
  BY ArgumentShape
<1>1. CASE a.kind = "view"
  BY <1>1 DEF Parsed, Selected, IsQuery
<1>2. CASE a.kind = "no disasm"
  <2>1. ~IsQuery(a)
    <3>1. IsQuery(a) => a.kind = "flag"
      BY DEF IsQuery
    <3> QED
      BY <1>2, <3>1
  <2>2. Parsed(o, a) = [o EXCEPT !.views = @ \ {"disasm"}]
    BY <1>2 DEF Parsed, Cleared
  <2> QED
    BY <1>2, <2>1, <2>2
<1>3. CASE a.kind = "default"
  BY <1>3 DEF Parsed, IsQuery
<1>4. CASE a.kind = "flag"
  <2>1. CASE a.name = "query"
    <3>1. IsQuery(a)
      BY <1>0, <1>4, <2>1 DEF IsQuery
    <3> QED
      BY <1>4, <2>1, <3>1 DEF Parsed, Selected
  <2>2. CASE a.name # "query"
    <3>1. ~IsQuery(a)
      BY <2>2 DEF IsQuery
    <3> QED
      BY <1>4, <2>2, <3>1 DEF Parsed
  <2> QED
    BY <2>1, <2>2
<1>5. CASE a.kind \in {"help", "invalid"}
  <2>1. ~IsQuery(a)
    BY <1>5 DEF IsQuery
  <2>2. Parsed(o, a) = o
    BY <1>5 DEF Parsed
  <2> QED
    BY <1>5, <2>1, <2>2
<1> QED
  BY <1>1, <1>2, <1>3, <1>4, <1>5, ArgumentShape

\* The views of the options stay those of the words, whatever is parsed next.
LEMMA ViewsStep ==
  ASSUME TypeOK, ParseInv, NEW a \in Arguments, Parse(a)
  PROVE  /\ options'.explicit <=> command' # NoCommand \/ Named' # {}
         /\ options'.views = (ParsingCommand' \cup Named') \ Dropped'
<1> DEFINE z == [kind |-> "view", name |-> "disasm"]
<1>1. /\ a \in Argument /\ argv' = Append(argv, a) /\ command' = command
      /\ options' = Parsed(options, a)
      /\ options \in [views : SUBSET View, explicit : BOOLEAN, given : SUBSET Flag]
  BY ArgumentAssumption DEF Parse, TypeOK
<1>2. /\ options'.explicit <=> options.explicit \/ a.kind = "view" \/ IsQuery(a)
      /\ options'.views =
           IF a.kind = "view" THEN (IF options.explicit THEN options.views ELSE {}) \cup {a.name}
           ELSE IF IsQuery(a) THEN (IF options.explicit THEN options.views ELSE {}) \cup {"search"}
           ELSE IF a.kind = "no disasm" THEN options.views \ {"disasm"}
           ELSE options.views
  BY <1>1, ParsedFields
<1>3. Named' = Named \cup {v \in View : a = [kind |-> "view", name |-> v]}
                 \cup {v \in {"search"} : IsQuery(a)}
  BY <1>1, NamedStep DEF IsQuery
<1>4. Dropped' = IF a.kind = "no disasm" THEN {"disasm"} ELSE IF a = z THEN {} ELSE Dropped
  BY <1>1, DroppedStep
<1>5. /\ options.explicit <=> command # NoCommand \/ Named # {}
      /\ options.views = (ParsingCommand \cup Named) \ Dropped
      /\ Dropped \subseteq {"disasm"}
  BY DEF ParseInv, Dropped
<1>6. /\ ParsingCommand = IF command # NoCommand THEN Commands[command]
                          ELSE IF Named = {} THEN DefaultViews ELSE {}
      /\ ParsingCommand' = IF command # NoCommand THEN Commands[command]
                           ELSE IF Named' = {} THEN DefaultViews ELSE {}
  BY <1>1 DEF ParsingCommand
<1>7. CASE a.kind = "view"
  <2>1. a.name \in View /\ a = [kind |-> "view", name |-> a.name] /\ ~IsQuery(a)
    BY <1>1, <1>7, ArgumentShape DEF IsQuery
  <2>2. {v \in View : a = [kind |-> "view", name |-> v]} = {a.name}
    BY <2>1
  <2>3. Named' = Named \cup {a.name}
    BY <1>3, <2>1, <2>2
  <2>4. Dropped' = Dropped \ {a.name}
    BY <1>4, <1>5, <1>7, <2>1
  <2>5. options'.views = (IF options.explicit THEN options.views ELSE {}) \cup {a.name}
    BY <1>2, <1>7
  <2> HIDE DEF z
  <2> QED
    BY <1>1, <1>2, <1>5, <1>6, <1>7, <2>3, <2>4, <2>5
<1>8. CASE IsQuery(a)
  <2>1. a.kind = "flag" /\ a # z
    BY <1>8 DEF IsQuery
  <2>2. Named' = Named \cup {"search"}
    <3>1. {v \in View : a = [kind |-> "view", name |-> v]} = {}
      BY <2>1
    <3> QED
      BY <1>3, <1>8, <3>1
  <2>3. Dropped' = Dropped
    BY <1>4, <2>1
  <2>4. options'.views = (IF options.explicit THEN options.views ELSE {}) \cup {"search"}
    BY <1>2, <1>8, <2>1
  <2> HIDE DEF z
  <2> QED
    BY <1>1, <1>2, <1>5, <1>6, <1>8, <2>2, <2>3, <2>4
<1>9. CASE a.kind # "view" /\ ~IsQuery(a)
  <2>1. a # z /\ {v \in View : a = [kind |-> "view", name |-> v]} = {}
    BY <1>9
  <2>2. Named' = Named
    BY <1>3, <1>9, <2>1
  <2>3. /\ Dropped' = IF a.kind = "no disasm" THEN {"disasm"} ELSE Dropped
        /\ options'.views = IF a.kind = "no disasm" THEN options.views \ {"disasm"} ELSE options.views
        /\ options'.explicit <=> options.explicit
    BY <1>2, <1>4, <1>9, <2>1
  <2> HIDE DEF z
  <2> QED
    BY <1>1, <1>5, <1>6, <2>2, <2>3
<1> QED
  BY <1>7, <1>8, <1>9

LEMMA FlagsStep ==
  ASSUME TypeOK, ParseInv, NEW a \in Arguments, Parse(a)
  PROVE  \A n \in Flag \ NumberFlag : n \in options'.given <=> Given("flag", n)'
<1> SUFFICES ASSUME NEW n \in Flag \ NumberFlag
    PROVE n \in options'.given <=> Given("flag", n)'
  OBVIOUS
<1>1. /\ a \in Argument /\ argv' = Append(argv, a)
      /\ options' = Parsed(options, a)
      /\ options \in [views : SUBSET View, explicit : BOOLEAN, given : SUBSET Flag]
  BY ArgumentAssumption DEF Parse, TypeOK
<1>2. options'.given = IF a.kind = "default" THEN options.given \ {a.name}
                       ELSE IF a.kind = "flag" THEN options.given \cup {a.name}
                       ELSE options.given
  BY <1>1, ParsedFields
<1>3. Given("flag", n)' <=> Given("flag", n) \/ a = [kind |-> "flag", name |-> n]
  BY <1>1, GivenStep
<1>4. n \in options.given <=> Given("flag", n)
  BY DEF ParseInv
<1>5. /\ a = [kind |-> a.kind, name |-> a.name]
      /\ a.kind = "default" => a.name \in NumberFlag
  BY <1>1, ArgumentShape
<1> QED
  BY <1>2, <1>3, <1>4, <1>5

\* Numbers may be taken back by a default behind them.
LEMMA NumbersStep ==
  ASSUME TypeOK, ParseInv, NEW a \in Arguments, Parse(a)
  PROVE  \A k \in DOMAIN argv' :
           argv'[k].kind = "flag" /\ argv'[k].name \in NumberFlag =>
             \/ argv'[k].name \in options'.given
             \/ \E j \in k..Len(argv') : argv'[j] = [kind |-> "default", name |-> argv'[k].name]
<1> SUFFICES ASSUME NEW k \in DOMAIN argv',
                    argv'[k].kind = "flag", argv'[k].name \in NumberFlag,
                    argv'[k].name \notin options'.given
    PROVE \E j \in k..Len(argv') : argv'[j] = [kind |-> "default", name |-> argv'[k].name]
  OBVIOUS
<1> DEFINE n == Len(argv)
<1>1. /\ a \in Argument /\ argv' = Append(argv, a)
      /\ options' = Parsed(options, a)
      /\ options \in [views : SUBSET View, explicit : BOOLEAN, given : SUBSET Flag]
  BY ArgumentAssumption DEF Parse, TypeOK
<1>2. options'.given = IF a.kind = "default" THEN options.given \ {a.name}
                       ELSE IF a.kind = "flag" THEN options.given \cup {a.name}
                       ELSE options.given
  BY <1>1, ParsedFields
<1>3. /\ n \in Nat /\ Len(argv') = n + 1
      /\ DOMAIN argv = 1..n /\ DOMAIN argv' = 1..(n + 1)
      /\ \A i \in 1..n : argv'[i] = argv[i]
      /\ argv'[n + 1] = a
  BY <1>1, ParsedMore
<1>4. a = [kind |-> a.kind, name |-> a.name]
  BY <1>1, ArgumentShape
<1> HIDE DEF n
<1>5. k \in 1..n
  <2>1. k # n + 1
    BY <1>2, <1>3
  <2> QED
    BY <1>3, <2>1, Intervals
<1>6. argv'[k] = argv[k]
  BY <1>3, <1>5
<1>7. CASE \E j \in k..n : argv[j] = [kind |-> "default", name |-> argv[k].name]
  <2>1. PICK j \in k..n : argv[j] = [kind |-> "default", name |-> argv[k].name]
    BY <1>7
  <2>2. j \in 1..n /\ j \in k..(n + 1)
    BY <1>3, <1>5, Intervals
  <2> QED
    BY <1>3, <1>6, <2>1, <2>2
<1>8. CASE argv[k].name \in options.given
  <2>1. a.kind = "default" /\ a.name = argv[k].name
    BY <1>2, <1>6, <1>8
  <2>2. n + 1 \in k..(n + 1)
    BY <1>3, <1>5, Intervals
  <2> QED
    BY <1>3, <1>4, <1>6, <2>1, <2>2
<1> QED
  BY <1>3, <1>5, <1>6, <1>7, <1>8 DEF ParseInv, n

-----------------------------------------------------------------------------
LEMMA InitParse == Init => ParseInv
<1> SUFFICES ASSUME Init PROVE ParseInv
  OBVIOUS
<1>1. argv = <<>> /\ DOMAIN argv = {} /\ options.given = {}
  BY DEF Init
<1>2. \A x, y : ~Given(x, y)
  BY <1>1 DEF Given
<1>3. Named = {} /\ Dropped = {}
  BY <1>1, <1>2 DEF Named, Dropped
<1>4. options.views = ParsingCommand /\ (options.explicit <=> command # NoCommand)
  BY <1>3 DEF Init, ParsingCommand
<1> QED
  BY <1>1, <1>2, <1>3, <1>4 DEF ParseInv

LEMMA ParseKeepsParse ==
  ASSUME TypeOK, ParseInv, RunInv, NEW a \in Arguments, Parse(a)
  PROVE  ParseInv'
<1>1. \/ pc' \in {"help", "exit 1"} /\ wrote' = "nothing"
      \/ \A k \in DOMAIN argv' : ~Unusable(argv'[k])
  <2>1. /\ pc = "parse" /\ wrote' = wrote /\ argv' = Append(argv, a) /\ a \in Argument
        /\ pc' = CASE a.kind = "help"    -> "help"
                   [] a.kind = "invalid" -> "exit 1"
                   [] OTHER              -> "parse"
    BY ArgumentAssumption DEF Parse
  <2>2. wrote = "nothing" /\ \A k \in DOMAIN argv : ~Unusable(argv[k])
    BY <2>1 DEF ParseInv, RunInv
  <2>3. CASE Unusable(a)
    BY <2>1, <2>2, <2>3 DEF Unusable
  <2>4. CASE ~Unusable(a)
    <3> DEFINE n == Len(argv)
    <3>1. /\ n \in Nat /\ DOMAIN argv = 1..n /\ DOMAIN argv' = 1..(n + 1)
          /\ \A k \in 1..n : argv'[k] = argv[k]
          /\ argv'[n + 1] = a
      BY <2>1, ParsedMore
    <3> HIDE DEF n
    <3> QED
      BY <2>2, <2>4, <3>1, Intervals
  <2> QED
    BY <2>3, <2>4
<1> QED
  BY <1>1, ViewsStep, FlagsStep, NumbersStep DEF ParseInv

\* Nothing behind the parsing touches the options.
LEMMA LaterKeepsParse ==
  ASSUME ParseInv, UNCHANGED <<command, argv, options>>,
         pc \notin {"help", "exit 1"} \/ UNCHANGED <<pc, wrote>>
  PROVE  ParseInv'
<1>1. /\ \A x, y : Given(x, y)' <=> Given(x, y)
      /\ Named' = Named /\ Dropped' = Dropped /\ ParsingCommand' = ParsingCommand
  BY DEF Given, Named, Dropped, ParsingCommand
<1> QED
  BY <1>1 DEF ParseInv

LEMMA LaterLeavesOptions ==
  ASSUME UNCHANGED options
  PROVE  /\ Accepted' <=> Accepted
         /\ Inspects' <=> Inspects
         /\ OnlyRaw(options)' <=> OnlyRaw(options)
         /\ options'.views = options.views /\ options'.given = options.given
BY DEF Accepted, Inspects, OnlyRaw

-----------------------------------------------------------------------------
LEMMA InitRun == Init => RunInv
BY DEF Init, RunInv, LibrariesOnlyWhenNeeded, NoCommand, Documents

LEMMA DocumentsNeedText ==
  ASSUME Accepted, Inspects, options.given \cap Documents # {}
  PROVE  /\ options.views # {} /\ options.views \cap TextOnlyViews = {}
         /\ \E d \in Documents : options.given \cap Documents = {d}
BY DEF Accepted, BadModes, BadInspection, Inspects, Documents

LEMMA NextRun == TypeOK /\ RunInv /\ [Next]_vars => RunInv'
<1> SUFFICES ASSUME TypeOK, RunInv, [Next]_vars PROVE RunInv'
  OBVIOUS
<1>0. UNCHANGED options => /\ Accepted' <=> Accepted
                           /\ Inspects' <=> Inspects
                           /\ OnlyRaw(options)' <=> OnlyRaw(options)
  BY LaterLeavesOptions
<1>1. ASSUME NEW a \in Arguments, Parse(a) PROVE RunInv'
  BY <1>1 DEF Parse, RunInv, LibrariesOnlyWhenNeeded
<1>2. ASSUME NEW operands \in 0..2, EndOfOptions(operands) PROVE RunInv'
  BY <1>2 DEF EndOfOptions, RunInv, LibrariesOnlyWhenNeeded, Accepted
<1>3. CASE RunRepair
  BY <1>0, <1>3 DEF RunRepair, RunInv, LibrariesOnlyWhenNeeded, Exit, Repairs
<1>4. CASE RunPatch
  BY <1>0, <1>4 DEF RunPatch, RunInv, LibrariesOnlyWhenNeeded, Exit
<1>5. CASE ChooseViews
  <2>1. ~OnlyRaw(options) => options.views \ RawViews # {}
    BY <1>5 DEF ChooseViews, RunInv, Accepted, BadInspection, Inspects, OnlyRaw
  <2> QED
    BY <1>0, <1>5, <2>1 DEF ChooseViews, RunInv, LibrariesOnlyWhenNeeded
<1>6. CASE RawSearch
  <2>1. Accepted /\ Inspects /\ OnlyRaw(options)
    BY <1>6 DEF RawSearch, RunInv
  <2> QED
    BY <1>0, <1>6, <2>1 DEF RawSearch, RunInv, LibrariesOnlyWhenNeeded, Exit, Documents, RawViews
<1>7. CASE RawHex
  <2>1. Accepted /\ Inspects /\ OnlyRaw(options) /\ wrote = "nothing"
        /\ printed = options.views \cap {"search"}
    BY <1>7 DEF RawHex, RunInv
  <2>2. options.given \cap Documents = {}
    BY <2>1, DocumentsNeedText DEF OnlyRaw, TextOnlyViews
  <2>3. pc' = "exit 0" => PrintedBut({})'
    BY <1>7, <2>1, <2>2 DEF RawHex, PrintedBut, OnlyRaw, RawViews, Exit
  <2> QED
    BY <1>0, <1>7, <2>1, <2>3 DEF RawHex, RunInv, LibrariesOnlyWhenNeeded, Exit, Documents, RawViews
<1>8. CASE LoadBfd
  BY <1>0, <1>8 DEF LoadBfd, RunInv, LibrariesOnlyWhenNeeded, Exit
<1>9. CASE OpenBinary
  BY <1>0, <1>9 DEF OpenBinary, RunInv, LibrariesOnlyWhenNeeded, Exit
<1>10. CASE PrintReport
  <2>1. /\ Accepted /\ Inspects /\ wrote = "nothing" /\ printed = {} /\ block = 1
        /\ "bfd" \in loaded /\ options.views \ RawViews # {}
    BY <1>10 DEF PrintReport, RunInv
  <2>2. CASE options.given \cap Documents # {}
    <3>1. \E d \in Documents : options.given \cap Documents = {d}
      BY <2>1, <2>2, DocumentsNeedText
    <3>2. printed' = options.given \cap Documents /\ pc' = "exit 0"
      BY <1>10, <2>1, <2>2 DEF PrintReport, Documents, Exit
    <3> QED
      BY <1>0, <1>10, <2>1, <3>1, <3>2 DEF PrintReport, RunInv, LibrariesOnlyWhenNeeded
  <2>3. CASE options.given \cap Documents = {}
    <3>1. printed' = {} /\ pc' = "blocks" /\ block' = 1
      BY <1>10, <2>1, <2>3 DEF PrintReport, Documents
    <3>2. options.views \ {"disasm"} \subseteq {Blocks[i] : i \in 1..Len(Blocks)}
      BY BlockOfView DEF TypeOK
    <3>3. PrintedBut({"disasm"} \cup {Blocks[i] : i \in block..Len(Blocks)})'
      BY <1>10, <2>3, <3>1, <3>2 DEF PrintReport, PrintedBut
    <3> QED
      BY <1>0, <1>10, <2>1, <3>1, <3>3 DEF PrintReport, RunInv, LibrariesOnlyWhenNeeded
  <2> QED
    BY <2>2, <2>3
<1>11. CASE PrintBlock
  <2>1. /\ Accepted /\ Inspects /\ wrote = "nothing"
        /\ "bfd" \in loaded /\ options.views \ RawViews # {}
        /\ PrintedBut({"disasm"} \cup {Blocks[i] : i \in block..12})
        /\ block \in 1..12 /\ pc = "blocks" /\ printed \cap Documents = {}
        /\ UNCHANGED <<command, argv, options, loaded, wrote>>
    BY <1>11, BlockOfView DEF PrintBlock, RunInv, TypeOK
  <2> DEFINE b == Blocks[block]
             Rest(n) == {"disasm"} \cup {Blocks[i] : i \in n..12}
  <2>2. CASE pc' = "exit 1" /\ UNCHANGED <<printed, block>>
    BY <1>0, <2>1, <2>2 DEF RunInv, LibrariesOnlyWhenNeeded
  <2>3. CASE /\ block' = block + 1 /\ pc' = pc
             /\ \/ b \in options.views /\ printed' = printed \cup {b}
                \/ (b \notin options.views \/ b = "headers") /\ printed' = printed
    <3>1. Rest(block) \subseteq Rest(block + 1) \cup {b}
      <4>1. \A i \in block..12 : i = block \/ i \in (block + 1)..12
        BY <2>1
      <4> QED
        BY <4>1
    <3> HIDE DEF b, Rest
    <3>2. /\ printed' \subseteq options.views
          /\ options.views \ ({"headers"} \cup Rest(block + 1)) \subseteq printed'
      BY <2>1, <2>3, <3>1 DEF PrintedBut, Rest
    <3>3. PrintedBut(Rest(block))'
      BY <2>1, <2>3, <3>2 DEF PrintedBut, Rest
    <3>4. printed' \cap Documents = {}
      <4>1. b \notin Documents
        BY <2>1, BlockOfView DEF b, Documents, View
      <4> QED
        BY <2>1, <2>3, <4>1
    <3> QED
      BY <1>0, <2>1, <2>3, <3>3, <3>4, BlockOfView DEF RunInv, LibrariesOnlyWhenNeeded, Rest
  <2> QED
    <3>1. \/ pc' = "exit 1" /\ UNCHANGED <<printed, block>>
          \/ /\ block' = block + 1 /\ pc' = pc
             /\ \/ b \in options.views /\ printed' = printed \cup {b}
                \/ (b \notin options.views \/ b = "headers") /\ printed' = printed
      BY <1>11 DEF PrintBlock, Exit
    <3> QED
      BY <2>2, <2>3, <3>1
<1>12. CASE EndOfBlocks
  <2>1. /\ Accepted /\ Inspects /\ wrote = "nothing"
        /\ PrintedBut({"disasm"} \cup {Blocks[i] : i \in block..Len(Blocks)})
        /\ block > Len(Blocks)
    BY <1>12 DEF EndOfBlocks, RunInv
  <2>2. {Blocks[i] : i \in block..Len(Blocks)} = {}
    <3>1. block \in 1..13 /\ Len(Blocks) = 12 /\ block > 12
      BY <2>1, BlockOfView, BlockCount DEF TypeOK
    <3>2. block..12 = {}
      BY <3>1
    <3> QED
      BY <3>1, <3>2
  <2>3. PrintedBut({"disasm"})'
    BY <1>12, <2>1, <2>2 DEF EndOfBlocks, PrintedBut
  <2>4. "disasm" \notin options.views => PrintedBut({})'
    BY <1>12, <2>3 DEF EndOfBlocks, PrintedBut
  <2> QED
    BY <1>0, <1>12, <2>1, <2>3, <2>4 DEF EndOfBlocks, RunInv, LibrariesOnlyWhenNeeded
<1>13. CASE LoadOpcodes
  <2>1. PrintedBut({"disasm"})'
    BY <1>13 DEF LoadOpcodes, RunInv, PrintedBut
  <2> QED
    BY <1>0, <1>13, <2>1 DEF LoadOpcodes, RunInv, LibrariesOnlyWhenNeeded, Exit
<1>14. CASE Disassemble
  <2>1. PrintedBut({"disasm"}) /\ "disasm" \in options.views
    BY <1>14 DEF Disassemble, RunInv
  <2>2. pc' = "exit 0" => PrintedBut({})'
    BY <1>14, <2>1 DEF Disassemble, PrintedBut, Exit
  <2> QED
    BY <1>0, <1>14, <2>2 DEF Disassemble, RunInv, LibrariesOnlyWhenNeeded, Exit, Documents, RawViews
<1>15. CASE UNCHANGED vars
  BY <1>0, <1>15 DEF vars, RunInv, LibrariesOnlyWhenNeeded, PrintedBut
<1> QED
  BY <1>1, <1>2, <1>3, <1>4, <1>5, <1>6, <1>7, <1>8, <1>9, <1>10, <1>11, <1>12, <1>13,
     <1>14, <1>15 DEF Next

-----------------------------------------------------------------------------
LEMMA NextParse == TypeOK /\ ParseInv /\ RunInv /\ [Next]_vars => ParseInv'
<1> SUFFICES ASSUME TypeOK, ParseInv, RunInv, [Next]_vars PROVE ParseInv'
  OBVIOUS
<1>1. CASE \E a \in Arguments : Parse(a)
  BY <1>1, ParseKeepsParse
<1>2. CASE UNCHANGED vars
  BY <1>2, LaterKeepsParse DEF vars
<1>3. CASE ~(\E a \in Arguments : Parse(a)) /\ Next
  <2>1. UNCHANGED <<command, argv, options>> /\ pc \notin {"help", "exit 1"}
    BY <1>3 DEF Next, EndOfOptions, RunRepair, RunPatch, ChooseViews, RawSearch, RawHex,
                LoadBfd, OpenBinary, PrintReport, PrintBlock, EndOfBlocks, LoadOpcodes,
                Disassemble
  <2> QED
    BY <2>1, LaterKeepsParse
<1> QED
  BY <1>1, <1>2, <1>3

LEMMA Invariance == Spec => []Inv
<1>1. Init => Inv
  BY InitType, InitParse, InitRun DEF Inv
<1>2. Inv /\ [Next]_vars => Inv'
  BY NextType, NextParse, NextRun DEF Inv
<1> QED
  BY <1>1, <1>2, PTL DEF Spec

(***************************************************************************)
(* The views an accepted command line leaves do not depend on the order of *)
(* its arguments, but for -n and --disasm.                                 *)
(***************************************************************************)
THEOREM ViewsAsked == Spec => []ViewsAreWhatWasAsked
<1>1. Inv => ViewsAreWhatWasAsked
  BY DEF Inv, ParseInv, ParsingCommand, ViewsAreWhatWasAsked
<1> QED
  BY <1>1, Invariance, PTL

\* An accepted --patch leaves no room for any other argument.
LEMMA NarrowPatch == Inv => PatchModeIsNarrow
<1> SUFFICES ASSUME Inv, wrote = "patch"
    PROVE  /\ command = NoCommand
           /\ \A k \in DOMAIN argv :
                \/ argv[k].name \in {"patch", "patch out"}
                \/ /\ argv[k].name \in NumberFlag
                   /\ \E j \in k..Len(argv) : argv[j] = [kind |-> "default", name |-> argv[k].name]
  BY DEF PatchModeIsNarrow
<1>1. /\ Accepted /\ "patch" \in options.given
      /\ \A k \in DOMAIN argv : ~Unusable(argv[k])
      /\ options.given \subseteq Flag
  BY DEF Inv, TypeOK, ParseInv, RunInv
<1>2. /\ ~options.explicit /\ options.views = DefaultViews
      /\ options.given \cap {"section", "json", "ndjson", "all", "min length",
                             "hex range", "hex width", "query", "hit limit"} = {}
      /\ options.given \cap {"repair", "unpack", "upx", "version", "fetch"} = {}
  BY <1>1 DEF Accepted, BadPatch, BadModes, Repairs, ToolFlag
<1>3. options.given \subseteq {"patch", "patch out"}
  BY <1>1, <1>2 DEF Flag, Writers, ToolFlag
<1>4. command = NoCommand /\ Named = {}
  BY <1>2 DEF Inv, ParseInv
<1>5. "disasm" \notin Dropped
  <2>1. "disasm" \in options.views
    BY <1>2 DEF DefaultViews, View, RawViews
  <2> QED
    BY <2>1 DEF Inv, ParseInv
<1>6. ASSUME NEW k \in DOMAIN argv
      PROVE  \/ argv[k].name \in {"patch", "patch out"}
             \/ /\ argv[k].name \in NumberFlag
                /\ \E j \in k..Len(argv) : argv[j] = [kind |-> "default", name |-> argv[k].name]
  <2> DEFINE a == argv[k]
  <2>1. a \in Argument /\ k \in 1..Len(argv) /\ Len(argv) \in Nat /\ DOMAIN argv = 1..Len(argv)
    <3>1. argv \in Seq(Arguments)
      BY DEF Inv, TypeOK
    <3> QED
      BY <1>6, <3>1, ArgumentAssumption
  <2>2. a = [kind |-> a.kind, name |-> a.name]
    BY <2>1, ArgumentShape
  <2>3. ~Unusable(a)
    BY <1>1, <1>6
  <2>4. CASE a.kind = "view"
    <3>1. a.name \in View /\ Given("view", a.name)
      BY <1>6, <2>1, <2>2, <2>4, ArgumentShape DEF Given
    <3>2. a.name \in Named
      BY <3>1 DEF Named
    <3> QED
      BY <1>4, <3>2
  <2>5. CASE a.kind = "no disasm"
    <3>1. \A j \in k..Len(argv) : argv[j] # [kind |-> "view", name |-> "disasm"]
      <4> SUFFICES ASSUME NEW j \in k..Len(argv),
                          argv[j] = [kind |-> "view", name |-> "disasm"]
          PROVE FALSE
        OBVIOUS
      <4>1. j \in DOMAIN argv /\ Given("view", "disasm")
        BY <2>1 DEF Given
      <4>2. "disasm" \in Named
        BY <4>1 DEF Named, View
      <4> QED
        BY <1>4, <4>2
    <3>2. "disasm" \in Dropped
      BY <1>6, <2>5, <3>1 DEF Dropped
    <3> QED
      BY <1>5, <3>2
  <2>6. CASE a.kind = "default"
    <3>1. a.name \in NumberFlag
      BY <2>1, <2>6, ArgumentShape
    <3>2. k \in k..Len(argv)
      BY <2>1
    <3> QED
      BY <2>2, <2>6, <3>1, <3>2
  <2>7. CASE a.kind = "flag" /\ a.name \in NumberFlag
    <3>1. a.name \notin options.given
      BY <1>3, <2>7 DEF NumberFlag
    <3> QED
      BY <1>6, <2>7, <3>1 DEF Inv, ParseInv
  <2>8. CASE a.kind = "flag" /\ a.name \notin NumberFlag
    <3>1. a.name \in Flag \ NumberFlag /\ Given("flag", a.name)
      BY <1>6, <2>1, <2>2, <2>8, ArgumentShape DEF Given
    <3>2. a.name \in options.given
      BY <3>1 DEF Inv, ParseInv
    <3> QED
      BY <1>3, <3>2
  <2> QED
    BY <2>1, <2>3, <2>4, <2>5, <2>6, <2>7, <2>8, ArgumentShape DEF Unusable
<1> QED
  BY <1>4, <1>6

LEMMA FlagsGiven ==
  ASSUME Inv
  PROVE  \A n \in Writers \cup Documents \cup {"query"} :
           n \in options.given <=> Given("flag", n)
<1>1. Writers \cup Documents \cup {"query"} \subseteq Flag \ NumberFlag
  BY DEF Writers, Documents, Flag, NumberFlag
<1> QED
  BY <1>1 DEF Inv, ParseInv

(***************************************************************************)
(* No order of arguments turns an inspection into an edit, or drops one.   *)
(***************************************************************************)
THEOREM WritesAsked == Spec => []WritesWhatWasAsked
<1>1. Inv => WritesWhatWasAsked
  <2> SUFFICES ASSUME Inv PROVE WritesWhatWasAsked
    OBVIOUS
  <2> DEFINE asked == {w \in Writers : Given("flag", w)}
  <2>1. asked = Writers \cap options.given
    BY FlagsGiven
  <2>2. wrote \in Writers \cup {"nothing"} /\ "nothing" \notin Writers
    BY DEF Inv, TypeOK, Writers
  <2> HIDE DEF asked
  <2>3. ASSUME wrote # "nothing" PROVE asked = {wrote} /\ printed = {} /\ loaded = {}
    <3>1. Accepted /\ wrote \in options.given /\ printed = {} /\ loaded = {}
      BY <2>3 DEF Inv, RunInv
    <3>2. wrote \in Writers
      BY <2>2, <2>3
    <3>3. \A v, w \in Writers \cap options.given : v = w
      BY <3>1 DEF Accepted, BadModes, Repairs, Writers
    <3> QED
      BY <2>1, <3>1, <3>2, <3>3
  <2>4. ASSUME pc = "exit 0", wrote = "nothing" PROVE asked = {}
    BY <2>1, <2>4 DEF Inv, RunInv, Inspects, Repairs, Writers
  <2>5. pc = "exit 0" => IF asked = {} THEN wrote = "nothing" ELSE asked = {wrote}
    BY <2>3, <2>4
  <2> QED
    BY <2>3, <2>5, NarrowPatch DEF WritesWhatWasAsked, asked
<1> QED
  BY <1>1, Invariance, PTL

(***************************************************************************)
(* What an inspection prints before it exits 0 is all of what was asked    *)
(* for, in the form asked for, with no library that is not needed.         *)
(***************************************************************************)
THEOREM ReportsWhole == Spec => []ReportsAreWhole
<1>1. Inv => DocumentsAreWhole
  <2> SUFFICES ASSUME Inv PROVE DocumentsAreWhole
    OBVIOUS
  <2>1. ASSUME pc = "exit 0", wrote = "nothing", NEW d \in Documents, Given("flag", d)
        PROVE  printed = {d}
    <3>1. d \in options.given
      BY <2>1, FlagsGiven
    <3>2. ~PrintedBut({})
      BY <2>1, <3>1 DEF PrintedBut
    <3>3. \E e \in Documents : printed = {e} /\ options.given \cap Documents = {e}
      BY <2>1, <3>2 DEF Inv, RunInv
    <3> QED
      BY <2>1, <3>1, <3>3
  <2>2. ASSUME printed \cap Documents # {}
        PROVE  options.views # {} /\ options.views \cap TextOnlyViews = {}
    <3>1. pc = "exit 0" /\ wrote = "nothing" /\ Accepted /\ Inspects
      BY <2>2 DEF Inv, RunInv
    <3>2. ~PrintedBut({})
      <4>1. options.views \cap Documents = {}
        <5>1. options.views \subseteq View
          BY DEF Inv, TypeOK
        <5> QED
          BY <5>1 DEF View, Documents
      <4> QED
        BY <2>2, <4>1 DEF PrintedBut
    <3>3. options.given \cap Documents # {}
      BY <3>1, <3>2 DEF Inv, RunInv
    <3> QED
      BY <3>1, <3>3, DocumentsNeedText
  <2> QED
    BY <2>1, <2>2 DEF DocumentsAreWhole, Documents
<1>2. Inv => SuccessMeansPrinted
  <2> SUFFICES ASSUME Inv, pc = "exit 0", wrote = "nothing", printed \cap Documents = {}
      PROVE  /\ options.views \ {"headers"} \subseteq printed
             /\ printed \subseteq options.views
             /\ Given("flag", "query") => "search" \in printed
    BY DEF SuccessMeansPrinted, Documents
  <2>1. options.views \ {"headers"} \subseteq printed /\ printed \subseteq options.views
    BY DEF Inv, RunInv, PrintedBut
  <2>2. ASSUME Given("flag", "query") PROVE "search" \in printed
    <3>1. "search" \in Named /\ "search" \notin Dropped
      BY <2>2 DEF Named, Dropped
    <3>2. "search" \in options.views
      BY <3>1 DEF Inv, ParseInv
    <3> QED
      BY <2>1, <3>2
  <2> QED
    BY <2>1, <2>2
<1>3. Inv => LibrariesOnlyWhenNeeded
  BY DEF Inv, RunInv
<1>4. Inv => ReportsAreWhole
  BY <1>1, <1>2, <1>3 DEF ReportsAreWhole
<1> QED
  BY <1>4, Invariance, PTL
=============================================================================
