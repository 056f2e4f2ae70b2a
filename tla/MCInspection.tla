----------------------------- MODULE MCInspection -----------------------------
(***************************************************************************)
(* Machines with the libraries in every place they are looked for, whole,  *)
(* torn or of another ABI, for a trivial binary; and, on a good machine,   *)
(* sections of zero and other bytes with symbols in and between lines.     *)
(***************************************************************************)
EXTENDS Inspection

SeqsUpTo(S, n) == UNION {[1..k -> S] : k \in 0..n}

MCSystemDirectories == <<"/lib", "/usr/lib">>

At(directory, complete, compatible) ==
  Some([directory |-> directory, complete |-> complete, compatible |-> compatible])

Entry(l, copy) == [kind |-> l, copy |-> copy, name |-> ""]

\* A multiarch directory below /usr/lib, and one an environment path is in.
Disk(libs) ==
  [d \in {"/lib", "/usr/lib", "/usr/lib/x", "/opt"} |->
     CASE d = "/lib" -> <<[kind |-> "other", copy |-> None, name |-> ""]>>
       [] d = "/usr/lib" -> <<Entry("bfd", None), [kind |-> "directory", copy |-> None, name |-> "/usr/lib/x"]>>
       [] d = "/usr/lib/x" -> [k \in DOMAIN libs |-> libs[k]]
       [] OTHER -> <<Entry("opcodes", At("/opt", FALSE, TRUE)), Entry("opcodes", At("/opt", TRUE, TRUE))>>]

BareCopies == {None, At("", TRUE, TRUE), At("", TRUE, FALSE), At("", FALSE, TRUE)}
Copies(d)  == {None, At(d, TRUE, TRUE), At(d, TRUE, FALSE), At(d, FALSE, TRUE)}

MCWorlds ==
  {[env |-> [bfd |-> eb, opcodes |-> eo],
    sonames |-> [bfd |-> <<None, sb>>, opcodes |-> <<None, so>>],
    disk |-> Disk(<<Entry("bfd", db), Entry("opcodes", At("/usr/lib/x", TRUE, TRUE))>>)]
     : eb \in Copies("/opt"), eo \in {None, At("/opt", FALSE, TRUE)}, sb \in BareCopies,
       so \in {None, At("", TRUE, TRUE)}, db \in Copies("/usr/lib/x")}

GoodWorld ==
  [env |-> [bfd |-> None, opcodes |-> None],
   sonames |-> [bfd |-> <<At("", TRUE, TRUE)>>, opcodes |-> <<At("", TRUE, TRUE)>>],
   disk |-> Disk(<<>>)]

Sym(name, value, n, shown) == [name |-> name, value |-> value, section |-> n, shown |-> shown]

Sec(name, vma, bytes, code, contents) ==
  [name |-> name, vma |-> vma, bytes |-> bytes, code |-> code, contents |-> contents]

AnyRequest ==
  [disassemble : BOOLEAN, all : BOOLEAN, filter : {{}, {"data"}, {"absent"}}]

Text == [disassemble |-> TRUE, all |-> FALSE, filter |-> {}]

SmallBinary ==
  [sections |-> <<Sec("text", 2, <<1>>, TRUE, TRUE), Sec("bss", 4, <<>>, FALSE, FALSE),
                  Sec("data", 6, <<1>>, FALSE, TRUE)>>,
   static |-> <<>>, dynamic |-> <<Sym(1, 2, 1, TRUE), Sym(2, 6, 3, TRUE)>>]

Tables ==
  {<<>>,
   <<Sym(2, 8, 1, TRUE), Sym(1, 8, 1, TRUE), Sym(3, 9, 1, FALSE), Sym(4, 10, 1, TRUE)>>,
   <<Sym(1, 5, 1, TRUE), Sym(2, 9, 1, TRUE), Sym(3, 9, 2, TRUE), Sym(4, 11, 1, TRUE)>>}

TextBinaries ==
  {[sections |-> <<Sec("text", vma, bytes, TRUE, TRUE)>>, static |-> t, dynamic |-> <<Sym(9, vma, 1, TRUE)>>]
     : bytes \in {b \in SeqsUpTo({0, 1}, 5) : Len(b) \in {1, 4, 5}}, vma \in {8, 11, 13}, t \in Tables}

MCSituations ==
  {[world |-> w, binary |-> SmallBinary, request |-> Text] : w \in MCWorlds}
  \cup {[world |-> GoodWorld, binary |-> SmallBinary, request |-> r] : r \in AnyRequest}
  \cup {[world |-> GoodWorld, binary |-> b, request |-> Text] : b \in TextBinaries}

AllWorlds == MCWorlds \cup {GoodWorld}
=============================================================================
