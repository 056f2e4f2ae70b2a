--------------------------- MODULE MCUpxElfRepair ---------------------------
(***************************************************************************)
(* Small instances of UpxElfRepair: files of one or two slots, as UPX 3, 4 *)
(* and an unnamed release write them, with and without l_info, and with a  *)
(* stray "UPX!" in the packed data.                                        *)
(***************************************************************************)
EXTENDS UpxElfRepair

MCOtherMagics == {"YTS!", "data"}

MCSummed(h) == [h EXCEPT !.csum = Checksum(h)]

\* The headers of UPX 3 and later (32 bytes) and of UPX 1 (28 bytes, unsummed).
NewHeader == MCSummed([magic |-> UPX, version |-> 13, format |-> 22, ulen |-> 100,
                       clen |-> 60, usize |-> 300, csum |-> 0, whole |-> TRUE,
                       marker |-> NoToken])
OldHeader == [NewHeader EXCEPT !.version = 8, !.format = 10, !.csum = 7]

Data  == [NewHeader EXCEPT !.magic = "data", !.version = 0]
Stray == [Data EXCEPT !.magic = UPX]
Cut   == [NewHeader EXCEPT !.whole = FALSE]

\* Bytes that hold "$Id: UPX 4": in an overlay, or in the packed data.
Labelled == [Data EXCEPT !.marker = 4]

PackedFile(h, inline, ids, pblock, body) ==
  [elfMagic |-> TRUE, ident |-> TRUE, tables |-> TRUE,
   lmagic   |-> IF inline THEN UPX ELSE Zero,
   lversion |-> IF inline THEN h.version ELSE 0,
   lformat  |-> IF inline THEN h.format ELSE 0,
   psize    |-> h.usize, pblock |-> pblock,
   ids      |-> ids, slots |-> body \o <<h>>]

MCPacked ==
  {PackedFile(NewHeader, TRUE, <<NoToken, 3>>, 300, body) :
     body \in {<<>>, <<Data>>, <<Stray>>}}
  \cup {PackedFile(NewHeader, TRUE, <<Word, 4>>, 64, <<Data>>),
        PackedFile(OldHeader, TRUE, <<>>, 300, <<Data>>),
        PackedFile(NewHeader, TRUE, <<>>, 64, <<Labelled>>),
        PackedFile(NewHeader, FALSE, <<3>>, 0, <<Stray>>)}

MCJunk == {Data, Labelled, Stray, Cut}
=============================================================================
