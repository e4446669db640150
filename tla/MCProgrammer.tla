---------------------------- MODULE MCProgrammer ----------------------------
(* A device with a region of every kind: word-sized and byte-sized, auto-  *)
(* incrementing and not, writable and not, a gap after each.               *)
EXTENDS Programmer

MCMap == << MakeRegion("PROGRAM", 0, 4, 2, 75, TRUE, TRUE),
            MakeRegion("USER", 6, 8, 2, 75, TRUE, TRUE),
            MakeRegion("DIA", 10, 12, 2, 0, FALSE, TRUE),
            MakeRegion("CONFIG", 13, 15, 1, 11000, TRUE, FALSE),
            MakeRegion("EEPROM", 17, 19, 1, 11000, TRUE, TRUE) >>

MCByte == {"ff", "old", "a", "b"}

MCMemories == {[a \in MapAddrs(MCMap) |-> "old"],
               [a \in MapAddrs(MCMap) |-> "ff"]}

MCExtraMasks == {{}, {"USER"}, {"DIA", "EEPROM"}}

E(base, data) == [base_addr |-> base, data |-> data]

Block(name, elems) == [region |-> name, elems |-> elems]

(* Odd lengths, an unaligned address, empty elements, two elements, one    *)
(* element that runs over the end of its region (lines are only checked at *)
(* their first address), overlapping blocks, a block of a read-only region.*)
Blocks ==
    { Block("PROGRAM", <<E(0, <<"a", "b", "a">>)>>),
      Block("PROGRAM", <<E(0, <<"a">>), E(2, <<"b">>)>>),
      Block("PROGRAM", <<E(0, <<>>), E(2, <<"b", "b">>)>>),
      Block("PROGRAM", <<E(1, <<"a", "b">>)>>),
      Block("PROGRAM", <<E(2, <<"a", "b", "a">>)>>),
      Block("USER", <<E(6, <<"b">>)>>),
      Block("DIA", <<E(10, <<"a", "a">>)>>),
      Block("CONFIG", <<E(13, <<"b", "a">>)>>),
      Block("CONFIG", <<E(14, <<"a">>)>>),
      Block("EEPROM", <<E(17, <<"a">>), E(18, <<"b">>)>>) }

MCFirmwares ==
    {<<>>} \cup {<<b>> : b \in Blocks} \cup {<<b, c>> : b, c \in Blocks}
    \cup {<<b, Block("EEPROM", <<E(18, <<"a">>)>>),
             Block("CONFIG", <<E(13, <<"a">>)>>), c>> :
              b \in {x \in Blocks : x.region = "PROGRAM"},
              c \in {x \in Blocks : x.region = "USER"}}
=============================================================================
