------------------------- MODULE MCProgrammerUpdate -------------------------
(* A word-sized and a byte-sized region beside a read-only one, and every  *)
(* firmware of up to two blocks: odd lengths next to one another included. *)
EXTENDS ProgrammerUpdate

MCMap == << MakeRegion("PROGRAM", 0, 4, 2, 75, TRUE, TRUE),
            MakeRegion("USER", 6, 8, 2, 75, TRUE, TRUE),
            MakeRegion("DIA", 10, 12, 2, 0, FALSE, TRUE),
            MakeRegion("CONFIG", 13, 15, 1, 11000, TRUE, FALSE),
            MakeRegion("EEPROM", 17, 19, 1, 11000, TRUE, TRUE) >>

MCByte == {"ff", "old", "a", "b"}

MCMemories == {[a \in MapAddrs(MCMap) |-> "old"]}

MCExtraMasks == {{}, {"EEPROM", "DIA"}}

E(base, data) == [base_addr |-> base, data |-> data]

Block(name, elems) == [region |-> name, elems |-> elems]

Blocks ==
    { Block("PROGRAM", <<E(0, <<"a", "b", "a">>)>>),
      Block("PROGRAM", <<E(0, <<"a">>), E(2, <<"b">>)>>),
      Block("PROGRAM", <<E(2, <<"b">>), E(0, <<"b">>)>>),
      Block("PROGRAM", <<E(0, <<"a">>), E(1, <<"b">>)>>),
      Block("PROGRAM", <<E(2, <<"ff", "b">>)>>),
      Block("USER", <<E(6, <<"b">>)>>),
      Block("DIA", <<E(10, <<"a", "a">>)>>),
      Block("CONFIG", <<E(13, <<"b", "a">>)>>),
      Block("EEPROM", <<E(18, <<"b">>), E(17, <<"a">>)>>) }

MCFirmwares == {<<b>> : b \in Blocks} \cup {<<b, c>> : b, c \in Blocks}
=============================================================================
