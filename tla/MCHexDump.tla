----------------------------- MODULE MCHexDump -----------------------------
(* A first region that fills its window, as PROGRAM does; a window with    *)
(* two regions; a region that ends a window, as ID does.  A dumped line    *)
(* takes part of a region, and the last one less.  Given: every file of    *)
(* up to two lines with any of four endings, every one of three lines, and *)
(* every one of two blocks of a line each.                                 *)
EXTENDS HexDump

MCMap == << MakeRegion("PROGRAM", 0, 36, 2, 75, TRUE, TRUE),
            MakeRegion("USER", 36, 38, 2, 75, TRUE, TRUE),
            MakeRegion("CONFIG", 39, 41, 1, 11000, TRUE, FALSE),
            MakeRegion("ID", 142, 144, 2, 0, FALSE, TRUE) >>

MCSections ==
    { <<"PROGRAM", "USER", "CONFIG", "ID">>,   \* all of them, the default
      <<"CONFIG">>, <<"CONFIG", "USER">>, <<"USER", "ID", "ID">> }

MCUnsorted == { <<"CONFIG", "PROGRAM">> }

MCMemories ==
    {[a \in MapAddrs(MCMap) |-> (a * m) % 6] : m \in {0, 1, 5}}
    \cup {[a \in MapAddrs(MCMap) |-> IF a = b THEN 1 ELSE 3] : b \in {0, 35, 37, 40, 143}}

Ext(p) == HexLine(0, RecordType["EXTENDED_LIN_ADDR"], p)
Data(a, p) == HexLine(a, RecordType["DATA"], p)

MCExts == {Ext(<<0, u>>) : u \in {0, 1, 3}}
MCData == {Data(a, p) : a \in {0, 1, 2, 3, 34}, p \in {<<1>>, <<2, 1>>}}
          \cup {Data(3, <<>>)}
MCLines == MCData \cup MCExts

MCLast == {EndLine, <<0, 0>>, Ext(<<1>>), [Data(1, <<5>>) EXCEPT ![6] = 5]}

MCFiles ==
    UNION {{s \o <<e>> : s \in [1 .. n -> MCLines], e \in MCLast} : n \in 0 .. 2}
    \cup {s \o <<EndLine>> : s \in [1 .. 3 -> MCLines]}
    \cup {<<x, d, y, e, EndLine>> : x, y \in MCExts, d, e \in MCData}
    \cup {<<Data(0, <<1>>)>>}

ASSUME DeviceInWindows == InWindows(pic18fq20, 256)

ASSUME MCSectionsReadable == \A s \in MCSections : FirstWindowFirst(s)

NoFiles == {}
NoSections == {}
=============================================================================
