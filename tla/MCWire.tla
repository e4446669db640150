------------------------------- MODULE MCWire -------------------------------
(* The regions of the device family at their own addresses, which use all  *)
(* the bits of load_pc, with a word or two each.                           *)
EXTENDS Wire

MCMap == << MakeRegion("PROGRAM", 0, 4, 2, 75, TRUE, TRUE),
            MakeRegion("USER", 2097152, 2097154, 2, 75, TRUE, TRUE),
            MakeRegion("CONFIG", 3145728, 3145730, 1, 11000, TRUE, FALSE),
            MakeRegion("EEPROM", 3670016, 3670017, 1, 11000, TRUE, TRUE),
            MakeRegion("ID", 4194300, 4194304, 2, 0, FALSE, TRUE) >>

MCMemories == {[a \in MapAddrs(MCMap) |-> (a * 37 + 90) % 256]}

MCRequests ==
    {Request("load", a, {}, FALSE) : a \in {2, 3145728, 3670016, 4194300}}
    \cup {Request("increment", 0, {}, FALSE)}
    \cup {Request("read", 0, {}, inc) : inc \in BOOLEAN}
    \cup {Request("write", 23235, {}, FALSE), Request("write", 33023, {}, TRUE)}
    \cup {Request("erase", 0, {"PROGRAM", "USER", "CONFIG", "DIA"}, FALSE)}
=============================================================================
