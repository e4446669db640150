------------------------------- MODULE HexDump -------------------------------
(***************************************************************************)
(* A dump of the device in Intel HEX (dump_sections of prog_utils.cpp,     *)
(* read_region of ICSPHeader and IntelHex::Dumper) that is then parsed:    *)
(* what -d --hex prints is what -w --hex -f reads.  A region is read from  *)
(* the device word by word, and printed when all of it has been read; an   *)
(* interrupt comes out of the GPIO calls of the reads.  Before it is       *)
(* parsed one byte of the file may be damaged.  A file that is not a dump  *)
(* is one of Files.                                                        *)
(***************************************************************************)
EXTENDS HexFile

CONSTANTS Sections,   \* the lists of region names that may be dumped
          Memories,   \* what the device may hold
          LineBytes   \* bound: the bytes of a dumped line (16)

ASSUME DumpAssumption ==
    /\ Sections \subseteq Seq({Map[i].name : i \in DOMAIN Map})
    /\ Memories \subseteq [MapAddrs(Map) -> Byte]
    /\ LineBytes \in 1 .. Base - 1

(* Of the map: regions in order, of whole words. *)
ASSUME DumpMapAssumption ==
    /\ Ordered(Map)
    /\ \A i \in DOMAIN Map : /\ Map[i].start % Map[i].word_size = 0
                             /\ Map[i].end % Map[i].word_size = 0

(* Of the map, too: a region is in one window of b * b addresses, since a   *)
(* dump has at most one extended address record for it, and the upper half *)
(* of its address is a byte, all that the record has of it.                *)
InWindows(m, b) ==
    \A i \in DOMAIN m :
        /\ m[i].end <= (m[i].start \div (b * b) + 1) * (b * b)
        /\ m[i].start < b * (b * b)

ASSUME DumpWindowAssumption == InWindows(Map, Base)

VARIABLES sections,  \* the sections asked for
          memory,    \* device: its memory
          pc,        \* device: its program counter
          next,      \* the section to dump next
          buffer,    \* the bytes of its region read so far
          dump       \* how far the dump is, or what became of it

dumpVars == <<sections, memory, pc, next, buffer, dump>>

NoPC == -1

Current == CHOOSE r \in Named(Map, sections[next]) : TRUE

-----------------------------------------------------------------------------
(* The Dumper's lines.  Both checksums, data_chk and                       *)
(* extended_linear_addr_chk, complete the sum of their line.               *)
HexLine(addr, type, payload) ==
    LET bytes == <<Len(payload), addr \div Base, addr % Base, type>> \o payload
    IN  Append(bytes, (- Sum(bytes)) % Base)

AddrHi(a) == (a \div Window) % Base

(* Mutant: the bound of the first window taken too high by one. *)
ExtendedLineLate(r) ==
    IF r.start <= Window THEN <<>>
    ELSE <<HexLine(0, RecordType["EXTENDED_LIN_ADDR"], <<0, AddrHi(r.start)>>)>>

(* dump_data_memory: an extended address record only for a region past the *)
(* first window, its upper byte always 0; then LineBytes bytes a line.     *)
ExtendedLine(r) ==
    IF r.start < Window THEN <<>>
    ELSE <<HexLine(0, RecordType["EXTENDED_LIN_ADDR"], <<0, AddrHi(r.start)>>)>>

DataLine(r, data, first) ==
    LET last == IF first + LineBytes > Len(data) THEN Len(data)
                ELSE first + LineBytes
    IN  HexLine((r.start + first) % Window, RecordType["DATA"],
                SubSeq(data, first + 1, last))

RegionLines(r, data) ==
    ExtendedLine(r) \o
    [k \in 1 .. (Len(data) + LineBytes - 1) \div LineBytes |->
        DataLine(r, data, (k - 1) * LineBytes)]

EndLine == HexLine(0, RecordType["END_OF_FILE"], <<>>)

-----------------------------------------------------------------------------
DumpInit ==
    /\ Start
    /\ pc = NoPC /\ next = 1 /\ buffer = <<>>
    /\ \/ /\ dump = "given" /\ file \in Files
          /\ sections = <<>> /\ memory = <<>>
       \/ /\ dump = "writing" /\ file = <<>>
          /\ sections \in Sections /\ memory \in Memories

More == next \in DOMAIN sections

(* read_n_impl: load_pc, *)
BeginRegion ==
    /\ dump = "writing" /\ More
    /\ pc' = Current.start
    /\ buffer' = <<>>
    /\ dump' = "reading"
    /\ UNCHANGED <<vars, sections, memory, next>>

Increments == WithRegion(Map, pc).autoincrement_addr

(* Mutant: increment_addr also where the device increments by itself. *)
ReadWordTwice ==
    /\ dump = "reading" /\ Len(buffer) < Current.end - Current.start
    /\ Mapped(Map, pc)
    /\ buffer' = buffer \o [j \in 1 .. Current.word_size |-> memory[pc + j - 1]]
    /\ LET ws == WithRegion(Map, pc).word_size
       IN  pc' = pc + (IF Increments THEN ws ELSE 0) + ws
    /\ UNCHANGED <<vars, sections, memory, next, dump>>

(* its loop body: a read, with auto-increment where the host takes the     *)
(* region to have it, and increment_addr where not,                        *)
ReadWord ==
    /\ dump = "reading" /\ Len(buffer) < Current.end - Current.start
    /\ Mapped(Map, pc)
    /\ buffer' = buffer \o [j \in 1 .. Current.word_size |-> memory[pc + j - 1]]
    /\ LET ws == WithRegion(Map, pc).word_size
       IN  pc' = pc + (IF Current.autoincrement_addr /\ Increments THEN ws ELSE 0)
                    + (IF Current.autoincrement_addr THEN 0 ELSE ws)
    /\ UNCHANGED <<vars, sections, memory, next, dump>>

(* and the dump_region of the Dumper. *)
PrintRegion ==
    /\ dump = "reading" /\ Len(buffer) >= Current.end - Current.start
    /\ file' = file \o RegionLines(Current, buffer)
    /\ next' = next + 1
    /\ buffer' = <<>>
    /\ dump' = "writing"
    /\ UNCHANGED <<sections, memory, pc, at, base_addr, result, status>>

DumpEnd ==
    /\ dump = "writing" /\ ~ More
    /\ file' = Append(file, EndLine)
    /\ dump' = "written"
    /\ UNCHANGED <<sections, memory, pc, next, buffer, at, base_addr, result, status>>

Interruptible == dump \in {"writing", "reading"} /\ More

(* Mutant: dump_end is called by a destructor. *)
InterruptEnds ==
    /\ Interruptible
    /\ file' = Append(file, EndLine)
    /\ dump' = "interrupted"
    /\ UNCHANGED <<sections, memory, pc, next, buffer, at, base_addr, result, status>>

Interrupt ==
    /\ Interruptible
    /\ dump' = "interrupted"
    /\ UNCHANGED <<sections, memory, pc, next, buffer, vars>>

(* One byte of the finished file is changed, of whatever field. *)
Damage ==
    /\ dump = "written" /\ at = 1 /\ status = "reading"
    /\ \E i \in DOMAIN file : \E k \in DOMAIN file[i], b \in Byte :
          file[i][k] # b /\ file' = [file EXCEPT ![i][k] = b]
    /\ dump' = "damaged"
    /\ UNCHANGED <<sections, memory, pc, next, buffer, at, base_addr, result, status>>

Parse == dump \notin {"writing", "reading"} /\ Next /\ UNCHANGED dumpVars

Program == BeginRegion \/ ReadWord \/ PrintRegion \/ DumpEnd \/ Parse

DumpNext == Program \/ Interrupt \/ Damage

DumpSpec ==
    DumpInit /\ [][DumpNext]_<<vars, dumpVars>> /\ WF_<<vars, dumpVars>>(Program)

-----------------------------------------------------------------------------
(* While a region is read the device is where the host takes it to be, and *)
(* what has been read is the front of the region, whichever side counts    *)
(* the words.                                                              *)
ReadInStep ==
    dump = "reading" =>
        /\ pc = Current.start + Len(buffer)
        /\ \A j \in DOMAIN buffer : buffer[j] = memory[Current.start + j - 1]

(* The lists of sections whose dump can be read back.  No record announces *)
(* a region of the first window, so it has to be the first one.            *)
FirstWindowFirst(s) ==
    \A j \in DOMAIN s : \A r \in Named(Map, s[j]) : r.start < Window => j = 1

Dumped == MaskAddrs(Map, {sections[i] : i \in DOMAIN sections})

(* A dump read back gives the memory of the sections, and nothing else: no *)
(* line is rejected, none lands at another address, and every byte is in a *)
(* block of its own region.                                                *)
DumpReadsBack ==
    dump = "written" =>
        /\ status # "error"
        /\ status = "parsed" => FirmwareBytes = {<<a, memory[a]>> : a \in Dumped}
        /\ OutOfBoundsRejected

(* A dump cut short by an interrupt, which ends the process with the same  *)
(* exit code 0, is never taken for a firmware.                             *)
TruncatedDumpRejected == dump = "interrupted" => status # "parsed"

(* Nor is one with a byte changed, be it a count, an address, a type or a  *)
(* checksum: the sums the Dumper writes and the parser checks cover all.   *)
DamagedDumpRejected == dump = "damaged" => status # "parsed"

(* prog_utils.cpp:95: "dump section memory form either the device", of     *)
(* the sections -s names, in any order (prog_utils.cpp:125, "list of       *)
(* section names to operate on").                                          *)
DumpsSectionMemory == DumpReadsBack
=============================================================================
