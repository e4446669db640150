------------------------------- MODULE HexFile -------------------------------
(***************************************************************************)
(* The Intel HEX parser (icsp/include/IntelHex.hpp): parse_hex_file turns  *)
(* the lines of a file into a Firmware, or throws.                         *)
(*                                                                         *)
(* A line is the sequence of the bytes its hexadecimal digits write: the   *)
(* byte count, the two bytes of the address, the record type, the payload  *)
(* and the checksum.  What does not match the line format at all stands    *)
(* for a sequence too short to be a record.  A byte has Base values (2^8), *)
(* the address field Window (2^16).                                        *)
(***************************************************************************)
EXTENDS Regions

CONSTANTS Map,     \* the region map of the device
          Base,    \* bound: the values of a byte
          Files    \* the files to parse, sequences of lines

Byte == 0 .. Base - 1

Window == Base * Base

(* A line as long as parse_payload has room for: the payload and the       *)
(* checksum are copied into an array of Base bytes (static_vec).  Neither  *)
(* the line format nor the code limits them, and a longer line overruns    *)
(* the array, which C++ leaves undefined: such lines are left out.         *)
Line == {l \in Seq(Byte) : Len(l) <= 4 + Base}

ASSUME HexAssumption ==
    /\ Map \in Seq(Region)
    /\ \A i, j \in DOMAIN Map : Map[i].name = Map[j].name => i = j
    /\ Base \in Nat /\ Base > 4
    /\ Files \subseteq Seq(Line)

VARIABLES file,       \* the lines of the stream
          at,         \* the next line to read
          base_addr,  \* the address of the extended record not yet used
          result,     \* the Firmware so far
          status      \* "reading", "parsed", or "error": an exception

vars == <<file, at, base_addr, result, status>>

NoBase == -1

BaseOr0 == IF base_addr = NoBase THEN 0 ELSE base_addr

Final(s) == s[Len(s)]

-----------------------------------------------------------------------------
(* parse_hex_line: the line format has a byte after the record type at     *)
(* least, and three record types are handled.  The checksum makes all the  *)
(* bytes of the line add up to a multiple of Base; nothing else reads the  *)
(* byte count.                                                             *)
Sums(bytes) ==    \* of the first n bytes, for every n
    LET s[n \in 0 .. Len(bytes)] == IF n = 0 THEN 0 ELSE s[n - 1] + bytes[n]
    IN  s

Sum(bytes) == Sums(bytes)[Len(bytes)]

(* Mutant: the upper byte of the address is left out of the checksum. *)
ChecksumNoAddrHi(line) == (Sum(line) - line[2]) % Base = 0

ChecksumHolds(line) == Sum(line) % Base = 0

RecordType == [DATA |-> 0, END_OF_FILE |-> 1, EXTENDED_LIN_ADDR |-> 4]

WellFormedLine(line) ==
    /\ Len(line) >= 5
    /\ \E kind \in DOMAIN RecordType : line[4] = RecordType[kind]
    /\ ChecksumHolds(line)

Addr(line) == line[2] * Base + line[3]

Payload(line) == SubSeq(line, 5, Len(line) - 1)

-----------------------------------------------------------------------------
(* process_init_record: the first data record of the file, and the first   *)
(* after an extended address record, opens a region block and an element.  *)
Opens == result = <<>> \/ base_addr # NoBase

Opened(line) ==
    LET addr == BaseOr0 + Addr(line)
    IN  IF ~ Opens THEN result
        ELSE Append(result,
               [region    |-> WithRegion(Map, addr),
                base_addr |-> BaseOr0,
                elems     |-> <<[base_addr |-> addr, data |-> <<>>]>>])

(* process_data_record: the line goes on with the last element when it     *)
(* starts where that ends, and starts a new element when there is a gap.   *)
LinearAddr(fw, line) == Final(fw).base_addr + Addr(line)

ExpectedAddr(fw) ==
    LET e == Final(Final(fw).elems) IN e.base_addr + Len(e.data)

(* ensure_non_overlapping and ensure_in_bounds, on the line's first byte.  *)
NonOverlapping(fw, line) == LinearAddr(fw, line) >= ExpectedAddr(fw)

(* Mutant: the end of the region taken for its last address. *)
InBoundsClosed(fw, line) ==
    Final(fw).region.start <= LinearAddr(fw, line)
      /\ LinearAddr(fw, line) <= Final(fw).region.end

InBounds(fw, line) == InRegion(LinearAddr(fw, line), Final(fw).region)

(* Mutants of AppendData: a gap is not seen; a line that follows on is not.*)
AppendAlways(fw, line) ==
    LET es == Final(fw).elems
    IN  [fw EXCEPT ![Len(fw)].elems =
            [es EXCEPT ![Len(es)].data = @ \o Payload(line)]]

AppendNever(fw, line) ==
    [fw EXCEPT ![Len(fw)].elems =
        Append(@, [base_addr |-> LinearAddr(fw, line), data |-> Payload(line)])]

(* append_data, for a little-endian file (the only kind a caller asks for).*)
AppendData(fw, line) ==
    LET es == Final(fw).elems
        Extended == [es EXCEPT ![Len(es)].data = @ \o Payload(line)]
        Added == Append(es, [base_addr |-> LinearAddr(fw, line),
                             data      |-> Payload(line)])
    IN  [fw EXCEPT ![Len(fw)].elems =
            IF LinearAddr(fw, line) = ExpectedAddr(fw) THEN Extended ELSE Added]

Acceptable(line) ==
    /\ Opens => Mapped(Map, BaseOr0 + Addr(line))
    /\ NonOverlapping(Opened(line), line)
    /\ InBounds(Opened(line), line)

-----------------------------------------------------------------------------
Start == /\ at = 1
         /\ base_addr = NoBase
         /\ result = <<>>
         /\ status = "reading"

Init == file \in Files /\ Start

Reading(kind) == /\ status = "reading"
                 /\ at \in DOMAIN file
                 /\ WellFormedLine(file[at])
                 /\ file[at][4] = RecordType[kind]

DataRecord ==
    /\ Reading("DATA")
    /\ Acceptable(file[at])
    /\ result' = AppendData(Opened(file[at]), file[at])
    /\ base_addr' = NoBase
    /\ at' = at + 1
    /\ UNCHANGED <<file, status>>

(* out_of_range of the region lookup, "Overlapping layout on line with     *)
(* addr", "Out of bounds data on line with addr".                          *)
RejectData ==
    /\ Reading("DATA")
    /\ ~ Acceptable(file[at])
    /\ status' = "error"
    /\ UNCHANGED <<file, at, base_addr, result>>

(* Mutant: the upper half of the address is not shifted. *)
ExtendedAddressUnshifted ==
    /\ Reading("EXTENDED_LIN_ADDR")
    /\ LET p == Payload(file[at])
       IN  IF Len(p) = 2
           THEN /\ base_addr' = p[1] * Base + p[2]
                /\ at' = at + 1
                /\ UNCHANGED status
           ELSE /\ status' = "error"
                /\ UNCHANGED <<at, base_addr>>
    /\ UNCHANGED <<file, result>>

(* process_extended_address_record: the upper half of the address of the   *)
(* next block, "Invalid payload length" unless it is two bytes.            *)
ExtendedAddressRecord ==
    /\ Reading("EXTENDED_LIN_ADDR")
    /\ LET p == Payload(file[at])
       IN  IF Len(p) = 2
           THEN /\ base_addr' = (p[1] * Base + p[2]) * Window
                /\ at' = at + 1
                /\ UNCHANGED status
           ELSE /\ status' = "error"
                /\ UNCHANGED <<at, base_addr>>
    /\ UNCHANGED <<file, result>>

EndOfFileRecord ==
    /\ Reading("END_OF_FILE")
    /\ status' = "parsed"
    /\ UNCHANGED <<file, at, base_addr, result>>

(* Mutant: a file without an end-of-file record is waited for. *)
NoMoreLinesWaits ==
    /\ status = "reading"
    /\ at \in DOMAIN file /\ ~ WellFormedLine(file[at])
    /\ status' = "error"
    /\ UNCHANGED <<file, at, base_addr, result>>

(* parse_hex_line throws, or the stream ends: "End-of-file missing".       *)
NoMoreLines ==
    /\ status = "reading"
    /\ at \in DOMAIN file => ~ WellFormedLine(file[at])
    /\ status' = "error"
    /\ UNCHANGED <<file, at, base_addr, result>>

Next == DataRecord \/ RejectData \/ ExtendedAddressRecord \/ EndOfFileRecord
          \/ NoMoreLines

Spec == Init /\ [][Next]_vars /\ WF_vars(Next)

-----------------------------------------------------------------------------
(* The bytes of the result, and those of the first n lines of the file by  *)
(* the format's own rule: an extended record holds until the next one.     *)
FirmwareBytes ==
    UNION {UNION {{<<e.base_addr + k - 1, e.data[k]>> : k \in DOMAIN e.data} :
                     e \in {b.elems[i] : i \in DOMAIN b.elems}} :
              b \in {result[i] : i \in DOMAIN result}}

Upper(n) ==
    LET exts == {i \in 1 .. n : file[i][4] = RecordType["EXTENDED_LIN_ADDR"]}
        p == Payload(file[CHOOSE i \in exts : \A j \in exts : j <= i])
    IN  IF exts = {} THEN 0 ELSE (p[1] * Base + p[2]) * Window

DataLines(n) == {i \in 1 .. n : file[i][4] = RecordType["DATA"]}

FileBytes(n) ==
    UNION {{<<Upper(i) + Addr(file[i]) + k - 1, Payload(file[i])[k]>> :
               k \in DOMAIN Payload(file[i])} : i \in DataLines(n)}

TypeOK ==
    /\ file \in Seq(Line)
    /\ at \in 1 .. Len(file) + 1
    /\ base_addr \in {NoBase} \cup {x * Window : x \in 0 .. Base * Base - 1}
    /\ result \in Seq([region : Region, base_addr : Nat,
                       elems : Seq([base_addr : Nat, data : Seq(Byte)])])
    /\ status \in {"reading", "parsed", "error"}

(* The Firmware holds every byte of the lines read so far, at the address  *)
(* the format gives it, and no other, although base_addr is forgotten with *)
(* the first data record that uses it.                                     *)
FirmwareHoldsFile == FirmwareBytes = FileBytes(at - 1)

(* Inside a block the elements are in order, with a gap between each two:  *)
(* none overlaps, and lines that follow one another make one element.      *)
ElementsSeparated ==
    \A b \in DOMAIN result : \A i, j \in DOMAIN result[b].elems :
        i < j => LET e == result[b].elems[i]
                 IN  e.base_addr + Len(e.data) < result[b].elems[j].base_addr

(* What the programmer may take for granted of a Firmware: its regions are *)
(* of the map and every element starts in the region of its block, also in *)
(* a window that several regions share.                                    *)
ElementsInRegion ==
    \A b \in DOMAIN result :
        /\ result[b].region \in {Map[i] : i \in DOMAIN Map}
        /\ \A i \in DOMAIN result[b].elems :
              InRegion(result[b].elems[i].base_addr, result[b].region)

(* Every file of lines the parser has room for is parsed or rejected. *)
ParsingEnds == <>(status # "reading")

(* IntelHex.hpp:235: "Out of bounds data on line with addr".  A file that  *)
(* is accepted has no byte outside the region of its block.                *)
OutOfBoundsRejected ==
    status = "parsed" =>
        \A b \in DOMAIN result : \A i \in DOMAIN result[b].elems :
            LET e == result[b].elems[i]
            IN  e.base_addr + Len(e.data) <= result[b].region.end
=============================================================================
