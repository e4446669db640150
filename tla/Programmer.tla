----------------------------- MODULE Programmer -----------------------------
(***************************************************************************)
(* PICProgrammer::program_verify and the ICSPHeader operations it is made  *)
(* of (bulk_erase, write_verify, write_with_readback), against the memory  *)
(* and the program counter of the microcontroller.                         *)
(*                                                                         *)
(* One step is one ICSP command: an interrupted command has no effect on   *)
(* the device, since a command takes effect with its last clock edge.  The *)
(* host keeps the position in the firmware (region block, element,         *)
(* offset); the device keeps its own program counter.  Nothing but the     *)
(* commands ties the two together.                                         *)
(***************************************************************************)
EXTENDS Regions, FiniteSets

CONSTANTS Map,        \* the region map the programmer is instantiated with
          Byte,       \* the values of a byte
          Blank,      \* an erased byte: 0xFF
          Firmwares,  \* the firmware files to program
          ExtraMasks, \* the values of the extra_erase argument
          Memories    \* what the device may hold before it is programmed

Elem == [base_addr : Nat, data : Seq(Byte)]

FwRegion == [region : RegionNames, elems : Seq(Elem)]

(* Mutant: the configuration words first. *)
ConfigFirst == <<"CONFIG", "PROGRAM", "EEPROM", "USER">>

WriteOrder == <<"PROGRAM", "EEPROM", "USER", "CONFIG">>

Erasable == {"EEPROM", "PROGRAM", "USER", "CONFIG"}

(* The parser puts a line under the region that holds the line's address. *)
BlockInRegion(b) ==
    \A r \in Named(Map, b.region) :
        \A e \in DOMAIN b.elems : InRegion(b.elems[e].base_addr, r)

ASSUME MapAssumption ==
    /\ WellFormedMap(Map)
    /\ \A p \in DOMAIN WriteOrder :
          \E i \in DOMAIN Map : Map[i].name = WriteOrder[p] /\ Map[i].writable

ASSUME DataAssumption ==
    /\ Blank \in Byte
    /\ Memories \subseteq [MapAddrs(Map) -> Byte]
    /\ ExtraMasks \subseteq SUBSET RegionNames

ASSUME FirmwareAssumption ==
    /\ Firmwares \subseteq Seq(FwRegion)
    /\ \A f \in Firmwares : \A i \in DOMAIN f :
          Named(Map, f[i].region) # {} /\ BlockInRegion(f[i])

VARIABLES fw,     \* the Firmware const & argument
          extra,  \* the extra_erase argument, as a set of region names
          mem,    \* device: its memory
          pc,     \* device: its program counter
          pass,   \* the call of write_verify_region that runs, 1..4
          ri,     \* the region block of fw the call looks at
          ei,     \* the element of that block
          off,    \* the bytes of the element that are written and verified
          step    \* what the programmer does next, or how it ended

vars == <<fw, extra, mem, pc, pass, ri, ei, off, step>>

cursor == <<pass, ri, ei, off>>

Outcomes == {"done", "error", "interrupted"}

Running == step \notin Outcomes

-----------------------------------------------------------------------------
(* erasable_regions: the mask given, and the region of every block. *)
EraseMask == extra \cup {fw[i].region : i \in DOMAIN fw}

(* The element the loops of write_verify_region are at. *)
Current == fw[ri].elems[ei]

HostRegion == WithRegion(Map, Current.base_addr)

DeviceRegion == WithRegion(Map, pc)

(* The bytes of the word at pc. *)
WordAddrs == pc .. pc + DeviceRegion.word_size - 1

(* Mutant: the pad of an odd last chunk is a byte of the file, not 0xFF. *)
OutgoingRepeated(a) == LET i == off + (a - pc) + 1
                       IN  IF i \in DOMAIN Current.data
                           THEN Current.data[i] ELSE Current.data[1]

(* The chunk at off, padded with 0xFF up to the word size (write_range). *)
Outgoing(a) == LET i == off + (a - pc) + 1
               IN  IF i \in DOMAIN Current.data THEN Current.data[i] ELSE Blank

(* The bytes of the chunk that exist, the only ones std::equal looks at. *)
ChunkMatches == \A a \in WordAddrs :
                    off + (a - pc) + 1 \in DOMAIN Current.data =>
                        mem[a] = Outgoing(a)

-----------------------------------------------------------------------------
Init == /\ fw \in Firmwares
        /\ extra \in ExtraMasks
        /\ mem \in Memories
        /\ pc = 0
        /\ pass = 1 /\ ri = 1 /\ ei = 1 /\ off = 0
        /\ step = "erase"

(* Mutants of BulkErase: the regions of the file are forgotten; all four   *)
(* regions go, whatever the mask.                                          *)
EraseExtraOnly ==
    /\ step = "erase"
    /\ mem' = [a \in DOMAIN mem |->
                  IF a \in MaskAddrs(Map, extra \cap Erasable) THEN Blank ELSE mem[a]]
    /\ step' = "seek"
    /\ UNCHANGED <<fw, extra, pc, cursor>>

EraseAll ==
    /\ step = "erase"
    /\ mem' = [a \in DOMAIN mem |->
                  IF a \in MaskAddrs(Map, Erasable) THEN Blank ELSE mem[a]]
    /\ step' = "seek"
    /\ UNCHANGED <<fw, extra, pc, cursor>>

(* bulk_erase: of the mask only the four erasable regions have a bit in    *)
(* the command, and without any bit no command is sent.                    *)
BulkErase ==
    /\ step = "erase"
    /\ mem' = [a \in DOMAIN mem |->
                  IF a \in MaskAddrs(Map, EraseMask \cap Erasable)
                  THEN Blank ELSE mem[a]]
    /\ step' = "seek"
    /\ UNCHANGED <<fw, extra, pc, cursor>>

(* Mutant: the passes have no end. *)
NextPassForever ==
    /\ step = "seek"
    /\ ri > Len(fw)
    /\ pass' = pass + 1
    /\ ri' = 1 /\ ei' = 1
    /\ UNCHANGED <<fw, extra, mem, pc, off, step>>

(* The filtered loop of a pass is over: program_verify makes the next call *)
(* of write_verify_region, and returns after the last.                     *)
NextPass ==
    /\ step = "seek"
    /\ pass \in DOMAIN WriteOrder
    /\ ri > Len(fw)
    /\ pass' = pass + 1
    /\ ri' = 1 /\ ei' = 1
    /\ UNCHANGED <<fw, extra, mem, pc, off, step>>

Finish ==
    /\ step = "seek"
    /\ pass > Len(WriteOrder)
    /\ step' = "done"
    /\ UNCHANGED <<fw, extra, mem, pc, cursor>>

InPass == step = "seek" /\ pass \in DOMAIN WriteOrder /\ ri \in DOMAIN fw

(* Mutant: the last element of a block is left out. *)
NextBlockEarly ==
    /\ InPass
    /\ fw[ri].region # WriteOrder[pass] \/ ei >= Len(fw[ri].elems)
    /\ ri' = ri + 1 /\ ei' = 1
    /\ UNCHANGED <<fw, extra, mem, pc, pass, off, step>>

(* filter_region drops a block of another region, and the inner loop ends  *)
(* with the block's last element.                                          *)
NextBlock ==
    /\ InPass
    /\ fw[ri].region # WriteOrder[pass] \/ ei > Len(fw[ri].elems)
    /\ ri' = ri + 1 /\ ei' = 1
    /\ UNCHANGED <<fw, extra, mem, pc, pass, off, step>>

AtElem == /\ InPass
          /\ fw[ri].region = WriteOrder[pass]
          /\ ei \in DOMAIN fw[ri].elems

(* write_verify: region_metadata accepts the address, load_pc sends it. *)
LoadPC ==
    /\ AtElem
    /\ Addressable(Map, Current.base_addr)
    /\ pc' = Current.base_addr
    /\ off' = 0
    /\ step' = "write"
    /\ UNCHANGED <<fw, extra, mem, pass, ri, ei>>

(* region_metadata throws "Unaligned address for region". *)
RejectAddress ==
    /\ AtElem
    /\ ~ Addressable(Map, Current.base_addr)
    /\ step' = "error"
    /\ UNCHANGED <<fw, extra, mem, pc, cursor>>

AtWord == step = "write" /\ off < Len(Current.data)

(* write_range without auto-increment.  The device programs the word it is *)
(* sent; a byte whose programming fails keeps what it held.                *)
WriteWord ==
    /\ AtWord
    /\ Mapped(Map, pc)
    /\ \E programmed \in SUBSET WordAddrs :
          mem' = [a \in DOMAIN mem |->
                     IF a \in programmed THEN Outgoing(a) ELSE mem[a]]
    /\ step' = "readback"
    /\ UNCHANGED <<fw, extra, pc, cursor>>

(* The device has no memory at its program counter. *)
RejectWord ==
    /\ AtWord
    /\ ~ Mapped(Map, pc)
    /\ step' = "error"
    /\ UNCHANGED <<fw, extra, mem, pc, cursor>>

(* Mutants of ReadBack: only the first byte is compared; a word that does  *)
(* not hold is written once more, and again.                               *)
ReadBackFirst ==
    /\ step = "readback"
    /\ step' = IF mem[pc] = Outgoing(pc) THEN "increment" ELSE "error"
    /\ UNCHANGED <<fw, extra, mem, pc, cursor>>

ReadBackRetry ==
    /\ step = "readback"
    /\ step' = IF ChunkMatches THEN "increment" ELSE "write"
    /\ UNCHANGED <<fw, extra, mem, pc, cursor>>

(* write_with_readback: the word is read back and its chunk compared; a    *)
(* difference throws "Programming error at address ...".                   *)
ReadBack ==
    /\ step = "readback"
    /\ step' = IF ChunkMatches THEN "increment" ELSE "error"
    /\ UNCHANGED <<fw, extra, mem, pc, cursor>>

(* Mutant: increment_addr left to the auto-increment of the region, which  *)
(* the write and the read of a verified word do not ask for.               *)
IncrementByDevice ==
    /\ step = "increment"
    /\ pc' = IF DeviceRegion.autoincrement_addr THEN pc
             ELSE pc + DeviceRegion.word_size
    /\ off' = off + HostRegion.word_size
    /\ step' = "write"
    /\ UNCHANGED <<fw, extra, mem, pass, ri, ei>>

(* increment_addr, and the host's own addr += word_size. *)
IncrementAddr ==
    /\ step = "increment"
    /\ pc' = pc + DeviceRegion.word_size
    /\ off' = off + HostRegion.word_size
    /\ step' = "write"
    /\ UNCHANGED <<fw, extra, mem, pass, ri, ei>>

(* The chunks of the element are used up: the next element. *)
NextElem ==
    /\ step = "write"
    /\ off >= Len(Current.data)
    /\ ei' = ei + 1
    /\ step' = "seek"
    /\ UNCHANGED <<fw, extra, mem, pc, pass, ri, off>>

(* IGPIO::Interrupted is thrown out of some GPIO call of the next command. *)
Interrupt ==
    /\ Running
    /\ step' = "interrupted"
    /\ UNCHANGED <<fw, extra, mem, pc, cursor>>

Program == \/ BulkErase \/ NextPass \/ Finish \/ NextBlock \/ LoadPC
           \/ RejectAddress \/ WriteWord \/ RejectWord \/ ReadBack
           \/ IncrementAddr \/ NextElem

Next == Program \/ Interrupt

Spec == Init /\ [][Next]_vars /\ WF_vars(Program)

-----------------------------------------------------------------------------
(* A firmware the map has room for: every byte of an element lies in the   *)
(* region of its block, and no address is given two bytes.  The parser     *)
(* promises neither (it checks the first address of a line only, and       *)
(* overlap only inside a block), so the properties state what they need.   *)
ElemIds == UNION {{<<i, e>> : e \in DOMAIN fw[i].elems} : i \in DOMAIN fw}

ElemAt(id) == fw[id[1]].elems[id[2]]

ElemAddrs(id) ==
    ElemAt(id).base_addr .. ElemAt(id).base_addr + Len(ElemAt(id).data) - 1

FitsMap == \A id \in ElemIds :
               ElemAddrs(id) \subseteq MaskAddrs(Map, {fw[id[1]].region})

NoOverlap == \A x, y \in ElemIds : x # y => ElemAddrs(x) \cap ElemAddrs(y) = {}

WellFormed == FitsMap /\ NoOverlap

(* The first n bytes of an element are in the device. *)
HeldUpTo(id, n) == \A k \in 1 .. n : 
                      k \in DOMAIN ElemAt(id).data =>
                          mem[ElemAt(id).base_addr + k - 1] = ElemAt(id).data[k]

Held(id) == HeldUpTo(id, Len(ElemAt(id).data))

(* The elements whose write_verify is over. *)
Processed(id) ==
    \E p \in DOMAIN WriteOrder :
        /\ fw[id[1]].region = WriteOrder[p]
        /\ \/ p < pass
           \/ p = pass /\ id[1] < ri
           \/ p = pass /\ id[1] = ri /\ id[2] < ei

-----------------------------------------------------------------------------
TypeOK ==
    /\ fw \in Firmwares
    /\ extra \in ExtraMasks
    /\ mem \in [MapAddrs(Map) -> Byte]
    /\ pc \in Nat
    /\ pass \in 1 .. Len(WriteOrder) + 1
    /\ ri \in 1 .. Len(fw) + 1
    /\ ei \in Nat \ {0}
    /\ off \in Nat
    /\ step \in {"erase", "seek", "write", "readback", "increment"} \cup Outcomes

(* What was verified stays verified: at every moment, after an error or an *)
(* interrupt too, the device holds every element the programmer is through *)
(* with, and the verified front part of the element it is at.  The 0xFF    *)
(* that pads an odd last byte never lands on a byte verified before.       *)
VerifiedStaysVerified ==
    WellFormed =>
        /\ \A id \in ElemIds : Processed(id) => Held(id)
        /\ step \in {"write", "readback", "increment"} =>
              HeldUpTo(<<ri, ei>>, off)

(* program_verify returns normally only when the device holds every byte   *)
(* the file has for the four regions it writes.                            *)
DoneMeansProgrammed ==
    WellFormed /\ step = "done" =>
        \A id \in ElemIds :
            fw[id[1]].region \in {WriteOrder[p] : p \in DOMAIN WriteOrder}
                => Held(id)

(* The bulk erase is over.  An interrupt may also have come before it. *)
Erased == step \in {"seek", "write", "readback", "increment", "done", "error"}

(* Erase comes first and takes everything: from then on no byte of an      *)
(* erased region is a leftover of the old firmware, not even after a       *)
(* failure: a byte is erased or the file's.                                *)
NoStaleByte ==
    Erased =>
        \A a \in MaskAddrs(Map, EraseMask \cap Erasable) :
            \/ mem[a] = Blank
            \/ \E id \in ElemIds :
                  /\ a \in ElemAddrs(id)
                  /\ mem[a] = ElemAt(id).data[a - ElemAt(id).base_addr + 1]

(* The configuration words (clock, code protection) go in last: while      *)
(* CONFIG holds anything but erased bytes, every element of the other      *)
(* three regions is in the device and verified.                            *)
ConfigLast ==
    ( /\ WellFormed
      /\ "CONFIG" \in EraseMask
      /\ Erased
      /\ \E a \in MaskAddrs(Map, {"CONFIG"}) : mem[a] # Blank ) =>
            \A id \in ElemIds :
                fw[id[1]].region \in {"PROGRAM", "EEPROM", "USER"} => Held(id)

(* The device's program counter and the host's position in the element     *)
(* never drift apart: the word written and read back is the word the host  *)
(* believes it is at.                                                      *)
HostAndDeviceAgree ==
    step \in {"write", "readback", "increment"} =>
        pc = Current.base_addr + off

(* No step changes a byte outside the regions named by the erase mask: not *)
(* a region the file does not mention, nor the read-only ones.             *)
OnlyMaskedRegionsChange ==
    [][\A a \in DOMAIN mem :
          mem'[a] # mem[a] => a \in MaskAddrs(Map, EraseMask \cap Erasable)]_vars

(* program_verify comes to an end, however the file is laid out. *)
ProgrammingEnds == <>(~ Running)
=============================================================================
