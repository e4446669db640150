------------------------------ MODULE Commands ------------------------------
(***************************************************************************)
(* What ICSPHeader promises its callers of the five commands of a          *)
(* programming session: a request is performed once, at one moment, on the *)
(* device's memory and program counter, or not at all when the session is  *)
(* broken off before.  This is the view that program_verify and            *)
(* read_region are written against; Wire has the clock edges.              *)
(***************************************************************************)
EXTENDS Regions

CONSTANTS Map,       \* the region map of the device
          Memories   \* what the device may hold

VARIABLES mode,       \* "on" while the session may send commands
          cmd,        \* the request in work, NoRequest between two
          performed,  \* the device has performed it
          mem, pc,    \* device: its memory and program counter
          answer      \* the word that a read performed will return

vars == <<mode, cmd, performed, mem, pc, answer>>

NoPC == -1

Request(name, arg, mask, inc) ==
    [name |-> name, arg |-> arg, mask |-> mask, inc |-> inc]

NoRequest == Request("none", 0, {}, FALSE)

Word == 0 .. 65535

RequestType ==
    [name : {"load", "increment", "read", "write", "erase"}, arg : Nat,
     mask : SUBSET RegionNames, inc : BOOLEAN]

DeviceRegion == WithRegion(Map, pc)

WordAt(a) == IF DeviceRegion.word_size = 1 THEN mem[a]
             ELSE mem[a] + 256 * mem[a + 1]

(* A command that asks for an increment gets one in a region that has it.  *)
PCAfter(inc) == IF inc /\ DeviceRegion.autoincrement_addr
                THEN pc + DeviceRegion.word_size ELSE pc

(* The regions that have a bit in the argument of a bulk erase. *)
Erasable == {"EEPROM", "PROGRAM", "USER", "CONFIG"}

(* Before the first load_pc, and in a gap of the map, the device has no    *)
(* word to work on; a read-only region has no programming delay.           *)
Legal(c) ==
    /\ c.name \notin {"load", "erase"} => pc # NoPC /\ Mapped(Map, pc)
    /\ c.name = "write" => DeviceRegion.writable
    /\ c.name = "erase" => c.mask \cap Erasable # {}

-----------------------------------------------------------------------------
Init == /\ mode = "off" /\ cmd = NoRequest /\ performed = FALSE
        /\ mem \in Memories /\ pc = NoPC
        /\ answer = 0

Enter == /\ mode = "off" /\ mode' = "on"
         /\ UNCHANGED <<cmd, performed, mem, pc, answer>>

Issue == /\ mode = "on" /\ cmd = NoRequest
         /\ cmd' \in RequestType
         /\ Legal(cmd')
         /\ UNCHANGED <<mode, performed, mem, pc, answer>>

Performing(name) == /\ mode = "on" /\ cmd.name = name /\ ~ performed
                    /\ performed' = TRUE
                    /\ UNCHANGED <<mode, cmd>>

PerformLoad == /\ Performing("load")
               /\ pc' = cmd.arg
               /\ UNCHANGED <<mem, answer>>

PerformIncrement == /\ Performing("increment")
                    /\ pc' = pc + DeviceRegion.word_size
                    /\ UNCHANGED <<mem, answer>>

PerformRead == /\ Performing("read")
               /\ answer' = WordAt(pc)
               /\ pc' = PCAfter(cmd.inc)
               /\ UNCHANGED mem

PerformWrite ==
    /\ Performing("write")
    /\ mem' = [a \in DOMAIN mem |->
                  IF a = pc THEN cmd.arg % 256
                  ELSE IF a = pc + 1 /\ DeviceRegion.word_size = 2
                       THEN cmd.arg \div 256
                       ELSE mem[a]]
    /\ pc' = PCAfter(cmd.inc)
    /\ UNCHANGED answer

PerformErase ==
    /\ Performing("erase")
    /\ mem' = [a \in DOMAIN mem |->
                  IF a \in MaskAddrs(Map, cmd.mask \cap Erasable) THEN 255
                  ELSE mem[a]]
    /\ UNCHANGED <<pc, answer>>

Return == /\ mode = "on" /\ performed
          /\ cmd' = NoRequest /\ performed' = FALSE
          /\ answer' = 0
          /\ UNCHANGED <<mode, mem, pc>>

(* The session ends, at its end or anywhere in a command; what the device  *)
(* does with its program counter then is nobody's business.                *)
Leave == /\ mode = "on" /\ mode' = "off"
         /\ cmd' = NoRequest /\ performed' = FALSE
         /\ pc' = NoPC
         /\ answer' = 0
         /\ UNCHANGED mem

Next == \/ Enter \/ Issue \/ PerformLoad \/ PerformIncrement \/ PerformRead
        \/ PerformWrite \/ PerformErase \/ Return \/ Leave

Spec == Init /\ [][Next]_vars
=============================================================================
