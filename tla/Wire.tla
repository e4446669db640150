-------------------------------- MODULE Wire --------------------------------
(***************************************************************************)
(* A programming session edge by edge: ICSPHeader's GPIO calls on one side *)
(* of the pins, the states of MockPIC18Q20 with every timing check it      *)
(* makes on the other.  A step is one GPIO call; the device reacts inside  *)
(* the call and may throw out of it.                                       *)
(*                                                                         *)
(* Times are whole microseconds, as all waits of the host are; the checks  *)
(* of 100 ns and 80 ns ask whether any wait came in between.  The device   *)
(* keeps the times of the last edges, the model how long ago each was, up  *)
(* to Cap, which is more than any of them is compared with.  The checks    *)
(* are skipped at time 0, when no edge has been yet.                       *)
(***************************************************************************)
EXTENDS Regions

CONSTANTS Map,         \* the region map of the device
          Memories,    \* what the device may hold
          Requests,    \* the commands a caller may ask for
          MaxCommands  \* bound: how many it asks for in a session

(* The program counter has 22 bits, and no word takes longer to program    *)
(* than an erase does; callers load addresses of words, and write words of *)
(* 16 bits.                                                                *)
ASSUME WireAssumption ==
    /\ WellFormedMap(Map)
    /\ \A i \in DOMAIN Map : Map[i].end <= 4194304 /\ Map[i].t_PROG_us <= 11000
    /\ Memories \subseteq [MapAddrs(Map) -> 0 .. 255]
    /\ Requests \subseteq
          [name : {"load", "increment", "read", "write", "erase"}, arg : Nat,
           mask : SUBSET RegionNames, inc : BOOLEAN]
    /\ \A c \in Requests : /\ c.name = "load" => Addressable(Map, c.arg)
                           /\ c.name = "write" => c.arg < 65536
    /\ MaxCommands \in Nat

VARIABLES stage,     \* the C++ scope that runs
          script,    \* what is left to do in it
          bit, step, \* the bit of a sequence and the call in its loop
          got,       \* the bits read so far
          op,        \* the command in work
          issued,    \* how many commands were begun
          exc,       \* the exception in flight: "none", "interrupted", "error"
          signalled, \* an interrupt has come
          pins,      \* the levels of MCLR, PROG_EN and CLK, the mode of DATA
          line,      \* the level of DATA (ICSPDatPin::m_value)
          age,       \* device: how long ago CLK rose, fell, DATA changed, was latched
          dev        \* device: its state, program counter and memory

host == <<stage, script, bit, step, got, op, issued, exc, signalled>>
vars == <<host, pins, line, age, dev>>

(* What the bits of a word weigh, the lowest first. *)
Weight == <<1, 2, 4, 8, 16, 32, 64, 128, 256, 512, 1024, 2048, 4096, 8192,
            16384, 32768>>

NoPC == -1
NoLevel == -1
Never == -1

Request(name, arg, mask, inc) ==
    [name |-> name, arg |-> arg, mask |-> mask, inc |-> inc]

NoRequest == Request("none", 0, {}, FALSE)

-----------------------------------------------------------------------------
(* Host: the waits of Timings.hpp, and what a scope or a command consists  *)
(* of, down to the loops over the bits.                                    *)
T_ENTH == 1100
T_CLK  == 2
T_DS   == 1
T_DLY  == 4
T_ERAB == 11000
CLK_WAIT == IF T_CLK > T_DS THEN T_CLK ELSE T_DS

Pin(name, v) == [do |-> name, level |-> v]
Mode(m)      == [do |-> "mode", mode |-> m]
Wait(us)     == [do |-> "delay", us |-> us]
WriteData(v) == [do |-> "write", level |-> v]
ReadData     == [do |-> "read"]
Send(bytes)  == [do |-> "send", bytes |-> bytes]
Receive      == [do |-> "receive"]

KEY_SEQ == <<77, 67, 72, 80>>

(* Mutant: setup_programming is not called. *)
CleanupNoProgEn == <<Pin("mclr", 1), Pin("clk", 0), Mode("out")>>

(* cleanup_gpio; setup_programming is its last call. *)
CleanupGpio == <<Pin("mclr", 1), Pin("clk", 0), Mode("out"), Pin("prog_en", 0)>>

EnterProgramming ==
    CleanupGpio \o
    <<Pin("prog_en", 1), Wait(1000), Pin("mclr", 0), Wait(2 * T_ENTH),
      Send(KEY_SEQ), Wait(2 * T_ENTH)>>

ExitProgramming ==
    <<Wait(T_ENTH + T_CLK), Pin("mclr", 1), Pin("prog_en", 0)>>

(* The finally block of read_transaction. *)
RestoreData == <<Mode("out"), Pin("clk", 0)>>

(* Mutant of WriteCast: no stop bit. *)
WriteCastBare(v) == <<(v \div 65536) % 256, (v \div 256) % 256, v % 256>>

(* write_cast and read_cast: a word has a stop bit behind it. *)
WriteCast(v) == LET t == 2 * v
                IN  <<(t \div 65536) % 256, (t \div 256) % 256, t % 256>>

ReadCast(bits) == (bits % 131072) \div 2

LoadPC(addr) ==
    <<Send(<<128>>), Wait(T_DLY), Send(WriteCast(addr)), Wait(T_DLY)>>

IncrementAddr == <<Send(<<248>>), Wait(T_DLY)>>

(* write_transaction, and the wait of write_range. *)
WriteWord(word, inc, prog_us) ==
    <<Send(<<IF inc THEN 224 ELSE 192>>), Wait(T_DLY), Send(WriteCast(word)),
      Wait(prog_us)>>

(* Mutant: DATA is not turned around. *)
ReadRawDriving(inc) ==
    <<Send(<<IF inc THEN 254 ELSE 252>>), Wait(T_DLY), Receive, Wait(T_DLY)>>

ReadRaw(inc) ==
    <<Send(<<IF inc THEN 254 ELSE 252>>), Mode("in"), Wait(T_DLY), Receive>>
      \o RestoreData \o <<Wait(T_DLY)>>

EraseBit == [EEPROM |-> 1, PROGRAM |-> 2, USER |-> 4, CONFIG |-> 8]

EraseBits(mask) ==
    LET Bit(n) == IF n \in mask THEN EraseBit[n] ELSE 0
    IN  Bit("EEPROM") + Bit("PROGRAM") + Bit("USER") + Bit("CONFIG")

(* Mutant: the erase time is not waited for. *)
BulkEraseHasty(mask) ==
    <<Send(<<24>>), Wait(T_DLY), Send(WriteCast(EraseBits(mask)))>>

BulkErase(mask) ==
    <<Send(<<24>>), Wait(T_DLY), Send(WriteCast(EraseBits(mask))), Wait(T_ERAB)>>

Clocks(c) == c.do \in {"send", "receive"}

Bits(c) == IF c.do = "send" THEN 8 * Len(c.bytes) ELSE 24

BitOf(bytes, k) == (bytes[k \div 8 + 1] \div Weight[8 - (k % 8)]) % 2

(* The loop bodies of write_data_sequence and read_transaction. *)
BitCalls(c, k) ==
    IF c.do = "send"
    THEN <<Pin("clk", 1), WriteData(BitOf(c.bytes, k)), Wait(CLK_WAIT),
           Pin("clk", 0), Wait(CLK_WAIT)>>
    ELSE <<Pin("clk", 1), Wait(T_CLK), ReadData, Pin("clk", 0), Wait(T_CLK)>>

Call == IF Clocks(Head(script)) THEN BitCalls(Head(script), bit)[step]
        ELSE Head(script)

AtCall(what) == script # <<>> /\ Call.do = what

(* The call returns. *)
Advance ==
    IF Clocks(Head(script))
    THEN /\ step' = (step % 5) + 1
         /\ bit' = IF step = 5 THEN (bit + 1) % Bits(Head(script)) ELSE bit
         /\ script' = IF step = 5 /\ bit = Bits(Head(script)) - 1
                      THEN Tail(script) ELSE script
    ELSE /\ script' = Tail(script)
         /\ UNCHANGED <<bit, step>>

-----------------------------------------------------------------------------
(* Device: the states of MockPIC18Q20, its electrical limits, and how long *)
(* it has been since an edge.                                              *)
Cap == 12001

DevT_ENTH == 1000
Hold == 10001     \* T_ENTH + T_CKL, in tenths of a microsecond
Dly  == 10        \* T_DLY, in tenths

Elapsed(t, us) ==
    IF t = Never THEN Never ELSE IF t + us > Cap THEN Cap ELSE t + us

Receives == [MCLR |-> 32, COMMAND_PREAMBLE |-> 8, LOAD_PC |-> 24, WRITE |-> 24,
             BULK_ERASE |-> 24]

DeviceRegion == WithRegion(Map, dev.pc)

HasWord == /\ dev.pc # NoPC
           /\ Mapped(Map, dev.pc)

InOneRegion == dev.pc + DeviceRegion.word_size <= DeviceRegion.end

WordAt(a) == IF DeviceRegion.word_size = 1 THEN dev.mem[a]
             ELSE dev.mem[a] + 256 * dev.mem[a + 1]

To(d, st) == [d EXCEPT !.state = st, !.cnt = 0, !.data = 0, !.inc = FALSE]

ToProgramming(d, ts) == [To(d, "PROGRAMMING") EXCEPT !.ts = ts]

PCAfter(inc) == IF inc /\ DeviceRegion.autoincrement_addr
                THEN dev.pc + DeviceRegion.word_size ELSE dev.pc

-----------------------------------------------------------------------------
(* A rising edge of CLK.  A command starts with the first one after the    *)
(* device is ready; INC_PC takes effect only with the next command's.      *)
RiseAccepted ==
    /\ age.fell >= 1
    /\ CASE dev.state = "MCLR"             -> dev.cnt = 0 => age.fell >= DevT_ENTH
         [] dev.state = "PROGRAMMING"      -> 10 * age.fell >= dev.ts
         [] dev.state = "INC_PC"           -> 10 * age.fell >= Dly
         [] dev.state \in DOMAIN Receives \cup {"READ_NVM"} -> age.fell >= 1
         [] OTHER                          -> FALSE

Risen ==
    CASE dev.state = "PROGRAMMING" -> To(dev, "COMMAND_PREAMBLE")
      [] dev.state = "INC_PC"      ->
            To([dev EXCEPT !.pc = @ + DeviceRegion.word_size], "COMMAND_PREAMBLE")
      [] dev.state = "READ_NVM"    -> [dev EXCEPT !.cnt = @ - 1]
      [] OTHER                     -> dev

(* READ_NVM: zeros, the word from its highest bit, a stop bit. *)
BitOut == IF dev.cnt - 1 \in 1 .. 8 * DeviceRegion.word_size
          THEN (dev.data \div Weight[dev.cnt - 1]) % 2 ELSE 0

ClkRises ==
    /\ AtCall("clk") /\ Call.level = 1 /\ pins.clk = 0
    /\ RiseAccepted
    /\ dev' = Risen
    /\ IF dev.state = "READ_NVM"
       THEN line' = BitOut /\ age' = [age EXCEPT !.rose = 0, !.changed = 0]
       ELSE age' = [age EXCEPT !.rose = 0] /\ UNCHANGED line
    /\ pins' = [pins EXCEPT !.clk = 1]

(* A falling edge: a receiving state takes the level of DATA, and acts on  *)
(* its last bit.                                                           *)
Shifted == 2 * dev.data + line

(* Mutant: the bits are compared with the count before this one is in it. *)
LastBitLate == dev.cnt = Receives[dev.state]

LastBit == dev.cnt + 1 = Receives[dev.state]

KEY == 1296255056

CodeAccepted(code) ==
    \/ code \in {128, 24}
    \/ code = 248 /\ HasWord
    \/ code \in {192, 224, 252, 254} /\ HasWord /\ InOneRegion

FallAccepted ==
    /\ age.rose >= 1
    /\ dev.state \in DOMAIN Receives \cup {"READ_NVM"}
    /\ dev.state \in DOMAIN Receives =>
          /\ age.changed >= 1 /\ line # NoLevel
          /\ dev.state = "MCLR" /\ LastBit => Shifted = KEY
          /\ dev.state = "COMMAND_PREAMBLE" /\ LastBit => CodeAccepted(Shifted)

Decoded(code) ==
    CASE code = 128 -> To(dev, "LOAD_PC")
      [] code = 24  -> To(dev, "BULK_ERASE")
      [] code = 248 -> To(dev, "INC_PC")
      [] code \in {192, 224} -> [To(dev, "WRITE") EXCEPT !.inc = (code = 224)]
      [] code \in {252, 254} ->
            [To(dev, "READ_NVM") EXCEPT !.inc = (code = 254), !.cnt = 24,
                                        !.data = WordAt(dev.pc)]

Stored(word) ==
    [dev EXCEPT
       !.mem = [a \in DOMAIN @ |->
                  IF a = dev.pc THEN word % 256
                  ELSE IF a = dev.pc + 1 /\ DeviceRegion.word_size = 2
                       THEN (word \div 256) % 256
                       ELSE @[a]],
       !.pc = PCAfter(dev.inc)]

Erased(bits) ==
    LET Names == {n \in DOMAIN EraseBit : (bits \div EraseBit[n]) % 2 = 1}
    IN  [dev EXCEPT !.mem = [a \in DOMAIN @ |->
                               IF a \in MaskAddrs(Map, Names) THEN 255 ELSE @[a]]]

OnData(bits) ==
    CASE dev.state = "MCLR"             -> ToProgramming(dev, Hold)
      [] dev.state = "COMMAND_PREAMBLE" -> Decoded(bits)
      [] dev.state = "LOAD_PC" ->
            ToProgramming([dev EXCEPT !.pc = (bits \div 2) % 4194304], Dly)
      [] dev.state = "WRITE" ->
            ToProgramming(Stored(bits \div 2), 10 * DeviceRegion.t_PROG_us)
      [] dev.state = "BULK_ERASE" -> ToProgramming(Erased(bits \div 2), 10 * T_ERAB)

ClkFalls ==
    /\ AtCall("clk") /\ Call.level = 0 /\ pins.clk = 1
    /\ FallAccepted
    /\ IF dev.state = "READ_NVM"
       THEN /\ dev' = IF dev.cnt > 0 THEN dev
                      ELSE ToProgramming([dev EXCEPT !.pc = PCAfter(dev.inc)], Dly)
            /\ age' = [age EXCEPT !.fell = 0]
       ELSE /\ dev' = IF LastBit THEN OnData(Shifted)
                      ELSE [dev EXCEPT !.cnt = @ + 1, !.data = Shifted]
            /\ age' = [age EXCEPT !.fell = 0, !.latched = 0]
    /\ pins' = [pins EXCEPT !.clk = 0]
    /\ UNCHANGED line

-----------------------------------------------------------------------------
(* The calls on DATA.  The driver of the line is the host unless DATA is   *)
(* an input, and the device from the end of a read command to its last     *)
(* clock.  ICSPDatPin's own collision checks are conjunctions that neither *)
(* side can make true.                                                     *)
HostDrives == pins.data = "out"
DeviceDrives == dev.state = "READ_NVM"

LatchHeld == age.latched = Never \/ age.latched >= 1

WriteAccepted == pins.data = "out" /\ LatchHeld

DataWritten ==
    /\ AtCall("write") /\ WriteAccepted
    /\ line' = Call.level
    /\ age' = [age EXCEPT !.changed = 0, !.latched = Never]
    /\ UNCHANGED <<pins, dev>>

(* A change of the mode empties the line; an output then writes its        *)
(* initial value.                                                          *)
DataMode ==
    /\ AtCall("mode")
    /\ Call.mode = "out" => LatchHeld
    /\ pins' = [pins EXCEPT !.data = Call.mode]
    /\ IF Call.mode = "out"
       THEN line' = 0 /\ age' = [age EXCEPT !.changed = 0, !.latched = Never]
       ELSE IF pins.data = "out"
            THEN line' = NoLevel /\ age' = [age EXCEPT !.changed = 0]
            ELSE UNCHANGED <<line, age>>
    /\ UNCHANGED dev

ReadAccepted == /\ pins.data = "in"
                /\ age.rose >= 1 /\ age.changed >= 1 /\ line # NoLevel

DataRead ==
    /\ AtCall("read") /\ ReadAccepted
    /\ got' = 2 * got + line
    /\ UNCHANGED <<pins, line, age, dev>>

Delay ==
    /\ AtCall("delay")
    /\ age' = [e \in DOMAIN age |-> Elapsed(age[e], Call.us)]
    /\ UNCHANGED <<pins, line, dev>>

(* MCLR and PROG_EN. *)
ExitHeld(ts) == 10 * age.fell >= ts + Hold

ControlAccepted(name, v) ==
    CASE name = "mclr" /\ v = 1    -> \/ dev.state = "MCLR"
                                      \/ dev.state = "PROGRAMMING" /\ ExitHeld(dev.ts)
                                      \/ dev.state = "INC_PC" /\ ExitHeld(Dly)
      [] name = "mclr" /\ v = 0    -> /\ dev.state = "PROG_EN"
                                      /\ age.rose >= 1 /\ age.fell >= 1
                                      /\ age.changed >= 1
      [] name = "prog_en" /\ v = 1 -> dev.state = "IDLE"
      [] name = "prog_en" /\ v = 0 -> dev.state = "PROG_EN"

Controlled(name, v) ==
    CASE name = "mclr" /\ v = 0    -> To(dev, "MCLR")
      [] name = "prog_en" /\ v = 0 -> To(dev, "IDLE")
      [] OTHER                     -> To(dev, "PROG_EN")

Control(name) ==
    /\ AtCall(name) /\ pins[name] # Call.level
    /\ ControlAccepted(name, Call.level)
    /\ dev' = Controlled(name, Call.level)
    /\ pins' = [pins EXCEPT ![name] = Call.level]
    /\ UNCHANGED <<line, age>>

IsControl == script # <<>> /\ Call.do \in {"mclr", "prog_en", "clk"}

NoEdge ==
    /\ IsControl /\ pins[Call.do] = Call.level
    /\ UNCHANGED <<pins, line, age, dev>>

Accepted ==
    \/ IsControl /\ pins[Call.do] = Call.level
    \/ AtCall("clk") /\ IF Call.level = 1 THEN RiseAccepted ELSE FallAccepted
    \/ AtCall("write") /\ WriteAccepted
    \/ AtCall("read") /\ ReadAccepted
    \/ AtCall("mode") /\ (Call.mode = "out" => LatchHeld)
    \/ AtCall("delay")
    \/ \E name \in {"mclr", "prog_en"} :
          AtCall(name) /\ ControlAccepted(name, Call.level)

-----------------------------------------------------------------------------
Init ==
    /\ stage = "out" /\ script = <<>> /\ bit = 0 /\ step = 1 /\ got = 0
    /\ op = NoRequest /\ issued = 0 /\ exc = "none" /\ signalled = FALSE
    /\ pins = [mclr |-> 1, prog_en |-> 0, clk |-> 0, data |-> "out"]
    /\ line = 0
    /\ age = [rose |-> 0, fell |-> 0, changed |-> 0, latched |-> Never]
    /\ \E m \in Memories :
          dev = [state |-> "IDLE", cnt |-> 0, data |-> 0, inc |-> FALSE, ts |-> 0,
                 pc |-> NoPC, mem |-> m]

Enter ==
    /\ stage = "out"
    /\ stage' = "enter" /\ script' = EnterProgramming
    /\ UNCHANGED <<bit, step, got, op, issued, exc, signalled, pins, line, age, dev>>

(* The next loaded, read or written address as a caller counts it. *)
PCSeen == IF dev.state = "INC_PC" THEN dev.pc + DeviceRegion.word_size ELSE dev.pc

(* Callers load an address of the map first, read and write inside it, and *)
(* write where a word has a programming delay; bulk_erase returns early    *)
(* when no bit is set.                                                     *)
Asked(c) ==
    CASE c.name = "load"      -> LoadPC(c.arg)
      [] c.name = "increment" -> IncrementAddr
      [] c.name = "read"      -> ReadRaw(c.inc)
      [] c.name = "write"     ->
            WriteWord(c.arg, c.inc, WithRegion(Map, PCSeen).t_PROG_us)
      [] c.name = "erase"     -> BulkErase(c.mask)

MayAsk(c) ==
    /\ c.name \notin {"load", "erase"} => PCSeen # NoPC /\ Mapped(Map, PCSeen)
    /\ c.name = "write" => WithRegion(Map, PCSeen).writable
    /\ c.name = "erase" => EraseBits(c.mask) > 0

Ask(c) ==
    /\ stage = "ready" /\ issued < MaxCommands
    /\ MayAsk(c)
    /\ stage' = "command" /\ script' = Asked(c) /\ op' = c
    /\ issued' = issued + 1
    /\ UNCHANGED <<bit, step, got, exc, signalled, pins, line, age, dev>>

Leave ==
    /\ stage = "ready"
    /\ stage' = "guard" /\ script' = ExitProgramming
    /\ UNCHANGED <<bit, step, got, op, issued, exc, signalled, pins, line, age, dev>>

(* A call that does not throw. *)
MakeCall ==
    /\ \/ /\ \/ ClkRises \/ ClkFalls \/ DataWritten \/ DataMode \/ Delay
             \/ NoEdge \/ \E name \in {"mclr", "prog_en"} : Control(name)
          /\ UNCHANGED got
       \/ DataRead
    /\ Advance
    /\ UNCHANGED <<stage, op, issued, exc, signalled>>

(* An exception leaves the call: the destructors of what was constructed   *)
(* follow, and one out of a destructor ends the process.                   *)
InDestructor ==
    \/ stage \in {"restore", "guard", "header"}
    \/ stage = "command" /\ Head(script) \in {Mode("out"), Pin("clk", 0)}

Unwind(st, calls) == stage' = st /\ script' = calls

(* Mutant: a read that failed is tried again, until it succeeds. *)
RaiseRetry(e) ==
    LET Again == stage = "command" /\ op.name = "read" /\ ~ InDestructor
    IN  /\ exc' = IF Again THEN exc ELSE e
        /\ op' = IF Again THEN op ELSE NoRequest
        /\ bit' = 0 /\ step' = 1 /\ got' = 0
        /\ CASE Again             -> Unwind("command", RestoreData \o ReadRaw(op.inc))
             [] InDestructor      -> Unwind("terminated", <<>>)
             [] stage = "enter"   -> Unwind("header", CleanupGpio)
             [] OTHER             -> Unwind("guard", ExitProgramming)
        /\ UNCHANGED <<issued, pins, line, age, dev>>

Raise(e) ==
    /\ exc' = e
    /\ bit' = 0 /\ step' = 1 /\ got' = 0 /\ op' = NoRequest
    /\ CASE InDestructor                           -> Unwind("terminated", <<>>)
         [] stage = "enter"                        -> Unwind("header", CleanupGpio)
         [] stage = "command" /\ pins.data = "in"  -> Unwind("restore", RestoreData)
         [] OTHER                                  -> Unwind("guard", ExitProgramming)
    /\ UNCHANGED <<issued, pins, line, age, dev>>

DeviceThrows ==
    /\ script # <<>> /\ ~ Accepted
    /\ Raise("error")
    /\ UNCHANGED signalled

Interrupt ==
    /\ script # <<>> /\ ~ signalled /\ exc = "none"
    /\ Raise("interrupted")
    /\ signalled' = TRUE

AfterStage == [enter |-> "ready", command |-> "ready", restore |-> "guard",
               guard |-> "header", header |-> "over"]

EndStage ==
    /\ script = <<>> /\ stage \in DOMAIN AfterStage
    /\ stage' = AfterStage[stage]
    /\ script' = CASE stage' = "guard"  -> ExitProgramming
                   [] stage' = "header" -> CleanupGpio
                   [] OTHER             -> <<>>
    /\ op' = NoRequest /\ got' = 0
    /\ UNCHANGED <<bit, step, issued, exc, signalled, pins, line, age, dev>>

Program == MakeCall \/ DeviceThrows \/ EndStage

Next == Enter \/ (\E c \in Requests : Ask(c)) \/ Leave \/ Program \/ Interrupt

Spec == Init /\ [][Next]_vars /\ WF_vars(Program)

-----------------------------------------------------------------------------
TypeOK ==
    /\ stage \in {"out", "enter", "ready", "command", "restore", "guard",
                  "header", "over", "terminated"}
    /\ bit \in 0 .. 31 /\ step \in 1 .. 5 /\ got \in Nat /\ got < 16777216
    /\ op \in Requests \cup {NoRequest} /\ issued \in 0 .. MaxCommands
    /\ exc \in {"none", "interrupted", "error"} /\ signalled \in BOOLEAN
    /\ pins \in [mclr : {0, 1}, prog_en : {0, 1}, clk : {0, 1}, data : {"in", "out"}]
    /\ line \in {0, 1, NoLevel}
    /\ age \in [rose : 0 .. Cap, fell : 0 .. Cap, changed : 0 .. Cap,
                latched : Never .. Cap]
    /\ dev.cnt \in 0 .. 31 /\ dev.pc \in NoPC .. 4194304
    /\ dev.mem \in [MapAddrs(Map) -> 0 .. 255]

(* The waits between the edges are long enough for every command after     *)
(* every other, for the entry and the exit: no check of the device fires,  *)
(* unless an interrupt took a wait or the end of a command away.           *)
DeviceAccepts == exc = "error" \/ stage = "terminated" => signalled

(* The host and the device drive DATA against each other only from the end *)
(* of a read command until the host has turned DATA around, while CLK is   *)
(* low and no bit of the word has been clocked.                            *)
TurnaroundOnly ==
    exc = "none" /\ HostDrives /\ DeviceDrives => dev.cnt = 24 /\ pins.clk = 0

(* A session that is left, after an interrupt too, leaves the device out   *)
(* of programming and every pin where it was.                              *)
LeftMeansIdle ==
    stage = "over" =>
        /\ dev.state = "IDLE"
        /\ pins = [mclr |-> 1, prog_en |-> 0, clk |-> 0, data |-> "out"]

(* Whatever a scope does ends: no call waits for an answer of the device,  *)
(* and the unwinding of an exception goes through every destructor once.   *)
ScopesEnd ==
    stage \in DOMAIN AfterStage ~> stage \in {"ready", "over", "terminated"}

(* The last clock edge of the command has been. *)
Performed ==
    /\ op # NoRequest
    /\ \A i \in DOMAIN script :
          Clocks(script[i]) => i = 1 /\ step = 5 /\ bit = Bits(script[1]) - 1

InMode == stage \in {"ready", "command"}

(* Every command arrives as it was asked for, takes effect once and at its *)
(* last edge, and the word that is read is the device's; a command cut off *)
(* before its last edge changes nothing.                                   *)
AsCommands ==
    INSTANCE Commands WITH
        mode <- IF InMode THEN "on" ELSE "off",
        cmd <- op,
        performed <- Performed,
        mem <- dev.mem,
        pc <- IF InMode THEN PCSeen ELSE NoPC,
        answer <- IF Performed /\ op.name = "read" THEN ReadCast(got) ELSE 0

ImplementsCommands == AsCommands!Spec
=============================================================================
