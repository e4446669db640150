# Verification of pic18-q20-programmer

`picprogrammer` reads, erases and programs PIC18-Q20 microcontrollers over the
ICSP lines (MCLR, CLK, DATA and an enable pin PROG_EN). This directory holds
TLA+ models of its core, TLC configurations that check them on small instances,
and proofs, checked by TLAPS, that hold for every instance.

## 1. The system

| Part | Source | State | Operations | What makes it correct |
|---|---|---|---|---|
| Region map | `icsp/include/Region.hpp`, `PIC18-Q20.hpp` | none; a compile-time list of regions | `region_in_order`, `with_region` by address and by name | a lookup finds the one region that holds an address, or throws; it compiles for maps in order only |
| ICSPHeader, commands | `icsp/include/ICSP_header.hpp`, `icsp/src/ICSP_header.cpp` | the host's address while it writes | `load_pc`, `increment_addr`, `bulk_erase`, `write_verify`, `read_region`, ... | the host's address and the device's program counter agree; what is verified is in the device |
| ICSPHeader, session | same files | `m_in_program_mode`, the pins | constructor, `enter_programming`, `ExitProg`, destructors | the device and the pins are released however the session ends; no command outside it |
| PICProgrammer | `icsp/include/PICProgrammer.hpp` | the guard | `program_verify`, `read_dci`, `read_device_id`, `read_dia` | nothing stale, nothing outside the mask, CONFIG last, a normal return means programmed |
| Firmware | `icsp/include/FimwareFile.hpp` | blocks of a region, elements of a block | none | |
| Intel HEX parser | `icsp/include/IntelHex.hpp` | the Firmware so far, the pending upper address | one handler per record type | the Firmware is the file, every element starts in its block's region |
| Intel HEX dumper | `icsp/src/IntelHex.cpp` | none but the stream | `dump_start`, `dump_region`, `dump_end` | a dump reads back; a truncated one does not |
| Mock device | `mockgpio/.../MockPIC18Q20.*` | memory, program counter, a state per command, times of the edges | reactions to the edges of the pins | throws at what a device would not accept |
| GPIO libraries | `pigpio`, `libgpiod`, `mockgpio/src/MockGPIO.cpp` | `s_interrupted`, the pins | `set_gpio_mode`, `gpio_write`, `gpio_read`, `delay`, `ensure_running` | an interrupt becomes one exception, which does not get in the way of the clean-up |
| GPIO library handle | `pigpio/PiGPIO.cpp`, `mockgpio/src/MockGPIO.cpp` | `initialized`, `terminated`, a weak reference | `instance`, `terminate`, `atexit_cleanup` | the library outlives every destructor that makes GPIO calls |
| Command line | `src/main.cpp`, `src/prog_utils.*` | none | `emitInfo`, `execDump`, `execWrite`, `execErase` | one session per run, scopes that close it |
| Text dump, device information, pin configuration | `icsp/include/utils.hpp`, `src/prog_utils.*` | none | formatting, decoding | not modelled |

The program is one thread. What interrupts it is a signal: the handler sets
`s_interrupted`, and the next GPIO call throws `IGPIO::Interrupted`, unless an
exception is already in flight. The exception leaves through the destructors,
which make GPIO calls again. The second party is the device: it has its own
program counter, memory and mode, and tells the host nothing except what it
answers to a read. The host and the device meet at GPIO calls only.

    file --HexFile--> Firmware --Programmer--> device memory --HexDump--> file
                                   |
            Session: enter, body, destructors, signals, library, pins
                                   |
             GPIO library  <---Wire: edges, waits--->  device (MockPIC18Q20)

Hard to test, and what the models are for: a signal at any point, also inside a
destructor; an error after the erase; cells that do not program; an odd element
next to another; elements that overlap, straddle a region's end or are not
aligned; blocks that reopen a region; lines longer than their buffer; the upper half of an address that outlives
its record; dumps cut short, damaged or in another order; a command cut off
between two clock edges; two drivers of one DATA line; a GPIO call that fails in
a destructor. `PROJECT.json` lists each at
its line.

## 2. Modules

**Regions** holds the map as a sequence of region records, and the lookups as
operators. A bit mask of regions is a set of names. `WellFormedMap` is what the
proofs assume of a map: regions in order, with a gap after each, unique names,
both ends multiples of the word size. `MCRegionLookup` has TLC evaluate it for
the map of the device family, `pic18fq20`.

**RegionLookup** is the recursion of `detail::with_region`: `Match`, `Descend`
and `OutOfBounds` are its three branches, `idx` its index parameter. It starts from
the maps a lookup compiles for (`Compiles`). `region_in_order` by itself compares
disjoint pairs of regions, but the recursion names `RegionMap<Rs...>` of every tail
of the map, whose static_assert compares the pairs that were skipped.

**Programmer** is `program_verify` with everything it calls, and the device's
memory and program counter. A step is an ICSP command: the device acts on the
last clock edge of a command, so an interrupted command has no effect.

| Action | Code |
|---|---|
| `BulkErase` | `erasable_regions` and `bulk_erase`; without any of the four bits nothing is sent |
| `NextPass`, `Finish` | the four calls of `write_verify_region` in `program_verify` |
| `NextBlock`, `NextElem` | `filter_region` and the two loops |
| `LoadPC`, `RejectAddress` | `region_metadata` and `load_pc` |
| `WriteWord`, `RejectWord` | `write_range` without auto-increment, and the device's `WRITE`; any cell may fail to program |
| `ReadBack` | the read and `std::equal` of `write_with_readback` |
| `IncrementAddr` | `increment_addr` on the device, `addr += word_size` on the host |
| `Interrupt` | `IGPIO::Interrupted` out of any call |

The mock throws when its program counter is in no region; `RejectWord` is that.

**FlashUpdate** is the abstract specification of a firmware update: wipe an
area at once, store bytes into blank cells, complete when the memory is the
image, give up at any time. **ProgrammerUpdate** maps Programmer to it: the
image is made of the elements of the four written regions, the area is the
erase mask, and every pass and word is a `Store` or a stutter.

**Wire** is a session edge by edge. The host's side expands the functions of
ICSPHeader to GPIO calls: the waits, `write_data_sequence` and the loop of
`read_transaction` bit by bit, `write_cast` and `read_cast`. The other side is
MockPIC18Q20: its states, what each does at a rising and a falling edge, and
every comparison of a time it makes. A step is one call, in which the device
reacts; `Accepted` is the device's verdict, one disjunct for each kind of call,
`DeviceThrows` its exception. `Weight` is the table of the powers of two by which
bits are taken out of a word; the provers have no facts about `^`.

| Action | Code |
|---|---|
| `Enter`, `Leave`, `EndStage` | `enter_programming`, `~ExitProg`, `~ICSPHeader`, in the order of the scopes |
| `Ask` | a call of `load_pc`, `increment_addr`, `bulk_erase`, a read or a write; `MayAsk` is what callers keep to |
| `ClkRises`, `ClkFalls` | `gpio_write` on CLK and `clk_rising`, `clk_falling`, `on_data` of the state |
| `DataWritten`, `DataMode`, `DataRead` | the calls on DATA, and `onWrite`, `onModeChange`, `onRead` of `ICSPDatPin` |
| `Control` | MCLR and PROG_EN, and the states' answers |
| `Delay` | `delay`, and the time since every edge |
| `Interrupt`, `DeviceThrows` | an exception out of a call, the `finally` block of a read, the destructors |

Times are whole microseconds, as the host's waits are; the mock's limits of
80 ns and 100 ns ask whether any wait lies between two edges. The model keeps
the time since each edge up to `Cap` = 12001 us: the longest time the device asks
for is the exit hold time after a bulk erase, 12000.1 us.

**Commands** is the abstract specification of the five commands: a request is
performed once and at one moment, or not at all when the session breaks off.
It is the view the callers are written against, Programmer and the reads in
HexDump among them. Wire is mapped to it: a command is performed when its last
clock edge has been, and the answer is the word the bits read so far decode to.
The mock adds a word size to its program counter only with the edge after an
`increment_addr`; the mapping (`PCSeen`) counts it at once, as callers do.

**HexFile** is `parse_hex_file`, one action per record type and its error
paths. A line is a sequence of bytes (count, address, type, payload, checksum)
and `WellFormedLine` what `parse_hex_line` accepts. A byte has `Base` values,
the address field `Base` * `Base`. A `Line` has at most `Base` bytes of payload and
checksum, all that the array of `parse_payload` holds (256): what the code does
with a longer line is undefined. The checksum adds with a recursive function
(`Sums`), which the proofs can expand one byte at a time.

**HexDump** composes the reads, the Dumper and the parser. `BeginRegion`,
`ReadWord` and `PrintRegion` are `dump_sections` with `read_region` and
`read_n_impl`: a region is read word by word, by auto-increment or with
`increment_addr`, and printed when it is complete; the lines a dump prints are
the lines HexFile then reads. In between the dump may be interrupted, or one
byte of the file damaged. Files that are no dump are parsed too (`given`).
`InWindows` is what the Dumper assumes of a map without saying so: it prints at most
one extended address record for a region, so no region may reach from one window
of 64 KiB into the next; `MCHexDump` has TLC evaluate it for `pic18fq20`. A region
of the first window has no record at all, which is right only when it is dumped
first: `FirstWindowFirst` says so of a list of sections, the command line does not
demand it, and `HexDumpOrder` is what happens without it.

**Session** is one run of the process as the sequence of its GPIO calls. A
stage is a C++ scope (`create`, `ctor`, `enter`, `body`, and the destructors:
`argument` for the guard that emitInfo hands over, `finally` for the block of a
read that an exception leaves, `guard` for the guard that is kept, `header` for
`~ICSPHeader`, `igpio` for the last owner of the library);
`Script` gives the calls of each. `Throws` is `ensure_running`; `Raise` unwinds
to the destructors of what was constructed, or terminates the process when the
exception comes out of one (`InDestructor`; on the normal path the calls of a
read's `finally` block are part of the body). The table `Backend` holds how the three GPIO
libraries differ: `delay` checks before it waits (pigpio, mock) or never
(libgpiod); the flag is reset (mock) or stays; the handlers are registered
(pigpio, mock, once the library is up) or not (libgpiod); calls may fail
(pigpio, libgpiod). `guards` are the `ExitProg` objects that still end the
session, `lib` is the library's handle. The device has four modes and the time
MCLR has to stay low; where the mock throws and a device suffers in silence,
the run records a fault. A command is two calls, its first and its last clock
edge; Wire has what lies between.

Operators named as mutants in the modules are not part of the models: each is a
plausible slip in the operator after it, and shows that the property listed
with it in `PROJECT.json` notices.

## 3. Runs

| Run | Instance | Shows |
|---|---|---|
| `RegionLookup` | every map of one to three regions over addresses 0..4 that a lookup compiles for, 5 keys | the lookup is the first match, unambiguous, and ends |
| `Programmer` | five regions with gaps (word- and byte-sized, one read-only), 116 firmwares of up to four blocks, three erase masks, two memories, cells that fail, an interrupt anywhere | the six invariants, the action property and termination below |
| `ProgrammerUpdate` | the same map, the well-formed ones of 90 firmwares | every step of Programmer is a step of FlashUpdate |
| `HexDump` | four regions: one that fills its window, two in one window, one at a window's end. Every file of up to two lines with four endings, of three lines, and of two blocks; dumps of four section lists from 8 memories, whole, interrupted after any word, or with any one byte changed | what the parser makes of these files; a dump reads back, into blocks of their own regions; a truncated or a damaged one is rejected |
| `HexBounds` | the files of `HexDump` | *violated*: a line over its region's end is accepted |
| `HexDumpOrder` | CONFIG, then PROGRAM | *violated*: the dump cannot be read back |
| `Wire` | five regions at the family's own addresses, 10 requests, three commands a session, an interrupt before any call | every edge in time, the session clean at its end, Commands implemented |
| `Session` | three libraries, `info`, `dump`, `write`, up to two signals and one call that fails | what the destructors guarantee |
| `SessionErase` | `-e` alone | *violated*: the command is sent out of programming mode |
| `SessionSignal` | pigpio, one signal | *violated*: a signal before the `finally` block of a read terminates the process out of it, DATA an input and the device in programming mode |
| `SessionUncaught` | libgpiod, one signal | *violated*: the handlers are never registered; a signal leaves the device in programming mode (`IdleAfterSignal`) |

Properties. *Programmer*: `VerifiedStaysVerified` (every element that is
through, and the front of the one in work, is in the device at every moment;
the pad byte of an odd element never lands on a verified one),
`DoneMeansProgrammed`, `NoStaleByte` (after the erase, no byte of the old
firmware in an erased region, whenever it stops), `ConfigLast`,
`HostAndDeviceAgree`, `OnlyMaskedRegionsChange`, `ProgrammingEnds`.
*HexFile*: `FirmwareHoldsFile` (the parsed bytes are those the format's own rule
gives, although the parser forgets the upper address with the first line),
`ElementsSeparated`, `ElementsInRegion`. *HexDump*: `ReadInStep` (host and device
stay together over a region, whichever of them counts), `DumpReadsBack` (the memory of
the sections and nothing else, every byte in a block of its own region),
`TruncatedDumpRejected`, `DamagedDumpRejected`, `ParsingEnds`. *Wire*:
`DeviceAccepts` (no check of the device fires unless an interrupt took a wait or
the end of a command away), `TurnaroundOnly` (both sides drive DATA only until
the host has turned it around, before the first bit), `LeftMeansIdle`,
`ImplementsCommands`, `ScopesEnd`. *Session*: `ReturnReleases`,
`LibraryEndsLast` (no pin is touched without the library, which is gone when main
returns), `CommandsReachDevice`, `EarlyOnlyByInterrupt`, `CleanupCompletes`,
`SessionEnds`.

Two of Programmer's need the firmware to fit: `WellFormed` says that every byte of an
element lies in its block's region and no address has two bytes. The parser
promises the start of each element only (`ElementsInRegion`, which is
`FirmwareAssumption` of Programmer) and no overlap inside a block
(`ElementsSeparated`); `HexBounds` shows the difference. The instances of
Programmer include firmwares that are not well formed, and the properties that
do not need it are checked for them too.

*Bounds.* Programmer's control depends on whether an element is aligned, odd,
empty, over its region's end, or next to another: regions of two words, and
elements of up to three bytes, have them all; a second and third word would
repeat the loop. Passes interact through the order of the blocks only, so two
blocks in either order, and some files of four, are enough. In HexFile the
pending upper address lives for one line and a block for as many as follow it:
two blocks of a line each and three lines in one show every pair of neighbours.
`Base` = 6 keeps all three record types (0, 1, 4) and the byte counts of the
lines (at most 5, `LineBytes`) inside a byte, and leaves a wrong value for each;
a dumped region takes several lines, the last one shorter. In Wire what a
command meets is the state the one before it left: three commands are a load, a
command at the address, and the one that finds the counter it left or waits out
its delay. The second signal of Session is the first that can arrive while the
exception of another is in flight, and the failing call may be that of a
destructor, with or without a signal before it.

*Fairness.* The program is sequential: it always takes its next step, so
`WF_vars(Program)`, `WF_vars(Step)` and `WF_vars(Next)` are what running it
means. In Wire that covers the calls and the ends of scopes, not which command
a caller asks for next. Interrupts, signals, failing calls and damaged bytes
have no fairness: nothing depends on one coming. `CleanupCompletes` is stated
for executions whose failing calls are behind them and for real libraries: an
error in a destructor terminates the process, and the mock device throws there.
A behaviour ends with the process, hence `CHECK_DEADLOCK FALSE`.

The violated properties each state what a line of the repository says, quoted in
`PROJECT.json` under `findings`. With the mock library a signal resets the flag
when it is thrown, which is why `test_ICSP.cpp` does not see `SessionSignal`.

## 4. Proofs

**RegionFacts** has the lemmas about the operators of Regions: a first match is
unique, `WithRegion` returns a region that holds the address, in a well-formed
map the only one, and the address at the end of a region is in none.

**RegionLookupProofs** proves of every map and key: `LookupTyped` (`TypeOK`),
`LookupCorrect` (`LookupIsFirstMatch`) and `UnambiguousHolds`
(`LookupIsUnambiguous`). The inductive invariant adds that no region before `idx`
holds the key. A map that compiles is in order (`CompiledOrdered`): each tail puts
its first two regions in order (`AdjacentInOrder`), and no region ends before it
starts.

**ProgrammerProofs** proves, for every map that is well formed and holds the
four written regions, every byte type, set of firmwares, masks and memories:

| Theorem | Property | Invariant that carries it |
|---|---|---|
| `TypeCorrect` | `TypeOK` | itself, with the cursor inside the firmware while an element is in work |
| `AgreementHolds` | `HostAndDeviceAgree` | `CursorInv`: the element in work is addressable, `off` counts whole words of its region, `pc = base_addr + off` |
| `VerificationHolds` | `VerifiedStaysVerified` | `VInv`: processed elements are addressable and held, the front of the current one is held |
| `ReturnMeansProgrammed` | `DoneMeansProgrammed` | `VInv` and the order of the passes |
| `NoStaleByteHolds` | `NoStaleByte` | `StaleInv` |
| `ConfigLastHolds` | `ConfigLast` | `ConfigInv`: before the last pass CONFIG is as the erase left it |
| `OnlyMaskedRegionsChangeHolds` | `OnlyMaskedRegionsChange` | the type invariant: a block that is written names a region of the mask, and a word lies in one region |

None of the properties is inductive by itself: that a word written does not
disturb a verified byte needs the program counter tied to the element and its
alignment, and lemma `WordIsFree`: a word starts on a multiple of the word size,
a verified element too, so a pad byte could only land on an element that starts
at an odd address, and such an element is never accepted.

**ProgrammerUpdateProofs** proves `UpdateImplemented`: from a well-formed firmware
every behaviour of Programmer implements FlashUpdate (`ImplementsUpdate`). The
abstract `Store` demands that the cells it stores to are blank, which no invariant
above gives. `UpdateInv` adds `BlankInv`: between the erase and the end, the bytes
of an element that has not been processed are as the erase left them. It is
inductive because elements are disjoint and a word written for one of them does
not reach into another, `WordIsFree` again. The proof has one lemma for each kind
of step: the erase is `Wipe`, `WriteWord` is `Store`, `Finish` is `Complete`, the
error paths and the interrupt give up, the rest stutters.

**HexFileProofs** proves, for every map with unique names, every `Base` above 4
and every file of such lines, malformed ones included:

| Theorem | Property | Invariant that carries it |
|---|---|---|
| `ParserTyped` | `TypeOK` | `LayoutInv` |
| `SeparatedHolds` | `ElementsSeparated` | `LayoutInv`: every block is good, its elements in order with a gap between them, each starting in the block's region |
| `InRegionHolds` | `ElementsInRegion` | `LayoutInv` |
| `HoldsFile` | `FirmwareHoldsFile` | `HoldsInv`: the bytes of the Firmware are those the lines read so far stand for, and `WindowInForce`, the window the parser can still tell (from the pending record, else from the open block), is the one of the last extended record |

`FirmwareHoldsFile` is not inductive, because the parser forgets `base_addr` with
the first line that uses it: `HoldsInv` says where the window is kept after that.
`InRegionHolds` makes `FirmwareAssumption` of Programmer a consequence of the parser.

**HexDumpProofs** proves of dumps, for every list of sections, memory and line
length: `DumpIsParsed` (`FirmwareHoldsFile` of what a dump is parsed to),
`ReadInStepHolds` (`ReadInStep`), `TruncatedRejected` (`TruncatedDumpRejected`),
`DamagedRejected` (`DamagedDumpRejected`) and, for lists of sections with
`FirstWindowFirst`, `ReadsBack` (`DumpReadsBack`; that no byte is outside its
block's region is not so of other files, as `HexBounds` shows). `DumpInv` joins the two invariants of the parser with
`LinesInv` (no line but the last of a complete dump ends a file, the checksum of
every line is right but for the one byte damaged, and the parser never gets past
the damaged line) and `ReadingInv` (address, program counter and the bytes read so far
belong together). That a damaged byte changes the sum of its line is arithmetic
modulo `Base`; that an end of file is missing is a fact about which lines the Dumper
prints.

`ReadsBack` goes through the bytes of the file. `HoldsFile` says that the Firmware is
what the lines stand for under the format's own rule, so two things remain.
`PrintedInv`: while the dump is printed, what its lines stand for is the memory of the
sections printed so far, every line begins and ends inside one region of the map,
and the last extended record before a line is the one of its region (`Agree`,
`LastExtendedRules`); `RegionBytes` adds a region: the lines it is cut into cover it
(`ChunksCover`), none begins after its end, and each lands at its place
(`ChunkLands`). `ReaderInv`: the parser is never at an error, it ends with the last
line, and after a data line its last element ends where that line ends, so that the
next line of the region goes on there (`GoesOnAt`) and a line after an extended
record finds the region it is meant for.

**SessionProofs** proves, for all three libraries, any number of signals and of
failing calls:

| Theorem | Property |
|---|---|
| `SessionTyped` | `TypeOK` |
| `ReturnReleasesHolds` | `ReturnReleases` |
| `LibraryHolds` | `LibraryEndsLast` |
| `CommandsReach` | `CommandsReachDevice`, for every operation but erase, where `SessionErase` violates it; `CommandsReachGuarded` is the same of a program without erase |
| `EarlyHolds` | `EarlyOnlyByInterrupt` |

`SessionInv` says of each scope, by the number of calls that are left in it, what
mode the device is in, how the pins are, how long the device still has to wait and
who owns the library: `CallsInv` (the calls left are an end of the scope's
script), `ModeInv`, `PinInv`, `LibInv` and `FaultInv`. The bounds on the time hold as long as the run is
`Quiet`, that is, no signal has cut a wait short.

**WireProofs** proves, for every map, memory and set of requests that satisfies
`WireAssumption`, and sessions of any length:

| Theorem | Property | Invariant that carries it |
|---|---|---|
| `LeftHolds` | `LeftMeansIdle` | `WireInv`: the calls left are an end of the stage's script (`ScriptInv`), what the device's state says of its counters (`DevInv`), of the levels (`PinInv`) and of the drivers of DATA (`LineInv`), and what the destructor of ICSPHeader has put back so far (`HeaderInv`) |
| `AcceptsHolds` | `DeviceAccepts` | `SyncInv` |
| `TurnaroundHolds` | `TurnaroundOnly` | `SyncInv` |
| `TypeHolds` | `TypeOK` | `BoundInv`: the ages of the edges stay below the cap, the program counter below the end of the last region |
| `CommandsImplemented` | `ImplementsCommands` | all of them, `AllInv` |

`SyncInv` is the heart of it: as long as no exception is in flight the host and the
device are in `Lockstep`. There is one condition for each stage (`OutLock`,
`EnterLock`, `ReadyLock`, `CommandLock`, `GuardLock`, `HeaderLock`); in a command
it is kept bit by bit. While the host sends bit k of a code or an argument, the
device is in the state that takes it and has shifted in the first k bits
(`Sending`); while it reads, the bits it has are the first of the device's word
(`Reading`); and every edge is long enough ago for the next one. That is why no
check of the device can fire. `Prefix`
and `Whole` say what the first bits of a message are worth: at the last bit the
device holds the value the host meant. `PrefixStep` is the arithmetic of one bit.

`Works` is one call of a command seen from outside: either nothing moves, or the
command is performed, with its `Effect` on the memory and the program counter and,
for a read, the answer (`Answered`). `CommandsImplemented` follows: `Ask` is
`Issue`, the call with the last edge is the one of the five `Perform` actions the
request names, the end of the script is `Return`, an interrupt `Leave`. `SameRegions`
and its like identify the operators that both modules take from Regions. The
implementation holds for callers that load addresses of words the map has, write
words of 16 bits and erase at least one of the four regions, which is what `WireAssumption` and
`MayAsk` say.

*Induction.* The prover has no induction over data. Where a claim about all
numbers is needed (some region is the first that holds an address; the sums that
`Sums` defines by recursion) lemma `LeastNat` of RegionFacts stands in for it: a
set of naturals has a least element, so a claim that fails has a least
counterexample, and the step from the one below refutes it.

*Assumptions.* `LookupAssumption` of RegionLookup (maps that are not empty, no
region ending before it starts), `MapAssumption`, `DataAssumption` and `FirmwareAssumption` of
Programmer, `HexAssumption` of HexFile, `DumpAssumption`, `DumpMapAssumption`
(regions in order and of whole words) and `DumpWindowAssumption` (`InWindows`) of HexDump, `SessionAssumption`,
`WireAssumption`. TLC evaluates them in the runs, and `MapAssumption` for the map of the device
family.

*Model-checked only.* All liveness (`LookupEnds`,
`ProgrammingEnds`, `ParsingEnds`, `ScopesEnd`, `CleanupCompletes`, `SessionEnds`): the
prover reasons neither about fairness nor about ENABLED. And the violated properties,
which have no proof.

## 5. Not modelled

- The decoding of device information (DCI, DIA, device id) and the text dump:
  layouts of fixed offsets and of text, without state.
- Option parsing and the choice of pins; without the optional PROG_EN pin the
  session makes the same calls but one.
- The unverified `write` and the public `read_n` of ICSPHeader: only tests call
  them. `read_n_impl`, under both, is in HexDump.
- The hexadecimal characters of a line: lines are bytes. A line that lost bytes
  whose sum is 0 still passes the parser; no document says it should not.
- Lines with more than 256 bytes of payload and checksum: they overrun the array of
  `parse_payload`, and the outcome is undefined.
- A second library handle in one process (tests only), and `atexit_cleanup`,
  which finds the handle gone whenever main returned.
- The request objects of libgpiod and the texts of the error codes: a failing
  call is one exception.
- Lifetimes inside the objects of the mock library.
- What a device does between two edges it does not accept: where the mock
  throws, Wire takes the exception and Session a silent fault.

## 6. Plan

Done, in this order: Regions, RegionLookup, Programmer and its proofs, Session,
HexFile, HexDump, FlashUpdate with its refinement; then Commands and Wire, the
reads and checksums in HexDump and HexFile, the library handle, the guards and
the failing calls in Session; then the proofs of section 4. What is left are proofs:

1. The type facts of Commands, and that each command keeps the program counter
   inside the map or at the end of a region, on the abstract side.
2. Safety of FlashUpdate itself: what its steps give that `UpdateImplemented` then
   carries over to Programmer.
