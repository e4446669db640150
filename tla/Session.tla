------------------------------ MODULE Session ------------------------------
(***************************************************************************)
(* One run of the picprogrammer process: main dispatches to emitInfo,      *)
(* execDump, execWrite or execErase, whose C++ scopes open and close the   *)
(* programming session on the four ICSP pins, while SIGINT and SIGTERM may *)
(* arrive between any two GPIO calls.                                      *)
(*                                                                         *)
(* A stage is a C++ scope: IGPIO::Create, the constructor of ICSPHeader,   *)
(* the call of enter_programming, the body under the ExitProg guard, and   *)
(* the destructors, ~ExitProg, ~ICSPHeader and that of its member igpio,   *)
(* the last owner of the GPIO library's handle.  Leaving the body,         *)
(* normally or by an exception, runs the destructors of what was           *)
(* constructed; they are noexcept: an exception out of one is              *)
(* std::terminate.  The finally block of a read is one of them: on the     *)
(* normal path its calls are part of the body, on the way out of an        *)
(* exception they are a stage of their own.                                *)
(*                                                                         *)
(* The device is seen from its pins: out of programming ("run"), reset and *)
(* waiting for the key ("entry"), programming ("prog"), or in the middle   *)
(* of a command ("command").  Times are in microseconds, rounded up.       *)
(***************************************************************************)
EXTENDS Integers, Sequences

CONSTANTS Backends,   \* the GPIO libraries the program may be linked with
          Ops,        \* the operations main may dispatch to
          MaxSignals, \* bound: how many signals the process receives
          MaxFailures \* bound: how many GPIO calls fail

(***************************************************************************)
(* What the three IGPIO implementations do about signals: whether delay    *)
(* checks for an interrupt before it waits, whether ensure_running resets  *)
(* the flag when it throws, and whether the handlers are registered at all *)
(* (in libGPIO.cpp nothing refers to catch_signals).  A call of a real     *)
(* library may fail, and is then an exception too; the mock device throws  *)
(* where a real one suffers in silence.                                    *)
(***************************************************************************)
Backend ==
  [mock     |-> [delay_checks |-> TRUE,  resets |-> TRUE,  handlers |-> TRUE,
                 fails |-> FALSE, strict |-> TRUE],
   pigpio   |-> [delay_checks |-> TRUE,  resets |-> FALSE, handlers |-> TRUE,
                 fails |-> TRUE,  strict |-> FALSE],
   libgpiod |-> [delay_checks |-> FALSE, resets |-> FALSE, handlers |-> FALSE,
                 fails |-> TRUE,  strict |-> FALSE]]

ASSUME SessionAssumption ==
    /\ Backends \subseteq DOMAIN Backend
    /\ Ops \subseteq {"info", "dump", "write", "erase"}
    /\ MaxSignals \in Nat /\ MaxFailures \in Nat

VARIABLES backend, op,
          stage,        \* the C++ scope that runs
          calls,        \* what is left to call in it
          exc,          \* the exception in flight: "none", "interrupted", "error"
          interrupted,  \* s_interrupted
          lib,          \* the GPIO library: "absent", "up" or "down" again
          guards,       \* the ExitProg objects whose m_icsp is not null
          in_program_mode,  \* ICSPHeader::m_in_program_mode
          pins,         \* the levels of MCLR and PROG_EN, the direction of DATA
          dev,          \* device: where it is
          due,          \* device: how long MCLR has yet to stay low
          faults,       \* device: "lost" a command, left too "early"
          proc,         \* the process: running, or how it ended
          signals,      \* how many signals arrived
          failures      \* how many calls failed

scope == <<stage, calls, exc>>       \* what Raise changes, with proc
host == <<backend, op, lib, guards, in_program_mode>>
device == <<dev, due, faults>>

vars == <<scope, host, device, interrupted, pins, proc, signals, failures>>

-----------------------------------------------------------------------------
(* The GPIO calls, and with them the plain statements, of each scope.      *)
Pin(p, v) == [do |-> p, arg |-> v]
Delay(us) == [do |-> "delay", arg |-> us]
Do(what)  == [do |-> what, arg |-> 0]

(* cleanup_gpio *)
CleanupGpio == <<Pin("mclr", 1), Do("clk"), Do("data"), Pin("prog_en", 0)>>

(* enter_programming, the key sequence split at its last clock edge *)
EnterProgramming ==
    CleanupGpio \o
    <<Pin("prog_en", 1), Delay(1000), Pin("mclr", 0), Delay(2200),
      Do("key_begin"), Do("key_end"), Delay(2200), Do("entered")>>

(* Mutant: no wait before MCLR rises. *)
ExitAtOnce == <<Pin("mclr", 1), Pin("prog_en", 0), Do("exited")>>

(* exit_programming of a session that is in programming mode *)
ExitProgramming ==
    <<Delay(1102), Pin("mclr", 1), Pin("prog_en", 0), Do("exited")>>

(* A command from its first clock edge to its last; after that edge the    *)
(* device is busy for as long as the command's argument says.              *)
Command(busy) == <<Do("begin"), [do |-> "commit", arg |-> busy]>>

(* write_transaction and the wait of write_range, increment_addr, load_pc  *)
LoadPC == Command(1) \o <<Delay(4)>>
IncrementAddr == Command(1) \o <<Delay(4)>>
Write(prog_us) == Command(prog_us) \o <<Delay(prog_us)>>

(* read_transaction: DATA is an input until the finally block has run *)
RestoreData == <<Do("data"), Do("clk")>>

ReadRaw == <<Do("begin"), Do("listen"), Delay(4), [do |-> "commit", arg |-> 1]>>
             \o RestoreData \o <<Delay(4)>>

BulkErase == Command(11000) \o <<Delay(11000)>>

(* "check" stands for what the body verifies and may throw an error for:   *)
(* a section name, the -f argument, a word read back.                      *)
WriteVerify(prog_us) ==
    LoadPC \o Write(prog_us) \o ReadRaw \o <<Do("check")>> \o IncrementAddr

Body == [info  |-> LoadPC \o ReadRaw,
         dump  |-> <<Do("check")>> \o LoadPC \o ReadRaw,
         write |-> <<Do("check")>> \o BulkErase \o WriteVerify(75)
                       \o WriteVerify(11000),
         erase |-> BulkErase]

LeaveIf(holds, mode) == IF holds /\ mode THEN ExitProgramming ELSE <<>>

(* What a scope is going to call, under the guards held and in a session   *)
(* that is in mode or not.  ~ExitProg and ~ICSPHeader leave the mode, the  *)
(* first unless it was moved from.                                         *)
Script(st, held, mode) ==
    CASE st = "create"   -> <<Do("init"), Do("register")>>
      [] st = "ctor"     -> CleanupGpio
      [] st = "enter"    -> EnterProgramming
      [] st = "argument" -> LeaveIf("adopt" \in held, mode)
      [] st = "body"     -> Body[op]
      [] st = "finally"  -> RestoreData
      [] st = "guard"    -> LeaveIf("prog_guard" \in held, mode)
      [] st = "header"   -> LeaveIf(TRUE, mode) \o CleanupGpio
      [] st = "igpio"    -> <<Do("terminate")>>
      [] st = "over"     -> <<>>

(* execErase never calls enter_programming, so it has no guard either.     *)
(* emitInfo hands the guard to the programmer as an argument, which is     *)
(* destroyed before the body goes on.                                      *)
Guarded == op # "erase"

(* The first destructor behind the body. *)
Closing == IF Guarded THEN "guard" ELSE "header"

(* Mutant: IGPIO is owned by a local of the guard's scope. *)
AfterStageIgpioFirst ==
    [create   |-> "ctor",
     ctor     |-> IF Guarded THEN "enter" ELSE "body",
     enter    |-> IF op = "info" THEN "argument" ELSE "body",
     argument |-> "body",
     body     |-> Closing,
     finally  |-> Closing,
     guard    |-> "igpio",
     igpio    |-> "header",
     header   |-> "over"]

AfterStage ==
    [create   |-> "ctor",
     ctor     |-> IF Guarded THEN "enter" ELSE "body",
     enter    |-> IF op = "info" THEN "argument" ELSE "body",
     argument |-> "body",
     body     |-> Closing,
     finally  |-> Closing,
     guard    |-> "header",
     header   |-> "igpio",
     igpio    |-> "over"]

(* Mutant: a guard moved from keeps its m_icsp. *)
MovedKeeps == {"adopt", "prog_guard"}

(* The guards after the programmer took one over from its argument. *)
Moved == {"prog_guard"}

(* Mutants of Unwound: the header is not there yet while the mode is being *)
(* entered; the operation is tried again after an exception.               *)
UnwoundNoHeader == [create |-> "over", ctor |-> "igpio", enter |-> "igpio",
                    body |-> IF pins.data = "in" THEN "finally" ELSE Closing]

UnwoundRetry == [create |-> "over", ctor |-> "igpio", enter |-> "header",
                 body |-> "body"]

(* The destructors that an exception out of a scope runs next: DATA is an  *)
(* input while the finally block of a read is pending.                     *)
Unwound == [create |-> "over", ctor |-> "igpio", enter |-> "header",
            body |-> IF pins.data = "in" THEN "finally" ELSE Closing]

Destructors == {"argument", "finally", "guard", "header", "igpio"}

-----------------------------------------------------------------------------
Init == /\ backend \in Backends
        /\ op \in Ops
        /\ stage = "create"
        /\ calls = Script("create", {}, FALSE)
        /\ exc = "none"
        /\ interrupted = FALSE
        /\ lib = "absent" /\ guards = {}
        /\ in_program_mode = FALSE
        /\ pins = [mclr |-> 1, prog_en |-> 0, data |-> "out"]
        /\ dev = "run" /\ due = 0 /\ faults = {}
        /\ proc = "running"
        /\ signals = 0 /\ failures = 0

Is == Backend[backend]

(* instance registers the handlers when the library is up. *)
Registered == Is.handlers /\ (stage = "create" => calls = <<>>)

(* catch_signals, or the default action where it is not registered (yet). *)
Signal ==
    /\ proc = "running"
    /\ signals < MaxSignals
    /\ signals' = signals + 1
    /\ IF Registered
       THEN interrupted' = TRUE /\ UNCHANGED proc
       ELSE proc' = "killed" /\ UNCHANGED interrupted
    /\ UNCHANGED <<scope, host, device, pins, failures>>

Calling(what) == proc = "running" /\ calls # <<>> /\ Head(calls).do = what

AtCall == proc = "running" /\ calls # <<>>

(* What does not ask ensure_running; the handle is created when nothing    *)
(* can have interrupted yet.                                               *)
Statement == {"init", "register", "entered", "exited", "check", "terminate"}

(* Mutant: ensure_running does not ask for uncaught_exceptions. *)
ThrowsAlways ==
    /\ AtCall
    /\ interrupted
    /\ Head(calls).do \notin Statement
    /\ Head(calls).do = "delay" => Is.delay_checks

(* ensure_running: it does not throw while an exception is in flight. *)
Throws ==
    /\ AtCall
    /\ interrupted /\ exc = "none"
    /\ Head(calls).do \notin Statement
    /\ Head(calls).do = "delay" => Is.delay_checks

(* The body of a read calls the finally block as well. *)
InDestructor == \/ stage \in Destructors
                \/ stage = "body" /\ Head(calls).do \in {"data", "clk"}

(* An exception leaves a call: the destructors run, unless the call was    *)
(* made by one.                                                            *)
Raise(e) ==
    /\ UNCHANGED pins
    /\ IF InDestructor
       THEN /\ proc' = "terminated"
            /\ UNCHANGED scope
       ELSE /\ exc' = e
            /\ stage' = Unwound[stage]
            /\ calls' = Script(stage', guards, in_program_mode)
            /\ UNCHANGED proc

Interrupt ==
    /\ Throws
    /\ Raise("interrupted")
    /\ interrupted' = ~ Is.resets
    /\ UNCHANGED <<host, device, signals, failures>>

(* Something the body checks is not as it should be, a runtime_error; or   *)
(* the library cannot be initialized.                                      *)
CheckFails ==
    /\ Calling("check") \/ Calling("init")
    /\ Raise("error")
    /\ UNCHANGED <<host, device, interrupted, signals, failures>>

(* The library reports an error of a call, at the first edge of the call   *)
(* or, where that is a call of its own, at a later one.                    *)
CallFails ==
    /\ AtCall /\ ~ Throws /\ Is.fails
    /\ failures < MaxFailures
    /\ Head(calls).do \notin Statement \cup {"delay"}
    /\ Raise("error")
    /\ failures' = failures + 1
    /\ UNCHANGED <<host, device, interrupted, signals>>

-----------------------------------------------------------------------------
(* What the device makes of a call: where it goes, how long MCLR must then *)
(* stay low, and whether the mock throws at it.                            *)
DevNext(c) ==
    CASE c.do = "mclr" /\ c.arg = 0 /\ pins.mclr = 1 /\ pins.prog_en = 1 -> "entry"
      [] c.do = "mclr" /\ c.arg = 1 /\ pins.mclr = 0   -> "run"
      [] c.do = "key_end" /\ dev = "entry"             -> "prog"
      [] c.do = "begin" /\ dev = "prog"                -> "command"
      [] c.do = "commit" /\ dev = "command"            -> "prog"
      [] OTHER                                         -> dev

(* MCLR may rise T_ENTH + T_CKL after the device is ready again: 1001 us   *)
(* past the entry's or the command's own time.                             *)
DueNext(c) ==
    CASE c.do = "key_end" /\ dev = "entry"  -> 1001 + 1000
      [] c.do = "commit" /\ dev = "command" -> c.arg + 1001
      [] c.do = "delay"                     -> IF due > c.arg THEN due - c.arg ELSE 0
      [] c.do = "mclr" /\ c.arg = 1         -> 0
      [] OTHER                              -> due

RisesEarly(c) == c.do = "mclr" /\ c.arg = 1 /\ dev = "prog" /\ due > 0
RisesInside(c) == c.do = "mclr" /\ c.arg = 1 /\ dev = "command"
NotListening(c) == c.do \in {"begin", "commit"} /\ dev \in {"run", "entry"}

MockThrows(c) == Is.strict /\ (RisesEarly(c) \/ RisesInside(c) \/ NotListening(c))

PinsNext(c) ==
    CASE c.do \in {"mclr", "prog_en"}    -> [pins EXCEPT ![c.do] = c.arg]
      [] c.do = "listen"                 -> [pins EXCEPT !.data = "in"]
      [] c.do = "data"                   -> [pins EXCEPT !.data = "out"]
      [] OTHER                           -> pins

(* "Programming exit hold time error", "Invalid state transition" *)
DeviceThrows ==
    /\ AtCall /\ ~ Throws
    /\ MockThrows(Head(calls))
    /\ Raise("error")
    /\ UNCHANGED <<host, device, interrupted, signals, failures>>

LibNext(c) == CASE c.do = "init"      -> "up"
                [] c.do = "terminate" -> "down"
                [] OTHER              -> lib

Call ==
    /\ AtCall /\ ~ Throws
    /\ LET c == Head(calls)
       IN  /\ ~ MockThrows(c)
           /\ pins' = PinsNext(c)
           /\ dev' = DevNext(c)
           /\ due' = DueNext(c)
           /\ faults' = faults \cup (IF RisesEarly(c) THEN {"early"} ELSE {})
                               \cup (IF NotListening(c) THEN {"lost"} ELSE {})
           /\ lib' = LibNext(c)
           /\ in_program_mode' = CASE c.do = "entered" -> TRUE
                                   [] c.do = "exited"  -> FALSE
                                   [] OTHER            -> in_program_mode
    /\ calls' = Tail(calls)
    /\ UNCHANGED <<backend, op, stage, exc, guards, interrupted, proc, signals,
                   failures>>

(* The scope is left normally. *)
EndStage ==
    /\ proc = "running"
    /\ calls = <<>>
    /\ stage # "over"
    /\ stage' = AfterStage[stage]
    /\ guards' = CASE stage = "enter" /\ op = "info" -> Moved
                   [] stage = "enter"                  -> {"prog_guard"}
                   [] stage = "guard"                  -> {}
                   [] OTHER                            -> guards
    /\ calls' = Script(stage', guards', in_program_mode)
    /\ UNCHANGED <<backend, op, exc, lib, in_program_mode, device, interrupted,
                   pins, proc, signals, failures>>

(* main returns 0, also after Interrupted; any other exception is -1. *)
Return ==
    /\ proc = "running"
    /\ stage = "over"
    /\ proc' = IF exc = "error" THEN "failed" ELSE "returned"
    /\ UNCHANGED <<scope, host, device, interrupted, pins, signals, failures>>

Step == Interrupt \/ CheckFails \/ CallFails \/ DeviceThrows \/ Call \/ EndStage \/ Return

Next == Step \/ Signal

Spec == Init /\ [][Next]_vars /\ WF_vars(Step)

-----------------------------------------------------------------------------
(* After a bulk erase. *)
MaxDue == 11000 + 1001

(* At most one ExitProg is live: the first one destroyed ends the session  *)
(* for all of them.                                                        *)
TypeOK ==
    /\ backend \in Backends /\ op \in Ops
    /\ stage \in {"create", "ctor", "enter", "body", "over"} \cup Destructors
    /\ lib \in {"absent", "up", "down"} /\ guards \in {{}, {"adopt"}, {"prog_guard"}}
    /\ exc \in {"none", "interrupted", "error"}
    /\ interrupted \in BOOLEAN /\ in_program_mode \in BOOLEAN
    /\ pins \in [mclr : {0, 1}, prog_en : {0, 1}, data : {"in", "out"}]
    /\ dev \in {"run", "entry", "prog", "command"}
    /\ due \in 0 .. MaxDue
    /\ faults \subseteq {"lost", "early"}
    /\ proc \in {"running", "returned", "failed", "terminated", "killed"}
    /\ signals \in 0 .. MaxSignals /\ failures \in 0 .. MaxFailures

Released == pins = [mclr |-> 1, prog_en |-> 0, data |-> "out"] /\ dev = "run"

(* Whatever was thrown wherever, a process that gets as far as returning   *)
(* from main leaves the device running and the pins as they were.          *)
ReturnReleases == proc \in {"returned", "failed"} => Released

(* The library is given up by the last scope of a session and by no other, *)
(* whatever was thrown: no destructor touches a pin without it, and main   *)
(* does not return before its only owner has gone.                         *)
LibraryEndsLast ==
    /\ AtCall /\ Head(calls).do \notin Statement => lib = "up"
    /\ proc \in {"returned", "failed"} => lib # "up"

(* No command is sent to a device that is not in programming mode: the     *)
(* mode flag, the guards and the device agree at every clock edge.         *)
CommandsReachDevice == "lost" \notin faults

(* MCLR rises before the device's exit hold time has passed only if a      *)
(* signal cut short a wait that throws instead of waiting.  Without one,   *)
(* the waits of every command and of exit_programming add up to enough.    *)
EarlyOnlyByInterrupt ==
    "early" \in faults => signals > 0 /\ Is.delay_checks

(* An exception once thrown brings the process to a return from main: no   *)
(* later signal gets in the way of the clean-up, unless a call fails in a  *)
(* destructor.                                                             *)
CleanupCompletes ==
    proc = "running" /\ exc # "none" /\ failures = MaxFailures /\ ~ Is.strict
        ~> proc \in {"returned", "failed", "killed"}

(* The process ends. *)
SessionEnds == <>(proc # "running")

(* test_ICSP.cpp:28 "Cleanup in case of SIGINT/SIGTERM": after the signal  *)
(* the device is out of programming and PROG_EN is low again.              *)
CleanupAfterSignal == proc # "running" /\ signals > 0 => Released

(* test_ICSP.cpp:28 and :43, "REQUIRE(in_state<IDLE>(pobj.pic->state()))"  *)
(* after SIGTERM: the device is not left in programming mode.              *)
IdleAfterSignal ==
    proc # "running" /\ signals > 0 => dev \notin {"prog", "command"}
=============================================================================
