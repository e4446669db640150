----------------------------- MODULE WireProofs -----------------------------
(***************************************************************************)
(* A session on the wire for every map, memory and set of requests, any    *)
(* number of commands, and an interrupt at any call.                       *)
(***************************************************************************)
EXTENDS Wire, RegionFacts, SequenceTheorems

-----------------------------------------------------------------------------
(* What the host may call. *)
Bytes == {b \in Seq(0 .. 255) : Len(b) \in {1, 3, 4}}

HostCall ==
    [do : {"mclr", "prog_en", "clk"}, level : {0, 1}]
    \cup [do : {"mode"}, mode : {"in", "out"}]
    \cup [do : {"delay"}, us : Nat]
    \cup [do : {"send"}, bytes : Bytes]
    \cup [do : {"receive"}]

Left == Len(script)

(* The calls that are left are the end of the scope's. *)
EndOf(s, whole) ==
    /\ Len(s) <= Len(whole)
    /\ \A i \in 1 .. Len(s) : s[i] = whole[Len(whole) - Len(s) + i]

(* A command with an argument: its code, the argument, and the time the    *)
(* device is given.                                                        *)
HasArgument(c) == c.name \in {"load", "write", "erase"}

Code(c) ==
    CASE c.name = "load"      -> 128
      [] c.name = "increment" -> 248
      [] c.name = "read"      -> IF c.inc THEN 254 ELSE 252
      [] c.name = "write"     -> IF c.inc THEN 224 ELSE 192
      [] c.name = "erase"     -> 24

Argument(c) == IF c.name = "erase" THEN EraseBits(c.mask) ELSE c.arg

ArgumentCalls(c, us) ==
    <<Send(<<Code(c)>>), Wait(T_DLY), Send(WriteCast(Argument(c))), Wait(us)>>

ReadCalls(c) ==
    <<Send(<<Code(c)>>), Mode("in"), Wait(T_DLY), Receive,
      Mode("out"), Pin("clk", 0), Wait(T_DLY)>>

CommandCalls(c, us) ==
    CASE c.name = "increment" -> <<Send(<<Code(c)>>), Wait(T_DLY)>>
      [] c.name = "read"      -> ReadCalls(c)
      [] OTHER                -> ArgumentCalls(c, us)

Plan(st, c, us) ==
    CASE st = "enter"   -> EnterProgramming
      [] st = "command" -> CommandCalls(c, us)
      [] st = "restore" -> RestoreData
      [] st = "guard"   -> ExitProgramming
      [] st = "header"  -> CleanupGpio
      [] OTHER          -> <<>>

RequestType ==
    [name : {"load", "increment", "read", "write", "erase"}, arg : Nat,
     mask : SUBSET RegionNames, inc : BOOLEAN]

DeviceState ==
    {"IDLE", "PROG_EN", "MCLR", "PROGRAMMING", "COMMAND_PREAMBLE", "LOAD_PC",
     "WRITE", "BULK_ERASE", "INC_PC", "READ_NVM"}

-----------------------------------------------------------------------------
(* The ends of a sequence of calls. *)
LEMMA EndOfTail ==
    ASSUME NEW S, NEW s \in Seq(S), s # <<>>,
           NEW whole \in Seq(S), EndOf(s, whole)
    PROVE  /\ Head(s) = whole[Len(whole) - Len(s) + 1] /\ Head(s) \in S
           /\ Tail(s) \in Seq(S) /\ Len(Tail(s)) = Len(s) - 1
           /\ Len(s) \in 1 .. Len(whole) /\ Len(whole) \in Nat
           /\ EndOf(Tail(s), whole)
  <1>1. /\ Len(s) \in Nat \ {0} /\ Len(whole) \in Nat /\ Len(s) <= Len(whole)
        /\ Head(s) = s[1] /\ Head(s) \in S
        /\ Tail(s) \in Seq(S) /\ Len(Tail(s)) = Len(s) - 1
        /\ \A i \in 1 .. Len(s) - 1 : Tail(s)[i] = s[i + 1]
    BY HeadTailProperties, EmptySeq, LenProperties DEF EndOf
  <1>2. \A i \in 1 .. Len(s) : s[i] = whole[Len(whole) - Len(s) + i]
    BY DEF EndOf
  <1>3. ASSUME NEW i \in 1 .. Len(s) - 1
        PROVE  Tail(s)[i] = whole[Len(whole) - (Len(s) - 1) + i]
    <2>1. i + 1 \in 1 .. Len(s) /\ Len(whole) - Len(s) + (i + 1)
                                     = Len(whole) - (Len(s) - 1) + i
      BY <1>1
    <2> QED
      BY <1>1, <1>2, <2>1
  <1> QED
    BY <1>1, <1>2, <1>3 DEF EndOf

LEMMA WholeEnds ==
    ASSUME NEW S, NEW s \in Seq(S)
    PROVE  EndOf(s, s)
  BY LenProperties DEF EndOf

Joined(w, s, t) ==
    /\ Len(w) = Len(s) + Len(t)
    /\ \A i \in 1 .. Len(s) : w[i] = s[i]
    /\ \A i \in 1 .. Len(t) : w[Len(s) + i] = t[i]

LEMMA ConcatJoins ==
    ASSUME NEW S, NEW s \in Seq(S), NEW t \in Seq(S)
    PROVE  s \o t \in Seq(S) /\ Joined(s \o t, s, t)
  <1>1. /\ s \o t \in Seq(S) /\ Len(s \o t) = Len(s) + Len(t)
        /\ \A i \in 1 .. Len(s) : (s \o t)[i] = s[i]
        /\ \A i \in 1 .. Len(t) : (s \o t)[Len(s) + i] = t[i]
    BY ConcatProperties, LenProperties
  <1> QED
    BY <1>1 DEF Joined

LEMMA Requested ==
    ASSUME NEW c \in Requests
    PROVE  /\ c \in RequestType
           /\ c.name = "load" => Addressable(Map, c.arg)
           /\ c.name = "write" => c.arg < 65536
  BY WireAssumption DEF RequestType

LEMMA EraseBitsTyped ==
    ASSUME NEW mask
    PROVE  EraseBits(mask) \in Nat
  <1> DEFINE B(n, w) == IF n \in mask THEN w ELSE 0
  <1>1. EraseBits(mask) = B("EEPROM", 1) + B("PROGRAM", 2) + B("USER", 4) + B("CONFIG", 8)
    BY DEF EraseBits, EraseBit
  <1> QED
    BY <1>1

LEMMA ArgumentTyped ==
    ASSUME NEW c \in RequestType
    PROVE  Argument(c) \in Nat
  BY EraseBitsTyped DEF Argument, RequestType

LEMMA WriteCastBytes ==
    ASSUME NEW v \in Nat
    PROVE  /\ WriteCast(v) \in Bytes /\ Len(WriteCast(v)) = 3
           /\ WriteCast(v)[1] = ((2 * v) \div 65536) % 256
           /\ WriteCast(v)[2] = ((2 * v) \div 256) % 256
           /\ WriteCast(v)[3] = (2 * v) % 256
  <1>1. PICK t \in Nat : t = 2 * v
    OBVIOUS
  <1>2. PICK a, b, c : /\ a = (t \div 65536) % 256 /\ b = (t \div 256) % 256
                       /\ c = t % 256
    OBVIOUS
  <1>3. a \in 0 .. 255 /\ b \in 0 .. 255 /\ c \in 0 .. 255
    BY <1>2
  <1>4. WriteCast(v) = <<a, b, c>>
    BY <1>1, <1>2 DEF WriteCast
  <1> QED
    BY <1>1, <1>2, <1>3, <1>4 DEF Bytes

LEMMA CallsAreHostCalls ==
    /\ \A n \in {"mclr", "prog_en", "clk"}, v \in {0, 1} : Pin(n, v) \in HostCall
    /\ \A m \in {"in", "out"} : Mode(m) \in HostCall
    /\ \A us \in Nat : Wait(us) \in HostCall
    /\ \A bytes \in Bytes : Send(bytes) \in HostCall
    /\ Receive \in HostCall
  BY DEF Pin, Mode, Wait, Send, Receive, HostCall

LEMMA CleanupCalls ==
    /\ CleanupGpio \in Seq(HostCall) /\ Len(CleanupGpio) = 4
    /\ CleanupGpio[1] = Pin("mclr", 1) /\ CleanupGpio[2] = Pin("clk", 0)
    /\ CleanupGpio[3] = Mode("out") /\ CleanupGpio[4] = Pin("prog_en", 0)
  <1>1. /\ Pin("mclr", 1) \in HostCall /\ Pin("clk", 0) \in HostCall
        /\ Mode("out") \in HostCall /\ Pin("prog_en", 0) \in HostCall
    BY CallsAreHostCalls
  <1> QED
    BY <1>1 DEF CleanupGpio

LEMMA EnterCalls ==
    /\ EnterProgramming \in Seq(HostCall) /\ Len(EnterProgramming) = 10
    /\ EnterProgramming[1] = Pin("mclr", 1) /\ EnterProgramming[2] = Pin("clk", 0)
    /\ EnterProgramming[3] = Mode("out") /\ EnterProgramming[4] = Pin("prog_en", 0)
    /\ EnterProgramming[5] = Pin("prog_en", 1) /\ EnterProgramming[6] = Wait(1000)
    /\ EnterProgramming[7] = Pin("mclr", 0) /\ EnterProgramming[8] = Wait(2200)
    /\ EnterProgramming[9] = Send(KEY_SEQ) /\ EnterProgramming[10] = Wait(2200)
  <1> DEFINE t == <<Pin("prog_en", 1), Wait(1000), Pin("mclr", 0), Wait(2 * T_ENTH),
                    Send(KEY_SEQ), Wait(2 * T_ENTH)>>
  <1>1. 2 * T_ENTH = 2200
    BY DEF T_ENTH
  <1>2. KEY_SEQ \in Bytes
    BY DEF KEY_SEQ, Bytes
  <1>3. /\ Pin("prog_en", 1) \in HostCall /\ Wait(1000) \in HostCall
        /\ Pin("mclr", 0) \in HostCall /\ Wait(2200) \in HostCall
        /\ Send(KEY_SEQ) \in HostCall
    BY <1>2, CallsAreHostCalls
  <1>4. /\ t \in Seq(HostCall) /\ Len(t) = 6
        /\ t[1] = Pin("prog_en", 1) /\ t[2] = Wait(1000)
        /\ t[3] = Pin("mclr", 0) /\ t[4] = Wait(2200)
        /\ t[5] = Send(KEY_SEQ) /\ t[6] = Wait(2200)
    BY <1>1, <1>3
  <1>5. EnterProgramming = CleanupGpio \o t
    BY DEF EnterProgramming
  <1> HIDE DEF t
  <1>6. PICK w, c : w = EnterProgramming /\ c = CleanupGpio
    OBVIOUS
  <1>7. /\ w \in Seq(HostCall) /\ Len(w) = 10
        /\ \A i \in 1 .. 4 : w[i] = c[i]
        /\ \A i \in 1 .. 6 : w[4 + i] = t[i]
    <2>1. c \in Seq(HostCall) /\ Len(c) = 4 /\ w = c \o t
      BY <1>5, <1>6, CleanupCalls
    <2>2. t \in Seq(HostCall) /\ Len(t) = 6
      BY <1>4
    <2>3. w \in Seq(HostCall) /\ Joined(w, c, t)
      BY <2>1, <2>2, ConcatJoins
    <2>4. PICK m, n : m = Len(c) /\ n = Len(t)
      OBVIOUS
    <2>5. /\ Len(w) = m + n
          /\ \A i \in 1 .. m : w[i] = c[i]
          /\ \A i \in 1 .. n : w[m + i] = t[i]
      BY <2>3, <2>4 DEF Joined
    <2>6. m = 4 /\ n = 6 /\ m + n = 10
      BY <2>1, <2>2, <2>4
    <2> QED
      BY <2>3, <2>5, <2>6, ZenonT(30)
  <1>8. /\ w[5] = t[1] /\ w[6] = t[2] /\ w[7] = t[3]
        /\ w[8] = t[4] /\ w[9] = t[5] /\ w[10] = t[6]
    BY <1>7
  <1> QED
    BY <1>4, <1>6, <1>7, <1>8, CleanupCalls

LEMMA ExitCalls ==
    /\ ExitProgramming \in Seq(HostCall) /\ Len(ExitProgramming) = 3
    /\ ExitProgramming[1] = Wait(1102) /\ ExitProgramming[2] = Pin("mclr", 1)
    /\ ExitProgramming[3] = Pin("prog_en", 0)
  <1>1. T_ENTH + T_CLK = 1102
    BY DEF T_ENTH, T_CLK
  <1>2. /\ Wait(1102) \in HostCall /\ Pin("mclr", 1) \in HostCall
        /\ Pin("prog_en", 0) \in HostCall
    BY CallsAreHostCalls
  <1> QED
    BY <1>1, <1>2 DEF ExitProgramming

LEMMA RestoreCalls ==
    /\ RestoreData \in Seq(HostCall) /\ Len(RestoreData) = 2
    /\ RestoreData[1] = Mode("out") /\ RestoreData[2] = Pin("clk", 0)
  <1>1. Mode("out") \in HostCall /\ Pin("clk", 0) \in HostCall
    BY CallsAreHostCalls
  <1> QED
    BY <1>1 DEF RestoreData

LEMMA CodeSent ==
    ASSUME NEW c \in RequestType
    PROVE  /\ Code(c) \in {128, 248, 252, 254, 192, 224, 24}
           /\ Send(<<Code(c)>>) \in HostCall
  <1>1. Code(c) \in {128, 248, 252, 254, 192, 224, 24}
    BY DEF Code, RequestType
  <1>2. <<Code(c)>> \in Bytes
    BY <1>1 DEF Bytes
  <1> QED
    BY <1>1, <1>2, CallsAreHostCalls

LEMMA ArgumentCommand ==
    ASSUME NEW c \in RequestType, HasArgument(c), NEW us \in Nat,
           NEW w, w = CommandCalls(c, us)
    PROVE  /\ w \in Seq(HostCall) /\ Len(w) = 4
           /\ w[1] = Send(<<Code(c)>>) /\ w[2] = Wait(T_DLY)
           /\ w[3] = Send(WriteCast(Argument(c))) /\ w[4] = Wait(us)
  <1>1. w = ArgumentCalls(c, us)
    BY DEF CommandCalls, HasArgument
  <1>2. /\ Send(<<Code(c)>>) \in HostCall /\ Wait(T_DLY) \in HostCall
        /\ Send(WriteCast(Argument(c))) \in HostCall /\ Wait(us) \in HostCall
    BY CodeSent, ArgumentTyped, WriteCastBytes, CallsAreHostCalls DEF T_DLY
  <1> QED
    BY <1>1, <1>2 DEF ArgumentCalls

LEMMA IncrementCommand ==
    ASSUME NEW c \in RequestType, c.name = "increment", NEW us,
           NEW w, w = CommandCalls(c, us)
    PROVE  /\ w \in Seq(HostCall) /\ Len(w) = 2
           /\ w[1] = Send(<<Code(c)>>) /\ w[2] = Wait(T_DLY)
  <1>1. Send(<<Code(c)>>) \in HostCall /\ Wait(T_DLY) \in HostCall
    BY CodeSent, CallsAreHostCalls DEF T_DLY
  <1> QED
    BY <1>1 DEF CommandCalls

LEMMA ReadCommand ==
    ASSUME NEW c \in RequestType, c.name = "read", NEW us,
           NEW w, w = CommandCalls(c, us)
    PROVE  /\ w \in Seq(HostCall) /\ Len(w) = 7
           /\ w[1] = Send(<<Code(c)>>) /\ w[2] = Mode("in") /\ w[3] = Wait(T_DLY)
           /\ w[4] = Receive /\ w[5] = Mode("out") /\ w[6] = Pin("clk", 0)
           /\ w[7] = Wait(T_DLY)
  <1>1. /\ Send(<<Code(c)>>) \in HostCall /\ Mode("in") \in HostCall
        /\ Wait(T_DLY) \in HostCall /\ Receive \in HostCall
        /\ Mode("out") \in HostCall /\ Pin("clk", 0) \in HostCall
    BY CodeSent, CallsAreHostCalls DEF T_DLY
  <1> QED
    BY <1>1 DEF CommandCalls, ReadCalls

(* Every scope makes calls of the host, whatever the request. *)
LEMMA PlanTyped ==
    ASSUME NEW st, NEW c, st = "command" => c \in RequestType, NEW us \in Nat
    PROVE  Plan(st, c, us) \in Seq(HostCall)
  <1>1. CASE st = "command"
    <2>1. CASE HasArgument(c)
      BY <1>1, <2>1, ArgumentCommand DEF Plan
    <2>2. CASE c.name = "increment"
      BY <1>1, <2>2, IncrementCommand DEF Plan
    <2>3. CASE c.name = "read"
      BY <1>1, <2>3, ReadCommand DEF Plan
    <2> QED
      BY <1>1, <2>1, <2>2, <2>3 DEF HasArgument, RequestType
  <1>2. CASE st \in {"enter", "restore", "guard", "header"}
    BY <1>2, EnterCalls, RestoreCalls, ExitCalls, CleanupCalls DEF Plan
  <1>3. CASE st \notin {"command", "enter", "restore", "guard", "header"}
    BY <1>3, EmptySeq DEF Plan
  <1> QED
    BY <1>1, <1>2, <1>3

(* A command asked for is one of these sequences, with some wait for the   *)
(* device to be done.                                                      *)
WaitFor(c, region) ==
    CASE c.name = "load"  -> T_DLY
      [] c.name = "erase" -> T_ERAB
      [] c.name = "write" -> region.t_PROG_us
      [] OTHER            -> 0

LEMMA AskedCalls ==
    ASSUME NEW c \in RequestType
    PROVE  Asked(c) = CommandCalls(c, WaitFor(c, WithRegion(Map, PCSeen)))
  <1>1. CASE c.name = "load"
    BY <1>1 DEF Asked, LoadPC, CommandCalls, ArgumentCalls, WaitFor, Code, Argument
  <1>2. CASE c.name = "increment"
    BY <1>2 DEF Asked, IncrementAddr, CommandCalls, Code
  <1>3. CASE c.name = "write"
    BY <1>3 DEF Asked, WriteWord, CommandCalls, ArgumentCalls, WaitFor, Code, Argument
  <1>4. CASE c.name = "erase"
    BY <1>4 DEF Asked, BulkErase, CommandCalls, ArgumentCalls, WaitFor, Code, Argument
  <1>5. CASE c.name = "read"
    <2> DEFINE p == <<Send(<<Code(c)>>), Mode("in"), Wait(T_DLY), Receive>>
               q == <<Wait(T_DLY)>>
    <2>1. Code(c) = IF c.inc THEN 254 ELSE 252
      BY <1>5 DEF Code
    <2>2. Asked(c) = (p \o RestoreData) \o q
      BY <1>5, <2>1 DEF Asked, ReadRaw
    <2>3. /\ p \in Seq(HostCall) /\ Len(p) = 4 /\ q \in Seq(HostCall) /\ Len(q) = 1
          /\ p[1] = Send(<<Code(c)>>) /\ p[2] = Mode("in") /\ p[3] = Wait(T_DLY)
          /\ p[4] = Receive /\ q[1] = Wait(T_DLY)
      <3>1. /\ Send(<<Code(c)>>) \in HostCall /\ Mode("in") \in HostCall
            /\ Wait(T_DLY) \in HostCall /\ Receive \in HostCall
        BY CodeSent, CallsAreHostCalls DEF T_DLY
      <3> QED
        BY <3>1
    <2> HIDE DEF p, q
    <2>4. PICK u : u = p \o RestoreData
      OBVIOUS
    <2>5. u \in Seq(HostCall) /\ Joined(u, p, RestoreData)
      BY <2>3, <2>4, RestoreCalls, ConcatJoins
    <2>6. PICK w : w = Asked(c)
      OBVIOUS
    <2>7. w \in Seq(HostCall) /\ Joined(w, u, q)
      BY <2>2, <2>3, <2>4, <2>5, <2>6, ConcatJoins
    <2>8. /\ Len(w) = 7 /\ w[1] = p[1] /\ w[2] = p[2] /\ w[3] = p[3] /\ w[4] = p[4]
          /\ w[5] = RestoreData[1] /\ w[6] = RestoreData[2] /\ w[7] = q[1]
      BY <2>3, <2>5, <2>7, RestoreCalls DEF Joined
    <2>9. PICK v : v = CommandCalls(c, WaitFor(c, WithRegion(Map, PCSeen)))
      OBVIOUS
    <2>10. /\ v \in Seq(HostCall) /\ Len(v) = 7
           /\ \A i \in 1 .. 7 : w[i] = v[i]
      BY <1>5, <2>3, <2>8, <2>9, ReadCommand, RestoreCalls
    <2> QED
      BY <2>6, <2>7, <2>8, <2>9, <2>10, SeqEqual
  <1> QED
    BY <1>1, <1>2, <1>3, <1>4, <1>5 DEF RequestType

LEMMA RegionAt ==
    ASSUME NEW a \in Nat, Mapped(Map, a)
    PROVE  /\ WithRegion(Map, a) \in Region
           /\ \E i \in DOMAIN Map : WithRegion(Map, a) = Map[i]
           /\ InRegion(a, WithRegion(Map, a))
  BY WireAssumption, WithRegionHolds DEF WellFormedMap

-----------------------------------------------------------------------------
(* A scope makes its calls in order, those of a loop once for every bit.   *)
Stage == {"out", "enter", "ready", "command", "restore", "guard", "header",
          "over", "terminated"}

Within(us) == EndOf(script, Plan(stage, op, us))

Looping(calls) == calls # <<>> /\ Clocks(Head(calls))

(* The place in the loop over the bits, and its start outside of one. *)
LoopAt(calls, k, i) ==
    IF Looping(calls) THEN k < Bits(Head(calls)) ELSE k = 0 /\ i = 1

ScriptInv ==
    /\ stage \in Stage /\ op \in Requests \cup {NoRequest}
    /\ stage = "command" => op \in Requests
    /\ step \in 1 .. 5 /\ bit \in Nat
    /\ LoopAt(script, bit, step)
    /\ script \in Seq(HostCall)
    /\ \E us \in Nat : Within(us)

LEMMA BitCallsAre ==
    ASSUME NEW c \in HostCall, Clocks(c), NEW k
    PROVE  /\ BitCalls(c, k)[1] = Pin("clk", 1) /\ BitCalls(c, k)[4] = Pin("clk", 0)
           /\ BitCalls(c, k)[5] = Wait(2)
           /\ c.do = "send" => /\ BitCalls(c, k)[2] = WriteData(BitOf(c.bytes, k))
                               /\ BitCalls(c, k)[3] = Wait(2)
           /\ c.do = "receive" => /\ BitCalls(c, k)[2] = Wait(2)
                                  /\ BitCalls(c, k)[3] = ReadData
  <1>1. CLK_WAIT = 2 /\ T_CLK = 2
    BY DEF CLK_WAIT, T_CLK, T_DS
  <1>2. CASE c.do = "send"
    BY <1>1, <1>2 DEF BitCalls
  <1>3. CASE c.do = "receive"
    BY <1>1, <1>3 DEF BitCalls
  <1> QED
    BY <1>2, <1>3 DEF Clocks

LEMMA BitsCounted ==
    ASSUME NEW c \in HostCall, Clocks(c)
    PROVE  Bits(c) \in {8, 24, 32}
  <1>1. CASE c.do = "send"
    <2>1. PICK n : n = Len(c.bytes)
      OBVIOUS
    <2>2. n \in {1, 3, 4}
      BY <1>1, <2>1 DEF HostCall, Bytes
    <2>3. Bits(c) = 8 * n
      BY <1>1, <2>1 DEF Bits
    <2> QED
      BY <2>2, <2>3
  <1>2. CASE c.do = "receive"
    BY <1>2 DEF Bits
  <1> QED
    BY <1>1, <1>2 DEF Clocks

LEMMA CallKinds ==
    ASSUME ScriptInv, script # <<>>
    PROVE  /\ Head(script) \in HostCall
           /\ ~ Clocks(Head(script)) => Call = Head(script)
           /\ Clocks(Head(script)) => Call = BitCalls(Head(script), bit)[step]
           /\ Call.do \in {"mclr", "prog_en", "mode"} =>
                 ~ Clocks(Head(script)) /\ Call = Head(script)
           /\ Call.do \in {"mclr", "prog_en", "clk"} => Call.level \in {0, 1}
           /\ Call.do = "mode" => Call.mode \in {"in", "out"}
           /\ Call.do = "delay" => Call.us \in Nat
  <1>1. PICK h \in HostCall : h = Head(script)
    BY DEF ScriptInv
  <1>2. /\ ~ Clocks(h) => Call = h
        /\ Clocks(h) => Call = BitCalls(h, bit)[step]
    BY <1>1 DEF Call
  <1>3. CASE ~ Clocks(h)
    <2>1. /\ h.do \in {"mclr", "prog_en", "clk"} => h.level \in {0, 1}
          /\ h.do = "mode" => h.mode \in {"in", "out"}
          /\ h.do = "delay" => h.us \in Nat
      BY DEF HostCall
    <2> QED
      BY <1>1, <1>2, <1>3, <2>1
  <1>4. CASE Clocks(h)
    <2>1. step \in {1, 2, 3, 4, 5}
      BY DEF ScriptInv
    <2>2. /\ Pin("clk", 1).do = "clk" /\ Pin("clk", 0).do = "clk"
          /\ Pin("clk", 1).level = 1 /\ Pin("clk", 0).level = 0
          /\ Wait(2).do = "delay" /\ Wait(2).us = 2
          /\ ReadData.do = "read"
          /\ \A v : WriteData(v).do = "write"
      BY DEF Pin, Wait, ReadData, WriteData
    <2>3. Call \in {Pin("clk", 1), Pin("clk", 0), Wait(2), ReadData,
                    WriteData(BitOf(h.bytes, bit))}
      <3>1. h.do \in {"send", "receive"}
        BY <1>4 DEF Clocks
      <3> QED
        BY <1>2, <1>4, <2>1, <3>1, BitCallsAre
    <2> QED
      BY <1>1, <1>2, <1>4, <2>2, <2>3
  <1> QED
    BY <1>3, <1>4

LEMMA LoopStarts ==
    ASSUME NEW s \in Seq(HostCall)
    PROVE  /\ LoopAt(s, 0, 1)
           /\ Looping(s) => Bits(Head(s)) \in {8, 24, 32}
  <1>1. CASE Looping(s)
    <2>1. Head(s) \in HostCall /\ Clocks(Head(s))
      BY <1>1 DEF Looping
    <2>2. Bits(Head(s)) \in {8, 24, 32}
      BY <2>1, BitsCounted
    <2> QED
      BY <1>1, <2>2 DEF LoopAt
  <1>2. CASE ~ Looping(s)
    BY <1>2 DEF LoopAt
  <1> QED
    BY <1>1, <1>2

LEMMA Advances ==
    ASSUME ScriptInv, script # <<>>, Advance
    PROVE  /\ script' \in {script, Tail(script)}
           /\ step' \in 1 .. 5 /\ bit' \in Nat
           /\ LoopAt(script', bit', step')
           /\ ~ Looping(script) => script' = Tail(script) /\ bit' = 0 /\ step' = 1
  <1>1. /\ step \in 1 .. 5 /\ bit \in Nat /\ LoopAt(script, bit, step)
        /\ script \in Seq(HostCall) /\ Tail(script) \in Seq(HostCall)
    BY DEF ScriptInv
  <1>4. LoopAt(Tail(script), 0, 1)
    BY <1>1, LoopStarts
  <1>3. CASE Looping(script)
    <2>1. PICK n : n = Bits(Head(script))
      OBVIOUS
    <2>2. n \in {8, 24, 32} /\ bit < n
      BY <1>1, <1>3, <2>1, LoopStarts DEF LoopAt
    <2>3. /\ step' = (step % 5) + 1
          /\ bit' = IF step = 5 THEN (bit + 1) % n ELSE bit
          /\ script' = IF step = 5 /\ bit = n - 1 THEN Tail(script) ELSE script
      BY <1>3, <2>1 DEF Advance, Looping
    <2>4. (step % 5) + 1 \in 1 .. 5
      BY <1>1
    <2>5. CASE step = 5 /\ bit = n - 1
      <3>1. (bit + 1) % n = 0
        BY <2>2, <2>5
      <3>2. bit' = 0 /\ step' = 1 /\ script' = Tail(script)
        BY <2>3, <2>5, <3>1
      <3>3. LoopAt(script', bit', step')
        BY <1>4, <3>2
      <3> QED
        BY <1>3, <3>2, <3>3
    <2>6. CASE ~ (step = 5 /\ bit = n - 1)
      <3>1. script' = script
        BY <2>3, <2>6
      <3>2. bit' \in Nat /\ bit' < n
        <4>1. CASE step = 5
          <5>1. bit + 1 < n /\ (bit + 1) % n = bit + 1
            BY <1>1, <2>2, <2>6, <4>1
          <5> QED
            BY <1>1, <2>3, <4>1, <5>1
        <4>2. CASE step # 5
          BY <1>1, <2>2, <2>3, <4>2
        <4> QED
          BY <4>1, <4>2
      <3>3. LoopAt(script', bit', step')
        BY <1>3, <2>1, <3>1, <3>2 DEF LoopAt
      <3> QED
        BY <1>3, <2>3, <2>4, <3>1, <3>2, <3>3
    <2> QED
      BY <2>5, <2>6
  <1>5. CASE ~ Looping(script)
    <2>1. script' = Tail(script) /\ bit' = 0 /\ step' = 1
      BY <1>1, <1>5 DEF Advance, Looping, LoopAt
    <2>2. LoopAt(script', bit', step')
      BY <1>4, <2>1
    <2> QED
      BY <2>1, <2>2
  <1> QED
    BY <1>3, <1>5

LEMMA Started ==
    ASSUME NEW st, NEW c, st = "command" => c \in RequestType, NEW us \in Nat,
           NEW s, s = Plan(st, c, us)
    PROVE  s \in Seq(HostCall) /\ EndOf(s, Plan(st, c, us))
  BY PlanTyped, WholeEnds

-----------------------------------------------------------------------------
(* The pins and what the device may hold, after an interrupt too. *)
Device ==
    [state : DeviceState, cnt : Nat, data : Nat, inc : BOOLEAN, ts : Nat,
     pc : Nat \cup {NoPC}, mem : [MapAddrs(Map) -> 0 .. 255]]

Receiving == {"MCLR", "COMMAND_PREAMBLE", "LOAD_PC", "WRITE", "BULK_ERASE"}

PinInv ==
    /\ pins \in [mclr : {0, 1}, prog_en : {0, 1}, clk : {0, 1}, data : {"in", "out"}]
    /\ pins.mclr = 1 /\ pins.prog_en = 0 <=> dev.state = "IDLE"
    /\ pins.mclr = 1 /\ pins.prog_en = 1 <=> dev.state = "PROG_EN"
    /\ pins.mclr = 0 => pins.prog_en = 1

DevInv ==
    /\ dev \in Device
    /\ dev.state \in Receiving => dev.cnt < Receives[dev.state]
    /\ dev.state = "READ_NVM" => dev.cnt <= 24 /\ (pins.clk = 0 => dev.cnt # 0)
    /\ dev.state \notin Receiving \cup {"READ_NVM"} => dev.cnt = 0
    /\ dev.state \in {"WRITE", "READ_NVM"} => HasWord /\ InOneRegion
    /\ dev.state = "INC_PC" => HasWord

LineInv ==
    /\ line \in {0, 1, NoLevel}
    /\ age \in [rose : Nat, fell : Nat, changed : Nat, latched : Nat \cup {Never}]

LEMMA DeviceWord ==
    ASSUME DevInv, HasWord
    PROVE  /\ dev.pc \in Nat /\ DeviceRegion \in Region
           /\ InRegion(dev.pc, DeviceRegion)
           /\ \E i \in DOMAIN Map : DeviceRegion = Map[i]
           /\ DeviceRegion.word_size \in {1, 2}
           /\ DeviceRegion.start \in Nat /\ DeviceRegion.end \in Nat
           /\ DeviceRegion.t_PROG_us \in Nat
           /\ DeviceRegion.autoincrement_addr \in BOOLEAN
  <1>1. dev.pc \in Nat /\ Mapped(Map, dev.pc)
    BY DEF DevInv, Device, HasWord
  <1>2. /\ DeviceRegion \in Region /\ InRegion(dev.pc, DeviceRegion)
        /\ \E i \in DOMAIN Map : DeviceRegion = Map[i]
    BY <1>1, RegionAt DEF DeviceRegion
  <1> QED
    BY <1>1, <1>2 DEF Region

LEMMA PCSeenTyped ==
    ASSUME DevInv
    PROVE  PCSeen \in Nat \cup {NoPC}
  <1>1. CASE dev.state = "INC_PC"
    <2>1. HasWord
      BY <1>1 DEF DevInv
    <2> QED
      BY <1>1, <2>1, DeviceWord DEF PCSeen
  <1>2. CASE dev.state # "INC_PC"
    BY <1>2 DEF PCSeen, DevInv, Device
  <1> QED
    BY <1>1, <1>2

LEMMA WaitTyped ==
    ASSUME DevInv, NEW c \in RequestType, MayAsk(c)
    PROVE  WaitFor(c, WithRegion(Map, PCSeen)) \in Nat
  <1>1. CASE c.name = "write"
    <2>1. PCSeen \in Nat /\ Mapped(Map, PCSeen)
      BY <1>1, PCSeenTyped DEF MayAsk
    <2>2. WithRegion(Map, PCSeen).t_PROG_us \in Nat
      BY <2>1, RegionAt DEF Region
    <2> QED
      BY <1>1, <2>2 DEF WaitFor
  <1>2. CASE c.name # "write"
    BY <1>2 DEF WaitFor, T_DLY, T_ERAB, RequestType
  <1> QED
    BY <1>1, <1>2

-----------------------------------------------------------------------------
(* What the device makes of each call keeps what it may hold. *)
LEMMA WordTyped ==
    ASSUME DevInv, HasWord, InOneRegion
    PROVE  /\ WordAt(dev.pc) \in Nat
           /\ \A inc : PCAfter(inc) \in Nat
  <1>1. PICK r : r = DeviceRegion
    OBVIOUS
  <1>2. /\ dev.pc \in Nat /\ r.word_size \in {1, 2} /\ r.start \in Nat /\ r.end \in Nat
        /\ InRegion(dev.pc, r) /\ r.autoincrement_addr \in BOOLEAN
    BY <1>1, DeviceWord
  <1>3. PICK i \in DOMAIN Map : r = Map[i]
    BY <1>1, DeviceWord
  <1>4. dev.pc + r.word_size <= r.end
    BY <1>1 DEF InOneRegion
  <1>5. \A a \in Nat : InRegion(a, r) => a \in MapAddrs(Map)
    BY <1>2, <1>3 DEF MapAddrs, Addrs, InRegion
  <1>6. dev.mem \in [MapAddrs(Map) -> 0 .. 255]
    BY DEF DevInv, Device
  <1>7. dev.mem[dev.pc] \in 0 .. 255
    BY <1>2, <1>5, <1>6
  <1>8. CASE r.word_size = 1
    BY <1>1, <1>2, <1>7, <1>8 DEF WordAt, PCAfter
  <1>9. CASE r.word_size = 2
    <2>1. dev.pc + 1 \in Nat /\ InRegion(dev.pc + 1, r)
      BY <1>2, <1>4, <1>9 DEF InRegion
    <2>2. dev.mem[dev.pc + 1] \in 0 .. 255
      BY <1>5, <1>6, <2>1
    <2>3. WordAt(dev.pc) \in Nat
      <3>1. PICK x, y : x = dev.mem[dev.pc] /\ y = dev.mem[dev.pc + 1]
        OBVIOUS
      <3>2. x \in Nat /\ y \in Nat
        <4>1. x \in 0 .. 255 /\ y \in 0 .. 255
          BY <1>7, <2>2, <3>1, Zenon
        <4> QED
          BY <4>1
      <3>3. WordAt(dev.pc) = x + 256 * y
        BY <1>1, <1>9, <3>1 DEF WordAt
      <3> QED
        BY <3>2, <3>3
    <2> QED
      BY <1>1, <1>2, <1>9, <2>3 DEF PCAfter
  <1> QED
    BY <1>2, <1>8, <1>9

LEMMA BackTo ==
    ASSUME NEW d \in Device, NEW st \in DeviceState
    PROVE  /\ To(d, st) \in Device /\ To(d, st).state = st
           /\ To(d, st).cnt = 0 /\ To(d, st).data = 0 /\ To(d, st).inc = FALSE
           /\ To(d, st).ts = d.ts /\ To(d, st).pc = d.pc /\ To(d, st).mem = d.mem
  BY DEF To, Device

LEMMA StoredField ==
    ASSUME NEW d \in Device, NEW p \in Nat, NEW M \in [MapAddrs(Map) -> 0 .. 255]
    PROVE  /\ [d EXCEPT !.mem = M, !.pc = p] \in Device
           /\ [d EXCEPT !.mem = M, !.pc = p].pc = p
  <1>1. PICK PCs, Mems : PCs = Nat \cup {NoPC} /\ Mems = [MapAddrs(Map) -> 0 .. 255]
    OBVIOUS
  <1>2. Device = [state : DeviceState, cnt : Nat, data : Nat, inc : BOOLEAN,
                  ts : Nat, pc : PCs, mem : Mems]
    BY <1>1, Zenon DEF Device
  <1>3. p \in PCs /\ M \in Mems
    BY <1>1
  <1> QED
    BY <1>2, <1>3

LEMMA BackToProgramming ==
    ASSUME NEW d \in Device, NEW ts \in Nat
    PROVE  /\ ToProgramming(d, ts) \in Device
           /\ ToProgramming(d, ts).state = "PROGRAMMING"
           /\ ToProgramming(d, ts).cnt = 0 /\ ToProgramming(d, ts).ts = ts
           /\ ToProgramming(d, ts).pc = d.pc /\ ToProgramming(d, ts).mem = d.mem
  <1>1. PICK e : e = To(d, "PROGRAMMING")
    OBVIOUS
  <1>2. /\ e \in Device /\ e.state = "PROGRAMMING" /\ e.cnt = 0
        /\ e.pc = d.pc /\ e.mem = d.mem
    BY <1>1, BackTo DEF DeviceState
  <1>3. ToProgramming(d, ts) = [e EXCEPT !.ts = ts]
    BY <1>1 DEF ToProgramming
  <1> QED
    BY <1>2, <1>3 DEF Device

LEMMA ReceivesAre ==
    /\ DOMAIN Receives = Receiving
    /\ \A st \in Receiving : Receives[st] \in {8, 24, 32}
    /\ Receives["MCLR"] = 32 /\ Receives["COMMAND_PREAMBLE"] = 8
    /\ Receives["LOAD_PC"] = 24 /\ Receives["WRITE"] = 24 /\ Receives["BULK_ERASE"] = 24
  BY DEF Receives, Receiving

LEMMA WeightsAre == \A i \in 1 .. 16 : Weight[i] \in Nat \ {0}
  <1>1. Weight \in Seq(Nat \ {0}) /\ Len(Weight) = 16
    BY DEF Weight
  <1> QED
    BY <1>1, ElementOfSeq

LEMMA WeightTable ==
    /\ Weight[1] = 1 /\ Weight[2] = 2 /\ Weight[3] = 4 /\ Weight[4] = 8
    /\ Weight[5] = 16 /\ Weight[6] = 32 /\ Weight[7] = 64 /\ Weight[8] = 128
    /\ Weight[9] = 256 /\ Weight[10] = 512 /\ Weight[11] = 1024 /\ Weight[12] = 2048
    /\ Weight[13] = 4096 /\ Weight[14] = 8192 /\ Weight[15] = 16384
    /\ Weight[16] = 32768
  BY DEF Weight

LEMMA BitTyped ==
    ASSUME NEW x \in Nat, NEW w \in Nat \ {0}
    PROVE  (x \div w) % 2 \in {0, 1}
  <1>1. x \div w \in Nat
    OBVIOUS
  <1> QED
    BY <1>1

LEMMA BitOutTyped ==
    ASSUME DevInv, dev.state = "READ_NVM"
    PROVE  BitOut \in {0, 1}
  <1>1. dev.cnt \in Nat /\ dev.data \in Nat /\ HasWord
    BY DEF DevInv, Device
  <1>2. CASE dev.cnt - 1 \in 1 .. 8 * DeviceRegion.word_size
    <2>1. PICK i \in 1 .. 16 : i = dev.cnt - 1
      BY <1>1, <1>2, DeviceWord
    <2>2. BitOut = (dev.data \div Weight[i]) % 2
      BY <1>2, <2>1 DEF BitOut
    <2> QED
      BY <1>1, <2>2, WeightsAre, BitTyped
  <1>3. CASE dev.cnt - 1 \notin 1 .. 8 * DeviceRegion.word_size
    BY <1>3 DEF BitOut
  <1> QED
    BY <1>2, <1>3

LEMMA RiseKeeps ==
    ASSUME DevInv, PinInv, LineInv, ClkRises
    PROVE  DevInv' /\ PinInv' /\ LineInv'
  <1>1. /\ dev \in Device /\ dev.state \in DeviceState /\ dev.cnt \in Nat
        /\ pins \in [mclr : {0, 1}, prog_en : {0, 1}, clk : {0, 1}, data : {"in", "out"}]
        /\ pins.clk = 0 /\ pins' = [pins EXCEPT !.clk = 1] /\ dev' = Risen
    BY DEF DevInv, PinInv, Device, ClkRises
  <1>2. dev.state \in Receiving \cup {"PROGRAMMING", "INC_PC", "READ_NVM"}
    BY ReceivesAre DEF ClkRises, RiseAccepted, Receiving
  <1>3. /\ pins'.clk = 1 /\ pins'.mclr = pins.mclr /\ pins'.prog_en = pins.prog_en
        /\ pins' \in [mclr : {0, 1}, prog_en : {0, 1}, clk : {0, 1}, data : {"in", "out"}]
    BY <1>1
  <1>4. LineInv'
    <2>1. CASE dev.state = "READ_NVM"
      <3>1. line' \in {0, 1} /\ age' = [age EXCEPT !.rose = 0, !.changed = 0]
        BY <2>1, BitOutTyped DEF ClkRises
      <3> QED
        BY <3>1 DEF LineInv
    <2>2. CASE dev.state # "READ_NVM"
      <3>1. line' = line /\ age' = [age EXCEPT !.rose = 0]
        BY <2>2 DEF ClkRises
      <3> QED
        BY <3>1 DEF LineInv
    <2> QED
      BY <2>1, <2>2
  <1>5. CASE dev.state = "PROGRAMMING"
    <2>1. dev' = To(dev, "COMMAND_PREAMBLE")
      BY <1>1, <1>5 DEF Risen
    <2>2. dev' \in Device /\ dev'.state = "COMMAND_PREAMBLE" /\ dev'.cnt = 0
      <3>1. dev \in Device
        BY <1>1
      <3> QED
        BY <2>1, <3>1, BackTo DEF DeviceState
    <2>3. DevInv'
      BY <2>2, ReceivesAre DEF DevInv, Receiving
    <2>4. PinInv'
      BY <1>3, <1>5, <2>2 DEF PinInv
    <2> QED
      BY <1>4, <2>3, <2>4
  <1>6. CASE dev.state = "INC_PC"
    <2>1. HasWord
      BY <1>6 DEF DevInv
    <2>2. PICK d : d = [dev EXCEPT !.pc = @ + DeviceRegion.word_size]
      OBVIOUS
    <2>3. d \in Device
      <3>1. dev.pc + DeviceRegion.word_size \in Nat
        BY <2>1, DeviceWord
      <3> QED
        BY <1>1, <2>2, <3>1 DEF Device
    <2>4. dev' = To(d, "COMMAND_PREAMBLE")
      BY <1>1, <1>6, <2>2 DEF Risen
    <2>5. dev' \in Device /\ dev'.state = "COMMAND_PREAMBLE" /\ dev'.cnt = 0
      BY <2>3, <2>4, BackTo DEF DeviceState
    <2>6. DevInv'
      BY <2>5, ReceivesAre DEF DevInv, Receiving
    <2>7. PinInv'
      BY <1>3, <1>6, <2>5 DEF PinInv
    <2> QED
      BY <1>4, <2>6, <2>7
  <1>7. CASE dev.state = "READ_NVM"
    <2>1. dev' = [dev EXCEPT !.cnt = @ - 1]
      BY <1>1, <1>7 DEF Risen
    <2>2. dev.cnt <= 24 /\ dev.cnt # 0 /\ HasWord /\ InOneRegion
      BY <1>1, <1>7 DEF DevInv
    <2>3. /\ dev' \in Device /\ dev'.state = "READ_NVM" /\ dev'.cnt = dev.cnt - 1
          /\ dev'.pc = dev.pc
      BY <1>1, <1>7, <2>1, <2>2 DEF Device
    <2>4. HasWord' /\ InOneRegion'
      BY <2>2, <2>3 DEF HasWord, InOneRegion, DeviceRegion
    <2>5. DevInv'
      BY <1>1, <1>3, <2>2, <2>3, <2>4 DEF DevInv, Receiving
    <2>6. PinInv'
      BY <1>3, <1>7, <2>3 DEF PinInv
    <2> QED
      BY <1>4, <2>5, <2>6
  <1>8. CASE dev.state \in Receiving
    <2>1. dev' = dev
      BY <1>1, <1>8 DEF Risen, Receiving
    <2>2. DevInv'
      BY <1>8, <2>1 DEF DevInv, Receiving, HasWord, InOneRegion, DeviceRegion
    <2>3. PinInv'
      BY <1>3, <1>8, <2>1 DEF PinInv, Receiving
    <2> QED
      BY <1>4, <2>2, <2>3
  <1> QED
    BY <1>2, <1>5, <1>6, <1>7, <1>8

LEMMA StoredTyped ==
    ASSUME DevInv, HasWord, InOneRegion, NEW word \in Nat
    PROVE  /\ Stored(word) \in Device
           /\ Stored(word).pc = PCAfter(dev.inc)
  <1>1. PCAfter(dev.inc) \in Nat
    BY WordTyped
  <1>2. PICK M : M = [a \in DOMAIN dev.mem |->
                        IF a = dev.pc THEN word % 256
                        ELSE IF a = dev.pc + 1 /\ DeviceRegion.word_size = 2
                             THEN (word \div 256) % 256
                             ELSE dev.mem[a]]
    OBVIOUS
  <1>3. M \in [MapAddrs(Map) -> 0 .. 255]
    <2>1. dev.mem \in [MapAddrs(Map) -> 0 .. 255]
      BY DEF DevInv, Device
    <2>2. word % 256 \in 0 .. 255 /\ (word \div 256) % 256 \in 0 .. 255
      OBVIOUS
    <2> QED
      BY <1>2, <2>1, <2>2
  <1>4. Stored(word) = [dev EXCEPT !.mem = M, !.pc = PCAfter(dev.inc)]
    BY <1>2 DEF Stored
  <1>5. PICK p \in Nat : p = PCAfter(dev.inc)
    BY <1>1
  <1>6. PICK d : d = [dev EXCEPT !.mem = M, !.pc = p]
    OBVIOUS
  <1>7. d \in Device /\ d.pc = p
    <2>1. dev \in Device
      BY DEF DevInv
    <2> QED
      BY <1>3, <1>6, <2>1, StoredField
  <1> QED
    BY <1>4, <1>5, <1>6, <1>7

LEMMA ErasedTyped ==
    ASSUME DevInv, NEW bits
    PROVE  Erased(bits) \in Device /\ Erased(bits).pc = dev.pc
  <1>1. PICK Names : Names = {n \in DOMAIN EraseBit : (bits \div EraseBit[n]) % 2 = 1}
    OBVIOUS
  <1>2. PICK M : M = [a \in DOMAIN dev.mem |->
                        IF a \in MaskAddrs(Map, Names) THEN 255 ELSE dev.mem[a]]
    OBVIOUS
  <1>3. M \in [MapAddrs(Map) -> 0 .. 255]
    <2>1. dev.mem \in [MapAddrs(Map) -> 0 .. 255]
      BY DEF DevInv, Device
    <2> QED
      BY <1>2, <2>1
  <1>4. Erased(bits) = [dev EXCEPT !.mem = M]
    BY <1>1, <1>2 DEF Erased
  <1> QED
    BY <1>3, <1>4 DEF DevInv, Device

(* What the last bit of a command's code makes of the device. *)
Coded(d, code) ==
    /\ d \in Device /\ d.pc = dev.pc /\ d.mem = dev.mem
    /\ code = 128 => d.state = "LOAD_PC"
    /\ code = 24 => d.state = "BULK_ERASE"
    /\ code = 248 => d.state = "INC_PC"
    /\ code \in {192, 224} => d.state = "WRITE" /\ d.inc = (code = 224)
    /\ code \in {128, 24, 248, 192, 224} => d.cnt = 0 /\ d.data = 0
    /\ code \in {252, 254} => /\ d.state = "READ_NVM" /\ d.inc = (code = 254)
                              /\ d.cnt = 24 /\ d.data = WordAt(dev.pc)

LEMMA DecodedIs ==
    ASSUME DevInv, NEW code, CodeAccepted(code)
    PROVE  /\ code \in {128, 24, 248, 192, 224, 252, 254}
           /\ Coded(Decoded(code), code)
           /\ code \in {248, 192, 224, 252, 254} => HasWord
           /\ code \in {192, 224, 252, 254} => InOneRegion
  <1>1. /\ code \in {128, 24, 248, 192, 224, 252, 254}
        /\ code \in {248, 192, 224, 252, 254} => HasWord
        /\ code \in {192, 224, 252, 254} => InOneRegion
    BY DEF CodeAccepted
  <1>2. dev \in Device
    BY DEF DevInv
  <1>3. CASE code \in {128, 24, 248}
    <2>1. PICK st : /\ st = CASE code = 128 -> "LOAD_PC" [] code = 24 -> "BULK_ERASE"
                              [] code = 248 -> "INC_PC"
      OBVIOUS
    <2>2. st \in DeviceState /\ Decoded(code) = To(dev, st)
      BY <1>3, <2>1 DEF Decoded, DeviceState
    <2>3. /\ To(dev, st) \in Device /\ To(dev, st).state = st
          /\ To(dev, st).cnt = 0 /\ To(dev, st).data = 0
          /\ To(dev, st).pc = dev.pc /\ To(dev, st).mem = dev.mem
      BY <1>2, <2>2, BackTo
    <2>4. Coded(Decoded(code), code)
      BY <1>3, <2>1, <2>2, <2>3 DEF Coded
    <2> QED
      BY <1>1, <2>4
  <1>4. CASE code \in {192, 224}
    <2>1. PICK d : d = To(dev, "WRITE")
      OBVIOUS
    <2>2. /\ d \in Device /\ d.state = "WRITE" /\ d.cnt = 0 /\ d.data = 0
          /\ d.pc = dev.pc /\ d.mem = dev.mem
      BY <1>2, <2>1, BackTo DEF DeviceState
    <2>3. PICK b \in BOOLEAN : b = (code = 224)
      OBVIOUS
    <2>4. PICK e : e = [d EXCEPT !.inc = b]
      OBVIOUS
    <2>5. Decoded(code) = e
      BY <1>4, <2>1, <2>3, <2>4 DEF Decoded
    <2>6. /\ e \in Device /\ e.state = "WRITE" /\ e.cnt = 0 /\ e.data = 0
          /\ e.pc = dev.pc /\ e.mem = dev.mem /\ e.inc = b
      BY <2>2, <2>4 DEF Device
    <2>7. Coded(Decoded(code), code)
      BY <1>4, <2>3, <2>5, <2>6 DEF Coded
    <2> QED
      BY <1>1, <2>7
  <1>5. CASE code \in {252, 254}
    <2>1. PICK d, w : d = To(dev, "READ_NVM") /\ w = WordAt(dev.pc)
      OBVIOUS
    <2>2. /\ d \in Device /\ d.state = "READ_NVM" /\ d.pc = dev.pc /\ d.mem = dev.mem
      BY <1>2, <2>1, BackTo DEF DeviceState
    <2>3. w \in Nat
      BY <1>1, <1>5, <2>1, WordTyped
    <2>4. PICK b \in BOOLEAN : b = (code = 254)
      OBVIOUS
    <2>5. PICK e : e = [d EXCEPT !.inc = b, !.cnt = 24, !.data = w]
      OBVIOUS
    <2>6. Decoded(code) = e
      BY <1>5, <2>1, <2>4, <2>5 DEF Decoded
    <2>7. /\ e \in Device /\ e.state = "READ_NVM" /\ e.cnt = 24 /\ e.data = w
          /\ e.pc = dev.pc /\ e.mem = dev.mem /\ e.inc = b
      BY <2>2, <2>3, <2>5 DEF Device
    <2>8. Coded(Decoded(code), code)
      BY <1>5, <2>1, <2>4, <2>6, <2>7 DEF Coded
    <2> QED
      BY <1>1, <2>8
  <1> QED
    BY <1>1, <1>3, <1>4, <1>5

(* Nothing but its place in a transfer tells DevInv two states apart. *)
LEMMA WordKept ==
    ASSUME dev'.pc = dev.pc
    PROVE  (HasWord => HasWord') /\ (InOneRegion => InOneRegion')
  BY DEF HasWord, InOneRegion, DeviceRegion

LEMMA FallPins ==
    ASSUME DevInv, PinInv, LineInv, ClkFalls
    PROVE  /\ pins'.clk = 0 /\ pins'.mclr = pins.mclr /\ pins'.prog_en = pins.prog_en
           /\ pins' \in [mclr : {0, 1}, prog_en : {0, 1}, clk : {0, 1},
                         data : {"in", "out"}]
           /\ LineInv'
           /\ dev.state \in Receiving \cup {"READ_NVM"}
           /\ dev.state \in Receiving => line \in {0, 1} /\ Shifted \in Nat
  <1>1. pins' = [pins EXCEPT !.clk = 0] /\ line' = line
    BY DEF ClkFalls
  <1>2. LineInv'
    <2>1. \/ age' = [age EXCEPT !.fell = 0]
          \/ age' = [age EXCEPT !.fell = 0, !.latched = 0]
      BY DEF ClkFalls
    <2>2. age \in [rose : Nat, fell : Nat, changed : Nat, latched : Nat \cup {Never}]
      BY DEF LineInv
    <2>3. age' \in [rose : Nat, fell : Nat, changed : Nat, latched : Nat \cup {Never}]
      <3>1. CASE age' = [age EXCEPT !.fell = 0]
        BY <2>2, <3>1
      <3>2. CASE age' = [age EXCEPT !.fell = 0, !.latched = 0]
        BY <2>2, <3>2
      <3> QED
        BY <2>1, <3>1, <3>2
    <2> QED
      BY <1>1, <2>3 DEF LineInv
  <1>3. dev.state \in Receiving \cup {"READ_NVM"}
    BY ReceivesAre DEF ClkFalls, FallAccepted
  <1>4. dev.state \in Receiving => line \in {0, 1} /\ Shifted \in Nat
    <2>1. dev.state \in Receiving => line \in {0, 1}
      BY ReceivesAre DEF ClkFalls, FallAccepted, LineInv
    <2>2. PICK x : x = dev.data
      OBVIOUS
    <2>3. x \in Nat
      BY <2>2 DEF DevInv, Device
    <2>4. Shifted = 2 * x + line
      BY <2>2 DEF Shifted
    <2> QED
      BY <2>1, <2>3, <2>4
  <1> QED
    BY <1>1, <1>2, <1>3, <1>4 DEF PinInv

LEMMA OnDataKeeps ==
    ASSUME DevInv, PinInv, LineInv, ClkFalls, dev.state \in Receiving, LastBit
    PROVE  DevInv' /\ dev'.state \in DeviceState \ {"IDLE", "PROG_EN"}
  <1>1. PICK b \in Nat : b = Shifted
    BY FallPins
  <1>2. dev' = OnData(b)
    BY <1>1 DEF ClkFalls, Receiving
  <1>3. dev \in Device /\ b \div 2 \in Nat
    BY DEF DevInv
  <1>4. ASSUME NEW d \in Device, NEW ts \in Nat, dev' = ToProgramming(d, ts)
        PROVE  DevInv' /\ dev'.state \in DeviceState \ {"IDLE", "PROG_EN"}
    <2>1. dev' \in Device /\ dev'.state = "PROGRAMMING" /\ dev'.cnt = 0
      BY <1>4, BackToProgramming
    <2> QED
      BY <2>1 DEF DevInv, Receiving, DeviceState
  <1>5. CASE dev.state = "MCLR"
    <2>1. dev' = ToProgramming(dev, Hold) /\ Hold \in Nat
      BY <1>2, <1>5 DEF OnData, Hold
    <2> QED
      BY <1>3, <1>4, <2>1
  <1>6. CASE dev.state = "COMMAND_PREAMBLE"
    <2>1. CodeAccepted(b)
      <3>1. dev.state \in DOMAIN Receives
        BY ReceivesAre
      <3> QED
        BY <1>1, <1>6, <3>1 DEF ClkFalls, FallAccepted
    <2>2. dev' = Decoded(b)
      BY <1>2, <1>6 DEF OnData
    <2>3. /\ b \in {128, 24, 248, 192, 224, 252, 254}
          /\ Coded(dev', b)
          /\ b \in {248, 192, 224, 252, 254} => HasWord
          /\ b \in {192, 224, 252, 254} => InOneRegion
      BY <2>1, <2>2, DecodedIs
    <2>4. /\ dev' \in Device /\ dev'.pc = dev.pc
          /\ b \in {128, 24, 248, 192, 224} =>
                /\ dev'.cnt = 0
                /\ dev'.state \in {"LOAD_PC", "BULK_ERASE", "INC_PC", "WRITE"}
                /\ dev'.state = "INC_PC" => b = 248
                /\ dev'.state = "WRITE" => b \in {192, 224}
          /\ b \in {252, 254} => dev'.state = "READ_NVM" /\ dev'.cnt = 24
      BY <2>3 DEF Coded
    <2>5. (HasWord => HasWord') /\ (InOneRegion => InOneRegion')
      BY <2>4, WordKept
    <2>6. CASE b \in {252, 254}
      BY <2>3, <2>4, <2>5, <2>6 DEF DevInv, Receiving, DeviceState
    <2>7. CASE b \in {128, 24, 248, 192, 224}
      <3>1. dev'.state \in Receiving => dev'.cnt < Receives'[dev'.state]
        BY <2>4, <2>7, ReceivesAre DEF Receiving
      <3> QED
        BY <2>3, <2>4, <2>5, <2>7, <3>1 DEF DevInv, Receiving, DeviceState
    <2> QED
      BY <2>3, <2>6, <2>7
  <1>7. CASE dev.state = "LOAD_PC"
    <2>1. PICK a \in Nat : a = (b \div 2) % 4194304
      BY <1>3
    <2>2. PICK d : d = [dev EXCEPT !.pc = a]
      OBVIOUS
    <2>3. dev' = ToProgramming(d, Dly)
      BY <1>2, <1>7, <2>1, <2>2 DEF OnData
    <2>4. d \in Device /\ Dly \in Nat
      BY <1>3, <2>2 DEF Device, Dly
    <2> QED
      BY <1>4, <2>3, <2>4
  <1>8. CASE dev.state = "WRITE"
    <2>1. PICK d, ts : d = Stored(b \div 2) /\ ts = 10 * DeviceRegion.t_PROG_us
      OBVIOUS
    <2>2. HasWord /\ InOneRegion
      BY <1>8 DEF DevInv
    <2>3. d \in Device
      BY <1>3, <2>1, <2>2, StoredTyped
    <2>4. ts \in Nat
      BY <2>1, <2>2, DeviceWord
    <2>5. dev' = ToProgramming(d, ts)
      BY <1>2, <1>8, <2>1 DEF OnData
    <2> QED
      BY <1>4, <2>3, <2>4, <2>5
  <1>9. CASE dev.state = "BULK_ERASE"
    <2>1. dev' = ToProgramming(Erased(b \div 2), 10 * T_ERAB)
      BY <1>2, <1>9 DEF OnData
    <2>2. Erased(b \div 2) \in Device /\ 10 * T_ERAB \in Nat
      BY ErasedTyped DEF T_ERAB
    <2> QED
      BY <1>4, <2>1, <2>2
  <1> QED
    BY <1>5, <1>6, <1>7, <1>8, <1>9 DEF Receiving

LEMMA FallKeeps ==
    ASSUME DevInv, PinInv, LineInv, ClkFalls
    PROVE  DevInv' /\ PinInv' /\ LineInv'
  <1>1. /\ pins'.clk = 0 /\ pins'.mclr = pins.mclr /\ pins'.prog_en = pins.prog_en
        /\ pins' \in [mclr : {0, 1}, prog_en : {0, 1}, clk : {0, 1}, data : {"in", "out"}]
        /\ LineInv'
        /\ dev.state \in Receiving \cup {"READ_NVM"}
        /\ dev.state \in Receiving => line \in {0, 1} /\ Shifted \in Nat
    BY FallPins
  <1>2. DevInv' /\ dev'.state \in DeviceState \ {"IDLE", "PROG_EN"}
    <2>1. CASE dev.state = "READ_NVM" /\ dev.cnt > 0
      <3>1. dev' = dev
        BY <2>1 DEF ClkFalls
      <3>2. /\ dev \in Device /\ dev.cnt \in Nat /\ dev.cnt <= 24 /\ dev.cnt # 0
            /\ HasWord /\ InOneRegion
        BY <2>1 DEF DevInv, Device
      <3>3. HasWord' /\ InOneRegion'
        BY <3>1, <3>2, WordKept
      <3> QED
        BY <2>1, <3>1, <3>2, <3>3 DEF DevInv, Receiving, DeviceState
    <2>2. CASE dev.state = "READ_NVM" /\ ~ (dev.cnt > 0)
      <3>1. PICK a : a = PCAfter(dev.inc)
        OBVIOUS
      <3>2. a \in Nat
        <4>1. HasWord /\ InOneRegion
          BY <2>2 DEF DevInv
        <4> QED
          BY <3>1, <4>1, WordTyped
      <3>3. PICK d : d = [dev EXCEPT !.pc = a]
        OBVIOUS
      <3>4. d \in Device /\ Dly \in Nat
        BY <3>2, <3>3 DEF DevInv, Device, Dly
      <3>5. dev' = ToProgramming(d, Dly)
        BY <2>2, <3>1, <3>3 DEF ClkFalls
      <3>6. dev' \in Device /\ dev'.state = "PROGRAMMING" /\ dev'.cnt = 0
        BY <3>4, <3>5, BackToProgramming
      <3> QED
        BY <3>6 DEF DevInv, Receiving, DeviceState
    <2>3. CASE dev.state \in Receiving /\ LastBit
      BY <2>3, OnDataKeeps
    <2>4. CASE dev.state \in Receiving /\ ~ LastBit
      <3>1. PICK b \in Nat : b = Shifted
        BY <1>1, <2>4
      <3>2. dev' = [dev EXCEPT !.cnt = @ + 1, !.data = b]
        BY <2>4, <3>1 DEF ClkFalls, Receiving
      <3>3. /\ dev \in Device /\ dev.cnt \in Nat /\ dev.cnt < Receives[dev.state]
            /\ Receives[dev.state] \in {8, 24, 32}
            /\ dev.state = "WRITE" => HasWord /\ InOneRegion
        BY <2>4, ReceivesAre DEF DevInv, Device
      <3>4. /\ dev' \in Device /\ dev'.state = dev.state /\ dev'.cnt = dev.cnt + 1
            /\ dev'.pc = dev.pc
        <4>1. PICK n \in Nat : n = dev.cnt + 1
          BY <3>3
        <4>2. dev' = [dev EXCEPT !.cnt = n, !.data = b]
          BY <3>2, <4>1
        <4>3. /\ dev' \in Device /\ dev'.state = dev.state /\ dev'.cnt = n
              /\ dev'.pc = dev.pc
          <5>1. dev \in Device /\ b \in Nat
            BY <3>1, <3>3
          <5>2. PICK PCs, Mems : PCs = Nat \cup {NoPC} /\ Mems = [MapAddrs(Map) -> 0 .. 255]
            OBVIOUS
          <5>3. Device = [state : DeviceState, cnt : Nat, data : Nat, inc : BOOLEAN,
                          ts : Nat, pc : PCs, mem : Mems]
            BY <5>2, Zenon DEF Device
          <5> QED
            BY <4>2, <5>1, <5>3
        <4> QED
          BY <4>1, <4>3
      <3>5. dev.cnt + 1 < Receives[dev.state]
        BY <2>4, <3>3 DEF LastBit
      <3>6. (HasWord => HasWord') /\ (InOneRegion => InOneRegion')
        BY <3>4, WordKept
      <3>7. Receives'[dev'.state] = Receives[dev.state]
        BY <3>4 DEF Receives
      <3> QED
        BY <2>4, <3>3, <3>4, <3>5, <3>6, <3>7 DEF DevInv, Receiving, DeviceState
    <2> QED
      BY <1>1, <2>1, <2>2, <2>3, <2>4
  <1>3. PinInv'
    <2>1. pins.mclr = 0 /\ pins.prog_en = 1
      BY <1>1 DEF PinInv, Receiving
    <2> QED
      BY <1>1, <1>2, <2>1 DEF PinInv
  <1> QED
    BY <1>1, <1>2, <1>3

-----------------------------------------------------------------------------
(* What each call does. *)
LEMMA CallDoes ==
    ASSUME ScriptInv, MakeCall
    PROVE  /\ script # <<>>
           /\ Call.do = "clk" =>
                 /\ UNCHANGED got
                 /\ \/ pins.clk = Call.level /\ UNCHANGED <<pins, line, age, dev>>
                    \/ Call.level = 1 /\ ClkRises
                    \/ Call.level = 0 /\ ClkFalls
           /\ Call.do \in {"mclr", "prog_en"} =>
                 /\ UNCHANGED got
                 /\ \/ pins[Call.do] = Call.level /\ UNCHANGED <<pins, line, age, dev>>
                    \/ Control(Call.do)
           /\ Call.do = "write" => UNCHANGED got /\ DataWritten
           /\ Call.do = "mode"  => UNCHANGED got /\ DataMode
           /\ Call.do = "delay" => UNCHANGED got /\ Delay
           /\ Call.do = "read"  => DataRead
           /\ Call.do \in {"clk", "mclr", "prog_en", "write", "mode", "delay", "read"}
  <1>1. CASE DataRead
    BY <1>1 DEF DataRead, AtCall
  <1>2. CASE NoEdge /\ UNCHANGED got
    BY <1>2 DEF NoEdge, IsControl
  <1>3. CASE (ClkRises \/ ClkFalls) /\ UNCHANGED got
    BY <1>3 DEF ClkRises, ClkFalls, AtCall
  <1>4. CASE DataWritten /\ UNCHANGED got
    BY <1>4 DEF DataWritten, AtCall
  <1>5. CASE DataMode /\ UNCHANGED got
    BY <1>5 DEF DataMode, AtCall
  <1>6. CASE Delay /\ UNCHANGED got
    BY <1>6 DEF Delay, AtCall
  <1>7. ASSUME NEW name \in {"mclr", "prog_en"}, Control(name), UNCHANGED got
        PROVE  script # <<>> /\ Call.do = name
    BY <1>7 DEF Control, AtCall
  <1>8. CASE (\E name \in {"mclr", "prog_en"} : Control(name)) /\ UNCHANGED got
    BY <1>7, <1>8
  <1> QED
    BY <1>1, <1>2, <1>3, <1>4, <1>5, <1>6, <1>8 DEF MakeCall

LEMMA WrittenKeeps ==
    ASSUME ScriptInv, DevInv, PinInv, LineInv, DataWritten
    PROVE  DevInv' /\ PinInv' /\ LineInv'
  <1>1. PICK h \in HostCall : h = Head(script) /\ script # <<>>
    BY CallKinds DEF DataWritten, AtCall
  <1>2. Call.do = "write"
    BY DEF DataWritten, AtCall
  <1>3. h.do = "send" /\ Clocks(h)
    <2>1. CASE ~ Clocks(h)
      <3>1. h.do # "write"
        BY DEF HostCall
      <3> QED
        BY <1>1, <1>2, <2>1, <3>1, CallKinds
    <2>2. CASE h.do = "receive"
      <3>1. Clocks(h)
        BY <2>2 DEF Clocks
      <3>2. /\ Pin("clk", 1).do = "clk" /\ Pin("clk", 0).do = "clk"
            /\ Wait(2).do = "delay" /\ ReadData.do = "read"
        BY DEF Pin, Wait, ReadData
      <3>3. step \in {1, 2, 3, 4, 5} /\ Call = BitCalls(h, bit)[step]
        BY <1>1, <3>1, CallKinds DEF ScriptInv
      <3> QED
        BY <1>2, <2>2, <3>1, <3>2, <3>3, BitCallsAre
    <2> QED
      BY <2>1, <2>2 DEF Clocks
  <1>4. step = 2
    <2>1. /\ Pin("clk", 1).do = "clk" /\ Pin("clk", 0).do = "clk"
          /\ Wait(2).do = "delay"
      BY DEF Pin, Wait
    <2>2. step \in {1, 2, 3, 4, 5} /\ Call = BitCalls(h, bit)[step]
      BY <1>1, <1>3, CallKinds DEF ScriptInv
    <2> QED
      BY <1>2, <1>3, <2>1, <2>2, BitCallsAre
  <1>5. bit \in Nat /\ bit < 8 * Len(h.bytes) /\ h.bytes \in Bytes
    <2>1. bit < Bits(h)
      BY <1>1, <1>3 DEF ScriptInv, LoopAt, Looping
    <2>2. h.bytes \in Bytes
      BY <1>3 DEF HostCall
    <2> QED
      BY <1>3, <2>1, <2>2 DEF Bits, ScriptInv
  <1>6. line' = BitOf(h.bytes, bit)
    <2>1. Call = BitCalls(h, bit)[2]
      BY <1>1, <1>3, <1>4, CallKinds
    <2>2. Call.level = BitOf(h.bytes, bit)
      <3>1. Call = WriteData(BitOf(h.bytes, bit))
        BY <1>3, <2>1, BitCallsAre
      <3> QED
        BY <3>1 DEF WriteData
    <2> QED
      BY <2>2 DEF DataWritten
  <1>7. BitOf(h.bytes, bit) \in {0, 1}
    <2>1. PICK n \in {1, 3, 4} : n = Len(h.bytes) /\ h.bytes \in Seq(0 .. 255)
      BY <1>5 DEF Bytes
    <2>2. bit \div 8 + 1 \in 1 .. n
      BY <1>5, <2>1
    <2>3. PICK x : x = h.bytes[bit \div 8 + 1]
      OBVIOUS
    <2>4. x \in Nat
      <3>1. h.bytes[bit \div 8 + 1] \in 0 .. 255
        BY <2>1, <2>2, ElementOfSeq
      <3> QED
        BY <2>3, <3>1
    <2>5. PICK i : i = 8 - (bit % 8)
      OBVIOUS
    <2>6. i \in 1 .. 16
      BY <1>5, <2>5
    <2>7. BitOf(h.bytes, bit) = (x \div Weight[i]) % 2
      BY <2>3, <2>5 DEF BitOf
    <2> QED
      BY <2>4, <2>6, <2>7, WeightsAre, BitTyped
  <1>8. LineInv'
    BY <1>6, <1>7 DEF LineInv, DataWritten
  <1>9. pins' = pins /\ dev' = dev
    BY DEF DataWritten
  <1> QED
    BY <1>8, <1>9 DEF DevInv, PinInv, HasWord, InOneRegion, DeviceRegion

LEMMA ModeKeeps ==
    ASSUME ScriptInv, DevInv, PinInv, LineInv, DataMode
    PROVE  DevInv' /\ PinInv' /\ LineInv'
  <1>1. Call.mode \in {"in", "out"}
    BY CallKinds DEF DataMode, AtCall
  <1>2. PICK m \in {"in", "out"} : m = Call.mode
    BY <1>1
  <1>3. pins' = [pins EXCEPT !.data = m] /\ dev' = dev
    BY <1>2 DEF DataMode
  <1>4. PinInv'
    BY <1>3 DEF PinInv
  <1>5. DevInv'
    BY <1>3 DEF DevInv, PinInv, HasWord, InOneRegion, DeviceRegion
  <1>6. LineInv'
    <2>1. age \in [rose : Nat, fell : Nat, changed : Nat, latched : Nat \cup {Never}]
      BY DEF LineInv
    <2>2. CASE m = "out"
      <3>1. line' = 0 /\ age' = [age EXCEPT !.changed = 0, !.latched = Never]
        BY <1>2, <2>2 DEF DataMode
      <3> QED
        BY <2>1, <3>1 DEF LineInv
    <2>3. CASE m # "out" /\ pins.data = "out"
      <3>1. line' = NoLevel /\ age' = [age EXCEPT !.changed = 0]
        BY <1>2, <2>3 DEF DataMode
      <3> QED
        BY <2>1, <3>1 DEF LineInv
    <2>4. CASE m # "out" /\ pins.data # "out"
      <3>1. line' = line /\ age' = age
        BY <1>2, <2>4 DEF DataMode
      <3> QED
        BY <3>1 DEF LineInv
    <2> QED
      BY <2>2, <2>3, <2>4
  <1> QED
    BY <1>4, <1>5, <1>6

LEMMA ElapsedTyped ==
    ASSUME NEW t \in Nat \cup {Never}, NEW us \in Nat
    PROVE  /\ Elapsed(t, us) \in Nat \cup {Never}
           /\ t \in Nat => Elapsed(t, us) \in Nat
  BY DEF Elapsed, Never, Cap

LEMMA DelayKeeps ==
    ASSUME ScriptInv, DevInv, PinInv, LineInv, Delay
    PROVE  DevInv' /\ PinInv' /\ LineInv'
  <1>1. Call.us \in Nat
    BY CallKinds DEF Delay, AtCall
  <1>2. PICK us \in Nat : us = Call.us
    BY <1>1
  <1>3. age \in [rose : Nat, fell : Nat, changed : Nat, latched : Nat \cup {Never}]
    BY DEF LineInv
  <1>4. age' = [e \in DOMAIN age |-> Elapsed(age[e], us)]
    BY <1>2 DEF Delay
  <1>5. \A e \in {"rose", "fell", "changed"} : Elapsed(age[e], us) \in Nat
    BY <1>3, ElapsedTyped
  <1>6. Elapsed(age["latched"], us) \in Nat \cup {Never}
    BY <1>3, ElapsedTyped
  <1>7. /\ DOMAIN age' = {"rose", "fell", "changed", "latched"}
        /\ age' = [e \in {"rose", "fell", "changed", "latched"} |-> age'[e]]
        /\ \A e \in {"rose", "fell", "changed"} : age'[e] \in Nat
        /\ age'["latched"] \in Nat \cup {Never}
    <2>1. DOMAIN age = {"rose", "fell", "changed", "latched"}
      BY <1>3
    <2> QED
      BY <1>4, <1>5, <1>6, <2>1
  <1>8. LineInv'
    <2>1. age' \in [rose : Nat, fell : Nat, changed : Nat, latched : Nat \cup {Never}]
      BY <1>7
    <2> QED
      BY <2>1 DEF LineInv, Delay
  <1>9. pins' = pins /\ dev' = dev
    BY DEF Delay
  <1> QED
    BY <1>8, <1>9 DEF DevInv, PinInv, HasWord, InOneRegion, DeviceRegion

LEMMA ControlKeeps ==
    ASSUME ScriptInv, DevInv, PinInv, LineInv,
           NEW name \in {"mclr", "prog_en"}, Control(name)
    PROVE  DevInv' /\ PinInv' /\ LineInv'
  <1>1. PICK v \in {0, 1} : v = Call.level
    BY CallKinds DEF Control, AtCall
  <1>2. /\ ControlAccepted(name, v) /\ pins[name] # v
        /\ dev' = Controlled(name, v) /\ pins' = [pins EXCEPT ![name] = v]
        /\ line' = line /\ age' = age
    BY <1>1 DEF Control
  <1>3. LineInv'
    BY <1>2 DEF LineInv
  <1>4. dev \in Device
    BY DEF DevInv
  <1>5. ASSUME NEW st \in {"IDLE", "PROG_EN", "MCLR"}, dev' = To(dev, st)
        PROVE  DevInv' /\ dev'.state = st
    <2>1. dev' \in Device /\ dev'.state = st /\ dev'.cnt = 0
      <3>1. st \in DeviceState
        BY DEF DeviceState
      <3>2. To(dev, st) \in Device /\ To(dev, st).state = st /\ To(dev, st).cnt = 0
        BY <1>4, <3>1, BackTo
      <3> QED
        BY <1>5, <3>2
    <2> QED
      BY <2>1, ReceivesAre DEF DevInv, Receiving
  <1>6. CASE name = "mclr" /\ v = 1
    <2>1. dev' = To(dev, "PROG_EN") /\ pins.mclr = 0 /\ pins.prog_en = 1
      BY <1>2, <1>6 DEF Controlled, PinInv
    <2>2. DevInv' /\ dev'.state = "PROG_EN"
      BY <1>5, <2>1
    <2>3. PinInv'
      BY <1>2, <1>6, <2>1, <2>2 DEF PinInv
    <2> QED
      BY <1>3, <2>2, <2>3
  <1>7. CASE name = "mclr" /\ v = 0
    <2>1. dev' = To(dev, "MCLR") /\ dev.state = "PROG_EN"
      BY <1>2, <1>7 DEF Controlled, ControlAccepted
    <2>2. DevInv' /\ dev'.state = "MCLR"
      BY <1>5, <2>1
    <2>3. PinInv'
      BY <1>2, <1>7, <2>1, <2>2 DEF PinInv
    <2> QED
      BY <1>3, <2>2, <2>3
  <1>8. CASE name = "prog_en" /\ v = 1
    <2>1. dev' = To(dev, "PROG_EN") /\ dev.state = "IDLE"
      BY <1>2, <1>8 DEF Controlled, ControlAccepted
    <2>2. DevInv' /\ dev'.state = "PROG_EN"
      BY <1>5, <2>1
    <2>3. PinInv'
      BY <1>2, <1>8, <2>1, <2>2 DEF PinInv
    <2> QED
      BY <1>3, <2>2, <2>3
  <1>9. CASE name = "prog_en" /\ v = 0
    <2>1. dev' = To(dev, "IDLE") /\ dev.state = "PROG_EN"
      BY <1>2, <1>9 DEF Controlled, ControlAccepted
    <2>2. DevInv' /\ dev'.state = "IDLE"
      BY <1>5, <2>1
    <2>3. PinInv'
      BY <1>2, <1>9, <2>1, <2>2 DEF PinInv
    <2> QED
      BY <1>3, <2>2, <2>3
  <1> QED
    BY <1>6, <1>7, <1>8, <1>9

LEMMA CallKeeps ==
    ASSUME ScriptInv, DevInv, PinInv, LineInv, MakeCall
    PROVE  DevInv' /\ PinInv' /\ LineInv'
  <1>1. ASSUME UNCHANGED <<pins, line, age, dev>>
        PROVE  DevInv' /\ PinInv' /\ LineInv'
    BY <1>1 DEF DevInv, PinInv, LineInv, HasWord, InOneRegion, DeviceRegion
  <1>2. CASE Call.do = "clk"
    <2>1. \/ UNCHANGED <<pins, line, age, dev>> \/ ClkRises \/ ClkFalls
      BY <1>2, CallDoes
    <2> QED
      BY <1>1, <2>1, RiseKeeps, FallKeeps
  <1>3. CASE Call.do \in {"mclr", "prog_en"}
    <2>1. UNCHANGED <<pins, line, age, dev>> \/ Control(Call.do)
      BY <1>3, CallDoes
    <2> QED
      BY <1>1, <1>3, <2>1, ControlKeeps
  <1>4. CASE Call.do = "write"
    BY <1>4, CallDoes, WrittenKeeps
  <1>5. CASE Call.do = "mode"
    BY <1>5, CallDoes, ModeKeeps
  <1>6. CASE Call.do = "delay"
    BY <1>6, CallDoes, DelayKeeps
  <1>7. CASE Call.do = "read"
    <2>1. UNCHANGED <<pins, line, age, dev>>
      BY <1>7, CallDoes DEF DataRead
    <2> QED
      BY <1>1, <2>1
  <1> QED
    BY <1>2, <1>3, <1>4, <1>5, <1>6, <1>7, CallDoes

-----------------------------------------------------------------------------
(* Where a scope stands. *)
LEMMA PlaceKept ==
    ASSUME ScriptInv, Advance, script # <<>>, UNCHANGED <<stage, op>>
    PROVE  /\ ScriptInv'
           /\ \A us \in Nat : Within(us) => Within(us)'
  <1>1. PICK s, t : s = script /\ t = script'
    OBVIOUS
  <1>2. s \in Seq(HostCall) /\ s # <<>> /\ t \in {s, Tail(s)}
    BY <1>1, Advances DEF ScriptInv
  <1>3. ASSUME NEW us \in Nat, Within(us)
        PROVE  t \in Seq(HostCall) /\ Within(us)'
    <2>1. PICK w : w = Plan(stage, op, us)
      OBVIOUS
    <2>2. w \in Seq(HostCall) /\ EndOf(s, w)
      <3>1. stage = "command" => op \in RequestType
        BY Requested DEF ScriptInv
      <3> QED
        BY <1>1, <1>3, <2>1, <3>1, PlanTyped DEF Within
    <2>3. t \in Seq(HostCall) /\ EndOf(t, w)
      BY <1>2, <2>2, EndOfTail
    <2>4. w = Plan(stage', op', us)
      BY <2>1
    <2> QED
      BY <1>1, <2>3, <2>4 DEF Within
  <1>4. PICK us \in Nat : Within(us)
    BY DEF ScriptInv
  <1>5. script' \in Seq(HostCall) /\ Within(us)'
    BY <1>1, <1>3, <1>4
  <1>6. step' \in 1 .. 5 /\ bit' \in Nat /\ LoopAt(script', bit', step')
    BY Advances
  <1>7. ScriptInv'
    BY <1>5, <1>6 DEF ScriptInv
  <1> QED
    BY <1>1, <1>3, <1>7

LEMMA ScopeStarts ==
    ASSUME NEW st \in Stage, NEW us \in Nat, stage' = st,
           op' \in Requests \cup {NoRequest}, st = "command" => op' \in Requests,
           script' = Plan(st, op', us), bit' = 0, step' = 1
    PROVE  ScriptInv' /\ Within(us)'
  <1>1. PICK s, c : s = script' /\ c = op'
    OBVIOUS
  <1>2. st = "command" => c \in RequestType
    BY <1>1, Requested
  <1>3. s \in Seq(HostCall) /\ EndOf(s, Plan(st, c, us))
    BY <1>1, <1>2, Started
  <1>4. LoopAt(s, 0, 1)
    BY <1>3, LoopStarts
  <1>5. Within(us)'
    BY <1>1, <1>3 DEF Within
  <1> QED
    BY <1>1, <1>3, <1>4, <1>5 DEF ScriptInv

LEMMA NothingLeft ==
    ASSUME ScriptInv
    PROVE  /\ script = <<>> => bit = 0 /\ step = 1
           /\ stage \notin {"enter", "command", "restore", "guard", "header"} =>
                 script = <<>>
  <1>1. script = <<>> => bit = 0 /\ step = 1
    BY DEF ScriptInv, LoopAt, Looping
  <1>2. CASE stage \notin {"enter", "command", "restore", "guard", "header"}
    <2>1. PICK us \in Nat : Within(us)
      BY DEF ScriptInv
    <2>2. Plan(stage, op, us) = <<>>
      BY <1>2 DEF Plan
    <2>3. Len(script) <= Len(<<>>) /\ script \in Seq(HostCall)
      BY <2>1, <2>2 DEF Within, EndOf, ScriptInv
    <2> QED
      BY <1>1, <2>3, EmptySeq, LenProperties
  <1> QED
    BY <1>1, <1>2

(* Where a scope goes. *)
LEMMA EnterGoes ==
    ASSUME ScriptInv, Enter
    PROVE  ScriptInv' /\ Within(0)'
  <1>1. /\ stage' = "enter" /\ script' = Plan("enter", op', 0)
        /\ bit' = 0 /\ step' = 1 /\ op' = op
    BY NothingLeft DEF Enter, Plan
  <1> QED
    BY <1>1, ScopeStarts DEF Stage, ScriptInv

LEMMA LeaveGoes ==
    ASSUME ScriptInv, Leave
    PROVE  ScriptInv' /\ Within(0)'
  <1>1. /\ stage' = "guard" /\ script' = Plan("guard", op', 0)
        /\ bit' = 0 /\ step' = 1 /\ op' = op
    BY NothingLeft DEF Leave, Plan
  <1> QED
    BY <1>1, ScopeStarts DEF Stage, ScriptInv

LEMMA AskGoes ==
    ASSUME ScriptInv, DevInv, NEW c \in Requests, Ask(c),
           NEW us, us = WaitFor(c, WithRegion(Map, PCSeen))
    PROVE  us \in Nat /\ ScriptInv' /\ Within(us)'
  <1>2. c \in RequestType /\ us \in Nat /\ Asked(c) = CommandCalls(c, us)
    BY Requested, WaitTyped, AskedCalls DEF Ask
  <1>3. /\ stage' = "command" /\ op' = c /\ script' = Plan("command", op', us)
        /\ bit' = 0 /\ step' = 1
    BY <1>2, NothingLeft DEF Ask, Plan
  <1>4. ScriptInv' /\ Within(us)'
    BY <1>2, <1>3, ScopeStarts DEF Stage
  <1> QED
    BY <1>2, <1>4

LEMMA RaiseGoes ==
    ASSUME ScriptInv, NEW e, Raise(e)
    PROVE  /\ ScriptInv' /\ stage' \in {"terminated", "header", "restore", "guard"}
           /\ stage' = "header" => script' = CleanupGpio
  <1>1. PICK st \in {"terminated", "header", "restore", "guard"} :
           /\ stage' = st /\ script' = Plan(st, op', 0)
           /\ st = "header" => script' = CleanupGpio
    BY DEF Raise, Unwind, Plan
  <1>2. bit' = 0 /\ step' = 1 /\ op' = NoRequest
    BY DEF Raise
  <1>3. ScriptInv'
    BY <1>1, <1>2, ScopeStarts DEF Stage
  <1> QED
    BY <1>1, <1>3

LEMMA EndGoes ==
    ASSUME ScriptInv, EndStage
    PROVE  /\ ScriptInv' /\ Within(0)'
           /\ stage = "header" => stage' = "over"
           /\ stage = "guard" => stage' = "header" /\ script' = CleanupGpio
           /\ stage = "restore" => stage' = "guard"
           /\ stage \in {"enter", "command"} => stage' = "ready"
           /\ stage \in {"header", "guard", "restore", "enter", "command"}
  <1>1. /\ stage \in {"header", "guard", "restore", "enter", "command"}
        /\ stage = "header" => stage' = "over"
        /\ stage = "guard" => stage' = "header"
        /\ stage = "restore" => stage' = "guard"
        /\ stage \in {"enter", "command"} => stage' = "ready"
    BY DEF EndStage, AfterStage
  <1>2. PICK st \in Stage : stage' = st
    BY <1>1 DEF Stage
  <1>3. /\ script' = Plan(st, op', 0) /\ op' = NoRequest
        /\ st = "header" => script' = CleanupGpio
        /\ st # "command"
    BY <1>1, <1>2 DEF EndStage, Plan
  <1>4. bit' = 0 /\ step' = 1
    BY NothingLeft DEF EndStage
  <1>5. ScriptInv' /\ Within(0)'
    BY <1>2, <1>3, <1>4, ScopeStarts
  <1> QED
    BY <1>1, <1>2, <1>3, <1>5

-----------------------------------------------------------------------------
(* The destructor of the header puts the pins back one after the other. *)
Idle == [mclr |-> 1, prog_en |-> 0, clk |-> 0, data |-> "out"]

HeaderInv ==
    /\ stage = "header" =>
          /\ script = <<>> \/ Left \in 1 .. 4
          /\ script # <<>> => ~ Looping(script) /\ Head(script) = CleanupGpio[5 - Left]
          /\ Left <= 3 => pins.mclr = 1
          /\ Left <= 2 => pins.clk = 0
          /\ Left <= 1 => pins.data = "out"
          /\ Left = 0 => pins.prog_en = 0
    /\ stage = "over" => pins = Idle

WireInv == ScriptInv /\ DevInv /\ PinInv /\ LineInv /\ HeaderInv

LEMMA HeaderStarts ==
    ASSUME script' = CleanupGpio, stage' = "header"
    PROVE  HeaderInv'
  <1>1. /\ script' \in Seq(HostCall) /\ Left' = 4 /\ Head(script') = CleanupGpio[1]
        /\ script' # <<>>
    BY CleanupCalls, EmptySeq, HeadTailProperties DEF Left
  <1>2. CleanupGpio[1].do = "mclr"
    BY CleanupCalls DEF Pin
  <1>3. ~ Looping(script')
    BY <1>1, <1>2 DEF Looping, Clocks
  <1> QED
    BY <1>1, <1>3 DEF HeaderInv

(* The next call of cleanup_gpio, and what is left behind it. *)
LEMMA HeaderCall ==
    ASSUME ScriptInv, HeaderInv, stage = "header", script # <<>>, Advance
    PROVE  /\ Left \in 1 .. 4 /\ Call = CleanupGpio[5 - Left]
           /\ script' = Tail(script) /\ Left' = Left - 1
           /\ script' \in Seq(HostCall)
           /\ script' # <<>> => /\ ~ Looping(script')
                                /\ Head(script') = CleanupGpio[5 - Left']
                                /\ Left' \in 1 .. 4
  <1>1. PICK us \in Nat : Within(us)
    BY DEF ScriptInv
  <1>2. /\ script \in Seq(HostCall) /\ EndOf(script, CleanupGpio)
        /\ CleanupGpio \in Seq(HostCall) /\ Len(CleanupGpio) = 4
    BY <1>1, CleanupCalls DEF Within, Plan, ScriptInv
  <1>3. /\ ~ Looping(script) /\ Left \in 1 .. 4 /\ Head(script) = CleanupGpio[5 - Left]
    BY DEF HeaderInv
  <1>4. Call = CleanupGpio[5 - Left]
    BY <1>3 DEF Looping, Call
  <1>5. PICK t : t = script' /\ t = Tail(script)
    BY <1>3, Advances
  <1>6. /\ t \in Seq(HostCall) /\ Len(t) = Left - 1 /\ EndOf(t, CleanupGpio)
    BY <1>2, <1>5, EndOfTail DEF Left
  <1>7. ASSUME t # <<>>
        PROVE  ~ Looping(t) /\ Len(t) \in 1 .. 4 /\ Head(t) = CleanupGpio[5 - Len(t)]
    <2>1. PICK w, n : w = CleanupGpio /\ n = Len(t)
      OBVIOUS
    <2>4. w \in Seq(HostCall) /\ EndOf(t, w) /\ Len(w) = 4
      BY <1>2, <1>6, <2>1
    <2>5. Head(t) = w[Len(w) - Len(t) + 1] /\ Len(t) \in 1 .. Len(w)
      BY <1>6, <1>7, <2>4, EndOfTail
    <2>6. n \in 1 .. 4 /\ Head(t) = w[4 - n + 1]
      BY <2>1, <2>4, <2>5
    <2>7. 4 - n + 1 = 5 - n /\ 5 - n \in {1, 2, 3, 4}
      BY <2>6
    <2>2. Head(t) = CleanupGpio[5 - Len(t)] /\ 5 - Len(t) \in {1, 2, 3, 4}
      BY <2>1, <2>6, <2>7
    <2>3. Head(t).do \in {"mclr", "clk", "mode", "prog_en"}
      BY <2>2, CleanupCalls DEF Pin, Mode
    <2> QED
      BY <2>1, <2>2, <2>3, <2>6 DEF Looping, Clocks
  <1> QED
    BY <1>3, <1>4, <1>5, <1>6, <1>7 DEF Left

(* A call that sets a pin leaves it so. *)
LEMMA PinIsSet ==
    ASSUME ScriptInv, PinInv, MakeCall
    PROVE  /\ \A n \in {"mclr", "prog_en", "clk"}, v \in {0, 1} :
                 Call = Pin(n, v) => pins' = [pins EXCEPT ![n] = v]
           /\ \A m \in {"in", "out"} : Call = Mode(m) => pins' = [pins EXCEPT !.data = m]
           /\ Call.do \in {"delay", "write", "read"} => pins' = pins
  <1>1. pins \in [mclr : {0, 1}, prog_en : {0, 1}, clk : {0, 1}, data : {"in", "out"}]
    BY DEF PinInv
  <1>2. ASSUME NEW n \in {"mclr", "prog_en", "clk"}, NEW v \in {0, 1}, Call = Pin(n, v)
        PROVE  pins' = [pins EXCEPT ![n] = v]
    <2>1. Call.do = n /\ Call.level = v
      BY <1>2 DEF Pin
    <2>2. CASE pins[n] = v /\ pins' = pins
      BY <1>1, <2>2
    <2>4. CASE Control(n)
      BY <2>1, <2>4 DEF Control
    <2>5. CASE n = "clk"
      <3>1. /\ Call.do = "clk" /\ Call.level = v
        BY <2>1, <2>5
      <3>2. \/ pins.clk = v /\ pins' = pins
            \/ v = 1 /\ ClkRises
            \/ v = 0 /\ ClkFalls
        BY <3>1, CallDoes
      <3> QED
        <4>1. CASE pins.clk = v /\ pins' = pins
          BY <2>2, <2>5, <4>1
        <4>2. CASE v = 1 /\ ClkRises
          BY <2>5, <4>2 DEF ClkRises
        <4>3. CASE v = 0 /\ ClkFalls
          BY <2>5, <4>3 DEF ClkFalls
        <4> QED
          BY <3>2, <4>1, <4>2, <4>3
    <2>6. CASE n \in {"mclr", "prog_en"}
      BY <2>1, <2>2, <2>4, <2>6, CallDoes
    <2> QED
      BY <2>5, <2>6
  <1>3. ASSUME NEW m \in {"in", "out"}, Call = Mode(m)
        PROVE  pins' = [pins EXCEPT !.data = m]
    <2>1. Call.do = "mode" /\ Call.mode = m
      BY <1>3 DEF Mode
    <2>2. DataMode
      BY <2>1, CallDoes
    <2> QED
      BY <2>1, <2>2 DEF DataMode
  <1>4. Call.do \in {"delay", "write", "read"} => pins' = pins
    BY CallDoes DEF DataWritten, DataRead, Delay
  <1> QED
    BY <1>2, <1>3, <1>4

LEMMA HeaderKept ==
    ASSUME WireInv, MakeCall
    PROVE  HeaderInv'
  <1>1. stage' = stage /\ script # <<>> /\ Advance
    BY CallDoes DEF MakeCall, WireInv
  <1>2. CASE stage = "header"
    <2>1. PICK n \in {1, 2, 3, 4} : n = Left
      BY <1>1, <1>2, HeaderCall DEF WireInv
    <2>2. /\ Call = CleanupGpio[5 - n] /\ Left' = n - 1
          /\ script' \in Seq(HostCall)
          /\ script' # <<>> => /\ ~ Looping(script')
                               /\ Head(script') = CleanupGpio[5 - Left']
                               /\ Left' \in 1 .. 4
      BY <1>1, <1>2, <2>1, HeaderCall DEF WireInv
    <2>3. /\ n = 4 => pins' = [pins EXCEPT !.mclr = 1]
          /\ n = 3 => pins' = [pins EXCEPT !.clk = 0]
          /\ n = 2 => pins' = [pins EXCEPT !.data = "out"]
          /\ n = 1 => pins' = [pins EXCEPT !.prog_en = 0]
      BY <2>1, <2>2, CleanupCalls, PinIsSet DEF WireInv
    <2>4. /\ pins \in [mclr : {0, 1}, prog_en : {0, 1}, clk : {0, 1},
                       data : {"in", "out"}]
          /\ n <= 3 => pins.mclr = 1
          /\ n <= 2 => pins.clk = 0
          /\ n <= 1 => pins.data = "out"
      BY <1>2, <2>1 DEF WireInv, PinInv, HeaderInv
    <2>5. /\ n - 1 <= 3 => pins'.mclr = 1
          /\ n - 1 <= 2 => pins'.clk = 0
          /\ n - 1 <= 1 => pins'.data = "out"
          /\ n - 1 = 0 => pins'.prog_en = 0
      BY <2>1, <2>3, <2>4
    <2>6. (script = <<>> \/ Left \in 1 .. 4)'
      BY <2>2
    <2> QED
      BY <1>1, <1>2, <2>2, <2>5, <2>6 DEF HeaderInv
  <1>3. CASE stage = "over"
    BY <1>1, <1>3, NothingLeft DEF WireInv
  <1>4. CASE stage \notin {"header", "over"}
    BY <1>1, <1>4 DEF HeaderInv
  <1> QED
    BY <1>2, <1>3, <1>4

LEMMA WireStarts ==
    ASSUME Init
    PROVE  WireInv
  <1>1. /\ stage = "out" /\ script = <<>> /\ bit = 0 /\ step = 1 /\ op = NoRequest
        /\ pins = Idle /\ line = 0
        /\ age = [rose |-> 0, fell |-> 0, changed |-> 0, latched |-> Never]
    BY DEF Init, Idle
  <1>2. PICK m \in Memories :
           dev = [state |-> "IDLE", cnt |-> 0, data |-> 0, inc |-> FALSE, ts |-> 0,
                  pc |-> NoPC, mem |-> m]
    BY DEF Init
  <1>3. ScriptInv
    <2>1. script \in Seq(HostCall)
      BY <1>1, EmptySeq
    <2>2. EndOf(<<>>, <<>>)
      BY EmptySeq, WholeEnds
    <2>3. Within(0)
      BY <1>1, <2>2 DEF Within, Plan
    <2>4. LoopAt(script, bit, step)
      BY <1>1 DEF LoopAt, Looping
    <2> QED
      BY <1>1, <2>1, <2>3, <2>4 DEF ScriptInv, Stage
  <1>4. DevInv
    <2>1. m \in [MapAddrs(Map) -> 0 .. 255]
      BY WireAssumption
    <2>2. dev \in Device
      BY <1>2, <2>1 DEF Device, DeviceState
    <2> QED
      BY <1>2, <2>2 DEF DevInv, Receiving
  <1>5. PinInv
    BY <1>1, <1>2 DEF PinInv, Idle
  <1>6. LineInv
    BY <1>1 DEF LineInv
  <1>7. HeaderInv
    BY <1>1 DEF HeaderInv
  <1> QED
    BY <1>3, <1>4, <1>5, <1>6, <1>7 DEF WireInv

LEMMA WireStays ==
    ASSUME WireInv, [Next]_vars
    PROVE  WireInv'
  <1>1. ScriptInv /\ DevInv /\ PinInv /\ LineInv /\ HeaderInv
    BY DEF WireInv
  <1>2. ASSUME UNCHANGED <<pins, line, age, dev>>
        PROVE  DevInv' /\ PinInv' /\ LineInv'
    BY <1>1, <1>2 DEF DevInv, PinInv, LineInv, HasWord, InOneRegion, DeviceRegion
  <1>3. CASE Enter
    <2>1. ScriptInv' /\ UNCHANGED <<pins, line, age, dev>> /\ stage' = "enter"
      BY <1>1, <1>3, EnterGoes DEF Enter
    <2> QED
      BY <1>2, <2>1 DEF WireInv, HeaderInv
  <1>4. ASSUME NEW c \in Requests, Ask(c)
        PROVE  WireInv'
    <2>1. ScriptInv' /\ UNCHANGED <<pins, line, age, dev>> /\ stage' = "command"
      BY <1>1, <1>4, AskGoes DEF Ask
    <2> QED
      BY <1>2, <2>1 DEF WireInv, HeaderInv
  <1>5. CASE Leave
    <2>1. ScriptInv' /\ UNCHANGED <<pins, line, age, dev>> /\ stage' = "guard"
      BY <1>1, <1>5, LeaveGoes DEF Leave
    <2> QED
      BY <1>2, <2>1 DEF WireInv, HeaderInv
  <1>6. CASE MakeCall
    <2>1. /\ script # <<>> /\ Advance /\ UNCHANGED <<stage, op>>
      BY <1>1, <1>6, CallDoes DEF MakeCall
    <2> QED
      BY <1>1, <1>6, <2>1, PlaceKept, CallKeeps, HeaderKept DEF WireInv
  <1>7. ASSUME NEW e, Raise(e)
        PROVE  WireInv'
    <2>1. /\ ScriptInv' /\ UNCHANGED <<pins, line, age, dev>>
          /\ stage' \in {"terminated", "header", "restore", "guard"}
          /\ stage' = "header" => script' = CleanupGpio
      BY <1>1, <1>7, RaiseGoes DEF Raise
    <2>2. HeaderInv'
      <3>1. CASE stage' = "header"
        BY <2>1, <3>1, HeaderStarts
      <3>2. CASE stage' # "header"
        BY <2>1, <3>2 DEF HeaderInv
      <3> QED
        BY <3>1, <3>2
    <2> QED
      BY <1>2, <2>1, <2>2 DEF WireInv
  <1>8. CASE DeviceThrows
    BY <1>7, <1>8 DEF DeviceThrows
  <1>9. CASE Interrupt
    BY <1>7, <1>9 DEF Interrupt
  <1>10. CASE EndStage
    <2>1. /\ ScriptInv' /\ UNCHANGED <<pins, line, age, dev>> /\ script = <<>>
          /\ stage = "header" => stage' = "over"
          /\ stage = "guard" => stage' = "header" /\ script' = CleanupGpio
          /\ stage = "restore" => stage' = "guard"
          /\ stage \in {"enter", "command"} => stage' = "ready"
          /\ stage \in {"header", "guard", "restore", "enter", "command"}
      BY <1>1, <1>10, EndGoes DEF EndStage
    <2>2. CASE stage = "header"
      <3>1. Left = 0
        BY <2>1, EmptySeq DEF Left
      <3>2. pins = Idle
        <4>1. pins.mclr = 1 /\ pins.clk = 0 /\ pins.data = "out" /\ pins.prog_en = 0
          BY <1>1, <2>2, <3>1 DEF HeaderInv
        <4>2. pins \in [mclr : {0, 1}, prog_en : {0, 1}, clk : {0, 1},
                        data : {"in", "out"}]
          BY <1>1 DEF PinInv
        <4> QED
          BY <4>1, <4>2 DEF Idle
      <3> QED
        BY <1>2, <2>1, <2>2, <3>2 DEF WireInv, HeaderInv
    <2>3. CASE stage = "guard"
      <3>1. HeaderInv'
        BY <2>1, <2>3, HeaderStarts
      <3> QED
        BY <1>2, <2>1, <3>1 DEF WireInv
    <2>4. CASE stage \notin {"header", "guard"}
      <3>1. HeaderInv'
        BY <2>1, <2>4 DEF HeaderInv
      <3> QED
        BY <1>2, <2>1, <3>1 DEF WireInv
    <2> QED
      BY <2>2, <2>3, <2>4
  <1>11. CASE UNCHANGED vars
    <2>1. UNCHANGED <<stage, script, bit, step, op, pins, line, age, dev>>
      BY <1>11 DEF vars, host
    <2>2. ScriptInv' /\ HeaderInv'
      BY <1>1, <2>1 DEF ScriptInv, HeaderInv, Within, Left
    <2> QED
      BY <1>2, <2>1, <2>2 DEF WireInv
  <1> QED
    BY <1>3, <1>4, <1>5, <1>6, <1>8, <1>9, <1>10, <1>11 DEF Next, Program

(* A session that is left, by an exception too, leaves the pins as         *)
(* cleanup_gpio does and with them the device out of programming.          *)
THEOREM LeftHolds == Spec => []LeftMeansIdle
  <1>1. Init => WireInv
    BY WireStarts
  <1>2. WireInv /\ [Next]_vars => WireInv'
    BY WireStays
  <1>3. WireInv => LeftMeansIdle
    <2>1. ASSUME WireInv, stage = "over"
          PROVE  dev.state = "IDLE" /\ pins = Idle
      <3>1. pins = Idle
        BY <2>1 DEF WireInv, HeaderInv
      <3>2. pins.mclr = 1 /\ pins.prog_en = 0
        BY <3>1 DEF Idle
      <3> QED
        BY <2>1, <3>1, <3>2 DEF WireInv, PinInv
    <2> QED
      BY <2>1 DEF LeftMeansIdle, Idle
  <1> QED
    BY <1>1, <1>2, <1>3, PTL DEF Spec

-----------------------------------------------------------------------------
(* A transfer bit by bit.  What the device has taken of a message after n  *)
(* bits, and what the host has read of a word after n.                     *)
Whole(bytes, j) ==
    CASE j = 0 -> 0
      [] j = 1 -> bytes[1]
      [] j = 2 -> 256 * bytes[1] + bytes[2]
      [] j = 3 -> 65536 * bytes[1] + 256 * bytes[2] + bytes[3]
      [] j = 4 -> 16777216 * bytes[1] + 65536 * bytes[2] + 256 * bytes[3] + bytes[4]

Part(b, r) == IF r = 0 THEN 0 ELSE b \div Weight[9 - r]

Prefix(bytes, n) ==
    Whole(bytes, n \div 8) * Weight[(n % 8) + 1] + Part(bytes[n \div 8 + 1], n % 8)

LEMMA WholeStep ==
    ASSUME NEW bytes \in Bytes, NEW j \in Nat, j < Len(bytes)
    PROVE  /\ bytes[j + 1] \in 0 .. 255 /\ Whole(bytes, j) \in Nat
           /\ Whole(bytes, j + 1) = 256 * Whole(bytes, j) + bytes[j + 1]
           /\ Whole(bytes, j + 1) \in Nat
  <1>1. PICK n \in {1, 3, 4} : n = Len(bytes) /\ bytes \in Seq(0 .. 255)
    BY DEF Bytes
  <1>2. \A i \in 1 .. n : bytes[i] \in 0 .. 255
    BY <1>1, ElementOfSeq
  <1>3. bytes[j + 1] \in 0 .. 255
    <2>1. j + 1 \in 1 .. n
      BY <1>1
    <2> QED
      BY <1>2, <2>1
  <1>6. j < n
    BY <1>1
  <1>4. CASE j = 0
    <2>1. PICK x : x = bytes[1]
      OBVIOUS
    <2>2. Whole(bytes, 0) = 0 /\ Whole(bytes, 1) = x
      BY <2>1 DEF Whole
    <2>3. j + 1 = 1
      BY <1>4
    <2>4. x \in 0 .. 255
      BY <1>3, <2>1, <2>3
    <2>5. x = 256 * 0 + x /\ x \in Nat
      BY <2>4
    <2> QED
      BY <1>4, <2>1, <2>2, <2>3, <2>4, <2>5
  <1>5. CASE j # 0
    <2>1. n \in {3, 4} /\ j \in {1, 2, 3} /\ (j = 3 => n = 4)
      <3> HIDE DEF Bytes
      <3> QED
        BY <1>5, <1>6
    <2>2. PICK x, y, z, w : x = bytes[1] /\ y = bytes[2] /\ z = bytes[3] /\ w = bytes[4]
      OBVIOUS
    <2>3. x \in 0 .. 255 /\ y \in 0 .. 255 /\ z \in 0 .. 255
          /\ (n = 4 => w \in 0 .. 255)
      BY <1>2, <2>1, <2>2
    <2>4. /\ Whole(bytes, 1) = x /\ Whole(bytes, 2) = 256 * x + y
          /\ Whole(bytes, 3) = 65536 * x + 256 * y + z
          /\ Whole(bytes, 4) = 16777216 * x + 65536 * y + 256 * z + w
      BY <2>2 DEF Whole
    <2>5. CASE j = 1
      <3>1. j + 1 = 2 /\ 256 * x + y \in Nat /\ x \in Nat
        BY <2>3, <2>5
      <3> QED
        BY <1>3, <2>2, <2>4, <2>5, <3>1
    <2>6. CASE j = 2
      <3>1. /\ j + 1 = 3 /\ 256 * x + y \in Nat
            /\ 65536 * x + 256 * y + z = 256 * (256 * x + y) + z
            /\ 65536 * x + 256 * y + z \in Nat
        BY <2>3, <2>6
      <3> QED
        BY <1>3, <2>2, <2>4, <2>6, <3>1
    <2>7. CASE j = 3
      <3>4. n = 4
        BY <2>1, <2>7
      <3>5. /\ x \in 0 .. 255 /\ y \in 0 .. 255 /\ z \in 0 .. 255
            /\ w \in 0 .. 255
        BY <2>3, <3>4
      <3>1. x \in Nat /\ y \in Nat /\ z \in Nat /\ w \in Nat
        BY <3>5
      <3>2. /\ j + 1 = 4 /\ 65536 * x + 256 * y + z \in Nat
            /\ 16777216 * x + 65536 * y + 256 * z + w \in Nat
        BY <2>7, <3>1
      <3>3. 16777216 * x + 65536 * y + 256 * z + w
                = 256 * (65536 * x + 256 * y + z) + w
        BY <3>1
      <3> QED
        BY <1>3, <2>2, <2>4, <2>7, <3>2, <3>3
    <2> QED
      BY <2>1, <2>5, <2>6, <2>7
  <1> QED
    BY <1>4, <1>5

LEMMA PartStep ==
    ASSUME NEW V \in Nat, NEW b \in 0 .. 255, NEW r \in 0 .. 6
    PROVE  V * Weight[r + 2] + Part(b, r + 1)
             = 2 * (V * Weight[r + 1] + Part(b, r)) + ((b \div Weight[8 - r]) % 2)
  <1>1. CASE r = 0
    <2>1. /\ Part(b, r) = 0 /\ Part(b, r + 1) = b \div 128
          /\ Weight[r + 2] = 2 /\ Weight[r + 1] = 1 /\ Weight[8 - r] = 128
      BY <1>1, WeightTable DEF Part
    <2>2. V * 2 + (b \div 128) = 2 * (V * 1 + (0)) + ((b \div 128) % 2)
      OBVIOUS
    <2> QED
      BY <2>1, <2>2
  <1>2. CASE r = 1
    <2>1. /\ Part(b, r) = b \div 128 /\ Part(b, r + 1) = b \div 64
          /\ Weight[r + 2] = 4 /\ Weight[r + 1] = 2 /\ Weight[8 - r] = 64
      BY <1>2, WeightTable DEF Part
    <2>2. V * 4 + (b \div 64) = 2 * (V * 2 + (b \div 128)) + ((b \div 64) % 2)
      OBVIOUS
    <2> QED
      BY <2>1, <2>2
  <1>3. CASE r = 2
    <2>1. /\ Part(b, r) = b \div 64 /\ Part(b, r + 1) = b \div 32
          /\ Weight[r + 2] = 8 /\ Weight[r + 1] = 4 /\ Weight[8 - r] = 32
      BY <1>3, WeightTable DEF Part
    <2>2. V * 8 + (b \div 32) = 2 * (V * 4 + (b \div 64)) + ((b \div 32) % 2)
      OBVIOUS
    <2> QED
      BY <2>1, <2>2
  <1>4. CASE r = 3
    <2>1. /\ Part(b, r) = b \div 32 /\ Part(b, r + 1) = b \div 16
          /\ Weight[r + 2] = 16 /\ Weight[r + 1] = 8 /\ Weight[8 - r] = 16
      BY <1>4, WeightTable DEF Part
    <2>2. V * 16 + (b \div 16) = 2 * (V * 8 + (b \div 32)) + ((b \div 16) % 2)
      OBVIOUS
    <2> QED
      BY <2>1, <2>2
  <1>5. CASE r = 4
    <2>1. /\ Part(b, r) = b \div 16 /\ Part(b, r + 1) = b \div 8
          /\ Weight[r + 2] = 32 /\ Weight[r + 1] = 16 /\ Weight[8 - r] = 8
      BY <1>5, WeightTable DEF Part
    <2>2. V * 32 + (b \div 8) = 2 * (V * 16 + (b \div 16)) + ((b \div 8) % 2)
      OBVIOUS
    <2> QED
      BY <2>1, <2>2
  <1>6. CASE r = 5
    <2>1. /\ Part(b, r) = b \div 8 /\ Part(b, r + 1) = b \div 4
          /\ Weight[r + 2] = 64 /\ Weight[r + 1] = 32 /\ Weight[8 - r] = 4
      BY <1>6, WeightTable DEF Part
    <2>2. V * 64 + (b \div 4) = 2 * (V * 32 + (b \div 8)) + ((b \div 4) % 2)
      OBVIOUS
    <2> QED
      BY <2>1, <2>2
  <1>7. CASE r = 6
    <2>1. /\ Part(b, r) = b \div 4 /\ Part(b, r + 1) = b \div 2
          /\ Weight[r + 2] = 128 /\ Weight[r + 1] = 64 /\ Weight[8 - r] = 2
      BY <1>7, WeightTable DEF Part
    <2>2. V * 128 + (b \div 2) = 2 * (V * 64 + (b \div 4)) + ((b \div 2) % 2)
      OBVIOUS
    <2> QED
      BY <2>1, <2>2
  <1> QED
    BY <1>1, <1>2, <1>3, <1>4, <1>5, <1>6, <1>7

LEMMA PrefixStep ==
    ASSUME NEW bytes \in Bytes, NEW n \in Nat, n < 8 * Len(bytes)
    PROVE  /\ Prefix(bytes, n + 1) = 2 * Prefix(bytes, n) + BitOf(bytes, n)
           /\ BitOf(bytes, n) \in {0, 1}
  <1>1. PICK m \in {1, 3, 4} : m = Len(bytes)
    BY DEF Bytes
  <1>2. PICK j \in Nat, r \in 0 .. 7 : j = n \div 8 /\ r = n % 8
    OBVIOUS
  <1>3. n = 8 * j + r /\ j < m
    BY <1>1, <1>2
  <1>4. PICK V, b : V = Whole(bytes, j) /\ b = bytes[j + 1]
    OBVIOUS
  <1>5. V \in Nat /\ b \in 0 .. 255 /\ Whole(bytes, j + 1) = 256 * V + b
    <2>1. j < Len(bytes)
      BY <1>1, <1>3
    <2> QED
      BY <1>4, <2>1, WholeStep
  <1>6. /\ Prefix(bytes, n) = V * Weight[r + 1] + Part(b, r)
        /\ BitOf(bytes, n) = (b \div Weight[8 - r]) % 2
    BY <1>2, <1>4 DEF Prefix, BitOf
  <1>7. BitOf(bytes, n) \in {0, 1}
    <2>1. 8 - r \in 1 .. 16
      OBVIOUS
    <2>2. Weight[8 - r] \in Nat \ {0}
      BY <2>1, WeightsAre
    <2>3. b \in Nat
      BY <1>5
    <2> QED
      BY <1>6, <2>2, <2>3, BitTyped
  <1>8. CASE r < 7
    <2>1. (n + 1) \div 8 = j /\ (n + 1) % 8 = r + 1 /\ r \in 0 .. 6
      BY <1>3, <1>8
    <2>2. Prefix(bytes, n + 1) = V * Weight[r + 2] + Part(b, r + 1)
      <3>1. (r + 1) + 1 = r + 2
        OBVIOUS
      <3> QED
        BY <1>4, <2>1, <3>1 DEF Prefix
    <2>3. V * Weight[r + 2] + Part(b, r + 1)
            = 2 * (V * Weight[r + 1] + Part(b, r)) + ((b \div Weight[8 - r]) % 2)
      BY <1>5, <2>1, PartStep
    <2> QED
      BY <1>6, <1>7, <2>2, <2>3
  <1>9. CASE r = 7
    <2>1. (n + 1) \div 8 = j + 1 /\ (n + 1) % 8 = 0
      BY <1>3, <1>9
    <2>2. Prefix(bytes, n + 1) = (256 * V + b) * Weight[1] + Part(bytes[j + 2], 0)
      <3>1. 0 + 1 = 1 /\ (j + 1) + 1 = j + 2
        OBVIOUS
      <3> QED
        BY <1>5, <2>1, <3>1 DEF Prefix
    <2>3. Part(bytes[j + 2], 0) = 0 /\ Part(b, 7) = b \div 2
      <3>1. 9 - 7 = 2 /\ Weight[2] = 2
        BY WeightTable
      <3>2. Part(bytes[j + 2], 0) = 0 /\ Part(b, 7) = b \div Weight[9 - 7]
        BY DEF Part
      <3> QED
        BY <3>1, <3>2
    <2>4. Prefix(bytes, n + 1) = 256 * V + b
      BY <1>5, <2>2, <2>3, WeightTable
    <2>5. /\ Prefix(bytes, n) = V * 128 + (b \div 2)
          /\ BitOf(bytes, n) = (b \div 1) % 2
      <3>1. 7 + 1 = 8 /\ 8 - 7 = 1
        OBVIOUS
      <3>2. Weight[8] = 128 /\ Weight[1] = 1
        BY WeightTable
      <3>3. Prefix(bytes, n) = V * Weight[8] + Part(b, 7)
        BY <1>6, <1>9, <3>1
      <3>4. BitOf(bytes, n) = (b \div Weight[1]) % 2
        BY <1>6, <1>9, <3>1
      <3> QED
        BY <2>3, <3>2, <3>3, <3>4
    <2>6. 256 * V + b = 2 * (V * 128 + (b \div 2)) + ((b \div 1) % 2)
      BY <1>5
    <2> QED
      BY <1>7, <2>4, <2>5, <2>6
  <1> QED
    BY <1>8, <1>9

LEMMA PrefixEnds ==
    ASSUME NEW bytes \in Bytes
    PROVE  /\ Prefix(bytes, 0) = 0
           /\ Prefix(bytes, 8 * Len(bytes)) = Whole(bytes, Len(bytes))
  <1>1. PICK m \in {1, 3, 4} : m = Len(bytes)
    BY DEF Bytes
  <1>2. PICK V : V = Whole(bytes, m)
    OBVIOUS
  <1>3. V \in Nat
    <2>1. m - 1 \in Nat /\ m - 1 < Len(bytes) /\ (m - 1) + 1 = m
      BY <1>1
    <2> QED
      BY <1>2, <2>1, WholeStep
  <1>4. (8 * m) \div 8 = m /\ (8 * m) % 8 = 0 /\ 0 \div 8 = 0 /\ 0 % 8 = 0
    OBVIOUS
  <1>5. Whole(bytes, 0) = 0 /\ \A b : Part(b, 0) = 0
    BY DEF Whole, Part
  <1>6. Prefix(bytes, 0) = 0 * Weight[0 + 1] + 0
    BY <1>4, <1>5 DEF Prefix
  <1>7. Prefix(bytes, 8 * m) = V * Weight[0 + 1] + 0
    BY <1>2, <1>4, <1>5 DEF Prefix
  <1>8. 0 + 1 = 1 /\ Weight[1] = 1
    BY WeightTable
  <1>9. Prefix(bytes, 0) = 0
    BY <1>6, <1>8
  <1>10. Prefix(bytes, 8 * m) = V
    BY <1>3, <1>7, <1>8
  <1> QED
    BY <1>1, <1>2, <1>9, <1>10

(* The messages are what they stand for. *)
LEMMA KeyWhole == Whole(KEY_SEQ, 4) = KEY
  BY SMTT(30) DEF Whole, KEY_SEQ, KEY

LEMMA CodeWhole == ASSUME NEW code PROVE Whole(<<code>>, 1) = code
  BY DEF Whole

LEMMA WordWhole ==
    ASSUME NEW v \in Nat, v < 8388608
    PROVE  Whole(WriteCast(v), 3) = 2 * v
  <1>1. PICK t \in Nat : t = 2 * v /\ t < 16777216
    BY SMTT(30)
  <1>2. PICK x, y, z : /\ x = (t \div 65536) % 256 /\ y = (t \div 256) % 256
                       /\ z = t % 256
    OBVIOUS
  <1>3. Whole(WriteCast(v), 3) = 65536 * x + 256 * y + z
    BY <1>1, <1>2, WriteCastBytes, SMTT(30) DEF Whole
  <1>4. 65536 * x + 256 * y + z = t
    BY <1>1, <1>2, SMTT(30)
  <1> QED
    BY <1>1, <1>3, <1>4, SMTT(30)

(* The bits of a word come from the highest one down, behind the zeros     *)
(* that fill it up to 24 bits and before the stop bit.                     *)
GotAfter(w, k) ==
    IF k < 8 THEN 0 ELSE IF k = 24 THEN 2 * w ELSE w \div Weight[24 - k]

WordBit(w, i) == IF i \in 1 .. 16 THEN (w \div Weight[i]) % 2 ELSE 0

LEMMA HalfStep ==
    ASSUME NEW w \in Nat, NEW i \in 1 .. 15
    PROVE  w \div Weight[i] = 2 * (w \div Weight[i + 1]) + ((w \div Weight[i]) % 2)
  <1> DEFINE P(j) == w \div Weight[j] = 2 * (w \div Weight[j + 1]) + ((w \div Weight[j]) % 2)
  <1>1. P(1)
    <2>1. Weight[1] = 1 /\ Weight[1 + 1] = 2
      BY WeightTable
    <2>2. w \div 1 = 2 * (w \div 2) + ((w \div 1) % 2)
      OBVIOUS
    <2> QED
      BY <2>1, <2>2
  <1>2. P(2)
    <2>1. Weight[2] = 2 /\ Weight[2 + 1] = 4
      BY WeightTable
    <2>2. w \div 2 = 2 * (w \div 4) + ((w \div 2) % 2)
      OBVIOUS
    <2> QED
      BY <2>1, <2>2
  <1>3. P(3)
    <2>1. Weight[3] = 4 /\ Weight[3 + 1] = 8
      BY WeightTable
    <2>2. w \div 4 = 2 * (w \div 8) + ((w \div 4) % 2)
      OBVIOUS
    <2> QED
      BY <2>1, <2>2
  <1>4. P(4)
    <2>1. Weight[4] = 8 /\ Weight[4 + 1] = 16
      BY WeightTable
    <2>2. w \div 8 = 2 * (w \div 16) + ((w \div 8) % 2)
      OBVIOUS
    <2> QED
      BY <2>1, <2>2
  <1>5. P(5)
    <2>1. Weight[5] = 16 /\ Weight[5 + 1] = 32
      BY WeightTable
    <2>2. w \div 16 = 2 * (w \div 32) + ((w \div 16) % 2)
      OBVIOUS
    <2> QED
      BY <2>1, <2>2
  <1>6. P(6)
    <2>1. Weight[6] = 32 /\ Weight[6 + 1] = 64
      BY WeightTable
    <2>2. w \div 32 = 2 * (w \div 64) + ((w \div 32) % 2)
      OBVIOUS
    <2> QED
      BY <2>1, <2>2
  <1>7. P(7)
    <2>1. Weight[7] = 64 /\ Weight[7 + 1] = 128
      BY WeightTable
    <2>2. w \div 64 = 2 * (w \div 128) + ((w \div 64) % 2)
      OBVIOUS
    <2> QED
      BY <2>1, <2>2
  <1>8. P(8)
    <2>1. Weight[8] = 128 /\ Weight[8 + 1] = 256
      BY WeightTable
    <2>2. w \div 128 = 2 * (w \div 256) + ((w \div 128) % 2)
      OBVIOUS
    <2> QED
      BY <2>1, <2>2
  <1>9. P(9)
    <2>1. Weight[9] = 256 /\ Weight[9 + 1] = 512
      BY WeightTable
    <2>2. w \div 256 = 2 * (w \div 512) + ((w \div 256) % 2)
      OBVIOUS
    <2> QED
      BY <2>1, <2>2
  <1>10. P(10)
    <2>1. Weight[10] = 512 /\ Weight[10 + 1] = 1024
      BY WeightTable
    <2>2. w \div 512 = 2 * (w \div 1024) + ((w \div 512) % 2)
      OBVIOUS
    <2> QED
      BY <2>1, <2>2
  <1>11. P(11)
    <2>1. Weight[11] = 1024 /\ Weight[11 + 1] = 2048
      BY WeightTable
    <2>2. w \div 1024 = 2 * (w \div 2048) + ((w \div 1024) % 2)
      OBVIOUS
    <2> QED
      BY <2>1, <2>2
  <1>12. P(12)
    <2>1. Weight[12] = 2048 /\ Weight[12 + 1] = 4096
      BY WeightTable
    <2>2. w \div 2048 = 2 * (w \div 4096) + ((w \div 2048) % 2)
      OBVIOUS
    <2> QED
      BY <2>1, <2>2
  <1>13. P(13)
    <2>1. Weight[13] = 4096 /\ Weight[13 + 1] = 8192
      BY WeightTable
    <2>2. w \div 4096 = 2 * (w \div 8192) + ((w \div 4096) % 2)
      OBVIOUS
    <2> QED
      BY <2>1, <2>2
  <1>14. P(14)
    <2>1. Weight[14] = 8192 /\ Weight[14 + 1] = 16384
      BY WeightTable
    <2>2. w \div 8192 = 2 * (w \div 16384) + ((w \div 8192) % 2)
      OBVIOUS
    <2> QED
      BY <2>1, <2>2
  <1>15. P(15)
    <2>1. Weight[15] = 16384 /\ Weight[15 + 1] = 32768
      BY WeightTable
    <2>2. w \div 16384 = 2 * (w \div 32768) + ((w \div 16384) % 2)
      OBVIOUS
    <2> QED
      BY <2>1, <2>2
  <1> HIDE DEF P
  <1>16. \A j \in 1 .. 15 : P(j)
    BY <1>1, <1>2, <1>3, <1>4, <1>5, <1>6, <1>7, <1>8, <1>9, <1>10, <1>11, <1>12, <1>13, <1>14, <1>15
  <1> QED
    BY <1>16 DEF P


LEMMA DivAtMost ==
    ASSUME NEW w \in Nat, NEW u \in Nat \ {0}
    PROVE  w \div u \in Nat /\ w \div u <= w
  <1>1. PICK q : q = w \div u
    OBVIOUS
  <1>2. q \in Nat /\ q * u <= w
    BY <1>1
  <1>3. q <= q * u
    BY <1>2
  <1> QED
    BY <1>1, <1>2, <1>3

LEMMA GotStep ==
    ASSUME NEW w \in Nat, w < 65536, NEW k \in 0 .. 23
    PROVE  /\ GotAfter(w, k + 1) = 2 * GotAfter(w, k) + WordBit(w, 23 - k)
           /\ GotAfter(w, k + 1) \in Nat /\ GotAfter(w, k + 1) < 131072
  <1>2. CASE k < 7
    <2>1. GotAfter(w, k) = 0 /\ GotAfter(w, k + 1) = 0
      BY <1>2 DEF GotAfter
    <2>2. 23 - k \notin 1 .. 16
      BY <1>2
    <2>3. WordBit(w, 23 - k) = 0
      BY <2>2 DEF WordBit
    <2> QED
      BY <2>1, <2>3
  <1>3. CASE k = 7
    <2>1. GotAfter(w, k) = 0 /\ GotAfter(w, k + 1) = w \div 32768
      <3>1. k + 1 = 8 /\ 24 - 8 = 16
        BY <1>3
      <3> QED
        BY <1>3, <3>1, WeightTable DEF GotAfter
    <2>2. WordBit(w, 23 - k) = (w \div 32768) % 2
      <3>1. 23 - k = 16
        BY <1>3
      <3> QED
        BY <3>1, WeightTable DEF WordBit
    <2>3. (w \div 32768) % 2 = w \div 32768 /\ w \div 32768 \in Nat /\ w \div 32768 < 2
      OBVIOUS
    <2> QED
      BY <2>1, <2>2, <2>3
  <1>4. CASE k \in 8 .. 22
    <2>1. PICK i \in 1 .. 15 : i = 23 - k
      BY <1>4
    <2>2. w \div Weight[i] = 2 * (w \div Weight[i + 1]) + ((w \div Weight[i]) % 2)
      BY HalfStep
    <2>3. /\ ~ (k < 8) /\ k # 24 /\ ~ (k + 1 < 8) /\ k + 1 # 24
          /\ 24 - k = i + 1 /\ 24 - (k + 1) = i
      BY <1>4, <2>1
    <2>4. /\ GotAfter(w, k) = w \div Weight[i + 1]
          /\ GotAfter(w, k + 1) = w \div Weight[i]
      BY <2>3 DEF GotAfter
    <2>5. WordBit(w, 23 - k) = (w \div Weight[i]) % 2
      <3>1. i \in 1 .. 16
        OBVIOUS
      <3> QED
        BY <2>1, <3>1 DEF WordBit
    <2>6. w \div Weight[i] \in Nat /\ w \div Weight[i] < 65536
      <3>1. Weight[i] \in Nat \ {0}
        BY WeightsAre
      <3>2. PICK u \in Nat \ {0} : u = Weight[i]
        BY <3>1
      <3>3. w \div u \in Nat /\ w \div u <= w
        BY DivAtMost
      <3> QED
        BY <3>2, <3>3
    <2> QED
      BY <2>2, <2>4, <2>5, <2>6
  <1>5. CASE k = 23
    <2>1. GotAfter(w, k) = w \div 1 /\ GotAfter(w, k + 1) = 2 * w
      <3>1. k + 1 = 24 /\ 24 - k = 1
        BY <1>5
      <3> QED
        BY <1>5, <3>1, WeightTable DEF GotAfter
    <2>2. WordBit(w, 23 - k) = 0
      <3>1. 23 - k \notin 1 .. 16
        BY <1>5
      <3> QED
        BY <3>1 DEF WordBit
    <2>3. w \div 1 = w
      OBVIOUS
    <2> QED
      BY <2>1, <2>2, <2>3
  <1> QED
    BY <1>2, <1>3, <1>4, <1>5

LEMMA ByteHasNoMore ==
    ASSUME NEW w \in Nat, w < 256, NEW i \in 9 .. 16
    PROVE  (w \div Weight[i]) % 2 = 0
  <1> DEFINE P(j) == (w \div Weight[j]) % 2 = 0
  <1>1. P(9)
    <2>1. Weight[9] = 256
      BY WeightTable
    <2>2. (w \div 256) % 2 = 0
      OBVIOUS
    <2> QED
      BY <2>1, <2>2
  <1>2. P(10)
    <2>1. Weight[10] = 512
      BY WeightTable
    <2>2. (w \div 512) % 2 = 0
      OBVIOUS
    <2> QED
      BY <2>1, <2>2
  <1>3. P(11)
    <2>1. Weight[11] = 1024
      BY WeightTable
    <2>2. (w \div 1024) % 2 = 0
      OBVIOUS
    <2> QED
      BY <2>1, <2>2
  <1>4. P(12)
    <2>1. Weight[12] = 2048
      BY WeightTable
    <2>2. (w \div 2048) % 2 = 0
      OBVIOUS
    <2> QED
      BY <2>1, <2>2
  <1>5. P(13)
    <2>1. Weight[13] = 4096
      BY WeightTable
    <2>2. (w \div 4096) % 2 = 0
      OBVIOUS
    <2> QED
      BY <2>1, <2>2
  <1>6. P(14)
    <2>1. Weight[14] = 8192
      BY WeightTable
    <2>2. (w \div 8192) % 2 = 0
      OBVIOUS
    <2> QED
      BY <2>1, <2>2
  <1>7. P(15)
    <2>1. Weight[15] = 16384
      BY WeightTable
    <2>2. (w \div 16384) % 2 = 0
      OBVIOUS
    <2> QED
      BY <2>1, <2>2
  <1>8. P(16)
    <2>1. Weight[16] = 32768
      BY WeightTable
    <2>2. (w \div 32768) % 2 = 0
      OBVIOUS
    <2> QED
      BY <2>1, <2>2
  <1> HIDE DEF P
  <1>9. \A j \in 9 .. 16 : P(j)
    BY <1>1, <1>2, <1>3, <1>4, <1>5, <1>6, <1>7, <1>8
  <1> QED
    BY <1>9 DEF P


LEMMA GotEnds ==
    ASSUME NEW w \in Nat, w < 65536
    PROVE  GotAfter(w, 0) = 0 /\ ReadCast(GotAfter(w, 24)) = w
  <1>1. GotAfter(w, 0) = 0 /\ GotAfter(w, 24) = 2 * w
    BY DEF GotAfter
  <1>2. ((2 * w) % 131072) \div 2 = w
    OBVIOUS
  <1> QED
    BY <1>1, <1>2 DEF ReadCast

(* The regions an erase names by their bits are those of its mask. *)
LEMMA ErasesMask ==
    ASSUME NEW mask
    PROVE  /\ {n \in DOMAIN EraseBit : (EraseBits(mask) \div EraseBit[n]) % 2 = 1}
                = mask \cap {"EEPROM", "PROGRAM", "USER", "CONFIG"}
           /\ EraseBits(mask) \in 0 .. 15
           /\ EraseBits(mask) > 0
                 => mask \cap {"EEPROM", "PROGRAM", "USER", "CONFIG"} # {}
  <1> DEFINE B(n) == IF n \in mask THEN 1 ELSE 0
  <1>1. PICK e \in {0, 1}, p \in {0, 1}, u \in {0, 1}, c \in {0, 1} :
           e = B("EEPROM") /\ p = B("PROGRAM") /\ u = B("USER") /\ c = B("CONFIG")
    OBVIOUS
  <1>2. PICK x : x = EraseBits(mask)
    OBVIOUS
  <1>3. x = e + 2 * p + 4 * u + 8 * c
    <2>1. EraseBits(mask) = (IF "EEPROM" \in mask THEN 1 ELSE 0)
                              + (IF "PROGRAM" \in mask THEN 2 ELSE 0)
                              + (IF "USER" \in mask THEN 4 ELSE 0)
                              + (IF "CONFIG" \in mask THEN 8 ELSE 0)
      BY DEF EraseBits, EraseBit
    <2> QED
      BY <1>1, <1>2, <2>1
  <1>4. /\ (x \div 1) % 2 = e /\ (x \div 2) % 2 = p
        /\ (x \div 4) % 2 = u /\ (x \div 8) % 2 = c
        /\ x \in 0 .. 15
    <2>1. CASE u = 0 /\ c = 0
      BY <1>3, <2>1
    <2>2. CASE u = 0 /\ c = 1
      BY <1>3, <2>2
    <2>3. CASE u = 1 /\ c = 0
      BY <1>3, <2>3
    <2>4. CASE u = 1 /\ c = 1
      BY <1>3, <2>4
    <2> QED
      BY <2>1, <2>2, <2>3, <2>4
  <1>5. /\ DOMAIN EraseBit = {"EEPROM", "PROGRAM", "USER", "CONFIG"}
        /\ EraseBit["EEPROM"] = 1 /\ EraseBit["PROGRAM"] = 2
        /\ EraseBit["USER"] = 4 /\ EraseBit["CONFIG"] = 8
    BY DEF EraseBit
  <1>6. \A n \in DOMAIN EraseBit : (x \div EraseBit[n]) % 2 = 1 <=> n \in mask
    <2>1. /\ e = 1 <=> "EEPROM" \in mask
          /\ p = 1 <=> "PROGRAM" \in mask
          /\ u = 1 <=> "USER" \in mask
          /\ c = 1 <=> "CONFIG" \in mask
      BY <1>1
    <2> HIDE DEF B
    <2> QED
      BY <1>4, <1>5, <2>1
  <1>7. x > 0 => e = 1 \/ p = 1 \/ u = 1 \/ c = 1
    BY <1>3
  <1>8. x > 0 => mask \cap {"EEPROM", "PROGRAM", "USER", "CONFIG"} # {}
    BY <1>1, <1>7
  <1> QED
    BY <1>2, <1>4, <1>5, <1>6, <1>8

LEMMA WordBound ==
    ASSUME DevInv, HasWord, InOneRegion
    PROVE  /\ WordAt(dev.pc) \in Nat /\ WordAt(dev.pc) < 65536
           /\ DeviceRegion.word_size = 1 => WordAt(dev.pc) < 256
           /\ dev.pc \in MapAddrs(Map)
           /\ DeviceRegion.word_size = 2 => dev.pc + 1 \in MapAddrs(Map)
  <1>1. PICK r : r = DeviceRegion
    OBVIOUS
  <1>2. /\ dev.pc \in Nat /\ r.word_size \in {1, 2} /\ r.start \in Nat /\ r.end \in Nat
        /\ InRegion(dev.pc, r)
    BY <1>1, DeviceWord
  <1>3. PICK i \in DOMAIN Map : r = Map[i]
    BY <1>1, DeviceWord
  <1>4. dev.pc + r.word_size <= r.end
    BY <1>1 DEF InOneRegion
  <1>5. \A a \in Nat : InRegion(a, r) => a \in MapAddrs(Map)
    BY <1>2, <1>3 DEF MapAddrs, Addrs, InRegion
  <1>6. dev.mem \in [MapAddrs(Map) -> 0 .. 255]
    BY DEF DevInv, Device
  <1>7. dev.pc \in MapAddrs(Map) /\ dev.mem[dev.pc] \in 0 .. 255
    BY <1>2, <1>5, <1>6
  <1>8. CASE r.word_size = 1
    <2>1. WordAt(dev.pc) = dev.mem[dev.pc]
      BY <1>1, <1>8 DEF WordAt
    <2>2. PICK x : x = dev.mem[dev.pc]
      OBVIOUS
    <2>3. x \in Nat /\ x < 256 /\ x < 65536
      <3>1. x \in 0 .. 255
        BY <1>7, <2>2
      <3> QED
        BY <3>1
    <2> QED
      BY <1>1, <1>7, <1>8, <2>1, <2>2, <2>3
  <1>9. CASE r.word_size = 2
    <2>1. dev.pc + 1 \in Nat /\ InRegion(dev.pc + 1, r)
      BY <1>2, <1>4, <1>9 DEF InRegion
    <2>2. dev.pc + 1 \in MapAddrs(Map) /\ dev.mem[dev.pc + 1] \in 0 .. 255
      BY <1>5, <1>6, <2>1
    <2>3. PICK x, y : x = dev.mem[dev.pc] /\ y = dev.mem[dev.pc + 1]
      OBVIOUS
    <2>4. x \in 0 .. 255 /\ y \in 0 .. 255
      BY <1>7, <2>2, <2>3
    <2>5. x + 256 * y \in Nat /\ x + 256 * y < 65536
      BY <2>4
    <2>6. WordAt(dev.pc) = x + 256 * y
      BY <1>1, <1>9, <2>3 DEF WordAt
    <2> QED
      BY <1>1, <1>7, <1>9, <2>2, <2>5, <2>6
  <1> QED
    BY <1>2, <1>8, <1>9

LEMMA BitOutIs ==
    ASSUME DevInv, dev.state = "READ_NVM", dev.data = WordAt(dev.pc)
    PROVE  BitOut = WordBit(WordAt(dev.pc), dev.cnt - 1)
  <1>1. PICK w, i, s : w = WordAt(dev.pc) /\ i = dev.cnt - 1 /\ s = DeviceRegion.word_size
    OBVIOUS
  <1>2. dev.cnt \in Nat /\ HasWord /\ InOneRegion
    BY DEF DevInv, Device
  <1>3. w \in Nat /\ w < 65536 /\ (s = 1 => w < 256) /\ s \in {1, 2} /\ i \in Int
    BY <1>1, <1>2, WordBound, DeviceWord
  <1>4. BitOut = IF i \in 1 .. 8 * s THEN (w \div Weight[i]) % 2 ELSE 0
    BY <1>1 DEF BitOut
  <1>5. WordBit(w, i) = IF i \in 1 .. 16 THEN (w \div Weight[i]) % 2 ELSE 0
    BY DEF WordBit
  <1>6. CASE s = 2
    <2>1. 8 * s = 16
      BY <1>6
    <2> QED
      BY <1>1, <1>4, <1>5, <2>1
  <1>7. CASE s = 1
    <2>1. 8 * s = 8
      BY <1>7
    <2>2. i \in 1 .. 8 => i \in 1 .. 16
      OBVIOUS
    <2>3. i \in 1 .. 16 /\ i \notin 1 .. 8 => i \in 9 .. 16
      BY <1>3
    <2>4. i \in 9 .. 16 => (w \div Weight[i]) % 2 = 0
      BY <1>3, <1>7, ByteHasNoMore
    <2> QED
      BY <1>1, <1>4, <1>5, <2>1, <2>2, <2>3, <2>4
  <1> QED
    BY <1>3, <1>6, <1>7

-----------------------------------------------------------------------------
(* Host and device in step: what the device is in at each call of the      *)
(* host, as long as nothing has been thrown.                               *)
CodeState(c) ==
    CASE c.name = "load"      -> "LOAD_PC"
      [] c.name = "increment" -> "INC_PC"
      [] c.name = "read"      -> "READ_NVM"
      [] c.name = "write"     -> "WRITE"
      [] c.name = "erase"     -> "BULK_ERASE"

(* What is sent, and the state that takes it. *)
Message(what) ==
    CASE what = "key"      -> KEY_SEQ
      [] what = "code"     -> <<Code(op)>>
      [] what = "argument" -> WriteCast(Argument(op))

Into(what) ==
    CASE what = "key"      -> "MCLR"
      [] what = "code"     -> "COMMAND_PREAMBLE"
      [] what = "argument" -> CodeState(op)

Held == pins.clk = 0 /\ pins.data = "out" /\ LatchHeld

Rested == Held /\ age.fell >= 1

(* The device takes the next command. *)
Await ==
    \/ dev.state = "PROGRAMMING" /\ 10 * age.fell >= dev.ts /\ dev.ts <= 110000
    \/ dev.state = "INC_PC"

Taken(what, n) ==
    /\ dev.state = Into(what) /\ dev.cnt = n
    /\ dev.data = Prefix(Message(what), n)
    /\ what = "argument" /\ op.name = "write" => dev.inc = op.inc

Answering(n) ==
    /\ dev.state = "READ_NVM" /\ dev.cnt = n
    /\ dev.data = WordAt(dev.pc) /\ dev.inc = op.inc

Ready(what) ==
    /\ what = "key" => Taken(what, 0) /\ age.fell >= 1000
    /\ what = "code" => Await
    /\ what = "argument" => Taken(what, 0)

Reached(what, us) ==
    /\ what = "key" => dev.state = "PROGRAMMING" /\ dev.ts = Hold
    /\ what = "code" /\ HasArgument(op) => Taken("argument", 0)
    /\ what = "code" /\ op.name = "increment" => dev.state = "INC_PC"
    /\ what = "code" /\ op.name = "read" => Answering(24)
    /\ what = "argument" => /\ dev.state = "PROGRAMMING"
                            /\ dev.ts <= 10 * us /\ dev.ts <= 110000

BitsOf(what) == 8 * Len(Message(what))

(* Inside the loop of write_data_sequence. *)
Sending(what, us) ==
    /\ pins.data = "out"
    /\ pins.clk = 1 <=> step \in {2, 3, 4}
    /\ step = 1 => /\ LatchHeld /\ age.fell >= 1
                   /\ IF bit = 0 THEN Ready(what) ELSE Taken(what, bit)
    /\ step = 2 => LatchHeld
    /\ step \in {2, 3, 4} => Taken(what, bit)
    /\ step \in {3, 4} => line = BitOf(Message(what), bit)
    /\ step = 4 => age.rose >= 1 /\ age.changed >= 1
    /\ step = 5 => IF bit + 1 = BitsOf(what) THEN Reached(what, us)
                   ELSE Taken(what, bit + 1)

(* Callers stay on words of the map, or have no address. *)
Aligned == PCSeen # NoPC /\ Mapped(Map, PCSeen) => Addressable(Map, PCSeen)

(* The command is still what it was when it was asked for. *)
Pending(us) == MayAsk(op) /\ us = WaitFor(op, WithRegion(Map, PCSeen))

SendAt(what, us) ==
    /\ ScriptInv /\ DevInv /\ PinInv /\ LineInv /\ us \in Nat
    /\ what \in {"key", "code", "argument"}
    /\ what # "key" => op \in Requests /\ Aligned /\ (step = 5 \/ Pending(us))
    /\ what = "argument" => HasArgument(op)
    /\ script # <<>> /\ Head(script) = Send(Message(what))
    /\ Sending(what, us)

Unmoved == dev'.mem = dev.mem /\ PCSeen' = PCSeen

LEMMA AcceptedIs ==
    ASSUME script # <<>>,
           \/ Call.do \in {"mclr", "prog_en", "clk"} /\ pins[Call.do] = Call.level
           \/ Call.do = "clk" /\ Call.level = 1 /\ RiseAccepted
           \/ Call.do = "clk" /\ Call.level = 0 /\ FallAccepted
           \/ Call.do = "write" /\ WriteAccepted
           \/ Call.do = "read" /\ ReadAccepted
           \/ Call.do = "mode" /\ (Call.mode = "out" => LatchHeld)
           \/ Call.do = "delay"
           \/ \E name \in {"mclr", "prog_en"} :
                 Call.do = name /\ ControlAccepted(name, Call.level)
    PROVE  Accepted
  BY DEF Accepted, AtCall, IsControl

LEMMA MessageTyped ==
    ASSUME NEW what \in {"key", "code", "argument"},
           what # "key" => op \in Requests
    PROVE  Message(what) \in Bytes
  <1>1. CASE what = "key"
    <2>1. KEY_SEQ \in Bytes
      BY DEF KEY_SEQ, Bytes
    <2> QED
      BY <1>1, <2>1 DEF Message
  <1>2. CASE what = "code"
    <2>1. Code(op) \in {128, 248, 252, 254, 192, 224, 24}
      <3>1. op \in RequestType
        BY <1>2, Requested
      <3> QED
        BY <3>1, CodeSent
    <2>2. <<Code(op)>> \in Bytes
      BY <2>1 DEF Bytes
    <2> QED
      BY <1>2, <2>2 DEF Message
  <1>3. CASE what = "argument"
    <2>1. WriteCast(Argument(op)) \in Bytes
      BY <1>3, Requested, ArgumentTyped, WriteCastBytes
    <2> QED
      BY <1>3, <2>1 DEF Message
  <1> QED
    BY <1>1, <1>2, <1>3

(* The call that is next in the loop, and where it leads. *)
LEMMA SendCall ==
    ASSUME NEW what, NEW us, SendAt(what, us)
    PROVE  /\ Message(what) \in Bytes
           /\ BitsOf(what) \in {8, 24, 32} /\ bit \in Nat /\ bit < BitsOf(what)
           /\ step \in {1, 2, 3, 4, 5}
           /\ step = 1 => Call = Pin("clk", 1)
           /\ step = 2 => Call = WriteData(BitOf(Message(what), bit))
           /\ step = 3 => Call = Wait(2)
           /\ step = 4 => Call = Pin("clk", 0)
           /\ step = 5 => Call = Wait(2)
           /\ MakeCall => /\ step < 5 => /\ step' = step + 1 /\ bit' = bit
                                         /\ script' = script
                          /\ step = 5 /\ bit + 1 # BitsOf(what) =>
                                /\ step' = 1 /\ bit' = bit + 1 /\ script' = script
                          /\ step = 5 /\ bit + 1 = BitsOf(what) =>
                                /\ step' = 1 /\ bit' = 0 /\ script' = Tail(script)
  <1>1. PICK m : m = Message(what)
    OBVIOUS
  <1>2. m \in Bytes /\ Head(script) = Send(m) /\ script # <<>>
    BY <1>1, MessageTyped DEF SendAt
  <1>3. PICK h : h = Send(m)
    OBVIOUS
  <1>4. h \in HostCall /\ Clocks(h) /\ h.do = "send" /\ h.bytes = m
    BY <1>2, <1>3, CallsAreHostCalls DEF Send, Clocks
  <1>5. PICK n : n = BitsOf(what)
    OBVIOUS
  <1>6. n \in {8, 24, 32} /\ Bits(h) = n
    BY <1>1, <1>4, <1>5, BitsCounted DEF Bits, BitsOf
  <1>7. bit \in Nat /\ bit < n /\ step \in {1, 2, 3, 4, 5}
    <2>1. LoopAt(script, bit, step) /\ bit \in Nat /\ step \in 1 .. 5
      BY DEF SendAt, ScriptInv
    <2>2. bit < Bits(Head(script))
      BY <1>2, <1>3, <1>4, <2>1 DEF LoopAt, Looping
    <2> QED
      BY <1>2, <1>3, <1>6, <2>1, <2>2
  <1>8. Call = BitCalls(h, bit)[step]
    BY <1>2, <1>3, <1>4, <1>7, CallKinds DEF Call
  <1>9. /\ step = 1 => Call = Pin("clk", 1)
        /\ step = 2 => Call = WriteData(BitOf(m, bit))
        /\ step = 3 => Call = Wait(2)
        /\ step = 4 => Call = Pin("clk", 0)
        /\ step = 5 => Call = Wait(2)
    BY <1>4, <1>8, BitCallsAre
  <1>10. ASSUME MakeCall
         PROVE  /\ step < 5 => step' = step + 1 /\ bit' = bit /\ script' = script
                /\ step = 5 /\ bit + 1 # n =>
                      step' = 1 /\ bit' = bit + 1 /\ script' = script
                /\ step = 5 /\ bit + 1 = n =>
                      step' = 1 /\ bit' = 0 /\ script' = Tail(script)
    <2>1. Advance
      BY <1>10 DEF MakeCall
    <2>2. /\ step' = (step % 5) + 1
          /\ bit' = IF step = 5 THEN (bit + 1) % n ELSE bit
          /\ script' = IF step = 5 /\ bit = n - 1 THEN Tail(script) ELSE script
      BY <1>2, <1>3, <1>4, <1>6, <2>1 DEF Advance
    <2>3. CASE step < 5
      <3>1. (step % 5) + 1 = step + 1 /\ step # 5
        BY <1>7, <2>3
      <3> QED
        BY <2>2, <3>1
    <2>4. CASE step = 5
      <3>1. (step % 5) + 1 = 1
        BY <2>4
      <3>2. bit = n - 1 <=> bit + 1 = n
        BY <1>6, <1>7
      <3>3. (bit + 1) % n = IF bit + 1 = n THEN 0 ELSE bit + 1
        <4>1. CASE n = 8
          BY <1>7, <4>1
        <4>2. CASE n = 24
          BY <1>7, <4>2
        <4>3. CASE n = 32
          BY <1>7, <4>3
        <4> QED
          BY <1>6, <4>1, <4>2, <4>3
      <3> QED
        BY <2>2, <2>4, <3>1, <3>2, <3>3
    <2> QED
      BY <1>7, <2>3, <2>4
  <1> QED
    BY <1>1, <1>2, <1>5, <1>6, <1>7, <1>9, <1>10

LEMMA DeviceStill ==
    ASSUME dev' = dev, op' = op
    PROVE  /\ Unmoved
           /\ \A what, n : Taken(what, n) => Taken(what, n)'
           /\ \A n : Answering(n) => Answering(n)'
           /\ \A what, us : Reached(what, us) => Reached(what, us)'
  <1>1. Unmoved
    BY DEF Unmoved, PCSeen, DeviceRegion
  <1>2. \A what, n : Taken(what, n) => Taken(what, n)'
    BY DEF Taken, Into, Message
  <1>3. \A n : Answering(n) => Answering(n)'
    BY DEF Answering, WordAt, DeviceRegion
  <1>4. \A what, us : Reached(what, us) => Reached(what, us)'
    BY <1>2, <1>3 DEF Reached
  <1> QED
    BY <1>1, <1>2, <1>3, <1>4

LEMMA IntoReceiving ==
    ASSUME NEW what, NEW us, SendAt(what, us)
    PROVE  Into(what) \in Receiving
  BY DEF SendAt, Into, CodeState, HasArgument, Receiving

(* What the device makes of the rising edge at the start of a bit. *)
LEMMA BitRises ==
    ASSUME NEW what, NEW us, SendAt(what, us), step = 1, NEW n, n = bit,
           Taken(what, n), n = 0 /\ what = "key" => age.fell >= 1000
    PROVE  /\ RiseAccepted
           /\ ClkRises /\ op' = op =>
                 Taken(what, n)' /\ Unmoved /\ dev.state # "READ_NVM"
  <1>1. /\ age.fell >= 1 /\ age.fell \in Nat
        /\ what \in {"key", "code", "argument"}
    BY DEF SendAt, Sending, LineInv
  <1>2. dev.state \in Receiving /\ dev.state = Into(what) /\ dev.cnt = n
    BY IntoReceiving DEF Taken
  <1>3. dev.state = "MCLR" => what = "key"
    BY <1>1, <1>2 DEF Into, SendAt, CodeState, HasArgument
  <1>4. RiseAccepted
    BY <1>1, <1>2, <1>3, ReceivesAre DEF RiseAccepted, Receiving, DevT_ENTH
  <1>5. ASSUME ClkRises, op' = op
        PROVE  Taken(what, n)' /\ Unmoved
    <2>1. dev' = dev
      BY <1>2, <1>5 DEF ClkRises, Risen, Receiving
    <2> QED
      BY <1>5, <2>1, DeviceStill
  <1> QED
    BY <1>2, <1>4, <1>5 DEF Receiving

LEMMA CommandRises ==
    ASSUME NEW us, SendAt("code", us), Await
    PROVE  /\ RiseAccepted \/ age.fell < 1
           /\ ClkRises /\ op' = op =>
                 Taken("code", 0)' /\ Unmoved /\ dev.state # "READ_NVM"
  <1>1. dev \in Device /\ age.fell \in Nat /\ dev.ts \in Nat /\ dev.pc \in Nat \cup {NoPC}
    BY DEF SendAt, LineInv, DevInv, Device
  <1>2. dev.state \in {"PROGRAMMING", "INC_PC"}
    BY DEF Await
  <1>3. RiseAccepted \/ age.fell < 1
    <2>1. CASE dev.state = "PROGRAMMING" /\ age.fell >= 1
      BY <1>1, <2>1 DEF RiseAccepted, Await
    <2>2. CASE dev.state = "INC_PC" /\ age.fell >= 1
      <3>1. 10 * age.fell >= Dly
        BY <1>1, <2>2 DEF Dly
      <3> QED
        BY <2>2, <3>1 DEF RiseAccepted
    <2> QED
      BY <1>1, <1>2, <2>1, <2>2
  <1>4. ASSUME ClkRises, op' = op
        PROVE  Taken("code", 0)' /\ Unmoved
    <2>1. ASSUME NEW d \in Device, dev' = To(d, "COMMAND_PREAMBLE"), d.mem = dev.mem,
                 d.pc = PCSeen
          PROVE  Taken("code", 0)' /\ Unmoved
      <3>1. /\ dev'.state = "COMMAND_PREAMBLE" /\ dev'.cnt = 0 /\ dev'.data = 0
            /\ dev'.pc = d.pc /\ dev'.mem = d.mem
        BY <2>1, BackTo DEF DeviceState
      <3>2. Prefix(Message("code")', 0) = 0
        <4>1. Message("code") \in Bytes
          BY MessageTyped DEF SendAt
        <4>2. Message("code")' = Message("code")
          BY <1>4 DEF Message
        <4> QED
          BY <4>1, <4>2, PrefixEnds
      <3>3. Taken("code", 0)'
        BY <3>1, <3>2 DEF Taken, Into
      <3>4. Unmoved
        BY <2>1, <3>1 DEF Unmoved, PCSeen
      <3> QED
        BY <3>3, <3>4
    <2>2. CASE dev.state = "PROGRAMMING"
      <3>1. dev' = To(dev, "COMMAND_PREAMBLE") /\ dev.pc = PCSeen
        BY <1>4, <2>2 DEF ClkRises, Risen, PCSeen
      <3> QED
        BY <1>1, <2>1, <3>1
    <2>3. CASE dev.state = "INC_PC"
      <3>1. HasWord
        BY <2>3 DEF SendAt, DevInv
      <3>2. PICK a \in Nat : a = dev.pc + DeviceRegion.word_size
        <4>1. dev.pc + DeviceRegion.word_size \in Nat
          BY <3>1, DeviceWord DEF SendAt
        <4> QED
          BY <4>1
      <3>3. PICK d : d = [dev EXCEPT !.pc = a]
        OBVIOUS
      <3>4. d \in Device /\ d.mem = dev.mem /\ d.pc = a
        BY <1>1, <3>3 DEF Device
      <3>5. dev' = To(d, "COMMAND_PREAMBLE") /\ a = PCSeen
        BY <1>4, <2>3, <3>2, <3>3 DEF ClkRises, Risen, PCSeen
      <3> QED
        BY <2>1, <3>4, <3>5
    <2> QED
      BY <1>2, <2>2, <2>3
  <1> QED
    BY <1>2, <1>3, <1>4

LEMMA SendRises ==
    ASSUME NEW what, NEW us, SendAt(what, us), step = 1
    PROVE  /\ Accepted
           /\ MakeCall => Sending(what, us)' /\ Unmoved /\ script' = script
  <1>1. PICK n : n = bit
    OBVIOUS
  <1>2. /\ age.fell >= 1 /\ age.fell \in Nat /\ LatchHeld /\ pins.data = "out" /\ pins.clk = 0
        /\ IF n = 0 THEN Ready(what) ELSE Taken(what, n)
        /\ what \in {"key", "code", "argument"}
    BY <1>1 DEF SendAt, Sending, LineInv, PinInv
  <1>3. Call = Pin("clk", 1) /\ Call.do = "clk" /\ Call.level = 1 /\ script # <<>>
    BY SendCall DEF Pin, SendAt
  <1>4. /\ RiseAccepted
        /\ ClkRises /\ op' = op =>
              Taken(what, n)' /\ Unmoved /\ dev.state # "READ_NVM"
    <2>1. CASE n = 0 /\ what = "code"
      BY <1>2, <2>1, CommandRises DEF Ready
    <2>2. CASE ~ (n = 0 /\ what = "code")
      <3>1. Taken(what, n) /\ (n = 0 /\ what = "key" => age.fell >= 1000)
        BY <1>2, <2>2 DEF Ready
      <3> QED
        BY <1>1, <3>1, BitRises
    <2> QED
      BY <2>1, <2>2
  <1>5. Accepted
    BY <1>3, <1>4, AcceptedIs
  <1>6. ASSUME MakeCall
        PROVE  Sending(what, us)' /\ Unmoved /\ script' = script
    <2>1. op' = op /\ step' = 2 /\ bit' = n /\ script' = script
      <3>1. step' = 1 + 1
        BY <1>6, SendCall
      <3> QED
        BY <1>1, <1>6, <3>1, SendCall DEF MakeCall
    <2>2. ClkRises
      <3>1. ScriptInv
        BY DEF SendAt
      <3>2. pins.clk # Call.level /\ Call.level # 0
        BY <1>2, <1>3
      <3> QED
        BY <1>3, <1>6, <3>1, <3>2, CallDoes
    <2>3. Taken(what, n)' /\ Unmoved /\ dev.state # "READ_NVM"
      BY <1>4, <2>1, <2>2
    <2>4. pins'.clk = 1 /\ pins'.data = "out" /\ age'.latched = age.latched
      <3>1. /\ pins' = [pins EXCEPT !.clk = 1] /\ age' = [age EXCEPT !.rose = 0]
        BY <2>2, <2>3 DEF ClkRises
      <3> QED
        BY <1>2, <3>1 DEF SendAt, PinInv, LineInv
    <2>5. LatchHeld'
      BY <1>2, <2>4 DEF LatchHeld
    <2>6. Sending(what, us)'
      BY <2>1, <2>3, <2>4, <2>5 DEF Sending
    <2> QED
      BY <2>1, <2>3, <2>6
  <1> QED
    BY <1>5, <1>6

LEMMA SendWrites ==
    ASSUME NEW what, NEW us, SendAt(what, us), step = 2
    PROVE  /\ Accepted
           /\ MakeCall => Sending(what, us)' /\ Unmoved /\ script' = script
  <1>1. PICK n : n = bit
    OBVIOUS
  <1>2. LatchHeld /\ pins.data = "out" /\ pins.clk = 1 /\ Taken(what, n)
    BY <1>1 DEF SendAt, Sending
  <1>3. /\ Call = WriteData(BitOf(Message(what), n)) /\ Call.do = "write"
        /\ Call.level = BitOf(Message(what), n) /\ script # <<>>
    BY <1>1, SendCall DEF WriteData, SendAt
  <1>4. Accepted
    BY <1>2, <1>3, AcceptedIs DEF WriteAccepted
  <1>5. ASSUME MakeCall
        PROVE  Sending(what, us)' /\ Unmoved /\ script' = script
    <2>1. op' = op /\ step' = 3 /\ bit' = n /\ script' = script
      <3>1. step' = 2 + 1
        BY <1>5, SendCall
      <3> QED
        BY <1>1, <1>5, <3>1, SendCall DEF MakeCall
    <2>2. DataWritten
      BY <1>3, <1>5, CallDoes DEF SendAt
    <2>3. line' = BitOf(Message(what), n) /\ pins' = pins /\ dev' = dev
      BY <1>3, <2>2 DEF DataWritten
    <2>4. Taken(what, n)' /\ Unmoved
      BY <1>2, <2>1, <2>3, DeviceStill
    <2>5. line' = BitOf(Message(what)', n)
      BY <2>1, <2>3 DEF Message
    <2>6. Sending(what, us)'
      BY <1>2, <2>1, <2>3, <2>4, <2>5 DEF Sending
    <2> QED
      BY <2>1, <2>4, <2>6
  <1> QED
    BY <1>4, <1>5

(* A wait makes every edge as old as it is long. *)
LEMMA Waited ==
    ASSUME LineInv, Delay, NEW us \in Nat, us <= Cap, Call.us = us
    PROVE  /\ age'.rose >= us /\ age'.fell >= us /\ age'.changed >= us
           /\ age' \in [rose : Nat, fell : Nat, changed : Nat, latched : Nat \cup {Never}]
           /\ us >= 1 => LatchHeld'
           /\ age'.fell = IF age.fell + us > Cap THEN Cap ELSE age.fell + us
           /\ pins' = pins /\ line' = line /\ dev' = dev
  <1>1. age \in [rose : Nat, fell : Nat, changed : Nat, latched : Nat \cup {Never}]
    BY DEF LineInv
  <1>2. age' = [e \in DOMAIN age |-> Elapsed(age[e], us)] /\ Cap \in Nat
    BY DEF Delay, Cap
  <1>3. /\ age'.rose = Elapsed(age.rose, us) /\ age'.fell = Elapsed(age.fell, us)
        /\ age'.changed = Elapsed(age.changed, us)
        /\ age'.latched = Elapsed(age.latched, us)
        /\ DOMAIN age' = {"rose", "fell", "changed", "latched"}
        /\ age' = [e \in {"rose", "fell", "changed", "latched"} |-> age'[e]]
    BY <1>1, <1>2
  <1>4. ASSUME NEW t \in Nat
        PROVE  /\ Elapsed(t, us) \in Nat /\ Elapsed(t, us) >= us
               /\ Elapsed(t, us) = IF t + us > Cap THEN Cap ELSE t + us
    BY <1>2 DEF Elapsed, Never
  <1>5. /\ Elapsed(age.latched, us) \in Nat \cup {Never}
        /\ us >= 1 => Elapsed(age.latched, us) = Never \/ Elapsed(age.latched, us) >= 1
    <2>1. CASE age.latched = Never
      BY <2>1 DEF Elapsed
    <2>2. CASE age.latched \in Nat
      BY <1>4, <2>2
    <2> QED
      BY <1>1, <2>1, <2>2
  <1>6. /\ age'.rose \in Nat /\ age'.fell \in Nat /\ age'.changed \in Nat
        /\ age'.rose >= us /\ age'.fell >= us /\ age'.changed >= us
        /\ age'.fell = IF age.fell + us > Cap THEN Cap ELSE age.fell + us
    BY <1>1, <1>3, <1>4
  <1>7. age'.latched \in Nat \cup {Never} /\ (us >= 1 => LatchHeld')
    BY <1>3, <1>5 DEF LatchHeld
  <1>8. age' \in [rose : Nat, fell : Nat, changed : Nat, latched : Nat \cup {Never}]
    BY <1>3, <1>6, <1>7
  <1> QED
    BY <1>6, <1>7, <1>8 DEF Delay

LEMMA SendHolds ==
    ASSUME NEW what, NEW us, SendAt(what, us), step = 3
    PROVE  /\ Accepted
           /\ MakeCall => Sending(what, us)' /\ Unmoved /\ script' = script
  <1>1. PICK n : n = bit
    OBVIOUS
  <1>2. /\ pins.data = "out" /\ pins.clk = 1 /\ Taken(what, n)
        /\ line = BitOf(Message(what), n)
    BY <1>1 DEF SendAt, Sending
  <1>3. Call = Wait(2) /\ Call.do = "delay" /\ Call.us = 2 /\ script # <<>>
    BY SendCall DEF Wait, SendAt
  <1>4. Accepted
    BY <1>3, AcceptedIs
  <1>5. ASSUME MakeCall
        PROVE  Sending(what, us)' /\ Unmoved /\ script' = script
    <2>1. op' = op /\ step' = 4 /\ bit' = n /\ script' = script
      <3>1. step' = 3 + 1
        BY <1>5, SendCall
      <3> QED
        BY <1>1, <1>5, <3>1, SendCall DEF MakeCall
    <2>2. Delay
      BY <1>3, <1>5, CallDoes DEF SendAt
    <2>3. /\ age'.rose >= 2 /\ age'.changed >= 2 /\ pins' = pins /\ line' = line
          /\ dev' = dev
          /\ age' \in [rose : Nat, fell : Nat, changed : Nat, latched : Nat \cup {Never}]
      <3>1. 2 \in Nat /\ 2 <= Cap /\ LineInv
        BY DEF Cap, SendAt
      <3> QED
        BY <1>3, <2>2, <3>1, Waited
    <2>4. age'.rose >= 1 /\ age'.changed >= 1
      BY <2>3
    <2>5. Taken(what, n)' /\ Unmoved
      BY <1>2, <2>1, <2>3, DeviceStill
    <2>6. line' = BitOf(Message(what)', n)
      BY <1>2, <2>1, <2>3 DEF Message
    <2>7. Sending(what, us)'
      BY <1>2, <2>1, <2>3, <2>4, <2>5, <2>6 DEF Sending
    <2> QED
      BY <2>1, <2>5, <2>7
  <1> QED
    BY <1>4, <1>5

(* Behind the last bit the line rests, and the device has got where the    *)
(* message takes it.                                                       *)
LEMMA SendRests ==
    ASSUME NEW what, NEW us, SendAt(what, us), step = 5
    PROVE  /\ Accepted
           /\ MakeCall =>
                 /\ Unmoved /\ age'.fell >= 2 /\ Rested'
                 /\ bit + 1 # BitsOf(what) => Sending(what, us)' /\ script' = script
                 /\ bit + 1 = BitsOf(what) =>
                       /\ Reached(what, us)' /\ script' = Tail(script)
                       /\ bit' = 0 /\ step' = 1
  <1>1. PICK n \in Nat : n = bit
    BY SendCall
  <1>2. /\ pins.data = "out" /\ pins.clk = 0
        /\ IF n + 1 = BitsOf(what) THEN Reached(what, us) ELSE Taken(what, n + 1)
    BY <1>1 DEF SendAt, Sending, PinInv
  <1>3. Call = Wait(2) /\ Call.do = "delay" /\ Call.us = 2 /\ script # <<>>
    BY SendCall DEF Wait, SendAt
  <1>4. Accepted
    BY <1>3, AcceptedIs
  <1>5. ASSUME MakeCall
        PROVE  /\ Unmoved /\ age'.fell >= 2 /\ Rested'
               /\ bit + 1 # BitsOf(what) => Sending(what, us)' /\ script' = script
               /\ bit + 1 = BitsOf(what) =>
                     /\ Reached(what, us)' /\ script' = Tail(script)
                     /\ bit' = 0 /\ step' = 1
    <2>1. op' = op /\ step' = 1
      BY <1>5, SendCall DEF MakeCall
    <2>2. Delay
      BY <1>3, <1>5, CallDoes DEF SendAt
    <2>3. /\ age'.fell >= 2 /\ pins' = pins /\ dev' = dev /\ LatchHeld'
          /\ age' \in [rose : Nat, fell : Nat, changed : Nat, latched : Nat \cup {Never}]
      <3>1. 2 \in Nat /\ 2 <= Cap /\ LineInv /\ 2 >= 1
        BY DEF Cap, SendAt
      <3> QED
        BY <1>3, <2>2, <3>1, Waited
    <2>4. age'.fell >= 1
      BY <2>3
    <2>5. /\ Unmoved
          /\ \A m : Taken(what, m) => Taken(what, m)'
          /\ Reached(what, us) => Reached(what, us)'
      BY <2>1, <2>3, DeviceStill
    <2>6. Rested'
      BY <1>2, <2>3, <2>4 DEF Rested, Held
    <2>7. ASSUME n + 1 # BitsOf(what)
          PROVE  Sending(what, us)' /\ script' = script
      <3>1. bit' = n + 1 /\ script' = script /\ bit' # 0
        BY <1>1, <1>5, <2>7, SendCall
      <3>2. PICK m : m = n + 1
        OBVIOUS
      <3>3. Taken(what, m)' /\ bit' = m
        BY <1>2, <2>5, <2>7, <3>1, <3>2
      <3>4. Sending(what, us)'
        BY <1>2, <2>1, <2>3, <2>4, <3>1, <3>3 DEF Sending
      <3> QED
        BY <3>1, <3>4
    <2>8. ASSUME n + 1 = BitsOf(what)
          PROVE  /\ Reached(what, us)' /\ script' = Tail(script)
                 /\ bit' = 0 /\ step' = 1
      BY <1>1, <1>2, <1>5, <2>1, <2>5, <2>8, SendCall
    <2> QED
      BY <1>1, <2>3, <2>5, <2>6, <2>7, <2>8
  <1> QED
    BY <1>4, <1>5

-----------------------------------------------------------------------------
(* A word of the map lies in one region, and the address behind it is one  *)
(* of a word again or of none.                                             *)
LEMMA WordInside ==
    ASSUME NEW a \in Nat, Addressable(Map, a), NEW r, r = WithRegion(Map, a)
    PROVE  /\ r \in Region /\ a + r.word_size \in Nat
           /\ a + r.word_size <= r.end /\ r.end <= 4194304
           /\ Mapped(Map, a + r.word_size) => Addressable(Map, a + r.word_size)
  <1>1. Mapped(Map, a) /\ a % r.word_size = 0
    BY DEF Addressable
  <1>2. r \in Region /\ InRegion(a, r)
    BY <1>1, RegionAt
  <1>3. PICK i \in DOMAIN Map : r = Map[i]
    BY <1>1, RegionAt
  <1>4. PICK e, s, w : e = r.end /\ s = r.start /\ w = r.word_size
    OBVIOUS
  <1>5. /\ e \in Nat /\ s \in Nat /\ w \in {1, 2} /\ s <= a /\ a < e /\ a % w = 0
    BY <1>1, <1>2, <1>4 DEF Region, InRegion
  <1>6. e % w = 0 /\ e <= 4194304
    BY <1>3, <1>4, WireAssumption DEF WellFormedMap
  <1>7. a + w \in Nat /\ a + w <= e /\ (a + w) % w = 0
    <2>1. CASE w = 1
      BY <1>5, <2>1
    <2>2. CASE w = 2
      BY <1>5, <1>6, <2>2
    <2> QED
      BY <1>5, <2>1, <2>2
  <1>8. ASSUME Mapped(Map, a + w)
        PROVE  Addressable(Map, a + w)
    <2>1. CASE a + w = e
      <3>1. ~ Mapped(Map, e)
        BY <1>3, <1>4, WireAssumption, GapAfterRegion
      <3> QED
        BY <1>8, <2>1, <3>1
    <2>2. CASE a + w # e
      <3>1. InRegion(a + w, Map[i])
        BY <1>3, <1>4, <1>5, <1>7, <2>2 DEF InRegion
      <3>2. WithRegion(Map, a + w) = r
        BY <1>3, <1>7, <3>1, WireAssumption, WithRegionUnique
      <3> QED
        BY <1>4, <1>7, <1>8, <3>2 DEF Addressable
    <2> QED
      BY <2>1, <2>2
  <1> QED
    BY <1>2, <1>4, <1>6, <1>7, <1>8

(* What a command does to the device at its last edge. *)
SeenRegion == WithRegion(Map, PCSeen)

PCNext(inc) == IF inc /\ SeenRegion.autoincrement_addr
               THEN PCSeen + SeenRegion.word_size ELSE PCSeen

Written(word) ==
    [a \in DOMAIN dev.mem |->
       IF a = PCSeen THEN word % 256
       ELSE IF a = PCSeen + 1 /\ SeenRegion.word_size = 2 THEN word \div 256
            ELSE dev.mem[a]]

Emptied(mask) ==
    [a \in DOMAIN dev.mem |->
       IF a \in MaskAddrs(Map, mask \cap {"EEPROM", "PROGRAM", "USER", "CONFIG"})
       THEN 255 ELSE dev.mem[a]]

Effect ==
    /\ op.name = "load" => PCSeen' = op.arg
    /\ op.name = "increment" => PCSeen' = PCSeen + SeenRegion.word_size
    /\ op.name \in {"read", "write"} => PCSeen' = PCNext(op.inc)
    /\ op.name = "erase" => PCSeen' = PCSeen
    /\ op.name = "write" => dev'.mem = Written(op.arg)
    /\ op.name = "erase" => dev'.mem = Emptied(op.mask)
    /\ op.name \in {"load", "increment", "read"} => dev'.mem = dev.mem

LEMMA EffectAligned ==
    ASSUME DevInv, Aligned, op \in Requests, MayAsk(op), Effect
    PROVE  Aligned'
  <1>1. PICK p, q : p = PCSeen' /\ q = PCSeen
    OBVIOUS
  <1>2. SUFFICES ASSUME p # NoPC, Mapped(Map, p)
                 PROVE  Addressable(Map, p)
    BY <1>1 DEF Aligned
  <1>3. op \in RequestType /\ (op.name = "load" => Addressable(Map, op.arg))
    BY Requested
  <1>4. q # NoPC /\ Mapped(Map, q) => Addressable(Map, q)
    BY <1>1 DEF Aligned
  <1>5. CASE op.name = "load"
    BY <1>1, <1>3, <1>5 DEF Effect
  <1>6. CASE op.name = "erase"
    BY <1>1, <1>2, <1>4, <1>6 DEF Effect
  <1>7. CASE op.name \in {"increment", "read", "write"}
    <2>1. q \in Nat /\ Addressable(Map, q)
      BY <1>1, <1>4, <1>7, PCSeenTyped DEF MayAsk
    <2>2. PICK r : r = WithRegion(Map, q)
      OBVIOUS
    <2>3. Mapped(Map, q + r.word_size) => Addressable(Map, q + r.word_size)
      BY <2>1, <2>2, WordInside
    <2>4. p \in {q, q + r.word_size}
      BY <1>1, <1>7, <2>2 DEF Effect, PCNext, SeenRegion
    <2> QED
      BY <1>2, <2>1, <2>3, <2>4
  <1> QED
    BY <1>3, <1>5, <1>6, <1>7 DEF RequestType

LEMMA ArgumentBound ==
    ASSUME op \in Requests, HasArgument(op)
    PROVE  Argument(op) \in Nat /\ Argument(op) < 4194304
  <1>1. /\ op \in RequestType
        /\ op.name = "load" => Addressable(Map, op.arg)
        /\ op.name = "write" => op.arg < 65536
    BY Requested
  <1>2. CASE op.name = "load"
    <2>1. PICK a \in Nat : a = op.arg /\ Addressable(Map, a)
      BY <1>1, <1>2 DEF RequestType
    <2>2. PICK r : r = WithRegion(Map, a)
      OBVIOUS
    <2>3. r.end <= 4194304 /\ r.end \in Nat /\ a < r.end
      BY <2>1, <2>2, WordInside, RegionAt DEF Addressable, InRegion, Region
    <2> QED
      BY <1>2, <2>1, <2>3 DEF Argument
  <1>3. CASE op.name = "write"
    BY <1>1, <1>3 DEF Argument, RequestType
  <1>4. CASE op.name = "erase"
    <2>1. EraseBits(op.mask) \in 0 .. 15
      BY ErasesMask
    <2> QED
      BY <1>4, <2>1 DEF Argument
  <1> QED
    BY <1>2, <1>3, <1>4 DEF HasArgument

(* A message has as many bits as the state takes that it is for, and they  *)
(* make up what it stands for.                                             *)
LEMMA MessageWhole ==
    ASSUME NEW what, NEW us, SendAt(what, us)
    PROVE  /\ Receives[Into(what)] = BitsOf(what)
           /\ Into(what) = "MCLR" <=> what = "key"
           /\ Into(what) = "COMMAND_PREAMBLE" <=> what = "code"
           /\ what = "key" => Prefix(Message(what), BitsOf(what)) = KEY
           /\ what = "code" => Prefix(Message(what), BitsOf(what)) = Code(op)
           /\ what = "argument" =>
                 Prefix(Message(what), BitsOf(what)) = 2 * Argument(op)
  <1>1. PICK m : m = Message(what)
    OBVIOUS
  <1>2. m \in Bytes /\ what \in {"key", "code", "argument"}
    BY <1>1, MessageTyped DEF SendAt
  <1>3. Prefix(m, 8 * Len(m)) = Whole(m, Len(m))
    BY <1>2, PrefixEnds
  <1>4. CASE what = "key"
    <2>1. m = KEY_SEQ /\ Len(m) = 4
      BY <1>1, <1>4 DEF Message, KEY_SEQ
    <2>2. BitsOf(what) = 8 * 4
      BY <1>1, <2>1 DEF BitsOf
    <2>3. Into(what) = "MCLR"
      BY <1>4 DEF Into
    <2>4. Receives[Into(what)] = BitsOf(what)
      BY <2>2, <2>3, ReceivesAre
    <2>5. Prefix(Message(what), BitsOf(what)) = KEY
      <3>1. Prefix(m, 8 * 4) = Whole(KEY_SEQ, 4)
        BY <1>3, <2>1
      <3> QED
        BY <1>1, <2>2, <3>1, KeyWhole
    <2> QED
      BY <1>4, <2>3, <2>4, <2>5
  <1>5. CASE what = "code"
    <2>1. m = <<Code(op)>> /\ Len(m) = 1
      BY <1>1, <1>5 DEF Message
    <2>2. BitsOf(what) = 8 * 1
      BY <1>1, <2>1 DEF BitsOf
    <2>3. Into(what) = "COMMAND_PREAMBLE"
      BY <1>5 DEF Into
    <2>4. Receives[Into(what)] = BitsOf(what)
      BY <2>2, <2>3, ReceivesAre
    <2>5. Prefix(Message(what), BitsOf(what)) = Code(op)
      <3>1. Prefix(m, 8 * 1) = Whole(m, 1)
        BY <1>3, <2>1
      <3>2. Whole(m, 1) = Code(op)
        BY <2>1, CodeWhole
      <3> QED
        BY <1>1, <2>2, <3>1, <3>2
    <2> QED
      BY <1>5, <2>3, <2>4, <2>5
  <1>6. CASE what = "argument"
    <2>1. op \in Requests /\ HasArgument(op)
      BY <1>6 DEF SendAt
    <2>2. Argument(op) \in Nat /\ Argument(op) < 4194304
      BY <2>1, ArgumentBound
    <2>3. m = WriteCast(Argument(op)) /\ Len(m) = 3
      BY <1>1, <1>6, <2>2, WriteCastBytes DEF Message
    <2>4. BitsOf(what) = 8 * 3
      BY <1>1, <2>3 DEF BitsOf
    <2>5. Into(what) \in {"LOAD_PC", "WRITE", "BULK_ERASE"}
      BY <1>6, <2>1 DEF Into, CodeState, HasArgument
    <2>6. Whole(m, 3) = 2 * Argument(op)
      <3>1. Argument(op) < 8388608
        BY <2>2, SMTT(30)
      <3> QED
        BY <2>2, <2>3, <3>1, WordWhole, SMTT(30)
    <2>7. Receives[Into(what)] = BitsOf(what)
      BY <2>4, <2>5, ReceivesAre
    <2>8. Prefix(Message(what), BitsOf(what)) = 2 * Argument(op)
      <3>1. Prefix(m, 8 * 3) = Whole(m, 3)
        BY <1>3, <2>3
      <3> QED
        BY <1>1, <2>4, <2>6, <3>1
    <2> QED
      BY <1>6, <2>5, <2>7, <2>8
  <1> QED
    BY <1>2, <1>4, <1>5, <1>6

LEMMA CodeTaken ==
    ASSUME NEW us, SendAt("code", us), dev.state = "COMMAND_PREAMBLE", Pending(us)
    PROVE  CodeAccepted(Code(op))
  <1>1. op \in RequestType /\ MayAsk(op) /\ Aligned /\ DevInv
    BY Requested DEF SendAt, Pending
  <1>2. PCSeen = dev.pc /\ dev.pc \in Nat \cup {NoPC}
    BY <1>1 DEF PCSeen, DevInv, Device
  <1>3. ASSUME op.name \notin {"load", "erase"}
        PROVE  HasWord /\ InOneRegion
    <2>1. dev.pc \in Nat /\ Mapped(Map, dev.pc) /\ Addressable(Map, dev.pc)
      BY <1>1, <1>2, <1>3 DEF MayAsk, Aligned
    <2>2. dev.pc + DeviceRegion.word_size <= DeviceRegion.end
      BY <2>1, WordInside DEF DeviceRegion
    <2> QED
      BY <2>1, <2>2 DEF HasWord, InOneRegion, NoPC
  <1> QED
    BY <1>1, <1>3 DEF CodeAccepted, Code, RequestType

(* The falling edge of a bit: the device takes the bit that was written.   *)
LEMMA FallTakes ==
    ASSUME NEW what, NEW us, SendAt(what, us), step = 4, NEW n, n = bit
    PROVE  /\ dev.state = Into(what) /\ dev.state \in Receiving
           /\ Shifted = Prefix(Message(what), n + 1)
           /\ LastBit <=> n + 1 = BitsOf(what)
           /\ FallAccepted
           /\ pins.data = "out" /\ pins.clk = 1 /\ dev.cnt = n /\ n \in Nat
  <1>1. /\ age.rose >= 1 /\ age.changed >= 1 /\ pins.data = "out" /\ pins.clk = 1
        /\ Taken(what, n) /\ line = BitOf(Message(what), n)
    BY DEF SendAt, Sending
  <1>2. /\ dev.state = Into(what) /\ dev.cnt = n /\ dev.data = Prefix(Message(what), n)
        /\ dev.state \in Receiving
    BY <1>1, IntoReceiving DEF Taken
  <1>3. /\ Message(what) \in Bytes /\ n \in Nat /\ n < BitsOf(what)
    BY SendCall
  <1>4. /\ Prefix(Message(what), n + 1)
             = 2 * Prefix(Message(what), n) + BitOf(Message(what), n)
        /\ BitOf(Message(what), n) \in {0, 1}
    BY <1>3, PrefixStep DEF BitsOf
  <1>5. Shifted = Prefix(Message(what), n + 1) /\ line # NoLevel
    BY <1>1, <1>2, <1>4 DEF Shifted, NoLevel
  <1>6. LastBit <=> n + 1 = BitsOf(what)
    BY <1>2, MessageWhole DEF LastBit
  <1>7. dev.state = "MCLR" /\ LastBit => Shifted = KEY
    BY <1>2, <1>5, <1>6, MessageWhole
  <1>8. dev.state = "COMMAND_PREAMBLE" /\ LastBit => CodeAccepted(Shifted)
    <2>1. ASSUME dev.state = "COMMAND_PREAMBLE", LastBit
          PROVE  CodeAccepted(Shifted)
      <3>1. what = "code" /\ Shifted = Code(op)
        BY <1>2, <1>5, <1>6, <2>1, MessageWhole
      <3>2. Pending(us)
        BY <3>1 DEF SendAt
      <3> QED
        BY <2>1, <3>1, <3>2, CodeTaken
    <2> QED
      BY <2>1
  <1>9. FallAccepted
    BY <1>1, <1>2, <1>5, <1>7, <1>8, ReceivesAre DEF FallAccepted
  <1> QED
    BY <1>1, <1>2, <1>3, <1>5, <1>6, <1>9

LEMMA KeyReached ==
    ASSUME NEW us, DevInv, dev' = OnData(KEY), dev.state = "MCLR"
    PROVE  Reached("key", us)' /\ Unmoved
  <1>1. dev' = ToProgramming(dev, Hold) /\ Hold \in Nat /\ dev \in Device
    BY DEF OnData, Hold, DevInv
  <1>2. /\ dev'.state = "PROGRAMMING" /\ dev'.ts = Hold
        /\ dev'.pc = dev.pc /\ dev'.mem = dev.mem
    BY <1>1, BackToProgramming
  <1> QED
    BY <1>2 DEF Reached, Unmoved, PCSeen

LEMMA WordAtKept ==
    ASSUME dev'.pc = dev.pc, dev'.mem = dev.mem
    PROVE  WordAt(dev.pc)' = WordAt(dev.pc) /\ DeviceRegion' = DeviceRegion
  BY DEF WordAt, DeviceRegion

LEMMA CodeReached ==
    ASSUME NEW us, SendAt("code", us), dev.state = "COMMAND_PREAMBLE", Pending(us),
           dev' = OnData(Code(op)), op' = op
    PROVE  /\ Reached("code", us)'
           /\ IF op.name = "increment" THEN Effect ELSE Unmoved
  <1>1. PICK code : code = Code(op)
    OBVIOUS
  <1>2. op \in RequestType /\ DevInv /\ CodeAccepted(code) /\ dev' = Decoded(code)
    BY <1>1, CodeTaken, Requested DEF SendAt, OnData
  <1>3. Coded(dev', code) /\ (code = 248 => HasWord)
    BY <1>2, DecodedIs
  <1>4. /\ dev'.pc = dev.pc /\ dev'.mem = dev.mem /\ PCSeen = dev.pc
        /\ WordAt(dev.pc)' = WordAt(dev.pc) /\ DeviceRegion' = DeviceRegion
    BY <1>3, WordAtKept DEF Coded, PCSeen
  <1>5. CASE HasArgument(op)
    <2>1. /\ code \in {128, 24, 192, 224}
          /\ dev'.state = CodeState(op) /\ dev'.cnt = 0 /\ dev'.data = 0
          /\ op.name = "write" => dev'.inc = op.inc
      BY <1>1, <1>2, <1>3, <1>5 DEF Code, Coded, CodeState, HasArgument, RequestType
    <2>2. Message("argument")' = Message("argument") /\ Message("argument") \in Bytes
      BY MessageTyped DEF Message, SendAt
    <2>3. Prefix(Message("argument")', 0) = 0
      BY <2>2, PrefixEnds
    <2>4. Taken("argument", 0)'
      BY <2>1, <2>3 DEF Taken, Into, CodeState
    <2>5. Reached("code", us)'
      BY <1>5, <2>4 DEF Reached, HasArgument
    <2>6. Unmoved
      BY <1>4, <2>1, <1>5 DEF Unmoved, PCSeen, CodeState, HasArgument
    <2> QED
      BY <1>5, <2>5, <2>6 DEF HasArgument
  <1>6. CASE op.name = "increment"
    <2>1. code = 248 /\ dev'.state = "INC_PC"
      BY <1>1, <1>3, <1>6 DEF Code, Coded
    <2>2. Reached("code", us)'
      BY <1>6, <2>1 DEF Reached, HasArgument
    <2>3. PCSeen' = PCSeen + SeenRegion.word_size
      BY <1>4, <2>1 DEF PCSeen, SeenRegion, DeviceRegion
    <2>4. Effect
      BY <1>4, <1>6, <2>3 DEF Effect
    <2> QED
      BY <1>6, <2>2, <2>4
  <1>7. CASE op.name = "read"
    <2>1. /\ code \in {252, 254} /\ dev'.state = "READ_NVM" /\ dev'.cnt = 24
          /\ dev'.inc = op.inc /\ dev'.data = WordAt(dev.pc)
      BY <1>1, <1>2, <1>3, <1>7 DEF Code, Coded, RequestType
    <2>2. Answering(24)'
      BY <1>4, <2>1 DEF Answering
    <2>3. Reached("code", us)'
      BY <1>7, <2>2 DEF Reached, HasArgument
    <2>4. Unmoved
      BY <1>4, <2>1 DEF Unmoved, PCSeen
    <2> QED
      BY <1>7, <2>3, <2>4
  <1> QED
    BY <1>2, <1>5, <1>6, <1>7 DEF RequestType, HasArgument

(* The last bit of an argument does what was asked for. *)
LEMMA ArgumentReached ==
    ASSUME NEW us, SendAt("argument", us), dev.state = CodeState(op), Pending(us),
           op.name = "write" => dev.inc = op.inc,
           dev' = OnData(2 * Argument(op)), op' = op
    PROVE  Reached("argument", us)' /\ Effect
  <1>1. PICK v : v = Argument(op)
    OBVIOUS
  <1>2. /\ op \in Requests /\ op \in RequestType /\ HasArgument(op) /\ DevInv
        /\ dev \in Device /\ us \in Nat /\ MayAsk(op)
        /\ us = WaitFor(op, SeenRegion)
    BY Requested DEF SendAt, DevInv, Pending, SeenRegion
  <1>3. v \in Nat /\ v < 4194304 /\ (2 * v) \div 2 = v /\ v % 4194304 = v
    BY <1>1, <1>2, ArgumentBound
  <1>4. ASSUME NEW d \in Device, NEW ts \in Nat, dev' = ToProgramming(d, ts),
               ts <= 10 * us, ts <= 110000
        PROVE  /\ Reached("argument", us)'
               /\ PCSeen' = d.pc /\ dev'.mem = d.mem
    <2>1. /\ dev'.state = "PROGRAMMING" /\ dev'.ts = ts
          /\ dev'.pc = d.pc /\ dev'.mem = d.mem
      BY <1>4, BackToProgramming
    <2> QED
      BY <1>4, <2>1 DEF Reached, PCSeen
  <1>5. CASE op.name = "load"
    <2>1. v = op.arg /\ dev.state = "LOAD_PC" /\ us = 4
      BY <1>1, <1>2, <1>5 DEF Argument, CodeState, WaitFor, T_DLY
    <2>2. PICK d : d = [dev EXCEPT !.pc = v]
      OBVIOUS
    <2>3. d \in Device /\ d.pc = v /\ d.mem = dev.mem
      BY <1>2, <1>3, <2>2 DEF Device
    <2>4. dev' = ToProgramming(d, Dly)
      BY <1>1, <1>3, <2>1, <2>2 DEF OnData
    <2>5. Dly \in Nat /\ Dly <= 10 * us /\ Dly <= 110000
      BY <2>1 DEF Dly
    <2>6. Reached("argument", us)' /\ PCSeen' = v /\ dev'.mem = dev.mem
      BY <1>4, <2>3, <2>4, <2>5
    <2> QED
      BY <1>5, <2>1, <2>6 DEF Effect
  <1>6. CASE op.name = "write"
    <2>1. /\ v = op.arg /\ dev.state = "WRITE" /\ us = SeenRegion.t_PROG_us
          /\ dev.inc = op.inc /\ v < 65536
      BY <1>1, <1>2, <1>6, Requested DEF Argument, CodeState, WaitFor
    <2>2. HasWord /\ InOneRegion /\ PCSeen = dev.pc /\ SeenRegion = DeviceRegion
      BY <1>2, <2>1 DEF DevInv, PCSeen, SeenRegion, DeviceRegion
    <2>3. PICK d, ts : d = Stored(v) /\ ts = 10 * DeviceRegion.t_PROG_us
      OBVIOUS
    <2>4. d \in Device /\ d.pc = PCAfter(dev.inc)
      BY <1>2, <1>3, <2>2, <2>3, StoredTyped
    <2>5. ts \in Nat /\ ts = 10 * us /\ us <= 11000
      <3>1. \E i \in DOMAIN Map : DeviceRegion = Map[i]
        BY <1>2, <2>2, DeviceWord
      <3> QED
        BY <1>2, <2>1, <2>2, <2>3, <3>1, WireAssumption
    <2>6. dev' = ToProgramming(d, ts)
      BY <1>1, <1>3, <2>1, <2>3 DEF OnData
    <2>7. Reached("argument", us)' /\ PCSeen' = d.pc /\ dev'.mem = d.mem
      BY <1>2, <1>4, <2>4, <2>5, <2>6
    <2>8. d.mem = Written(op.arg)
      <3>1. (v \div 256) % 256 = v \div 256
        BY <1>3, <2>1
      <3>2. d.mem = [a \in DOMAIN dev.mem |->
                        IF a = dev.pc THEN v % 256
                        ELSE IF a = dev.pc + 1 /\ DeviceRegion.word_size = 2
                             THEN (v \div 256) % 256
                             ELSE dev.mem[a]]
        BY <1>2, <2>3 DEF Stored, Device
      <3> QED
        BY <2>1, <2>2, <3>1, <3>2 DEF Written
    <2>9. d.pc = PCNext(op.inc)
      BY <2>1, <2>2, <2>4 DEF PCNext, PCAfter
    <2> QED
      BY <1>6, <2>7, <2>8, <2>9 DEF Effect
  <1>7. CASE op.name = "erase"
    <2>1. /\ v = EraseBits(op.mask) /\ dev.state = "BULK_ERASE" /\ us = 11000
          /\ PCSeen = dev.pc
      BY <1>1, <1>2, <1>7 DEF Argument, CodeState, WaitFor, T_ERAB, PCSeen
    <2>2. PICK d : d = Erased(v)
      OBVIOUS
    <2>3. d \in Device /\ d.pc = dev.pc
      BY <1>2, <2>2, ErasedTyped
    <2>4. dev' = ToProgramming(d, 10 * T_ERAB)
      BY <1>1, <1>3, <2>1, <2>2 DEF OnData
    <2>5. 10 * T_ERAB \in Nat /\ 10 * T_ERAB <= 10 * us /\ 10 * T_ERAB <= 110000
      BY <2>1 DEF T_ERAB
    <2>6. Reached("argument", us)' /\ PCSeen' = d.pc /\ dev'.mem = d.mem
      BY <1>4, <2>3, <2>4, <2>5
    <2>7. d.mem = Emptied(op.mask)
      <3>1. PICK Names : Names = {n \in DOMAIN EraseBit : (v \div EraseBit[n]) % 2 = 1}
        OBVIOUS
      <3>2. Names = op.mask \cap {"EEPROM", "PROGRAM", "USER", "CONFIG"}
        BY <2>1, <3>1, ErasesMask
      <3>3. d.mem = [a \in DOMAIN dev.mem |->
                        IF a \in MaskAddrs(Map, Names) THEN 255 ELSE dev.mem[a]]
        BY <1>2, <2>2, <3>1 DEF Erased, Device
      <3> QED
        BY <3>2, <3>3 DEF Emptied
    <2> QED
      BY <1>7, <2>1, <2>3, <2>6, <2>7 DEF Effect
  <1> QED
    BY <1>2, <1>5, <1>6, <1>7 DEF HasArgument

(* Whether the last bit of a message has the device act. *)
Acts(what) == what = "argument" \/ (what = "code" /\ op.name = "increment")

LEMMA FallMakes ==
    ASSUME NEW what, NEW us, SendAt(what, us), step = 4, NEW n, n = bit,
           ClkFalls, op' = op
    PROVE  /\ n + 1 # BitsOf(what) => Taken(what, n + 1)' /\ Unmoved
           /\ n + 1 = BitsOf(what) =>
                 /\ Reached(what, us)'
                 /\ IF Acts(what) THEN Effect ELSE Unmoved
  <1>1. /\ dev.state = Into(what) /\ dev.state \in Receiving
        /\ Shifted = Prefix(Message(what), n + 1)
        /\ LastBit <=> n + 1 = BitsOf(what)
        /\ dev.cnt = n /\ n \in Nat
    BY FallTakes
  <1>2. /\ what \in {"key", "code", "argument"} /\ DevInv
        /\ what # "key" => Pending(us)
        /\ Taken(what, n)
    BY DEF SendAt, Sending
  <1>3. dev' = IF LastBit THEN OnData(Shifted)
               ELSE [dev EXCEPT !.cnt = @ + 1, !.data = Shifted]
    BY <1>1 DEF ClkFalls, Receiving
  <1>4. ASSUME n + 1 # BitsOf(what)
        PROVE  Taken(what, n + 1)' /\ Unmoved
    <2>1. PICK k, x : k = n + 1 /\ x = Shifted
      OBVIOUS
    <2>2. dev' = [dev EXCEPT !.cnt = k, !.data = x]
      BY <1>1, <1>3, <1>4, <2>1
    <2>3. /\ dev'.state = dev.state /\ dev'.cnt = k /\ dev'.data = x
          /\ dev'.inc = dev.inc /\ dev'.pc = dev.pc /\ dev'.mem = dev.mem
      BY <1>2, <2>2 DEF DevInv, Device
    <2>4. Message(what)' = Message(what) /\ Into(what)' = Into(what)
      BY DEF Message, Into
    <2>5. Taken(what, k)'
      BY <1>1, <1>2, <2>1, <2>3, <2>4 DEF Taken
    <2>6. Unmoved
      BY <2>3 DEF Unmoved, PCSeen, DeviceRegion
    <2> QED
      BY <2>1, <2>5, <2>6
  <1>5. ASSUME n + 1 = BitsOf(what)
        PROVE  /\ Reached(what, us)'
               /\ IF Acts(what) THEN Effect ELSE Unmoved
    <2>1. dev' = OnData(Prefix(Message(what), BitsOf(what)))
      BY <1>1, <1>3, <1>5
    <2>2. CASE what = "key"
      <3>1. dev' = OnData(KEY) /\ dev.state = "MCLR"
        BY <1>1, <2>1, <2>2, MessageWhole
      <3> QED
        BY <1>2, <2>2, <3>1, KeyReached DEF Acts
    <2>3. CASE what = "code"
      <3>1. dev' = OnData(Code(op)) /\ dev.state = "COMMAND_PREAMBLE"
        BY <1>1, <2>1, <2>3, MessageWhole
      <3>2. SendAt("code", us) /\ Pending(us)
        BY <1>2, <2>3
      <3>3. /\ Reached("code", us)'
            /\ IF op.name = "increment" THEN Effect ELSE Unmoved
        BY <3>1, <3>2, CodeReached
      <3> QED
        BY <2>3, <3>3 DEF Acts
    <2>4. CASE what = "argument"
      <3>1. dev' = OnData(2 * Argument(op)) /\ dev.state = CodeState(op)
        BY <1>1, <2>1, <2>4, MessageWhole DEF Into
      <3>2. /\ SendAt("argument", us) /\ Pending(us)
            /\ op.name = "write" => dev.inc = op.inc
        BY <1>2, <2>4 DEF Taken
      <3>3. Reached("argument", us)' /\ Effect
        BY <3>1, <3>2, ArgumentReached
      <3>4. Acts(what)
        BY <2>4 DEF Acts
      <3>5. Reached(what, us)'
        BY <2>4, <3>3
      <3> QED
        BY <3>3, <3>4, <3>5
    <2> QED
      BY <1>2, <2>2, <2>3, <2>4
  <1> QED
    BY <1>4, <1>5

LEMMA SendFalls ==
    ASSUME NEW what, NEW us, SendAt(what, us), step = 4
    PROVE  /\ Accepted
           /\ MakeCall =>
                 /\ Sending(what, us)' /\ script' = script
                 /\ IF bit + 1 = BitsOf(what) /\ Acts(what) THEN Effect ELSE Unmoved
  <1>1. PICK n : n = bit
    OBVIOUS
  <1>2. FallAccepted /\ pins.data = "out" /\ pins.clk = 1 /\ n \in Nat
    BY <1>1, FallTakes
  <1>3. Call = Pin("clk", 0) /\ Call.do = "clk" /\ Call.level = 0 /\ script # <<>>
    BY SendCall DEF Pin, SendAt
  <1>4. Accepted
    BY <1>2, <1>3, AcceptedIs
  <1>5. ASSUME MakeCall
        PROVE  /\ Sending(what, us)' /\ script' = script
               /\ IF n + 1 = BitsOf(what) /\ Acts(what) THEN Effect ELSE Unmoved
    <2>1. op' = op /\ step' = 5 /\ bit' = n /\ script' = script
      <3>1. step' = 4 + 1
        BY <1>5, SendCall
      <3> QED
        BY <1>1, <1>5, <3>1, SendCall DEF MakeCall
    <2>2. ClkFalls
      <3>1. ScriptInv
        BY DEF SendAt
      <3>2. pins.clk # Call.level /\ Call.level # 1
        BY <1>2, <1>3
      <3> QED
        BY <1>3, <1>5, <3>1, <3>2, CallDoes
    <2>3. /\ n + 1 # BitsOf(what) => Taken(what, n + 1)' /\ Unmoved
          /\ n + 1 = BitsOf(what) =>
                /\ Reached(what, us)'
                /\ IF Acts(what) THEN Effect ELSE Unmoved
      BY <1>1, <2>1, <2>2, FallMakes
    <2>4. pins'.clk = 0 /\ pins'.data = "out"
      BY <1>2, <2>2 DEF ClkFalls, SendAt, PinInv
    <2>5. BitsOf(what)' = BitsOf(what)
      BY <2>1 DEF BitsOf, Message
    <2>6. PICK k : k = n + 1
      OBVIOUS
    <2>7. IF k = BitsOf(what)' THEN Reached(what, us)' ELSE Taken(what, k)'
      BY <2>3, <2>5, <2>6
    <2>8. bit' + 1 = k
      BY <2>1, <2>6
    <2>9. Sending(what, us)'
      BY <2>1, <2>4, <2>7, <2>8 DEF Sending
    <2> QED
      BY <2>1, <2>3, <2>9
  <1> QED
    BY <1>1, <1>4, <1>5

(* One call of write_data_sequence: the device takes it, and moves only    *)
(* with the last edge of a command.                                        *)
Sends(what, us) ==
    /\ Accepted
    /\ MakeCall =>
          /\ IF step = 4 /\ bit + 1 = BitsOf(what) /\ Acts(what)
             THEN Effect ELSE Unmoved
          /\ step = 5 /\ bit + 1 = BitsOf(what) =>
                /\ Rested' /\ Reached(what, us)' /\ script' = Tail(script)
                /\ bit' = 0 /\ step' = 1
                /\ age'.fell >= 2
          /\ ~ (step = 5 /\ bit + 1 = BitsOf(what)) =>
                Sending(what, us)' /\ script' = script

LEMMA SendMoves ==
    ASSUME NEW what, NEW us, SendAt(what, us)
    PROVE  Sends(what, us)
  <1>1. step \in {1, 2, 3, 4, 5}
    BY SendCall
  <1>2. CASE step = 1
    BY <1>2, SendRises DEF Sends
  <1>3. CASE step = 2
    BY <1>3, SendWrites DEF Sends
  <1>4. CASE step = 3
    BY <1>4, SendHolds DEF Sends
  <1>5. CASE step = 4
    BY <1>5, SendFalls DEF Sends
  <1>6. CASE step = 5
    BY <1>6, SendRests DEF Sends
  <1> QED
    BY <1>1, <1>2, <1>3, <1>4, <1>5, <1>6

(* What the calls of a message leave of a command still to come. *)
LEMMA PendingKept ==
    ASSUME NEW us, Unmoved, op' = op
    PROVE  /\ Pending(us) => Pending(us)'
           /\ Aligned => Aligned'
  BY DEF Unmoved, Pending, Aligned, MayAsk

-----------------------------------------------------------------------------
(* The loop of read_transaction: the device has as many bits left as the   *)
(* host has to read, and the host has those that went before.              *)
ReadDone == dev.state = "PROGRAMMING" /\ dev.ts = Dly

Reading ==
    /\ pins.data = "in" /\ LatchHeld
    /\ pins.clk = 1 <=> step \in {2, 3, 4}
    /\ step = 1 => age.fell >= 1 /\ Answering(24 - bit) /\ got = GotAfter(dev.data, bit)
    /\ step \in {2, 3} => /\ Answering(23 - bit) /\ got = GotAfter(dev.data, bit)
                          /\ line = WordBit(dev.data, 23 - bit)
    /\ step = 3 => age.rose >= 1 /\ age.changed >= 1
    /\ step = 4 => age.rose >= 1
    /\ step = 4 \/ (step = 5 /\ bit # 23) =>
          Answering(23 - bit) /\ got = GotAfter(dev.data, bit + 1)
    /\ step = 5 /\ bit = 23 => ReadDone
    /\ got \in Nat /\ got < 131072

ReadAt ==
    /\ ScriptInv /\ DevInv /\ PinInv /\ LineInv
    /\ op \in Requests /\ op.name = "read"
    /\ script # <<>> /\ Head(script) = Receive
    /\ Reading

ReadOver ==
    /\ pins.clk = 0 /\ pins.data = "in" /\ LatchHeld /\ age.fell >= 1
    /\ ReadDone
    /\ got \in Nat /\ got < 131072

LEMMA ReceiveCall ==
    ASSUME ReadAt
    PROVE  /\ bit \in 0 .. 23 /\ step \in {1, 2, 3, 4, 5}
           /\ step = 1 => Call = Pin("clk", 1)
           /\ step = 2 => Call = Wait(2)
           /\ step = 3 => Call = ReadData
           /\ step = 4 => Call = Pin("clk", 0)
           /\ step = 5 => Call = Wait(2)
           /\ MakeCall => /\ step < 5 => /\ step' = step + 1 /\ bit' = bit
                                         /\ script' = script
                          /\ step = 5 /\ bit # 23 =>
                                /\ step' = 1 /\ bit' = bit + 1 /\ script' = script
                          /\ step = 5 /\ bit = 23 =>
                                /\ step' = 1 /\ bit' = 0 /\ script' = Tail(script)
  <1>1. PICK h : h = Receive
    OBVIOUS
  <1>2. /\ h \in HostCall /\ Clocks(h) /\ h.do = "receive" /\ Bits(h) = 24
        /\ Head(script) = h /\ script # <<>>
    BY <1>1, CallsAreHostCalls DEF Receive, Clocks, Bits, ReadAt
  <1>3. bit \in Nat /\ bit < 24 /\ step \in {1, 2, 3, 4, 5}
    <2>1. LoopAt(script, bit, step) /\ bit \in Nat /\ step \in 1 .. 5
      BY DEF ReadAt, ScriptInv
    <2>2. bit < Bits(Head(script))
      BY <1>2, <2>1 DEF LoopAt, Looping
    <2> QED
      BY <1>2, <2>1, <2>2
  <1>4. Call = BitCalls(h, bit)[step]
    BY <1>2 DEF Call
  <1>5. /\ step = 1 => Call = Pin("clk", 1)
        /\ step = 2 => Call = Wait(2)
        /\ step = 3 => Call = ReadData
        /\ step = 4 => Call = Pin("clk", 0)
        /\ step = 5 => Call = Wait(2)
    BY <1>2, <1>4, BitCallsAre
  <1>6. ASSUME MakeCall
        PROVE  /\ step < 5 => step' = step + 1 /\ bit' = bit /\ script' = script
               /\ step = 5 /\ bit # 23 =>
                     step' = 1 /\ bit' = bit + 1 /\ script' = script
               /\ step = 5 /\ bit = 23 =>
                     step' = 1 /\ bit' = 0 /\ script' = Tail(script)
    <2>1. Advance
      BY <1>6 DEF MakeCall
    <2>2. /\ step' = (step % 5) + 1
          /\ bit' = IF step = 5 THEN (bit + 1) % 24 ELSE bit
          /\ script' = IF step = 5 /\ bit = 24 - 1 THEN Tail(script) ELSE script
      BY <1>2, <2>1 DEF Advance
    <2>3. CASE step < 5
      <3>1. (step % 5) + 1 = step + 1 /\ step # 5
        BY <1>3, <2>3
      <3> QED
        BY <2>2, <3>1
    <2>4. CASE step = 5
      <3>1. (step % 5) + 1 = 1
        BY <2>4
      <3>2. bit = 24 - 1 <=> bit = 23
        BY <1>3
      <3>3. (bit + 1) % 24 = IF bit = 23 THEN 0 ELSE bit + 1
        BY <1>3
      <3> QED
        BY <2>2, <2>4, <3>1, <3>2, <3>3
    <2> QED
      BY <1>3, <2>3, <2>4
  <1> QED
    BY <1>3, <1>5, <1>6

LEMMA AnswerWord ==
    ASSUME ReadAt, NEW n, Answering(n)
    PROVE  /\ dev.data \in Nat /\ dev.data < 65536
           /\ dev.state = "READ_NVM" /\ dev.cnt = n /\ dev.data = WordAt(dev.pc)
           /\ PCSeen = dev.pc
  <1>1. /\ dev.state = "READ_NVM" /\ dev.data = WordAt(dev.pc) /\ dev.cnt = n
    BY DEF Answering
  <1>2. HasWord /\ InOneRegion /\ DevInv
    BY <1>1 DEF ReadAt, DevInv
  <1> QED
    BY <1>1, <1>2, WordBound DEF PCSeen

LEMMA ReceiveRises ==
    ASSUME ReadAt, step = 1
    PROVE  /\ Accepted
           /\ MakeCall => Reading' /\ Unmoved /\ script' = script
  <1>1. PICK n \in 0 .. 23 : n = bit
    BY ReceiveCall
  <1>2. /\ pins.data = "in" /\ LatchHeld /\ pins.clk = 0 /\ age.fell >= 1
        /\ Answering(24 - n) /\ got = GotAfter(dev.data, n)
        /\ got \in Nat /\ got < 131072
    BY <1>1 DEF ReadAt, Reading, PinInv
  <1>3. Call = Pin("clk", 1) /\ Call.do = "clk" /\ Call.level = 1 /\ script # <<>>
    BY ReceiveCall DEF Pin, ReadAt
  <1>4. PICK w : w = dev.data
    OBVIOUS
  <1>5. /\ w \in Nat /\ w < 65536 /\ dev.state = "READ_NVM" /\ dev.cnt = 24 - n
        /\ w = WordAt(dev.pc) /\ dev.inc = op.inc
    BY <1>2, <1>4, AnswerWord DEF Answering
  <1>6. RiseAccepted
    BY <1>2, <1>5 DEF RiseAccepted
  <1>7. Accepted
    BY <1>3, <1>6, AcceptedIs
  <1>8. ASSUME MakeCall
        PROVE  Reading' /\ Unmoved /\ script' = script
    <2>1. op' = op /\ step' = 2 /\ bit' = n /\ script' = script
      <3>1. step' = 1 + 1
        BY <1>8, ReceiveCall
      <3> QED
        BY <1>1, <1>8, <3>1, ReceiveCall DEF MakeCall
    <2>2. ClkRises /\ got' = got
      <3>1. ScriptInv
        BY DEF ReadAt
      <3>2. pins.clk # Call.level /\ Call.level # 0
        BY <1>2, <1>3
      <3> QED
        BY <1>3, <1>8, <3>1, <3>2, CallDoes
    <2>3. /\ dev' = [dev EXCEPT !.cnt = @ - 1] /\ line' = BitOut
          /\ age' = [age EXCEPT !.rose = 0, !.changed = 0]
          /\ pins' = [pins EXCEPT !.clk = 1]
      BY <1>5, <2>2 DEF ClkRises, Risen
    <2>4. /\ dev'.state = "READ_NVM" /\ dev'.cnt = 23 - n /\ dev'.data = w
          /\ dev'.inc = op.inc /\ dev'.pc = dev.pc /\ dev'.mem = dev.mem
      <3>1. PICK c : c = dev.cnt - 1
        OBVIOUS
      <3>2. dev' = [dev EXCEPT !.cnt = c] /\ dev \in Device
        BY <2>3, <3>1 DEF ReadAt, DevInv
      <3>3. /\ dev'.state = dev.state /\ dev'.cnt = c /\ dev'.data = dev.data
            /\ dev'.inc = dev.inc /\ dev'.pc = dev.pc /\ dev'.mem = dev.mem
        BY <3>2 DEF Device
      <3>4. c = 23 - n
        BY <1>5, <3>1
      <3>5. dev'.cnt = 23 - n
        BY <3>3, <3>4
      <3>6. dev.state = "READ_NVM" /\ dev.data = w /\ dev.inc = op.inc
        BY <1>4, <1>5
      <3> QED
        BY <3>3, <3>5, <3>6
    <2>5. line' = WordBit(w, 23 - n)
      <3>1. BitOut = WordBit(WordAt(dev.pc), dev.cnt - 1)
        BY <1>4, <1>5, BitOutIs DEF ReadAt
      <3>2. dev.cnt - 1 = 23 - n
        BY <1>5
      <3> QED
        BY <1>5, <2>3, <3>1, <3>2
    <2>6. pins'.clk = 1 /\ pins'.data = "in" /\ age'.latched = age.latched
      BY <1>2, <2>3 DEF ReadAt, PinInv, LineInv
    <2>7. LatchHeld'
      BY <1>2, <2>6 DEF LatchHeld
    <2>8. WordAt(dev.pc)' = w
      BY <1>5, <2>4, WordAtKept
    <2>9. PICK k : k = 23 - n
      OBVIOUS
    <2>10. Answering(k)' /\ line' = WordBit(dev'.data, k)
      BY <2>1, <2>4, <2>5, <2>8, <2>9 DEF Answering
    <2>11. Unmoved
      BY <1>5, <2>4 DEF Unmoved, PCSeen
    <2>12. got' = GotAfter(dev'.data, n)
      BY <1>2, <1>4, <2>2, <2>4
    <2>13. 23 - bit' = k
      BY <2>1, <2>9
    <2>14. Reading'
      BY <1>2, <2>1, <2>2, <2>6, <2>7, <2>10, <2>12, <2>13 DEF Reading
    <2> QED
      BY <2>1, <2>11, <2>14
  <1> QED
    BY <1>7, <1>8

LEMMA ReceiveHolds ==
    ASSUME ReadAt, step = 2
    PROVE  /\ Accepted
           /\ MakeCall => Reading' /\ Unmoved /\ script' = script
  <1>1. PICK n \in 0 .. 23 : n = bit
    BY ReceiveCall
  <1>2. /\ pins.data = "in" /\ pins.clk = 1
        /\ Answering(23 - n) /\ got = GotAfter(dev.data, n)
        /\ line = WordBit(dev.data, 23 - n)
        /\ got \in Nat /\ got < 131072
    BY <1>1 DEF ReadAt, Reading
  <1>3. Call = Wait(2) /\ Call.do = "delay" /\ Call.us = 2 /\ script # <<>>
    BY ReceiveCall DEF Wait, ReadAt
  <1>4. Accepted
    BY <1>3, AcceptedIs
  <1>5. ASSUME MakeCall
        PROVE  Reading' /\ Unmoved /\ script' = script
    <2>1. op' = op /\ step' = 3 /\ bit' = n /\ script' = script
      <3>1. step' = 2 + 1
        BY <1>5, ReceiveCall
      <3> QED
        BY <1>1, <1>5, <3>1, ReceiveCall DEF MakeCall
    <2>2. Delay /\ got' = got
      BY <1>3, <1>5, CallDoes DEF ReadAt
    <2>3. /\ age'.rose >= 2 /\ age'.changed >= 2 /\ pins' = pins /\ line' = line
          /\ dev' = dev /\ LatchHeld'
          /\ age' \in [rose : Nat, fell : Nat, changed : Nat, latched : Nat \cup {Never}]
      <3>1. 2 \in Nat /\ 2 <= Cap /\ LineInv /\ 2 >= 1
        BY DEF Cap, ReadAt
      <3> QED
        BY <1>3, <2>2, <3>1, Waited
    <2>4. age'.rose >= 1 /\ age'.changed >= 1
      BY <2>3
    <2>5. PICK k : k = 23 - n
      OBVIOUS
    <2>6. Answering(k)' /\ Unmoved
      BY <1>2, <2>1, <2>3, <2>5, DeviceStill
    <2>7. 23 - bit' = k
      BY <2>1, <2>5
    <2>8. Reading'
      BY <1>2, <2>1, <2>2, <2>3, <2>4, <2>5, <2>6, <2>7 DEF Reading
    <2> QED
      BY <2>1, <2>6, <2>8
  <1> QED
    BY <1>4, <1>5

LEMMA ReceiveTakes ==
    ASSUME ReadAt, step = 3
    PROVE  /\ Accepted
           /\ MakeCall => Reading' /\ Unmoved /\ script' = script
  <1>1. PICK n \in 0 .. 23 : n = bit
    BY ReceiveCall
  <1>2. /\ pins.data = "in" /\ pins.clk = 1 /\ LatchHeld
        /\ age.rose >= 1 /\ age.changed >= 1
        /\ Answering(23 - n) /\ got = GotAfter(dev.data, n)
        /\ line = WordBit(dev.data, 23 - n)
    BY <1>1 DEF ReadAt, Reading
  <1>3. Call = ReadData /\ Call.do = "read" /\ script # <<>>
    BY ReceiveCall DEF ReadData, ReadAt
  <1>4. PICK w : w = dev.data
    OBVIOUS
  <1>5. /\ w \in Nat /\ w < 65536
        /\ GotAfter(w, n + 1) = 2 * GotAfter(w, n) + WordBit(w, 23 - n)
        /\ GotAfter(w, n + 1) \in Nat /\ GotAfter(w, n + 1) < 131072
    <2>1. w \in Nat /\ w < 65536
      BY <1>2, <1>4, AnswerWord
    <2> QED
      BY <2>1, GotStep
  <1>6. line # NoLevel
    <2>1. PICK i \in Int : i = 23 - n
      OBVIOUS
    <2>2. WordBit(w, i) \in {0, 1}
      <3>1. CASE i \in 1 .. 16
        <4>1. (w \div Weight[i]) % 2 \in {0, 1}
          BY <1>5, <3>1, WeightsAre, BitTyped
        <4> QED
          BY <3>1, <4>1 DEF WordBit
      <3>2. CASE i \notin 1 .. 16
        BY <3>2 DEF WordBit
      <3> QED
        BY <3>1, <3>2
    <2> QED
      BY <1>2, <1>4, <2>1, <2>2 DEF NoLevel
  <1>7. Accepted
    BY <1>2, <1>3, <1>6, AcceptedIs DEF ReadAccepted
  <1>8. ASSUME MakeCall
        PROVE  Reading' /\ Unmoved /\ script' = script
    <2>1. op' = op /\ step' = 4 /\ bit' = n /\ script' = script
      <3>1. step' = 3 + 1
        BY <1>8, ReceiveCall
      <3> QED
        BY <1>1, <1>8, <3>1, ReceiveCall DEF MakeCall
    <2>2. got' = 2 * got + line /\ pins' = pins /\ line' = line /\ age' = age /\ dev' = dev
      BY <1>3, <1>8, CallDoes DEF ReadAt, DataRead
    <2>3. got' = GotAfter(w, n + 1)
      BY <1>2, <1>4, <1>5, <2>2
    <2>4. PICK k : k = 23 - n
      OBVIOUS
    <2>5. Answering(k)' /\ Unmoved
      BY <1>2, <2>1, <2>2, <2>4, DeviceStill
    <2>6. 23 - bit' = k /\ bit' + 1 = n + 1
      BY <2>1, <2>4
    <2>7. LatchHeld'
      BY <1>2, <2>2 DEF LatchHeld
    <2>8. got' \in Nat /\ got' < 131072
      BY <1>5, <2>3
    <2>9. Reading'
      BY <1>2, <1>4, <2>1, <2>2, <2>3, <2>5, <2>6, <2>7, <2>8 DEF Reading
    <2> QED
      BY <2>1, <2>5, <2>9
  <1> QED
    BY <1>7, <1>8

(* With its last falling edge the device has the word out and its program  *)
(* counter moves on.                                                       *)
LEMMA ReceiveFalls ==
    ASSUME ReadAt, step = 4
    PROVE  /\ Accepted
           /\ MakeCall =>
                 /\ Reading' /\ script' = script /\ got' = got
                 /\ bit # 23 => Unmoved
                 /\ bit = 23 => Effect /\ ReadCast(got) = WordAt(dev.pc) /\ PCSeen = dev.pc
  <1>1. PICK n \in 0 .. 23 : n = bit
    BY ReceiveCall
  <1>2. /\ pins.data = "in" /\ pins.clk = 1 /\ LatchHeld /\ age.rose >= 1
        /\ Answering(23 - n) /\ got = GotAfter(dev.data, n + 1)
        /\ got \in Nat /\ got < 131072
    BY <1>1 DEF ReadAt, Reading
  <1>3. Call = Pin("clk", 0) /\ Call.do = "clk" /\ Call.level = 0 /\ script # <<>>
    BY ReceiveCall DEF Pin, ReadAt
  <1>4. PICK w : w = dev.data
    OBVIOUS
  <1>5. /\ w \in Nat /\ w < 65536 /\ dev.state = "READ_NVM" /\ dev.cnt = 23 - n
        /\ w = WordAt(dev.pc) /\ dev.inc = op.inc /\ PCSeen = dev.pc
    BY <1>2, <1>4, AnswerWord DEF Answering
  <1>6. FallAccepted
    BY <1>2, <1>5, ReceivesAre DEF FallAccepted, Receiving
  <1>7. Accepted
    BY <1>3, <1>6, AcceptedIs
  <1>8. ASSUME MakeCall
        PROVE  /\ Reading' /\ script' = script /\ got' = got
               /\ n # 23 => Unmoved
               /\ n = 23 => Effect /\ ReadCast(got) = WordAt(dev.pc) /\ PCSeen = dev.pc
    <2>1. op' = op /\ step' = 5 /\ bit' = n /\ script' = script
      <3>1. step' = 4 + 1
        BY <1>8, ReceiveCall
      <3> QED
        BY <1>1, <1>8, <3>1, ReceiveCall DEF MakeCall
    <2>2. ClkFalls /\ got' = got
      <3>1. ScriptInv
        BY DEF ReadAt
      <3>2. pins.clk # Call.level /\ Call.level # 1
        BY <1>2, <1>3
      <3> QED
        BY <1>3, <1>8, <3>1, <3>2, CallDoes
    <2>3. /\ dev' = IF dev.cnt > 0 THEN dev
                    ELSE ToProgramming([dev EXCEPT !.pc = PCAfter(dev.inc)], Dly)
          /\ age' = [age EXCEPT !.fell = 0] /\ pins' = [pins EXCEPT !.clk = 0]
      BY <1>5, <2>2 DEF ClkFalls
    <2>4. pins'.clk = 0 /\ pins'.data = "in" /\ age'.latched = age.latched
      BY <1>2, <2>3 DEF ReadAt, PinInv, LineInv
    <2>5. LatchHeld'
      BY <1>2, <2>4 DEF LatchHeld
    <2>6. CASE n # 23
      <3>1. dev' = dev
        <4>1. dev.cnt > 0
          BY <1>5, <2>6
        <4> QED
          BY <2>3, <4>1
      <3>2. PICK k : k = 23 - n
        OBVIOUS
      <3>3. Answering(k)' /\ Unmoved
        BY <1>2, <2>1, <3>1, <3>2, DeviceStill
      <3>4. 23 - bit' = k /\ bit' + 1 = n + 1
        BY <2>1, <3>2
      <3>5. Reading'
        BY <1>2, <2>1, <2>2, <2>4, <2>5, <2>6, <3>1, <3>3, <3>4 DEF Reading
      <3> QED
        BY <2>1, <2>2, <2>6, <3>3, <3>5
    <2>7. CASE n = 23
      <3>1. dev.cnt = 0 /\ ~ (dev.cnt > 0)
        BY <1>5, <2>7
      <3>2. HasWord /\ InOneRegion /\ DevInv
        BY <1>5 DEF ReadAt, DevInv
      <3>3. PICK a \in Nat : a = PCAfter(dev.inc)
        BY <3>2, WordTyped
      <3>4. PICK d : d = [dev EXCEPT !.pc = a]
        OBVIOUS
      <3>5. d \in Device /\ d.pc = a /\ d.mem = dev.mem /\ Dly \in Nat
        BY <3>2, <3>4 DEF DevInv, Device, Dly
      <3>6. dev' = ToProgramming(d, Dly)
        BY <2>3, <3>1, <3>3, <3>4
      <3>7. /\ dev'.state = "PROGRAMMING" /\ dev'.ts = Dly
            /\ dev'.pc = a /\ dev'.mem = dev.mem
        BY <3>5, <3>6, BackToProgramming
      <3>8. PCSeen' = PCNext(op.inc)
        BY <1>5, <3>3, <3>7 DEF PCSeen, PCNext, PCAfter, SeenRegion, DeviceRegion
      <3>9. Effect
        BY <3>7, <3>8 DEF Effect, ReadAt
      <3>10. ReadCast(got) = w
        <4>1. got = GotAfter(w, 24)
          BY <1>2, <1>4, <2>7
        <4> QED
          BY <1>5, <4>1, GotEnds
      <3>11. ReadDone'
        BY <3>7 DEF ReadDone, Dly
      <3>12. Reading'
        BY <1>2, <2>1, <2>2, <2>4, <2>5, <2>7, <3>11 DEF Reading
      <3> QED
        BY <1>5, <2>1, <2>2, <2>7, <3>9, <3>10, <3>12
    <2> QED
      BY <2>6, <2>7
  <1> QED
    BY <1>1, <1>7, <1>8

LEMMA ReceiveRests ==
    ASSUME ReadAt, step = 5
    PROVE  /\ Accepted
           /\ MakeCall =>
                 /\ Unmoved
                 /\ bit # 23 => Reading' /\ script' = script
                 /\ bit = 23 => /\ ReadOver' /\ script' = Tail(script)
                                /\ bit' = 0 /\ step' = 1
  <1>1. PICK n \in 0 .. 23 : n = bit
    BY ReceiveCall
  <1>2. /\ pins.data = "in" /\ pins.clk = 0
        /\ n # 23 => Answering(23 - n) /\ got = GotAfter(dev.data, n + 1)
        /\ n = 23 => ReadDone
        /\ got \in Nat /\ got < 131072
    BY <1>1 DEF ReadAt, Reading, PinInv
  <1>3. Call = Wait(2) /\ Call.do = "delay" /\ Call.us = 2 /\ script # <<>>
    BY ReceiveCall DEF Wait, ReadAt
  <1>4. Accepted
    BY <1>3, AcceptedIs
  <1>5. ASSUME MakeCall
        PROVE  /\ Unmoved
               /\ n # 23 => Reading' /\ script' = script
               /\ n = 23 => ReadOver' /\ script' = Tail(script) /\ bit' = 0 /\ step' = 1
    <2>1. op' = op /\ step' = 1
      BY <1>5, ReceiveCall DEF MakeCall
    <2>2. Delay /\ got' = got
      BY <1>3, <1>5, CallDoes DEF ReadAt
    <2>3. /\ age'.fell >= 2 /\ pins' = pins /\ dev' = dev /\ LatchHeld'
          /\ age' \in [rose : Nat, fell : Nat, changed : Nat, latched : Nat \cup {Never}]
      <3>1. 2 \in Nat /\ 2 <= Cap /\ LineInv /\ 2 >= 1
        BY DEF Cap, ReadAt
      <3> QED
        BY <1>3, <2>2, <3>1, Waited
    <2>4. age'.fell >= 1
      BY <2>3
    <2>5. /\ Unmoved
          /\ \A m : Answering(m) => Answering(m)'
      BY <2>1, <2>3, DeviceStill
    <2>6. ASSUME n # 23
          PROVE  Reading' /\ script' = script
      <3>1. bit' = n + 1 /\ script' = script
        BY <1>1, <1>5, <2>6, ReceiveCall
      <3>2. PICK m : m = 23 - n
        OBVIOUS
      <3>3. Answering(m)' /\ got' = GotAfter(dev'.data, n + 1)
        BY <1>2, <2>2, <2>3, <2>5, <2>6, <3>2
      <3>4. 24 - bit' = m
        BY <3>1, <3>2
      <3>5. Reading'
        BY <1>2, <2>1, <2>2, <2>3, <2>4, <3>1, <3>3, <3>4 DEF Reading
      <3> QED
        BY <3>1, <3>5
    <2>7. ASSUME n = 23
          PROVE  ReadOver' /\ script' = Tail(script) /\ bit' = 0 /\ step' = 1
      <3>1. ReadDone'
        BY <1>2, <2>3, <2>7 DEF ReadDone
      <3>2. ReadOver'
        BY <1>2, <2>2, <2>3, <2>4, <3>1 DEF ReadOver
      <3> QED
        BY <1>1, <1>5, <2>1, <2>7, <3>2, ReceiveCall
    <2> QED
      BY <2>5, <2>6, <2>7
  <1> QED
    BY <1>1, <1>4, <1>5

(* One call of the loop. *)
Reads ==
    /\ Accepted
    /\ MakeCall =>
          /\ step = 4 /\ bit = 23 => /\ Effect /\ got' = got
                                     /\ ReadCast(got) = WordAt(dev.pc) /\ PCSeen = dev.pc
          /\ ~ (step = 4 /\ bit = 23) => Unmoved
          /\ step = 5 /\ bit = 23 =>
                ReadOver' /\ script' = Tail(script) /\ bit' = 0 /\ step' = 1
          /\ ~ (step = 5 /\ bit = 23) => Reading' /\ script' = script

LEMMA ReceiveMoves ==
    ASSUME ReadAt
    PROVE  Reads
  <1>1. step \in {1, 2, 3, 4, 5}
    BY ReceiveCall
  <1>2. CASE step = 1
    BY <1>2, ReceiveRises DEF Reads
  <1>3. CASE step = 2
    BY <1>3, ReceiveHolds DEF Reads
  <1>4. CASE step = 3
    BY <1>4, ReceiveTakes DEF Reads
  <1>5. CASE step = 4
    BY <1>5, ReceiveFalls DEF Reads
  <1>6. CASE step = 5
    BY <1>6, ReceiveRests DEF Reads
  <1> QED
    BY <1>1, <1>2, <1>3, <1>4, <1>5, <1>6

-----------------------------------------------------------------------------
(* The calls that are not in a loop. *)
LEMMA WaitMoves ==
    ASSUME ScriptInv, LineInv, script # <<>>, NEW us \in Nat, us <= 11000,
           Call = Wait(us)
    PROVE  /\ Accepted
           /\ MakeCall =>
                 /\ Unmoved /\ dev' = dev /\ pins' = pins /\ got' = got /\ op' = op
                 /\ age'.rose >= us /\ age'.fell >= us /\ age'.changed >= us
                 /\ age' \in [rose : Nat, fell : Nat, changed : Nat,
                              latched : Nat \cup {Never}]
                 /\ LatchHeld => LatchHeld'
                 /\ age.fell >= 1 => age'.fell >= 1
                 /\ age'.fell = IF age.fell + us > Cap THEN Cap ELSE age.fell + us
  <1>1. Call.do = "delay" /\ Call.us = us
    BY DEF Wait
  <1>2. Accepted
    BY <1>1, AcceptedIs
  <1>3. ASSUME MakeCall
        PROVE  /\ Unmoved /\ dev' = dev /\ pins' = pins /\ got' = got /\ op' = op
               /\ age'.rose >= us /\ age'.fell >= us /\ age'.changed >= us
               /\ age' \in [rose : Nat, fell : Nat, changed : Nat,
                            latched : Nat \cup {Never}]
               /\ LatchHeld => LatchHeld'
               /\ age.fell >= 1 => age'.fell >= 1
               /\ age'.fell = IF age.fell + us > Cap THEN Cap ELSE age.fell + us
    <2>1. Delay /\ got' = got /\ op' = op
      BY <1>1, <1>3, CallDoes DEF MakeCall
    <2>2. us <= Cap
      BY DEF Cap
    <2>3. /\ age'.rose >= us /\ age'.fell >= us /\ age'.changed >= us
          /\ age' \in [rose : Nat, fell : Nat, changed : Nat,
                       latched : Nat \cup {Never}]
          /\ us >= 1 => LatchHeld'
          /\ age'.fell = IF age.fell + us > Cap THEN Cap ELSE age.fell + us
          /\ pins' = pins /\ dev' = dev
      BY <1>1, <2>1, <2>2, Waited
    <2>4. age \in [rose : Nat, fell : Nat, changed : Nat, latched : Nat \cup {Never}]
      BY DEF LineInv
    <2>5. age.fell >= 1 => age'.fell >= 1
      <3>1. PICK x, y : x = age.fell /\ y = age'.fell
        OBVIOUS
      <3>2. x \in Nat /\ y = IF x + us > Cap THEN Cap ELSE x + us
        BY <2>3, <2>4, <3>1
      <3>3. x >= 1 => y >= 1
        BY <3>2 DEF Cap
      <3> QED
        BY <3>1, <3>3
    <2>6. ASSUME LatchHeld
          PROVE  LatchHeld'
      <3>1. CASE us >= 1
        BY <2>3, <3>1
      <3>2. CASE us = 0
        <4>1. age' = [e \in DOMAIN age |-> Elapsed(age[e], 0)]
          BY <1>1, <2>1, <3>2 DEF Delay
        <4>2. age'.latched = Elapsed(age.latched, 0)
          BY <2>4, <4>1
        <4>3. PICK x : x = age.latched
          OBVIOUS
        <4>4. CASE x = Never
          BY <4>2, <4>3, <4>4 DEF LatchHeld, Elapsed
        <4>5. CASE x \in Nat /\ x >= 1
          <5>1. Elapsed(x, 0) >= 1
            BY <4>5 DEF Elapsed, Never, Cap
          <5> QED
            BY <4>2, <4>3, <5>1 DEF LatchHeld
        <4> QED
          BY <2>4, <2>6, <4>3, <4>4, <4>5 DEF LatchHeld
      <3> QED
        BY <3>1, <3>2
    <2>7. Unmoved
      BY <2>1, <2>3, DeviceStill
    <2> QED
      BY <2>1, <2>3, <2>5, <2>6, <2>7
  <1> QED
    BY <1>2, <1>3

LEMMA ModeMoves ==
    ASSUME ScriptInv, PinInv, LineInv, script # <<>>, NEW m \in {"in", "out"},
           Call = Mode(m), m = "out" => LatchHeld
    PROVE  /\ Accepted
           /\ MakeCall =>
                 /\ Unmoved /\ dev' = dev /\ got' = got /\ op' = op
                 /\ pins' = [pins EXCEPT !.data = m] /\ pins'.clk = pins.clk
                 /\ pins'.data = m
                 /\ age'.fell = age.fell
                 /\ LatchHeld => LatchHeld'
  <1>1. Call.do = "mode" /\ Call.mode = m
    BY DEF Mode
  <1>2. Accepted
    BY <1>1, AcceptedIs
  <1>3. ASSUME MakeCall
        PROVE  /\ Unmoved /\ dev' = dev /\ got' = got /\ op' = op
               /\ pins' = [pins EXCEPT !.data = m] /\ pins'.clk = pins.clk
               /\ pins'.data = m
               /\ age'.fell = age.fell
               /\ LatchHeld => LatchHeld'
    <2>1. DataMode /\ got' = got /\ op' = op
      BY <1>1, <1>3, CallDoes DEF MakeCall
    <2>2. /\ dev' = dev /\ pins' = [pins EXCEPT !.data = m]
          /\ pins'.clk = pins.clk /\ pins'.data = m
      BY <1>1, <2>1 DEF DataMode, PinInv
    <2>3. \/ age' = age
          \/ age' = [age EXCEPT !.changed = 0]
          \/ age' = [age EXCEPT !.changed = 0, !.latched = Never]
      BY <2>1 DEF DataMode
    <2>4. age \in [rose : Nat, fell : Nat, changed : Nat, latched : Nat \cup {Never}]
      BY DEF LineInv
    <2>5. age'.fell = age.fell /\ age'.latched \in {age.latched, Never}
      BY <2>3, <2>4
    <2>6. LatchHeld => LatchHeld'
      BY <2>5 DEF LatchHeld
    <2>7. Unmoved
      BY <2>1, <2>2, DeviceStill
    <2> QED
      BY <2>1, <2>2, <2>5, <2>6, <2>7
  <1> QED
    BY <1>2, <1>3

LEMMA PinMoves ==
    ASSUME ScriptInv, PinInv, script # <<>>,
           NEW n \in {"mclr", "prog_en", "clk"}, NEW v \in {0, 1}, Call = Pin(n, v),
           pins[n] = v
    PROVE  /\ Accepted
           /\ MakeCall =>
                 /\ Unmoved /\ op' = op
                 /\ dev' = dev /\ pins' = pins /\ age' = age /\ got' = got
                 /\ LatchHeld => LatchHeld'
  <1>1. Call.do = n /\ Call.level = v
    BY DEF Pin
  <1>2. Accepted
    BY <1>1, AcceptedIs
  <1>3. ASSUME MakeCall
        PROVE  /\ Unmoved /\ op' = op
               /\ dev' = dev /\ pins' = pins /\ age' = age /\ got' = got
               /\ LatchHeld => LatchHeld'
    <2>1. op' = op
      BY <1>3 DEF MakeCall
    <2>2. dev' = dev /\ pins' = pins /\ age' = age /\ got' = got
      <3>1. CASE n = "clk"
        BY <1>1, <1>3, <3>1, CallDoes DEF ClkRises, ClkFalls
      <3>2. CASE n \in {"mclr", "prog_en"}
        BY <1>1, <1>3, <3>2, CallDoes DEF Control
      <3> QED
        BY <3>1, <3>2
    <2>3. Unmoved
      BY <2>1, <2>2, DeviceStill
    <2> QED
      BY <2>1, <2>2, <2>3 DEF LatchHeld
  <1> QED
    BY <1>2, <1>3

LEMMA ControlMoves ==
    ASSUME ScriptInv, DevInv, PinInv, script # <<>>,
           NEW n \in {"mclr", "prog_en"}, NEW v \in {0, 1}, Call = Pin(n, v),
           pins[n] # v, ControlAccepted(n, v)
    PROVE  /\ Accepted
           /\ MakeCall =>
                 /\ op' = op /\ got' = got /\ age' = age
                 /\ pins' = [pins EXCEPT ![n] = v]
                 /\ LatchHeld => LatchHeld'
                 /\ dev' = Controlled(n, v) /\ dev'.pc = dev.pc /\ dev'.mem = dev.mem
                 /\ dev'.cnt = 0 /\ dev'.data = 0
                 /\ dev'.state = IF n = "mclr" /\ v = 0 THEN "MCLR"
                                 ELSE IF n = "prog_en" /\ v = 0 THEN "IDLE"
                                 ELSE "PROG_EN"
  <1>1. Call.do = n /\ Call.level = v
    BY DEF Pin
  <1>2. Accepted
    BY <1>1, AcceptedIs
  <1>3. ASSUME MakeCall
        PROVE  /\ op' = op /\ got' = got /\ age' = age
               /\ pins' = [pins EXCEPT ![n] = v]
               /\ LatchHeld => LatchHeld'
               /\ dev' = Controlled(n, v) /\ dev'.pc = dev.pc /\ dev'.mem = dev.mem
               /\ dev'.cnt = 0 /\ dev'.data = 0
               /\ dev'.state = IF n = "mclr" /\ v = 0 THEN "MCLR"
                               ELSE IF n = "prog_en" /\ v = 0 THEN "IDLE"
                               ELSE "PROG_EN"
    <2>1. op' = op
      BY <1>3 DEF MakeCall
    <2>2. got' = got /\ Control(n)
      BY <1>1, <1>3, CallDoes
    <2>3. age' = age /\ pins' = [pins EXCEPT ![n] = v] /\ dev' = Controlled(n, v)
      BY <1>1, <2>2 DEF Control
    <2>4. PICK st \in DeviceState :
             /\ st = IF n = "mclr" /\ v = 0 THEN "MCLR"
                     ELSE IF n = "prog_en" /\ v = 0 THEN "IDLE" ELSE "PROG_EN"
             /\ dev' = To(dev, st)
      BY <2>3 DEF Controlled, DeviceState
    <2>5. /\ dev'.state = st /\ dev'.pc = dev.pc /\ dev'.mem = dev.mem
          /\ dev'.cnt = 0 /\ dev'.data = 0
      BY <2>4, BackTo DEF DevInv
    <2> QED
      BY <2>1, <2>2, <2>3, <2>4, <2>5 DEF LatchHeld
  <1> QED
    BY <1>2, <1>3

-----------------------------------------------------------------------------
(* Where the script stands in the scope's calls. *)
LEMMA Placed ==
    ASSUME ScriptInv, NEW us \in Nat, Within(us), NEW w, w = Plan(stage, op, us)
    PROVE  /\ w \in Seq(HostCall) /\ Len(w) \in Nat /\ Left \in 0 .. Len(w)
           /\ script = <<>> <=> Left = 0
           /\ script # <<>> =>
                 /\ Left \in 1 .. Len(w) /\ Head(script) \in HostCall
                 /\ Head(script) = w[Len(w) - Left + 1]
                 /\ script' = Tail(script) => Left' = Left - 1
                 /\ ~ Clocks(Head(script)) =>
                       /\ Call = Head(script)
                       /\ MakeCall => Left' = Left - 1 /\ bit' = 0 /\ step' = 1
  <1>1. PICK s : s = script
    OBVIOUS
  <1>2. s \in Seq(HostCall) /\ EndOf(s, w)
    BY <1>1 DEF ScriptInv, Within
  <1>3. w \in Seq(HostCall)
    <2>1. stage = "command" => op \in RequestType
      BY Requested DEF ScriptInv
    <2> QED
      BY <2>1, PlanTyped
  <1>4. Len(w) \in Nat /\ Len(s) \in 0 .. Len(w)
    BY <1>2, <1>3, LenProperties DEF EndOf
  <1>5. s = <<>> <=> Len(s) = 0
    BY <1>2, EmptySeq
  <1>6. ASSUME s # <<>>
        PROVE  /\ Head(s) = w[Len(w) - Len(s) + 1] /\ Head(s) \in HostCall
               /\ Len(s) \in 1 .. Len(w) /\ Len(Tail(s)) = Len(s) - 1
    BY <1>2, <1>3, <1>6, EndOfTail
  <1>7. ASSUME script # <<>>, ~ Clocks(Head(script))
        PROVE  /\ Call = Head(script)
               /\ MakeCall => script' = Tail(script) /\ bit' = 0 /\ step' = 1
    <2>1. ~ Looping(script)
      BY <1>7 DEF Looping
    <2> QED
      BY <1>7, <2>1, Advances DEF Call, MakeCall
  <1> QED
    BY <1>1, <1>3, <1>4, <1>5, <1>6, <1>7 DEF Left

LEMMA SendKeepsGot ==
    ASSUME NEW what, NEW us, SendAt(what, us), MakeCall
    PROVE  got' = got /\ op' = op
  <1>1. Call.do \in {"clk", "write", "delay"}
    BY SendCall DEF Pin, WriteData, Wait
  <1> QED
    BY <1>1, CallDoes DEF SendAt, MakeCall

LEMMA KeyStarts == Message("key") \in Bytes /\ Prefix(Message("key"), 0) = 0
  <1>1. Message("key") = KEY_SEQ /\ KEY_SEQ \in Bytes
    BY DEF Message, KEY_SEQ, Bytes
  <1> QED
    BY <1>1, PrefixEnds

(* Entering: cleanup_gpio finds the pins as they are to be, and the waits  *)
(* are long enough for the device to take the key.                         *)
EnterLock ==
    /\ PCSeen = NoPC /\ got = 0
    /\ Left \in {6, 7, 8, 9, 10} => pins = Idle /\ LatchHeld
    /\ Left = 5 => Held /\ dev.state = "PROG_EN"
    /\ Left = 4 => /\ Held /\ dev.state = "PROG_EN"
                   /\ age.rose >= 1 /\ age.fell >= 1 /\ age.changed >= 1
    /\ Left = 3 => Held /\ Taken("key", 0)
    /\ Left = 2 => Sending("key", 0)
    /\ Left = 1 => Rested /\ Reached("key", 0)
    /\ Left = 0 => Rested /\ Await

LEMMA EnterStands ==
    ASSUME ScriptInv, stage = "enter", script # <<>>
    PROVE  /\ Left \in {1, 2, 3, 4, 5, 6, 7, 8, 9, 10}
           /\ Head(script) = EnterProgramming[11 - Left]
           /\ script' = Tail(script) => Left' = Left - 1
           /\ ~ Clocks(Head(script)) =>
                 /\ Call = Head(script)
                 /\ MakeCall => Left' = Left - 1 /\ bit' = 0 /\ step' = 1
  <1>1. PICK us \in Nat : Within(us)
    BY DEF ScriptInv
  <1>2. PICK w : w = Plan(stage, op, us)
    OBVIOUS
  <1>3. w = EnterProgramming /\ Len(w) = 10
    BY <1>2, EnterCalls DEF Plan
  <1>4. /\ Left \in 1 .. 10
        /\ Head(script) = w[10 - Left + 1]
        /\ script' = Tail(script) => Left' = Left - 1
        /\ ~ Clocks(Head(script)) =>
              /\ Call = Head(script)
              /\ MakeCall => Left' = Left - 1 /\ bit' = 0 /\ step' = 1
    BY <1>1, <1>2, <1>3, Placed
  <1>5. 10 - Left + 1 = 11 - Left
    BY <1>4
  <1> QED
    BY <1>3, <1>4, <1>5

LEMMA CleansUp ==
    ASSUME ScriptInv, DevInv, PinInv, LineInv, script # <<>>, pins = Idle, LatchHeld,
           Call \in {Pin("mclr", 1), Pin("clk", 0), Mode("out"), Pin("prog_en", 0)}
    PROVE  /\ Accepted
           /\ MakeCall => Unmoved /\ pins' = Idle /\ LatchHeld' /\ got' = got
  <1>1. /\ pins.mclr = 1 /\ pins.clk = 0 /\ pins.prog_en = 0 /\ pins.data = "out"
        /\ [pins EXCEPT !.data = "out"] = Idle
    BY DEF Idle
  <1>2. CASE Call = Pin("mclr", 1)
    BY <1>1, <1>2, PinMoves
  <1>3. CASE Call = Pin("clk", 0)
    BY <1>1, <1>3, PinMoves
  <1>4. CASE Call = Pin("prog_en", 0)
    BY <1>1, <1>4, PinMoves
  <1>5. CASE Call = Mode("out")
    BY <1>1, <1>5, ModeMoves
  <1> QED
    BY <1>2, <1>3, <1>4, <1>5

LEMMA EnterMoves ==
    ASSUME ScriptInv, DevInv, PinInv, LineInv, stage = "enter", EnterLock,
           script # <<>>
    PROVE  Accepted /\ (MakeCall => EnterLock' /\ Unmoved)
  <1>1. PICK n \in {1, 2, 3, 4, 5, 6, 7, 8, 9, 10} : n = Left
    BY EnterStands
  <1>2. PICK h : h = Head(script) /\ h = EnterProgramming[11 - n]
    BY <1>1, EnterStands
  <1>3. ~ Clocks(h) => /\ Call = h
                       /\ MakeCall => Left' = n - 1 /\ bit' = 0 /\ step' = 1
    BY <1>1, <1>2, EnterStands
  <1>4. PCSeen = NoPC /\ got = 0
    BY DEF EnterLock
  <1>5. CASE n \in {7, 8, 9, 10}
    <2>1. h \in {Pin("mclr", 1), Pin("clk", 0), Mode("out"), Pin("prog_en", 0)}
      BY <1>2, <1>5, EnterCalls
    <2>2. Call = h
      BY <1>3, <2>1 DEF Clocks, Pin, Mode
    <2>3. pins = Idle /\ LatchHeld
      BY <1>1, <1>5 DEF EnterLock
    <2>4. /\ Accepted
          /\ MakeCall => Unmoved /\ pins' = Idle /\ LatchHeld' /\ got' = got
      BY <2>1, <2>2, <2>3, CleansUp
    <2>5. ASSUME MakeCall
          PROVE  EnterLock' /\ Unmoved
      <3>1. Left' = n - 1
        BY <1>3, <2>1, <2>5 DEF Clocks, Pin, Mode
      <3>2. Left' \in {6, 7, 8, 9}
        BY <1>5, <3>1
      <3> QED
        BY <1>4, <2>4, <2>5, <3>2 DEF EnterLock, Unmoved
    <2> QED
      BY <2>4, <2>5
  <1>6. CASE n = 6
    <2>1. h = Pin("prog_en", 1)
      BY <1>2, <1>6, EnterCalls
    <2>2. Call = Pin("prog_en", 1)
      BY <1>3, <2>1 DEF Clocks, Pin
    <2>3. pins = Idle /\ LatchHeld
      BY <1>1, <1>6 DEF EnterLock
    <2>4. dev.state = "IDLE" /\ pins.prog_en # 1 /\ PCSeen = dev.pc
      BY <2>3 DEF PinInv, Idle, PCSeen
    <2>5. ControlAccepted("prog_en", 1)
      BY <2>4 DEF ControlAccepted
    <2>6. /\ Accepted
          /\ MakeCall => /\ got' = got /\ pins' = [pins EXCEPT !.prog_en = 1]
                         /\ LatchHeld' /\ dev'.pc = dev.pc /\ dev'.mem = dev.mem
                         /\ dev'.state = "PROG_EN"
      BY <2>2, <2>3, <2>4, <2>5, ControlMoves
    <2>7. ASSUME MakeCall
          PROVE  EnterLock' /\ Unmoved
      <3>1. Left' = 5
        BY <1>3, <1>6, <2>1, <2>7 DEF Clocks, Pin
      <3>2. pins'.clk = 0 /\ pins'.data = "out"
        BY <2>3, <2>6, <2>7 DEF Idle
      <3>3. Held' /\ dev'.state = "PROG_EN"
        BY <2>6, <2>7, <3>2 DEF Held
      <3>4. Unmoved
        BY <2>4, <2>6, <2>7 DEF Unmoved, PCSeen
      <3> QED
        BY <1>4, <2>6, <2>7, <3>1, <3>3, <3>4 DEF EnterLock, Unmoved
    <2> QED
      BY <2>6, <2>7
  <1>7. CASE n = 5
    <2>1. h = Wait(1000)
      BY <1>2, <1>7, EnterCalls
    <2>2. Call = Wait(1000) /\ ~ Clocks(h)
      BY <1>3, <2>1 DEF Clocks, Wait
    <2>3. Held /\ dev.state = "PROG_EN"
      BY <1>1, <1>7 DEF EnterLock
    <2>4. /\ Accepted
          /\ MakeCall =>
                /\ Unmoved /\ dev' = dev /\ pins' = pins /\ got' = got
                /\ age'.rose >= 1000 /\ age'.fell >= 1000 /\ age'.changed >= 1000
                /\ age' \in [rose : Nat, fell : Nat, changed : Nat,
                             latched : Nat \cup {Never}]
                /\ LatchHeld => LatchHeld'
      BY <2>2, WaitMoves
    <2>5. ASSUME MakeCall
          PROVE  EnterLock' /\ Unmoved
      <3>1. Left' = 4
        BY <1>3, <1>7, <2>2, <2>5
      <3>2. Held' /\ dev'.state = "PROG_EN"
        BY <2>3, <2>4, <2>5 DEF Held
      <3>3. age'.rose >= 1 /\ age'.fell >= 1 /\ age'.changed >= 1
        BY <2>4, <2>5
      <3> QED
        BY <1>4, <2>4, <2>5, <3>1, <3>2, <3>3 DEF EnterLock, Unmoved
    <2> QED
      BY <2>4, <2>5
  <1>8. CASE n = 4
    <2>1. h = Pin("mclr", 0)
      BY <1>2, <1>8, EnterCalls
    <2>2. Call = Pin("mclr", 0) /\ ~ Clocks(h)
      BY <1>3, <2>1 DEF Clocks, Pin
    <2>3. /\ Held /\ dev.state = "PROG_EN"
          /\ age.rose >= 1 /\ age.fell >= 1 /\ age.changed >= 1
      BY <1>1, <1>8 DEF EnterLock
    <2>4. pins.mclr # 0 /\ PCSeen = dev.pc
      BY <2>3 DEF PinInv, PCSeen
    <2>5. ControlAccepted("mclr", 0)
      BY <2>3 DEF ControlAccepted
    <2>6. /\ Accepted
          /\ MakeCall => /\ got' = got /\ pins' = [pins EXCEPT !.mclr = 0]
                         /\ LatchHeld' /\ dev'.pc = dev.pc /\ dev'.mem = dev.mem
                         /\ dev'.cnt = 0 /\ dev'.data = 0
                         /\ dev'.state = "MCLR"
      BY <2>2, <2>3, <2>4, <2>5, ControlMoves DEF Held
    <2>7. ASSUME MakeCall
          PROVE  EnterLock' /\ Unmoved
      <3>1. Left' = 3
        BY <1>3, <1>8, <2>2, <2>7
      <3>2. pins'.clk = 0 /\ pins'.data = "out"
        BY <2>3, <2>6, <2>7 DEF Held, PinInv
      <3>3. Held'
        BY <2>6, <2>7, <3>2 DEF Held
      <3>4. Unmoved
        BY <2>4, <2>6, <2>7 DEF Unmoved, PCSeen
      <3>5. Message("key")' = Message("key")
        BY DEF Message
      <3>6. Taken("key", 0)'
        BY <2>6, <2>7, <3>5, KeyStarts DEF Taken, Into
      <3> QED
        BY <1>4, <2>6, <2>7, <3>1, <3>3, <3>4, <3>6 DEF EnterLock, Unmoved
    <2> QED
      BY <2>6, <2>7
  <1>9. CASE n = 3
    <2>1. h = Wait(2200)
      BY <1>2, <1>9, EnterCalls
    <2>2. Call = Wait(2200) /\ ~ Clocks(h)
      BY <1>3, <2>1 DEF Clocks, Wait
    <2>3. Held /\ Taken("key", 0)
      BY <1>1, <1>9 DEF EnterLock
    <2>4. /\ Accepted
          /\ MakeCall =>
                /\ Unmoved /\ dev' = dev /\ pins' = pins /\ got' = got /\ op' = op
                /\ age'.fell >= 2200
                /\ age' \in [rose : Nat, fell : Nat, changed : Nat,
                             latched : Nat \cup {Never}]
                /\ LatchHeld => LatchHeld'
      BY <2>2, WaitMoves
    <2>5. ASSUME MakeCall
          PROVE  EnterLock' /\ Unmoved
      <3>1. Left' = 2 /\ bit' = 0 /\ step' = 1
        BY <1>3, <1>9, <2>2, <2>5
      <3>2. pins'.clk = 0 /\ pins'.data = "out" /\ LatchHeld'
        BY <2>3, <2>4, <2>5 DEF Held
      <3>3. age'.fell >= 1 /\ age'.fell >= 1000
        BY <2>4, <2>5
      <3>4. Taken("key", 0)'
        BY <2>3, <2>4, <2>5, DeviceStill
      <3>5. Ready("key")'
        BY <3>3, <3>4 DEF Ready
      <3>6. Sending("key", 0)'
        BY <3>1, <3>2, <3>3, <3>5 DEF Sending
      <3> QED
        BY <1>4, <2>4, <2>5, <3>1, <3>6 DEF EnterLock, Unmoved
    <2> QED
      BY <2>4, <2>5
  <1>10. CASE n = 2
    <2>1. h = Send(KEY_SEQ)
      BY <1>2, <1>10, EnterCalls
    <2>2. Sending("key", 0)
      BY <1>1, <1>10 DEF EnterLock
    <2>3. SendAt("key", 0)
      BY <1>2, <2>1, <2>2 DEF SendAt, Message
    <2>4. Sends("key", 0)
      BY <2>3, SendMoves
    <2>5. ASSUME MakeCall
          PROVE  EnterLock' /\ Unmoved
      <3>1. Unmoved /\ got' = got
        BY <2>3, <2>4, <2>5, SendKeepsGot DEF Sends, Acts
      <3>2. CASE step = 5 /\ bit + 1 = BitsOf("key")
        <4>1. Rested' /\ Reached("key", 0)' /\ script' = Tail(script)
          BY <2>4, <2>5, <3>2 DEF Sends
        <4>2. Left' = 2 - 1
          BY <1>1, <1>10, <4>1, EnterStands
        <4> QED
          BY <1>4, <3>1, <4>1, <4>2 DEF EnterLock, Unmoved
      <3>3. CASE ~ (step = 5 /\ bit + 1 = BitsOf("key"))
        <4>1. Sending("key", 0)' /\ script' = script
          BY <2>4, <2>5, <3>3 DEF Sends
        <4>2. Left' = 2
          BY <1>1, <1>10, <4>1 DEF Left
        <4> QED
          BY <1>4, <3>1, <4>1, <4>2 DEF EnterLock, Unmoved
      <3> QED
        BY <3>1, <3>2, <3>3
    <2> QED
      BY <2>4, <2>5 DEF Sends
  <1>11. CASE n = 1
    <2>1. h = Wait(2200)
      BY <1>2, <1>11, EnterCalls
    <2>2. Call = Wait(2200) /\ ~ Clocks(h)
      BY <1>3, <2>1 DEF Clocks, Wait
    <2>3. Rested /\ Reached("key", 0)
      BY <1>1, <1>11 DEF EnterLock
    <2>4. /\ Accepted
          /\ MakeCall =>
                /\ Unmoved /\ dev' = dev /\ pins' = pins /\ got' = got
                /\ age'.fell >= 2200
                /\ age' \in [rose : Nat, fell : Nat, changed : Nat,
                             latched : Nat \cup {Never}]
                /\ LatchHeld => LatchHeld'
      BY <2>2, WaitMoves
    <2>5. ASSUME MakeCall
          PROVE  EnterLock' /\ Unmoved
      <3>1. Left' = 0
        BY <1>3, <1>11, <2>2, <2>5
      <3>2. age'.fell >= 1 /\ 10 * age'.fell >= Hold /\ Hold <= 110000
        BY <2>4, <2>5 DEF Hold
      <3>3. Rested'
        BY <2>3, <2>4, <2>5, <3>2 DEF Rested, Held
      <3>4. Await'
        BY <2>3, <2>4, <2>5, <3>2 DEF Await, Reached
      <3> QED
        BY <1>4, <2>4, <2>5, <3>1, <3>3, <3>4 DEF EnterLock, Unmoved
    <2> QED
      BY <2>4, <2>5
  <1> QED
    BY <1>5, <1>6, <1>7, <1>8, <1>9, <1>10, <1>11

-----------------------------------------------------------------------------
(* Leaving: the wait before MCLR is long enough, whatever the device was   *)
(* given last, and cleanup_gpio finds the pins as they are to be.          *)
GuardLock ==
    /\ got = 0
    /\ Left = 3 => Rested /\ Await
    /\ Left = 2 => Held /\ pins.mclr = 0 /\ ControlAccepted("mclr", 1)
    /\ Left = 1 => Held /\ pins.mclr = 1
    /\ Left = 0 => pins = Idle /\ LatchHeld

LEMMA GuardStands ==
    ASSUME ScriptInv, stage = "guard", script # <<>>
    PROVE  /\ Left \in {1, 2, 3}
           /\ Left = 3 => Call = Wait(1102)
           /\ Left = 2 => Call = Pin("mclr", 1)
           /\ Left = 1 => Call = Pin("prog_en", 0)
           /\ MakeCall => Left' = Left - 1
  <1>1. PICK us \in Nat : Within(us)
    BY DEF ScriptInv
  <1>2. PICK w : w = Plan(stage, op, us)
    OBVIOUS
  <1>3. w = ExitProgramming /\ Len(w) = 3
    BY <1>2, ExitCalls DEF Plan
  <1>4. PICK h, n : h = Head(script) /\ n = Left
    OBVIOUS
  <1>5. /\ n \in 1 .. 3
        /\ h = w[3 - n + 1]
        /\ ~ Clocks(h) => Call = h /\ (MakeCall => Left' = n - 1)
    BY <1>1, <1>2, <1>3, <1>4, Placed
  <1>6. /\ n = 3 => h = Wait(1102)
        /\ n = 2 => h = Pin("mclr", 1)
        /\ n = 1 => h = Pin("prog_en", 0)
    BY <1>3, <1>5, ExitCalls
  <1>7. ~ Clocks(h)
    <2>1. n \in {1, 2, 3}
      BY <1>5
    <2> QED
      BY <1>6, <2>1 DEF Clocks, Wait, Pin
  <1> QED
    BY <1>4, <1>5, <1>6, <1>7

LEMMA GuardMoves ==
    ASSUME ScriptInv, DevInv, PinInv, LineInv, stage = "guard", GuardLock,
           script # <<>>
    PROVE  Accepted /\ (MakeCall => GuardLock' /\ dev'.mem = dev.mem)
  <1>1. PICK n \in {1, 2, 3} : n = Left
    BY GuardStands
  <1>2. got = 0
    BY DEF GuardLock
  <1>3. CASE n = 3
    <2>1. Call = Wait(1102)
      BY <1>1, <1>3, GuardStands
    <2>2. Rested /\ Await
      BY <1>1, <1>3 DEF GuardLock
    <2>3. /\ Accepted
          /\ MakeCall =>
                /\ dev' = dev /\ pins' = pins /\ got' = got
                /\ age'.fell = IF age.fell + 1102 > Cap THEN Cap ELSE age.fell + 1102
                /\ LatchHeld => LatchHeld'
      BY <2>1, WaitMoves
    <2>4. ASSUME MakeCall
          PROVE  GuardLock' /\ dev'.mem = dev.mem
      <3>1. Left' = 2
        BY <1>1, <1>3, <2>4, GuardStands
      <3>2. PICK f, g, ts : f = age.fell /\ g = age'.fell /\ ts = dev.ts
        OBVIOUS
      <3>3. f \in Nat /\ f >= 1 /\ ts \in Nat
            /\ g = IF f + 1102 > 12001 THEN 12001 ELSE f + 1102
        BY <2>2, <2>3, <2>4, <3>2 DEF Rested, LineInv, DevInv, Device, Cap
      <3>4. 10 * g >= 10 + 10001 /\ (10 * f >= ts /\ ts <= 110000 => 10 * g >= ts + 10001)
        BY <3>3
      <3>5. ControlAccepted("mclr", 1)'
        <4>1. CASE dev.state = "PROGRAMMING"
          <5>1. 10 * g >= ts + 10001
            BY <2>2, <3>2, <3>4, <4>1 DEF Await
          <5> QED
            BY <2>3, <2>4, <3>2, <4>1, <5>1 DEF ControlAccepted, ExitHeld, Hold
        <4>2. CASE dev.state = "INC_PC"
          BY <2>3, <2>4, <3>2, <3>4, <4>2 DEF ControlAccepted, ExitHeld, Hold, Dly
        <4> QED
          BY <2>2, <4>1, <4>2 DEF Await
      <3>6. pins.mclr = 0
        BY <2>2 DEF Await, PinInv
      <3>7. Held'
        BY <2>2, <2>3, <2>4 DEF Rested, Held
      <3> QED
        BY <1>2, <2>3, <2>4, <3>1, <3>5, <3>6, <3>7 DEF GuardLock
    <2> QED
      BY <2>3, <2>4
  <1>4. CASE n = 2
    <2>1. Call = Pin("mclr", 1)
      BY <1>1, <1>4, GuardStands
    <2>2. Held /\ pins.mclr = 0 /\ ControlAccepted("mclr", 1)
      BY <1>1, <1>4 DEF GuardLock
    <2>3. /\ Accepted
          /\ MakeCall =>
                /\ got' = got /\ pins' = [pins EXCEPT !.mclr = 1]
                /\ LatchHeld => LatchHeld'
                /\ dev'.mem = dev.mem
      BY <2>1, <2>2, ControlMoves
    <2>4. ASSUME MakeCall
          PROVE  GuardLock' /\ dev'.mem = dev.mem
      <3>1. Left' = 1
        BY <1>1, <1>4, <2>4, GuardStands
      <3>2. pins'.mclr = 1 /\ pins'.clk = 0 /\ pins'.data = "out"
        BY <2>2, <2>3, <2>4 DEF PinInv, Held
      <3>3. Held'
        BY <2>2, <2>3, <2>4, <3>2 DEF Held
      <3> QED
        BY <1>2, <2>3, <2>4, <3>1, <3>2, <3>3 DEF GuardLock
    <2> QED
      BY <2>3, <2>4
  <1>5. CASE n = 1
    <2>1. Call = Pin("prog_en", 0)
      BY <1>1, <1>5, GuardStands
    <2>2. /\ pins.clk = 0 /\ pins.data = "out" /\ LatchHeld /\ pins.mclr = 1
          /\ pins \in [mclr : {0, 1}, prog_en : {0, 1}, clk : {0, 1},
                       data : {"in", "out"}]
      BY <1>1, <1>5 DEF GuardLock, Held, PinInv
    <2>3. /\ Accepted
          /\ MakeCall =>
                /\ got' = got /\ LatchHeld' /\ dev'.mem = dev.mem
                /\ pins' = [pins EXCEPT !.prog_en = 0]
      <3>1. CASE pins.prog_en = 0
        <4>1. pins = [pins EXCEPT !.prog_en = 0]
          BY <2>2, <3>1
        <4>2. /\ Accepted
              /\ MakeCall => dev' = dev /\ pins' = pins /\ got' = got /\ LatchHeld'
          BY <2>1, <2>2, <3>1, PinMoves
        <4> QED
          BY <4>1, <4>2
      <3>2. CASE pins.prog_en # 0
        <4>1. dev.state = "PROG_EN"
          BY <2>2, <3>2 DEF PinInv
        <4>2. ControlAccepted("prog_en", 0)
          BY <4>1 DEF ControlAccepted
        <4> QED
          BY <2>1, <2>2, <3>2, <4>2, ControlMoves
      <3> QED
        BY <3>1, <3>2
    <2>4. ASSUME MakeCall
          PROVE  GuardLock' /\ dev'.mem = dev.mem
      <3>1. Left' = 0
        BY <1>1, <1>5, <2>4, GuardStands
      <3>2. pins' = Idle
        BY <2>2, <2>3, <2>4 DEF Idle
      <3> QED
        BY <1>2, <2>3, <2>4, <3>1, <3>2 DEF GuardLock
    <2> QED
      BY <2>3, <2>4
  <1> QED
    BY <1>3, <1>4, <1>5

HeaderLock == pins = Idle /\ LatchHeld /\ got = 0

LEMMA HeaderMoves ==
    ASSUME ScriptInv, DevInv, PinInv, LineInv, stage = "header", HeaderLock,
           script # <<>>
    PROVE  Accepted /\ (MakeCall => HeaderLock' /\ dev'.mem = dev.mem)
  <1>1. PICK us \in Nat : Within(us)
    BY DEF ScriptInv
  <1>2. PICK w : w = Plan(stage, op, us)
    OBVIOUS
  <1>3. w = CleanupGpio /\ Len(w) = 4
    BY <1>2, CleanupCalls DEF Plan
  <1>4. PICK h, n : h = Head(script) /\ n = Left
    OBVIOUS
  <1>5. /\ n \in 1 .. 4
        /\ h = w[4 - n + 1]
        /\ ~ Clocks(h) => Call = h
    BY <1>1, <1>2, <1>3, <1>4, Placed
  <1>6. h \in {Pin("mclr", 1), Pin("clk", 0), Mode("out"), Pin("prog_en", 0)}
    <2>1. 4 - n + 1 \in {1, 2, 3, 4}
      BY <1>5
    <2> QED
      BY <1>3, <1>5, <2>1, CleanupCalls
  <1>7. Call = h
    BY <1>5, <1>6 DEF Clocks, Pin, Mode
  <1>8. /\ Accepted
        /\ MakeCall => Unmoved /\ pins' = Idle /\ LatchHeld' /\ got' = got
    BY <1>6, <1>7, CleansUp DEF HeaderLock
  <1> QED
    BY <1>8 DEF HeaderLock, Unmoved

-----------------------------------------------------------------------------
(* A command is performed when its last loop is at its last call.          *)
Clocked(s, b, i) ==
    \A x \in DOMAIN s : Clocks(s[x]) => x = 1 /\ i = 5 /\ b = Bits(s[1]) - 1

LEMMA ClockedAt ==
    ASSUME NEW w \in Seq(HostCall), NEW m \in 1 .. Len(w), Clocks(w[m]),
           \A j \in m + 1 .. Len(w) : ~ Clocks(w[j]),
           NEW s \in Seq(HostCall), EndOf(s, w), NEW b, NEW i
    PROVE  Clocked(s, b, i) <=> \/ Len(s) <= Len(w) - m
                                \/ /\ Len(s) = Len(w) - m + 1
                                   /\ i = 5 /\ b = Bits(w[m]) - 1
  <1>1. PICK n, k : n = Len(w) /\ k = Len(s)
    OBVIOUS
  <1>2. /\ k \in Nat /\ n \in Nat /\ k <= n
        /\ m \in 1 .. n /\ DOMAIN s = 1 .. k
        /\ \A x \in 1 .. k : s[x] = w[n - k + x]
    BY <1>1, LenProperties DEF EndOf
  <1>3. Clocked(s, b, i) <=> \A x \in 1 .. k :
                         Clocks(s[x]) => x = 1 /\ i = 5 /\ b = Bits(s[1]) - 1
    BY <1>1, <1>2 DEF Clocked
  <1>4. CASE k <= n - m
    <2>1. ASSUME NEW x \in 1 .. k
          PROVE  ~ Clocks(s[x])
      <3>1. n - k + x \in m + 1 .. n
        BY <1>2, <1>4
      <3> QED
        BY <1>1, <1>2, <3>1
    <2> QED
      BY <1>1, <1>3, <1>4, <2>1
  <1>5. CASE k = n - m + 1
    <2>1. s[1] = w[m] /\ 1 \in 1 .. k
      <3>1. n - k + 1 = m /\ 1 \in 1 .. k
        BY <1>2, <1>5
      <3> QED
        BY <1>2, <3>1
    <2>2. ASSUME NEW x \in 2 .. k
          PROVE  ~ Clocks(s[x])
      <3>1. n - k + x \in m + 1 .. n /\ x \in 1 .. k
        BY <1>2, <1>5
      <3> QED
        BY <1>1, <1>2, <3>1
    <2>3. \A x \in 1 .. k : x = 1 \/ x \in 2 .. k
      BY <1>2
    <2>4. Clocked(s, b, i) <=> i = 5 /\ b = Bits(w[m]) - 1
      BY <1>3, <2>1, <2>2, <2>3
    <2>5. ~ (k <= n - m)
      BY <1>2, <1>5
    <2> QED
      BY <1>1, <1>5, <2>4, <2>5
  <1>6. CASE k > n - m + 1
    <2>0. m - n + k \in 2 .. k
      BY <1>2, <1>6
    <2>1. PICK x \in 2 .. k : x = m - n + k
      BY <2>0
    <2>2. s[x] = w[m] /\ x \in 1 .. k /\ x # 1
      <3>1. n - k + x = m /\ x \in 1 .. k /\ x # 1
        BY <1>2, <2>1
      <3> QED
        BY <1>2, <3>1
    <2>3. ~ Clocked(s, b, i)
      BY <1>3, <2>2
    <2>4. ~ (k <= n - m) /\ k # n - m + 1
      BY <1>2, <1>6
    <2> QED
      BY <1>1, <2>3, <2>4
  <1>7. k <= n - m \/ k = n - m + 1 \/ k > n - m + 1
    <2>1. k \in Int /\ n \in Int /\ m \in Int
      BY <1>2
    <2> QED
      BY <2>1
  <1> QED
    BY <1>4, <1>5, <1>6, <1>7

LEMMA ClocksAre ==
    /\ \A bytes : Clocks(Send(bytes)) /\ Bits(Send(bytes)) = 8 * Len(bytes)
    /\ Clocks(Receive) /\ Bits(Receive) = 24
    /\ \A us : ~ Clocks(Wait(us))
    /\ \A n \in {"mclr", "prog_en", "clk"} : \A v : ~ Clocks(Pin(n, v))
    /\ \A m : ~ Clocks(Mode(m))
  BY DEF Clocks, Bits, Send, Receive, Wait, Pin, Mode

(* Where each kind of command stands, and when it is performed. *)
CommandStands(len) ==
    /\ Left \in 0 .. len
    /\ script = <<>> <=> Left = 0
    /\ script # <<>> =>
          /\ script' = Tail(script) => Left' = Left - 1
          /\ ~ Clocks(Head(script)) =>
                /\ Call = Head(script)
                /\ MakeCall => Left' = Left - 1 /\ bit' = 0 /\ step' = 1

LEMMA InCommand ==
    ASSUME ScriptInv, stage = "command", NEW us \in Nat, Within(us),
           NEW w, w = CommandCalls(op, us)
    PROVE  /\ CommandStands(Len(w)) /\ script \in Seq(HostCall) /\ EndOf(script, w)
           /\ op \in RequestType
           /\ script # <<>> => Head(script) = w[Len(w) - Left + 1]
           /\ Performed <=> Clocked(script, bit, step)
           /\ MakeCall => /\ script' \in Seq(HostCall) /\ EndOf(script', w)
                          /\ Performed' <=> Clocked(script', bit', step')
  <1>1. w = Plan(stage, op, us)
    BY DEF Plan
  <1>2. op \in RequestType /\ op # NoRequest
    <2>1. op \in RequestType
      BY Requested DEF ScriptInv
    <2>2. NoRequest.name = "none"
      BY DEF NoRequest, Request
    <2> QED
      BY <2>1, <2>2 DEF RequestType
  <1>3. CommandStands(Len(w)) /\ (script # <<>> => Head(script) = w[Len(w) - Left + 1])
    BY <1>1, Placed DEF CommandStands
  <1>4. Performed <=> Clocked(script, bit, step)
    BY <1>2 DEF Performed, Clocked
  <1>5. ASSUME MakeCall
        PROVE  /\ script' \in Seq(HostCall) /\ EndOf(script', w)
               /\ Performed' <=> Clocked(script', bit', step')
    <2>1. script # <<>> /\ Advance /\ UNCHANGED <<stage, op>>
      BY <1>5, CallDoes DEF MakeCall
    <2>2. ScriptInv' /\ Within(us)'
      BY <2>1, PlaceKept
    <2>3. script' \in Seq(HostCall) /\ EndOf(script', w)
      BY <1>1, <2>1, <2>2 DEF ScriptInv, Within, Plan
    <2>4. op' # NoRequest
      BY <1>2, <2>1
    <2>5. Performed' <=> Clocked(script', bit', step')
      BY <2>4 DEF Performed, Clocked
    <2> QED
      BY <2>3, <2>5
  <1> QED
    BY <1>1, <1>2, <1>3, <1>4, <1>5 DEF Within, ScriptInv

ArgumentDone(left, b, i) == left <= 1 \/ (left = 2 /\ i = 5 /\ b = 23)

LEMMA ArgumentStands ==
    ASSUME ScriptInv, stage = "command", HasArgument(op), NEW us \in Nat, Within(us)
    PROVE  /\ CommandStands(4) /\ Left \in {0, 1, 2, 3, 4}
           /\ Left = 4 => Head(script) = Send(<<Code(op)>>)
           /\ Left = 3 => Head(script) = Wait(T_DLY)
           /\ Left = 2 => Head(script) = Send(WriteCast(Argument(op)))
           /\ Left = 1 => Head(script) = Wait(us)
           /\ Performed <=> ArgumentDone(Left, bit, step)
           /\ MakeCall => (Performed' <=> ArgumentDone(Left', bit', step'))
  <1>1. PICK w : w = CommandCalls(op, us)
    OBVIOUS
  <1>2. /\ CommandStands(Len(w)) /\ op \in RequestType
        /\ script \in Seq(HostCall) /\ EndOf(script, w)
        /\ script # <<>> => Head(script) = w[Len(w) - Left + 1]
        /\ Performed <=> Clocked(script, bit, step)
        /\ MakeCall => /\ script' \in Seq(HostCall) /\ EndOf(script', w)
                       /\ Performed' <=> Clocked(script', bit', step')
    BY <1>1, InCommand
  <1>3. /\ w \in Seq(HostCall) /\ Len(w) = 4
        /\ w[1] = Send(<<Code(op)>>) /\ w[2] = Wait(T_DLY)
        /\ w[3] = Send(WriteCast(Argument(op))) /\ w[4] = Wait(us)
    BY <1>1, <1>2, ArgumentCommand
  <1>4. Left \in {0, 1, 2, 3, 4} /\ (Left # 0 => script # <<>>)
    BY <1>2, <1>3 DEF CommandStands
  <1>5. Clocks(w[3]) /\ Bits(w[3]) = 24 /\ ~ Clocks(w[4])
    <2>0. Argument(op) \in Nat
      BY <1>2, ArgumentTyped
    <2>1. Len(WriteCast(Argument(op))) = 3
      BY <2>0, WriteCastBytes
    <2>2. Clocks(w[3]) /\ Bits(w[3]) = 8 * 3 /\ ~ Clocks(w[4])
      BY <1>3, <2>1, ClocksAre
    <2> QED
      BY <2>2
  <1>6. ASSUME NEW s \in Seq(HostCall), EndOf(s, w), NEW b, NEW i
        PROVE  Clocked(s, b, i) <=> ArgumentDone(Len(s), b, i)
    <2>1. /\ 3 \in 1 .. Len(w) /\ w \in Seq(HostCall) /\ Clocks(w[3])
          /\ \A j \in 3 + 1 .. Len(w) : ~ Clocks(w[j])
      BY <1>3, <1>5
    <2>2. Clocked(s, b, i) <=> \/ Len(s) <= Len(w) - 3
                               \/ /\ Len(s) = Len(w) - 3 + 1
                                  /\ i = 5 /\ b = Bits(w[3]) - 1
      BY <1>6, <2>1, ClockedAt
    <2>3. Len(w) - 3 = 1 /\ Len(w) - 3 + 1 = 2 /\ Bits(w[3]) - 1 = 23
      BY <1>3, <1>5
    <2> QED
      BY <2>2, <2>3 DEF ArgumentDone
  <1>7. /\ Performed <=> ArgumentDone(Left, bit, step)
        /\ MakeCall => (Performed' <=> ArgumentDone(Left', bit', step'))
    BY <1>2, <1>6 DEF Left
  <1> QED
    BY <1>2, <1>3, <1>4, <1>7

IncrementDone(left, b, i) == left <= 1 \/ (left = 2 /\ i = 5 /\ b = 7)

LEMMA IncrementStands ==
    ASSUME ScriptInv, stage = "command", op.name = "increment",
           NEW us \in Nat, Within(us)
    PROVE  /\ CommandStands(2) /\ Left \in {0, 1, 2}
           /\ Left = 2 => Head(script) = Send(<<Code(op)>>)
           /\ Left = 1 => Head(script) = Wait(T_DLY)
           /\ Performed <=> IncrementDone(Left, bit, step)
           /\ MakeCall => (Performed' <=> IncrementDone(Left', bit', step'))
  <1>1. PICK w : w = CommandCalls(op, us)
    OBVIOUS
  <1>2. /\ CommandStands(Len(w)) /\ op \in RequestType
        /\ script \in Seq(HostCall) /\ EndOf(script, w)
        /\ script # <<>> => Head(script) = w[Len(w) - Left + 1]
        /\ Performed <=> Clocked(script, bit, step)
        /\ MakeCall => /\ script' \in Seq(HostCall) /\ EndOf(script', w)
                       /\ Performed' <=> Clocked(script', bit', step')
    BY <1>1, InCommand
  <1>3. /\ w \in Seq(HostCall) /\ Len(w) = 2
        /\ w[1] = Send(<<Code(op)>>) /\ w[2] = Wait(T_DLY)
    BY <1>1, <1>2, IncrementCommand
  <1>4. Left \in {0, 1, 2} /\ (Left # 0 => script # <<>>)
    BY <1>2, <1>3 DEF CommandStands
  <1>5. Clocks(w[1]) /\ Bits(w[1]) = 8 /\ ~ Clocks(w[2])
    <2>1. Len(<<Code(op)>>) = 1
      OBVIOUS
    <2>2. Clocks(w[1]) /\ Bits(w[1]) = 8 * 1 /\ ~ Clocks(w[2])
      BY <1>3, <2>1, ClocksAre
    <2> QED
      BY <2>2
  <1>6. ASSUME NEW s \in Seq(HostCall), EndOf(s, w), NEW b, NEW i
        PROVE  Clocked(s, b, i) <=> IncrementDone(Len(s), b, i)
    <2>1. /\ 1 \in 1 .. Len(w) /\ w \in Seq(HostCall) /\ Clocks(w[1])
          /\ \A j \in 1 + 1 .. Len(w) : ~ Clocks(w[j])
      BY <1>3, <1>5
    <2>2. Clocked(s, b, i) <=> \/ Len(s) <= Len(w) - 1
                               \/ /\ Len(s) = Len(w) - 1 + 1
                                  /\ i = 5 /\ b = Bits(w[1]) - 1
      BY <1>6, <2>1, ClockedAt
    <2>3. Len(w) - 1 = 1 /\ Len(w) - 1 + 1 = 2 /\ Bits(w[1]) - 1 = 7
      BY <1>3, <1>5
    <2> QED
      BY <2>2, <2>3 DEF IncrementDone
  <1>7. /\ Performed <=> IncrementDone(Left, bit, step)
        /\ MakeCall => (Performed' <=> IncrementDone(Left', bit', step'))
    BY <1>2, <1>6 DEF Left
  <1> QED
    BY <1>2, <1>3, <1>4, <1>7

ReadOut(left, b, i) == left <= 3 \/ (left = 4 /\ i = 5 /\ b = 23)

LEMMA ReadStands ==
    ASSUME ScriptInv, stage = "command", op.name = "read",
           NEW us \in Nat, Within(us)
    PROVE  /\ CommandStands(7) /\ Left \in {0, 1, 2, 3, 4, 5, 6, 7}
           /\ Left = 7 => Head(script) = Send(<<Code(op)>>)
           /\ Left = 6 => Head(script) = Mode("in")
           /\ Left = 5 => Head(script) = Wait(T_DLY)
           /\ Left = 4 => Head(script) = Receive
           /\ Left = 3 => Head(script) = Mode("out")
           /\ Left = 2 => Head(script) = Pin("clk", 0)
           /\ Left = 1 => Head(script) = Wait(T_DLY)
           /\ Performed <=> ReadOut(Left, bit, step)
           /\ MakeCall => (Performed' <=> ReadOut(Left', bit', step'))
  <1>1. PICK w : w = CommandCalls(op, us)
    OBVIOUS
  <1>2. /\ CommandStands(Len(w)) /\ op \in RequestType
        /\ script \in Seq(HostCall) /\ EndOf(script, w)
        /\ script # <<>> => Head(script) = w[Len(w) - Left + 1]
        /\ Performed <=> Clocked(script, bit, step)
        /\ MakeCall => /\ script' \in Seq(HostCall) /\ EndOf(script', w)
                       /\ Performed' <=> Clocked(script', bit', step')
    BY <1>1, InCommand
  <1>3. /\ w \in Seq(HostCall) /\ Len(w) = 7
        /\ w[1] = Send(<<Code(op)>>) /\ w[2] = Mode("in") /\ w[3] = Wait(T_DLY)
        /\ w[4] = Receive /\ w[5] = Mode("out") /\ w[6] = Pin("clk", 0)
        /\ w[7] = Wait(T_DLY)
    BY <1>1, <1>2, ReadCommand
  <1>4. Left \in {0, 1, 2, 3, 4, 5, 6, 7} /\ (Left # 0 => script # <<>>)
    BY <1>2, <1>3 DEF CommandStands
  <1>5. Clocks(w[4]) /\ Bits(w[4]) = 24 /\ \A j \in 5 .. 7 : ~ Clocks(w[j])
    <2>1. ~ Clocks(w[5]) /\ ~ Clocks(w[6]) /\ ~ Clocks(w[7])
      BY <1>3, ClocksAre
    <2>2. \A j \in 5 .. 7 : j = 5 \/ j = 6 \/ j = 7
      OBVIOUS
    <2> QED
      BY <1>3, <2>1, <2>2, ClocksAre
  <1>6. ASSUME NEW s \in Seq(HostCall), EndOf(s, w), NEW b, NEW i
        PROVE  Clocked(s, b, i) <=> ReadOut(Len(s), b, i)
    <2>1. /\ 4 \in 1 .. Len(w) /\ w \in Seq(HostCall) /\ Clocks(w[4])
          /\ \A j \in 4 + 1 .. Len(w) : ~ Clocks(w[j])
      BY <1>3, <1>5
    <2>2. Clocked(s, b, i) <=> \/ Len(s) <= Len(w) - 4
                               \/ /\ Len(s) = Len(w) - 4 + 1
                                  /\ i = 5 /\ b = Bits(w[4]) - 1
      BY <1>6, <2>1, ClockedAt
    <2>3. Len(w) - 4 = 3 /\ Len(w) - 4 + 1 = 4 /\ Bits(w[4]) - 1 = 23
      BY <1>3, <1>5
    <2> QED
      BY <2>2, <2>3 DEF ReadOut
  <1>7. /\ Performed <=> ReadOut(Left, bit, step)
        /\ MakeCall => (Performed' <=> ReadOut(Left', bit', step'))
    BY <1>2, <1>6 DEF Left
  <1> QED
    BY <1>2, <1>3, <1>4, <1>7

-----------------------------------------------------------------------------
(* The commands call by call.  Until its last edge a command is as it was  *)
(* asked for and moves nothing; with that edge it does all it has to do,   *)
(* and the calls behind it leave the device alone.                         *)
ArgumentLock(us) ==
    /\ got = 0
    /\ Left = 4 => Sending("code", us)
    /\ Left = 3 => Rested /\ Taken("argument", 0)
    /\ Left = 2 => Sending("argument", us)
    /\ Left = 1 => Rested /\ Reached("argument", us)
    /\ Left = 0 => Rested /\ Await

IncrementLock(us) ==
    /\ got = 0
    /\ Left = 2 => Sending("code", us)
    /\ Left = 1 => Rested /\ dev.state = "INC_PC"
    /\ Left = 0 => Rested /\ Await

ReadLock(us) ==
    /\ Left \in {5, 6, 7} => got = 0
    /\ got \in Nat /\ got < 131072
    /\ Left = 7 => Sending("code", us)
    /\ Left = 6 => Rested /\ Answering(24)
    /\ Left = 5 => /\ pins.clk = 0 /\ pins.data = "in" /\ LatchHeld /\ age.fell >= 1
                   /\ Answering(24)
    /\ Left = 4 => Reading
    /\ Left = 3 => ReadOver
    /\ Left \in {1, 2} => Rested /\ ReadDone
    /\ Left = 0 => Rested /\ Await

CommandAt(us) ==
    /\ ScriptInv /\ DevInv /\ PinInv /\ LineInv /\ stage = "command"
    /\ us \in Nat /\ us <= 11000 /\ Within(us)
    /\ Aligned /\ (~ Performed => Pending(us))

Answered ==
    op.name = "read" => got' = got /\ ReadCast(got) = WordAt(dev.pc) /\ PCSeen = dev.pc

Works ==
    /\ op' = op
    /\ Performed => Performed' /\ got' = got
    /\ Performed \/ ~ Performed' => Unmoved
    /\ ~ Performed /\ Performed' => Effect /\ Answered

LEMMA CommandSends ==
    ASSUME NEW us, CommandAt(us), script # <<>>, ~ Performed,
           Head(script) = Send(Message("code")), Sending("code", us)
    PROVE  /\ Sends("code", us)
           /\ MakeCall => /\ got' = got /\ op' = op
                          /\ step < 5 => step' = step + 1 /\ bit' = bit
                          /\ step = 5 /\ bit # 7 => step' = 1 /\ bit' = bit + 1
           /\ BitsOf("code") = 8 /\ step \in {1, 2, 3, 4, 5} /\ bit \in Nat
  <1>1. SendAt("code", us)
    BY DEF CommandAt, SendAt, ScriptInv
  <1>2. Len(<<Code(op)>>) = 1
    OBVIOUS
  <1>3. BitsOf("code") = 8
    BY <1>2 DEF BitsOf, Message
  <1> QED
    BY <1>1, <1>3, SendMoves, SendCall, SendKeepsGot

LEMMA ArgumentMoves ==
    ASSUME NEW us, CommandAt(us), HasArgument(op), script # <<>>, ArgumentLock(us)
    PROVE  Accepted /\ (MakeCall => ArgumentLock(us)' /\ Works)
  <1>1. /\ ScriptInv /\ DevInv /\ PinInv /\ LineInv /\ stage = "command"
        /\ us \in Nat /\ us <= 11000 /\ Within(us) /\ op \in Requests
    BY DEF CommandAt, ScriptInv
  <1>2. /\ CommandStands(4) /\ Left \in {0, 1, 2, 3, 4}
        /\ Left = 4 => Head(script) = Send(<<Code(op)>>)
        /\ Left = 3 => Head(script) = Wait(T_DLY)
        /\ Left = 2 => Head(script) = Send(WriteCast(Argument(op)))
        /\ Left = 1 => Head(script) = Wait(us)
        /\ Performed <=> ArgumentDone(Left, bit, step)
        /\ MakeCall => (Performed' <=> ArgumentDone(Left', bit', step'))
    BY <1>1, ArgumentStands
  <1>3. op.name \in {"load", "write", "erase"}
    BY DEF HasArgument
  <1>4. CASE Left = 4
    <2>1. ~ Performed /\ Sending("code", us) /\ Head(script) = Send(Message("code"))
      BY <1>2, <1>4 DEF ArgumentDone, ArgumentLock, Message
    <2>2. /\ Sends("code", us)
          /\ MakeCall => got' = got /\ op' = op
      BY <2>1, CommandSends
    <2>3. ~ Acts("code")
      BY <1>3 DEF Acts
    <2>4. ASSUME MakeCall
          PROVE  ArgumentLock(us)' /\ Works
      <3>1. Unmoved /\ got' = got /\ op' = op
        BY <2>2, <2>3, <2>4 DEF Sends
      <3>2. \/ Left' = 4 /\ Sending("code", us)'
            \/ Left' = 3 /\ Rested' /\ Reached("code", us)'
        BY <1>2, <1>4, <2>2, <2>4 DEF Sends, CommandStands, Left
      <3>3. Reached("code", us)' => Taken("argument", 0)'
        BY <1>3, <3>1 DEF Reached, HasArgument
      <3>4. ~ Performed'
        BY <1>2, <2>4, <3>2 DEF ArgumentDone
      <3>5. ArgumentLock(us)'
        BY <3>1, <3>2, <3>3 DEF ArgumentLock
      <3> QED
        BY <2>1, <3>1, <3>4, <3>5 DEF Works
    <2> QED
      BY <2>2, <2>4 DEF Sends
  <1>5. CASE Left = 3
    <2>1. /\ Call = Wait(4) /\ ~ Performed /\ Rested /\ Taken("argument", 0)
          /\ MakeCall => Left' = 2 /\ bit' = 0 /\ step' = 1
      BY <1>2, <1>5, ClocksAre DEF CommandStands, ArgumentDone, ArgumentLock, T_DLY
    <2>2. /\ Accepted
          /\ MakeCall => /\ Unmoved /\ dev' = dev /\ pins' = pins /\ got' = got
                         /\ op' = op /\ (LatchHeld => LatchHeld')
                         /\ age.fell >= 1 => age'.fell >= 1
      BY <1>1, <1>2, <1>5, <2>1, WaitMoves
    <2>3. ASSUME MakeCall
          PROVE  ArgumentLock(us)' /\ Works
      <3>1. Taken("argument", 0)'
        BY <2>1, <2>2, <2>3, DeviceStill
      <3>2. /\ pins'.clk = 0 /\ pins'.data = "out" /\ LatchHeld' /\ age'.fell >= 1
            /\ Left' = 2 /\ bit' = 0 /\ step' = 1
        BY <2>1, <2>2, <2>3 DEF Rested, Held
      <3>3. Sending("argument", us)'
        BY <3>1, <3>2 DEF Sending, Ready
      <3>4. ~ Performed'
        BY <1>2, <2>3, <3>2 DEF ArgumentDone
      <3>5. ArgumentLock(us)'
        BY <2>2, <2>3, <3>2, <3>3 DEF ArgumentLock
      <3> QED
        BY <2>1, <2>2, <2>3, <3>4, <3>5 DEF Works
    <2> QED
      BY <2>2, <2>3
  <1>6. CASE Left = 2
    <2>1. /\ Sending("argument", us) /\ Head(script) = Send(Message("argument"))
          /\ Performed <=> step = 5 /\ bit = 23
      BY <1>2, <1>6 DEF ArgumentDone, ArgumentLock, Message
    <2>2. SendAt("argument", us)
      BY <1>1, <2>1 DEF CommandAt, SendAt
    <2>3. BitsOf("argument") = 24
      <3>1. Argument(op) \in Nat
        BY <1>1, ArgumentBound
      <3>2. Len(WriteCast(Argument(op))) = 3
        BY <3>1, WriteCastBytes
      <3>3. Len(Message("argument")) = 3
        BY <3>2 DEF Message
      <3>4. PICK k : k = Len(Message("argument"))
        OBVIOUS
      <3>5. BitsOf("argument") = 8 * k /\ k = 3
        BY <3>3, <3>4 DEF BitsOf
      <3> QED
        BY <3>5
    <2>4. /\ Sends("argument", us) /\ Acts("argument")
          /\ step \in {1, 2, 3, 4, 5} /\ bit \in Nat
          /\ MakeCall => /\ got' = got /\ op' = op
                         /\ step < 5 => step' = step + 1 /\ bit' = bit
                         /\ step = 5 /\ bit # 23 => step' = 1 /\ bit' = bit + 1
      BY <2>2, <2>3, SendMoves, SendCall, SendKeepsGot DEF Acts
    <2>5. ASSUME MakeCall
          PROVE  ArgumentLock(us)' /\ Works
      <3>1. /\ got' = got /\ op' = op
            /\ IF step = 4 /\ bit = 23 THEN Effect ELSE Unmoved
        BY <2>3, <2>4, <2>5 DEF Sends
      <3>2. CASE step = 5 /\ bit = 23
        <4>1. Left' = 1 /\ Rested' /\ Reached("argument", us)'
          BY <1>2, <1>6, <2>3, <2>4, <2>5, <3>2 DEF Sends, CommandStands, Left
        <4>2. Performed'
          BY <1>2, <2>5, <4>1 DEF ArgumentDone
        <4> QED
          BY <2>1, <3>1, <3>2, <4>1, <4>2 DEF Works, ArgumentLock
      <3>3. CASE ~ (step = 5 /\ bit = 23)
        <4>1. Left' = 2 /\ Sending("argument", us)'
          BY <1>6, <2>3, <2>4, <2>5, <3>3 DEF Sends, Left
        <4>2. Performed' <=> step' = 5 /\ bit' = 23
          BY <1>2, <2>5, <4>1 DEF ArgumentDone
        <4>3. Performed' <=> step = 4 /\ bit = 23
          BY <2>4, <2>5, <3>3, <4>2
        <4>4. ~ Performed /\ op.name # "read"
          BY <1>3, <2>1, <3>3
        <4> QED
          BY <3>1, <4>1, <4>3, <4>4 DEF Works, Answered, ArgumentLock
      <3> QED
        BY <3>2, <3>3
    <2> QED
      BY <2>4, <2>5 DEF Sends
  <1>7. CASE Left = 1
    <2>1. /\ Call = Wait(us) /\ Performed /\ Rested /\ Reached("argument", us)
          /\ MakeCall => Left' = 0
      BY <1>2, <1>7, ClocksAre DEF CommandStands, ArgumentDone, ArgumentLock
    <2>2. /\ Accepted
          /\ MakeCall => /\ Unmoved /\ dev' = dev /\ pins' = pins /\ got' = got
                         /\ op' = op /\ (LatchHeld => LatchHeld')
                         /\ age.fell >= 1 => age'.fell >= 1
                         /\ age'.fell >= us /\ age'.fell \in Nat
      BY <1>1, <1>2, <1>7, <2>1, WaitMoves
    <2>3. ASSUME MakeCall
          PROVE  ArgumentLock(us)' /\ Works
      <3>1. Rested' /\ Left' = 0 /\ Performed'
        BY <1>2, <2>1, <2>2, <2>3 DEF Rested, Held, ArgumentDone
      <3>2. dev.state = "PROGRAMMING" /\ dev.ts <= 10 * us /\ dev.ts <= 110000
            /\ dev.ts \in Nat
        BY <1>1, <2>1 DEF Reached, DevInv, Device
      <3>3. 10 * age'.fell >= dev.ts
        <4>1. age'.fell >= us /\ age'.fell \in Nat
          BY <2>2, <2>3
        <4> QED
          BY <1>1, <3>2, <4>1
      <3>4. Await'
        BY <2>2, <2>3, <3>2, <3>3 DEF Await
      <3> QED
        BY <2>1, <2>2, <2>3, <3>1, <3>4 DEF ArgumentLock, Works
    <2> QED
      BY <2>2, <2>3
  <1> QED
    BY <1>2, <1>4, <1>5, <1>6, <1>7 DEF CommandStands

LEMMA IncrementMoves ==
    ASSUME NEW us, CommandAt(us), op.name = "increment", script # <<>>,
           IncrementLock(us)
    PROVE  Accepted /\ (MakeCall => IncrementLock(us)' /\ Works)
  <1>1. /\ ScriptInv /\ DevInv /\ PinInv /\ LineInv /\ stage = "command"
        /\ us \in Nat /\ us <= 11000 /\ Within(us) /\ op \in Requests
    BY DEF CommandAt, ScriptInv
  <1>2. /\ CommandStands(2) /\ Left \in {0, 1, 2}
        /\ Left = 2 => Head(script) = Send(<<Code(op)>>)
        /\ Left = 1 => Head(script) = Wait(T_DLY)
        /\ Performed <=> IncrementDone(Left, bit, step)
        /\ MakeCall => (Performed' <=> IncrementDone(Left', bit', step'))
    BY <1>1, IncrementStands
  <1>3. CASE Left = 2
    <2>1. /\ Sending("code", us) /\ Head(script) = Send(Message("code"))
          /\ Performed <=> step = 5 /\ bit = 7
      BY <1>2, <1>3 DEF IncrementDone, IncrementLock, Message
    <2>2. SendAt("code", us)
      BY <1>1, <2>1 DEF CommandAt, SendAt
    <2>3. BitsOf("code") = 8
      <3>1. Len(<<Code(op)>>) = 1
        OBVIOUS
      <3> QED
        BY <3>1 DEF BitsOf, Message
    <2>4. /\ Sends("code", us) /\ Acts("code")
          /\ step \in {1, 2, 3, 4, 5} /\ bit \in Nat
          /\ MakeCall => /\ got' = got /\ op' = op
                         /\ step < 5 => step' = step + 1 /\ bit' = bit
                         /\ step = 5 /\ bit # 7 => step' = 1 /\ bit' = bit + 1
      BY <2>2, <2>3, SendMoves, SendCall, SendKeepsGot DEF Acts
    <2>5. ASSUME MakeCall
          PROVE  IncrementLock(us)' /\ Works
      <3>1. /\ got' = got /\ op' = op
            /\ IF step = 4 /\ bit = 7 THEN Effect ELSE Unmoved
        BY <2>3, <2>4, <2>5 DEF Sends
      <3>2. CASE step = 5 /\ bit = 7
        <4>1. Left' = 1 /\ Rested' /\ Reached("code", us)'
          BY <1>2, <1>3, <2>3, <2>4, <2>5, <3>2 DEF Sends, CommandStands, Left
        <4>2. dev'.state = "INC_PC"
          BY <3>1, <4>1 DEF Reached
        <4>3. Performed'
          BY <1>2, <2>5, <4>1 DEF IncrementDone
        <4> QED
          BY <2>1, <3>1, <3>2, <4>1, <4>2, <4>3 DEF Works, IncrementLock
      <3>3. CASE ~ (step = 5 /\ bit = 7)
        <4>1. Left' = 2 /\ Sending("code", us)'
          BY <1>3, <2>3, <2>4, <2>5, <3>3 DEF Sends, Left
        <4>2. Performed' <=> step' = 5 /\ bit' = 7
          BY <1>2, <2>5, <4>1 DEF IncrementDone
        <4>3. Performed' <=> step = 4 /\ bit = 7
          BY <2>4, <2>5, <3>3, <4>2
        <4>4. ~ Performed
          BY <2>1, <3>3
        <4> QED
          BY <3>1, <4>1, <4>3, <4>4 DEF Works, Answered, IncrementLock
      <3> QED
        BY <3>2, <3>3
    <2> QED
      BY <2>4, <2>5 DEF Sends
  <1>4. CASE Left = 1
    <2>1. /\ Call = Wait(4) /\ Performed /\ Rested /\ dev.state = "INC_PC"
          /\ MakeCall => Left' = 0
      BY <1>2, <1>4, ClocksAre DEF CommandStands, IncrementDone, IncrementLock, T_DLY
    <2>2. /\ Accepted
          /\ MakeCall => /\ Unmoved /\ dev' = dev /\ pins' = pins /\ got' = got
                         /\ op' = op /\ (LatchHeld => LatchHeld')
                         /\ age.fell >= 1 => age'.fell >= 1
      BY <1>1, <1>2, <1>4, <2>1, WaitMoves
    <2>3. ASSUME MakeCall
          PROVE  IncrementLock(us)' /\ Works
      <3>1. Rested' /\ Left' = 0 /\ Performed'
        BY <1>2, <2>1, <2>2, <2>3 DEF Rested, Held, IncrementDone
      <3>2. Await'
        BY <2>1, <2>2, <2>3 DEF Await
      <3> QED
        BY <2>1, <2>2, <2>3, <3>1, <3>2 DEF IncrementLock, Works
    <2> QED
      BY <2>2, <2>3
  <1> QED
    BY <1>2, <1>3, <1>4 DEF CommandStands

(* The word is out with the last edge; the calls behind the loop turn DATA *)
(* around and wait.                                                        *)
ReadPlace(us) ==
    /\ CommandStands(7) /\ Left \in {0, 1, 2, 3, 4, 5, 6, 7}
    /\ Left = 7 => Head(script) = Send(<<Code(op)>>)
    /\ Left = 6 => Head(script) = Mode("in")
    /\ Left = 5 => Head(script) = Wait(T_DLY)
    /\ Left = 4 => Head(script) = Receive
    /\ Left = 3 => Head(script) = Mode("out")
    /\ Left = 2 => Head(script) = Pin("clk", 0)
    /\ Left = 1 => Head(script) = Wait(T_DLY)
    /\ Performed <=> ReadOut(Left, bit, step)
    /\ MakeCall => (Performed' <=> ReadOut(Left', bit', step'))

ReadStep(us) ==
    /\ CommandAt(us) /\ op.name = "read" /\ script # <<>>
    /\ ReadLock(us) /\ ReadPlace(us)

ReadGoes(us) == Accepted /\ (MakeCall => ReadLock(us)' /\ Works)

LEMMA ReadSends ==
    ASSUME NEW us, ReadStep(us), Left = 7
    PROVE  ReadGoes(us)
  <1>1. ~ Performed /\ Sending("code", us) /\ Head(script) = Send(Message("code"))
        /\ got = 0
    BY DEF ReadStep, ReadPlace, ReadOut, ReadLock, Message
  <1>2. /\ Sends("code", us)
        /\ MakeCall => got' = got /\ op' = op
    BY <1>1, CommandSends DEF ReadStep
  <1>3. ~ Acts("code")
    BY DEF Acts, ReadStep
  <1>4. ASSUME MakeCall
        PROVE  ReadLock(us)' /\ Works
    <2>1. Unmoved /\ got' = 0 /\ op' = op
      BY <1>1, <1>2, <1>3, <1>4 DEF Sends
    <2>2. \/ Left' = 7 /\ Sending("code", us)'
          \/ Left' = 6 /\ Rested' /\ Reached("code", us)'
      BY <1>2, <1>4 DEF Sends, ReadStep, ReadPlace, CommandStands, Left
    <2>3. Reached("code", us)' => Answering(24)'
      BY <2>1 DEF Reached, ReadStep
    <2>4. ~ Performed'
      BY <1>4, <2>2 DEF ReadStep, ReadPlace, ReadOut
    <2>5. ReadLock(us)'
      BY <2>1, <2>2, <2>3 DEF ReadLock
    <2> QED
      BY <1>1, <2>1, <2>4, <2>5 DEF Works
  <1> QED
    BY <1>2, <1>4 DEF Sends, ReadGoes

LEMMA ReadTurns ==
    ASSUME NEW us, ReadStep(us), Left \in {5, 6}
    PROVE  ReadGoes(us)
  <1>1. /\ ScriptInv /\ DevInv /\ PinInv /\ LineInv /\ script # <<>>
        /\ Answering(24) /\ LatchHeld /\ pins.clk = 0 /\ age.fell >= 1 /\ got = 0
        /\ Left = 5 => pins.data = "in"
        /\ ~ Performed
    BY DEF ReadStep, CommandAt, ReadLock, ReadPlace, ReadOut, Rested, Held
  <1>2. /\ Left = 6 => Call = Mode("in")
        /\ Left = 5 => Call = Wait(4)
        /\ MakeCall => Left' = Left - 1 /\ bit' = 0 /\ step' = 1
    BY <1>1, ClocksAre DEF ReadStep, ReadPlace, CommandStands, T_DLY
  <1>3. /\ Accepted
        /\ MakeCall => /\ Unmoved /\ dev' = dev /\ got' = got /\ op' = op
                       /\ LatchHeld => LatchHeld'
                       /\ age.fell >= 1 => age'.fell >= 1
                       /\ pins'.clk = pins.clk /\ pins'.data = "in"
    <2>1. CASE Left = 6
      BY <1>1, <1>2, <2>1, ModeMoves
    <2>2. CASE Left = 5
      BY <1>1, <1>2, <2>2, WaitMoves
    <2> QED
      BY <2>1, <2>2
  <1>4. ASSUME MakeCall
        PROVE  ReadLock(us)' /\ Works
    <2>1. /\ Answering(24)' /\ LatchHeld' /\ pins'.clk = 0 /\ pins'.data = "in"
          /\ age'.fell >= 1 /\ got' = 0 /\ bit' = 0 /\ step' = 1
      BY <1>1, <1>2, <1>3, <1>4, DeviceStill
    <2>2. dev'.data \in Nat /\ dev'.data < 65536
      <3>1. dev.data = WordAt(dev.pc) /\ HasWord /\ InOneRegion
        BY <1>1 DEF DevInv, Answering
      <3>2. dev.data \in Nat /\ dev.data < 65536
        BY <1>1, <3>1, WordBound
      <3> QED
        BY <1>3, <1>4, <3>2
    <2>3. Left' = 4 => Reading'
      <3>1. GotAfter(dev'.data, 0) = 0
        BY <2>2, GotEnds
      <3> QED
        BY <2>1, <3>1 DEF Reading
    <2>4. Left' \in {4, 5} /\ (Left' = 5 <=> Left = 6)
      BY <1>2, <1>4
    <2>5. ~ Performed'
      BY <1>4, <2>1, <2>4 DEF ReadStep, ReadPlace, ReadOut
    <2>6. ReadLock(us)'
      BY <2>1, <2>3, <2>4 DEF ReadLock
    <2> QED
      BY <1>1, <1>3, <1>4, <2>5, <2>6 DEF Works
  <1> QED
    BY <1>3, <1>4 DEF ReadGoes

LEMMA ReadReceives ==
    ASSUME NEW us, ReadStep(us), Left = 4
    PROVE  ReadGoes(us)
  <1>1. /\ ReadAt /\ CommandStands(7)
        /\ Performed <=> step = 5 /\ bit = 23
        /\ MakeCall => (Performed' <=> ReadOut(Left', bit', step'))
    BY DEF ReadStep, CommandAt, ReadLock, ReadPlace, ReadOut, ReadAt, ScriptInv
  <1>2. /\ Reads
        /\ bit \in 0 .. 23 /\ step \in {1, 2, 3, 4, 5}
        /\ step = 5 => Call = Wait(2)
        /\ MakeCall => /\ step < 5 => step' = step + 1 /\ bit' = bit
                       /\ step = 5 /\ bit # 23 => step' = 1 /\ bit' = bit + 1
    BY <1>1, ReceiveMoves, ReceiveCall
  <1>3. ASSUME MakeCall
        PROVE  ReadLock(us)' /\ Works
    <2>1. op' = op /\ (step = 5 => got' = got)
      <3>1. Wait(2).do = "delay"
        BY DEF Wait
      <3>2. step = 5 => got' = got
        BY <1>2, <1>3, <3>1, CallDoes DEF ReadStep, CommandAt
      <3> QED
        BY <1>3, <3>2 DEF MakeCall
    <2>2. CASE step = 5 /\ bit = 23
      <3>1. Unmoved /\ Left' = 3 /\ ReadOver'
        BY <1>1, <1>2, <1>3, <2>2 DEF Reads, CommandStands, ReadStep
      <3>2. Performed'
        BY <1>1, <1>3, <3>1 DEF ReadOut
      <3>3. ReadLock(us)'
        BY <3>1 DEF ReadLock, ReadOver
      <3> QED
        BY <1>1, <2>1, <2>2, <3>1, <3>2, <3>3 DEF Works
    <2>3. CASE ~ (step = 5 /\ bit = 23)
      <3>1. Left' = 4 /\ Reading'
        BY <1>2, <1>3, <2>3 DEF Reads, Left
      <3>2. Performed' <=> step' = 5 /\ bit' = 23
        BY <1>1, <1>3, <3>1 DEF ReadOut
      <3>3. Performed' <=> step = 4 /\ bit = 23
        BY <1>2, <1>3, <2>3, <3>2
      <3>4. /\ step = 4 /\ bit = 23 => Effect /\ Answered
            /\ ~ (step = 4 /\ bit = 23) => Unmoved
        BY <1>2, <1>3 DEF Reads, Answered
      <3>5. ReadLock(us)'
        BY <3>1 DEF ReadLock, Reading
      <3> QED
        BY <1>1, <2>1, <2>3, <3>3, <3>4, <3>5 DEF Works
    <2> QED
      BY <2>2, <2>3
  <1> QED
    BY <1>2, <1>3 DEF ReadGoes, Reads

LEMMA ReadRestores ==
    ASSUME NEW us, ReadStep(us), Left \in {1, 2, 3}
    PROVE  ReadGoes(us)
  <1>1. /\ ScriptInv /\ DevInv /\ PinInv /\ LineInv /\ script # <<>>
        /\ ReadDone /\ LatchHeld /\ pins.clk = 0 /\ age.fell >= 1
        /\ got \in Nat /\ got < 131072
        /\ Left \in {1, 2} => pins.data = "out"
        /\ Performed
    BY DEF ReadStep, CommandAt, ReadLock, ReadPlace, ReadOut, Rested, Held, ReadOver
  <1>2. /\ Left = 3 => Call = Mode("out")
        /\ Left = 2 => Call = Pin("clk", 0)
        /\ Left = 1 => Call = Wait(4)
        /\ MakeCall => Left' = Left - 1 /\ bit' = 0 /\ step' = 1
    BY <1>1, ClocksAre DEF ReadStep, ReadPlace, CommandStands, T_DLY
  <1>3. /\ Accepted
        /\ MakeCall => /\ Unmoved /\ dev' = dev /\ got' = got /\ op' = op
                       /\ LatchHeld => LatchHeld'
                       /\ age.fell >= 1 => age'.fell >= 1
                       /\ pins'.clk = pins.clk /\ pins'.data = "out"
                       /\ Left = 1 => age'.fell >= 4 /\ age'.fell \in Nat
    <2>1. CASE Left = 3
      BY <1>1, <1>2, <2>1, ModeMoves
    <2>2. CASE Left = 2
      BY <1>1, <1>2, <2>2, PinMoves
    <2>3. CASE Left = 1
      BY <1>1, <1>2, <2>3, WaitMoves
    <2> QED
      BY <2>1, <2>2, <2>3
  <1>4. ASSUME MakeCall
        PROVE  ReadLock(us)' /\ Works
    <2>1. /\ ReadDone' /\ LatchHeld' /\ pins'.clk = 0 /\ pins'.data = "out"
          /\ age'.fell >= 1 /\ got' \in Nat /\ got' < 131072
      BY <1>1, <1>2, <1>3, <1>4 DEF ReadDone
    <2>2. Rested'
      BY <2>1 DEF Rested, Held
    <2>3. Left' = 0 => Await'
      <3>1. Left' = 0 => age'.fell >= 4 /\ age'.fell \in Nat
        BY <1>2, <1>3, <1>4
      <3>2. dev'.state = "PROGRAMMING" /\ dev'.ts = 10
        BY <2>1 DEF ReadDone, Dly
      <3> QED
        BY <3>1, <3>2 DEF Await
    <2>4. Left' \in {0, 1, 2}
      BY <1>2, <1>4
    <2>5. Performed'
      BY <1>4, <2>4 DEF ReadStep, ReadPlace, ReadOut
    <2>6. ReadLock(us)'
      BY <2>1, <2>2, <2>3, <2>4 DEF ReadLock
    <2> QED
      BY <1>1, <1>3, <1>4, <2>5, <2>6 DEF Works
  <1> QED
    BY <1>3, <1>4 DEF ReadGoes

LEMMA ReadMoves ==
    ASSUME NEW us, CommandAt(us), op.name = "read", script # <<>>, ReadLock(us)
    PROVE  Accepted /\ (MakeCall => ReadLock(us)' /\ Works)
  <1>1. ReadPlace(us)
    BY ReadStands DEF CommandAt, ReadPlace
  <1>2. ReadStep(us)
    BY <1>1 DEF ReadStep
  <1>3. Left \in {1, 2, 3, 4, 5, 6, 7}
    BY <1>1 DEF ReadPlace, CommandStands
  <1> QED
    BY <1>2, <1>3, ReadSends, ReadTurns, ReadReceives, ReadRestores DEF ReadGoes

-----------------------------------------------------------------------------
(* The whole session in step, until an exception is thrown; and only after *)
(* an interrupt is one thrown.                                             *)
CommandLock(us) ==
    /\ us \in Nat /\ us <= 11000 /\ Within(us)
    /\ Aligned /\ (~ Performed => Pending(us))
    /\ HasArgument(op) => ArgumentLock(us)
    /\ op.name = "increment" => IncrementLock(us)
    /\ op.name = "read" => ReadLock(us)

OutLock == pins = Idle /\ LatchHeld /\ PCSeen = NoPC /\ got = 0

ReadyLock == Rested /\ Await /\ Aligned /\ got = 0

Lockstep ==
    /\ stage = "out" => OutLock
    /\ stage = "enter" => EnterLock
    /\ stage = "ready" => ReadyLock
    /\ stage = "command" => \E us : CommandLock(us)
    /\ stage = "guard" => GuardLock
    /\ stage = "header" => HeaderLock

SyncInv ==
    /\ exc \in {"none", "interrupted", "error"} /\ signalled \in BOOLEAN
    /\ exc # "none" => signalled
    /\ stage \in {"terminated", "restore"} => exc # "none"
    /\ exc # "none" => stage \in {"restore", "guard", "header", "over", "terminated"}
    /\ stage # "command" => op = NoRequest
    /\ exc = "none" => Lockstep

LEMMA CommandKinds ==
    ASSUME ScriptInv, stage = "command"
    PROVE  /\ op \in Requests /\ op \in RequestType
           /\ HasArgument(op) \/ op.name = "increment" \/ op.name = "read"
           /\ HasArgument(op) => op.name \notin {"increment", "read"}
           /\ op.name # "none"
  <1>1. op \in Requests /\ op \in RequestType
    BY Requested DEF ScriptInv
  <1> QED
    BY <1>1 DEF HasArgument, RequestType

LEMMA CommandMoves ==
    ASSUME ScriptInv, DevInv, PinInv, LineInv, stage = "command", script # <<>>,
           NEW us, CommandLock(us)
    PROVE  Accepted /\ (MakeCall => CommandLock(us)' /\ Works)
  <1>1. CommandAt(us)
    BY DEF CommandLock, CommandAt
  <1>2. /\ HasArgument(op) \/ op.name = "increment" \/ op.name = "read"
        /\ HasArgument(op) => op.name \notin {"increment", "read"}
        /\ op \in Requests
    BY CommandKinds
  <1>3. /\ HasArgument(op) => ArgumentLock(us)
        /\ op.name = "increment" => IncrementLock(us)
        /\ op.name = "read" => ReadLock(us)
    BY DEF CommandLock
  <1>4. /\ Accepted
        /\ MakeCall => /\ Works
                       /\ HasArgument(op) => ArgumentLock(us)'
                       /\ op.name = "increment" => IncrementLock(us)'
                       /\ op.name = "read" => ReadLock(us)'
    BY <1>1, <1>2, <1>3, ArgumentMoves, IncrementMoves, ReadMoves
  <1>5. ASSUME MakeCall
        PROVE  CommandLock(us)'
    <2>1. op' = op /\ (HasArgument(op)' <=> HasArgument(op))
      BY <1>4, <1>5 DEF Works, HasArgument
    <2>2. Within(us)' /\ us \in Nat /\ us <= 11000
      <3>1. Advance /\ UNCHANGED <<stage, op>>
        BY <1>5 DEF MakeCall
      <3> QED
        BY <3>1, PlaceKept DEF CommandLock
    <2>3. Aligned' /\ (~ Performed' => Pending(us)')
      <3>1. CASE Performed \/ ~ Performed'
        BY <1>1, <1>4, <1>5, <2>1, <3>1, PendingKept DEF Works, CommandAt
      <3>2. CASE ~ Performed /\ Performed'
        <4>1. Effect /\ Pending(us) /\ Aligned
          BY <1>1, <1>4, <1>5, <3>2 DEF Works, CommandAt
        <4>2. Aligned'
          BY <1>2, <4>1, EffectAligned DEF Pending
        <4> QED
          BY <3>2, <4>2
      <3> QED
        BY <3>1, <3>2
    <2> QED
      BY <1>4, <1>5, <2>1, <2>2, <2>3 DEF CommandLock
  <1> QED
    BY <1>4, <1>5

(* A call in step is taken, and leaves the two in step. *)
LEMMA LockMoves ==
    ASSUME WireInv, SyncInv, exc = "none", script # <<>>
    PROVE  Accepted /\ (MakeCall => Lockstep')
  <1>1. ScriptInv /\ DevInv /\ PinInv /\ LineInv /\ Lockstep
    BY DEF WireInv, SyncInv
  <1>2. stage \in {"enter", "command", "guard", "header"}
    <2>1. stage \in {"enter", "command", "restore", "guard", "header"}
      BY <1>1, NothingLeft
    <2> QED
      BY <2>1 DEF SyncInv
  <1>3. MakeCall => stage' = stage
    BY DEF MakeCall
  <1>4. CASE stage = "enter"
    BY <1>1, <1>3, <1>4, EnterMoves DEF Lockstep
  <1>5. CASE stage = "command"
    <2>1. PICK us : CommandLock(us)
      BY <1>1, <1>5 DEF Lockstep
    <2>2. Accepted /\ (MakeCall => CommandLock(us)')
      BY <1>1, <1>5, <2>1, CommandMoves
    <2>3. CommandLock(us)' => (\E t : CommandLock(t))'
      OBVIOUS
    <2> QED
      BY <1>3, <1>5, <2>2, <2>3 DEF Lockstep
  <1>6. CASE stage = "guard"
    BY <1>1, <1>3, <1>6, GuardMoves DEF Lockstep
  <1>7. CASE stage = "header"
    BY <1>1, <1>3, <1>7, HeaderMoves DEF Lockstep
  <1> QED
    BY <1>2, <1>4, <1>5, <1>6, <1>7

(* Where a scope begins and ends. *)
LEMMA LockStarts ==
    ASSUME Init
    PROVE  SyncInv
  <1>1. pins = Idle
    BY DEF Init, Idle
  <1>2. LatchHeld
    BY DEF Init, LatchHeld
  <1>3. PCSeen = NoPC
    BY DEF Init, PCSeen
  <1> QED
    BY <1>1, <1>2, <1>3 DEF Init, SyncInv, Lockstep, OutLock

LEMMA LockEnters ==
    ASSUME WireInv, SyncInv, Enter
    PROVE  SyncInv'
  <1>1. OutLock /\ exc = "none"
    BY DEF Enter, SyncInv, Lockstep
  <1>2. PCSeen' = PCSeen /\ (LatchHeld => LatchHeld')
    BY DEF Enter, PCSeen, DeviceRegion, LatchHeld
  <1>3. Left' = 10
    BY EnterCalls DEF Enter, Left
  <1>4. EnterLock'
    BY <1>1, <1>2, <1>3 DEF Enter, EnterLock, OutLock
  <1> QED
    BY <1>1, <1>4 DEF Enter, SyncInv, Lockstep

LEMMA LockLeaves ==
    ASSUME WireInv, SyncInv, Leave
    PROVE  SyncInv'
  <1>1. ReadyLock /\ exc = "none"
    BY DEF Leave, SyncInv, Lockstep
  <1>2. (Rested => Rested') /\ (Await => Await')
    BY DEF Leave, Rested, Held, LatchHeld, Await
  <1>3. Left' = 3
    BY ExitCalls DEF Leave, Left
  <1>4. GuardLock'
    BY <1>1, <1>2, <1>3 DEF Leave, GuardLock, ReadyLock
  <1> QED
    BY <1>1, <1>4 DEF Leave, SyncInv, Lockstep

LEMMA WaitBound ==
    ASSUME DevInv, NEW c \in RequestType, MayAsk(c)
    PROVE  WaitFor(c, WithRegion(Map, PCSeen)) <= 11000
  <1>1. CASE c.name = "write"
    <2>1. PCSeen \in Nat /\ Mapped(Map, PCSeen)
      BY <1>1, PCSeenTyped DEF MayAsk
    <2>2. \E i \in DOMAIN Map : WithRegion(Map, PCSeen) = Map[i]
      BY <2>1, RegionAt
    <2>3. WithRegion(Map, PCSeen).t_PROG_us <= 11000
      BY <2>2, WireAssumption
    <2> QED
      BY <1>1, <2>3 DEF WaitFor
  <1>2. CASE c.name # "write"
    BY <1>2 DEF WaitFor, T_DLY, T_ERAB
  <1> QED
    BY <1>1, <1>2

(* A command is asked for of a device that awaits it. *)
LEMMA CommandStarts ==
    ASSUME ScriptInv, DevInv, NEW c \in Requests, Ask(c), ReadyLock,
           NEW us, us = WaitFor(c, WithRegion(Map, PCSeen))
    PROVE  CommandLock(us)'
  <1>1. c \in RequestType /\ MayAsk(c)
    BY Requested DEF Ask
  <1>2. us \in Nat /\ ScriptInv' /\ Within(us)'
    BY AskGoes
  <1>3. us <= 11000
    BY <1>1, WaitBound
  <1>4. Unmoved /\ op' = c /\ stage' = "command"
    BY DEF Ask, Unmoved, PCSeen, DeviceRegion
  <1>5. Aligned' /\ Pending(us)'
    BY <1>1, <1>4 DEF ReadyLock, Aligned, Pending, MayAsk, Unmoved
  <1>6. script' = CommandCalls(c, us)
    BY <1>1, AskedCalls DEF Ask
  <1>7. bit' = 0 /\ step' = 1 /\ got' = 0
    <2>1. stage = "ready" /\ bit' = bit /\ step' = step /\ got' = got
      BY DEF Ask
    <2> QED
      BY <2>1, NothingLeft DEF ReadyLock
  <1>8. Rested /\ Await /\ (Rested => Rested') /\ (Await => Await')
    BY DEF Ask, ReadyLock, Rested, Held, LatchHeld, Await
  <1>9. Sending("code", us)'
    BY <1>7, <1>8 DEF Sending, Ready, Rested, Held
  <1>10. HasArgument(op)' => ArgumentLock(us)'
    <2>1. ASSUME HasArgument(c)
          PROVE  Left' = 4
      BY <1>1, <1>2, <1>6, <2>1, ArgumentCommand DEF Left
    <2>2. HasArgument(op)' => Left' = 4
      BY <1>4, <2>1 DEF HasArgument
    <2> QED
      BY <1>7, <1>9, <2>2 DEF ArgumentLock
  <1>11. op'.name = "increment" => IncrementLock(us)'
    <2>1. ASSUME c.name = "increment"
          PROVE  Left' = 2
      BY <1>1, <1>2, <1>6, <2>1, IncrementCommand DEF Left
    <2> QED
      BY <1>4, <1>7, <1>9, <2>1 DEF IncrementLock
  <1>12. op'.name = "read" => ReadLock(us)'
    <2>1. ASSUME c.name = "read"
          PROVE  Left' = 7
      BY <1>1, <1>2, <1>6, <2>1, ReadCommand DEF Left
    <2> QED
      BY <1>4, <1>7, <1>9, <2>1 DEF ReadLock
  <1> QED
    BY <1>2, <1>3, <1>5, <1>10, <1>11, <1>12 DEF CommandLock

LEMMA LockAsks ==
    ASSUME WireInv, SyncInv, NEW c \in Requests, Ask(c)
    PROVE  SyncInv'
  <1>1. ReadyLock /\ exc = "none" /\ ScriptInv /\ DevInv
    BY DEF Ask, SyncInv, Lockstep, WireInv
  <1>2. PICK us : us = WaitFor(c, WithRegion(Map, PCSeen))
    OBVIOUS
  <1>3. CommandLock(us)'
    BY <1>1, <1>2, CommandStarts
  <1>4. CommandLock(us)' => (\E t : CommandLock(t))'
    OBVIOUS
  <1> QED
    BY <1>1, <1>3, <1>4 DEF Ask, SyncInv, Lockstep

LEMMA CommandEnds ==
    ASSUME ScriptInv, stage = "command", script = <<>>, NEW us, CommandLock(us)
    PROVE  Rested /\ Await /\ Aligned
  <1>1. Left = 0
    BY EmptySeq DEF Left
  <1>2. HasArgument(op) \/ op.name = "increment" \/ op.name = "read"
    BY CommandKinds
  <1> QED
    BY <1>1, <1>2 DEF CommandLock, ArgumentLock, IncrementLock, ReadLock

LEMMA LockEnds ==
    ASSUME WireInv, SyncInv, EndStage
    PROVE  SyncInv'
  <1>1. /\ ScriptInv /\ script = <<>> /\ Left = 0
        /\ UNCHANGED <<bit, step, exc, signalled, pins, line, age, dev>>
        /\ got' = 0 /\ op' = NoRequest
        /\ exc = "none" => Lockstep
    BY EmptySeq DEF EndStage, WireInv, SyncInv, Left
  <1>2. /\ stage = "header" => stage' = "over"
        /\ stage = "guard" => stage' = "header"
        /\ stage = "restore" => stage' = "guard"
        /\ stage \in {"enter", "command"} => stage' = "ready"
        /\ stage \in {"header", "guard", "restore", "enter", "command"}
    BY <1>1, EndGoes
  <1>3. /\ PCSeen' = PCSeen /\ (LatchHeld => LatchHeld')
        /\ Rested => Rested'
        /\ Await => Await'
        /\ Aligned => Aligned'
    BY <1>1 DEF PCSeen, DeviceRegion, LatchHeld, Rested, Held, Await, Aligned
  <1>4. ASSUME exc = "none"
        PROVE  Lockstep'
    <2>1. CASE stage = "enter"
      <3>1. Rested /\ Await /\ PCSeen = NoPC
        BY <1>1, <1>4, <2>1 DEF Lockstep, EnterLock
      <3>2. Aligned
        BY <3>1 DEF Aligned
      <3> QED
        BY <1>1, <1>2, <1>3, <2>1, <3>1, <3>2 DEF Lockstep, ReadyLock
    <2>2. CASE stage = "command"
      <3>1. Rested /\ Await /\ Aligned
        BY <1>1, <1>4, <2>2, CommandEnds DEF Lockstep
      <3> QED
        BY <1>1, <1>2, <1>3, <2>2, <3>1 DEF Lockstep, ReadyLock
    <2>3. CASE stage = "guard"
      <3>1. pins = Idle /\ LatchHeld
        BY <1>1, <1>4, <2>3 DEF Lockstep, GuardLock
      <3> QED
        BY <1>1, <1>2, <1>3, <2>3, <3>1 DEF Lockstep, HeaderLock
    <2>4. CASE stage = "header"
      BY <1>2, <2>4 DEF Lockstep
    <2>5. stage # "restore"
      BY <1>4 DEF SyncInv
    <2> QED
      BY <1>2, <2>1, <2>2, <2>3, <2>4, <2>5
  <1> QED
    BY <1>1, <1>2, <1>4 DEF SyncInv

LEMMA LockRaises ==
    ASSUME WireInv, NEW e \in {"interrupted", "error"}, Raise(e), SyncInv,
           signalled', signalled' \in BOOLEAN
    PROVE  SyncInv'
  <1>1. /\ exc' = e /\ op' = NoRequest
        /\ stage' \in {"terminated", "header", "restore", "guard"}
    BY RaiseGoes DEF Raise, WireInv
  <1> QED
    BY <1>1 DEF SyncInv

LEMMA LockStill ==
    ASSUME UNCHANGED <<host, pins, line, age, dev>>, Lockstep
    PROVE  Lockstep'
  <1>1. /\ dev' = dev /\ op' = op /\ pins' = pins /\ line' = line /\ age' = age
        /\ script' = script /\ bit' = bit /\ step' = step /\ got' = got
        /\ stage' = stage
    BY DEF host
  <1>2. /\ Unmoved /\ Left' = Left
        /\ LatchHeld => LatchHeld'
        /\ Held => Held'
        /\ Rested => Rested'
        /\ Await => Await'
        /\ \A what, n : Taken(what, n) => Taken(what, n)'
        /\ \A n : Answering(n) => Answering(n)'
        /\ \A what, us : Reached(what, us) => Reached(what, us)'
    BY <1>1, DeviceStill DEF Left, LatchHeld, Held, Rested, Await
  <1>3. /\ \A what : Message(what)' = Message(what)
        /\ \A what : BitsOf(what)' = BitsOf(what)
        /\ Aligned => Aligned'
        /\ \A us : Pending(us) => Pending(us)'
        /\ \A us : Within(us) => Within(us)'
        /\ Performed' <=> Performed
    BY <1>1, <1>2, PendingKept DEF Message, BitsOf, Within, Performed
  <1>4. \A what, us : Sending(what, us) => Sending(what, us)'
    <2>1. \A what : Ready(what) => Ready(what)'
      BY <1>1, <1>2 DEF Ready
    <2> QED
      BY <1>1, <1>2, <1>3, <2>1 DEF Sending
  <1>5. (Reading => Reading') /\ (ReadOver => ReadOver') /\ (ReadDone => ReadDone')
    <2>1. ReadDone => ReadDone'
      BY <1>1 DEF ReadDone
    <2> QED
      BY <1>1, <1>2, <2>1 DEF Reading, ReadOver
  <1>6. \A us : CommandLock(us) => CommandLock(us)'
    <2>1. \A us : ArgumentLock(us) => ArgumentLock(us)'
      BY <1>1, <1>2, <1>4 DEF ArgumentLock
    <2>2. \A us : IncrementLock(us) => IncrementLock(us)'
      BY <1>1, <1>2, <1>4 DEF IncrementLock
    <2>3. \A us : ReadLock(us) => ReadLock(us)'
      BY <1>1, <1>2, <1>4, <1>5 DEF ReadLock
    <2>4. HasArgument(op)' <=> HasArgument(op)
      BY <1>1 DEF HasArgument
    <2> QED
      BY <1>1, <1>3, <2>1, <2>2, <2>3, <2>4 DEF CommandLock
  <1>7. /\ OutLock => OutLock'
        /\ ReadyLock => ReadyLock'
        /\ EnterLock => EnterLock'
        /\ GuardLock => GuardLock'
        /\ HeaderLock => HeaderLock'
    <2>1. (OutLock => OutLock') /\ (ReadyLock => ReadyLock') /\ (HeaderLock => HeaderLock')
      BY <1>1, <1>2, <1>3 DEF OutLock, ReadyLock, HeaderLock, Unmoved
    <2>2. EnterLock => EnterLock'
      BY <1>1, <1>2, <1>4 DEF EnterLock, Unmoved
    <2>3. GuardLock => GuardLock'
      BY <1>1, <1>2 DEF GuardLock, ControlAccepted, ExitHeld
    <2> QED
      BY <2>1, <2>2, <2>3
  <1>8. (\E us : CommandLock(us)) => (\E us : CommandLock(us))'
    <2>1. ASSUME NEW us, CommandLock(us)
          PROVE  (\E t : CommandLock(t))'
      <3>1. CommandLock(us)'
        BY <1>6, <2>1
      <3> QED
        BY <3>1
    <2> QED
      BY <2>1
  <1> QED
    BY <1>1, <1>7, <1>8 DEF Lockstep

LEMMA SyncStays ==
    ASSUME WireInv, SyncInv, [Next]_vars
    PROVE  SyncInv'
  <1>1. ScriptInv
    BY DEF WireInv
  <1>2. CASE MakeCall
    <2>1. UNCHANGED <<stage, op, exc, signalled>> /\ script # <<>>
      BY <1>1, <1>2, CallDoes DEF MakeCall
    <2>2. exc = "none" => Lockstep'
      BY <1>2, <2>1, LockMoves
    <2> QED
      BY <2>1, <2>2 DEF SyncInv
  <1>3. CASE DeviceThrows
    <2>1. script # <<>> /\ ~ Accepted /\ Raise("error") /\ signalled' = signalled
      BY <1>3 DEF DeviceThrows
    <2>2. signalled /\ signalled \in BOOLEAN
      BY <2>1, LockMoves DEF SyncInv
    <2>3. signalled' /\ signalled' \in BOOLEAN
      BY <2>1, <2>2
    <2> QED
      BY <2>1, <2>3, LockRaises
  <1>4. CASE Interrupt
    <2>1. Raise("interrupted") /\ signalled' = TRUE
      BY <1>4 DEF Interrupt
    <2> QED
      BY <2>1, LockRaises
  <1>5. CASE EndStage
    BY <1>5, LockEnds
  <1>6. CASE UNCHANGED vars
    <2>1. UNCHANGED <<host, pins, line, age, dev>>
      BY <1>6 DEF vars
    <2>2. Lockstep => Lockstep'
      BY <2>1, LockStill
    <2> QED
      BY <2>1, <2>2 DEF SyncInv, host
  <1> QED
    BY <1>2, <1>3, <1>4, <1>5, <1>6, LockEnters, LockAsks, LockLeaves
       DEF Next, Program

LEMMA Synchronous == Spec => [](WireInv /\ SyncInv)
  <1>1. Init => WireInv /\ SyncInv
    BY WireStarts, LockStarts
  <1>2. (WireInv /\ SyncInv) /\ [Next]_vars => (WireInv /\ SyncInv)'
    <2>1. ASSUME WireInv, SyncInv, [Next]_vars
          PROVE  WireInv' /\ SyncInv'
      BY <2>1, WireStays, SyncStays
    <2> QED
      BY <2>1
  <1> QED
    BY <1>1, <1>2, PTL DEF Spec

(* The waits between the edges are long enough for every command after     *)
(* every other, for the entry and the exit: the device throws only after   *)
(* an interrupt took a wait or the end of a command away.                  *)
THEOREM AcceptsHolds == Spec => []DeviceAccepts
  <1>1. WireInv /\ SyncInv => DeviceAccepts
    BY DEF SyncInv, DeviceAccepts
  <1> QED
    BY <1>1, Synchronous, PTL

(* Where a message leaves the device about to answer. *)
LEMMA SendAnswers ==
    ASSUME ScriptInv, PinInv, NEW what, NEW us, Sending(what, us),
           what \in {"key", "code"} \/ (what = "argument" /\ HasArgument(op)),
           what = "code" => op \in Requests, DeviceDrives
    PROVE  dev.cnt = 24 /\ pins.clk = 0
  <1>1. Into(what) # "READ_NVM"
    BY DEF Into, CodeState, HasArgument
  <1>2. \A n : ~ Taken(what, n)
    BY <1>1 DEF Taken, DeviceDrives
  <1>3. step \in {1, 2, 3, 4, 5}
    BY DEF ScriptInv
  <1>4. step \in {1, 5} /\ pins.clk # 1
    BY <1>2, <1>3 DEF Sending
  <1>5. step # 1
    BY <1>2 DEF Sending, Ready, Await, DeviceDrives
  <1>6. Reached(what, us)
    BY <1>2, <1>4, <1>5 DEF Sending
  <1>7. what = "code"
    BY <1>6 DEF Reached, DeviceDrives
  <1>8. op \in RequestType
    BY <1>7, Requested
  <1>9. HasArgument(op) \/ op.name = "increment" \/ op.name = "read"
    BY <1>8 DEF RequestType, HasArgument
  <1>11. dev.state = "INC_PC" \/ dev.cnt = 24
    <2>1. CASE HasArgument(op)
      <3>1. Into("argument") # "READ_NVM"
        BY <2>1 DEF Into, CodeState, HasArgument
      <3>2. Taken("argument", 0)
        BY <1>6, <1>7, <2>1 DEF Reached
      <3> QED
        BY <3>1, <3>2 DEF Taken, DeviceDrives
    <2>2. CASE op.name = "increment"
      BY <1>6, <1>7, <2>2 DEF Reached
    <2>3. CASE op.name = "read"
      BY <1>6, <1>7, <2>3 DEF Reached, Answering
    <2> QED
      BY <1>9, <2>1, <2>2, <2>3
  <1>12. pins.clk = 0
    BY <1>4 DEF PinInv
  <1> QED
    BY <1>11, <1>12 DEF DeviceDrives

LEMMA CommandAnswers ==
    ASSUME ScriptInv, PinInv, stage = "command", NEW us, CommandLock(us),
           HostDrives, DeviceDrives
    PROVE  dev.cnt = 24 /\ pins.clk = 0
  <1>1. us \in Nat /\ Within(us) /\ op \in Requests
    BY CommandKinds DEF CommandLock
  <1>2. Await => FALSE
    BY DEF Await, DeviceDrives
  <1>3. Sending("code", us) => dev.cnt = 24 /\ pins.clk = 0
    BY <1>1, SendAnswers
  <1>4. CASE HasArgument(op)
    <2>1. Left \in {0, 1, 2, 3, 4} /\ ArgumentLock(us)
      BY <1>1, <1>4, ArgumentStands DEF CommandLock
    <2>2. Into("argument") # "READ_NVM"
      BY <1>4 DEF Into, CodeState, HasArgument
    <2>3. ~ Taken("argument", 0) /\ ~ Reached("argument", us)
      BY <2>2 DEF Taken, Reached, DeviceDrives
    <2>4. Sending("argument", us) => dev.cnt = 24 /\ pins.clk = 0
      BY <1>4, SendAnswers
    <2> QED
      BY <1>2, <1>3, <2>1, <2>3, <2>4 DEF ArgumentLock
  <1>5. CASE op.name = "increment"
    <2>1. Left \in {0, 1, 2} /\ IncrementLock(us)
      BY <1>1, <1>5, IncrementStands DEF CommandLock
    <2> QED
      BY <1>2, <1>3, <2>1 DEF IncrementLock, DeviceDrives
  <1>6. CASE op.name = "read"
    <2>1. Left \in {0, 1, 2, 3, 4, 5, 6, 7} /\ ReadLock(us)
      BY <1>1, <1>6, ReadStands DEF CommandLock
    <2>2. pins.data = "out"
      BY DEF HostDrives
    <2>3. Left \in {0, 1, 2, 6, 7}
      BY <2>1, <2>2 DEF ReadLock, Reading, ReadOver
    <2>4. CASE Left \in {0, 1, 2}
      BY <1>2, <2>1, <2>4 DEF ReadLock, ReadDone, DeviceDrives
    <2>5. CASE Left \in {6, 7}
      BY <1>3, <2>1, <2>5 DEF ReadLock, Answering, Rested, Held
    <2> QED
      BY <2>3, <2>4, <2>5
  <1> QED
    BY <1>4, <1>5, <1>6, CommandKinds

LEMMA EnterAnswers ==
    ASSUME ScriptInv, PinInv, stage = "enter", EnterLock, DeviceDrives
    PROVE  dev.cnt = 24 /\ pins.clk = 0
  <1>1. Left \in 0 .. 10
    <2>1. PICK us \in Nat : Within(us)
      BY DEF ScriptInv
    <2>2. PICK w : w = Plan(stage, op, us)
      OBVIOUS
    <2>3. w = EnterProgramming /\ Len(w) = 10
      BY <2>2, EnterCalls DEF Plan
    <2> QED
      BY <2>1, <2>2, <2>3, Placed
  <1>2. Left \in {0, 1, 2, 3, 4, 5, 6, 7, 8, 9, 10}
    BY <1>1
  <1>3. pins = Idle => FALSE
    BY DEF PinInv, Idle, DeviceDrives
  <1>4. ~ Taken("key", 0) /\ ~ Reached("key", 0)
    BY DEF Taken, Into, Reached, DeviceDrives
  <1>5. ~ Await
    BY DEF Await, DeviceDrives
  <1>6. CASE Left = 2
    BY <1>6, SendAnswers DEF EnterLock
  <1> QED
    BY <1>2, <1>3, <1>4, <1>5, <1>6 DEF EnterLock, DeviceDrives

LEMMA GuardAnswers ==
    ASSUME ScriptInv, PinInv, stage = "guard", GuardLock, DeviceDrives
    PROVE  FALSE
  <1>1. Left \in {0, 1, 2, 3}
    <2>1. script = <<>> => Left = 0
      BY EmptySeq DEF Left
    <2> QED
      BY <2>1, GuardStands
  <1>2. pins.mclr = 1 => FALSE
    BY DEF PinInv, DeviceDrives
  <1>3. ~ Await
    BY DEF Await, DeviceDrives
  <1>4. ~ ControlAccepted("mclr", 1)
    BY DEF ControlAccepted, DeviceDrives
  <1> QED
    BY <1>1, <1>2, <1>3, <1>4 DEF GuardLock, Idle

(* The host and the device drive DATA against each other only from the end *)
(* of a read command until the host has turned DATA around, while CLK is   *)
(* low and no bit of the word has been clocked.                            *)
THEOREM TurnaroundHolds == Spec => []TurnaroundOnly
  <1>1. ASSUME WireInv, SyncInv, exc = "none", HostDrives, DeviceDrives
        PROVE  dev.cnt = 24 /\ pins.clk = 0
    <2>1. ScriptInv /\ PinInv /\ Lockstep /\ HeaderInv
      BY <1>1 DEF WireInv, SyncInv
    <2>2. pins.mclr = 0
      BY <1>1, <2>1 DEF PinInv, DeviceDrives
    <2>3. ~ Await
      BY <1>1 DEF Await, DeviceDrives
    <2>4. stage \in {"enter", "command", "guard"}
      <3>1. stage \notin {"terminated", "restore"}
        BY <1>1 DEF SyncInv
      <3>2. stage \notin {"out", "header", "over"}
        BY <2>1, <2>2 DEF Lockstep, OutLock, HeaderLock, HeaderInv, Idle
      <3>3. stage # "ready"
        BY <2>1, <2>3 DEF Lockstep, ReadyLock
      <3> QED
        BY <2>1, <3>1, <3>2, <3>3 DEF ScriptInv, Stage
    <2> QED
      BY <1>1, <2>1, <2>4, CommandAnswers, EnterAnswers, GuardAnswers DEF Lockstep
  <1>2. WireInv /\ SyncInv => TurnaroundOnly
    BY <1>1 DEF TurnaroundOnly
  <1> QED
    BY <1>2, Synchronous, PTL

-----------------------------------------------------------------------------
(* What stays within bounds, when an exception unwinds the scopes too: the *)
(* destructors only put the pins back, and a falling edge of CLK among     *)
(* them can end a read that was cut off, and nothing else.                 *)
AgeInv ==
    /\ age.rose <= Cap /\ age.fell <= Cap /\ age.changed <= Cap
    /\ age.latched <= Cap

BoundInv ==
    /\ issued \in Nat /\ issued <= MaxCommands
    /\ AgeInv
    /\ dev.pc <= 4194304
    /\ stage \in {"out", "enter", "ready", "command"} => PCSeen <= 4194304
    /\ stage # "command" => got = 0
    /\ stage = "restore" => dev.state \in {"READ_NVM", "PROGRAMMING"}

Unwinding == stage \in {"restore", "guard", "header"}

LEMMA RestoreStands ==
    ASSUME ScriptInv, stage = "restore", script # <<>>
    PROVE  Call \in {Mode("out"), Pin("clk", 0)}
  <1>1. PICK us \in Nat : Within(us)
    BY DEF ScriptInv
  <1>2. PICK w : w = Plan(stage, op, us)
    OBVIOUS
  <1>3. w = RestoreData /\ Len(w) = 2
    BY <1>2, RestoreCalls DEF Plan
  <1>4. PICK h, n : h = Head(script) /\ n = Left
    OBVIOUS
  <1>5. /\ n \in 1 .. 2 /\ h = w[2 - n + 1]
        /\ ~ Clocks(h) => Call = h
    BY <1>1, <1>2, <1>3, <1>4, Placed
  <1>6. n \in {1, 2}
    BY <1>5
  <1>7. h \in {Mode("out"), Pin("clk", 0)}
    BY <1>3, <1>5, <1>6, RestoreCalls
  <1> QED
    BY <1>5, <1>7, ClocksAre

LEMMA UnwindCalls ==
    ASSUME ScriptInv, HeaderInv, Unwinding, script # <<>>
    PROVE  /\ Call \in {Wait(1102), Pin("mclr", 1), Pin("prog_en", 0), Pin("clk", 0),
                        Mode("out")}
           /\ Call = Pin("clk", 0) => stage = "restore" \/ pins.mclr = 1
  <1>1. PICK us \in Nat : Within(us)
    BY DEF ScriptInv
  <1>2. PICK w : w = Plan(stage, op, us)
    OBVIOUS
  <1>3. PICK h, n : h = Head(script) /\ n = Left
    OBVIOUS
  <1>4. /\ n \in 1 .. Len(w) /\ h = w[Len(w) - n + 1]
        /\ ~ Clocks(h) => Call = h
    BY <1>1, <1>2, <1>3, Placed
  <1>5. CASE stage = "restore"
    BY <1>5, RestoreStands
  <1>6. CASE stage = "guard"
    <2>1. Call \in {Wait(1102), Pin("mclr", 1), Pin("prog_en", 0)}
      BY <1>6, GuardStands
    <2>2. Call # Pin("clk", 0)
      BY <2>1 DEF Wait, Pin
    <2> QED
      BY <2>1, <2>2
  <1>7. CASE stage = "header"
    <2>1. w = CleanupGpio /\ Len(w) = 4
      BY <1>2, <1>7, CleanupCalls DEF Plan
    <2>2. n \in {1, 2, 3, 4}
      BY <1>4, <2>1
    <2>3. /\ n = 4 => h = Pin("mclr", 1)
          /\ n = 3 => h = Pin("clk", 0)
          /\ n = 2 => h = Mode("out")
          /\ n = 1 => h = Pin("prog_en", 0)
      BY <1>4, <2>1, <2>2, CleanupCalls
    <2>4. Call = h
      BY <1>4, <2>2, <2>3, ClocksAre
    <2>5. Pin("mclr", 1) # Pin("clk", 0)
      BY DEF Pin
    <2>6. n <= 3 => pins.mclr = 1
      BY <1>3, <1>7 DEF HeaderInv
    <2> QED
      BY <2>2, <2>3, <2>4, <2>5, <2>6
  <1> QED
    BY <1>5, <1>6, <1>7 DEF Unwinding

LEMMA PCAfterBound ==
    ASSUME DevInv, HasWord, InOneRegion
    PROVE  \A inc : PCAfter(inc) <= 4194304
  <1>1. /\ dev.pc \in Nat /\ DeviceRegion.word_size \in {1, 2}
        /\ \E i \in DOMAIN Map : DeviceRegion = Map[i]
        /\ DeviceRegion.end \in Nat
    BY DeviceWord
  <1>2. DeviceRegion.end <= 4194304
    BY <1>1, WireAssumption
  <1>3. PICK p, w, e : p = dev.pc /\ w = DeviceRegion.word_size /\ e = DeviceRegion.end
    OBVIOUS
  <1>4. p + w <= e
    BY <1>3 DEF InOneRegion
  <1>5. p <= 4194304 /\ p + w <= 4194304
    BY <1>1, <1>2, <1>3, <1>4
  <1> QED
    BY <1>3, <1>5 DEF PCAfter

(* A clock edge of an unwinding scope. *)
LEMMA UnwindFalls ==
    ASSUME DevInv, ClkFalls, dev.state = "READ_NVM"
    PROVE  /\ dev'.mem = dev.mem
           /\ dev'.pc = dev.pc \/ dev'.pc <= 4194304
           /\ dev'.state \in {"READ_NVM", "PROGRAMMING"}
  <1>1. CASE dev.cnt > 0
    BY <1>1 DEF ClkFalls
  <1>2. CASE ~ (dev.cnt > 0)
    <2>1. HasWord /\ InOneRegion
      BY DEF DevInv
    <2>2. PICK p : p = PCAfter(dev.inc)
      OBVIOUS
    <2>3. p \in Nat /\ p <= 4194304
      BY <2>1, <2>2, WordTyped, PCAfterBound
    <2>4. PICK d : d = [dev EXCEPT !.pc = p]
      OBVIOUS
    <2>5. d \in Device /\ d.pc = p /\ d.mem = dev.mem
      BY <2>3, <2>4 DEF DevInv, Device
    <2>6. dev' = ToProgramming(d, Dly)
      BY <1>2, <2>2, <2>4 DEF ClkFalls
    <2>7. Dly \in Nat
      BY DEF Dly
    <2> QED
      BY <2>3, <2>5, <2>6, <2>7, BackToProgramming
  <1> QED
    BY <1>1, <1>2

LEMMA UnwindMoves ==
    ASSUME ScriptInv, DevInv, PinInv, LineInv, HeaderInv, Unwinding, MakeCall,
           stage = "restore" => dev.state \in {"READ_NVM", "PROGRAMMING"}
    PROVE  /\ got' = got /\ dev'.mem = dev.mem
           /\ dev'.pc = dev.pc \/ dev'.pc <= 4194304
           /\ stage = "restore" => dev'.state \in {"READ_NVM", "PROGRAMMING"}
  <1>1. script # <<>>
    BY CallDoes
  <1>2. /\ Call \in {Wait(1102), Pin("mclr", 1), Pin("prog_en", 0), Pin("clk", 0),
                     Mode("out")}
        /\ Call = Pin("clk", 0) => stage = "restore" \/ pins.mclr = 1
    BY <1>1, UnwindCalls
  <1>3. CASE Call = Wait(1102)
    <2>1. Call.do = "delay"
      BY <1>3 DEF Wait
    <2> QED
      BY <2>1, CallDoes DEF Delay
  <1>4. CASE Call = Mode("out")
    <2>1. Call.do = "mode"
      BY <1>4 DEF Mode
    <2> QED
      BY <2>1, CallDoes DEF DataMode
  <1>5. CASE Call \in {Pin("mclr", 1), Pin("prog_en", 0)}
    <2>1. Call.do \in {"mclr", "prog_en"}
      BY <1>5 DEF Pin
    <2>2. got' = got /\ (dev' = dev \/ Control(Call.do))
      BY <2>1, CallDoes
    <2>3. ASSUME Control(Call.do)
          PROVE  /\ dev'.mem = dev.mem /\ dev'.pc = dev.pc
                 /\ dev.state \notin {"READ_NVM"} /\ stage # "restore"
      <3>1. dev \in Device
        BY DEF DevInv
      <3>2. dev' \in {To(dev, "MCLR"), To(dev, "IDLE"), To(dev, "PROG_EN")}
        BY <2>3 DEF Control, Controlled
      <3>3. dev'.mem = dev.mem /\ dev'.pc = dev.pc
        <4>1. ASSUME NEW st \in {"MCLR", "IDLE", "PROG_EN"}
              PROVE  To(dev, st).mem = dev.mem /\ To(dev, st).pc = dev.pc
          <5>1. st \in DeviceState
            BY DEF DeviceState
          <5> QED
            BY <3>1, <5>1, BackTo
        <4> QED
          BY <3>2, <4>1
      <3>4. dev.state # "READ_NVM"
        <4>1. /\ ControlAccepted(Call.do, Call.level)
              /\ \/ Call.do = "mclr" /\ Call.level = 1
                 \/ Call.do = "prog_en" /\ Call.level = 0
          BY <1>5, <2>3 DEF Control, Pin
        <4>2. ControlAccepted("mclr", 1) => dev.state # "READ_NVM"
          BY DEF ControlAccepted
        <4>3. ControlAccepted("prog_en", 0) => dev.state # "READ_NVM"
          BY DEF ControlAccepted
        <4> QED
          BY <4>1, <4>2, <4>3
      <3>5. stage # "restore"
        <4>1. CASE stage = "restore"
          <5>1. Call \in {Mode("out"), Pin("clk", 0)}
            BY <1>1, <4>1, RestoreStands
          <5> QED
            BY <1>5, <5>1 DEF Mode, Pin
        <4> QED
          BY <4>1
      <3> QED
        BY <3>3, <3>4, <3>5
    <2> QED
      BY <2>2, <2>3
  <1>6. CASE Call = Pin("clk", 0)
    <2>1. Call.do = "clk" /\ Call.level = 0
      BY <1>6 DEF Pin
    <2>2. got' = got /\ (dev' = dev \/ ClkFalls)
      BY <2>1, CallDoes
    <2>3. ASSUME ClkFalls
          PROVE  dev.state = "READ_NVM"
      <3>1. dev.state \in Receiving \cup {"READ_NVM"}
        BY <2>3, ReceivesAre DEF ClkFalls, FallAccepted
      <3>2. pins.mclr # 1
        BY <3>1 DEF PinInv, Receiving
      <3>3. stage = "restore"
        BY <1>2, <1>6, <3>2
      <3> QED
        BY <3>1, <3>3 DEF Receiving
    <2> QED
      BY <2>2, <2>3, UnwindFalls
  <1> QED
    BY <1>2, <1>3, <1>4, <1>5, <1>6

LEMMA AgeKept ==
    ASSUME ScriptInv, LineInv, AgeInv, MakeCall
    PROVE  AgeInv'
  <1>1. age \in [rose : Nat, fell : Nat, changed : Nat, latched : Nat \cup {Never}]
    BY DEF LineInv
  <1>2. 0 <= Cap /\ Never <= Cap
    BY DEF Cap, Never
  <1>3. CASE UNCHANGED age
    BY <1>3 DEF AgeInv
  <1>4. CASE ClkRises
    <2>1. age' \in {[age EXCEPT !.rose = 0, !.changed = 0], [age EXCEPT !.rose = 0]}
      BY <1>4 DEF ClkRises
    <2> QED
      BY <1>1, <1>2, <2>1 DEF AgeInv
  <1>5. CASE ClkFalls
    <2>1. age' \in {[age EXCEPT !.fell = 0], [age EXCEPT !.fell = 0, !.latched = 0]}
      BY <1>5 DEF ClkFalls
    <2> QED
      BY <1>1, <1>2, <2>1 DEF AgeInv
  <1>6. CASE DataWritten \/ DataMode
    <2>1. age' \in {age, [age EXCEPT !.changed = 0],
                    [age EXCEPT !.changed = 0, !.latched = Never]}
      BY <1>6 DEF DataWritten, DataMode
    <2> QED
      BY <1>1, <1>2, <2>1 DEF AgeInv
  <1>7. CASE Delay
    <2>1. Call.us \in Nat
      BY <1>7, CallKinds DEF Delay, AtCall
    <2>2. PICK us \in Nat : us = Call.us
      BY <2>1
    <2>3. \A x \in {"rose", "fell", "changed", "latched"} : age'[x] = Elapsed(age[x], us)
      BY <1>1, <1>7, <2>2 DEF Delay
    <2>4. \A t \in Nat \cup {Never} : Elapsed(t, us) <= Cap
      BY DEF Elapsed, Cap, Never
    <2>5. \A x \in {"rose", "fell", "changed", "latched"} : age'[x] <= Cap
      BY <1>1, <2>3, <2>4
    <2> QED
      BY <2>5 DEF AgeInv
  <1>8. \/ UNCHANGED age \/ ClkRises \/ ClkFalls \/ DataWritten \/ DataMode \/ Delay
    BY DEF MakeCall, NoEdge, Control, DataRead
  <1> QED
    BY <1>3, <1>4, <1>5, <1>6, <1>7, <1>8

(* The address that is counted on stays in the 22 bits of the counter. *)
LEMMA EffectBound ==
    ASSUME DevInv, Aligned, op \in Requests, MayAsk(op), Effect, PCSeen <= 4194304
    PROVE  PCSeen' <= 4194304
  <1>1. PICK p, q : p = PCSeen' /\ q = PCSeen
    OBVIOUS
  <1>2. op \in RequestType
    BY Requested
  <1>3. CASE op.name = "load"
    <2>1. Argument(op) < 4194304 /\ Argument(op) = op.arg /\ op.arg \in Nat
      BY <1>2, <1>3, ArgumentBound DEF HasArgument, Argument, RequestType
    <2> QED
      BY <1>1, <1>3, <2>1 DEF Effect
  <1>4. CASE op.name = "erase"
    BY <1>4 DEF Effect
  <1>5. CASE op.name \in {"increment", "read", "write"}
    <2>1. q \in Nat /\ Addressable(Map, q)
      BY <1>1, <1>5, PCSeenTyped DEF MayAsk, Aligned
    <2>2. PICK r : r = WithRegion(Map, q)
      OBVIOUS
    <2>3. /\ q + r.word_size <= r.end /\ r.end <= 4194304
          /\ r.end \in Nat /\ q + r.word_size \in Nat
      BY <2>1, <2>2, WordInside DEF Region
    <2>4. p \in {q, q + r.word_size}
      BY <1>1, <1>5, <2>2 DEF Effect, PCNext, SeenRegion
    <2>5. q + r.word_size <= 4194304
      BY <2>3
    <2> QED
      BY <1>1, <2>4, <2>5
  <1> QED
    BY <1>2, <1>3, <1>4, <1>5 DEF RequestType

LEMMA PCBehind ==
    ASSUME DevInv, PCSeen <= 4194304
    PROVE  dev.pc <= 4194304
  <1>1. CASE dev.state = "INC_PC"
    <2>1. dev.pc \in Nat /\ DeviceRegion.word_size \in {1, 2}
      BY <1>1, DeviceWord DEF DevInv
    <2>2. PCSeen = dev.pc + DeviceRegion.word_size
      BY <1>1 DEF PCSeen
    <2> QED
      BY <2>1, <2>2
  <1>2. CASE dev.state # "INC_PC"
    BY <1>2 DEF PCSeen
  <1> QED
    BY <1>1, <1>2

(* Only a read has DATA turned around. *)
LEMMA TurnedAround ==
    ASSUME ScriptInv, stage = "command", NEW us, CommandLock(us), pins.data = "in"
    PROVE  dev.state \in {"READ_NVM", "PROGRAMMING"}
  <1>1. us \in Nat /\ Within(us)
    BY DEF CommandLock
  <1>2. ~ Rested /\ \A what : ~ Sending(what, us)
    BY DEF Rested, Held, Sending
  <1>3. CASE HasArgument(op)
    <2>1. Left \in {0, 1, 2, 3, 4} /\ ArgumentLock(us)
      BY <1>1, <1>3, ArgumentStands DEF CommandLock
    <2> QED
      BY <1>2, <2>1 DEF ArgumentLock
  <1>4. CASE op.name = "increment"
    <2>1. Left \in {0, 1, 2} /\ IncrementLock(us)
      BY <1>1, <1>4, IncrementStands DEF CommandLock
    <2> QED
      BY <1>2, <2>1 DEF IncrementLock
  <1>5. CASE op.name = "read"
    <2>1. Left \in {0, 1, 2, 3, 4, 5, 6, 7} /\ ReadLock(us)
      BY <1>1, <1>5, ReadStands DEF CommandLock
    <2>2. Left \in {3, 4, 5}
      BY <1>2, <2>1 DEF ReadLock
    <2>3. step \in {1, 2, 3, 4, 5}
      BY DEF ScriptInv
    <2>4. Reading => dev.state \in {"READ_NVM", "PROGRAMMING"}
      BY <2>3 DEF Reading, Answering, ReadDone
    <2> QED
      BY <2>1, <2>2, <2>4 DEF ReadLock, Answering, ReadOver, ReadDone
  <1> QED
    BY <1>3, <1>4, <1>5, CommandKinds

LEMMA BoundStarts ==
    ASSUME Init
    PROVE  BoundInv
  <1>1. dev.pc = NoPC /\ PCSeen = NoPC /\ NoPC <= 4194304
    BY DEF Init, PCSeen, NoPC
  <1>2. AgeInv
    BY DEF Init, AgeInv, Cap, Never
  <1>3. 0 <= MaxCommands
    BY WireAssumption
  <1> QED
    BY <1>1, <1>2, <1>3 DEF Init, BoundInv

LEMMA CallBounds ==
    ASSUME WireInv, SyncInv, BoundInv, MakeCall, WireInv', SyncInv'
    PROVE  BoundInv'
  <1>1. /\ ScriptInv /\ DevInv /\ PinInv /\ LineInv /\ HeaderInv /\ DevInv'
        /\ exc = "none" => Lockstep
    BY DEF WireInv, SyncInv
  <1>2. /\ script # <<>> /\ stage' = stage /\ issued' = issued /\ exc' = exc /\ op' = op
    BY <1>1, CallDoes DEF MakeCall
  <1>3. AgeInv'
    BY <1>1, AgeKept DEF BoundInv
  <1>4. CASE Unwinding
    <2>1. /\ got' = got
          /\ dev'.pc = dev.pc \/ dev'.pc <= 4194304
          /\ stage = "restore" => dev'.state \in {"READ_NVM", "PROGRAMMING"}
      BY <1>1, <1>4, UnwindMoves DEF BoundInv
    <2> QED
      BY <1>2, <1>3, <1>4, <2>1 DEF BoundInv, Unwinding
  <1>5. CASE ~ Unwinding
    <2>1. stage \in {"enter", "command"} /\ exc = "none"
      <3>1. stage \in {"enter", "command", "restore", "guard", "header"}
        BY <1>1, <1>2, NothingLeft
      <3> QED
        BY <1>5, <3>1 DEF Unwinding, SyncInv
    <2>2. PCSeen' <= 4194304
      <3>1. CASE stage = "enter"
        <4>1. EnterLock /\ Unmoved
          BY <1>1, <1>2, <2>1, <3>1, EnterMoves DEF Lockstep
        <4> QED
          BY <3>1, <4>1 DEF BoundInv, Unmoved
      <3>2. CASE stage = "command"
        <4>1. PICK us : CommandLock(us)
          BY <1>1, <2>1, <3>2 DEF Lockstep
        <4>2. Works /\ Aligned /\ (~ Performed => Pending(us))
          BY <1>1, <1>2, <3>2, <4>1, CommandMoves DEF CommandLock
        <4>3. PCSeen <= 4194304 /\ op \in Requests
          BY <1>1, <3>2, CommandKinds DEF BoundInv
        <4>4. CASE Performed \/ ~ Performed'
          BY <4>2, <4>3, <4>4 DEF Works, Unmoved
        <4>5. CASE ~ Performed /\ Performed'
          <5>1. Effect /\ MayAsk(op)
            BY <4>2, <4>5 DEF Works, Pending
          <5> QED
            BY <1>1, <4>2, <4>3, <5>1, EffectBound
        <4> QED
          BY <4>4, <4>5
      <3> QED
        BY <2>1, <3>1, <3>2
    <2>3. dev'.pc <= 4194304
      <3>1. PCSeen' <= 4194304 => dev'.pc <= 4194304
        <4>1. CASE dev'.state = "INC_PC"
          <5>1. HasWord'
            BY <1>1, <4>1 DEF DevInv
          <5>2. PCSeen' = dev'.pc + WithRegion(Map, dev'.pc).word_size
            BY <4>1 DEF PCSeen, DeviceRegion
          <5>3. dev'.pc \in Nat /\ WithRegion(Map, dev'.pc).word_size \in {1, 2}
            <6>1. dev'.pc \in Nat /\ Mapped(Map, dev'.pc)
              BY <1>1, <5>1 DEF HasWord, DevInv, Device
            <6>2. WithRegion(Map, dev'.pc) \in Region
              BY <6>1, RegionAt
            <6> QED
              BY <6>1, <6>2 DEF Region
          <5> QED
            BY <5>2, <5>3
        <4>2. CASE dev'.state # "INC_PC"
          BY <4>2 DEF PCSeen
        <4> QED
          BY <4>1, <4>2
      <3> QED
        BY <2>2, <3>1
    <2>4. stage = "enter" => got' = 0
      <3>1. Lockstep'
        BY <1>2, <2>1 DEF SyncInv
      <3> QED
        BY <1>2, <3>1 DEF Lockstep, EnterLock
    <2> QED
      BY <1>2, <1>3, <2>1, <2>2, <2>3, <2>4 DEF BoundInv
  <1> QED
    BY <1>4, <1>5

LEMMA RaiseBounds ==
    ASSUME WireInv, SyncInv, BoundInv, NEW e, Raise(e)
    PROVE  BoundInv'
  <1>1. /\ ScriptInv /\ UNCHANGED <<issued, pins, line, age, dev>> /\ got' = 0
        /\ stage' \in {"terminated", "header", "restore", "guard"}
    BY RaiseGoes DEF Raise, WireInv
  <1>2. ASSUME stage' = "restore"
        PROVE  dev.state \in {"READ_NVM", "PROGRAMMING"}
    <2>1. stage = "command" /\ pins.data = "in"
      BY <1>2 DEF Raise, Unwind
    <2>2. PICK us : CommandLock(us)
      BY <2>1 DEF SyncInv, Lockstep
    <2> QED
      BY <1>1, <2>1, <2>2, TurnedAround
  <1>3. AgeInv'
    BY <1>1 DEF AgeInv, BoundInv
  <1> QED
    BY <1>1, <1>2, <1>3 DEF BoundInv

LEMMA BoundStays ==
    ASSUME WireInv, SyncInv, BoundInv, [Next]_vars, WireInv', SyncInv'
    PROVE  BoundInv'
  <1>1. ASSUME UNCHANGED <<pins, line, age, dev>>
        PROVE  AgeInv' /\ PCSeen' = PCSeen
    BY <1>1 DEF AgeInv, BoundInv, PCSeen, DeviceRegion
  <1>2. CASE Enter
    <2>1. UNCHANGED <<pins, line, age, dev, issued, got>>
          /\ stage = "out" /\ stage' = "enter"
      BY <1>2 DEF Enter
    <2> QED
      BY <1>1, <2>1 DEF BoundInv
  <1>3. ASSUME NEW c \in Requests, Ask(c)
        PROVE  BoundInv'
    <2>1. /\ UNCHANGED <<pins, line, age, dev, got>> /\ stage = "ready"
          /\ stage' = "command" /\ issued' = issued + 1 /\ issued < MaxCommands
      BY <1>3 DEF Ask
    <2>2. issued' \in Nat /\ issued' <= MaxCommands
      BY <2>1, WireAssumption DEF BoundInv
    <2> QED
      BY <1>1, <2>1, <2>2 DEF BoundInv
  <1>4. CASE Leave
    <2>1. UNCHANGED <<pins, line, age, dev, issued, got>>
          /\ stage = "ready" /\ stage' = "guard"
      BY <1>4 DEF Leave
    <2> QED
      BY <1>1, <2>1 DEF BoundInv
  <1>5. CASE MakeCall
    BY <1>5, CallBounds
  <1>6. CASE DeviceThrows
    BY <1>6, RaiseBounds DEF DeviceThrows
  <1>7. CASE Interrupt
    BY <1>7, RaiseBounds DEF Interrupt
  <1>8. CASE EndStage
    <2>1. UNCHANGED <<pins, line, age, dev, issued>> /\ got' = 0
      BY <1>8 DEF EndStage
    <2>2. /\ stage' # "restore"
          /\ stage' \in {"out", "enter", "ready", "command"}
                => stage \in {"out", "enter", "ready", "command"}
      BY <1>8 DEF EndStage, AfterStage
    <2> QED
      BY <1>1, <2>1, <2>2 DEF BoundInv
  <1>9. CASE UNCHANGED vars
    <2>1. UNCHANGED <<pins, line, age, dev, issued, got, stage>>
      BY <1>9 DEF vars, host
    <2> QED
      BY <1>1, <2>1 DEF BoundInv
  <1> QED
    BY <1>2, <1>3, <1>4, <1>5, <1>6, <1>7, <1>8, <1>9 DEF Next, Program

AllInv == WireInv /\ SyncInv /\ BoundInv

LEMMA AllStays ==
    ASSUME AllInv, [Next]_vars
    PROVE  AllInv'
  <1>1. WireInv' /\ SyncInv'
    BY WireStays, SyncStays DEF AllInv
  <1>2. BoundInv'
    BY <1>1, BoundStays DEF AllInv
  <1> QED
    BY <1>1, <1>2 DEF AllInv

LEMMA AllHolds == Spec => []AllInv
  <1>1. Init => AllInv
    BY WireStarts, LockStarts, BoundStarts DEF AllInv
  <1>2. AllInv /\ [Next]_vars => AllInv'
    BY AllStays
  <1> QED
    BY <1>1, <1>2, PTL DEF Spec

(* Every variable keeps its type and its bounds: the bits of a word that   *)
(* is read, the ages of the edges and the device's counters.               *)
THEOREM TypeHolds == Spec => []TypeOK
  <1>1. ASSUME AllInv
        PROVE  TypeOK
    <2>1. /\ ScriptInv /\ DevInv /\ PinInv /\ LineInv /\ SyncInv /\ BoundInv
      BY <1>1 DEF AllInv, WireInv
    <2>2. bit \in 0 .. 31
      <3>1. bit \in Nat /\ LoopAt(script, bit, step) /\ script \in Seq(HostCall)
        BY <2>1 DEF ScriptInv
      <3>2. Looping(script) => Bits(Head(script)) \in {8, 24, 32}
        BY <3>1, LoopStarts
      <3>3. bit = 0 \/ (bit < Bits(Head(script)) /\ Bits(Head(script)) \in {8, 24, 32})
        BY <3>1, <3>2 DEF LoopAt
      <3>4. PICK n : n = Bits(Head(script))
        OBVIOUS
      <3> QED
        BY <3>1, <3>3, <3>4
    <2>3. got \in Nat /\ got < 16777216
      <3>1. CASE stage # "command"
        BY <2>1, <3>1 DEF BoundInv
      <3>2. CASE stage = "command"
        <4>1. PICK us : CommandLock(us)
          BY <2>1, <3>2 DEF SyncInv, Lockstep
        <4>2. got \in Nat /\ got < 131072
          BY <2>1, <3>2, <4>1, CommandKinds
             DEF CommandLock, ArgumentLock, IncrementLock, ReadLock
        <4> QED
          BY <4>2
      <3> QED
        BY <3>1, <3>2
    <2>4. /\ stage \in Stage /\ step \in 1 .. 5 /\ op \in Requests \cup {NoRequest}
          /\ exc \in {"none", "interrupted", "error"} /\ signalled \in BOOLEAN
          /\ pins \in [mclr : {0, 1}, prog_en : {0, 1}, clk : {0, 1},
                       data : {"in", "out"}]
          /\ line \in {0, 1, NoLevel}
      BY <2>1 DEF ScriptInv, SyncInv, PinInv, LineInv
    <2>5. issued \in 0 .. MaxCommands
      BY <2>1, WireAssumption DEF BoundInv
    <2>6. age \in [rose : 0 .. Cap, fell : 0 .. Cap, changed : 0 .. Cap,
                   latched : Never .. Cap]
      <3>1. /\ age \in [rose : Nat, fell : Nat, changed : Nat,
                        latched : Nat \cup {Never}]
            /\ age.rose <= Cap /\ age.fell <= Cap /\ age.changed <= Cap
            /\ age.latched <= Cap
        BY <2>1 DEF LineInv, BoundInv, AgeInv
      <3>2. Cap \in Nat /\ Never \in Int /\ \A x \in Nat : Never <= x
        BY DEF Cap, Never
      <3>3. /\ age.rose \in 0 .. Cap /\ age.fell \in 0 .. Cap
            /\ age.changed \in 0 .. Cap /\ age.latched \in Never .. Cap
        BY <3>1, <3>2
      <3> QED
        BY <3>1, <3>3
    <2>7. dev.cnt \in 0 .. 31
      <3>1. dev \in Device
        BY <2>1 DEF DevInv
      <3>2. dev.cnt \in Nat /\ dev.state \in DeviceState
        BY <3>1 DEF Device
      <3>3. CASE dev.state \in Receiving
        <4>1. dev.cnt < Receives[dev.state] /\ Receives[dev.state] \in {8, 24, 32}
          BY <2>1, <3>3, ReceivesAre DEF DevInv
        <4>2. PICK n : n = Receives[dev.state]
          OBVIOUS
        <4> QED
          BY <3>2, <4>1, <4>2
      <3>4. CASE dev.state = "READ_NVM"
        BY <2>1, <3>2, <3>4 DEF DevInv
      <3>5. CASE dev.state \notin Receiving \cup {"READ_NVM"}
        BY <2>1, <3>5 DEF DevInv
      <3> QED
        BY <3>3, <3>4, <3>5
    <2>8. dev.pc \in NoPC .. 4194304
      <3>1. dev.pc \in Nat \cup {NoPC} /\ dev.pc <= 4194304
        BY <2>1 DEF DevInv, Device, BoundInv
      <3>2. NoPC \in Int /\ NoPC <= 4194304 /\ \A x \in Nat : NoPC <= x
        BY DEF NoPC
      <3> QED
        BY <3>1, <3>2
    <2>9. dev.mem \in [MapAddrs(Map) -> 0 .. 255]
      BY <2>1 DEF DevInv, Device
    <2>10. /\ stage \in {"out", "enter", "ready", "command", "restore", "guard",
                           "header", "over", "terminated"}
           /\ bit \in 0 .. 31 /\ step \in 1 .. 5 /\ got \in Nat /\ got < 16777216
      BY <2>2, <2>3, <2>4 DEF Stage
    <2>11. issued \in 0 .. MaxCommands /\ dev.cnt \in 0 .. 31
           /\ dev.pc \in NoPC .. 4194304
      BY <2>5, <2>7, <2>8
    <2>12. TypeOK <=> age \in [rose : 0 .. Cap, fell : 0 .. Cap, changed : 0 .. Cap,
                               latched : Never .. Cap]
      BY <2>4, <2>9, <2>10, <2>11 DEF TypeOK
    <2> QED
      BY <2>6, <2>12
  <1>2. AllInv => TypeOK
    BY <1>1
  <1> QED
    BY <1>2, AllHolds, PTL

-----------------------------------------------------------------------------
(* The session on the wire performs the commands of Commands. *)
LEMMA SameRegions ==
    /\ \A m, a : AsCommands!WithRegion(m, a) = WithRegion(m, a)
    /\ \A m, a : AsCommands!Mapped(m, a) <=> Mapped(m, a)
    /\ \A m, mask : AsCommands!MaskAddrs(m, mask) = MaskAddrs(m, mask)
    /\ AsCommands!RegionNames = RegionNames
  <1>1. \A m, a : AsCommands!WithRegion(m, a) = WithRegion(m, a)
    BY DEF AsCommands!WithRegion, WithRegion, AsCommands!FirstMatch, FirstMatch,
           AsCommands!InRegion, InRegion
  <1>2. \A m, a : AsCommands!Mapped(m, a) <=> Mapped(m, a)
    BY DEF AsCommands!Mapped, Mapped, AsCommands!InRegion, InRegion
  <1>3. \A m, mask : AsCommands!MaskAddrs(m, mask) = MaskAddrs(m, mask)
    BY DEF AsCommands!MaskAddrs, MaskAddrs, AsCommands!Addrs, Addrs
  <1>4. AsCommands!RegionNames = RegionNames
    BY DEF AsCommands!RegionNames, RegionNames
  <1> QED
    BY <1>1, <1>2, <1>3, <1>4

Seen == <<IF InMode THEN "on" ELSE "off", op, Performed, dev.mem,
          IF InMode THEN PCSeen ELSE NoPC,
          IF Performed /\ op.name = "read" THEN ReadCast(got) ELSE 0>>

LEMMA PerformedTyped ==
    /\ Performed \in BOOLEAN /\ Performed' \in BOOLEAN
    /\ InMode \in BOOLEAN /\ InMode' \in BOOLEAN
    /\ op = NoRequest => Performed = FALSE
    /\ op' = NoRequest => Performed' = FALSE
  BY DEF Performed, InMode

LEMMA SameRequests ==
    /\ AsCommands!NoRequest = NoRequest /\ AsCommands!NoPC = NoPC
    /\ AsCommands!RequestType = RequestType
    /\ AsCommands!Erasable = {"EEPROM", "PROGRAM", "USER", "CONFIG"}
  <1>1. AsCommands!NoRequest = NoRequest /\ AsCommands!NoPC = NoPC
    BY DEF AsCommands!NoRequest, NoRequest, AsCommands!Request, Request,
           AsCommands!NoPC, NoPC
  <1>2. AsCommands!RequestType = RequestType
    BY SameRegions DEF AsCommands!RequestType, RequestType
  <1>3. AsCommands!Erasable = {"EEPROM", "PROGRAM", "USER", "CONFIG"}
    BY DEF AsCommands!Erasable
  <1> QED
    BY <1>1, <1>2, <1>3

LEMMA CommandsStart ==
    ASSUME Init
    PROVE  AsCommands!Init
  <1>1. /\ ~ InMode /\ op = NoRequest /\ dev.mem \in Memories
    BY DEF Init, InMode
  <1>2. Performed = FALSE
    BY <1>1, PerformedTyped
  <1> QED
    BY <1>1, <1>2, SameRequests DEF AsCommands!Init

LEMMA IssueSeen ==
    ASSUME AllInv, NEW c \in Requests, Ask(c)
    PROVE  AsCommands!Issue
  <1>1. /\ ScriptInv /\ DevInv /\ stage = "ready" /\ stage' = "command"
        /\ op = NoRequest /\ op' = c /\ dev' = dev /\ MayAsk(c)
        /\ script' = Asked(c) /\ step' = step
    BY DEF AllInv, WireInv, SyncInv, Ask
  <1>2. InMode = TRUE /\ InMode' = TRUE /\ PCSeen' = PCSeen
    BY <1>1 DEF InMode, PCSeen, DeviceRegion
  <1>3. c \in RequestType /\ c.name # "none" /\ c # NoRequest
    <2>1. c \in RequestType
      BY Requested
    <2>2. NoRequest.name = "none"
      BY DEF NoRequest, Request
    <2> QED
      BY <2>1, <2>2 DEF RequestType
  <1>4. Performed = FALSE /\ Performed' = FALSE
    <2>1. PICK us : us = WaitFor(c, WithRegion(Map, PCSeen))
      OBVIOUS
    <2>2. us \in Nat
      BY <1>1, <2>1, AskGoes
    <2>3. script' = CommandCalls(c, us)
      BY <1>1, <1>3, <2>1, AskedCalls
    <2>4. script'[1] = Send(<<Code(c)>>) /\ 1 \in DOMAIN script'
      <3>1. PICK w : w = CommandCalls(c, us)
        OBVIOUS
      <3>2. w \in Seq(HostCall) /\ Len(w) \in {2, 4, 7} /\ w[1] = Send(<<Code(c)>>)
        BY <1>3, <2>2, <3>1, ArgumentCommand, IncrementCommand, ReadCommand
           DEF RequestType, HasArgument
      <3> QED
        BY <2>3, <3>1, <3>2
    <2>5. Clocks(script'[1]) /\ step' = 1
      BY <1>1, <2>4, ClocksAre, NothingLeft
    <2>6. ~ Performed'
      BY <2>4, <2>5 DEF Performed
    <2> QED
      BY <1>1, <2>6, PerformedTyped
  <1>5. AsCommands!Legal(c)
    <2>1. c.name = "erase" =>
             c.mask \cap {"EEPROM", "PROGRAM", "USER", "CONFIG"} # {}
      BY <1>1, ErasesMask DEF MayAsk
    <2> QED
      BY <1>1, <1>2, <2>1, SameRegions, SameRequests
         DEF MayAsk, AsCommands!Legal, AsCommands!DeviceRegion
  <1> QED
    BY <1>1, <1>2, <1>3, <1>4, <1>5, SameRequests DEF AsCommands!Issue

(* The last edge of a command is the moment it is performed. *)
LEMMA PerformSeen ==
    ASSUME stage = "command", stage' = stage, op \in RequestType, op' = op,
           ~ Performed, Performed', Effect, Answered
    PROVE  AsCommands!Next
  <1>1. InMode = TRUE /\ InMode' = TRUE
    BY DEF InMode
  <1>2. Performed = FALSE /\ Performed' = TRUE
    BY PerformedTyped
  <1>3. op.name \in {"load", "increment", "read", "write", "erase"}
    BY DEF RequestType
  <1>4. AsCommands!Performing(op.name)
    BY <1>1, <1>2 DEF AsCommands!Performing
  <1>5. CASE op.name = "load"
    BY <1>1, <1>4, <1>5 DEF Effect, AsCommands!PerformLoad, AsCommands!Next
  <1>6. CASE op.name = "increment"
    BY <1>1, <1>4, <1>6, SameRegions
       DEF Effect, SeenRegion, AsCommands!PerformIncrement, AsCommands!DeviceRegion,
           AsCommands!Next
  <1>7. CASE op.name = "read"
    <2>1. /\ ReadCast(got') = WordAt(PCSeen) /\ PCSeen = dev.pc
          /\ PCSeen' = PCNext(op.inc) /\ dev'.mem = dev.mem
      BY <1>7 DEF Answered, Effect
    <2>2. AsCommands!WordAt(PCSeen) = WordAt(PCSeen)
      BY <1>1, <2>1, SameRegions
         DEF AsCommands!WordAt, WordAt, AsCommands!DeviceRegion, DeviceRegion
    <2>3. AsCommands!PCAfter(op.inc) = PCNext(op.inc)
      BY <1>1, SameRegions
         DEF AsCommands!PCAfter, PCNext, SeenRegion, AsCommands!DeviceRegion
    <2>4. AsCommands!PerformRead
      BY <1>1, <1>2, <1>4, <1>7, <2>1, <2>2, <2>3 DEF AsCommands!PerformRead
    <2> QED
      BY <2>4 DEF AsCommands!Next
  <1>8. CASE op.name = "write"
    <2>1. PCSeen' = PCNext(op.inc) /\ dev'.mem = Written(op.arg)
      BY <1>8 DEF Effect
    <2>2. AsCommands!PCAfter(op.inc) = PCNext(op.inc)
      BY <1>1, SameRegions
         DEF AsCommands!PCAfter, PCNext, SeenRegion, AsCommands!DeviceRegion
    <2>3. AsCommands!DeviceRegion = SeenRegion
      BY <1>1, SameRegions DEF AsCommands!DeviceRegion, SeenRegion
    <2>4. AsCommands!PerformWrite
      BY <1>1, <1>2, <1>4, <1>8, <2>1, <2>2, <2>3 DEF AsCommands!PerformWrite, Written
    <2> QED
      BY <2>4 DEF AsCommands!Next
  <1>9. CASE op.name = "erase"
    <2>1. PCSeen' = PCSeen /\ dev'.mem = Emptied(op.mask)
      BY <1>9 DEF Effect
    <2>2. AsCommands!PerformErase
      BY <1>1, <1>2, <1>4, <1>9, <2>1, SameRegions, SameRequests
         DEF AsCommands!PerformErase, Emptied
    <2> QED
      BY <2>2 DEF AsCommands!Next
  <1> QED
    BY <1>3, <1>5, <1>6, <1>7, <1>8, <1>9

(* Nothing else that a call does is seen of a command. *)
LEMMA CallSeen ==
    ASSUME AllInv, AllInv', MakeCall
    PROVE  AsCommands!Next \/ Seen' = Seen
  <1>1. /\ ScriptInv /\ DevInv /\ PinInv /\ LineInv /\ HeaderInv /\ SyncInv /\ BoundInv
    BY DEF AllInv, WireInv
  <1>2. script # <<>> /\ stage' = stage /\ op' = op
    BY <1>1, CallDoes DEF MakeCall
  <1>3. (InMode' <=> InMode) /\ stage \in {"enter", "command", "restore", "guard", "header"}
    BY <1>1, <1>2, NothingLeft DEF InMode
  <1>4. CASE stage = "command"
    <2>1. PICK us : CommandLock(us)
      BY <1>1, <1>4 DEF SyncInv, Lockstep
    <2>2. Works /\ op \in RequestType
      BY <1>1, <1>2, <1>4, <2>1, CommandMoves, CommandKinds
    <2>3. CASE ~ Performed /\ Performed'
      BY <1>2, <1>4, <2>2, <2>3, PerformSeen DEF Works
    <2>4. CASE Performed \/ ~ Performed'
      <3>1. /\ Unmoved /\ Performed' = Performed
            /\ Performed => got' = got
        BY <2>2, <2>4, PerformedTyped DEF Works
      <3> QED
        BY <1>2, <1>3, <3>1, PerformedTyped DEF Seen, Unmoved
    <2> QED
      BY <2>3, <2>4
  <1>5. CASE stage # "command"
    <2>1. ~ InMode /\ ~ InMode' /\ op = NoRequest
      BY <1>1, <1>2, <1>3, <1>5 DEF InMode, SyncInv
    <2>2. dev'.mem = dev.mem
      <3>1. CASE stage = "enter"
        <4>1. EnterLock
          BY <1>1, <3>1 DEF SyncInv, Lockstep
        <4> QED
          BY <1>1, <1>2, <3>1, <4>1, EnterMoves DEF Unmoved
      <3>2. CASE stage # "enter"
        BY <1>1, <1>3, <1>5, <3>2, UnwindMoves DEF Unwinding, BoundInv
      <3> QED
        BY <3>1, <3>2
    <2>3. Performed = FALSE /\ Performed' = FALSE
      BY <1>2, <2>1, PerformedTyped
    <2> QED
      BY <1>2, <2>1, <2>2, <2>3 DEF Seen
  <1> QED
    BY <1>4, <1>5

(* A session that is broken off is left. *)
LEMMA OffSeen ==
    ASSUME AllInv, ~ InMode', op' = NoRequest, dev' = dev
    PROVE  AsCommands!Next \/ Seen' = Seen
  <1>1. Performed' = FALSE
    BY PerformedTyped
  <1>2. CASE InMode
    <2>1. AsCommands!Leave
      BY <1>1, <1>2, SameRequests DEF AsCommands!Leave
    <2> QED
      BY <2>1 DEF AsCommands!Next
  <1>3. CASE ~ InMode
    <2>1. op = NoRequest
      BY <1>3 DEF AllInv, SyncInv, InMode
    <2>2. Performed = FALSE
      BY <2>1, PerformedTyped
    <2> QED
      BY <1>1, <1>3, <2>1, <2>2 DEF Seen
  <1> QED
    BY <1>2, <1>3

LEMMA EndSeen ==
    ASSUME AllInv, EndStage
    PROVE  AsCommands!Next \/ Seen' = Seen
  <1>1. /\ ScriptInv /\ SyncInv /\ script = <<>> /\ dev' = dev /\ op' = NoRequest
        /\ stage = "guard" => stage' = "header"
        /\ stage = "header" => stage' = "over"
        /\ stage = "restore" => stage' = "guard"
        /\ stage \in {"enter", "command"} => stage' = "ready"
        /\ stage \in {"header", "guard", "restore", "enter", "command"}
    BY EndGoes DEF AllInv, WireInv, EndStage
  <1>2. Performed' = FALSE /\ PCSeen' = PCSeen
    BY <1>1, PerformedTyped DEF PCSeen, DeviceRegion
  <1>3. CASE stage = "enter"
    <2>1. ~ InMode /\ InMode' /\ op = NoRequest /\ PCSeen = NoPC
      BY <1>1, <1>3 DEF InMode, SyncInv, Lockstep, EnterLock
    <2>2. Performed = FALSE
      BY <2>1, PerformedTyped
    <2>3. AsCommands!Enter
      BY <1>1, <1>2, <2>1, <2>2 DEF AsCommands!Enter
    <2> QED
      BY <2>3 DEF AsCommands!Next
  <1>4. CASE stage = "command"
    <2>1. InMode /\ InMode'
      BY <1>1, <1>4 DEF InMode
    <2>2. op # NoRequest
      <3>1. op.name # "none"
        BY <1>1, <1>4, CommandKinds
      <3> QED
        BY <3>1 DEF NoRequest, Request
    <2>3. DOMAIN script = {}
      BY <1>1
    <2>4. Performed
      BY <2>2, <2>3 DEF Performed
    <2>5. AsCommands!Return
      BY <1>1, <1>2, <2>1, <2>4, SameRequests DEF AsCommands!Return
    <2> QED
      BY <2>5 DEF AsCommands!Next
  <1>5. CASE stage \in {"guard", "header", "restore"}
    <2>1. ~ InMode'
      BY <1>1, <1>5 DEF InMode
    <2> QED
      BY <1>1, <2>1, OffSeen
  <1> QED
    BY <1>1, <1>3, <1>4, <1>5

LEMMA StepSeen ==
    ASSUME AllInv, [Next]_vars
    PROVE  AsCommands!Next \/ Seen' = Seen
  <1>1. AllInv'
    BY AllStays
  <1>2. CASE Enter
    <2>1. /\ ~ InMode' /\ op' = NoRequest /\ dev' = dev
      BY <1>2 DEF Enter, InMode, AllInv, SyncInv
    <2> QED
      BY <2>1, OffSeen
  <1>3. ASSUME NEW c \in Requests, Ask(c)
        PROVE  AsCommands!Next
    BY <1>3, IssueSeen DEF AsCommands!Next
  <1>4. CASE Leave
    <2>1. /\ ~ InMode' /\ op' = NoRequest /\ dev' = dev
      BY <1>4 DEF Leave, InMode, AllInv, SyncInv
    <2> QED
      BY <2>1, OffSeen
  <1>5. CASE MakeCall
    BY <1>1, <1>5, CallSeen
  <1>6. ASSUME NEW e, Raise(e)
        PROVE  AsCommands!Next \/ Seen' = Seen
    <2>1. /\ op' = NoRequest /\ dev' = dev
          /\ stage' \in {"terminated", "header", "restore", "guard"}
      BY <1>6, RaiseGoes DEF Raise, AllInv, WireInv
    <2>2. ~ InMode'
      BY <2>1 DEF InMode
    <2> QED
      BY <2>1, <2>2, OffSeen
  <1>7. CASE DeviceThrows
    BY <1>6, <1>7 DEF DeviceThrows
  <1>8. CASE Interrupt
    BY <1>6, <1>8 DEF Interrupt
  <1>9. CASE EndStage
    BY <1>9, EndSeen
  <1>10. CASE UNCHANGED vars
    <2>1. /\ op' = op /\ dev' = dev /\ stage' = stage /\ script' = script
          /\ step' = step /\ bit' = bit /\ got' = got
      BY <1>10 DEF vars, host
    <2>2. /\ Performed' = Performed /\ PCSeen' = PCSeen /\ InMode' = InMode
      BY <2>1 DEF Performed, PCSeen, DeviceRegion, InMode
    <2> QED
      BY <2>1, <2>2 DEF Seen
  <1> QED
    BY <1>2, <1>3, <1>4, <1>5, <1>7, <1>8, <1>9, <1>10 DEF Next, Program

(* Every session on the wire is one of Commands: each command arrives as   *)
(* it was asked for, takes effect once, at its last edge and as a whole,   *)
(* what a read returns is the device's word at the program counter, and a  *)
(* session broken off by an interrupt performs nothing more.               *)
THEOREM CommandsImplemented == Spec => ImplementsCommands
  <1>1. Init => AsCommands!Init
    BY CommandsStart
  <1>2. AllInv /\ [Next]_vars => [AsCommands!Next]_AsCommands!vars
    <2>1. ASSUME AllInv, [Next]_vars
          PROVE  AsCommands!Next \/ Seen' = Seen
      BY <2>1, StepSeen
    <2> QED
      BY <2>1 DEF AsCommands!vars, Seen
  <1> QED
    BY <1>1, <1>2, AllHolds, PTL DEF Spec, ImplementsCommands, AsCommands!Spec
=============================================================================
