--------------------------- MODULE SessionProofs ---------------------------
(***************************************************************************)
(* The session for every set of libraries and operations, any number of    *)
(* signals and of failing calls.                                           *)
(*                                                                         *)
(* The invariant says of each scope where it is in what it calls, by the   *)
(* number of calls Left, and what then holds of the mode flag and the      *)
(* guards, of the library, of the pins and the device, and of the time     *)
(* MCLR has yet to stay low.  Every exit of a scope, at its end or by an   *)
(* exception out of any of its calls, then gives the next scope what it    *)
(* starts from.                                                            *)
(***************************************************************************)
EXTENDS Session, SequenceTheorems, TLAPS

(* The calls that are left are the end of the scope's. *)
EndOf(s, whole) ==
    /\ Len(s) <= Len(whole)
    /\ \A i \in 1 .. Len(s) : s[i] = whole[Len(whole) - Len(s) + i]

(* Script, in the mode and with the guards that a scope starts with: only  *)
(* ~ExitProg ever leaves the mode, ~ICSPHeader finds it left.              *)
Plan(operation, st) ==
    CASE st = "create"   -> <<Do("init"), Do("register")>>
      [] st = "ctor"     -> CleanupGpio
      [] st = "enter"    -> EnterProgramming
      [] st = "argument" -> <<>>
      [] st = "body"     -> Body[operation]
      [] st = "finally"  -> RestoreData
      [] st = "guard"    -> ExitProgramming
      [] st = "header"   -> CleanupGpio
      [] st = "igpio"    -> <<Do("terminate")>>
      [] st = "over"     -> <<>>

BodyCall == {"begin", "commit", "delay", "listen", "data", "clk", "check"}

CallName == BodyCall \cup
    {"mclr", "prog_en", "key_begin", "key_end", "entered", "exited", "init",
     "register", "terminate"}

(* Levels, and microseconds *)
MaxWait == 11000

Micros == 0 .. MaxWait

GpioCall == {c \in [do : CallName, arg : Micros] :
                c.do \in {"mclr", "prog_en"} => c.arg \in {0, 1}}

Stage == {"create", "ctor", "enter", "body", "over"} \cup Destructors

Operation == {"info", "dump", "write", "erase"}

Left == Len(calls)

CallsInv == calls \in Seq(GpioCall) /\ EndOf(calls, Plan(op, stage))

ModeInv ==
    /\ stage \in {"create", "ctor"} => guards = {} /\ ~ in_program_mode
    /\ stage = "enter" => /\ Guarded /\ guards = {}
                          /\ in_program_mode <=> Left = 0
    /\ stage \in {"argument", "body", "finally"} =>
          /\ guards = (IF Guarded THEN {"prog_guard"} ELSE {})
          /\ in_program_mode <=> Guarded
    /\ stage = "argument" => Guarded
    /\ stage = "guard" => /\ Guarded /\ guards = {"prog_guard"}
                          /\ in_program_mode <=> Left > 0
    /\ stage \in {"header", "igpio", "over"} => ~ in_program_mode

LibInv ==
    /\ stage = "create" => lib = (IF Left = 2 THEN "absent" ELSE "up")
    /\ stage \in {"ctor", "enter", "argument", "body", "finally", "guard",
                   "header"} =>
          lib = "up"
    /\ stage = "igpio" => lib = (IF Left = 0 THEN "down" ELSE "up")
    /\ stage = "over" => lib # "up"
    /\ proc \in {"returned", "failed"} => stage = "over"

PinInv ==
    /\ pins.mclr = 1 => dev = "run"
    /\ stage \in {"create", "ctor", "igpio", "over"} =>
          pins.mclr = 1 /\ pins.prog_en = 0 /\ pins.data = "out"
    /\ stage = "enter" => /\ Left >= 6 => pins.mclr = 1
                          /\ Left <= 7 => pins.prog_en = 1
                          /\ Left \in 3 .. 5 => dev = "entry"
                          /\ Left <= 2 => dev = "prog"
    /\ stage \in {"argument", "body", "finally"} =>
          IF Guarded THEN dev \in {"prog", "command"} ELSE pins.mclr = 1
    /\ stage = "guard" => (Left <= 2 => pins.mclr = 1)
    /\ stage = "header" => /\ Left <= 3 => pins.mclr = 1
                           /\ Left <= 1 => pins.data = "out"
                           /\ Left = 0 => pins.prog_en = 0

(* No wait has been cut short. *)
Quiet == signals = 0 \/ ~ Is.delay_checks

(* exit_programming waits for 1102 us, so no command may leave more.       *)
DueInv ==
    /\ stage = "enter" => /\ Left = 2 => due <= 2200
                          /\ Left <= 1 => due = 0
    /\ stage = "argument" => due <= 1102
    /\ stage = "body" /\ Guarded =>
          \/ due <= 1102
          \/ /\ calls # <<>> /\ Head(calls).do = "delay"
             /\ due <= Head(calls).arg + 1102
    /\ stage = "finally" /\ Guarded => due <= 1102
    /\ stage = "guard" => /\ Left = 4 => due <= 1102
                          /\ Left <= 3 => due = 0
    /\ stage = "header" => (dev = "prog" => due = 0)

FaultInv == /\ Guarded => "lost" \notin faults
            /\ Quiet => ~ interrupted /\ "early" \notin faults /\ DueInv

SessionInv == /\ TypeOK /\ CallsInv
              /\ ModeInv /\ LibInv /\ PinInv /\ FaultInv

-----------------------------------------------------------------------------
(* What each scope calls. *)
LEMMA EndOfTail ==
    ASSUME NEW S, NEW s \in Seq(S), s # <<>>,
           NEW whole \in Seq(S), EndOf(s, whole)
    PROVE  /\ Head(s) = whole[Len(whole) - Len(s) + 1] /\ Head(s) \in S
           /\ Tail(s) \in Seq(S) /\ Len(Tail(s)) = Len(s) - 1
           /\ Len(s) \in 1 .. Len(whole) /\ Len(whole) \in Nat
           /\ EndOf(Tail(s), whole)
  <1>1. /\ Len(s) \in Nat \ {0} /\ Len(whole) \in Nat /\ Len(s) <= Len(whole)
        /\ Head(s) = s[1] /\ Head(s) \in S
        /\ Tail(s) \in Seq(S) /\ Len(Tail(s)) = Len(s) - 1
        /\ \A i \in 1 .. Len(s) - 1 : Tail(s)[i] = s[i + 1]
    BY HeadTailProperties, EmptySeq, LenProperties DEF EndOf
  <1>2. \A i \in 1 .. Len(s) : s[i] = whole[Len(whole) - Len(s) + i]
    BY DEF EndOf
  <1>3. ASSUME NEW i \in 1 .. Len(s) - 1
        PROVE  Tail(s)[i] = whole[Len(whole) - (Len(s) - 1) + i]
    <2>1. i + 1 \in 1 .. Len(s) /\ Len(whole) - Len(s) + (i + 1)
                                     = Len(whole) - (Len(s) - 1) + i
      BY <1>1
    <2> QED
      BY <1>1, <1>2, <2>1
  <1> QED
    BY <1>1, <1>2, <1>3 DEF EndOf

LEMMA WholeEnds ==
    ASSUME NEW S, NEW s \in Seq(S)
    PROVE  EndOf(s, s)
  BY LenProperties DEF EndOf

Joined(w, s, t) ==
    /\ Len(w) = Len(s) + Len(t)
    /\ \A i \in 1 .. Len(s) : w[i] = s[i]
    /\ \A i \in 1 .. Len(t) : w[Len(s) + i] = t[i]

LEMMA ConcatJoins ==
    ASSUME NEW S, NEW s \in Seq(S), NEW t \in Seq(S)
    PROVE  s \o t \in Seq(S) /\ Joined(s \o t, s, t)
  <1>1. /\ s \o t \in Seq(S) /\ Len(s \o t) = Len(s) + Len(t)
        /\ \A i \in 1 .. Len(s) : (s \o t)[i] = s[i]
        /\ \A i \in 1 .. Len(t) : (s \o t)[Len(s) + i] = t[i]
    BY ConcatProperties, LenProperties
  <1> QED
    BY <1>1 DEF Joined

LEMMA CleanupCalls ==
    /\ CleanupGpio \in Seq(GpioCall) /\ Len(CleanupGpio) = 4
    /\ CleanupGpio[1] = Pin("mclr", 1) /\ CleanupGpio[2] = Do("clk")
    /\ CleanupGpio[3] = Do("data") /\ CleanupGpio[4] = Pin("prog_en", 0)
  <1>1. /\ Pin("mclr", 1) \in GpioCall /\ Do("clk") \in GpioCall
        /\ Do("data") \in GpioCall /\ Pin("prog_en", 0) \in GpioCall
    BY DEF Pin, Do, GpioCall, CallName, BodyCall, Micros, MaxWait
  <1> QED
    BY <1>1 DEF CleanupGpio

LEMMA ExitCalls ==
    /\ ExitProgramming \in Seq(GpioCall) /\ Len(ExitProgramming) = 4
    /\ ExitProgramming[1] = Delay(1102) /\ ExitProgramming[2] = Pin("mclr", 1)
    /\ ExitProgramming[3] = Pin("prog_en", 0) /\ ExitProgramming[4] = Do("exited")
  <1>1. /\ Pin("mclr", 1) \in GpioCall /\ Delay(1102) \in GpioCall
        /\ Do("exited") \in GpioCall /\ Pin("prog_en", 0) \in GpioCall
    BY DEF Pin, Do, Delay, GpioCall, CallName, BodyCall, Micros, MaxWait
  <1> QED
    BY <1>1 DEF ExitProgramming

LEMMA EnterCalls ==
    /\ EnterProgramming \in Seq(GpioCall) /\ Len(EnterProgramming) = 12
    /\ EnterProgramming[1] = Pin("mclr", 1) /\ EnterProgramming[2] = Do("clk")
    /\ EnterProgramming[3] = Do("data") /\ EnterProgramming[4] = Pin("prog_en", 0)
    /\ EnterProgramming[5] = Pin("prog_en", 1)
    /\ EnterProgramming[6] = Delay(1000)
    /\ EnterProgramming[7] = Pin("mclr", 0)
    /\ EnterProgramming[8] = Delay(2200)
    /\ EnterProgramming[9] = Do("key_begin") /\ EnterProgramming[10] = Do("key_end")
    /\ EnterProgramming[11] = Delay(2200)
    /\ EnterProgramming[12] = Do("entered")
  <1> DEFINE t == <<Pin("prog_en", 1), Delay(1000), Pin("mclr", 0), Delay(2200),
                    Do("key_begin"), Do("key_end"), Delay(2200), Do("entered")>>
  <1>1. /\ Pin("prog_en", 1) \in GpioCall /\ Delay(1000) \in GpioCall
        /\ Pin("mclr", 0) \in GpioCall /\ Delay(2200) \in GpioCall
        /\ Do("key_begin") \in GpioCall /\ Do("key_end") \in GpioCall
        /\ Do("entered") \in GpioCall
    BY DEF Pin, Do, Delay, GpioCall, CallName, BodyCall, Micros, MaxWait
  <1>2. t \in Seq(GpioCall)
    BY <1>1
  <1>3. /\ Len(t) = 8
        /\ t[1] = Pin("prog_en", 1) /\ t[2] = Delay(1000)
        /\ t[3] = Pin("mclr", 0) /\ t[4] = Delay(2200)
        /\ t[5] = Do("key_begin") /\ t[6] = Do("key_end")
        /\ t[7] = Delay(2200) /\ t[8] = Do("entered")
    OBVIOUS
  <1> HIDE DEF t
  <1>4. EnterProgramming = CleanupGpio \o t
    BY DEF EnterProgramming, t
  <1>5. EnterProgramming \in Seq(GpioCall) /\ Joined(EnterProgramming, CleanupGpio, t)
    BY <1>2, <1>4, CleanupCalls, ConcatJoins
  <1>6. PICK w, c : w = EnterProgramming /\ c = CleanupGpio
    OBVIOUS
  <1>7. /\ Len(w) = 12 /\ \A i \in 1 .. 4 : w[i] = c[i]
        /\ \A i \in 5 .. 12 : w[i] = t[i - 4]
    BY <1>3, <1>5, <1>6, CleanupCalls DEF Joined
  <1> QED
    BY <1>3, <1>5, <1>6, <1>7, CleanupCalls

-----------------------------------------------------------------------------
(* The body calls nothing that moves MCLR or PROG_EN, and no command that  *)
(* keeps the device busy is without a wait as long.                 *)
BodyGpio == {c \in GpioCall : c.do \in BodyCall}

Waits(s) ==
    \A i \in 1 .. Len(s) :
        s[i].do = "commit" /\ s[i].arg > 101 =>
            /\ i + 1 \in 1 .. Len(s)
            /\ s[i + 1].do = "delay" /\ s[i].arg <= s[i + 1].arg

BodySeq(s) == s \in Seq(BodyGpio) /\ Waits(s)

LEMMA BodyConcat ==
    ASSUME NEW s, NEW t, BodySeq(s), BodySeq(t)
    PROVE  BodySeq(s \o t)
  <1>1. PICK m, n : m = Len(s) /\ n = Len(t)
    OBVIOUS
  <1>2. /\ s \in Seq(BodyGpio) /\ t \in Seq(BodyGpio) /\ m \in Nat /\ n \in Nat
        /\ s \o t \in Seq(BodyGpio) /\ Len(s \o t) = m + n
        /\ \A i \in 1 .. m + n : (s \o t)[i] = IF i <= m THEN s[i] ELSE t[i - m]
    BY <1>1, ConcatProperties, LenProperties DEF BodySeq
  <1>3. ASSUME NEW i \in 1 .. m + n,
               (s \o t)[i].do = "commit", (s \o t)[i].arg > 101
        PROVE  /\ i + 1 \in 1 .. m + n /\ (s \o t)[i + 1].do = "delay"
               /\ (s \o t)[i].arg <= (s \o t)[i + 1].arg
    <2>1. CASE i <= m
      <3>1. i \in 1 .. m /\ (s \o t)[i] = s[i]
        BY <1>2, <2>1
      <3>2. i + 1 \in 1 .. m /\ s[i + 1].do = "delay" /\ s[i].arg <= s[i + 1].arg
        BY <1>1, <1>3, <3>1 DEF BodySeq, Waits
      <3>3. i + 1 \in 1 .. m + n /\ (s \o t)[i + 1] = s[i + 1]
        BY <1>2, <3>2
      <3> QED
        BY <3>1, <3>2, <3>3
    <2>2. CASE ~ (i <= m)
      <3>1. PICK j : j = i - m
        OBVIOUS
      <3>2. j \in 1 .. n /\ (s \o t)[i] = t[j]
        BY <1>2, <2>2, <3>1
      <3>3. j + 1 \in 1 .. n /\ t[j + 1].do = "delay" /\ t[j].arg <= t[j + 1].arg
        BY <1>1, <1>3, <3>2 DEF BodySeq, Waits
      <3>4. i + 1 \in 1 .. m + n /\ ~ (i + 1 <= m) /\ (i + 1) - m = j + 1
        BY <1>2, <2>2, <3>1, <3>3
      <3>5. (s \o t)[i + 1] = t[j + 1]
        BY <1>2, <3>4
      <3> QED
        BY <3>2, <3>3, <3>4, <3>5
    <2> QED
      BY <2>1, <2>2
  <1> QED
    BY <1>2, <1>3 DEF BodySeq, Waits

(* A command and the wait after it: busy is what the device takes for the  *)
(* command.                                                                *)
Enough(busy, us) == busy <= 101 \/ busy <= us

LEMMA ThreeCalls ==
    ASSUME NEW w \in Seq(BodyGpio), NEW s, NEW t, Joined(w, s, t),
           Len(s) = 2, Len(t) = 1,
           s[1].do = "begin", s[2].do = "commit", t[1].do = "delay",
           s[2].arg \in Nat, Enough(s[2].arg, t[1].arg)
    PROVE  BodySeq(w)
  <1>1. Len(w) = 3 /\ w[1] = s[1] /\ w[2] = s[2] /\ w[3] = t[1]
    BY DEF Joined
  <1>2. \A i \in 1 .. 3 : i = 1 \/ i = 2 \/ i = 3
    OBVIOUS
  <1>3. ~ (s[2].arg > 101) \/ s[2].arg <= t[1].arg
    BY DEF Enough
  <1>4. Waits(w)
    BY <1>1, <1>2, <1>3 DEF Waits
  <1> QED
    BY <1>4 DEF BodySeq

Wait(us) == <<Delay(us)>>

LEMMA MicrosNat == Micros \subseteq Nat
  BY DEF Micros

LEMMA CommandWaits ==
    ASSUME NEW busy \in Micros, NEW us \in Micros, Enough(busy, us)
    PROVE  BodySeq(Command(busy) \o Wait(us))
  <1>1. /\ Do("begin") \in BodyGpio /\ [do |-> "commit", arg |-> busy] \in BodyGpio
        /\ Delay(us) \in BodyGpio
    <2>1. 0 \in Micros
      BY DEF Micros, MaxWait
    <2> QED
      BY <2>1 DEF Do, Delay, BodyGpio, BodyCall, GpioCall, CallName
  <1>2. PICK s, t : s = Command(busy) /\ t = Wait(us)
    OBVIOUS
  <1>3. /\ s \in Seq(BodyGpio) /\ Len(s) = 2
        /\ s[1].do = "begin" /\ s[2].do = "commit" /\ s[2].arg = busy
    BY <1>1, <1>2 DEF Command, Do
  <1>4. t \in Seq(BodyGpio) /\ Len(t) = 1 /\ t[1].do = "delay" /\ t[1].arg = us
    BY <1>1, <1>2 DEF Wait, Delay
  <1>5. s[2].arg \in Nat /\ Enough(s[2].arg, t[1].arg)
    BY <1>3, <1>4, MicrosNat
  <1>6. s \o t \in Seq(BodyGpio) /\ Joined(s \o t, s, t)
    BY <1>3, <1>4, ConcatJoins
  <1>7. BodySeq(s \o t)
    BY <1>3, <1>4, <1>5, <1>6, ThreeCalls
  <1> QED
    BY <1>2, <1>7

LEMMA WriteWaits ==
    ASSUME NEW us \in Micros
    PROVE  BodySeq(Write(us))
  <1>1. Enough(us, us)
    BY MicrosNat DEF Enough
  <1>2. BodySeq(Command(us) \o Wait(us))
    BY <1>1, CommandWaits
  <1> QED
    BY <1>2 DEF Write, Wait

LEMMA LoadWaits == BodySeq(LoadPC) /\ BodySeq(IncrementAddr)
  <1>1. Enough(1, 4) /\ 1 \in Micros /\ 4 \in Micros
    BY DEF Enough, Micros, MaxWait
  <1>2. BodySeq(Command(1) \o Wait(4))
    BY <1>1, CommandWaits
  <1> QED
    BY <1>2 DEF LoadPC, IncrementAddr, Wait

LEMMA RestoreCalls ==
    /\ BodySeq(RestoreData) /\ RestoreData \in Seq(GpioCall)
    /\ Len(RestoreData) = 2
    /\ RestoreData[1] = Do("data") /\ RestoreData[2] = Do("clk")
  <1>1. /\ Do("data") \in BodyGpio /\ Do("clk") \in BodyGpio
        /\ Do("data") \in GpioCall /\ Do("clk") \in GpioCall
    BY DEF Do, BodyGpio, BodyCall, GpioCall, CallName, Micros, MaxWait
  <1>2. RestoreData \in Seq(BodyGpio) /\ RestoreData \in Seq(GpioCall)
    BY <1>1 DEF RestoreData
  <1>3. /\ Len(RestoreData) = 2
        /\ RestoreData[1] = Do("data") /\ RestoreData[2] = Do("clk")
    BY DEF RestoreData
  <1>4. Waits(RestoreData)
    BY DEF Waits, RestoreData, Do
  <1> QED
    BY <1>2, <1>3, <1>4 DEF BodySeq

LEMMA ReadCalls == BodySeq(ReadRaw) /\ BodySeq(<<Do("check")>>)
  <1> DEFINE r == <<Do("begin"), Do("listen"), Delay(4),
                    [do |-> "commit", arg |-> 1]>>
             w == <<Delay(4)>>
  <1>1. /\ Do("begin") \in BodyGpio /\ Do("listen") \in BodyGpio
        /\ Delay(4) \in BodyGpio /\ [do |-> "commit", arg |-> 1] \in BodyGpio
        /\ Do("check") \in BodyGpio
    BY DEF Do, Delay, BodyGpio, BodyCall, GpioCall, CallName, Micros, MaxWait
  <1>2. r \in Seq(BodyGpio) /\ w \in Seq(BodyGpio)
        /\ <<Do("check")>> \in Seq(BodyGpio)
    BY <1>1
  <1>3. Waits(r) /\ Waits(w) /\ Waits(<<Do("check")>>)
    BY DEF Waits, Do, Delay
  <1>4. BodySeq(r) /\ BodySeq(w) /\ BodySeq(<<Do("check")>>)
    BY <1>2, <1>3 DEF BodySeq
  <1>5. ReadRaw = (r \o RestoreData) \o w
    BY DEF ReadRaw
  <1> HIDE DEF r, w
  <1> QED
    BY <1>4, <1>5, RestoreCalls, BodyConcat

LEMMA BodyCalls ==
    ASSUME NEW operation \in Operation
    PROVE  BodySeq(Body[operation])
  <1>1. /\ BodySeq(LoadPC) /\ BodySeq(IncrementAddr)
        /\ BodySeq(Write(75)) /\ BodySeq(Write(11000)) /\ BodySeq(BulkErase)
    <2>1. BulkErase = Write(11000)
      BY DEF BulkErase, Write
    <2>2. 75 \in Micros /\ 11000 \in Micros
      BY DEF Micros, MaxWait
    <2>3. BodySeq(Write(75)) /\ BodySeq(Write(11000))
      BY <2>2, WriteWaits
    <2> QED
      BY <2>1, <2>2, <2>3, LoadWaits
  <1>2. BodySeq(WriteVerify(75)) /\ BodySeq(WriteVerify(11000))
    BY <1>1, ReadCalls, BodyConcat DEF WriteVerify
  <1> HIDE DEF LoadPC, IncrementAddr, BulkErase, WriteVerify, ReadRaw
  <1>3. CASE operation = "info"
    BY <1>1, <1>3, ReadCalls, BodyConcat DEF Body
  <1>4. CASE operation = "dump"
    BY <1>1, <1>4, ReadCalls, BodyConcat DEF Body
  <1>5. CASE operation = "write"
    BY <1>1, <1>2, <1>5, ReadCalls, BodyConcat DEF Body
  <1>6. CASE operation = "erase"
    BY <1>1, <1>6 DEF Body
  <1> QED
    BY <1>3, <1>4, <1>5, <1>6 DEF Operation

LEMMA PlanTyped ==
    ASSUME NEW operation \in Operation, NEW st \in Stage
    PROVE  Plan(operation, st) \in Seq(GpioCall)
  <1>1. 0 \in Micros
    BY DEF Micros, MaxWait
  <1>2. /\ Do("init") \in GpioCall /\ Do("register") \in GpioCall
        /\ Do("terminate") \in GpioCall
    BY <1>1 DEF Do, GpioCall, CallName
  <1>3. /\ <<Do("init"), Do("register")>> \in Seq(GpioCall)
        /\ <<Do("terminate")>> \in Seq(GpioCall) /\ <<>> \in Seq(GpioCall)
    BY <1>2
  <1>4. Body[operation] \in Seq(GpioCall)
    <2>1. Body[operation] \in Seq(BodyGpio)
      BY BodyCalls DEF BodySeq
    <2>2. BodyGpio \subseteq GpioCall
      BY DEF BodyGpio
    <2> HIDE DEF GpioCall, BodyGpio
    <2> QED
      BY <2>1, <2>2
  <1> HIDE DEF GpioCall, Body, CleanupGpio, ExitProgramming, EnterProgramming,
               RestoreData
  <1> QED
    BY <1>3, <1>4, CleanupCalls, ExitCalls, EnterCalls, RestoreCalls
       DEF Plan, Stage, Destructors

-----------------------------------------------------------------------------
(* What a call does, by its kind. *)
Levels == [mclr : {0, 1}, prog_en : {0, 1}, data : {"in", "out"}]

LEMMA CallPins ==
    ASSUME pins \in Levels, NEW c \in GpioCall
    PROVE  /\ PinsNext(c) \in Levels
           /\ PinsNext(c).mclr = IF c.do = "mclr" THEN c.arg ELSE pins.mclr
           /\ PinsNext(c).prog_en = IF c.do = "prog_en" THEN c.arg ELSE pins.prog_en
           /\ PinsNext(c).data = IF c.do = "listen" THEN "in"
                                 ELSE IF c.do = "data" THEN "out"
                                 ELSE pins.data
  <1>1. CASE c.do = "mclr"
    <2>1. c.arg \in {0, 1}
      BY <1>1 DEF GpioCall
    <2>2. PinsNext(c) = [pins EXCEPT !.mclr = c.arg]
      BY <1>1 DEF PinsNext
    <2> QED
      BY <1>1, <2>1, <2>2 DEF Levels
  <1>2. CASE c.do = "prog_en"
    <2>1. c.arg \in {0, 1}
      BY <1>2 DEF GpioCall
    <2>2. PinsNext(c) = [pins EXCEPT !.prog_en = c.arg]
      BY <1>2 DEF PinsNext
    <2> QED
      BY <1>2, <2>1, <2>2 DEF Levels
  <1>3. CASE c.do \notin {"mclr", "prog_en"}
    BY <1>3 DEF PinsNext, Levels
  <1> QED
    BY <1>1, <1>2, <1>3

Due == 0 .. MaxDue

LEMMA WaitBounds ==
    /\ MaxWait \in Nat /\ MaxDue = MaxWait + 1001
    /\ Micros \subseteq Nat /\ Due \subseteq Nat
    /\ \A us \in Micros : us <= MaxWait
    /\ \A d \in Nat : d \in Due <=> d <= MaxDue
  <1>1. MaxWait \in Nat
    BY DEF MaxWait
  <1>2. MaxDue = MaxWait + 1001
    BY DEF MaxWait, MaxDue
  <1>3. Micros \subseteq Nat /\ \A us \in Micros : us <= MaxWait
    BY <1>1 DEF Micros
  <1>4. Due \subseteq Nat /\ \A d \in Nat : d \in Due <=> d <= MaxDue
    BY <1>1, <1>2 DEF Due
  <1> QED
    BY <1>1, <1>2, <1>3, <1>4

LEMMA DueBounds ==
    ASSUME NEW d \in Due, NEW us \in Micros
    PROVE  /\ 0 \in Due /\ 2001 \in Due /\ us + 1001 \in Due
           /\ (IF d > us THEN d - us ELSE 0) \in Due
  <1>1. /\ us \in Nat /\ us <= MaxWait /\ d \in Nat /\ d <= MaxDue
        /\ MaxWait \in Nat /\ MaxDue = MaxWait + 1001
    BY WaitBounds
  <1>2. us + 1001 \in Due
    BY <1>1, WaitBounds
  <1>3. (IF d > us THEN d - us ELSE 0) \in Due
    <2>1. CASE d > us
      <3>1. d - us \in Nat /\ d - us <= MaxDue
        BY <1>1, <2>1
      <3> QED
        BY <2>1, <3>1, WaitBounds
    <2>2. CASE ~ (d > us)
      <3>1. 0 <= MaxDue
        BY <1>1
      <3> QED
        BY <2>2, <3>1, WaitBounds
    <2> QED
      BY <2>1, <2>2
  <1>4. 0 \in Due
    BY <1>1, WaitBounds
  <1>5. 2001 \in Due
    BY WaitBounds DEF MaxWait
  <1> QED
    BY <1>2, <1>3, <1>4, <1>5

LEMMA DueAfterDelay ==
    ASSUME NEW d \in Due, NEW us \in Micros, d <= 1102 \/ d <= us + 1102
    PROVE  (IF d > us THEN d - us ELSE 0) <= 1102
  <1>1. us \in Nat /\ d \in Nat
    BY WaitBounds
  <1>2. CASE d > us
    BY <1>1, <1>2
  <1>3. CASE ~ (d > us)
    BY <1>3
  <1> QED
    BY <1>2, <1>3

LEMMA DueAfterCommit ==
    ASSUME NEW us \in Micros, NEW next \in Micros, us <= next
    PROVE  us + 1001 <= next + 1102
  <1>1. us \in Nat /\ next \in Nat
    BY WaitBounds
  <1> QED
    BY <1>1

LEMMA CallTyped ==
    ASSUME TypeOK, NEW c \in GpioCall
    PROVE  /\ DevNext(c) \in {"run", "entry", "prog", "command"}
           /\ DueNext(c) \in Due
           /\ LibNext(c) \in {"absent", "up", "down"}
  <1>1. PICK us \in Micros : us = c.arg
    BY DEF GpioCall
  <1>2. due \in Due /\ dev \in {"run", "entry", "prog", "command"}
        /\ lib \in {"absent", "up", "down"}
    BY DEF TypeOK, Due
  <1>3. DevNext(c) \in {"run", "entry", "prog", "command"}
    BY <1>2 DEF DevNext
  <1>4. DueNext(c) \in {1001 + 1000, us + 1001, due, 0, IF due > us THEN due - us ELSE 0}
    BY <1>1 DEF DueNext
  <1>5. DueNext(c) \in Due
    BY <1>2, <1>4, DueBounds
  <1>6. LibNext(c) \in {"absent", "up", "down"}
    BY <1>2 DEF LibNext
  <1> QED
    BY <1>3, <1>5, <1>6

(* The frame of a call, and the two faults. *)
LEMMA CallFrame ==
    ASSUME TypeOK, CallsInv, Call
    PROVE  /\ Head(calls) \in GpioCall
           /\ Head(calls) = Plan(op, stage)[Len(Plan(op, stage)) - Left + 1]
           /\ Left \in 1 .. Len(Plan(op, stage)) /\ Len(Plan(op, stage)) \in Nat
           /\ Left' = Left - 1 /\ CallsInv' /\ TypeOK'
           /\ pins' = PinsNext(Head(calls)) /\ dev' = DevNext(Head(calls))
           /\ due' = DueNext(Head(calls)) /\ lib' = LibNext(Head(calls))
           /\ in_program_mode' = CASE Head(calls).do = "entered" -> TRUE
                                   [] Head(calls).do = "exited"  -> FALSE
                                   [] OTHER -> in_program_mode
           /\ ("lost" \in faults' <=>
                  "lost" \in faults \/ NotListening(Head(calls)))
           /\ ("early" \in faults' <=>
                  "early" \in faults \/ RisesEarly(Head(calls)))
           /\ UNCHANGED <<backend, op, stage, exc, guards, interrupted, proc,
                          signals, failures>>
           /\ proc = "running"
  <1>1. /\ op \in Operation /\ stage \in Stage
    BY SessionAssumption DEF TypeOK, Stage, Operation
  <1>2. Plan(op, stage) \in Seq(GpioCall)
    BY <1>1, PlanTyped
  <1>3. calls \in Seq(GpioCall) /\ calls # <<>> /\ EndOf(calls, Plan(op, stage))
    BY DEF CallsInv, Call, AtCall
  <1>4. /\ Head(calls) = Plan(op, stage)[Len(Plan(op, stage)) - Len(calls) + 1]
        /\ Head(calls) \in GpioCall
        /\ Tail(calls) \in Seq(GpioCall) /\ Len(Tail(calls)) = Len(calls) - 1
        /\ Len(calls) \in 1 .. Len(Plan(op, stage))
        /\ Len(Plan(op, stage)) \in Nat
        /\ EndOf(Tail(calls), Plan(op, stage))
    BY <1>2, <1>3, EndOfTail
  <1>5. PICK c \in GpioCall : c = Head(calls)
    BY <1>4
  <1>6. /\ pins' = PinsNext(c) /\ dev' = DevNext(c) /\ due' = DueNext(c)
        /\ faults' = faults \cup (IF RisesEarly(c) THEN {"early"} ELSE {})
                            \cup (IF NotListening(c) THEN {"lost"} ELSE {})
        /\ lib' = LibNext(c)
        /\ in_program_mode' = CASE c.do = "entered" -> TRUE
                                [] c.do = "exited"  -> FALSE
                                [] OTHER -> in_program_mode
        /\ calls' = Tail(calls) /\ proc = "running"
        /\ UNCHANGED <<backend, op, stage, exc, guards, interrupted, proc,
                       signals, failures>>
    BY <1>5 DEF Call, AtCall
  <1>7. CallsInv'
    BY <1>4, <1>6 DEF CallsInv
  <1>8. TypeOK'
    <2>1. pins' \in Levels
      BY <1>6, CallPins DEF TypeOK, Levels
    <2>2. dev' \in {"run", "entry", "prog", "command"}
      BY <1>6, CallTyped
    <2>3. due' \in Due
      BY <1>6, CallTyped
    <2>4. lib' \in {"absent", "up", "down"}
      BY <1>6, CallTyped
    <2>5. faults' \subseteq {"lost", "early"}
      BY <1>6 DEF TypeOK
    <2>6. in_program_mode' \in BOOLEAN
      <3>1. CASE c.do = "entered"
        BY <1>6, <3>1
      <3>2. CASE c.do = "exited"
        BY <1>6, <3>2
      <3>3. CASE c.do \notin {"entered", "exited"}
        <4>1. in_program_mode' = in_program_mode
          BY <1>6, <3>3
        <4> QED
          BY <4>1 DEF TypeOK
      <3> QED
        BY <3>1, <3>2, <3>3
    <2>7. /\ backend' \in Backends /\ op' \in Ops
          /\ stage' \in {"create", "ctor", "enter", "body", "over"} \cup Destructors
          /\ guards' \in {{}, {"adopt"}, {"prog_guard"}}
          /\ exc' \in {"none", "interrupted", "error"}
          /\ interrupted' \in BOOLEAN
          /\ proc' \in {"running", "returned", "failed", "terminated", "killed"}
          /\ signals' \in 0 .. MaxSignals /\ failures' \in 0 .. MaxFailures
      BY <1>6 DEF TypeOK
    <2> QED
      BY <2>1, <2>2, <2>3, <2>4, <2>5, <2>6, <2>7
         DEF TypeOK, Levels, Due
  <1>9. /\ "lost" \in faults' <=> "lost" \in faults \/ NotListening(c)
        /\ "early" \in faults' <=> "early" \in faults \/ RisesEarly(c)
    BY <1>6
  <1> QED
    BY <1>4, <1>5, <1>6, <1>7, <1>8, <1>9 DEF Left

Effect(c) ==
    /\ c.do # "mclr" => pins'.mclr = pins.mclr
    /\ c.do = "mclr" => pins'.mclr = c.arg
    /\ c.do # "prog_en" => pins'.prog_en = pins.prog_en
    /\ c.do = "prog_en" => pins'.prog_en = c.arg
    /\ c.do \notin {"listen", "data"} => pins'.data = pins.data
    /\ c.do = "data" => pins'.data = "out"
    /\ c.do = "mclr" /\ c.arg = 1 =>
          dev' = (IF pins.mclr = 0 THEN "run" ELSE dev) /\ due' = 0
    /\ c.do = "mclr" /\ c.arg = 0 =>
          /\ pins.mclr = 1 /\ pins.prog_en = 1 => dev' = "entry"
          /\ due' = due
    /\ c.do = "key_end" /\ dev = "entry" => dev' = "prog" /\ due' = 1001 + 1000
    /\ c.do = "key_end" /\ dev # "entry" => dev' = dev /\ due' = due
    /\ c.do = "begin" => dev' = (IF dev = "prog" THEN "command" ELSE dev)
                         /\ due' = due
    /\ c.do = "commit" /\ dev = "command" => dev' = "prog" /\ due' = c.arg + 1001
    /\ c.do = "commit" /\ dev # "command" => dev' = dev /\ due' = due
    /\ c.do = "delay" => dev' = dev
                         /\ due' = IF due > c.arg THEN due - c.arg ELSE 0
    /\ c.do \notin {"mclr", "key_end", "begin", "commit", "delay"} =>
          dev' = dev /\ due' = due
    /\ lib' = IF c.do = "init" THEN "up"
              ELSE IF c.do = "terminate" THEN "down" ELSE lib
    /\ c.do = "entered" => in_program_mode'
    /\ c.do = "exited" => ~ in_program_mode'
    /\ c.do \notin {"entered", "exited"} => (in_program_mode' <=> in_program_mode)
    /\ c.do \notin {"begin", "commit"} \/ dev \in {"prog", "command"} =>
          ("lost" \in faults' <=> "lost" \in faults)
    /\ c.do # "mclr" \/ c.arg = 0 \/ dev # "prog" \/ due = 0 =>
          ("early" \in faults' <=> "early" \in faults)

LEMMA CallEffect ==
    ASSUME TypeOK, CallsInv, Call, NEW c, c = Head(calls)
    PROVE  Effect(c) /\ c \in GpioCall
  <1>1. c \in GpioCall /\ pins \in Levels
    <2>1. c \in GpioCall
      BY CallFrame
    <2>2. pins \in Levels
      BY DEF TypeOK, Levels
    <2> QED
      BY <2>1, <2>2
  <1>2. /\ pins' = PinsNext(c) /\ dev' = DevNext(c) /\ due' = DueNext(c)
        /\ lib' = LibNext(c)
        /\ in_program_mode' = CASE c.do = "entered" -> TRUE
                                [] c.do = "exited"  -> FALSE
                                [] OTHER -> in_program_mode
        /\ "lost" \in faults' <=> "lost" \in faults \/ NotListening(c)
        /\ "early" \in faults' <=> "early" \in faults \/ RisesEarly(c)
    BY CallFrame
  <1>3. /\ c.do # "mclr" => pins'.mclr = pins.mclr
        /\ c.do = "mclr" => pins'.mclr = c.arg
        /\ c.do # "prog_en" => pins'.prog_en = pins.prog_en
        /\ c.do = "prog_en" => pins'.prog_en = c.arg
        /\ c.do \notin {"listen", "data"} => pins'.data = pins.data
        /\ c.do = "data" => pins'.data = "out"
    BY <1>1, <1>2, CallPins
  <1>4. c.do = "mclr" /\ c.arg = 1 =>
           dev' = (IF pins.mclr = 0 THEN "run" ELSE dev) /\ due' = 0
    BY <1>2 DEF DevNext, DueNext
  <1>5. c.do = "mclr" /\ c.arg = 0 =>
           /\ pins.mclr = 1 /\ pins.prog_en = 1 => dev' = "entry"
           /\ due' = due
    BY <1>2 DEF DevNext, DueNext
  <1>6. /\ c.do = "key_end" /\ dev = "entry" => dev' = "prog" /\ due' = 1001 + 1000
        /\ c.do = "key_end" /\ dev # "entry" => dev' = dev /\ due' = due
    BY <1>2 DEF DevNext, DueNext
  <1>7. /\ c.do = "begin" => dev' = (IF dev = "prog" THEN "command" ELSE dev)
                             /\ due' = due
        /\ c.do = "commit" /\ dev = "command" => dev' = "prog" /\ due' = c.arg + 1001
        /\ c.do = "commit" /\ dev # "command" => dev' = dev /\ due' = due
    BY <1>2 DEF DevNext, DueNext
  <1>8. /\ c.do = "delay" => dev' = dev
                             /\ due' = IF due > c.arg THEN due - c.arg ELSE 0
        /\ c.do \notin {"mclr", "key_end", "begin", "commit", "delay"} =>
              dev' = dev /\ due' = due
    BY <1>2 DEF DevNext, DueNext
  <1>9. lib' = IF c.do = "init" THEN "up"
               ELSE IF c.do = "terminate" THEN "down" ELSE lib
    BY <1>2 DEF LibNext
  <1>10. /\ c.do = "entered" => in_program_mode'
         /\ c.do = "exited" => ~ in_program_mode'
         /\ c.do \notin {"entered", "exited"} =>
               (in_program_mode' <=> in_program_mode)
    BY <1>2
  <1>11. c.do \notin {"begin", "commit"} \/ dev \in {"prog", "command"} =>
            ("lost" \in faults' <=> "lost" \in faults)
    BY <1>2 DEF NotListening
  <1>12. c.do # "mclr" \/ c.arg = 0 \/ dev # "prog" \/ due = 0 =>
            ("early" \in faults' <=> "early" \in faults)
    <2>1. due = 0 => ~ (due > 0)
      OBVIOUS
    <2>2. c.arg = 0 => c.arg # 1
      OBVIOUS
    <2> QED
      BY <1>2, <2>1, <2>2 DEF RisesEarly
  <1> QED
    BY <1>1, <1>3, <1>4, <1>5, <1>6, <1>7, <1>8, <1>9, <1>10, <1>11, <1>12
       DEF Effect

-----------------------------------------------------------------------------
(* A call leaves the invariant of its scope. *)
LEMMA CallKeeps ==
    ASSUME SessionInv, Call, NEW c, c = Head(calls)
    PROVE  /\ TypeOK /\ CallsInv /\ ModeInv /\ LibInv /\ PinInv /\ FaultInv
           /\ Effect(c) /\ c \in GpioCall /\ CallsInv' /\ TypeOK'
           /\ stage' = stage /\ op' = op /\ guards' = guards
           /\ interrupted' = interrupted /\ proc' = "running"
           /\ (Guarded' <=> Guarded) /\ (Quiet' <=> Quiet)
           /\ pins.mclr = 0 \/ pins.mclr = 1
  <1>1. TypeOK /\ CallsInv /\ ModeInv /\ LibInv /\ PinInv /\ FaultInv
    BY DEF SessionInv
  <1>2. /\ CallsInv' /\ TypeOK'
        /\ UNCHANGED <<backend, op, stage, guards, interrupted, proc, signals>>
        /\ proc = "running"
    BY <1>1, CallFrame
  <1>3. (Guarded' <=> Guarded) /\ (Quiet' <=> Quiet)
    BY <1>2 DEF Guarded, Quiet, Is
  <1>4. pins.mclr = 0 \/ pins.mclr = 1
    BY <1>1 DEF TypeOK
  <1> QED
    BY <1>1, <1>2, <1>3, <1>4, CallEffect

LEMMA CallAt ==
    ASSUME SessionInv, Call, NEW c, c = Head(calls),
           NEW whole, whole = Plan(op, stage)
    PROVE  /\ c = whole[Len(whole) - Left + 1] /\ Left \in 1 .. Len(whole)
           /\ Len(whole) \in Nat /\ Left' = Left - 1
  BY CallFrame DEF SessionInv

LEMMA CallInCtor ==
    ASSUME SessionInv, Call, stage = "ctor"
    PROVE  SessionInv'
  <1>1. PICK c : c = Head(calls)
    OBVIOUS
  <1>2. /\ TypeOK /\ CallsInv /\ ModeInv /\ LibInv /\ PinInv /\ FaultInv
        /\ Effect(c) /\ c \in GpioCall /\ CallsInv' /\ TypeOK'
        /\ stage' = "ctor" /\ guards' = guards /\ op' = op
        /\ interrupted' = interrupted /\ proc' = "running"
        /\ (Guarded' <=> Guarded) /\ (Quiet' <=> Quiet)
        /\ pins.mclr = 0 \/ pins.mclr = 1
    BY <1>1, CallKeeps
  <1>3. c = CleanupGpio[4 - Left + 1] /\ Left \in 1 .. 4 /\ Left' = Left - 1
    <2>1. Plan(op, stage) = CleanupGpio
      BY DEF Plan
    <2> QED
      BY <1>1, <2>1, CallAt, CleanupCalls
  <1>4. \/ c.do = "mclr" /\ c.arg = 1
        \/ c.do = "clk"
        \/ c.do = "data"
        \/ c.do = "prog_en" /\ c.arg = 0
    <2>1. Left = 4 \/ Left = 3 \/ Left = 2 \/ Left = 1
      BY <1>3
    <2> QED
      BY <1>3, <2>1, CleanupCalls DEF Pin, Do
  <1>5. pins.mclr = 1 /\ pins.prog_en = 0 /\ pins.data = "out" /\ dev = "run"
    BY <1>2 DEF PinInv
  <1>6. pins'.mclr = 1 /\ pins'.prog_en = 0 /\ pins'.data = "out" /\ dev' = "run"
    BY <1>2, <1>4, <1>5 DEF Effect
  <1>7. ModeInv' /\ LibInv'
    BY <1>2, <1>4 DEF ModeInv, LibInv, Effect
  <1>8. PinInv'
    BY <1>2, <1>6 DEF PinInv
  <1>9. /\ "lost" \in faults' <=> "lost" \in faults
        /\ "early" \in faults' <=> "early" \in faults
    BY <1>2, <1>4, <1>5 DEF Effect
  <1>10. FaultInv'
    BY <1>2, <1>9 DEF FaultInv, DueInv
  <1> QED
    BY <1>2, <1>7, <1>8, <1>10 DEF SessionInv

LEMMA CallInGuard ==
    ASSUME SessionInv, Call, stage = "guard"
    PROVE  SessionInv'
  <1>1. PICK c : c = Head(calls)
    OBVIOUS
  <1>2. /\ TypeOK /\ CallsInv /\ ModeInv /\ LibInv /\ PinInv /\ FaultInv
        /\ Effect(c) /\ c \in GpioCall /\ CallsInv' /\ TypeOK'
        /\ stage' = "guard" /\ guards' = guards /\ op' = op
        /\ interrupted' = interrupted /\ proc' = "running"
        /\ (Guarded' <=> Guarded) /\ (Quiet' <=> Quiet)
        /\ pins.mclr = 0 \/ pins.mclr = 1
    BY <1>1, CallKeeps
  <1>3. c = ExitProgramming[4 - Left + 1] /\ Left \in 1 .. 4 /\ Left' = Left - 1
    <2>1. Plan(op, stage) = ExitProgramming
      BY DEF Plan
    <2>2. Len(ExitProgramming) = 4
      BY ExitCalls
    <2>3. /\ c = ExitProgramming[Len(ExitProgramming) - Left + 1]
          /\ Left \in 1 .. Len(ExitProgramming) /\ Left' = Left - 1
      BY <1>1, <2>1, CallAt
    <2> QED
      BY <2>2, <2>3
  <1>4. /\ Left = 4 => c.do = "delay" /\ c.arg = 1102
        /\ Left = 3 => c.do = "mclr" /\ c.arg = 1
        /\ Left = 2 => c.do = "prog_en" /\ c.arg = 0
        /\ Left = 1 => c.do = "exited"
    BY <1>3, ExitCalls DEF Pin, Do, Delay
  <1>5. Left = 4 \/ Left = 3 \/ Left = 2 \/ Left = 1
    BY <1>3
  <1>6. c.do \in {"delay", "mclr", "prog_en", "exited"}
    BY <1>4, <1>5
  <1>7. LibInv'
    BY <1>2, <1>6 DEF LibInv, Effect
  <1>8. ModeInv'
    <2>1. in_program_mode' <=> Left' > 0
      <3>1. CASE Left = 1
        BY <1>2, <1>3, <1>4, <3>1 DEF Effect
      <3>2. CASE Left # 1
        <4>1. c.do \notin {"entered", "exited"} /\ Left' > 0 /\ Left > 0
          BY <1>3, <1>4, <1>5, <3>2
        <4>2. in_program_mode
          BY <1>2, <4>1 DEF ModeInv
        <4> QED
          BY <1>2, <4>1, <4>2 DEF Effect
      <3> QED
        BY <3>1, <3>2
    <2> QED
      BY <1>2, <2>1 DEF ModeInv
  <1>9. PinInv'
    <2>1. pins'.mclr = 1 => dev' = "run"
      BY <1>2, <1>4, <1>5, <1>6 DEF PinInv, Effect
    <2>2. Left' <= 2 => pins'.mclr = 1
      BY <1>2, <1>3, <1>4, <1>5 DEF PinInv, Effect
    <2> QED
      BY <1>2, <2>1, <2>2 DEF PinInv
  <1>10. FaultInv'
    <2>1. "lost" \in faults' <=> "lost" \in faults
      BY <1>2, <1>6 DEF Effect
    <2>2. ASSUME Quiet
          PROVE  /\ "early" \in faults' <=> "early" \in faults
                 /\ due' = 0
      <3>1. CASE Left = 4
        <4>1. due <= 1102
          BY <1>2, <2>2, <3>1 DEF FaultInv, DueInv
        <4>2. ~ (due > c.arg)
          BY <1>2, <1>4, <3>1, <4>1 DEF TypeOK
        <4> QED
          BY <1>2, <1>4, <3>1, <4>2 DEF Effect
      <3>2. CASE Left # 4
        <4>1. due = 0
          BY <1>2, <1>3, <1>5, <2>2, <3>2 DEF FaultInv, DueInv
        <4> QED
          BY <1>2, <1>4, <1>5, <3>2, <4>1 DEF Effect
      <3> QED
        BY <3>1, <3>2
    <2>3. Left' # 4
      BY <1>3
    <2> QED
      BY <1>2, <2>1, <2>2, <2>3 DEF FaultInv, DueInv
  <1> QED
    BY <1>2, <1>7, <1>8, <1>9, <1>10 DEF SessionInv

LEMMA CallInHeader ==
    ASSUME SessionInv, Call, stage = "header"
    PROVE  SessionInv'
  <1>1. PICK c : c = Head(calls)
    OBVIOUS
  <1>2. /\ TypeOK /\ CallsInv /\ ModeInv /\ LibInv /\ PinInv /\ FaultInv
        /\ Effect(c) /\ c \in GpioCall /\ CallsInv' /\ TypeOK'
        /\ stage' = "header" /\ guards' = guards /\ op' = op
        /\ interrupted' = interrupted /\ proc' = "running"
        /\ (Guarded' <=> Guarded) /\ (Quiet' <=> Quiet)
        /\ pins.mclr = 0 \/ pins.mclr = 1
    BY <1>1, CallKeeps
  <1>3. c = CleanupGpio[4 - Left + 1] /\ Left \in 1 .. 4 /\ Left' = Left - 1
    <2>1. Plan(op, stage) = CleanupGpio
      BY DEF Plan
    <2> QED
      BY <1>1, <2>1, CallAt, CleanupCalls
  <1>4. /\ Left = 4 => c.do = "mclr" /\ c.arg = 1
        /\ Left = 3 => c.do = "clk"
        /\ Left = 2 => c.do = "data"
        /\ Left = 1 => c.do = "prog_en" /\ c.arg = 0
    BY <1>3, CleanupCalls DEF Pin, Do
  <1>5. Left = 4 \/ Left = 3 \/ Left = 2 \/ Left = 1
    BY <1>3
  <1>6. c.do \in {"mclr", "clk", "data", "prog_en"}
    BY <1>4, <1>5
  <1>7. ModeInv' /\ LibInv'
    BY <1>2, <1>6 DEF ModeInv, LibInv, Effect
  <1>8. PinInv'
    <2>1. pins'.mclr = 1 => dev' = "run"
      BY <1>2, <1>4, <1>5, <1>6 DEF PinInv, Effect
    <2>2. Left' <= 3 => pins'.mclr = 1
      BY <1>2, <1>3, <1>4, <1>5 DEF PinInv, Effect
    <2>3. Left' <= 1 => pins'.data = "out"
      BY <1>2, <1>3, <1>4, <1>5 DEF PinInv, Effect
    <2>4. Left' = 0 => pins'.prog_en = 0
      BY <1>2, <1>3, <1>4, <1>5 DEF PinInv, Effect
    <2> QED
      BY <1>2, <2>1, <2>2, <2>3, <2>4 DEF PinInv
  <1>9. FaultInv'
    <2>1. "lost" \in faults' <=> "lost" \in faults
      BY <1>2, <1>6 DEF Effect
    <2>2. ASSUME Quiet
          PROVE  /\ "early" \in faults' <=> "early" \in faults
                 /\ dev' = "prog" => due' = 0
      BY <1>2, <1>4, <1>5, <2>2 DEF FaultInv, DueInv, Effect
    <2> QED
      BY <1>2, <2>1, <2>2 DEF FaultInv, DueInv
  <1> QED
    BY <1>2, <1>7, <1>8, <1>9 DEF SessionInv

LEMMA CallInCreate ==
    ASSUME SessionInv, Call, stage = "create"
    PROVE  SessionInv'
  <1>1. PICK c : c = Head(calls)
    OBVIOUS
  <1>2. /\ TypeOK /\ CallsInv /\ ModeInv /\ LibInv /\ PinInv /\ FaultInv
        /\ Effect(c) /\ c \in GpioCall /\ CallsInv' /\ TypeOK'
        /\ stage' = "create" /\ guards' = guards /\ op' = op
        /\ interrupted' = interrupted /\ proc' = "running"
        /\ (Guarded' <=> Guarded) /\ (Quiet' <=> Quiet)
        /\ pins.mclr = 0 \/ pins.mclr = 1
    BY <1>1, CallKeeps
  <1>3. PICK whole : whole = <<Do("init"), Do("register")>>
    BY Zenon
  <1>4. Len(whole) = 2 /\ whole[1].do = "init" /\ whole[2].do = "register"
    BY <1>3 DEF Do
  <1>5. whole = Plan(op, stage)
    BY <1>3 DEF Plan
  <1>6. c = whole[2 - Left + 1] /\ Left \in 1 .. 2 /\ Left' = Left - 1
    BY <1>1, <1>4, <1>5, CallAt
  <1>7. /\ Left = 2 => c.do = "init"
        /\ Left = 1 => c.do = "register"
    BY <1>4, <1>6
  <1>8. Left = 2 \/ Left = 1
    BY <1>6
  <1>9. c.do \in {"init", "register"}
    BY <1>7, <1>8
  <1>10. ModeInv' /\ PinInv'
    BY <1>2, <1>9 DEF ModeInv, PinInv, Effect
  <1>11. LibInv'
    <2>1. lib' = "up" /\ Left' # 2
      BY <1>2, <1>6, <1>7, <1>8 DEF LibInv, Effect
    <2> QED
      BY <1>2, <2>1 DEF LibInv
  <1>12. FaultInv'
    BY <1>2, <1>9 DEF FaultInv, DueInv, Effect
  <1> QED
    BY <1>2, <1>10, <1>11, <1>12 DEF SessionInv

LEMMA CallInIgpio ==
    ASSUME SessionInv, Call, stage = "igpio"
    PROVE  SessionInv'
  <1>1. PICK c : c = Head(calls)
    OBVIOUS
  <1>2. /\ TypeOK /\ CallsInv /\ ModeInv /\ LibInv /\ PinInv /\ FaultInv
        /\ Effect(c) /\ c \in GpioCall /\ CallsInv' /\ TypeOK'
        /\ stage' = "igpio" /\ guards' = guards /\ op' = op
        /\ interrupted' = interrupted /\ proc' = "running"
        /\ (Guarded' <=> Guarded) /\ (Quiet' <=> Quiet)
        /\ pins.mclr = 0 \/ pins.mclr = 1
    BY <1>1, CallKeeps
  <1>3. PICK whole : whole = <<Do("terminate")>>
    BY Zenon
  <1>4. Len(whole) = 1 /\ whole[1].do = "terminate"
    BY <1>3 DEF Do
  <1>5. whole = Plan(op, stage)
    BY <1>3 DEF Plan
  <1>6. c = whole[1 - Left + 1] /\ Left \in 1 .. 1 /\ Left' = Left - 1
    BY <1>1, <1>4, <1>5, CallAt
  <1>7. c.do = "terminate" /\ Left' = 0
    BY <1>4, <1>6
  <1>8. ModeInv' /\ PinInv' /\ LibInv'
    BY <1>2, <1>7 DEF ModeInv, PinInv, LibInv, Effect
  <1>9. FaultInv'
    BY <1>2, <1>7 DEF FaultInv, DueInv, Effect
  <1> QED
    BY <1>2, <1>8, <1>9 DEF SessionInv

LEMMA CallInEnter ==
    ASSUME SessionInv, Call, stage = "enter"
    PROVE  SessionInv'
  <1>1. PICK c : c = Head(calls)
    OBVIOUS
  <1>2. /\ TypeOK /\ CallsInv /\ ModeInv /\ LibInv /\ PinInv /\ FaultInv
        /\ Effect(c) /\ c \in GpioCall /\ CallsInv' /\ TypeOK'
        /\ stage' = "enter" /\ guards' = guards /\ op' = op
        /\ interrupted' = interrupted /\ proc' = "running"
        /\ (Guarded' <=> Guarded) /\ (Quiet' <=> Quiet)
        /\ pins.mclr = 0 \/ pins.mclr = 1
    BY <1>1, CallKeeps
  <1>3. c = EnterProgramming[12 - Left + 1] /\ Left \in 1 .. 12 /\ Left' = Left - 1
    <2>1. Plan(op, stage) = EnterProgramming
      BY DEF Plan
    <2>2. Len(EnterProgramming) = 12
      BY EnterCalls
    <2>3. /\ c = EnterProgramming[Len(EnterProgramming) - Left + 1]
          /\ Left \in 1 .. Len(EnterProgramming) /\ Left' = Left - 1
      BY <1>1, <2>1, CallAt
    <2> QED
      BY <2>2, <2>3
  <1>4. /\ Left = 12 => c.do = "mclr" /\ c.arg = 1
        /\ Left = 11 => c.do = "clk"
        /\ Left = 10 => c.do = "data"
        /\ Left = 9 => c.do = "prog_en" /\ c.arg = 0
        /\ Left = 8 => c.do = "prog_en" /\ c.arg = 1
        /\ Left = 7 => c.do = "delay"
        /\ Left = 6 => c.do = "mclr" /\ c.arg = 0
    BY <1>3, EnterCalls DEF Pin, Do, Delay
  <1>5. /\ Left = 5 => c.do = "delay"
        /\ Left = 4 => c.do = "key_begin"
        /\ Left = 3 => c.do = "key_end"
        /\ Left = 2 => c.do = "delay" /\ c.arg = 2200
        /\ Left = 1 => c.do = "entered"
    BY <1>3, EnterCalls DEF Pin, Do, Delay
  <1>6. /\ Left >= 6 => pins.mclr = 1 /\ dev = "run"
        /\ Left <= 7 => pins.prog_en = 1
        /\ Left \in 3 .. 5 => dev = "entry" /\ pins.mclr = 0
        /\ Left <= 2 => dev = "prog" /\ pins.mclr = 0
        /\ ~ in_program_mode /\ lib = "up"
    BY <1>2, <1>3 DEF PinInv, ModeInv, LibInv
  <1>7. /\ "lost" \in faults' <=> "lost" \in faults
        /\ "early" \in faults' <=> "early" \in faults
        /\ lib' = "up"
    <2>1. CASE Left >= 6
      <3>1. c.do \in {"mclr", "clk", "data", "prog_en", "delay"}
        BY <1>3, <1>4, <2>1
      <3> QED
        BY <1>2, <1>6, <2>1, <3>1 DEF Effect
    <2>2. CASE ~ (Left >= 6)
      <3>1. c.do \in {"key_begin", "key_end", "delay", "entered"}
        BY <1>3, <1>5, <2>2
      <3> QED
        BY <1>2, <1>6, <3>1 DEF Effect
    <2> QED
      BY <2>1, <2>2
  <1>8. in_program_mode' <=> Left' = 0
    <2>1. CASE Left = 1
      BY <1>2, <1>3, <1>5, <2>1 DEF Effect
    <2>2. CASE Left # 1
      <3>1. c.do \notin {"entered", "exited"} /\ Left' # 0
        BY <1>3, <1>4, <1>5, <2>2
      <3> QED
        BY <1>2, <1>6, <3>1 DEF Effect
    <2> QED
      BY <2>1, <2>2
  <1>9. PinInv'
    <2>1. CASE Left > 6
      <3>1. pins'.mclr = 1 /\ dev' = "run" /\ Left' >= 6 /\ Left' \in Nat
        <4>1. c.do \in {"clk", "data", "prog_en", "delay"} \/ (c.do = "mclr" /\ c.arg = 1)
          BY <1>3, <1>4, <2>1
        <4>2. pins.mclr = 1 /\ dev = "run"
          BY <1>3, <1>6, <2>1
        <4>3. pins'.mclr = 1 /\ dev' = "run"
          BY <1>2, <4>1, <4>2 DEF Effect
        <4> QED
          BY <1>3, <2>1, <4>3
      <3>2. Left' <= 7 => pins'.prog_en = 1
        <4>1. Left' <= 7 => Left = 8 \/ Left = 7
          BY <1>3, <2>1
        <4> QED
          BY <1>2, <1>4, <1>6, <4>1 DEF Effect
      <3> QED
        BY <1>2, <3>1, <3>2 DEF PinInv
    <2>2. CASE Left = 6
      <3>1. pins'.mclr = 0 /\ dev' = "entry" /\ pins'.prog_en = 1
        BY <1>2, <1>4, <1>6, <2>2 DEF Effect
      <3>2. Left' = 5
        BY <1>3, <2>2
      <3> QED
        BY <1>2, <3>1, <3>2 DEF PinInv
    <2>3. CASE Left = 5 \/ Left = 4
      <3>1. pins'.mclr = 0 /\ dev' = "entry" /\ pins'.prog_en = 1
        BY <1>2, <1>5, <1>6, <2>3 DEF Effect
      <3>2. Left' = 4 \/ Left' = 3
        BY <1>3, <2>3
      <3> QED
        BY <1>2, <3>1, <3>2 DEF PinInv
    <2>4. CASE Left = 3 \/ Left = 2 \/ Left = 1
      <3>1. pins'.mclr = 0 /\ dev' = "prog" /\ pins'.prog_en = 1
        BY <1>2, <1>5, <1>6, <2>4 DEF Effect
      <3>2. Left' = 2 \/ Left' = 1 \/ Left' = 0
        BY <1>3, <2>4
      <3> QED
        BY <1>2, <3>1, <3>2 DEF PinInv
    <2> QED
      BY <1>3, <2>1, <2>2, <2>3, <2>4
  <1>10. ModeInv' /\ LibInv'
    BY <1>2, <1>7, <1>8 DEF ModeInv, LibInv
  <1>11. ASSUME Quiet
         PROVE  /\ Left' = 2 => due' <= 2200
                /\ Left' <= 1 => due' = 0
    <2>1. due \in Nat /\ (Left = 2 => due <= 2200) /\ (Left <= 1 => due = 0)
      BY <1>2, <1>11 DEF FaultInv, DueInv, TypeOK
    <2>2. CASE Left = 3
      <3>1. due' = 2001 /\ Left' = 2
        BY <1>2, <1>3, <1>5, <1>6, <2>2 DEF Effect
      <3> QED
        BY <3>1
    <2>3. CASE Left = 2
      <3>1. ~ (due > c.arg)
        BY <1>5, <2>1, <2>3
      <3>2. due' = 0 /\ Left' = 1
        BY <1>2, <1>3, <1>5, <2>3, <3>1 DEF Effect
      <3> QED
        BY <3>2
    <2>4. CASE Left = 1
      <3>1. due' = 0 /\ Left' = 0
        BY <1>2, <1>3, <1>5, <2>1, <2>4 DEF Effect
      <3> QED
        BY <3>1
    <2>5. CASE Left > 3
      BY <1>3, <2>5
    <2> QED
      BY <1>3, <2>2, <2>3, <2>4, <2>5
  <1>12. FaultInv'
    BY <1>2, <1>7, <1>11 DEF FaultInv, DueInv
  <1> QED
    BY <1>2, <1>9, <1>10, <1>12 DEF SessionInv

LEMMA CallInBody ==
    ASSUME SessionInv, Call, stage = "body"
    PROVE  SessionInv'
  <1>1. PICK c : c = Head(calls)
    OBVIOUS
  <1>2. /\ TypeOK /\ CallsInv /\ ModeInv /\ LibInv /\ PinInv /\ FaultInv
        /\ Effect(c) /\ c \in GpioCall /\ CallsInv' /\ TypeOK'
        /\ stage' = "body" /\ guards' = guards /\ op' = op
        /\ interrupted' = interrupted /\ proc' = "running"
        /\ (Guarded' <=> Guarded) /\ (Quiet' <=> Quiet)
        /\ pins.mclr = 0 \/ pins.mclr = 1
    BY <1>1, CallKeeps
  <1>3. PICK whole : whole = Body[op]
    OBVIOUS
  <1>4. whole \in Seq(BodyGpio) /\ Waits(whole)
    <2>1. op \in Operation
      BY <1>2, SessionAssumption DEF TypeOK, Operation
    <2> QED
      BY <1>3, <2>1, BodyCalls DEF BodySeq
  <1>5. /\ c = whole[Len(whole) - Left + 1] /\ Left \in 1 .. Len(whole)
        /\ Len(whole) \in Nat /\ Left' = Left - 1
    <2>1. whole = Plan(op, stage)
      BY <1>3 DEF Plan
    <2> QED
      BY <1>1, <2>1, CallAt
  <1>6. c.do \in BodyCall
    <2>1. Len(whole) - Left + 1 \in 1 .. Len(whole)
      BY <1>5
    <2>2. c \in BodyGpio
      BY <1>4, <1>5, <2>1
    <2> QED
      BY <2>2 DEF BodyGpio
  <1>7. ModeInv' /\ LibInv'
    BY <1>2, <1>6 DEF ModeInv, LibInv, BodyCall, Effect
  <1>8. pins'.mclr = pins.mclr /\ pins'.prog_en = pins.prog_en
    BY <1>2, <1>6 DEF BodyCall, Effect
  <1>9. CASE ~ Guarded
    <2>1. pins.mclr = 1 /\ dev = "run"
      BY <1>2, <1>9 DEF PinInv
    <2>2. dev' = "run"
      BY <1>2, <1>6, <2>1 DEF BodyCall, Effect
    <2>3. PinInv'
      BY <1>2, <1>8, <1>9, <2>1, <2>2 DEF PinInv
    <2>4. "early" \in faults' <=> "early" \in faults
      BY <1>2, <1>6 DEF BodyCall, Effect
    <2>5. FaultInv'
      BY <1>2, <1>9, <2>4 DEF FaultInv, DueInv
    <2> QED
      BY <1>2, <1>7, <2>3, <2>5 DEF SessionInv
  <1>10. CASE Guarded
    <2>1. dev \in {"prog", "command"} /\ pins.mclr # 1
      BY <1>2, <1>10 DEF PinInv
    <2>2. dev' \in {"prog", "command"}
      BY <1>2, <1>6, <2>1 DEF BodyCall, Effect
    <2>3. PinInv'
      BY <1>2, <1>8, <1>10, <2>1, <2>2 DEF PinInv
    <2>4. /\ "early" \in faults' <=> "early" \in faults
          /\ "lost" \in faults' <=> "lost" \in faults
      BY <1>2, <1>6, <2>1 DEF BodyCall, Effect
    <2>5. ASSUME Quiet
          PROVE  \/ due' <= 1102
                 \/ /\ calls' # <<>> /\ Head(calls').do = "delay"
                    /\ due' <= Head(calls').arg + 1102
      <3>1. due <= 1102 \/ (c.do = "delay" /\ due <= c.arg + 1102)
        BY <1>1, <1>2, <1>10, <2>5 DEF FaultInv, DueInv
      <3>2. PICK us \in Micros, d \in Due : us = c.arg /\ d = due
        <4>1. c.arg \in Micros
          BY <1>2 DEF GpioCall
        <4>2. due \in Due
          BY <1>2 DEF TypeOK, Due
        <4> QED
          BY <4>1, <4>2
      <3>3. CASE c.do = "delay"
        <4>1. due' = IF d > us THEN d - us ELSE 0
          BY <1>2, <3>2, <3>3 DEF Effect
        <4>2. d <= 1102 \/ d <= us + 1102
          BY <3>1, <3>2
        <4> QED
          BY <3>2, <4>1, <4>2, DueAfterDelay
      <3>4. CASE c.do = "commit" /\ dev = "command" /\ us > 101
        <4>1. due' = us + 1001
          BY <1>2, <3>2, <3>4 DEF Effect
        <4>2. PICK i : i = Len(whole) - Left + 1
          OBVIOUS
        <4>3. i \in 1 .. Len(whole) /\ whole[i].do = "commit" /\ whole[i].arg > 101
          BY <1>5, <3>2, <3>4, <4>2
        <4>4. /\ i + 1 \in 1 .. Len(whole) /\ whole[i + 1].do = "delay"
              /\ whole[i].arg <= whole[i + 1].arg
          BY <1>4, <4>3 DEF Waits
        <4>5. calls' # <<>> /\ Head(calls') = whole[i + 1]
          <5>1. calls' \in Seq(GpioCall) /\ EndOf(calls', whole)
            BY <1>2, <1>3 DEF CallsInv, Plan
          <5>2. Len(calls') = Left - 1 /\ Left - 1 >= 1
            BY <1>5, <4>2, <4>4 DEF Left
          <5>3. calls'[1] = whole[Len(whole) - (Left - 1) + 1]
            BY <1>5, <5>1, <5>2 DEF EndOf
          <5>4. Len(whole) - (Left - 1) + 1 = i + 1
            BY <1>5, <4>2
          <5>5. calls' # <<>> /\ Head(calls') = calls'[1]
            BY <5>1, <5>2
          <5> QED
            BY <5>3, <5>4, <5>5
        <4>6. whole[i + 1] \in BodyGpio
          BY <1>4, <4>4
        <4>7. PICK next \in Micros : next = whole[i + 1].arg
          BY <4>6 DEF BodyGpio, GpioCall
        <4>8. us <= next
          BY <1>5, <3>2, <4>2, <4>4, <4>7
        <4>9. us + 1001 <= next + 1102
          BY <4>8, DueAfterCommit
        <4> QED
          BY <4>1, <4>4, <4>5, <4>7, <4>9
      <3>5. CASE c.do = "commit" /\ dev = "command" /\ ~ (us > 101)
        <4>1. due' = us + 1001
          BY <1>2, <3>2, <3>5 DEF Effect
        <4>2. us + 1001 <= 1102
          BY <3>2, <3>5, WaitBounds
        <4> QED
          BY <4>1, <4>2
      <3>6. CASE c.do # "delay" /\ ~ (c.do = "commit" /\ dev = "command")
        <4>1. due' = due
          BY <1>2, <1>6, <3>6 DEF BodyCall, Effect
        <4> QED
          BY <3>1, <3>6, <4>1
      <3> QED
        BY <3>3, <3>4, <3>5, <3>6
    <2>6. FaultInv'
      BY <1>2, <1>10, <2>4, <2>5 DEF FaultInv, DueInv
    <2> QED
      BY <1>2, <1>7, <2>3, <2>6 DEF SessionInv
  <1> QED
    BY <1>9, <1>10

(* The finally block while an exception is in flight: no call of it moves  *)
(* the device.                                                             *)
LEMMA CallInFinally ==
    ASSUME SessionInv, Call, stage = "finally"
    PROVE  SessionInv'
  <1>1. PICK c : c = Head(calls)
    OBVIOUS
  <1>2. /\ TypeOK /\ CallsInv /\ ModeInv /\ LibInv /\ PinInv /\ FaultInv
        /\ Effect(c) /\ c \in GpioCall /\ CallsInv' /\ TypeOK'
        /\ stage' = "finally" /\ guards' = guards /\ op' = op
        /\ interrupted' = interrupted /\ proc' = "running"
        /\ (Guarded' <=> Guarded) /\ (Quiet' <=> Quiet)
        /\ pins.mclr = 0 \/ pins.mclr = 1
    BY <1>1, CallKeeps
  <1>3. c = RestoreData[2 - Left + 1] /\ Left \in 1 .. 2 /\ Left' = Left - 1
    <2>1. Plan(op, stage) = RestoreData
      BY DEF Plan
    <2> QED
      BY <1>1, <2>1, CallAt, RestoreCalls
  <1>4. c.do = "data" \/ c.do = "clk"
    <2>1. Left = 2 \/ Left = 1
      BY <1>3
    <2> QED
      BY <1>3, <2>1, RestoreCalls DEF Do
  <1>5. /\ pins'.mclr = pins.mclr /\ pins'.prog_en = pins.prog_en
        /\ dev' = dev /\ due' = due
    BY <1>2, <1>4 DEF Effect
  <1>6. ModeInv' /\ LibInv'
    BY <1>2, <1>4 DEF ModeInv, LibInv, Effect
  <1>7. PinInv'
    BY <1>2, <1>5 DEF PinInv
  <1>8. /\ "lost" \in faults' <=> "lost" \in faults
        /\ "early" \in faults' <=> "early" \in faults
    BY <1>2, <1>4 DEF Effect
  <1>9. FaultInv'
    BY <1>2, <1>5, <1>8 DEF FaultInv, DueInv
  <1> QED
    BY <1>2, <1>6, <1>7, <1>9 DEF SessionInv

LEMMA CallStep == SessionInv /\ Call => SessionInv'
  <1> SUFFICES ASSUME SessionInv, Call PROVE SessionInv'
    OBVIOUS
  <1>1. stage \in Stage
    BY DEF SessionInv, TypeOK, Stage
  <1>2. stage \notin {"argument", "over"}
    <2>1. ASSUME stage \in {"argument", "over"} PROVE FALSE
      <3>1. PICK whole : whole = <<>>
        OBVIOUS
      <3>2. whole = Plan(op, stage) /\ Len(whole) = 0
        BY <2>1, <3>1 DEF Plan
      <3>3. Left \in 1 .. Len(whole)
        BY <3>2, CallAt
      <3> QED
        BY <3>2, <3>3
    <2> QED
      BY <2>1
  <1> QED
    BY <1>1, <1>2, CallInCreate, CallInCtor, CallInEnter, CallInBody,
       CallInFinally, CallInGuard, CallInHeader, CallInIgpio DEF Stage, Destructors

-----------------------------------------------------------------------------
(* What a scope starts with. *)
LEMMA StartsWith ==
    ASSUME NEW operation \in Operation, NEW st \in Stage,
           NEW s, s = Plan(operation, st)
    PROVE  s \in Seq(GpioCall) /\ EndOf(s, Plan(operation, st))
  BY PlanTyped, WholeEnds

LEMMA ScriptIsPlan ==
    ASSUME NEW st \in Stage, NEW held, NEW mode \in BOOLEAN,
           st = "argument" => "adopt" \notin held,
           st = "guard" => "prog_guard" \in held /\ mode,
           st = "header" => ~ mode
    PROVE  Script(st, held, mode) = Plan(op, st)
  <1>1. CleanupGpio \in Seq(GpioCall)
    BY CleanupCalls
  <1>2. <<>> \o CleanupGpio = CleanupGpio
    BY <1>1, ConcatEmptySeq
  <1>3. CASE st = "header"
    BY <1>2, <1>3 DEF Script, Plan, LeaveIf
  <1>4. CASE st \in {"argument", "guard"}
    BY <1>4 DEF Script, Plan, LeaveIf
  <1>5. CASE st \in {"create", "ctor", "enter", "body", "finally", "igpio", "over"}
    BY <1>5 DEF Script, Plan
  <1> QED
    BY <1>3, <1>4, <1>5 DEF Stage, Destructors

(* The lengths of the scopes that start anew. *)
LEMMA PlanLengths ==
    ASSUME NEW operation
    PROVE  /\ Len(Plan(operation, "create")) = 2
           /\ Len(Plan(operation, "ctor")) = 4
           /\ Len(Plan(operation, "enter")) = 12
           /\ Len(Plan(operation, "argument")) = 0
           /\ Len(Plan(operation, "finally")) = 2
           /\ Len(Plan(operation, "guard")) = 4
           /\ Len(Plan(operation, "header")) = 4
           /\ Len(Plan(operation, "igpio")) = 1
           /\ Plan(operation, "over") = <<>>
  <1>1. /\ Plan(operation, "ctor") = CleanupGpio
        /\ Plan(operation, "enter") = EnterProgramming
        /\ Plan(operation, "finally") = RestoreData
        /\ Plan(operation, "guard") = ExitProgramming
        /\ Plan(operation, "header") = CleanupGpio
        /\ Plan(operation, "argument") = <<>>
        /\ Plan(operation, "over") = <<>>
    BY DEF Plan
  <1>2. Len(Plan(operation, "create")) = 2
    BY DEF Plan
  <1>3. Len(Plan(operation, "igpio")) = 1
    BY DEF Plan
  <1> QED
    BY <1>1, <1>2, <1>3, CleanupCalls, EnterCalls, ExitCalls, RestoreCalls

LEMMA SessionInit == Init => SessionInv
  <1> SUFFICES ASSUME Init PROVE SessionInv
    OBVIOUS
  <1>1. op \in Operation /\ stage = "create" /\ stage \in Stage
    BY SessionAssumption DEF Init, Operation, Stage
  <1>2. calls = Plan(op, stage)
    BY <1>1 DEF Init, Script, Plan
  <1>3. CallsInv
    BY <1>1, <1>2, StartsWith DEF CallsInv
  <1>4. Left = 2
    BY <1>1, <1>2, PlanLengths DEF Left
  <1>5. TypeOK
    <2>1. /\ backend \in Backends /\ op \in Ops
          /\ stage \in {"create", "ctor", "enter", "body", "over"} \cup Destructors
          /\ lib \in {"absent", "up", "down"} /\ guards \in {{}, {"adopt"}, {"prog_guard"}}
          /\ exc \in {"none", "interrupted", "error"}
          /\ interrupted \in BOOLEAN /\ in_program_mode \in BOOLEAN
      BY DEF Init
    <2>2. /\ pins \in [mclr : {0, 1}, prog_en : {0, 1}, data : {"in", "out"}]
          /\ dev \in {"run", "entry", "prog", "command"}
          /\ faults \subseteq {"lost", "early"}
          /\ proc \in {"running", "returned", "failed", "terminated", "killed"}
      BY DEF Init
    <2>3. due \in 0 .. MaxDue
      <3>1. due = 0
        BY DEF Init
      <3>2. 0 \in Due
        <4>1. 0 <= MaxDue
          BY WaitBounds
        <4> QED
          BY <4>1, WaitBounds
      <3> QED
        BY <3>1, <3>2 DEF Due
    <2>4. signals \in 0 .. MaxSignals
      BY SessionAssumption DEF Init
    <2>5. failures \in 0 .. MaxFailures
      BY SessionAssumption DEF Init
    <2> QED
      BY <2>1, <2>2, <2>3, <2>4, <2>5 DEF TypeOK
  <1>6. ModeInv /\ LibInv /\ PinInv
    BY <1>1, <1>4 DEF Init, ModeInv, LibInv, PinInv
  <1>7. FaultInv
    BY <1>1 DEF Init, FaultInv, DueInv
  <1> QED
    BY <1>3, <1>5, <1>6, <1>7 DEF SessionInv

-----------------------------------------------------------------------------
(* The next scope at the end of one. *)
LEMMA EndStageStep == SessionInv /\ EndStage => SessionInv'
  <1> SUFFICES ASSUME SessionInv, EndStage PROVE SessionInv'
    OBVIOUS
  <1>1. TypeOK /\ CallsInv /\ ModeInv /\ LibInv /\ PinInv /\ FaultInv
    BY DEF SessionInv
  <1>2. /\ proc = "running" /\ calls = <<>> /\ stage # "over"
        /\ stage' = AfterStage[stage]
        /\ guards' = CASE stage = "enter" /\ op = "info" -> Moved
                       [] stage = "enter" -> {"prog_guard"}
                       [] stage = "guard" -> {}
                       [] OTHER -> guards
        /\ calls' = Script(stage', guards', in_program_mode)
        /\ UNCHANGED <<backend, op, exc, lib, in_program_mode, device,
                       interrupted, pins, proc, signals, failures>>
    BY DEF EndStage
  <1>3. Left = 0 /\ op \in Operation /\ stage \in Stage
    BY <1>1, <1>2, SessionAssumption DEF Left, TypeOK, Operation, Stage
  <1>4. /\ UNCHANGED <<dev, due, faults>>
        /\ (Guarded' <=> Guarded) /\ (Quiet' <=> Quiet)
    BY <1>2 DEF device, Guarded, Quiet, Is
  <1>5. /\ stage = "create"   => stage' = "ctor"
        /\ stage = "ctor"     => stage' = IF Guarded THEN "enter" ELSE "body"
        /\ stage = "enter"    => stage' \in {"argument", "body"}
        /\ stage = "argument" => stage' = "body"
        /\ stage \in {"body", "finally"} =>
              stage' = IF Guarded THEN "guard" ELSE "header"
        /\ stage = "guard"    => stage' = "header"
        /\ stage = "header"   => stage' = "igpio"
        /\ stage = "igpio"    => stage' = "over"
    BY <1>2 DEF AfterStage, Closing
  <1>6. stage' \in Stage
    BY <1>2, <1>3, <1>5 DEF Stage, Destructors
  <1>7. /\ stage = "enter" => guards' = {"prog_guard"}
        /\ stage = "guard" => guards' = {}
        /\ stage \notin {"enter", "guard"} => guards' = guards
    BY <1>2 DEF Moved
  <1>8. TypeOK'
    <2>1. guards' \in {{}, {"adopt"}, {"prog_guard"}}
      <3>1. guards' = {"prog_guard"} \/ guards' = {} \/ guards' = guards
        BY <1>7
      <3>2. guards \in {{}, {"adopt"}, {"prog_guard"}}
        BY <1>1 DEF TypeOK
      <3> QED
        BY <3>1, <3>2
    <2>2. stage' \in {"create", "ctor", "enter", "body", "over"} \cup Destructors
      BY <1>6 DEF Stage
    <2>3. /\ backend' \in Backends /\ op' \in Ops
          /\ lib' \in {"absent", "up", "down"}
          /\ exc' \in {"none", "interrupted", "error"}
          /\ interrupted' \in BOOLEAN /\ in_program_mode' \in BOOLEAN
          /\ dev' \in {"run", "entry", "prog", "command"}
          /\ proc' \in {"running", "returned", "failed", "terminated", "killed"}
      BY <1>1, <1>2, <1>4 DEF TypeOK
    <2>4. /\ pins' \in [mclr : {0, 1}, prog_en : {0, 1}, data : {"in", "out"}]
          /\ faults' \subseteq {"lost", "early"}
      BY <1>1, <1>2, <1>4 DEF TypeOK
    <2>5. /\ due' \in 0 .. MaxDue
          /\ signals' \in 0 .. MaxSignals /\ failures' \in 0 .. MaxFailures
      BY <1>1, <1>2, <1>4 DEF TypeOK
    <2> QED
      BY <2>1, <2>2, <2>3, <2>4, <2>5 DEF TypeOK
  <1>9. /\ stage \in {"create", "ctor"} => guards = {} /\ ~ in_program_mode
        /\ stage = "enter" => Guarded /\ in_program_mode
        /\ stage \in {"argument", "body", "finally"} =>
              /\ guards = (IF Guarded THEN {"prog_guard"} ELSE {})
              /\ in_program_mode <=> Guarded
        /\ stage = "argument" => Guarded
        /\ stage \in {"guard", "header", "igpio"} => ~ in_program_mode
    BY <1>1, <1>3 DEF ModeInv
  <1>10. /\ stage' = "argument" => guards' = {"prog_guard"}
         /\ stage' = "guard" => guards' = {"prog_guard"} /\ in_program_mode
         /\ stage' = "header" => ~ in_program_mode
    BY <1>2, <1>3, <1>5, <1>7, <1>9 DEF Stage, Destructors
  <1>11. calls' = Plan(op, stage')
    <2>1. in_program_mode \in BOOLEAN
      BY <1>1 DEF TypeOK
    <2> QED
      BY <1>2, <1>6, <1>10, <2>1, ScriptIsPlan
  <1>12. CallsInv'
    BY <1>2, <1>3, <1>6, <1>11, StartsWith DEF CallsInv
  <1>13. /\ stage' = "ctor" => Left' = 4
         /\ stage' = "enter" => Left' = 12
         /\ stage' = "guard" => Left' = 4
         /\ stage' = "header" => Left' = 4
         /\ stage' = "igpio" => Left' = 1
    BY <1>11, PlanLengths DEF Left
  <1>14. ModeInv'
    <2>1. CASE stage = "create"
      BY <1>2, <1>5, <1>7, <1>9, <2>1 DEF ModeInv
    <2>2. CASE stage = "ctor"
      BY <1>2, <1>4, <1>5, <1>7, <1>9, <1>13, <2>2 DEF ModeInv
    <2>3. CASE stage = "enter"
      BY <1>2, <1>4, <1>5, <1>7, <1>9, <2>3 DEF ModeInv
    <2>4. CASE stage = "argument"
      BY <1>2, <1>4, <1>5, <1>7, <1>9, <2>4 DEF ModeInv
    <2>5. CASE stage \in {"body", "finally"}
      BY <1>2, <1>4, <1>5, <1>7, <1>9, <1>13, <2>5 DEF ModeInv
    <2>6. CASE stage \in {"guard", "header", "igpio"}
      BY <1>2, <1>5, <1>9, <2>6 DEF ModeInv
    <2> QED
      BY <1>2, <1>3, <2>1, <2>2, <2>3, <2>4, <2>5, <2>6 DEF Stage, Destructors
  <1>15. LibInv'
    BY <1>1, <1>2, <1>3, <1>5, <1>13 DEF LibInv, Stage, Destructors
  <1>16. PinInv'
    <2>1. pins' = pins /\ dev' = dev
      BY <1>2, <1>4
    <2>2. CASE stage = "create"
      BY <1>1, <1>5, <2>1, <2>2 DEF PinInv
    <2>3. CASE stage = "ctor"
      BY <1>1, <1>4, <1>5, <1>13, <2>1, <2>3 DEF PinInv
    <2>4. CASE stage = "enter"
      <3>1. dev = "prog" /\ Guarded
        BY <1>1, <1>3, <1>9, <2>4 DEF PinInv
      <3> QED
        BY <1>1, <1>4, <1>5, <2>1, <2>4, <3>1 DEF PinInv
    <2>5. CASE stage = "argument"
      BY <1>1, <1>4, <1>5, <2>1, <2>5 DEF PinInv
    <2>6. CASE stage \in {"body", "finally", "guard"}
      BY <1>1, <1>5, <1>13, <2>1, <2>6 DEF PinInv
    <2>7. CASE stage \in {"header", "igpio"}
      BY <1>1, <1>3, <1>5, <2>1, <2>7 DEF PinInv
    <2> QED
      BY <1>2, <1>3, <2>2, <2>3, <2>4, <2>5, <2>6, <2>7 DEF Stage, Destructors
  <1>17. ASSUME Quiet PROVE DueInv'
    <2>1. DueInv /\ due' = due /\ dev' = dev
      BY <1>1, <1>4, <1>17 DEF FaultInv
    <2>2. CASE stage \in {"create", "header", "igpio"}
      BY <1>5, <2>2 DEF DueInv
    <2>3. CASE stage = "ctor"
      BY <1>4, <1>5, <1>13, <2>3 DEF DueInv
    <2>4. CASE stage = "enter"
      <3>1. due = 0
        BY <1>3, <2>1, <2>4 DEF DueInv
      <3> QED
        BY <1>5, <2>1, <2>4, <3>1 DEF DueInv
    <2>5. CASE stage = "argument"
      BY <1>5, <2>1, <2>5 DEF DueInv
    <2>6. CASE stage \in {"body", "finally"}
      <3>1. Guarded => due <= 1102
        BY <1>2, <2>1, <2>6 DEF DueInv
      <3>2. ~ Guarded => dev = "run"
        BY <1>1, <2>6 DEF PinInv
      <3> QED
        BY <1>5, <1>13, <2>1, <2>6, <3>1, <3>2 DEF DueInv
    <2>7. CASE stage = "guard"
      <3>1. dev = "run"
        BY <1>1, <1>3, <2>7 DEF PinInv
      <3> QED
        BY <1>5, <2>1, <2>7, <3>1 DEF DueInv
    <2> QED
      BY <1>2, <1>3, <2>2, <2>3, <2>4, <2>5, <2>6, <2>7 DEF Stage, Destructors
  <1>18. FaultInv'
    BY <1>1, <1>2, <1>4, <1>17 DEF FaultInv
  <1> QED
    BY <1>8, <1>12, <1>14, <1>15, <1>16, <1>18 DEF SessionInv

-----------------------------------------------------------------------------
(***************************************************************************)
(* The next scope after an exception.  While no wait has been cut short,   *)
(* an exception never leaves a delay: the time the delay stands for is     *)
(* then still due when the destructors run.                                *)
(***************************************************************************)
LEMMA RaiseKeeps ==
    ASSUME SessionInv, AtCall, NEW e \in {"interrupted", "error"}, Raise(e),
           Head(calls).do \in {"check", "init"} \/ Head(calls).do \notin Statement,
           Quiet => interrupted' = interrupted /\ Head(calls).do # "delay",
           interrupted' \in BOOLEAN, failures' \in 0 .. MaxFailures,
           UNCHANGED <<host, device, signals>>
    PROVE  SessionInv'
  <1>1. /\ TypeOK /\ CallsInv /\ ModeInv /\ LibInv /\ PinInv /\ FaultInv
        /\ proc = "running" /\ calls # <<>>
        /\ UNCHANGED <<backend, op, lib, guards, in_program_mode, dev, due,
                       faults, signals>>
        /\ (Guarded' <=> Guarded) /\ (Quiet' <=> Quiet)
    BY DEF SessionInv, AtCall, host, device, Guarded, Quiet, Is
  <1>2. CASE InDestructor
    <2>1. proc' = "terminated" /\ UNCHANGED <<stage, calls, exc, pins>>
      BY <1>2 DEF Raise, scope
    <2>2. TypeOK'
      <3>1. /\ backend' \in Backends /\ op' \in Ops
            /\ lib' \in {"absent", "up", "down"}
            /\ exc' \in {"none", "interrupted", "error"}
            /\ in_program_mode' \in BOOLEAN
            /\ dev' \in {"run", "entry", "prog", "command"}
            /\ stage' \in {"create", "ctor", "enter", "body", "over"} \cup Destructors
        BY <1>1, <2>1 DEF TypeOK
      <3>2. /\ pins' \in [mclr : {0, 1}, prog_en : {0, 1}, data : {"in", "out"}]
            /\ faults' \subseteq {"lost", "early"}
            /\ guards' \in {{}, {"adopt"}, {"prog_guard"}}
        BY <1>1, <2>1 DEF TypeOK
      <3>3. due' \in 0 .. MaxDue /\ signals' \in 0 .. MaxSignals
        BY <1>1 DEF TypeOK
      <3> QED
        BY <2>1, <3>1, <3>2, <3>3 DEF TypeOK
    <2>3. CallsInv' /\ ModeInv' /\ LibInv' /\ PinInv'
      BY <1>1, <2>1 DEF CallsInv, ModeInv, LibInv, PinInv, Left
    <2>4. FaultInv'
      BY <1>1, <2>1 DEF FaultInv, DueInv, Left
    <2> QED
      BY <2>2, <2>3, <2>4 DEF SessionInv
  <1>3. CASE ~ InDestructor
    <2>1. /\ exc' = e /\ stage' = Unwound[stage]
          /\ calls' = Script(stage', guards, in_program_mode)
          /\ pins' = pins /\ proc' = "running"
      BY <1>1, <1>3 DEF Raise
    <2>2. /\ op \in Operation /\ Left \in Nat \ {0} /\ stage # "over"
      <3>1. op \in Operation
        BY <1>1, SessionAssumption DEF TypeOK, Operation
      <3>2. Left \in Nat \ {0}
        BY <1>1 DEF CallsInv, Left
      <3>3. ASSUME stage = "over" PROVE FALSE
        <4>1. Plan(op, stage) = <<>>
          BY <3>3, PlanLengths
        <4>2. Len(Plan(op, stage)) = 0
          BY <4>1
        <4>3. Left <= Len(Plan(op, stage))
          BY <1>1 DEF CallsInv, EndOf, Left
        <4> QED
          BY <3>2, <4>2, <4>3
      <3> QED
        BY <3>1, <3>2, <3>3
    <2>3. stage \in {"create", "ctor", "enter", "body"}
      BY <1>1, <1>3, <2>2 DEF TypeOK, InDestructor
    <2>4. /\ stage = "create" => stage' = "over"
          /\ stage = "ctor"   => stage' = "igpio"
          /\ stage = "enter"  => stage' = "header"
          /\ stage = "body"   =>
                \/ stage' = "finally"
                \/ stage' = IF Guarded THEN "guard" ELSE "header"
      BY <2>1 DEF Unwound, Closing
    <2>5. stage' \in Stage
      BY <2>3, <2>4 DEF Stage, Destructors
    <2>6. pins'.mclr = pins.mclr /\ pins'.prog_en = pins.prog_en /\ pins'.data = pins.data
      BY <2>1
    <2>7. TypeOK'
      <3>1. /\ backend' \in Backends /\ op' \in Ops
            /\ lib' \in {"absent", "up", "down"}
            /\ exc' \in {"none", "interrupted", "error"}
            /\ in_program_mode' \in BOOLEAN
            /\ dev' \in {"run", "entry", "prog", "command"}
            /\ stage' \in {"create", "ctor", "enter", "body", "over"} \cup Destructors
        BY <1>1, <2>1, <2>5 DEF TypeOK, Stage
      <3>2. /\ pins' \in [mclr : {0, 1}, prog_en : {0, 1}, data : {"in", "out"}]
            /\ faults' \subseteq {"lost", "early"}
            /\ guards' \in {{}, {"adopt"}, {"prog_guard"}}
        BY <1>1, <2>1 DEF TypeOK
      <3>3. due' \in 0 .. MaxDue /\ signals' \in 0 .. MaxSignals
        BY <1>1 DEF TypeOK
      <3> QED
        BY <2>1, <3>1, <3>2, <3>3 DEF TypeOK
    <2>8. /\ stage \in {"create", "ctor", "enter"} => ~ in_program_mode
          /\ stage = "body" => /\ in_program_mode <=> Guarded
                               /\ guards = (IF Guarded THEN {"prog_guard"} ELSE {})
      BY <1>1, <2>2 DEF ModeInv
    <2>9. calls' = Plan(op, stage')
      <3>1. in_program_mode \in BOOLEAN
        BY <1>1 DEF TypeOK
      <3>2. /\ stage' # "argument"
            /\ stage' = "guard" => "prog_guard" \in guards /\ in_program_mode
            /\ stage' = "header" => ~ in_program_mode
        BY <2>3, <2>4, <2>8
      <3> QED
        BY <2>1, <2>5, <3>1, <3>2, ScriptIsPlan
    <2>10. CallsInv'
      BY <1>1, <2>2, <2>5, <2>9, StartsWith DEF CallsInv
    <2>11. /\ stage' = "guard" => Left' = 4
           /\ stage' = "header" => Left' = 4
           /\ stage' = "igpio" => Left' = 1
      BY <2>9, PlanLengths DEF Left
    <2>12. ModeInv'
      BY <1>1, <2>3, <2>4, <2>8, <2>11 DEF ModeInv
    <2>13. LibInv'
      <3>1. CASE stage = "create"
        <4>1. Left = 2
          <5>1. ASSUME Left # 2 PROVE FALSE
            <6>1. PICK whole : whole = <<Do("init"), Do("register")>>
              BY Zenon
            <6>2. Len(whole) = 2 /\ whole[2].do = "register"
              BY <6>1 DEF Do
            <6>3. EndOf(calls, whole)
              BY <1>1, <3>1, <6>1 DEF CallsInv, Plan
            <6>4. calls[1] = whole[2 - Left + 1] /\ Left <= 2
              BY <2>2, <6>2, <6>3 DEF EndOf, Left
            <6>5. Left = 1
              BY <2>2, <5>1, <6>4
            <6>6. Head(calls) = whole[2]
              BY <1>1, <6>4, <6>5 DEF CallsInv
            <6>7. Head(calls).do = "register" /\ "register" \in Statement
              BY <6>2, <6>6 DEF Statement
            <6>8. Head(calls).do \notin {"check", "init"}
              BY <6>7
            <6> QED
              BY <6>7, <6>8
          <5> QED
            BY <5>1
        <4>2. lib = "absent"
          BY <1>1, <3>1, <4>1 DEF LibInv
        <4> QED
          BY <1>1, <2>1, <2>4, <3>1, <4>2 DEF LibInv
      <3>2. CASE stage = "ctor"
        BY <1>1, <2>1, <2>4, <2>11, <3>2 DEF LibInv
      <3>3. CASE stage \in {"enter", "body"}
        BY <1>1, <2>1, <2>4, <3>3 DEF LibInv
      <3> QED
        BY <2>3, <3>1, <3>2, <3>3
    <2>14. PinInv'
      <3>1. CASE stage \in {"create", "ctor"}
        BY <1>1, <2>4, <2>6, <3>1 DEF PinInv
      <3>2. CASE stage \in {"enter", "body"}
        BY <1>1, <2>4, <2>6, <2>11, <3>2 DEF PinInv
      <3> QED
        BY <2>3, <3>1, <3>2
    <2>15. ASSUME Quiet PROVE DueInv'
      <3>1. DueInv /\ Head(calls).do # "delay"
        BY <1>1, <2>15 DEF FaultInv
      <3>2. CASE stage \in {"create", "ctor"}
        BY <2>4, <3>2 DEF DueInv
      <3>3. CASE stage = "enter"
        <4>1. Left >= 3
          <5>1. ASSUME Left = 1 \/ Left = 2 PROVE FALSE
            <6>1. PICK whole : whole = EnterProgramming
              OBVIOUS
            <6>2. /\ Len(whole) = 12 /\ whole[11].do = "delay"
                  /\ whole[12].do = "entered"
              BY <6>1, EnterCalls DEF Do, Delay
            <6>3. EndOf(calls, whole)
              BY <1>1, <3>3, <6>1 DEF CallsInv, Plan
            <6>4. calls[1] = whole[12 - Left + 1]
              BY <2>2, <6>2, <6>3 DEF EndOf, Left
            <6>5. Head(calls) = calls[1]
              BY <1>1 DEF CallsInv
            <6> QED
              BY <3>1, <5>1, <6>2, <6>4, <6>5 DEF Statement
          <5> QED
            BY <2>2, <5>1
        <4>2. dev # "prog"
          BY <1>1, <2>2, <3>3, <4>1 DEF PinInv
        <4> QED
          BY <1>1, <2>4, <3>3, <4>2 DEF DueInv
      <3>4. CASE stage = "body"
        <4>1. Guarded => due <= 1102
          BY <3>1, <3>4 DEF DueInv
        <4>2. ~ Guarded => dev = "run"
          BY <1>1, <3>4 DEF PinInv
        <4>3. due' = due /\ dev' = dev
          BY <1>1
        <4> QED
          BY <1>1, <2>4, <2>11, <3>4, <4>1, <4>2, <4>3 DEF DueInv
      <3> QED
        BY <2>3, <3>2, <3>3, <3>4
    <2>16. FaultInv'
      BY <1>1, <2>15 DEF FaultInv
    <2> QED
      BY <2>7, <2>10, <2>12, <2>13, <2>14, <2>16 DEF SessionInv
  <1> QED
    BY <1>2, <1>3
(***************************************************************************)
(* Every step of the program and every signal.                             *)
(***************************************************************************)
LEMMA SessionStep == SessionInv /\ [Next]_vars => SessionInv'
  <1> SUFFICES ASSUME SessionInv, [Next]_vars PROVE SessionInv'
    OBVIOUS
  <1>1. /\ TypeOK /\ CallsInv /\ ModeInv /\ LibInv /\ PinInv /\ FaultInv
        /\ interrupted \in BOOLEAN /\ failures \in 0 .. MaxFailures
        /\ signals \in 0 .. MaxSignals
        /\ MaxFailures \in Nat /\ MaxSignals \in Nat
    BY SessionAssumption DEF SessionInv, TypeOK
  <1>2. /\ Is.resets \in BOOLEAN
        /\ Is.handlers <=> Is.delay_checks
    <2>1. backend \in {"mock", "pigpio", "libgpiod"}
      BY <1>1, SessionAssumption DEF TypeOK, Backend
    <2>2. CASE backend = "mock"
      BY <2>2 DEF Is, Backend
    <2>3. CASE backend = "pigpio"
      BY <2>3 DEF Is, Backend
    <2>4. CASE backend = "libgpiod"
      BY <2>4 DEF Is, Backend
    <2> QED
      BY <2>1, <2>2, <2>3, <2>4
  <1>3. CASE Interrupt
    <2>1. /\ AtCall /\ interrupted /\ Head(calls).do \notin Statement
          /\ Raise("interrupted") /\ interrupted' = ~ Is.resets
          /\ UNCHANGED <<host, device, signals, failures>>
      BY <1>3 DEF Interrupt, Throws
    <2>2. ~ Quiet
      BY <1>1, <2>1 DEF FaultInv
    <2>3. interrupted' \in BOOLEAN
      BY <1>2, <2>1
    <2>4. failures' \in 0 .. MaxFailures
      BY <1>1, <2>1
    <2> QED
      BY <2>1, <2>2, <2>3, <2>4, RaiseKeeps
  <1>4. CASE CheckFails
    <2>1. /\ AtCall /\ Raise("error")
          /\ Head(calls).do \in {"check", "init"} /\ Head(calls).do # "delay"
          /\ UNCHANGED <<host, device, interrupted, signals, failures>>
      BY <1>4 DEF CheckFails, Calling, AtCall
    <2>2. interrupted' \in BOOLEAN /\ failures' \in 0 .. MaxFailures
      BY <1>1, <2>1
    <2> QED
      BY <2>1, <2>2, RaiseKeeps
  <1>5. CASE CallFails
    <2>1. /\ AtCall /\ Raise("error") /\ failures < MaxFailures
          /\ Head(calls).do \notin Statement /\ Head(calls).do # "delay"
          /\ failures' = failures + 1
          /\ UNCHANGED <<host, device, interrupted, signals>>
      BY <1>5 DEF CallFails
    <2>2. interrupted' \in BOOLEAN
      BY <1>1, <2>1
    <2>3. failures' \in 0 .. MaxFailures
      BY <1>1, <2>1
    <2> QED
      BY <2>1, <2>2, <2>3, RaiseKeeps
  <1>6. CASE DeviceThrows
    <2>1. /\ AtCall /\ Raise("error") /\ MockThrows(Head(calls))
          /\ UNCHANGED <<host, device, interrupted, signals, failures>>
      BY <1>6 DEF DeviceThrows
    <2>2. Head(calls).do \in {"mclr", "begin", "commit"}
      BY <2>1 DEF MockThrows, RisesEarly, RisesInside, NotListening
    <2>3. Head(calls).do \notin Statement /\ Head(calls).do # "delay"
      BY <2>2 DEF Statement
    <2>4. interrupted' \in BOOLEAN /\ failures' \in 0 .. MaxFailures
      BY <1>1, <2>1
    <2> QED
      BY <2>1, <2>3, <2>4, RaiseKeeps
  <1>7. CASE Call
    BY <1>7, CallStep
  <1>8. CASE EndStage
    BY <1>8, EndStageStep
  <1>9. CASE Return
    <2>1. /\ stage = "over" /\ proc' \in {"returned", "failed"}
          /\ UNCHANGED <<stage, calls, exc, host, device, interrupted, pins,
                         signals, failures>>
      BY <1>9 DEF Return, scope
    <2>2. TypeOK'
      BY <1>1, <2>1 DEF TypeOK, host, device
    <2>3. CallsInv' /\ ModeInv' /\ LibInv' /\ PinInv'
      BY <1>1, <2>1
      DEF CallsInv, ModeInv, LibInv, PinInv, Left, Guarded, host, device
    <2>4. FaultInv'
      BY <1>1, <2>1
      DEF FaultInv, DueInv, Quiet, Is, Left, Guarded, host, device
    <2> QED
      BY <2>2, <2>3, <2>4 DEF SessionInv
  <1>10. CASE Signal
    <2>1. /\ signals < MaxSignals /\ signals' = signals + 1
          /\ UNCHANGED <<stage, calls, exc, host, device, pins, failures>>
          /\ \/ Is.handlers /\ interrupted' = TRUE /\ proc' = proc
             \/ proc' = "killed" /\ interrupted' = interrupted
      BY <1>10 DEF Signal, Registered, scope
    <2>2. /\ interrupted' \in BOOLEAN /\ signals' \in 0 .. MaxSignals
          /\ signals' # 0
          /\ proc' = proc \/ proc' = "killed"
      <3>1. interrupted' \in BOOLEAN /\ (proc' = proc \/ proc' = "killed")
        BY <1>1, <2>1
      <3>2. signals' \in 0 .. MaxSignals /\ signals' # 0
        BY <1>1, <2>1
      <3> QED
        BY <3>1, <3>2
    <2>3. TypeOK'
      BY <1>1, <2>1, <2>2 DEF TypeOK, host, device
    <2>4. CallsInv' /\ ModeInv' /\ LibInv' /\ PinInv'
      BY <1>1, <2>1, <2>2
      DEF CallsInv, ModeInv, LibInv, PinInv, Left, Guarded, host, device
    <2>5. Quiet' => Quiet /\ interrupted' = interrupted
      BY <1>2, <2>1, <2>2 DEF Quiet, Is, host
    <2>6. FaultInv'
      BY <1>1, <2>1, <2>5 DEF FaultInv, DueInv, Left, Guarded, host, device
    <2> QED
      BY <2>3, <2>4, <2>6 DEF SessionInv
  <1>11. CASE UNCHANGED vars
    <2>1. UNCHANGED <<stage, calls, exc, backend, op, lib, guards,
                      in_program_mode, dev, due, faults, interrupted, pins,
                      proc, signals, failures>>
      BY <1>11 DEF vars, scope, host, device
    <2>2. TypeOK'
      BY <1>1, <2>1 DEF TypeOK
    <2>3. CallsInv' /\ ModeInv' /\ LibInv' /\ PinInv'
      BY <1>1, <2>1 DEF CallsInv, ModeInv, LibInv, PinInv, Left, Guarded
    <2>4. FaultInv'
      BY <1>1, <2>1 DEF FaultInv, DueInv, Quiet, Is, Left, Guarded
    <2> QED
      BY <2>2, <2>3, <2>4 DEF SessionInv
  <1> QED
    BY <1>3, <1>4, <1>5, <1>6, <1>7, <1>8, <1>9, <1>10, <1>11 DEF Next, Step

LEMMA SessionAlways == Spec => []SessionInv
  <1> QED
    BY SessionInit, SessionStep, PTL DEF Spec

-----------------------------------------------------------------------------
(* Every variable keeps to its values: at most one ExitProg guard is live, *)
(* so that no second one can end a session that another still holds.       *)
THEOREM SessionTyped == Spec => []TypeOK
  <1>1. SessionInv => TypeOK
    BY DEF SessionInv
  <1> QED
    BY <1>1, SessionAlways, PTL

(* A process that returns from main has put MCLR, PROG_EN and DATA back    *)
(* and left the device running, whatever threw, failed or was signalled on *)
(* the way (the destructors of picprogrammer's scopes).                    *)
THEOREM ReturnReleasesHolds == Spec => []ReturnReleases
  <1>1. SessionInv => ReturnReleases
    <2> SUFFICES ASSUME SessionInv, proc \in {"returned", "failed"}
                 PROVE  Released
      BY DEF ReturnReleases
    <2>1. stage = "over" /\ TypeOK /\ PinInv
      BY DEF SessionInv, LibInv
    <2>2. /\ pins.mclr = 1 /\ pins.prog_en = 0 /\ pins.data = "out"
          /\ dev = "run"
      BY <2>1 DEF PinInv
    <2>3. pins = [mclr |-> 1, prog_en |-> 0, data |-> "out"]
      BY <2>1, <2>2 DEF TypeOK
    <2> QED
      BY <2>2, <2>3 DEF Released
  <1> QED
    BY <1>1, SessionAlways, PTL

(* Every pin call finds the GPIO library initialized, the destructors'     *)
(* calls as well, and it has been given up when main returns.              *)
THEOREM LibraryHolds == Spec => []LibraryEndsLast
  <1>1. SessionInv => LibraryEndsLast
    <2> SUFFICES ASSUME SessionInv PROVE LibraryEndsLast
      OBVIOUS
    <2>1. /\ TypeOK /\ CallsInv /\ LibInv /\ op \in Operation
      BY SessionAssumption DEF SessionInv, TypeOK, Operation
    <2>2. proc \in {"returned", "failed"} => lib # "up"
      BY <2>1 DEF LibInv
    <2>3. ASSUME AtCall, Head(calls).do \notin Statement PROVE lib = "up"
      <3>1. calls # <<>> /\ calls \in Seq(GpioCall) /\ EndOf(calls, Plan(op, stage))
        BY <2>1, <2>3 DEF AtCall, CallsInv
      <3>2. Left \in Nat \ {0} /\ Head(calls) = calls[1]
        BY <3>1 DEF Left
      <3>3. CASE stage = "create"
        <4>1. CASE Left = 2
          <5>1. PICK whole : whole = <<Do("init"), Do("register")>>
            BY Zenon
          <5>2. Len(whole) = 2 /\ whole[1].do = "init"
            BY <5>1 DEF Do
          <5>3. EndOf(calls, whole)
            BY <3>1, <3>3, <5>1 DEF Plan
          <5>4. Head(calls) = whole[1]
            BY <3>2, <4>1, <5>2, <5>3 DEF EndOf, Left
          <5> QED
            BY <2>3, <5>2, <5>4 DEF Statement
        <4>2. CASE Left # 2
          BY <2>1, <3>3, <4>2 DEF LibInv
        <4> QED
          BY <4>1, <4>2
      <3>4. CASE stage = "igpio"
        BY <2>1, <3>2, <3>4 DEF LibInv
      <3>5. CASE stage = "over"
        <4>1. Plan(op, stage) = <<>>
          BY <2>1, <3>5, PlanLengths
        <4>2. Len(Plan(op, stage)) = 0
          BY <4>1
        <4>3. Left <= 0
          BY <3>1, <4>2 DEF EndOf, Left
        <4> QED
          BY <3>2, <4>3
      <3>6. CASE stage \in {"ctor", "enter", "argument", "body", "finally", "guard",
                             "header"}
        BY <2>1, <3>6 DEF LibInv
      <3> QED
        BY <2>1, <3>3, <3>4, <3>5, <3>6 DEF TypeOK, Destructors
    <2> QED
      BY <2>2, <2>3 DEF LibraryEndsLast
  <1> QED
    BY <1>1, SessionAlways, PTL

(* In every operation but erase, which never enters programming mode, no   *)
(* command is sent to a device that is not in it.                          *)
THEOREM CommandsReach == Spec => [](Guarded => CommandsReachDevice)
  <1>1. SessionInv => (Guarded => CommandsReachDevice)
    BY DEF SessionInv, FaultInv, CommandsReachDevice
  <1> QED
    BY <1>1, SessionAlways, PTL

(* Where main dispatches to the guarded operations only, no command is     *)
(* ever lost.                                                              *)
COROLLARY CommandsReachGuarded ==
    ASSUME "erase" \notin Ops PROVE Spec => []CommandsReachDevice
  <1>1. SessionInv => CommandsReachDevice
    BY DEF SessionInv, TypeOK, FaultInv, Guarded, CommandsReachDevice
  <1> QED
    BY <1>1, SessionAlways, PTL

(* Without a signal that a wait may throw for, MCLR never rises before the *)
(* device's exit hold time: the 1102 us of exit_programming are enough     *)
(* after every command that the operations send.                           *)
THEOREM EarlyHolds == Spec => []EarlyOnlyByInterrupt
  <1>1. SessionInv => EarlyOnlyByInterrupt
    <2> SUFFICES ASSUME SessionInv, "early" \in faults
                 PROVE  signals > 0 /\ Is.delay_checks
      BY DEF EarlyOnlyByInterrupt
    <2>1. ~ Quiet /\ signals \in 0 .. MaxSignals
      BY DEF SessionInv, FaultInv, TypeOK
    <2>2. signals # 0 /\ Is.delay_checks
      BY <2>1 DEF Quiet
    <2> QED
      BY <2>1, <2>2, SessionAssumption
  <1> QED
    BY <1>1, SessionAlways, PTL
=============================================================================
