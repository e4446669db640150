--------------------------- MODULE HexFileProofs ---------------------------
(***************************************************************************)
(* The Intel HEX parser, for every region map and every file of lines the  *)
(* parser's buffer has room for (Line of HexFile).  The map need not be in *)
(* order, nor its regions disjoint.                                        *)
(***************************************************************************)
EXTENDS HexFile, RegionFacts, SequenceTheorems

HexElem == [base_addr : Nat, data : Seq(Byte)]

HexBlock == [region : Region, base_addr : Nat, elems : Seq(HexElem)]

Firmware == Seq(HexBlock)

(* A block is opened together with its first element. *)
BlocksHoldElements == \A b \in DOMAIN result : result[b].elems # <<>>

(* What append_data needs of the firmware it appends to. *)
Appendable(fw) == /\ fw \in Firmware /\ fw # <<>>
                  /\ Final(fw).elems # <<>>

(* What append_data makes of the elements es of the last block.            *)
LastExtended(fw, line, es, gs) ==
    /\ LinearAddr(fw, line) = ExpectedAddr(fw)
    /\ Len(gs) = Len(es)
    /\ \A i \in 1 .. Len(es) - 1 : gs[i] = es[i]
    /\ gs[Len(es)].base_addr = es[Len(es)].base_addr
    /\ gs[Len(es)].data = es[Len(es)].data \o Payload(line)

OneAdded(fw, line, es, gs) ==
    /\ LinearAddr(fw, line) # ExpectedAddr(fw)
    /\ Len(gs) = Len(es) + 1
    /\ \A i \in 1 .. Len(es) : gs[i] = es[i]
    /\ gs[Len(es) + 1].base_addr = LinearAddr(fw, line)
    /\ gs[Len(es) + 1].data = Payload(line)

-----------------------------------------------------------------------------
(* Arithmetic that the provers need to be told. *)
LEMMA ProductOfNats == ASSUME NEW x \in Nat, NEW y \in Nat PROVE x * y \in Nat
  OBVIOUS

LEMMA ProductMonotone ==
    ASSUME NEW x \in Nat, NEW y \in Nat, NEW z \in Nat, x <= y
    PROVE  x * z <= y * z
  OBVIOUS

(* Two digits of base n make a number below n * n. *)
LEMMA TwoDigits ==
    ASSUME NEW n \in Nat, NEW x \in 0 .. n - 1, NEW y \in 0 .. n - 1
    PROVE  x * n + y \in 0 .. n * n - 1
  <1>1. x \in Nat /\ n - 1 \in Nat /\ x <= n - 1
    OBVIOUS
  <1>2. x * n <= (n - 1) * n
    BY <1>1, ProductMonotone
  <1>3. (n - 1) * n = n * n - n
    OBVIOUS
  <1>4. x * n \in Nat /\ n * n \in Nat
    BY <1>1, ProductOfNats
  <1> QED
    BY <1>2, <1>3, <1>4

(* The fields of a line that matches the format. *)
LEMMA LineFields ==
    ASSUME NEW line \in Line, Len(line) >= 5
    PROVE  /\ \A i \in 1 .. 4 : line[i] \in Byte
           /\ Addr(line) \in Nat
           /\ Payload(line) \in Seq(Byte)
           /\ Len(Payload(line)) = Len(line) - 5
  <1> USE HexAssumption
  <1>1. line \in Seq(Byte) /\ Len(line) \in Nat
    BY DEF Line
  <1>2. \A i \in 1 .. 4 : line[i] \in Byte
    BY <1>1
  <1>3. line[2] \in Nat /\ line[3] \in Nat
    BY <1>2 DEF Byte
  <1>4. Addr(line) \in Nat
    <2>1. line[2] * Base \in Nat
      BY <1>3, ProductOfNats
    <2> QED
      BY <1>3, <2>1 DEF Addr
  <1>5. Payload(line) \in Seq(Byte) /\ Len(Payload(line)) = Len(line) - 5
    <2>1. \A i \in 5 .. Len(line) - 1 : line[i] \in Byte
      BY <1>1
    <2> DEFINE n == Len(line)
    <2>2. n \in Nat /\ n >= 5
      BY <1>1
    <2> HIDE DEF n
    <2>3. /\ SubSeq(line, 5, n - 1) \in Seq(Byte)
          /\ Len(SubSeq(line, 5, n - 1)) = IF 5 <= n - 1 THEN n - 1 - 5 + 1 ELSE 0
      BY <2>1, <2>2, SubSeqProperties DEF n
    <2>4. Len(SubSeq(line, 5, n - 1)) = n - 5
      BY <2>2, <2>3
    <2> QED
      BY <2>3, <2>4 DEF Payload, n
  <1> QED
    BY <1>2, <1>4, <1>5

(* An extended address is a multiple of the window. *)
LEMMA ExtendedAddress ==
    ASSUME NEW p \in Seq(Byte), Len(p) = 2
    PROVE  /\ (p[1] * Base + p[2]) * Window \in {x * Window : x \in 0 .. Base * Base - 1}
           /\ (p[1] * Base + p[2]) * Window \in Nat
  <1> USE HexAssumption
  <1>1. p[1] \in 0 .. Base - 1 /\ p[2] \in 0 .. Base - 1
    <2>1. \A i \in 1 .. Len(p) : p[i] \in Byte
      BY ElementOfSeq
    <2>2. p[1] \in Byte /\ p[2] \in Byte
      BY <2>1
    <2> QED
      BY <2>2 DEF Byte
  <1>2. p[1] * Base + p[2] \in 0 .. Base * Base - 1
    BY <1>1, TwoDigits
  <1>3. Window \in Nat /\ Base * Base \in Nat
    BY ProductOfNats DEF Window
  <1> DEFINE u == p[1] * Base + p[2]
  <1>4. u \in Nat
    BY <1>2, <1>3
  <1> HIDE DEF u
  <1>5. u * Window \in Nat
    BY <1>3, <1>4, ProductOfNats
  <1> QED
    BY <1>2, <1>5 DEF u

(* The two ways in which append_data changes the elements of a block.      *)
Grown(es, p) == [es EXCEPT ![Len(es)].data = @ \o p]

LastGrown(es, gs, p) ==
    /\ Len(gs) = Len(es)
    /\ \A i \in 1 .. Len(es) - 1 : gs[i] = es[i]
    /\ gs[Len(es)].base_addr = es[Len(es)].base_addr
    /\ gs[Len(es)].data = es[Len(es)].data \o p

LEMMA ElementGrows ==
    ASSUME NEW es \in Seq(HexElem), es # <<>>, NEW p \in Seq(Byte),
           NEW gs, gs = Grown(es, p)
    PROVE  gs \in Seq(HexElem) /\ LastGrown(es, gs, p)
  <1>1. Len(es) \in Nat \ {0} /\ Len(es) \in 1 .. Len(es)
    OBVIOUS
  <1>2. es[Len(es)] \in HexElem
    BY <1>1
  <1> DEFINE v == [es[Len(es)] EXCEPT !.data = @ \o p]
  <1>3. /\ v \in HexElem /\ v.base_addr = es[Len(es)].base_addr
        /\ v.data = es[Len(es)].data \o p
    <2>1. PICK e \in HexElem : e = es[Len(es)]
      BY <1>2
    <2>2. e.data \in Seq(Byte) /\ e.base_addr \in Nat
      BY DEF HexElem
    <2>3. e.data \o p \in Seq(Byte)
      BY <2>2, ConcatProperties
    <2> QED
      BY <2>1, <2>2, <2>3 DEF HexElem
  <1>4. gs = [es EXCEPT ![Len(es)] = v]
    BY DEF Grown
  <1> HIDE DEF v
  <1>5. /\ gs \in Seq(HexElem) /\ Len(gs) = Len(es)
        /\ \A j \in 1 .. Len(es) : gs[j] = IF j = Len(es) THEN v ELSE es[j]
    <2> DEFINE x == [es EXCEPT ![Len(es)] = v]
    <2>1. /\ x \in Seq(HexElem) /\ Len(x) = Len(es)
          /\ \A j \in 1 .. Len(es) : x[j] = IF j = Len(es) THEN v ELSE es[j]
      BY <1>1, <1>3, ExceptSeq
    <2> HIDE DEF x
    <2> QED
      BY <1>4, <2>1 DEF x
  <1> QED
    BY <1>1, <1>3, <1>5 DEF LastGrown

LEMMA ElementAdded ==
    ASSUME NEW es \in Seq(HexElem), NEW p \in Seq(Byte), NEW lin \in Nat,
           NEW gs, gs = Append(es, [base_addr |-> lin, data |-> p])
    PROVE  /\ gs \in Seq(HexElem) /\ Len(gs) = Len(es) + 1
           /\ \A i \in 1 .. Len(es) : gs[i] = es[i]
           /\ gs[Len(es) + 1].base_addr = lin /\ gs[Len(es) + 1].data = p
  <1>1. [base_addr |-> lin, data |-> p] \in HexElem
    BY DEF HexElem
  <1> QED
    BY <1>1, AppendProperties

(* The fields of the last block and of its last element. *)
LEMMA LastFields ==
    ASSUME NEW fw, Appendable(fw), NEW line \in Line, Len(line) >= 5,
           NEW es, es = fw[Len(fw)].elems
    PROVE  /\ fw \in Seq(HexBlock) /\ Len(fw) \in Nat \ {0}
           /\ fw[Len(fw)] \in HexBlock /\ fw[Len(fw)].base_addr \in Nat
           /\ es \in Seq(HexElem) /\ es # <<>> /\ Len(es) \in Nat \ {0}
           /\ es[Len(es)].base_addr \in Nat
           /\ es[Len(es)].data \in Seq(Byte) /\ Len(es[Len(es)].data) \in Nat
           /\ LinearAddr(fw, line) = fw[Len(fw)].base_addr + Addr(line)
           /\ LinearAddr(fw, line) \in Nat
           /\ ExpectedAddr(fw) = es[Len(es)].base_addr + Len(es[Len(es)].data)
           /\ ExpectedAddr(fw) \in Nat
  <1>1. fw \in Seq(HexBlock) /\ Len(fw) \in Nat /\ Len(fw) # 0
    BY DEF Appendable, Firmware
  <1>2. fw[Len(fw)] \in HexBlock
    BY <1>1
  <1>3. es \in Seq(HexElem) /\ es # <<>> /\ fw[Len(fw)].base_addr \in Nat
    BY <1>2 DEF HexBlock, Appendable, Final
  <1>4. Len(es) \in Nat /\ Len(es) # 0
    BY <1>3
  <1>5. PICK e \in HexElem : e = es[Len(es)]
    BY <1>3, <1>4
  <1>6. e.base_addr \in Nat /\ e.data \in Seq(Byte)
    BY DEF HexElem
  <1>7. Len(e.data) \in Nat
    BY <1>6, LenProperties
  <1>8. Addr(line) \in Nat
    BY LineFields
  <1>9. LinearAddr(fw, line) = fw[Len(fw)].base_addr + Addr(line)
    BY DEF LinearAddr, Final
  <1>10. ExpectedAddr(fw) = e.base_addr + Len(e.data)
    BY <1>5 DEF ExpectedAddr, Final
  <1>11. LinearAddr(fw, line) \in Nat /\ ExpectedAddr(fw) \in Nat
    <2>1. fw[Len(fw)].base_addr + Addr(line) \in Nat
      BY <1>3, <1>8
    <2>2. e.base_addr + Len(e.data) \in Nat
      BY <1>6, <1>7
    <2> QED
      BY <1>9, <1>10, <2>1, <2>2
  <1> QED
    BY <1>1, <1>2, <1>3, <1>4, <1>5, <1>6, <1>7, <1>9, <1>10, <1>11

(* append_data changes the last block only, and of it the last element, or *)
(* adds one element after it.                                              *)
LEMMA AppendDataShape ==
    ASSUME NEW fw, Appendable(fw), NEW line \in Line, Len(line) >= 5,
           NEW es, es = fw[Len(fw)].elems,
           NEW g, g = AppendData(fw, line), NEW gs, gs = g[Len(fw)].elems
    PROVE  /\ g \in Firmware /\ Len(g) = Len(fw)
           /\ \A b \in 1 .. Len(fw) - 1 : g[b] = fw[b]
           /\ g[Len(fw)].region = fw[Len(fw)].region
           /\ g[Len(fw)].base_addr = fw[Len(fw)].base_addr
           /\ gs \in Seq(HexElem)
           /\ LastExtended(fw, line, es, gs) \/ OneAdded(fw, line, es, gs)
  <1> DEFINE p == Payload(line)
             lin == LinearAddr(fw, line)
             extended == Grown(es, p)
             added == Append(es, [base_addr |-> lin, data |-> p])
             new == IF lin = ExpectedAddr(fw) THEN extended ELSE added
  <1>1. /\ fw \in Seq(HexBlock) /\ Len(fw) \in 1 .. Len(fw)
        /\ fw[Len(fw)] \in HexBlock /\ es \in Seq(HexElem) /\ es # <<>>
        /\ lin \in Nat
    BY LastFields
  <1>2. p \in Seq(Byte)
    BY LineFields
  <1>3. AppendData(fw, line) = [fw EXCEPT ![Len(fw)].elems = new]
    BY DEF AppendData, Final, Grown
  <1> HIDE DEF p, lin
  <1>4. /\ new \in Seq(HexElem)
        /\ lin = ExpectedAddr(fw) => new = extended
        /\ lin # ExpectedAddr(fw) => new = added
    <2>1. extended \in Seq(HexElem)
      BY <1>1, <1>2, ElementGrows
    <2>2. added \in Seq(HexElem)
      BY <1>1, <1>2, ElementAdded
    <2> HIDE DEF extended, added
    <2> QED
      BY <2>1, <2>2
  <1> DEFINE v == [fw[Len(fw)] EXCEPT !.elems = new]
  <1>5. /\ v \in HexBlock /\ v.elems = new
        /\ v.region = fw[Len(fw)].region /\ v.base_addr = fw[Len(fw)].base_addr
    <2> HIDE DEF new
    <2> QED
      BY <1>1, <1>4 DEF HexBlock
  <1>6. g = [fw EXCEPT ![Len(fw)] = v]
    BY <1>3
  <1> HIDE DEF v, new
  <1>7. /\ g \in Seq(HexBlock) /\ Len(g) = Len(fw)
        /\ \A b \in 1 .. Len(fw) : g[b] = IF b = Len(fw) THEN v ELSE fw[b]
    BY <1>1, <1>5, <1>6, ExceptSeq
  <1>8. /\ g \in Firmware /\ Len(g) = Len(fw) /\ gs = new
        /\ \A b \in 1 .. Len(fw) - 1 : g[b] = fw[b]
        /\ g[Len(fw)].region = fw[Len(fw)].region
        /\ g[Len(fw)].base_addr = fw[Len(fw)].base_addr
    BY <1>1, <1>5, <1>7 DEF Firmware
  <1>9. CASE lin = ExpectedAddr(fw)
    <2>1. gs = extended
      BY <1>4, <1>8, <1>9
    <2>2. LastGrown(es, gs, p)
      <3>1. gs = Grown(es, p)
        BY <2>1
      <3>2. es \in Seq(HexElem) /\ es # <<>> /\ p \in Seq(Byte)
        BY <1>1, <1>2
      <3> HIDE DEF extended, added
      <3> QED
        BY <3>1, <3>2, ElementGrows
    <2> QED
      BY <1>4, <1>8, <1>9, <2>2 DEF lin, p, LastExtended, LastGrown
  <1>10. CASE lin # ExpectedAddr(fw)
    <2>1. gs = added
      BY <1>4, <1>8, <1>10
    <2>2. /\ Len(gs) = Len(es) + 1
          /\ \A i \in 1 .. Len(es) : gs[i] = es[i]
          /\ gs[Len(es) + 1].base_addr = lin /\ gs[Len(es) + 1].data = p
      BY <1>1, <1>2, <2>1, ElementAdded
    <2> QED
      BY <1>4, <1>8, <1>10, <2>2 DEF lin, p, OneAdded
  <1> QED
    BY <1>9, <1>10

(* process_init_record leaves the firmware as it is, or adds a block with  *)
(* one empty element, whose region holds the element's address.            *)
LEMMA OpenedShape ==
    ASSUME TypeOK, BlocksHoldElements, NEW line \in Line, Len(line) >= 5,
           Acceptable(line),
           NEW fw, fw = Opened(line), NEW addr, addr = BaseOr0 + Addr(line)
    PROVE  /\ Appendable(fw) /\ BaseOr0 \in Nat /\ addr \in Nat
           /\ ~ Opens => fw = result
           /\ Opens => /\ Len(fw) = Len(result) + 1
                       /\ \A b \in 1 .. Len(result) : fw[b] = result[b]
                       /\ fw[Len(fw)].base_addr = BaseOr0
                       /\ fw[Len(fw)].elems = <<[base_addr |-> addr, data |-> <<>>]>>
                       /\ fw[Len(fw)].region \in {Map[i] : i \in DOMAIN Map}
                       /\ InRegion(addr, fw[Len(fw)].region)
  <1> USE HexAssumption
  <1>1. result \in Firmware
    BY DEF TypeOK, Firmware, HexBlock, HexElem
  <1>2. BaseOr0 \in Nat
    <2>1. Base * Base \in Nat /\ Window \in Nat
      BY ProductOfNats DEF Window
    <2>2. ASSUME base_addr # NoBase
          PROVE  base_addr \in Nat
      <3>1. PICK x \in 0 .. Base * Base - 1 : base_addr = x * Window
        BY <2>2 DEF TypeOK
      <3>2. x \in Nat
        BY <2>1
      <3> QED
        BY <2>1, <3>1, <3>2, ProductOfNats
    <2> QED
      BY <2>2 DEF BaseOr0
  <1>3. addr \in Nat
    BY <1>2, LineFields
  <1>4. CASE ~ Opens
    <2>1. fw = result
      BY <1>4 DEF Opened
    <2>2. result # <<>>
      BY <1>4 DEF Opens
    <2>3. Len(result) \in DOMAIN result
      BY <1>1, <2>2 DEF Firmware
    <2> QED
      BY <1>1, <1>2, <1>3, <1>4, <2>1, <2>2, <2>3
         DEF Appendable, Final, BlocksHoldElements
  <1>5. CASE Opens
    <2> DEFINE e == [base_addr |-> addr, data |-> <<>>]
               block == [region |-> WithRegion(Map, addr),
                         base_addr |-> BaseOr0, elems |-> <<e>>]
    <2>1. fw = Append(result, block)
      BY <1>5 DEF Opened
    <2>2. Mapped(Map, addr)
      BY <1>5 DEF Acceptable
    <2>3. /\ WithRegion(Map, addr) \in {Map[i] : i \in DOMAIN Map}
          /\ WithRegion(Map, addr) \in Region
          /\ InRegion(addr, WithRegion(Map, addr))
      BY <1>3, <2>2, FirstMatchExists
    <2>4. block \in HexBlock
      <3>1. e \in HexElem
        BY <1>3 DEF HexElem
      <3>2. <<e>> \in Seq(HexElem)
        BY <3>1
      <3> HIDE DEF e
      <3> QED
        BY <1>2, <2>3, <3>2 DEF HexBlock
    <2>5. /\ block.region = WithRegion(Map, addr)
          /\ block.base_addr = BaseOr0 /\ block.elems = <<e>> /\ <<e>> # <<>>
      OBVIOUS
    <2> HIDE DEF block, e
    <2>6. /\ fw \in Firmware /\ fw # <<>> /\ Len(fw) = Len(result) + 1
          /\ \A b \in 1 .. Len(result) : fw[b] = result[b]
          /\ fw[Len(fw)] = block
      BY <1>1, <2>1, <2>4, AppendProperties DEF Firmware
    <2> QED
      BY <1>2, <1>3, <1>5, <2>3, <2>5, <2>6 DEF Appendable, Final, e
  <1> QED
    BY <1>4, <1>5

-----------------------------------------------------------------------------
(* The two properties of a block that the parser keeps. *)
Separated(es) ==
    \A i, j \in DOMAIN es :
        i < j => es[i].base_addr + Len(es[i].data) < es[j].base_addr

InsideRegion(b) ==
    /\ b.region \in {Map[i] : i \in DOMAIN Map}
    /\ \A i \in DOMAIN b.elems : InRegion(b.elems[i].base_addr, b.region)

(* A longer last element, and one more behind a gap, leave the elements    *)
(* apart.                                                                  *)
LEMMA SeparatedGrows ==
    ASSUME NEW es \in Seq(HexElem), NEW gs \in Seq(HexElem), es # <<>>,
           Len(gs) = Len(es),
           \A i \in 1 .. Len(es) - 1 : gs[i] = es[i],
           gs[Len(es)].base_addr = es[Len(es)].base_addr,
           Separated(es)
    PROVE  Separated(gs)
  <1> SUFFICES ASSUME NEW i \in 1 .. Len(es), NEW j \in 1 .. Len(es), i < j
               PROVE  gs[i].base_addr + Len(gs[i].data) < gs[j].base_addr
    BY DEF Separated
  <1>1. i \in 1 .. Len(es) - 1 /\ gs[i] = es[i]
    OBVIOUS
  <1>2. gs[j].base_addr = es[j].base_addr
    OBVIOUS
  <1>3. i \in DOMAIN es /\ j \in DOMAIN es
    OBVIOUS
  <1>4. es[i].base_addr + Len(es[i].data) < es[j].base_addr
    BY <1>3 DEF Separated
  <1> QED
    BY <1>1, <1>2, <1>4

LEMMA SeparatedAdded ==
    ASSUME NEW es \in Seq(HexElem), NEW gs \in Seq(HexElem), es # <<>>,
           Len(gs) = Len(es) + 1,
           \A i \in 1 .. Len(es) : gs[i] = es[i],
           gs[Len(es) + 1].base_addr > es[Len(es)].base_addr + Len(es[Len(es)].data),
           Separated(es)
    PROVE  Separated(gs)
  <1> SUFFICES ASSUME NEW i \in 1 .. Len(es) + 1, NEW j \in 1 .. Len(es) + 1, i < j
               PROVE  gs[i].base_addr + Len(gs[i].data) < gs[j].base_addr
    BY DEF Separated
  <1>1. i \in 1 .. Len(es) /\ gs[i] = es[i]
    OBVIOUS
  <1>2. CASE j \in 1 .. Len(es)
    BY <1>1, <1>2 DEF Separated
  <1>3. CASE j = Len(es) + 1
    <2>1. PICK last \in HexElem : last = es[Len(es)]
      OBVIOUS
    <2>2. PICK e \in HexElem : e = es[i]
      BY <1>1
    <2>3. PICK x \in HexElem : x = gs[j]
      OBVIOUS
    <2>4. /\ last.base_addr \in Nat /\ last.data \in Seq(Byte)
          /\ e.base_addr \in Nat /\ e.data \in Seq(Byte) /\ x.base_addr \in Nat
      BY DEF HexElem
    <2>5. Len(last.data) \in Nat /\ Len(e.data) \in Nat
      BY <2>4, LenProperties
    <2>6. x.base_addr > last.base_addr + Len(last.data)
      BY <1>3, <2>1, <2>3
    <2>7. i # Len(es) => e.base_addr + Len(e.data) < last.base_addr
      BY <1>1, <2>1, <2>2 DEF Separated
    <2>8. CASE i = Len(es)
      BY <1>1, <1>3, <2>1, <2>3, <2>6, <2>8
    <2>9. CASE i # Len(es)
      <3>1. e.base_addr + Len(e.data) < x.base_addr
        <4> DEFINE k == e.base_addr + Len(e.data)
                   l == Len(last.data)
        <4>1. k \in Nat /\ l \in Nat
          BY <2>4, <2>5
        <4> HIDE DEF k, l
        <4>2. k < last.base_addr /\ x.base_addr > last.base_addr + l
          BY <2>6, <2>7, <2>9 DEF k, l
        <4> QED
          BY <2>4, <4>1, <4>2 DEF k
      <3> QED
        BY <1>1, <2>2, <2>3, <3>1
    <2> QED
      BY <2>8, <2>9
  <1> QED
    BY <1>2, <1>3

GoodBlock(b) == b.elems # <<>> /\ Separated(b.elems) /\ InsideRegion(b)

BlocksGood == \A b \in DOMAIN result : GoodBlock(result[b])

LayoutInv == TypeOK /\ BlocksGood

(* append_data keeps the block it appends to good: its checks on the first *)
(* byte of a line are enough for where elements start.                     *)
LEMMA AppendKeepsGood ==
    ASSUME NEW fw, Appendable(fw), NEW line \in Line, Len(line) >= 5,
           NonOverlapping(fw, line), InBounds(fw, line),
           GoodBlock(fw[Len(fw)])
    PROVE  GoodBlock(AppendData(fw, line)[Len(fw)])
  <1>1. PICK g : g = AppendData(fw, line)
    OBVIOUS
  <1>2. PICK es, gs : es = fw[Len(fw)].elems /\ gs = g[Len(fw)].elems
    OBVIOUS
  <1>3. /\ es \in Seq(HexElem) /\ es # <<>> /\ Len(es) \in Nat \ {0}
        /\ LinearAddr(fw, line) \in Nat /\ ExpectedAddr(fw) \in Nat
        /\ ExpectedAddr(fw) = es[Len(es)].base_addr + Len(es[Len(es)].data)
    BY <1>2, LastFields
  <1>4. /\ g[Len(fw)].region = fw[Len(fw)].region
        /\ gs \in Seq(HexElem)
        /\ LastExtended(fw, line, es, gs) \/ OneAdded(fw, line, es, gs)
    BY <1>1, <1>2, AppendDataShape
  <1>5. /\ Separated(es)
        /\ fw[Len(fw)].region \in {Map[i] : i \in DOMAIN Map}
        /\ \A i \in DOMAIN es : InRegion(es[i].base_addr, fw[Len(fw)].region)
    BY <1>2 DEF GoodBlock, InsideRegion
  <1> SUFFICES /\ gs # <<>> /\ Separated(gs)
               /\ \A i \in DOMAIN gs : InRegion(gs[i].base_addr, fw[Len(fw)].region)
    BY <1>1, <1>2, <1>4, <1>5 DEF GoodBlock, InsideRegion
  <1>6. CASE LastExtended(fw, line, es, gs)
    <2>1. /\ Len(gs) = Len(es)
          /\ \A i \in 1 .. Len(es) - 1 : gs[i] = es[i]
          /\ gs[Len(es)].base_addr = es[Len(es)].base_addr
      BY <1>6 DEF LastExtended
    <2>2. Separated(gs)
      BY <1>3, <1>4, <1>5, <2>1, SeparatedGrows
    <2>3. \A i \in DOMAIN gs : i \in DOMAIN es /\ gs[i].base_addr = es[i].base_addr
      BY <1>3, <1>4, <2>1
    <2> QED
      BY <1>3, <1>5, <2>1, <2>2, <2>3
  <1>7. CASE OneAdded(fw, line, es, gs)
    <2>1. /\ LinearAddr(fw, line) # ExpectedAddr(fw)
          /\ Len(gs) = Len(es) + 1
          /\ \A i \in 1 .. Len(es) : gs[i] = es[i]
          /\ gs[Len(es) + 1].base_addr = LinearAddr(fw, line)
      BY <1>7 DEF OneAdded
    <2>2. LinearAddr(fw, line) > ExpectedAddr(fw)
      BY <1>3, <2>1 DEF NonOverlapping
    <2>3. gs[Len(es) + 1].base_addr > es[Len(es)].base_addr + Len(es[Len(es)].data)
      BY <1>3, <2>1, <2>2
    <2>4. Separated(gs)
      BY <1>3, <1>4, <1>5, <2>1, <2>3, SeparatedAdded
    <2>5. InRegion(LinearAddr(fw, line), fw[Len(fw)].region)
      BY DEF InBounds, Final
    <2>6. \A i \in DOMAIN gs :
             \/ i \in DOMAIN es /\ gs[i] = es[i]
             \/ i = Len(es) + 1
      <3>1. DOMAIN gs = 1 .. Len(es) + 1 /\ DOMAIN es = 1 .. Len(es)
        BY <1>3, <1>4, <2>1
      <3>2. \A i \in 1 .. Len(es) + 1 : i \in 1 .. Len(es) \/ i = Len(es) + 1
        BY <1>3
      <3> QED
        BY <2>1, <3>1, <3>2
    <2>7. gs # <<>>
      BY <1>3, <1>4, <2>1
    <2> QED
      BY <1>5, <2>1, <2>4, <2>5, <2>6, <2>7
  <1> QED
    BY <1>4, <1>6, <1>7

(* So does the whole of a data record, with the block it may open. *)
LEMMA DataRecordKeepsGood ==
    ASSUME TypeOK, BlocksGood, NEW line \in Line, Len(line) >= 5,
           Acceptable(line), NEW g, g = AppendData(Opened(line), line)
    PROVE  /\ g \in Firmware
           /\ \A b \in DOMAIN g : GoodBlock(g[b])
  <1>1. PICK fw, addr : fw = Opened(line) /\ addr = BaseOr0 + Addr(line)
    OBVIOUS
  <1>2. BlocksHoldElements
    BY DEF BlocksGood, GoodBlock, BlocksHoldElements
  <1>3. /\ Appendable(fw)
        /\ ~ Opens => fw = result
        /\ Opens => /\ Len(fw) = Len(result) + 1
                    /\ \A b \in 1 .. Len(result) : fw[b] = result[b]
                    /\ fw[Len(fw)].elems = <<[base_addr |-> addr, data |-> <<>>]>>
                    /\ fw[Len(fw)].region \in {Map[i] : i \in DOMAIN Map}
                    /\ InRegion(addr, fw[Len(fw)].region)
    BY <1>1, <1>2, OpenedShape
  <1>4. result \in Firmware /\ DOMAIN result = 1 .. Len(result) /\ Len(result) \in Nat
    BY DEF TypeOK, Firmware, HexBlock, HexElem
  <1>5. fw \in Firmware /\ fw # <<>> /\ Len(fw) \in Nat \ {0} /\ DOMAIN fw = 1 .. Len(fw)
    BY <1>3 DEF Appendable, Firmware
  <1>6. \A b \in DOMAIN fw : GoodBlock(fw[b])
    <2>1. CASE ~ Opens
      BY <1>3, <2>1 DEF BlocksGood
    <2>2. CASE Opens
      <3>1. GoodBlock(fw[Len(fw)])
        <4>1. PICK es : es = <<[base_addr |-> addr, data |-> <<>>]>>
          OBVIOUS
        <4>2. es # <<>> /\ DOMAIN es = {1} /\ es[1].base_addr = addr
          BY <4>1
        <4>3. Separated(es)
          BY <4>2 DEF Separated
        <4> QED
          BY <1>3, <2>2, <4>1, <4>2, <4>3 DEF GoodBlock, InsideRegion
      <3>2. \A b \in DOMAIN fw :
               b = Len(fw) \/ (b \in DOMAIN result /\ fw[b] = result[b])
        BY <1>3, <1>4, <1>5, <2>2
      <3> QED
        BY <3>1, <3>2 DEF BlocksGood
    <2> QED
      BY <2>1, <2>2
  <1>7. NonOverlapping(fw, line) /\ InBounds(fw, line)
    BY <1>1 DEF Acceptable
  <1>8. /\ g \in Firmware /\ Len(g) = Len(fw)
        /\ \A b \in 1 .. Len(fw) - 1 : g[b] = fw[b]
    BY <1>1, <1>3, AppendDataShape
  <1>9. GoodBlock(g[Len(fw)])
    <2>1. g = AppendData(fw, line) /\ GoodBlock(fw[Len(fw)])
      BY <1>1, <1>5, <1>6
    <2>2. GoodBlock(AppendData(fw, line)[Len(fw)])
      BY <1>3, <1>7, <2>1, AppendKeepsGood
    <2> QED
      BY <2>1, <2>2
  <1>10. \A b \in DOMAIN g :
              b = Len(fw) \/ (b \in DOMAIN fw /\ g[b] = fw[b])
    BY <1>5, <1>8 DEF Firmware
  <1> QED
    BY <1>6, <1>8, <1>9, <1>10

-----------------------------------------------------------------------------
(* A line that is read is one of the file's and matches the format. *)
LEMMA LineRead ==
    ASSUME TypeOK, NEW kind, Reading(kind)
    PROVE  /\ file[at] \in Line /\ Len(file[at]) >= 5
           /\ at \in Nat \ {0} /\ at + 1 \in 1 .. Len(file) + 1
  <1>1. file \in Seq(Line) /\ at \in DOMAIN file
    BY DEF TypeOK, Reading
  <1> QED
    BY <1>1 DEF Reading, WellFormedLine

LEMMA LayoutStart == file \in Seq(Line) /\ Start => LayoutInv
  <1> SUFFICES ASSUME file \in Seq(Line), Start PROVE LayoutInv
    OBVIOUS
  <1>1. Len(file) \in Nat
    OBVIOUS
  <1> QED
    BY <1>1 DEF Start, LayoutInv, TypeOK, BlocksGood

LEMMA LayoutInit == Init => LayoutInv
  BY HexAssumption, LayoutStart DEF Init

LEMMA LayoutStep == LayoutInv /\ [Next]_vars => LayoutInv'
  <1> SUFFICES ASSUME LayoutInv, [Next]_vars PROVE LayoutInv'
    OBVIOUS
  <1>1. TypeOK /\ BlocksGood
    BY DEF LayoutInv
  <1>2. CASE DataRecord
    <2>1. /\ Reading("DATA") /\ Acceptable(file[at])
          /\ result' = AppendData(Opened(file[at]), file[at])
          /\ base_addr' = NoBase /\ at' = at + 1
          /\ UNCHANGED <<file, status>>
      BY <1>2 DEF DataRecord
    <2>2. /\ file[at] \in Line /\ Len(file[at]) >= 5
          /\ at' \in 1 .. Len(file) + 1
      BY <1>1, <2>1, LineRead
    <2>3. /\ result' \in Firmware
          /\ \A b \in DOMAIN result' : GoodBlock(result'[b])
      BY <1>1, <2>1, <2>2, DataRecordKeepsGood
    <2>4. TypeOK'
      BY <1>1, <2>1, <2>2, <2>3 DEF TypeOK, Firmware, HexBlock, HexElem
    <2> QED
      BY <2>3, <2>4 DEF LayoutInv, BlocksGood
  <1>3. CASE RejectData \/ EndOfFileRecord \/ NoMoreLines
    BY <1>1, <1>3 DEF RejectData, EndOfFileRecord, NoMoreLines, LayoutInv,
                      TypeOK, BlocksGood
  <1>4. CASE ExtendedAddressRecord
    <2>1. Reading("EXTENDED_LIN_ADDR") /\ UNCHANGED <<file, result>>
      BY <1>4 DEF ExtendedAddressRecord
    <2>2. /\ file[at] \in Line /\ Len(file[at]) >= 5
          /\ at + 1 \in 1 .. Len(file) + 1
      BY <1>1, <2>1, LineRead
    <2>3. PICK p : p = Payload(file[at])
      OBVIOUS
    <2>4. p \in Seq(Byte)
      BY <2>2, <2>3, LineFields
    <2>5. CASE Len(p) = 2
      <3>1. base_addr' = (p[1] * Base + p[2]) * Window /\ at' = at + 1
            /\ status' = status
        BY <1>4, <2>3, <2>5 DEF ExtendedAddressRecord
      <3>2. base_addr' \in {x * Window : x \in 0 .. Base * Base - 1}
        BY <2>4, <2>5, <3>1, ExtendedAddress
      <3>3. TypeOK'
        BY <1>1, <2>1, <2>2, <3>1, <3>2 DEF TypeOK
      <3> QED
        BY <1>1, <2>1, <3>3 DEF LayoutInv, BlocksGood
    <2>6. CASE Len(p) # 2
      <3>1. UNCHANGED <<at, base_addr>> /\ status' = "error"
        BY <1>4, <2>3, <2>6 DEF ExtendedAddressRecord
      <3>2. TypeOK'
        BY <1>1, <2>1, <3>1 DEF TypeOK
      <3> QED
        BY <1>1, <2>1, <3>2 DEF LayoutInv, BlocksGood
    <2> QED
      BY <2>5, <2>6
  <1>5. CASE UNCHANGED vars
    BY <1>1, <1>5 DEF vars, LayoutInv, TypeOK, BlocksGood
  <1> QED
    BY <1>2, <1>3, <1>4, <1>5 DEF Next

LEMMA LayoutAlways == Spec => []LayoutInv
  BY LayoutInit, LayoutStep, PTL DEF Spec

LEMMA LayoutMeans ==
    LayoutInv => TypeOK /\ ElementsSeparated /\ ElementsInRegion
  BY DEF LayoutInv, BlocksGood, GoodBlock, Separated, InsideRegion,
         ElementsSeparated, ElementsInRegion

(* The parser's state keeps its types for every file of lines its buffer   *)
(* has room for, malformed ones too: every block it opens has a region of  *)
(* the map.                                                                *)
THEOREM ParserTyped == Spec => []TypeOK
  <1> QED
    BY LayoutMeans, LayoutAlways, PTL

(* In every block the elements are apart and in order: consecutive lines   *)
(* make one element, and overlapping ones are rejected.                    *)
THEOREM SeparatedHolds == Spec => []ElementsSeparated
  <1> QED
    BY LayoutMeans, LayoutAlways, PTL

(* Every element starts in the region of its block, a region of the map.   *)
THEOREM InRegionHolds == Spec => []ElementsInRegion
  <1> QED
    BY LayoutMeans, LayoutAlways, PTL

-----------------------------------------------------------------------------
(***************************************************************************)
(* The Firmware holds the bytes of the lines read, and no other.  What the *)
(* parser keeps of the extended records is base_addr until it is used, and *)
(* the base of the last block afterwards: together they always are the     *)
(* window the format says is in force.                                     *)
(***************************************************************************)
Exts(f, n) == {i \in 1 .. n : f[i][4] = RecordType["EXTENDED_LIN_ADDR"]}

UpperOf(f, n) ==
    LET p == Payload(f[CHOOSE i \in Exts(f, n) : \A j \in Exts(f, n) : j <= i])
    IN  IF Exts(f, n) = {} THEN 0 ELSE (p[1] * Base + p[2]) * Window

InElem(x, e) ==
    \E k \in DOMAIN e.data : x = <<e.base_addr + k - 1, e.data[k]>>

InElems(x, es) == \E i \in DOMAIN es : InElem(x, es[i])

InFirmware(x, fw) == \E b \in DOMAIN fw : InElems(x, fw[b].elems)

InLine(x, base, line) ==
    \E k \in DOMAIN Payload(line) :
        x = <<base + Addr(line) + k - 1, Payload(line)[k]>>

InFile(x, f, n) ==
    \E i \in 1 .. n : /\ f[i][4] = RecordType["DATA"]
                      /\ InLine(x, UpperOf(f, i), f[i])

WindowInForce ==
    IF base_addr # NoBase THEN base_addr
    ELSE IF result = <<>> THEN 0 ELSE Final(result).base_addr

HoldsInv ==
    /\ WindowInForce = UpperOf(file, at - 1)
    /\ \A x : InFirmware(x, result) <=> InFile(x, file, at - 1)

(* The window changes with an extended record and with nothing else. *)
LEMMA UpperOfNext ==
    ASSUME NEW f, NEW n \in Nat \ {0}
    PROVE  /\ f[n][4] # RecordType["EXTENDED_LIN_ADDR"]
                => UpperOf(f, n) = UpperOf(f, n - 1)
           /\ f[n][4] = RecordType["EXTENDED_LIN_ADDR"]
                => UpperOf(f, n) =
                      (Payload(f[n])[1] * Base + Payload(f[n])[2]) * Window
  <1>1. ASSUME f[n][4] # RecordType["EXTENDED_LIN_ADDR"]
        PROVE  UpperOf(f, n) = UpperOf(f, n - 1)
    <2>1. Exts(f, n) = Exts(f, n - 1)
      BY <1>1 DEF Exts
    <2> QED
      BY <2>1 DEF UpperOf
  <1>2. ASSUME f[n][4] = RecordType["EXTENDED_LIN_ADDR"]
        PROVE  UpperOf(f, n) =
                  (Payload(f[n])[1] * Base + Payload(f[n])[2]) * Window
    <2> DEFINE last == CHOOSE i \in Exts(f, n) : \A j \in Exts(f, n) : j <= i
    <2>1. n \in Exts(f, n) /\ \A j \in Exts(f, n) : j \in Nat /\ j <= n
      BY <1>2 DEF Exts
    <2>2. last \in Exts(f, n) /\ \A j \in Exts(f, n) : j <= last
      BY <2>1
    <2>3. last = n
      <3> HIDE DEF last
      <3> QED
        BY <2>1, <2>2
    <2> QED
      BY <2>1, <2>3 DEF UpperOf
  <1> QED
    BY <1>1, <1>2

(* A line adds its own bytes if it is a data record, and none otherwise. *)
LEMMA InFileNext ==
    ASSUME NEW f, NEW n \in Nat \ {0}, NEW x
    PROVE  /\ f[n][4] = RecordType["DATA"] =>
                (InFile(x, f, n) <=>
                    InFile(x, f, n - 1) \/ InLine(x, UpperOf(f, n), f[n]))
           /\ f[n][4] # RecordType["DATA"] =>
                (InFile(x, f, n) <=> InFile(x, f, n - 1))
  <1>1. \A i : i \in 1 .. n <=> i \in 1 .. n - 1 \/ i = n
    OBVIOUS
  <1> QED
    BY <1>1 DEF InFile

(* append_data adds the payload of the line at the line's address. *)
LEMMA AppendAddsLine ==
    ASSUME NEW fw, Appendable(fw), NEW line \in Line, Len(line) >= 5, NEW x
    PROVE  InFirmware(x, AppendData(fw, line)) <=>
              InFirmware(x, fw) \/ InLine(x, Final(fw).base_addr, line)
  <1>1. PICK g : g = AppendData(fw, line)
    OBVIOUS
  <1>2. PICK es, gs : es = fw[Len(fw)].elems /\ gs = g[Len(fw)].elems
    OBVIOUS
  <1>3. PICK lin, p : lin = LinearAddr(fw, line) /\ p = Payload(line)
    OBVIOUS
  <1>4. /\ fw \in Seq(HexBlock) /\ Len(fw) \in Nat \ {0}
        /\ es \in Seq(HexElem) /\ es # <<>> /\ Len(es) \in Nat \ {0}
        /\ es[Len(es)].base_addr \in Nat
        /\ es[Len(es)].data \in Seq(Byte) /\ Len(es[Len(es)].data) \in Nat
        /\ lin = Final(fw).base_addr + Addr(line) /\ lin \in Nat
        /\ ExpectedAddr(fw) = es[Len(es)].base_addr + Len(es[Len(es)].data)
    BY <1>2, <1>3, LastFields DEF Final
  <1>5. /\ g \in Seq(HexBlock) /\ Len(g) = Len(fw)
        /\ \A b \in 1 .. Len(fw) - 1 : g[b] = fw[b]
        /\ gs \in Seq(HexElem)
        /\ LastExtended(fw, line, es, gs) \/ OneAdded(fw, line, es, gs)
    BY <1>1, <1>2, AppendDataShape DEF Firmware
  <1>6. p \in Seq(Byte)
    BY <1>3, LineFields
  <1> DEFINE New == \E k \in DOMAIN p : x = <<lin + k - 1, p[k]>>
  <1>7. InLine(x, Final(fw).base_addr, line) <=> New
    BY <1>3, <1>4 DEF InLine
  <1>8. InElems(x, gs) <=> InElems(x, es) \/ New
    <2>1. CASE OneAdded(fw, line, es, gs)
      <3>1. /\ Len(gs) = Len(es) + 1
            /\ \A i \in 1 .. Len(es) : gs[i] = es[i]
            /\ gs[Len(es) + 1].base_addr = lin
            /\ gs[Len(es) + 1].data = p
        BY <1>3, <2>1 DEF OneAdded
      <3>2. InElem(x, gs[Len(es) + 1]) <=> New
        BY <3>1 DEF InElem
      <3>3. DOMAIN gs = DOMAIN es \cup {Len(es) + 1}
        BY <1>4, <1>5, <3>1
      <3>4. \A i \in DOMAIN es : gs[i] = es[i]
        <4>1. DOMAIN es = 1 .. Len(es)
          BY <1>4
        <4> HIDE DEF New
        <4> QED
          BY <3>1, <4>1
      <3> QED
        BY <3>2, <3>3, <3>4 DEF InElems
    <2>2. CASE LastExtended(fw, line, es, gs)
      <3>1. PICK e, h : e = es[Len(es)] /\ h = gs[Len(es)]
        OBVIOUS
      <3>2. /\ Len(gs) = Len(es) /\ lin = e.base_addr + Len(e.data)
            /\ \A i \in 1 .. Len(es) - 1 : gs[i] = es[i]
            /\ h.base_addr = e.base_addr /\ h.data = e.data \o p
            /\ e.data \in Seq(Byte) /\ e.base_addr \in Nat
        BY <1>3, <1>4, <2>2, <3>1 DEF LastExtended
      <3>3. InElem(x, h) <=> InElem(x, e) \/ New
        <4>1. PICK d, a, len : d = e.data /\ a = e.base_addr /\ len = Len(d)
          OBVIOUS
        <4>2. d \in Seq(Byte) /\ a \in Nat /\ len \in Nat /\ lin = a + len
              /\ DOMAIN d = 1 .. len /\ h.data = d \o p
          BY <3>2, <4>1
        <4>3. PICK m \in Nat : m = Len(p)
          BY <1>6
        <4>4. DOMAIN p = 1 .. m
          BY <1>6, <4>3
        <4>5. /\ DOMAIN (d \o p) = 1 .. len + m
              /\ \A k \in 1 .. len + m :
                    (d \o p)[k] = IF k <= len THEN d[k] ELSE p[k - len]
          BY <1>6, <4>1, <4>2, <4>3, ConcatProperties, LenProperties
        <4>6. InElem(x, h) <=>
                 \E k \in 1 .. len + m : x = <<a + k - 1, (d \o p)[k]>>
          BY <3>2, <4>1, <4>2, <4>5 DEF InElem
        <4>7. InElem(x, e) <=> \E k \in 1 .. len : x = <<a + k - 1, d[k]>>
          BY <4>1, <4>2 DEF InElem
        <4>8. New <=> \E k \in 1 .. m : x = <<a + len + k - 1, p[k]>>
          BY <4>2, <4>4
        <4>9. ASSUME NEW k \in 1 .. len + m, x = <<a + k - 1, (d \o p)[k]>>
              PROVE  InElem(x, e) \/ New
          <5>1. CASE k <= len
            <6>1. k \in 1 .. len
              BY <4>2, <5>1
            <6>2. (d \o p)[k] = d[k]
              BY <4>5, <5>1
            <6>3. x = <<a + k - 1, d[k]>>
              BY <4>9, <6>2
            <6> HIDE DEF New
            <6> QED
              BY <4>7, <6>1, <6>3
          <5>2. CASE k > len
            <6>1. k - len \in 1 .. m /\ (d \o p)[k] = p[k - len]
                  /\ a + len + (k - len) - 1 = a + k - 1
              BY <4>2, <4>5, <5>2
            <6> QED
              BY <4>8, <4>9, <6>1
          <5> QED
            BY <4>2, <5>1, <5>2
        <4>10. ASSUME NEW k \in 1 .. len, x = <<a + k - 1, d[k]>>
               PROVE  InElem(x, h)
          <5>1. k \in 1 .. len + m /\ (d \o p)[k] = d[k]
            BY <4>2, <4>5
          <5> QED
            BY <4>6, <4>10, <5>1
        <4>11. ASSUME NEW k \in 1 .. m, x = <<a + len + k - 1, p[k]>>
               PROVE  InElem(x, h)
          <5>1. /\ len + k \in 1 .. len + m /\ (d \o p)[len + k] = p[k]
                /\ a + (len + k) - 1 = a + len + k - 1
            <6>1. len + k \in 1 .. len + m /\ ~ (len + k <= len) /\ (len + k) - len = k
              BY <4>2
            <6>2. (d \o p)[len + k] = p[(len + k) - len]
              BY <4>5, <6>1
            <6> QED
              BY <4>2, <6>1, <6>2
          <5> QED
            BY <4>6, <4>11, <5>1
        <4> HIDE DEF New
        <4> QED
          BY <4>6, <4>7, <4>8, <4>9, <4>10, <4>11
      <3>4. /\ DOMAIN gs = DOMAIN es /\ Len(es) \in DOMAIN es
            /\ \A i \in DOMAIN es : i = Len(es) \/ gs[i] = es[i]
        <4> HIDE DEF New
        <4>1. DOMAIN es = 1 .. Len(es) /\ DOMAIN gs = 1 .. Len(es)
          BY <1>4, <1>5, <3>2
        <4>2. Len(es) \in 1 .. Len(es)
          BY <1>4
        <4>3. \A i \in 1 .. Len(es) : i = Len(es) \/ i \in 1 .. Len(es) - 1
          BY <1>4
        <4> QED
          BY <3>2, <4>1, <4>2, <4>3
      <3> HIDE DEF New
      <3> QED
        BY <3>1, <3>3, <3>4 DEF InElems
    <2> QED
      BY <1>5, <2>1, <2>2
  <1>9. /\ DOMAIN g = DOMAIN fw /\ Len(fw) \in DOMAIN fw
        /\ \A b \in DOMAIN fw : b = Len(fw) \/ g[b] = fw[b]
    <2>1. DOMAIN fw = 1 .. Len(fw) /\ DOMAIN g = 1 .. Len(g)
      BY <1>4, <1>5
    <2>2. Len(g) = Len(fw) /\ Len(fw) \in Nat \ {0}
      BY <1>4, <1>5
    <2>3. \A b \in 1 .. Len(fw) - 1 : g[b] = fw[b]
      BY <1>5
    <2>4. \A b \in 1 .. Len(fw) : b = Len(fw) \/ b \in 1 .. Len(fw) - 1
      BY <2>2
    <2>5. DOMAIN g = DOMAIN fw /\ Len(fw) \in DOMAIN fw
      BY <2>1, <2>2
    <2>6. \A b \in DOMAIN fw : b = Len(fw) \/ g[b] = fw[b]
      BY <2>1, <2>3, <2>4
    <2> QED
      BY <2>5, <2>6
  <1> HIDE DEF New
  <1>10. InFirmware(x, g) <=> InFirmware(x, fw) \/ New
    BY <1>2, <1>8, <1>9 DEF InFirmware
  <1> QED
    BY <1>1, <1>7, <1>10

(* Opening a block adds no byte, and settles the window in force. *)
LEMMA OpenedKeepsBytes ==
    ASSUME LayoutInv, NEW line \in Line, Len(line) >= 5, Acceptable(line),
           NEW x
    PROVE  /\ Appendable(Opened(line))
           /\ InFirmware(x, Opened(line)) <=> InFirmware(x, result)
           /\ Final(Opened(line)).base_addr = WindowInForce
  <1>1. TypeOK /\ BlocksHoldElements
    BY DEF LayoutInv, BlocksGood, GoodBlock, BlocksHoldElements
  <1>2. PICK fw, addr : fw = Opened(line) /\ addr = BaseOr0 + Addr(line)
    OBVIOUS
  <1>3. /\ Appendable(fw)
        /\ ~ Opens => fw = result
        /\ Opens => /\ Len(fw) = Len(result) + 1
                    /\ \A b \in 1 .. Len(result) : fw[b] = result[b]
                    /\ fw[Len(fw)].base_addr = BaseOr0
                    /\ fw[Len(fw)].elems = <<[base_addr |-> addr, data |-> <<>>]>>
    BY <1>1, <1>2, OpenedShape
  <1>4. /\ DOMAIN result = 1 .. Len(result) /\ Len(result) \in Nat
        /\ DOMAIN fw = 1 .. Len(fw) /\ Len(fw) \in Nat
    BY <1>1, <1>3 DEF TypeOK, Appendable, Firmware
  <1>5. CASE ~ Opens
    BY <1>2, <1>3, <1>5 DEF Opens, WindowInForce
  <1>6. CASE Opens
    <2>1. ~ InElems(x, fw[Len(fw)].elems)
      <3>1. PICK es : es = <<[base_addr |-> addr, data |-> <<>>]>>
        OBVIOUS
      <3>2. DOMAIN es = {1} /\ es[1].data = <<>>
        BY <3>1
      <3>3. ~ InElems(x, es)
        BY <3>2 DEF InElems, InElem
      <3> QED
        BY <1>3, <1>6, <3>1, <3>3
    <2>2. \A b : b \in DOMAIN fw <=> b \in DOMAIN result \/ b = Len(fw)
      BY <1>3, <1>4, <1>6
    <2>3. \A b \in DOMAIN result : fw[b] = result[b]
      BY <1>3, <1>4, <1>6
    <2>4. InFirmware(x, fw) <=> InFirmware(x, result)
      BY <2>1, <2>2, <2>3 DEF InFirmware
    <2>5. Final(fw).base_addr = WindowInForce
      BY <1>3, <1>6 DEF Opens, WindowInForce, BaseOr0, Final
    <2> QED
      BY <1>2, <1>3, <2>4, <2>5
  <1> QED
    BY <1>5, <1>6

LEMMA HoldsInit == Start => HoldsInv
  <1> SUFFICES ASSUME Start PROVE HoldsInv
    OBVIOUS
  <1>1. at = 1 /\ base_addr = NoBase /\ result = <<>>
    BY DEF Start
  <1>2. 1 .. at - 1 = {}
    BY <1>1
  <1>3. UpperOf(file, at - 1) = 0
    BY <1>2 DEF UpperOf, Exts
  <1>4. ASSUME NEW x PROVE ~ InFirmware(x, result) /\ ~ InFile(x, file, at - 1)
    BY <1>1, <1>2 DEF InFirmware, InFile
  <1> QED
    BY <1>1, <1>3, <1>4 DEF HoldsInv, WindowInForce

LEMMA HoldsStep ==
    LayoutInv /\ HoldsInv /\ [Next]_vars => HoldsInv'
  <1> SUFFICES ASSUME LayoutInv, HoldsInv, [Next]_vars PROVE HoldsInv'
    OBVIOUS
  <1>1. TypeOK /\ at \in Nat \ {0}
    BY DEF LayoutInv, TypeOK
  <1>2. CASE DataRecord
    <2>1. PICK line, fw : line = file[at] /\ fw = Opened(line)
      OBVIOUS
    <2>2. /\ Reading("DATA") /\ Acceptable(line)
          /\ result' = AppendData(fw, line) /\ base_addr' = NoBase
          /\ at' = at + 1 /\ at' - 1 = at /\ file' = file
      BY <1>1, <1>2, <2>1 DEF DataRecord
    <2>3. line \in Line /\ Len(line) >= 5
      BY <1>1, <2>1, <2>2, LineRead
    <2>4. line[4] = RecordType["DATA"] /\ line[4] # RecordType["EXTENDED_LIN_ADDR"]
      BY <2>1, <2>2 DEF Reading, RecordType
    <2>5. /\ Appendable(fw) /\ Final(fw).base_addr = WindowInForce
          /\ \A x : InFirmware(x, fw) <=> InFirmware(x, result)
      BY <2>1, <2>2, <2>3, OpenedKeepsBytes
    <2>6. /\ UpperOf(file, at) = UpperOf(file, at - 1)
          /\ UpperOf(file, at) = Final(fw).base_addr
      BY <1>1, <2>1, <2>4, <2>5, UpperOfNext DEF HoldsInv
    <2>7. WindowInForce' = UpperOf(file, at)
      <3>1. /\ Len(result') = Len(fw) /\ result' # <<>>
            /\ result'[Len(fw)].base_addr = fw[Len(fw)].base_addr
        <4>1. PICK es, g, gs : /\ es = fw[Len(fw)].elems
                               /\ g = AppendData(fw, line)
                               /\ gs = g[Len(fw)].elems
          OBVIOUS
        <4>2. /\ g \in Firmware /\ Len(g) = Len(fw)
              /\ g[Len(fw)].base_addr = fw[Len(fw)].base_addr
          BY <2>3, <2>5, <4>1, AppendDataShape
        <4>3. Len(fw) \in Nat \ {0}
          BY <2>5 DEF Appendable, Firmware
        <4> QED
          BY <2>2, <4>1, <4>2, <4>3 DEF Firmware
      <3> QED
        BY <2>2, <2>6, <3>1 DEF WindowInForce, Final
    <2>8. ASSUME NEW x
          PROVE  InFirmware(x, result') <=> InFile(x, file, at)
      <3>1. InFirmware(x, result') <=>
               InFirmware(x, fw) \/ InLine(x, Final(fw).base_addr, line)
        BY <2>2, <2>3, <2>5, AppendAddsLine
      <3>2. InFile(x, file, at) <=>
               InFile(x, file, at - 1) \/ InLine(x, UpperOf(file, at), line)
        BY <1>1, <2>1, <2>4, InFileNext
      <3> QED
        BY <2>5, <2>6, <3>1, <3>2 DEF HoldsInv
    <2> QED
      BY <2>2, <2>7, <2>8 DEF HoldsInv
  <1>3. CASE ExtendedAddressRecord
    <2>1. PICK p : p = Payload(file[at])
      OBVIOUS
    <2>2. Reading("EXTENDED_LIN_ADDR") /\ UNCHANGED <<file, result>>
      BY <1>3 DEF ExtendedAddressRecord
    <2>3. CASE Len(p) = 2
      <3>1. /\ base_addr' = (p[1] * Base + p[2]) * Window
            /\ at' = at + 1 /\ at' - 1 = at
        BY <1>1, <1>3, <2>1, <2>3 DEF ExtendedAddressRecord
      <3>2. base_addr' # NoBase
        <4>1. p \in Seq(Byte)
          BY <1>1, <2>1, <2>2, LineRead, LineFields
        <4>2. base_addr' \in Nat
          BY <2>3, <3>1, <4>1, ExtendedAddress
        <4> QED
          BY <4>2 DEF NoBase
      <3>3. /\ file[at][4] = RecordType["EXTENDED_LIN_ADDR"]
            /\ file[at][4] # RecordType["DATA"]
        BY <2>2 DEF Reading, RecordType
      <3>4. WindowInForce' = UpperOf(file, at)
        BY <1>1, <2>1, <3>1, <3>2, <3>3, UpperOfNext DEF WindowInForce
      <3>5. \A x : InFile(x, file, at) <=> InFile(x, file, at - 1)
        BY <1>1, <3>3, InFileNext
      <3> QED
        BY <2>2, <3>1, <3>4, <3>5 DEF HoldsInv
    <2>4. CASE Len(p) # 2
      <3>1. UNCHANGED <<at, base_addr>>
        BY <1>3, <2>1, <2>4 DEF ExtendedAddressRecord
      <3> QED
        BY <2>2, <3>1 DEF HoldsInv, WindowInForce
    <2> QED
      BY <2>3, <2>4
  <1>4. CASE RejectData \/ EndOfFileRecord \/ NoMoreLines \/ UNCHANGED vars
    <2>1. UNCHANGED <<file, at, base_addr, result>>
      BY <1>4 DEF RejectData, EndOfFileRecord, NoMoreLines, vars
    <2> QED
      BY <2>1 DEF HoldsInv, WindowInForce
  <1> QED
    BY <1>2, <1>3, <1>4 DEF Next

(* The sets of bytes of the two sides, by their members. *)
LEMMA BytesByMember ==
    ASSUME LayoutInv, NEW x
    PROVE  /\ x \in FirmwareBytes <=> InFirmware(x, result)
           /\ x \in FileBytes(at - 1) <=> InFile(x, file, at - 1)
  <1>1. x \in FirmwareBytes <=> InFirmware(x, result)
    BY DEF FirmwareBytes, InFirmware, InElems, InElem
  <1>2. \A i : Upper(i) = UpperOf(file, i)
    BY DEF Upper, UpperOf, Exts
  <1>3. x \in FileBytes(at - 1) <=>
           \E i \in DataLines(at - 1) : InLine(x, Upper(i), file[i])
    BY DEF FileBytes, InLine
  <1>4. x \in FileBytes(at - 1) <=> InFile(x, file, at - 1)
    BY <1>2, <1>3 DEF InFile, DataLines
  <1> QED
    BY <1>1, <1>4

LEMMA HoldsMeans == LayoutInv /\ HoldsInv => FirmwareHoldsFile
  <1> SUFFICES ASSUME LayoutInv, HoldsInv PROVE FirmwareHoldsFile
    OBVIOUS
  <1>1. \A x : x \in FirmwareBytes <=> x \in FileBytes(at - 1)
    BY BytesByMember DEF HoldsInv
  <1> QED
    BY <1>1 DEF FirmwareHoldsFile

(* The Firmware holds every byte of the lines read so far at the address   *)
(* the format gives it, and no other, for every map and every file of such *)
(* lines, although the parser forgets the window of an extended record as  *)
(* soon as a data record has used it.                                      *)
THEOREM HoldsFile == Spec => []FirmwareHoldsFile
  <1> QED
    BY HoldsMeans, LayoutAlways, HoldsInit, HoldsStep, PTL DEF Spec, Init
=============================================================================
