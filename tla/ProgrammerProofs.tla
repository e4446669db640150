-------------------------- MODULE ProgrammerProofs --------------------------
(***************************************************************************)
(* The safety of program_verify, for every map, firmware and mask that the *)
(* assumptions of Programmer allow.                                        *)
(***************************************************************************)
EXTENDS Programmer, RegionFacts

Busy == step \in {"write", "readback", "increment"}

(***************************************************************************)
(* The inductive core: where the programmer is determines where the device *)
(* is.  While an element is written the loops are at an element of the     *)
(* pass's region, its address was accepted by region_metadata, the program *)
(* counter is the host's address, word-aligned, and never past the end of  *)
(* the region, beyond which the map has a gap.                             *)
(***************************************************************************)
CursorInv ==
    /\ step = "erase" => pass = 1 /\ ri = 1 /\ ei = 1
    /\ step = "done" => pass > Len(WriteOrder)
    /\ Busy => /\ pass \in DOMAIN WriteOrder
               /\ ri \in DOMAIN fw
               /\ fw[ri].region = WriteOrder[pass]
               /\ ei \in DOMAIN fw[ri].elems
               /\ Addressable(Map, Current.base_addr)
               /\ pc = Current.base_addr + off
               /\ pc % HostRegion.word_size = 0
               /\ pc <= HostRegion.end
    /\ step \in {"readback", "increment"} => pc < HostRegion.end

Inv == TypeOK /\ CursorInv

-----------------------------------------------------------------------------
(* The firmware's records have the types of FimwareFile.hpp.               *)
LEMMA FirmwareTyped ==
    ASSUME TypeOK
    PROVE  /\ fw \in Seq(FwRegion)
           /\ \A i \in DOMAIN fw :
                 /\ fw[i] \in FwRegion
                 /\ fw[i].region \in RegionNames
                 /\ fw[i].elems \in Seq(Elem)
                 /\ BlockInRegion(fw[i])
                 /\ Named(Map, fw[i].region) # {}
                 /\ \A e \in DOMAIN fw[i].elems :
                       /\ fw[i].elems[e].base_addr \in Nat
                       /\ fw[i].elems[e].data \in Seq(Byte)
  <1>1. fw \in Seq(FwRegion) /\ fw \in Firmwares
    BY FirmwareAssumption DEF TypeOK
  <1>2. ASSUME NEW i \in DOMAIN fw
        PROVE  /\ fw[i] \in FwRegion
               /\ fw[i].region \in RegionNames
               /\ fw[i].elems \in Seq(Elem)
               /\ BlockInRegion(fw[i])
               /\ Named(Map, fw[i].region) # {}
    <2>1. fw[i] \in FwRegion
      BY <1>1
    <2> QED
      BY <2>1, <1>1, FirmwareAssumption DEF FwRegion
  <1>3. ASSUME NEW i \in DOMAIN fw, NEW e \in DOMAIN fw[i].elems
        PROVE  /\ fw[i].elems[e].base_addr \in Nat
               /\ fw[i].elems[e].data \in Seq(Byte)
    <2>1. fw[i].elems[e] \in Elem
      BY <1>2
    <2> QED
      BY <2>1 DEF Elem
  <1> QED
    BY <1>1, <1>2, <1>3

(* While an element is written, the element, its region and the program    *)
(* counter are well typed, and the region at a mapped program counter is   *)
(* the host's region: a word never straddles the end of a region.          *)
LEMMA AtWork ==
    ASSUME Inv, Busy
    PROVE  /\ Current.base_addr \in Nat
           /\ Current.data \in Seq(Byte)
           /\ HostRegion \in Region
           /\ HostRegion.word_size \in {1, 2}
           /\ HostRegion.start \in Nat /\ HostRegion.end \in Nat
           /\ InRegion(Current.base_addr, HostRegion)
           /\ HostRegion.end % HostRegion.word_size = 0
           /\ \E i \in DOMAIN Map : HostRegion = Map[i]
           /\ pc < HostRegion.end => Mapped(Map, pc) 
           /\ Mapped(Map, pc) => /\ pc < HostRegion.end
                                 /\ DeviceRegion = HostRegion
  <1> USE MapAssumption
  <1>1. Current.base_addr \in Nat /\ Current.data \in Seq(Byte)
    BY FirmwareTyped DEF Inv, CursorInv, Current
  <1>2. Mapped(Map, Current.base_addr)
    BY DEF Inv, CursorInv, Addressable
  <1>3. PICK i \in DOMAIN Map : HostRegion = Map[i]
    BY <1>1, <1>2, WithRegionHolds DEF HostRegion
  <1>4. InRegion(Current.base_addr, HostRegion)
    BY <1>1, <1>2, WithRegionHolds DEF HostRegion
  <1>5. /\ HostRegion \in Region
        /\ HostRegion.word_size \in {1, 2}
        /\ HostRegion.start \in Nat /\ HostRegion.end \in Nat
    BY <1>3, RegionTyped
  <1>6. HostRegion.end % HostRegion.word_size = 0
    BY <1>3 DEF WellFormedMap
  <1>7. pc \in Nat /\ pc <= HostRegion.end /\ off \in Nat
        /\ pc = Current.base_addr + off
    BY DEF Inv, CursorInv, TypeOK
  <1>8. ASSUME pc < HostRegion.end
        PROVE  Mapped(Map, pc) /\ DeviceRegion = HostRegion
    <2>1. InRegion(pc, Map[i])
      BY <1>1, <1>3, <1>4, <1>5, <1>7, <1>8 DEF InRegion
    <2> QED
      BY <2>1, <1>3, <1>7, WithRegionUnique DEF Mapped, DeviceRegion
  <1>9. ASSUME Mapped(Map, pc)
        PROVE  pc < HostRegion.end
    <2>1. pc # HostRegion.end
      BY <1>3, <1>9, GapAfterRegion
    <2> QED
      BY <2>1, <1>5, <1>7
  <1> QED
    BY <1>1, <1>3, <1>4, <1>5, <1>6, <1>8, <1>9

(* What the host sends is a word of bytes. *)
LEMMA OutgoingTyped ==
    ASSUME Inv, Busy, NEW a \in Int
    PROVE  Outgoing(a) \in Byte
  <1>1. Current.data \in Seq(Byte)
    BY AtWork
  <1> QED
    BY <1>1, DataAssumption DEF Outgoing

LEMMA InvInit == Init => Inv
  <1> SUFFICES ASSUME Init PROVE Inv
    OBVIOUS
  <1>1. fw \in Seq(FwRegion)
    BY FirmwareAssumption DEF Init
  <1>2. TypeOK
    BY <1>1, DataAssumption DEF Init, TypeOK, WriteOrder, Outcomes
  <1>3. CursorInv
    BY DEF Init, CursorInv, Busy
  <1> QED
    BY <1>2, <1>3 DEF Inv

LEMMA InvStep == Inv /\ [Next]_vars => Inv'
  <1> SUFFICES ASSUME Inv, [Next]_vars PROVE Inv'
    OBVIOUS
  <1> USE DEF Inv, cursor
  <1>1. /\ fw \in Seq(FwRegion) /\ Len(fw) \in Nat
        /\ DOMAIN fw = 1 .. Len(fw)
        /\ Len(WriteOrder) = 4 /\ DOMAIN WriteOrder = 1 .. 4
        /\ pc \in Nat /\ off \in Nat /\ ei \in Nat /\ ri \in Nat /\ pass \in Nat
        /\ mem \in [MapAddrs(Map) -> Byte]
    BY FirmwareTyped DEF TypeOK, WriteOrder
  <1>2. CASE BulkErase
    <2>1. mem' \in [MapAddrs(Map) -> Byte]
      BY <1>1, <1>2, DataAssumption DEF BulkErase
    <2> QED
      BY <1>1, <1>2, <2>1 DEF BulkErase, TypeOK, CursorInv, Busy, Outcomes
  <1>3. CASE NextPass
    BY <1>1, <1>3 DEF NextPass, TypeOK, CursorInv, Busy, Outcomes
  <1>4. CASE Finish
    BY <1>1, <1>4 DEF Finish, TypeOK, CursorInv, Busy, Outcomes
  <1>5. CASE NextBlock
    BY <1>1, <1>5 DEF NextBlock, InPass, TypeOK, CursorInv, Busy, Outcomes
  <1>6. CASE LoadPC
    <2>1. /\ ri \in DOMAIN fw /\ ei \in DOMAIN fw[ri].elems
          /\ fw[ri].region = WriteOrder[pass] /\ pass \in DOMAIN WriteOrder
          /\ Addressable(Map, Current.base_addr)
      BY <1>6 DEF LoadPC, AtElem, InPass
    <2>2. Current.base_addr \in Nat
      BY <2>1, FirmwareTyped DEF Current
    <2>3. TypeOK'
      BY <1>1, <1>6, <2>2 DEF LoadPC, TypeOK
    <2>4. UNCHANGED Current /\ UNCHANGED HostRegion
      BY <1>6 DEF LoadPC, Current, HostRegion
    <2>5. HostRegion \in Region /\ InRegion(Current.base_addr, HostRegion)
      BY <2>1, <2>2, WithRegionHolds, MapAssumption DEF HostRegion, Addressable
    <2>6. Current.base_addr <= HostRegion.end
      BY <2>2, <2>5 DEF InRegion, Region
    <2>7. Current.base_addr % HostRegion.word_size = 0
      BY <2>1 DEF Addressable, HostRegion
    <2>8. /\ pc' = Current'.base_addr + off'
          /\ pc' % HostRegion'.word_size = 0
          /\ pc' <= HostRegion'.end
          /\ Addressable(Map, Current'.base_addr)
      BY <1>6, <2>1, <2>2, <2>4, <2>6, <2>7 DEF LoadPC
    <2>9. /\ step' = "write"
          /\ pass' = pass /\ ri' = ri /\ ei' = ei /\ fw' = fw
      BY <1>6 DEF LoadPC
    <2> QED
      BY <2>1, <2>3, <2>8, <2>9 DEF CursorInv, Busy
  <1>7. CASE RejectAddress
    BY <1>1, <1>7 DEF RejectAddress, TypeOK, CursorInv, Busy, Outcomes
  <1>8. CASE WriteWord
    <2>1. Busy /\ pc < HostRegion.end
      BY <1>8, AtWork DEF WriteWord, AtWord, Busy
    <2>2. \A a \in MapAddrs(Map) : a \in Int
      BY MapAssumption, RegionTyped DEF MapAddrs, Addrs
    <2>3. mem' \in [MapAddrs(Map) -> Byte]
      BY <1>1, <1>8, <2>1, <2>2, OutgoingTyped DEF WriteWord
    <2>4. UNCHANGED Current /\ UNCHANGED HostRegion
      BY <1>8 DEF WriteWord, Current, HostRegion
    <2> QED
      BY <1>1, <1>8, <2>1, <2>3, <2>4
         DEF WriteWord, TypeOK, CursorInv, Busy, Outcomes
  <1>9. CASE RejectWord
    BY <1>1, <1>9 DEF RejectWord, TypeOK, CursorInv, Busy, Outcomes
  <1>10. CASE ReadBack
    <2>1. UNCHANGED Current /\ UNCHANGED HostRegion
      BY <1>10 DEF ReadBack, Current, HostRegion
    <2> QED
      BY <1>1, <1>10, <2>1 DEF ReadBack, TypeOK, CursorInv, Busy, Outcomes
  <1>11. CASE IncrementAddr
    <2>1. Busy /\ pc < HostRegion.end
      BY <1>11 DEF IncrementAddr, CursorInv, Busy
    <2>2. DeviceRegion = HostRegion
      BY <2>1, AtWork
    <2>3. UNCHANGED Current /\ UNCHANGED HostRegion
      BY <1>11 DEF IncrementAddr, Current, HostRegion
    <2>4. PICK w \in {1, 2} : HostRegion.word_size = w
      BY <2>1, AtWork
    <2>5. PICK n \in Nat : HostRegion.end = n
      BY <2>1, AtWork
    <2>6. pc % w = 0 /\ n % w = 0 /\ pc < n
      BY <2>1, <2>4, <2>5, AtWork DEF CursorInv
    <2>7. (pc + w) % w = 0 /\ pc + w <= n
      <3>1. CASE w = 1
        BY <3>1, <2>6, <1>1
      <3>2. CASE w = 2
        BY <3>2, <2>6, <1>1
      <3> QED
        BY <3>1, <3>2
    <2>8. PICK b \in Nat : Current.base_addr = b
      BY <2>1, AtWork
    <2>9. pc' = pc + w /\ off' = off + w /\ step' = "write"
      BY <1>11, <2>2, <2>4 DEF IncrementAddr
    <2>10. pc' = Current'.base_addr + off'
      BY <1>1, <2>1, <2>3, <2>8, <2>9 DEF CursorInv
    <2>11. TypeOK'
      BY <1>1, <1>11, <2>9 DEF IncrementAddr, TypeOK
    <2>12. /\ pc' % HostRegion'.word_size = 0
           /\ pc' <= HostRegion'.end
      BY <2>3, <2>4, <2>5, <2>7, <2>9
    <2> QED
      BY <1>11, <2>1, <2>3, <2>9, <2>10, <2>11, <2>12
         DEF IncrementAddr, CursorInv, Busy
  <1>12. CASE NextElem
    BY <1>1, <1>12 DEF NextElem, TypeOK, CursorInv, Busy, Outcomes
  <1>13. CASE Interrupt
    BY <1>1, <1>13 DEF Interrupt, TypeOK, CursorInv, Busy, Outcomes
  <1>14. CASE UNCHANGED vars
    BY <1>14 DEF vars, TypeOK, CursorInv, Busy, Current, HostRegion
  <1> QED
    BY <1>2, <1>3, <1>4, <1>5, <1>6, <1>7, <1>8, <1>9, <1>10, <1>11, <1>12,
       <1>13, <1>14 DEF Next, Program

LEMMA InvAlways == Spec => []Inv
  BY InvInit, InvStep, PTL DEF Spec

(* The variables keep their types: in particular the loops never index past*)
(* an element, and the program counter stays an address.                   *)
THEOREM TypeCorrect == Spec => []TypeOK
  <1>1. Inv => TypeOK
    BY DEF Inv
  <1> QED
    BY <1>1, InvAlways, PTL

(* Host and device never drift apart. *)
THEOREM AgreementHolds == Spec => []HostAndDeviceAgree
  <1>1. Inv => HostAndDeviceAgree
    BY DEF Inv, CursorInv, Busy, HostAndDeviceAgree
  <1> QED
    BY <1>1, InvAlways, PTL

-----------------------------------------------------------------------------
(***************************************************************************)
(* Verification is never undone.  Beyond Inv the invariant needs that the  *)
(* address of every processed element was accepted (so it is aligned, and  *)
(* the padding of another element's odd last word cannot reach it), and    *)
(* that the word at the program counter is verified before it is left.     *)
(***************************************************************************)
ProcessedAddressable ==
    \A id \in ElemIds :
        Processed(id) => Addressable(Map, ElemAt(id).base_addr)

WordVerified == step = "increment" => ChunkMatches

VInv == Inv /\ ProcessedAddressable /\ WordVerified /\ VerifiedStaysVerified

LEMMA ElemIdTyped ==
    ASSUME TypeOK, NEW id \in ElemIds
    PROVE  /\ id = <<id[1], id[2]>>
           /\ id[1] \in DOMAIN fw /\ id[1] \in Nat
           /\ id[2] \in DOMAIN fw[id[1]].elems /\ id[2] \in Nat
           /\ ElemAt(id).base_addr \in Nat
           /\ ElemAt(id).data \in Seq(Byte)
           /\ Len(ElemAt(id).data) \in Nat
           /\ DOMAIN ElemAt(id).data = 1 .. Len(ElemAt(id).data)
  <1>1. PICK i \in DOMAIN fw : id \in {<<i, e>> : e \in DOMAIN fw[i].elems}
    BY DEF ElemIds
  <1>2. PICK e \in DOMAIN fw[i].elems : id = <<i, e>>
    BY <1>1
  <1>3. /\ fw \in Seq(FwRegion) /\ fw[i].elems \in Seq(Elem)
        /\ fw[i].elems[e].base_addr \in Nat
        /\ fw[i].elems[e].data \in Seq(Byte)
    BY FirmwareTyped
  <1>4. i \in Nat /\ e \in Nat
    BY <1>3
  <1> QED
    BY <1>2, <1>3, <1>4 DEF ElemAt

(* The element being written is one of the firmware's. *)
LEMMA CurrentIsElem ==
    ASSUME Inv, Busy
    PROVE  <<ri, ei>> \in ElemIds /\ ElemAt(<<ri, ei>>) = Current
  BY DEF Inv, CursorInv, ElemIds, ElemAt, Current

(* The bytes of a word: one, or two of which the second is still inside    *)
(* the region.                                                             *)
LEMMA WordShape ==
    ASSUME Inv, Busy, Mapped(Map, pc)
    PROVE  /\ pc \in WordAddrs /\ pc \in Nat
           /\ \A x \in WordAddrs :
                 \/ x = pc
                 \/ x = pc + 1 /\ HostRegion.word_size = 2
                              /\ x < HostRegion.end /\ pc % 2 = 0
  <1>1. pc \in Nat /\ DeviceRegion = HostRegion /\ pc < HostRegion.end
    BY AtWork DEF Inv, TypeOK
  <1>2. PICK w \in {1, 2} : HostRegion.word_size = w
    BY AtWork
  <1>3. PICK n \in Nat : HostRegion.end = n
    BY AtWork
  <1>4. pc % w = 0 /\ n % w = 0
    BY <1>2, <1>3, AtWork DEF Inv, CursorInv
  <1>5. WordAddrs = pc .. pc + w - 1
    BY <1>1, <1>2 DEF WordAddrs
  <1>6. CASE w = 1
    BY <1>1, <1>5, <1>6
  <1>7. CASE w = 2
    <2>1. pc + 1 < n
      BY <1>1, <1>3, <1>4, <1>7
    <2> QED
      BY <1>1, <1>2, <1>3, <1>4, <1>5, <1>7, <2>1
  <1> QED
    BY <1>6, <1>7

(* An element that fits the map lies in one region.                        *)
LEMMA ElemInOneRegion ==
    ASSUME Inv, FitsMap, NEW id \in ElemIds, NEW x \in ElemAddrs(id)
    PROVE  \E j \in DOMAIN Map :
              /\ InRegion(x, Map[j])
              /\ InRegion(ElemAt(id).base_addr, Map[j])
  <1> DEFINE b == ElemAt(id).base_addr
             n == Len(ElemAt(id).data)
  <1>1. b \in Nat /\ n \in Nat
    BY ElemIdTyped DEF Inv
  <1>2. ElemAddrs(id) = b .. b + n - 1
    BY DEF ElemAddrs
  <1>3. b \in ElemAddrs(id)
    BY <1>1, <1>2
  <1>4. ElemAddrs(id) \subseteq MaskAddrs(Map, {fw[id[1]].region})
    BY DEF FitsMap
  <1>5. PICK j \in DOMAIN Map : Map[j].name = fw[id[1]].region /\ x \in Addrs(Map[j])
    BY <1>4 DEF MaskAddrs
  <1>6. PICK k \in DOMAIN Map : Map[k].name = fw[id[1]].region /\ b \in Addrs(Map[k])
    BY <1>3, <1>4 DEF MaskAddrs
  <1>7. j = k
    BY <1>5, <1>6, MapAssumption DEF WellFormedMap
  <1>8. Map[j].start \in Nat /\ Map[j].end \in Nat
    BY MapAssumption, RegionTyped
  <1> QED
    BY <1>5, <1>6, <1>7, <1>8 DEF Addrs, InRegion

(* The word about to be written shares no byte, padding included, with an  *)
(* element at an accepted address other than the current one.              *)
LEMMA WordIsFree ==
    ASSUME Inv, WellFormed, AtWord, Mapped(Map, pc),
           NEW id \in ElemIds, id # <<ri, ei>>,
           Addressable(Map, ElemAt(id).base_addr),
           NEW x \in ElemAddrs(id)
    PROVE  x \notin WordAddrs
  <1> SUFFICES ASSUME x \in WordAddrs PROVE FALSE
    OBVIOUS
  <1> USE MapAssumption
  <1> DEFINE b == ElemAt(id).base_addr
             n == Len(ElemAt(id).data)
             c == Current.base_addr
             m == Len(Current.data)
  <1>1. b \in Nat /\ n \in Nat /\ ElemAddrs(id) = b .. b + n - 1
    BY ElemIdTyped DEF Inv, ElemAddrs
  <1>2. Busy
    BY DEF AtWord, Busy
  <1>3. c \in Nat /\ m \in Nat /\ off \in Nat /\ off < m /\ pc = c + off
    BY <1>2, AtWork DEF Inv, TypeOK, CursorInv, AtWord
  <1>4. <<ri, ei>> \in ElemIds /\ ElemAddrs(<<ri, ei>>) = c .. c + m - 1
    BY <1>2, CurrentIsElem DEF ElemAddrs
  <1>5. pc \in ElemAddrs(<<ri, ei>>)
    BY <1>3, <1>4
  <1>6. pc \notin ElemAddrs(id)
    BY <1>4, <1>5 DEF WellFormed, NoOverlap
  <1>7. x = pc + 1 /\ HostRegion.word_size = 2 /\ x < HostRegion.end
        /\ pc % 2 = 0 /\ pc \in Nat
    BY <1>2, <1>6, WordShape
  <1>8. PICK j \in DOMAIN Map : InRegion(x, Map[j]) /\ InRegion(b, Map[j])
    BY ElemInOneRegion DEF WellFormed
  <1>9. PICK i \in DOMAIN Map : HostRegion = Map[i]
    BY <1>2, AtWork
  <1>10. InRegion(x, Map[i])
    <2>1. HostRegion.start \in Nat /\ HostRegion.start <= c
      BY <1>2, AtWork DEF InRegion
    <2> QED
      BY <1>3, <1>7, <1>9, <2>1 DEF InRegion
  <1>11. i = j
    BY <1>7, <1>8, <1>10, RegionsDisjoint
  <1>12. b % 2 = 0
    <2>1. WithRegion(Map, b) = Map[j]
      BY <1>1, <1>8, WithRegionUnique
    <2> QED
      BY <2>1, <1>7, <1>9, <1>11 DEF Addressable
  <1>13. b <= x /\ x <= b + n - 1
    BY <1>1, <1>7
  <1>14. b <= pc
    BY <1>1, <1>7, <1>12, <1>13
  <1> QED
    BY <1>1, <1>6, <1>7, <1>13, <1>14

(* The element being written is not processed yet. *)
LEMMA CurrentNotProcessed ==
    ASSUME Inv, Busy
    PROVE  ~ Processed(<<ri, ei>>)
  <1>1. fw[ri].region = WriteOrder[pass] /\ pass \in 1 .. 4
    BY DEF Inv, CursorInv, WriteOrder
  <1>2. \A p \in 1 .. 4 : WriteOrder[p] = WriteOrder[pass] => p = pass
    BY <1>1 DEF WriteOrder
  <1>3. ri \in Nat /\ ei \in Nat /\ DOMAIN WriteOrder = 1 .. 4
    BY FirmwareTyped DEF Inv, TypeOK, WriteOrder
  <1> QED
    BY <1>1, <1>2, <1>3 DEF Processed

(* Leaving a pass or a block adds no processed element. *)
LEMMA SeekProcessesNothing ==
    ASSUME Inv, NextPass \/ NextBlock, NEW id \in ElemIds, Processed(id)'
    PROVE  Processed(id)
  <1>1. /\ id[1] \in Nat /\ id[1] >= 1 /\ id[1] <= Len(fw)
        /\ id[2] \in Nat /\ id[2] >= 1 /\ id[2] <= Len(fw[id[1]].elems)
        /\ Len(fw) \in Nat /\ Len(fw[id[1]].elems) \in Nat
    BY ElemIdTyped, FirmwareTyped DEF Inv
  <1>2. DOMAIN WriteOrder = 1 .. 4 /\ pass \in Nat /\ ri \in Nat /\ ei \in Nat
    BY DEF Inv, TypeOK, WriteOrder
  <1>3. CASE NextPass
    BY <1>1, <1>2, <1>3 DEF NextPass, Processed
  <1>4. CASE NextBlock
    <2>1. fw[ri].region # WriteOrder[pass] \/ ei > Len(fw[ri].elems)
      BY <1>4 DEF NextBlock
    <2>2. PICK p \in 1 .. 4 :
             /\ fw[id[1]].region = WriteOrder[p]
             /\ \/ p < pass
                \/ p = pass /\ id[1] < ri + 1
                \/ p = pass /\ id[1] = ri + 1 /\ id[2] < 1
      BY <1>2, <1>4 DEF NextBlock, Processed
    <2>3. CASE p = pass /\ id[1] = ri
      BY <1>1, <1>2, <2>1, <2>2, <2>3 DEF Processed
    <2>4. CASE ~ (p = pass /\ id[1] = ri)
      <3>1. p < pass \/ (p = pass /\ id[1] < ri)
        BY <1>1, <1>2, <2>2, <2>4
      <3> QED
        BY <1>2, <2>2, <3>1 DEF Processed
    <2> QED
      BY <2>3, <2>4
  <1> QED
    BY <1>3, <1>4

(* Leaving an element makes that element processed and no other. *)
LEMMA NextElemProcesses ==
    ASSUME Inv, NextElem, NEW id \in ElemIds, Processed(id)'
    PROVE  Processed(id) \/ id = <<ri, ei>>
  <1>1. id = <<id[1], id[2]>> /\ id[1] \in Nat /\ id[2] \in Nat
    BY ElemIdTyped DEF Inv
  <1>2. DOMAIN WriteOrder = 1 .. 4 /\ pass \in Nat /\ ri \in Nat /\ ei \in Nat
    BY DEF Inv, TypeOK, WriteOrder
  <1>3. PICK p \in 1 .. 4 :
           /\ fw[id[1]].region = WriteOrder[p]
           /\ \/ p < pass
              \/ p = pass /\ id[1] < ri
              \/ p = pass /\ id[1] = ri /\ id[2] < ei + 1
    BY <1>2 DEF NextElem, Processed
  <1>4. CASE p = pass /\ id[1] = ri /\ id[2] = ei
    BY <1>1, <1>4
  <1>5. CASE ~ (p = pass /\ id[1] = ri /\ id[2] = ei)
    <2>1. \/ p < pass
          \/ p = pass /\ id[1] < ri
          \/ p = pass /\ id[1] = ri /\ id[2] < ei
      BY <1>1, <1>2, <1>3, <1>5
    <2> QED
      BY <1>2, <1>3, <2>1 DEF Processed
  <1> QED
    BY <1>4, <1>5

(* Writing the word disturbs no byte of a processed element, and none of   *)
(* the current one's verified front.                                       *)
LEMMA WriteKeepsVerified ==
    ASSUME Inv, ProcessedAddressable, WellFormed, WriteWord,
           \A id \in ElemIds : Processed(id) => Held(id),
           HeldUpTo(<<ri, ei>>, off)
    PROVE  /\ \A id \in ElemIds : Processed(id) => Held(id)'
           /\ HeldUpTo(<<ri, ei>>, off)'
  <1>1. AtWord /\ Mapped(Map, pc) /\ Busy
    BY DEF WriteWord, AtWord, Busy
  <1>2. ASSUME NEW id \in ElemIds, NEW x \in ElemAddrs(id), x \notin WordAddrs
        PROVE  mem'[x] = mem[x]
    <2>1. PICK j \in DOMAIN Map : InRegion(x, Map[j])
      BY ElemInOneRegion DEF WellFormed
    <2>2. x \in Int
      <3>1. /\ ElemAt(id).base_addr \in Nat /\ Len(ElemAt(id).data) \in Nat
        BY ElemIdTyped DEF Inv
      <3> QED
        BY <3>1 DEF ElemAddrs
    <2>3. x \in MapAddrs(Map)
      <3>1. Map[j].start \in Nat /\ Map[j].end \in Nat
        BY MapAssumption, RegionTyped
      <3>2. x \in Addrs(Map[j])
        BY <2>1, <2>2, <3>1 DEF InRegion, Addrs
      <3> QED
        BY <3>2 DEF MapAddrs
    <2>4. x \in DOMAIN mem
      BY <2>3 DEF Inv, TypeOK
    <2> QED
      BY <1>2, <2>4 DEF WriteWord
  <1>3. ASSUME NEW id \in ElemIds, Processed(id)
        PROVE  Held(id)'
    <2>1. /\ Addressable(Map, ElemAt(id).base_addr)
          /\ Held(id)
      BY <1>3 DEF ProcessedAddressable
    <2>2. id # <<ri, ei>>
      BY <1>1, <1>3, CurrentNotProcessed
    <2>3. \A x \in ElemAddrs(id) : mem'[x] = mem[x]
      BY <1>1, <1>2, <2>1, <2>2, WordIsFree
    <2>4. /\ ElemAt(id).base_addr \in Nat /\ Len(ElemAt(id).data) \in Nat
          /\ DOMAIN ElemAt(id).data = 1 .. Len(ElemAt(id).data)
      BY ElemIdTyped DEF Inv
    <2>5. \A k \in 1 .. Len(ElemAt(id).data) :
             ElemAt(id).base_addr + k - 1 \in ElemAddrs(id)
      BY <2>4 DEF ElemAddrs
    <2>6. fw' = fw
      BY DEF WriteWord
    <2> QED
      BY <2>1, <2>3, <2>5, <2>6 DEF Held, HeldUpTo, ElemAt
  <1>4. HeldUpTo(<<ri, ei>>, off)'
    <2> DEFINE id == <<ri, ei>>
               b == ElemAt(id).base_addr
               n == Len(ElemAt(id).data)
    <2>1. id \in ElemIds /\ ElemAt(id) = Current
      BY <1>1, CurrentIsElem
    <2>2. /\ b \in Nat /\ n \in Nat /\ DOMAIN ElemAt(id).data = 1 .. n
          /\ off \in Nat /\ pc = b + off
      BY <1>1, <2>1, ElemIdTyped DEF Inv, TypeOK, CursorInv
    <2>3. \A a \in WordAddrs : a >= pc
      BY <1>1, <2>2, WordShape
    <2>4. ASSUME NEW k \in 1 .. off, k \in 1 .. n
          PROVE  mem'[b + k - 1] = mem[b + k - 1]
      <3>1. b + k - 1 \in ElemAddrs(id)
        <4>1. b + k - 1 \in b .. b + n - 1
          <5> HIDE DEF b, n
          <5> QED
            BY <2>2, <2>4
        <4> QED
          BY <4>1 DEF ElemAddrs
      <3>2. b + k - 1 \notin WordAddrs
        BY <2>2, <2>3
      <3> QED
        BY <1>2, <2>1, <3>1, <3>2
    <2>5. fw' = fw /\ ri' = ri /\ ei' = ei /\ off' = off
      BY DEF WriteWord, cursor
    <2>6. ElemAt(id)' = ElemAt(id)
      BY <2>5 DEF ElemAt
    <2> QED
      BY <2>2, <2>4, <2>5, <2>6 DEF HeldUpTo
  <1> QED
    BY <1>3, <1>4

(* A verified word extends the verified front of the element. *)
LEMMA IncrementExtends ==
    ASSUME Inv, WordVerified, IncrementAddr, HeldUpTo(<<ri, ei>>, off)
    PROVE  HeldUpTo(<<ri, ei>>, off)'
  <1> DEFINE id == <<ri, ei>>
             b == Current.base_addr
  <1>1. Busy /\ step = "increment" /\ pc < HostRegion.end
    BY DEF IncrementAddr, Busy, Inv, CursorInv
  <1>2. DeviceRegion = HostRegion
    BY <1>1, AtWork
  <1>3. PICK w \in {1, 2} : HostRegion.word_size = w
    BY <1>1, AtWork
  <1>4. ElemAt(id) = Current /\ b \in Nat /\ pc = b + off /\ off \in Nat
        /\ Current.data \in Seq(Byte)
    BY <1>1, CurrentIsElem, AtWork DEF Inv, TypeOK, CursorInv
  <1>5. WordAddrs = pc .. pc + w - 1
    BY <1>2, <1>3 DEF WordAddrs
  <1>6. ASSUME NEW k \in 1 .. off + w, k \in DOMAIN Current.data
        PROVE  mem[b + k - 1] = Current.data[k]
    <2>1. CASE k <= off
      <3>1. k \in 1 .. off
        BY <1>4, <2>1
      <3> QED
        BY <1>4, <1>6, <3>1 DEF HeldUpTo
    <2>2. CASE k > off
      <3>1. b + k - 1 \in WordAddrs
        BY <1>4, <1>5, <2>2
      <3>2. off + ((b + k - 1) - pc) + 1 = k
        BY <1>4
      <3>3. mem[b + k - 1] = Outgoing(b + k - 1)
        BY <1>1, <1>6, <3>1, <3>2 DEF WordVerified, ChunkMatches
      <3>4. Outgoing(b + k - 1) = Current.data[k]
        BY <1>6, <3>2 DEF Outgoing
      <3> QED
        BY <3>3, <3>4
    <2> QED
      BY <1>4, <2>1, <2>2
  <1>7. off' = off + w /\ fw' = fw /\ mem' = mem /\ ri' = ri /\ ei' = ei
    BY <1>3 DEF IncrementAddr
  <1> QED
    BY <1>4, <1>6, <1>7 DEF HeldUpTo, ElemAt

(* The steps that leave the memory and the set of processed elements alone.*)
LEMMA VerifiedUnchanged ==
    ASSUME VInv, UNCHANGED <<fw, mem>>,
           \A id \in ElemIds : Processed(id)' => Processed(id),
           Busy' => HeldUpTo(<<ri, ei>>, off)' \/ ~ WellFormed
    PROVE  VerifiedStaysVerified' /\ ProcessedAddressable'
  <1>1. ElemIds' = ElemIds /\ WellFormed' = WellFormed
    <2>1. ElemIds' = ElemIds
      BY DEF ElemIds
    <2>2. FitsMap' = FitsMap
      BY DEF FitsMap, ElemIds, ElemAddrs, ElemAt
    <2>3. NoOverlap' = NoOverlap
      BY DEF NoOverlap, ElemIds, ElemAddrs, ElemAt
    <2> QED
      BY <2>1, <2>2, <2>3 DEF WellFormed
  <1>2. \A id \in ElemIds : Held(id)' = Held(id) /\ ElemAt(id)' = ElemAt(id)
    BY DEF Held, HeldUpTo, ElemAt
  <1> QED
    BY <1>1, <1>2 DEF VInv, VerifiedStaysVerified, ProcessedAddressable, Busy

LEMMA VInvInit == Init => VInv
  <1> SUFFICES ASSUME Init PROVE VInv
    OBVIOUS
  <1>1. Inv
    BY InvInit
  <1>2. ASSUME NEW id \in ElemIds
        PROVE  ~ Processed(id)
    <2>1. id[1] \in Nat /\ id[1] >= 1 /\ id[2] \in Nat /\ id[2] >= 1
      <3>1. fw \in Seq(FwRegion) /\ fw[id[1]].elems \in Seq(Elem)
        BY <1>1, ElemIdTyped, FirmwareTyped DEF Inv
      <3> QED
        BY <1>1, <3>1, ElemIdTyped DEF Inv
    <2> QED
      BY <2>1 DEF Init, Processed, WriteOrder
  <1>3. step = "erase"
    BY DEF Init
  <1> QED
    BY <1>1, <1>2, <1>3 DEF VInv, ProcessedAddressable, WordVerified,
                            VerifiedStaysVerified

LEMMA VInvStep == VInv /\ [Next]_vars => VInv'
  <1> SUFFICES ASSUME VInv, [Next]_vars PROVE VInv'
    OBVIOUS
  <1>1. Inv /\ Inv'
    BY InvStep DEF VInv
  <1> USE DEF cursor
  <1>2. ASSUME UNCHANGED <<pass, ri, ei, fw>>, NEW id, Processed(id)'
        PROVE  Processed(id)
    BY <1>2 DEF Processed
  <1> SUFFICES VerifiedStaysVerified' /\ ProcessedAddressable' /\ WordVerified'
    BY <1>1 DEF VInv
  <1>3. CASE BulkErase
    <2>1. step = "erase" /\ pass = 1 /\ ri = 1 /\ ei = 1
      BY <1>1, <1>3 DEF BulkErase, Inv, CursorInv
    <2>2. ElemIds' = ElemIds
      BY <1>3 DEF BulkErase, ElemIds
    <2>3. ASSUME NEW id \in ElemIds
          PROVE  ~ Processed(id)'
      <3>1. id[1] \in Nat /\ id[1] >= 1 /\ id[2] \in Nat /\ id[2] >= 1
        <4>1. fw \in Seq(FwRegion) /\ fw[id[1]].elems \in Seq(Elem)
          BY <1>1, ElemIdTyped, FirmwareTyped DEF Inv
        <4> QED
          BY <1>1, <4>1, ElemIdTyped DEF Inv
      <3> QED
        BY <1>3, <2>1, <3>1 DEF BulkErase, Processed, WriteOrder
    <2>4. step' = "seek"
      BY <1>3 DEF BulkErase
    <2> QED
      BY <2>2, <2>3, <2>4 DEF VerifiedStaysVerified, ProcessedAddressable,
                              WordVerified
  <1>4. CASE NextPass \/ NextBlock
    <2>1. \A id \in ElemIds : Processed(id)' => Processed(id)
      BY <1>1, <1>4, SeekProcessesNothing
    <2>2. UNCHANGED <<fw, mem>> /\ step' = "seek"
      BY <1>4 DEF NextPass, NextBlock, InPass
    <2> QED
      BY <2>1, <2>2, VerifiedUnchanged DEF Busy, WordVerified
  <1>5. CASE Finish \/ RejectAddress \/ RejectWord \/ Interrupt
    <2>1. UNCHANGED <<fw, mem, pass, ri, ei>> /\ step' \in Outcomes
      BY <1>5 DEF Finish, RejectAddress, RejectWord, Interrupt, Outcomes
    <2> QED
      BY <1>2, <2>1, VerifiedUnchanged DEF Busy, WordVerified, Outcomes
  <1>6. CASE LoadPC
    <2>1. UNCHANGED <<fw, mem, pass, ri, ei>> /\ step' = "write" /\ off' = 0
      BY <1>6 DEF LoadPC
    <2>2. HeldUpTo(<<ri, ei>>, off)'
      BY <2>1 DEF HeldUpTo
    <2> QED
      BY <1>2, <2>1, <2>2, VerifiedUnchanged DEF WordVerified
  <1>7. CASE WriteWord
    <2>1. /\ ProcessedAddressable /\ Busy /\ step' = "readback"
          /\ UNCHANGED <<fw, pass, ri, ei, off>>
      BY <1>7 DEF VInv, WriteWord, AtWord, Busy
    <2>2. ElemIds' = ElemIds /\ WellFormed' = WellFormed
      BY <2>1 DEF ElemIds, WellFormed, FitsMap, NoOverlap, ElemAddrs, ElemAt
    <2>3. \A id : Processed(id)' = Processed(id) /\ ElemAt(id)' = ElemAt(id)
      BY <2>1 DEF Processed, ElemAt
    <2>4. ProcessedAddressable'
      BY <2>1, <2>2, <2>3 DEF ProcessedAddressable
    <2>5. VerifiedStaysVerified'
      <3> SUFFICES ASSUME WellFormed
                   PROVE  /\ \A id \in ElemIds : Processed(id) => Held(id)'
                          /\ HeldUpTo(<<ri, ei>>, off)'
        BY <2>2, <2>3 DEF VerifiedStaysVerified
      <3>1. /\ \A id \in ElemIds : Processed(id) => Held(id)
            /\ HeldUpTo(<<ri, ei>>, off)
        BY <2>1 DEF VInv, VerifiedStaysVerified, Busy
      <3> QED
        BY <1>1, <1>7, <2>1, <3>1, WriteKeepsVerified
    <2> QED
      BY <2>1, <2>4, <2>5 DEF WordVerified
  <1>8. CASE ReadBack
    <2>1. /\ UNCHANGED <<fw, mem, pc, pass, ri, ei, off>> /\ step = "readback"
          /\ step' = IF ChunkMatches THEN "increment" ELSE "error"
      BY <1>8 DEF ReadBack
    <2>2. ChunkMatches' = ChunkMatches
      BY <2>1 DEF ChunkMatches, WordAddrs, DeviceRegion, Outgoing, Current
    <2>3. HeldUpTo(<<ri, ei>>, off)' = HeldUpTo(<<ri, ei>>, off)
      BY <2>1 DEF HeldUpTo, ElemAt
    <2>4. WellFormed => HeldUpTo(<<ri, ei>>, off)
      BY <2>1 DEF VInv, VerifiedStaysVerified
    <2>5. VerifiedStaysVerified' /\ ProcessedAddressable'
      BY <1>2, <2>1, <2>3, <2>4, VerifiedUnchanged
    <2> QED
      BY <2>1, <2>2, <2>5 DEF WordVerified
  <1>9. CASE IncrementAddr
    <2>1. /\ UNCHANGED <<fw, mem, pass, ri, ei>> /\ step = "increment"
          /\ step' = "write"
      BY <1>9 DEF IncrementAddr
    <2>2. WellFormed => HeldUpTo(<<ri, ei>>, off)
      BY <2>1 DEF VInv, VerifiedStaysVerified
    <2>3. WellFormed => HeldUpTo(<<ri, ei>>, off)'
      BY <1>1, <1>9, <2>2, IncrementExtends DEF VInv
    <2> QED
      BY <1>2, <2>1, <2>3, VerifiedUnchanged DEF WordVerified
  <1>10. CASE NextElem
    <2>1. UNCHANGED <<fw, mem>> /\ Busy /\ step' = "seek" /\ off >= Len(Current.data)
      BY <1>10 DEF NextElem, Busy
    <2>2. ElemIds' = ElemIds /\ WellFormed' = WellFormed
      BY <2>1 DEF ElemIds, WellFormed, FitsMap, NoOverlap, ElemAddrs, ElemAt
    <2>3. \A id \in ElemIds : Held(id)' = Held(id) /\ ElemAt(id)' = ElemAt(id)
      BY <2>1 DEF Held, HeldUpTo, ElemAt
    <2>4. <<ri, ei>> \in ElemIds /\ ElemAt(<<ri, ei>>) = Current
      BY <1>1, <2>1, CurrentIsElem
    <2>5. WellFormed => Held(<<ri, ei>>)
      <3>1. WellFormed => HeldUpTo(<<ri, ei>>, off)
        BY <2>1 DEF VInv, VerifiedStaysVerified, Busy
      <3>2. Len(Current.data) \in Nat /\ off \in Nat
        BY <1>1, <2>1, AtWork DEF Inv, TypeOK
      <3>3. 1 .. Len(Current.data) \subseteq 1 .. off
        BY <2>1, <3>2
      <3> QED
        BY <2>4, <3>1, <3>3 DEF Held, HeldUpTo
    <2>6. Addressable(Map, ElemAt(<<ri, ei>>).base_addr)
      BY <1>1, <2>1, <2>4 DEF Inv, CursorInv
    <2>7. \A id \in ElemIds : Processed(id)' => Processed(id) \/ id = <<ri, ei>>
      BY <1>1, <1>10, NextElemProcesses
    <2>8. ProcessedAddressable'
      BY <2>2, <2>3, <2>6, <2>7 DEF VInv, ProcessedAddressable
    <2>9. VerifiedStaysVerified'
      BY <2>1, <2>2, <2>3, <2>5, <2>7 DEF VInv, VerifiedStaysVerified
    <2> QED
      BY <2>1, <2>8, <2>9 DEF WordVerified
  <1>11. CASE UNCHANGED vars
    <2>1. UNCHANGED <<fw, mem, pc, pass, ri, ei, off, step>>
      BY <1>11 DEF vars
    <2>2. ChunkMatches' = ChunkMatches
      BY <2>1 DEF ChunkMatches, WordAddrs, DeviceRegion, Outgoing, Current
    <2>3. HeldUpTo(<<ri, ei>>, off)' = HeldUpTo(<<ri, ei>>, off) /\ Busy' = Busy
      BY <2>1 DEF HeldUpTo, ElemAt, Busy
    <2>4. WellFormed /\ Busy => HeldUpTo(<<ri, ei>>, off)
      BY DEF VInv, VerifiedStaysVerified, Busy
    <2>5. VerifiedStaysVerified' /\ ProcessedAddressable'
      BY <1>2, <2>1, <2>3, <2>4, VerifiedUnchanged
    <2> QED
      BY <2>1, <2>2, <2>5 DEF VInv, WordVerified
  <1> QED
    BY <1>3, <1>4, <1>5, <1>6, <1>7, <1>8, <1>9, <1>10, <1>11
       DEF Next, Program

LEMMA VInvAlways == Spec => []VInv
  BY VInvInit, VInvStep, PTL DEF Spec

(* What was verified stays verified, for every map and every file without  *)
(* overlap that fits the map, wherever the programmer stops.               *)
THEOREM VerificationHolds == Spec => []VerifiedStaysVerified
  <1>1. VInv => VerifiedStaysVerified
    BY DEF VInv
  <1> QED
    BY <1>1, VInvAlways, PTL

(* A normal return means that the device holds the whole file: every       *)
(* element of the four regions has been processed by then.                 *)
THEOREM ReturnMeansProgrammed == Spec => []DoneMeansProgrammed
  <1>1. VInv => DoneMeansProgrammed
    <2> SUFFICES ASSUME VInv, WellFormed, step = "done",
                        NEW id \in ElemIds,
                        fw[id[1]].region \in {WriteOrder[p] : p \in DOMAIN WriteOrder}
                 PROVE  Held(id)
      BY DEF DoneMeansProgrammed
    <2>1. PICK p \in DOMAIN WriteOrder : fw[id[1]].region = WriteOrder[p]
      OBVIOUS
    <2>2. pass > 4 /\ pass \in Nat /\ DOMAIN WriteOrder = 1 .. 4
      BY DEF VInv, Inv, TypeOK, CursorInv, WriteOrder
    <2>3. Processed(id)
      BY <2>1, <2>2 DEF Processed
    <2> QED
      BY <2>3 DEF VInv, VerifiedStaysVerified
  <1> QED
    BY <1>1, VInvAlways, PTL

-----------------------------------------------------------------------------
(* The region a word is written to has the name of the block it is from.   *)
LEMMA WordInBlockRegion ==
    ASSUME Inv, Busy, Mapped(Map, pc), NEW a \in WordAddrs
    PROVE  \E i \in DOMAIN Map : /\ Map[i].name = fw[ri].region
                                /\ a \in Addrs(Map[i]) 
  <1>1. ri \in DOMAIN fw /\ ei \in DOMAIN fw[ri].elems
    BY DEF Inv, CursorInv
  <1>2. BlockInRegion(fw[ri]) /\ Named(Map, fw[ri].region) # {}
    BY <1>1, FirmwareTyped DEF Inv
  <1>3. PICK i \in DOMAIN Map : Map[i].name = fw[ri].region
                              /\ InRegion(Current.base_addr, Map[i])
    BY <1>1, <1>2 DEF Named, BlockInRegion, Current
  <1>4. HostRegion = Map[i]
    BY <1>3, AtWork, WithRegionUnique, MapAssumption DEF HostRegion
  <1>5. /\ Map[i].start \in Nat /\ Map[i].end \in Nat
        /\ Current.base_addr \in Nat
    BY MapAssumption, RegionTyped, AtWork
  <1>6. pc \in Nat /\ off \in Nat /\ pc = Current.base_addr + off
        /\ pc < Map[i].end
    BY <1>4, AtWork DEF Inv, TypeOK, CursorInv
  <1>7. a = pc \/ (a = pc + 1 /\ a < Map[i].end)
    BY <1>4, WordShape
  <1>8. a \in Addrs(Map[i])
    BY <1>3, <1>5, <1>6, <1>7 DEF InRegion, Addrs
  <1> QED
    BY <1>3, <1>8

(* Erasing covers whole regions of the map. *)
LEMMA MaskInMap ==
    ASSUME NEW mask PROVE MaskAddrs(Map, mask) \subseteq MapAddrs(Map)
  BY DEF MaskAddrs, MapAddrs

StaleInv == Inv /\ NoStaleByte

(* A programmed byte is the file's or the padding of an odd last chunk.    *)
LEMMA StaleStep == StaleInv /\ [Next]_vars => StaleInv'
  <1> USE DEF cursor
  <1> DEFINE Targets == MaskAddrs(Map, EraseMask \cap Erasable)
             Fresh(a) == \/ mem[a] = Blank
                         \/ \E id \in ElemIds :
                               /\ a \in ElemAddrs(id)
                               /\ mem[a] = ElemAt(id).data[a - ElemAt(id).base_addr + 1]
  <1> SUFFICES ASSUME StaleInv, [Next]_vars PROVE NoStaleByte'
    BY InvStep DEF StaleInv
  <1>1. Inv /\ (Erased => \A a \in Targets : Fresh(a))
    BY DEF StaleInv, NoStaleByte
  <1> SUFFICES ASSUME Erased', NEW a \in Targets'
               PROVE  Fresh(a)'
    BY DEF NoStaleByte
  <1>2. fw' = fw /\ extra' = extra
    BY DEF Next, Program, BulkErase, NextPass, Finish, NextBlock, LoadPC,
           RejectAddress, WriteWord, RejectWord, ReadBack, IncrementAddr,
           NextElem, Interrupt, vars
  <1>3. /\ Targets' = Targets
        /\ ElemIds' = ElemIds
        /\ \A id : ElemAt(id)' = ElemAt(id) /\ ElemAddrs(id)' = ElemAddrs(id)
    BY <1>2 DEF EraseMask, ElemIds, ElemAt, ElemAddrs
  <1>4. a \in DOMAIN mem
    BY <1>1, <1>3, MaskInMap DEF Inv, TypeOK
  <1>5. CASE BulkErase
    <2>1. mem'[a] = Blank
      BY <1>3, <1>4, <1>5 DEF BulkErase
    <2> QED
      BY <2>1
  <1>6. CASE WriteWord
    <2>1. Fresh(a)
      BY <1>1, <1>3, <1>6 DEF WriteWord, AtWord, Erased
    <2>2. Busy /\ Mapped(Map, pc)
      BY <1>6 DEF WriteWord, AtWord, Busy
    <2>3. CASE mem'[a] = mem[a]
      BY <1>3, <2>1, <2>3
    <2>4. CASE mem'[a] # mem[a]
      <3>1. a \in WordAddrs /\ mem'[a] = Outgoing(a)
        BY <1>4, <1>6, <2>4 DEF WriteWord
      <3> DEFINE cur == <<ri, ei>>
                 b == Current.base_addr
      <3>2. cur \in ElemIds /\ ElemAt(cur) = Current
        BY <1>1, <2>2, CurrentIsElem
      <3>3. /\ b \in Nat /\ pc = b + off /\ off \in Nat /\ pc \in Nat
            /\ Current.data \in Seq(Byte)
        BY <1>1, <2>2, AtWork DEF Inv, TypeOK, CursorInv
      <3>4. a = pc \/ a = pc + 1
        BY <1>1, <2>2, <3>1, WordShape
      <3>5. off + (a - pc) + 1 = a - b + 1
        BY <3>3, <3>4
      <3>6. CASE a - b + 1 \in DOMAIN Current.data
        <4>1. a \in ElemAddrs(cur)
          <5>1. PICK n \in Nat : n = Len(Current.data)
            BY <3>3
          <5>2. DOMAIN Current.data = 1 .. n
            BY <3>3, <5>1
          <5>3. a \in b .. b + n - 1
            <6> HIDE DEF b
            <6> QED
              BY <3>3, <3>4, <3>6, <5>1, <5>2
          <5> QED
            BY <3>2, <5>1, <5>3 DEF ElemAddrs
        <4>2. mem'[a] = Current.data[a - b + 1]
          BY <3>1, <3>5, <3>6 DEF Outgoing
        <4> QED
          BY <1>3, <3>2, <4>1, <4>2
      <3>7. CASE a - b + 1 \notin DOMAIN Current.data
        <4>1. mem'[a] = Blank
          BY <3>1, <3>5, <3>7 DEF Outgoing
        <4> QED
          BY <4>1
      <3> QED
        BY <3>6, <3>7
    <2> QED
      BY <2>3, <2>4
  <1>7. CASE ~ BulkErase /\ ~ WriteWord
    <2>1. Erased /\ mem' = mem
      BY <1>7 DEF Next, Program, NextPass, Finish, NextBlock, InPass, LoadPC,
                  AtElem, RejectAddress, RejectWord, AtWord, ReadBack,
                  IncrementAddr, NextElem, Interrupt, vars, Erased
    <2>2. Fresh(a)
      BY <1>1, <1>3, <2>1
    <2> QED
      BY <1>3, <2>1, <2>2
  <1> QED
    BY <1>5, <1>6, <1>7

(* After the erase every byte of the erased regions is blank or the file's,*)
(* whatever the layout of the file and wherever the programmer stops.      *)
THEOREM NoStaleByteHolds == Spec => []NoStaleByte
  <1>1. Init => StaleInv
    BY InvInit DEF Init, StaleInv, NoStaleByte, Erased
  <1>2. StaleInv => NoStaleByte
    BY DEF StaleInv
  <1> QED
    BY <1>1, <1>2, StaleStep, PTL DEF Spec

(* No step changes a byte outside the regions of the erase mask.           *)
THEOREM OnlyMaskedRegionsChangeHolds == Spec => OnlyMaskedRegionsChange
  <1> DEFINE Kept == \A a \in DOMAIN mem :
                        mem'[a] # mem[a] =>
                            a \in MaskAddrs(Map, EraseMask \cap Erasable)
  <1>1. Inv /\ [Next]_vars => [Kept]_vars
    <2> SUFFICES ASSUME Inv, Next, NEW a \in DOMAIN mem, mem'[a] # mem[a]
                 PROVE  a \in MaskAddrs(Map, EraseMask \cap Erasable)
      OBVIOUS
    <2>1. CASE BulkErase
      BY <2>1 DEF BulkErase
    <2>2. CASE WriteWord
      <3>1. a \in WordAddrs
        BY <2>2 DEF WriteWord
      <3>2. Busy /\ Mapped(Map, pc)
        BY <2>2 DEF WriteWord, AtWord, Busy
      <3>3. PICK i \in DOMAIN Map : Map[i].name = fw[ri].region
                                  /\ a \in Addrs(Map[i])
        BY <3>1, <3>2, WordInBlockRegion
      <3>4. fw[ri].region \in EraseMask \cap Erasable
        BY <3>2 DEF Inv, CursorInv, EraseMask, Erasable, WriteOrder
      <3> QED
        BY <3>3, <3>4 DEF MaskAddrs
    <2>3. CASE ~ BulkErase /\ ~ WriteWord
      BY <2>3 DEF Next, Program, NextPass, Finish, NextBlock, LoadPC,
                  RejectAddress, RejectWord, ReadBack, IncrementAddr,
                  NextElem, Interrupt
    <2> QED
      BY <2>1, <2>2, <2>3
  <1> QED
    BY <1>1, InvAlways, PTL DEF Spec, OnlyMaskedRegionsChange

-----------------------------------------------------------------------------
(* While the bulk erase is the last thing that touched CONFIG, the passes  *)
(* before the last have not come to it.                                    *)
ConfigUntouched ==
    /\ "CONFIG" \in EraseMask
    /\ Erased
    /\ \E a \in MaskAddrs(Map, {"CONFIG"}) : mem[a] # Blank
    => pass >= Len(WriteOrder)

ConfigInv == VInv /\ ConfigUntouched

(* A byte of CONFIG is programmed only when the other three regions are    *)
(* complete and verified.                                                  *)
THEOREM ConfigLastHolds == Spec => []ConfigLast
  <1> USE DEF cursor
  <1>1. Init => ConfigInv
    BY VInvInit DEF Init, ConfigInv, ConfigUntouched, Erased
  <1>2. ConfigInv /\ [Next]_vars => ConfigInv'
    <2> SUFFICES ASSUME ConfigInv, [Next]_vars PROVE ConfigUntouched'
      BY VInvStep DEF ConfigInv
    <2>1. VInv /\ Inv /\ ConfigUntouched
      BY DEF ConfigInv, VInv
    <2>2. fw' = fw /\ extra' = extra /\ EraseMask' = EraseMask
      BY DEF Next, Program, BulkErase, NextPass, Finish, NextBlock, LoadPC,
             RejectAddress, WriteWord, RejectWord, ReadBack, IncrementAddr,
             NextElem, Interrupt, vars, EraseMask
    <2>3. pass \in Nat /\ Len(WriteOrder) = 4
      BY <2>1 DEF Inv, TypeOK, WriteOrder
    <2> SUFFICES ASSUME "CONFIG" \in EraseMask, Erased',
                        NEW a \in MaskAddrs(Map, {"CONFIG"}), mem'[a] # Blank
                 PROVE  pass' >= 4
      BY <2>2, <2>3 DEF ConfigUntouched
    <2>4. PICK c \in DOMAIN Map : Map[c].name = "CONFIG" /\ a \in Addrs(Map[c])
      BY DEF MaskAddrs
    <2>5. a \in DOMAIN mem
      BY <2>1, MaskInMap DEF Inv, TypeOK
    <2>6. CASE BulkErase
      <3>1. a \in MaskAddrs(Map, EraseMask \cap Erasable)
        BY <2>4 DEF MaskAddrs, Erasable
      <3> QED
        BY <2>5, <2>6, <3>1 DEF BulkErase
    <2>7. CASE WriteWord
      <3>1. Busy /\ Mapped(Map, pc) /\ Erased /\ pass' = pass
        BY <2>7 DEF WriteWord, AtWord, Busy, Erased
      <3>2. CASE mem'[a] = mem[a]
        BY <2>1, <2>3, <3>1, <3>2 DEF ConfigUntouched
      <3>3. CASE mem'[a] # mem[a]
        <4>1. a \in WordAddrs
          BY <2>5, <2>7, <3>3 DEF WriteWord
        <4>2. PICK i \in DOMAIN Map : Map[i].name = fw[ri].region
                                    /\ a \in Addrs(Map[i])
          BY <2>1, <3>1, <4>1, WordInBlockRegion
        <4>3. a \in Nat
          BY <2>1, <3>1, <4>1, WordShape
        <4>4. InRegion(a, Map[i]) /\ InRegion(a, Map[c])
          <5>1. /\ Map[i].start \in Nat /\ Map[i].end \in Nat
                /\ Map[c].start \in Nat /\ Map[c].end \in Nat
            BY MapAssumption, RegionTyped
          <5> QED
            BY <2>4, <4>2, <4>3, <5>1 DEF Addrs, InRegion
        <4>5. fw[ri].region = "CONFIG"
          BY <2>4, <4>2, <4>3, <4>4, RegionsDisjoint, MapAssumption
        <4>6. fw[ri].region = WriteOrder[pass] /\ pass \in 1 .. 4
          BY <2>1, <3>1 DEF Inv, CursorInv, WriteOrder
        <4>7. pass = 4
          BY <4>5, <4>6 DEF WriteOrder
        <4> QED
          BY <3>1, <4>7
      <3> QED
        BY <3>2, <3>3
    <2>8. CASE ~ BulkErase /\ ~ WriteWord
      <3>1. Erased /\ mem' = mem /\ (pass' = pass \/ pass' = pass + 1)
        BY <2>8 DEF Next, Program, NextPass, Finish, NextBlock, InPass, LoadPC,
                    AtElem, RejectAddress, RejectWord, AtWord, ReadBack,
                    IncrementAddr, NextElem, Interrupt, vars, Erased
      <3>2. pass >= 4
        BY <2>1, <2>3, <3>1 DEF ConfigUntouched
      <3> QED
        BY <2>3, <3>1, <3>2
    <2> QED
      BY <2>6, <2>7, <2>8
  <1>3. ConfigInv => ConfigLast
    <2> SUFFICES ASSUME ConfigInv, WellFormed, "CONFIG" \in EraseMask, Erased,
                        \E a \in MaskAddrs(Map, {"CONFIG"}) : mem[a] # Blank,
                        NEW id \in ElemIds,
                        fw[id[1]].region \in {"PROGRAM", "EEPROM", "USER"}
                 PROVE  Held(id)
      BY DEF ConfigLast
    <2>1. pass >= 4 /\ pass \in Nat
      BY DEF ConfigInv, ConfigUntouched, VInv, Inv, TypeOK, WriteOrder
    <2>2. PICK p \in 1 .. 3 : fw[id[1]].region = WriteOrder[p]
      BY DEF WriteOrder
    <2>3. Processed(id)
      BY <2>1, <2>2 DEF Processed, WriteOrder
    <2> QED
      BY <2>3 DEF ConfigInv, VInv, VerifiedStaysVerified
  <1> QED
    BY <1>1, <1>2, <1>3, PTL DEF Spec
=============================================================================
