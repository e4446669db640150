----------------------- MODULE ProgrammerUpdateProofs -----------------------
(***************************************************************************)
(* program_verify implements FlashUpdate, for every map, mask and firmware *)
(* without overlap that fits the map.                                      *)
(***************************************************************************)
EXTENDS ProgrammerUpdate, ProgrammerProofs

Active == step = "seek" \/ Busy

Area == MaskAddrs(Map, EraseMask \cap Erasable)

(* The next byte of the current element that may be programmed. *)
NextAddr == IF step = "write" THEN pc ELSE pc + HostRegion.word_size

(* What the programmer has not come to is still blank: the elements it is  *)
(* not through with, but for the front of the one it is at.  The 0xFF that *)
(* pads an odd last byte leaves it so.                                     *)
StillBlank(id) ==
    \A a \in ElemAddrs(id) \cap Area :
        (Busy /\ id = <<ri, ei>> => a >= NextAddr) => mem[a] = Blank

BlankInv == Active => \A id \in ElemIds : ~ Processed(id) => StillBlank(id)

UpdateInv == VInv /\ StaleInv /\ WellFormed /\ BlankInv

-----------------------------------------------------------------------------
(* The arguments of program_verify are const, and so is what they describe.*)
LEMMA ArgumentsKept ==
    ASSUME [Next]_vars
    PROVE  /\ fw' = fw /\ extra' = extra
           /\ ElemIds' = ElemIds /\ Area' = Area
           /\ \A id : ElemAt(id)' = ElemAt(id) /\ ElemAddrs(id)' = ElemAddrs(id)
           /\ WrittenIds' = WrittenIds
           /\ WellFormed' = WellFormed
  <1>1. fw' = fw /\ extra' = extra
    BY DEF Next, Program, BulkErase, NextPass, Finish, NextBlock, LoadPC,
           RejectAddress, WriteWord, RejectWord, ReadBack, IncrementAddr,
           NextElem, Interrupt, vars
  <1>2. ElemIds' = ElemIds /\ Area' = Area
    BY <1>1 DEF ElemIds, Area, EraseMask
  <1>3. \A id : ElemAt(id)' = ElemAt(id) /\ ElemAddrs(id)' = ElemAddrs(id)
    BY <1>1 DEF ElemAt, ElemAddrs
  <1>4. WrittenIds' = WrittenIds
    BY <1>1, <1>2 DEF WrittenIds
  <1>5. WellFormed' = WellFormed
    BY <1>1, <1>2, <1>3 DEF WellFormed, FitsMap, NoOverlap
  <1> QED
    BY <1>1, <1>2, <1>3, <1>4, <1>5

(* The byte of the image at an address is that of the one element there.   *)
LEMMA ImageByteIs ==
    ASSUME NoOverlap, NEW id \in WrittenIds, NEW a \in ElemAddrs(id)
    PROVE  ImageByte(a) = ElemAt(id).data[a - ElemAt(id).base_addr + 1]
  <1> DEFINE x == CHOOSE y \in WrittenIds : a \in ElemAddrs(y)
  <1>1. x \in WrittenIds /\ a \in ElemAddrs(x)
    OBVIOUS
  <1>2. x = id
    BY <1>1 DEF NoOverlap, WrittenIds
  <1> QED
    BY <1>2 DEF ImageByte

LEMMA JobKept ==
    ASSUME [Next]_vars
    PROVE  Job' = Job
  <1>1. fw' = fw /\ Area' = Area /\ WrittenIds' = WrittenIds
    BY ArgumentsKept
  <1>2. Image' = Image
    BY <1>1 DEF Image, ImageByte, ElemAt, ElemAddrs
  <1> QED
    BY <1>1, <1>2 DEF Job, Area

(* An element of the image lies in the area that is erased first. *)
LEMMA WrittenInArea ==
    ASSUME FitsMap, TypeOK, NEW id \in WrittenIds
    PROVE  ElemAddrs(id) \subseteq Area
  <1>1. id \in ElemIds /\ fw[id[1]].region \in Erasable
    BY DEF WrittenIds, WriteOrder, Erasable
  <1>2. id[1] \in DOMAIN fw
    BY <1>1, ElemIdTyped
  <1>3. fw[id[1]].region \in EraseMask \cap Erasable
    BY <1>1, <1>2 DEF EraseMask
  <1>4. ElemAddrs(id) \subseteq MaskAddrs(Map, {fw[id[1]].region})
    BY <1>1 DEF FitsMap
  <1> QED
    BY <1>3, <1>4 DEF Area, MaskAddrs

LEMMA CurrentIsWritten ==
    ASSUME Inv, Busy
    PROVE  <<ri, ei>> \in WrittenIds
  BY CurrentIsElem DEF WrittenIds, Inv, CursorInv

(* What is through stays through. *)
LEMMA ProcessedGrows ==
    ASSUME Inv, [Next]_vars, NEW id \in ElemIds, Processed(id)
    PROVE  Processed(id)'
  <1>1. id[1] \in Nat /\ id[2] \in Nat
    BY ElemIdTyped DEF Inv
  <1>2. DOMAIN WriteOrder = 1 .. 4 /\ pass \in Nat /\ ri \in Nat /\ ei \in Nat
    BY DEF Inv, TypeOK, WriteOrder
  <1>3. fw' = fw
    BY ArgumentsKept
  <1>4. PICK p \in 1 .. 4 :
           /\ fw[id[1]].region = WriteOrder[p]
           /\ \/ p < pass
              \/ p = pass /\ id[1] < ri
              \/ p = pass /\ id[1] = ri /\ id[2] < ei
    BY <1>2 DEF Processed
  <1>5. \/ p < pass'
        \/ p = pass' /\ id[1] < ri'
        \/ p = pass' /\ id[1] = ri' /\ id[2] < ei'
    <2>1. CASE NextPass
      BY <1>2, <1>4, <2>1 DEF NextPass
    <2>2. CASE NextBlock
      BY <1>1, <1>2, <1>4, <2>2 DEF NextBlock
    <2>3. CASE NextElem
      BY <1>1, <1>2, <1>4, <2>3 DEF NextElem
    <2>4. CASE UNCHANGED <<pass, ri, ei>>
      BY <1>4, <2>4
    <2> QED
      BY <2>1, <2>2, <2>3, <2>4
         DEF Next, Program, BulkErase, Finish, LoadPC, RejectAddress, WriteWord,
             RejectWord, ReadBack, IncrementAddr, Interrupt, vars, cursor
  <1> QED
    BY <1>2, <1>3, <1>4, <1>5 DEF Processed

(* The addresses of the word at pc, for the current element: those at which*)
(* it has a byte are not before pc, and at the others 0xFF is sent.        *)
LEMMA WordBytes ==
    ASSUME Inv, NoOverlap, AtWord, Mapped(Map, pc), NEW a \in WordAddrs
    PROVE  /\ a \in Nat /\ a >= pc /\ a \in Area
           /\ a \in ElemAddrs(<<ri, ei>>) => Outgoing(a) = ImageByte(a)
           /\ a \notin ElemAddrs(<<ri, ei>>) => Outgoing(a) = Blank
  <1> DEFINE cur == <<ri, ei>>
             b == Current.base_addr
             n == Len(Current.data)
  <1>1. Busy
    BY DEF AtWord, Busy
  <1>2. cur \in WrittenIds /\ cur \in ElemIds /\ ElemAt(cur) = Current
    BY <1>1, CurrentIsElem, CurrentIsWritten
  <1>3. /\ b \in Nat /\ n \in Nat /\ DOMAIN Current.data = 1 .. n
        /\ pc = b + off /\ off \in Nat /\ pc \in Nat
    BY <1>1, AtWork DEF Inv, TypeOK, CursorInv
  <1>4. a = pc \/ a = pc + 1
    BY <1>1, WordShape
  <1>5. a \in ElemAddrs(cur) <=> a - b + 1 \in DOMAIN Current.data
    <2>1. ElemAddrs(cur) = b .. b + n - 1
      BY <1>2 DEF ElemAddrs
    <2>2. a \in b .. b + n - 1 <=> a - b + 1 \in 1 .. n
      <3> HIDE DEF b, n
      <3> QED
        BY <1>3, <1>4
    <2> QED
      BY <1>3, <2>1, <2>2
  <1>6. off + (a - pc) + 1 = a - b + 1
    BY <1>3, <1>4
  <1>7. a \in Area
    <2>1. PICK i \in DOMAIN Map : Map[i].name = fw[ri].region
                                /\ a \in Addrs(Map[i])
      BY <1>1, WordInBlockRegion
    <2>2. fw[ri].region \in EraseMask \cap Erasable
      BY <1>1 DEF Inv, CursorInv, EraseMask, Erasable, WriteOrder
    <2> QED
      BY <2>1, <2>2 DEF Area, MaskAddrs
  <1>8. ASSUME a \in ElemAddrs(cur)
        PROVE  Outgoing(a) = ImageByte(a)
    <2>1. Outgoing(a) = Current.data[a - b + 1]
      BY <1>5, <1>6, <1>8 DEF Outgoing
    <2> QED
      BY <1>2, <1>8, <2>1, ImageByteIs
  <1>9. ASSUME a \notin ElemAddrs(cur)
        PROVE  Outgoing(a) = Blank
    BY <1>5, <1>6, <1>9 DEF Outgoing
  <1> QED
    BY <1>3, <1>4, <1>7, <1>8, <1>9

(* Whatever the word overwrites is blank: its own bytes have not been      *)
(* programmed before, and its padding reaches no programmed neighbour.     *)
LEMMA WordIsBlank ==
    ASSUME UpdateInv, AtWord, Mapped(Map, pc), NEW a \in WordAddrs
    PROVE  mem[a] = Blank
  <1> DEFINE cur == <<ri, ei>>
  <1>1. Inv /\ Busy /\ WellFormed /\ FitsMap /\ NoOverlap /\ step = "write"
    BY DEF UpdateInv, VInv, WellFormed, AtWord, Busy
  <1>2. a \in Area /\ a >= pc
    BY <1>1, WordBytes
  <1>3. \A id \in ElemIds : ~ Processed(id) => StillBlank(id)
    BY <1>1 DEF UpdateInv, BlankInv, Active
  <1>4. CASE a \in ElemAddrs(cur)
    <2>1. StillBlank(cur)
      BY <1>1, <1>3, CurrentIsElem, CurrentNotProcessed
    <2> QED
      BY <1>1, <1>2, <1>4, <2>1 DEF StillBlank, NextAddr
  <1>5. CASE a \notin ElemAddrs(cur)
    <2>1. \/ mem[a] = Blank
          \/ \E id \in ElemIds : a \in ElemAddrs(id)
      BY <1>1, <1>2 DEF UpdateInv, StaleInv, NoStaleByte, Erased, Area
    <2>2. ASSUME NEW id \in ElemIds, a \in ElemAddrs(id)
          PROVE  mem[a] = Blank
      <3>1. id # cur
        BY <1>5, <2>2
      <3>2. ~ Addressable(Map, ElemAt(id).base_addr)
        BY <1>1, <2>2, <3>1, WordIsFree
      <3>3. ~ Processed(id)
        BY <3>2 DEF UpdateInv, VInv, ProcessedAddressable
      <3> QED
        BY <1>2, <1>3, <2>2, <3>1, <3>3 DEF StillBlank
    <2> QED
      BY <2>1, <2>2
  <1> QED
    BY <1>4, <1>5

(* Programming a word leaves everything else as it was, and programs bytes *)
(* of the current element only.                                            *)
LEMMA WordChanges ==
    ASSUME UpdateInv, WriteWord, NEW a \in DOMAIN mem, mem'[a] # mem[a]
    PROVE  /\ a \in WordAddrs /\ a \in ElemAddrs(<<ri, ei>>)
           /\ mem'[a] = ImageByte(a)
  <1>1. AtWord /\ Mapped(Map, pc) /\ Inv /\ NoOverlap
    BY DEF WriteWord, UpdateInv, VInv, WellFormed
  <1>2. a \in WordAddrs /\ mem'[a] = Outgoing(a)
    BY DEF WriteWord
  <1>3. mem[a] = Blank
    BY <1>1, <1>2, WordIsBlank
  <1>4. a \in ElemAddrs(<<ri, ei>>)
    BY <1>1, <1>2, <1>3, WordBytes
  <1> QED
    BY <1>1, <1>2, <1>4, WordBytes

(* A step that leaves the memory alone, and no element newly active with a *)
(* front shorter than before, keeps the rest blank.                        *)
LEMMA BlankKept ==
    ASSUME UpdateInv, [Next]_vars, Active, mem' = mem,
           \A id \in ElemIds :
               /\ ~ Processed(id)'
               /\ Busy /\ id = <<ri, ei>>
               => Busy' /\ id = <<ri, ei>>' /\ NextAddr' >= NextAddr
                        /\ NextAddr \in Nat /\ NextAddr' \in Nat
    PROVE  BlankInv'
  <1> SUFFICES ASSUME NEW id \in ElemIds, ~ Processed(id)',
                      NEW a \in ElemAddrs(id) \cap Area,
                      Busy' /\ id = <<ri, ei>>' => a >= NextAddr'
               PROVE  mem[a] = Blank
    BY ArgumentsKept DEF BlankInv, StillBlank
  <1>1. Inv /\ StillBlank(id)
    BY ProcessedGrows DEF UpdateInv, VInv, BlankInv
  <1>2. a \in Int
    BY DEF ElemAddrs
  <1> QED
    BY <1>1, <1>2 DEF StillBlank

LEMMA BlankStep == UpdateInv /\ [Next]_vars => BlankInv'
  <1> SUFFICES ASSUME UpdateInv, [Next]_vars PROVE BlankInv'
    OBVIOUS
  <1> USE DEF cursor
  <1>1. Inv /\ TypeOK /\ CursorInv /\ NoOverlap
    BY DEF UpdateInv, VInv, Inv, WellFormed
  <1>2. pc \in Nat /\ off \in Nat /\ ei \in Nat /\ ri \in Nat
    BY <1>1 DEF TypeOK
  <1>3. Busy => HostRegion.word_size \in {1, 2}
    BY <1>1, AtWork
  <1>4. CASE BulkErase
    <2> SUFFICES ASSUME NEW a \in Area PROVE mem'[a] = Blank
      BY ArgumentsKept DEF BlankInv, StillBlank
    <2>1. a \in DOMAIN mem
      BY <1>1, MaskInMap DEF Area, TypeOK
    <2> QED
      BY <1>4, <2>1 DEF BulkErase, Area
  <1>5. CASE NextPass \/ NextBlock \/ LoadPC
    <2>1. mem' = mem /\ Active /\ ~ Busy
      BY <1>5 DEF NextPass, NextBlock, LoadPC, InPass, AtElem, Active, Busy
    <2> QED
      BY <2>1, BlankKept
  <1>6. CASE WriteWord
    <2>1. Busy /\ AtWord /\ step = "write" /\ step' = "readback" /\ Mapped(Map, pc)
          /\ UNCHANGED <<fw, pc, pass, ri, ei, off>>
      BY <1>6 DEF WriteWord, AtWord, Busy
    <2>2. HostRegion' = HostRegion
      BY <2>1 DEF HostRegion, Current
    <2>3. PICK w \in {1, 2} : HostRegion.word_size = w
      BY <1>3, <2>1
    <2> SUFFICES ASSUME NEW id \in ElemIds, ~ Processed(id),
                        NEW a \in ElemAddrs(id) \cap Area,
                        id = <<ri, ei>> => a >= pc + w
                 PROVE  mem'[a] = Blank
      <3>1. \A id : Processed(id)' = Processed(id)
        BY <2>1 DEF Processed
      <3>2. Busy' /\ NextAddr' = pc + w /\ <<ri, ei>>' = <<ri, ei>>
        BY <2>1, <2>2, <2>3 DEF Busy, NextAddr
      <3> QED
        BY <3>1, <3>2, ArgumentsKept DEF BlankInv, StillBlank
    <2>4. a \in DOMAIN mem /\ a \in Int
      BY <1>1, MaskInMap DEF Area, TypeOK, ElemAddrs
    <2>5. CASE mem'[a] # mem[a]
      <3>1. a \in WordAddrs /\ a \in ElemAddrs(<<ri, ei>>)
        BY <1>6, <2>4, <2>5, WordChanges
      <3>2. id = <<ri, ei>>
        BY <1>1, <2>1, <3>1, CurrentIsElem DEF NoOverlap
      <3>3. DeviceRegion = HostRegion
        BY <1>1, <2>1, AtWork
      <3>4. a <= pc + w - 1
        BY <2>3, <3>1, <3>3 DEF WordAddrs
      <3> QED
        BY <1>2, <2>4, <3>2, <3>4
    <2>6. CASE mem'[a] = mem[a]
      <3>1. StillBlank(id)
        BY <2>1 DEF UpdateInv, BlankInv, Active
      <3>2. id = <<ri, ei>> => a >= pc
        BY <1>2, <2>4
      <3> QED
        BY <2>1, <2>6, <3>1, <3>2 DEF StillBlank, NextAddr
    <2> QED
      BY <2>5, <2>6
  <1>7. CASE ReadBack
    <2>1. Busy /\ Active /\ mem' = mem /\ step = "readback"
          /\ UNCHANGED <<fw, pc, pass, ri, ei, off>>
          /\ step' \in {"increment", "error"}
      BY <1>7 DEF ReadBack, Busy, Active
    <2>2. CASE step' = "error"
      BY <2>2 DEF BlankInv, Active, Busy
    <2>3. CASE step' = "increment"
      <3>1. NextAddr' = NextAddr
        BY <2>1, <2>3 DEF NextAddr, HostRegion, Current
      <3>2. NextAddr \in Nat
        BY <1>2, <1>3, <2>1 DEF NextAddr
      <3> QED
        BY <2>1, <2>3, <3>1, <3>2, BlankKept DEF Busy
    <2> QED
      BY <2>1, <2>2, <2>3
  <1>8. CASE IncrementAddr
    <2>1. Busy /\ Active /\ mem' = mem /\ step = "increment" /\ step' = "write"
          /\ UNCHANGED <<fw, pass, ri, ei>> /\ pc < HostRegion.end
      BY <1>1, <1>8 DEF IncrementAddr, Busy, Active, CursorInv
    <2>2. DeviceRegion = HostRegion
      BY <1>1, <2>1, AtWork
    <2>3. NextAddr' = NextAddr /\ NextAddr \in Nat
      BY <1>2, <1>3, <1>8, <2>1, <2>2 DEF IncrementAddr, NextAddr
    <2> QED
      BY <2>1, <2>3, BlankKept DEF Busy
  <1>9. CASE NextElem
    <2>1. mem' = mem /\ Active /\ Busy
      BY <1>9 DEF NextElem, Active, Busy
    <2>2. fw[ri].region = WriteOrder[pass] /\ pass \in DOMAIN WriteOrder
      BY <1>1, <2>1 DEF CursorInv
    <2>3. ASSUME NEW id \in ElemIds, id = <<ri, ei>>
          PROVE  Processed(id)'
      <3>1. id[1] = ri /\ id[2] = ei
        BY <2>3
      <3>2. /\ fw' = fw /\ pass' = pass /\ ri' = ri /\ ei' = ei + 1
        BY <1>9 DEF NextElem
      <3> QED
        BY <1>2, <2>2, <3>1, <3>2 DEF Processed
    <2> QED
      BY <2>1, <2>3, BlankKept
  <1>10. CASE Finish \/ RejectAddress \/ RejectWord \/ Interrupt
    BY <1>10 DEF Finish, RejectAddress, RejectWord, Interrupt, BlankInv, Active,
                 Busy
  <1>11. CASE UNCHANGED vars
    <2>1. Active' = Active /\ Busy' = Busy /\ NextAddr' = NextAddr
          /\ mem' = mem /\ <<ri, ei>>' = <<ri, ei>>
          /\ \A id : Processed(id)' = Processed(id)
      BY <1>11 DEF vars, Active, Busy, NextAddr, HostRegion, Current, Processed
    <2> QED
      BY <2>1, ArgumentsKept DEF UpdateInv, BlankInv, StillBlank
  <1> QED
    BY <1>4, <1>5, <1>6, <1>7, <1>8, <1>9, <1>10, <1>11 DEF Next, Program

LEMMA UpdateInvHolds ==
    /\ WellFormedInit => UpdateInv
    /\ UpdateInv /\ [Next]_vars => UpdateInv'
  <1>1. WellFormedInit => UpdateInv
    BY VInvInit, InvInit DEF WellFormedInit, UpdateInv, StaleInv, NoStaleByte,
                             Erased, BlankInv, Active, Busy, Init
  <1>2. UpdateInv /\ [Next]_vars => UpdateInv'
    BY VInvStep, StaleStep, BlankStep, ArgumentsKept DEF UpdateInv
  <1> QED
    BY <1>1, <1>2

-----------------------------------------------------------------------------
(* One step of program_verify under the mapping: the bulk erase wipes, a   *)
(* word stores, the normal return completes, and the rest gives up or is   *)
(* not seen.                                                               *)
LEMMA StoresWord ==
    ASSUME UpdateInv, WriteWord
    PROVE  Update!Store
  <1>1. /\ AtWord /\ Mapped(Map, pc) /\ Busy /\ step = "write"
        /\ step' = "readback"
        /\ Inv /\ TypeOK /\ FitsMap /\ NoOverlap
    BY DEF WriteWord, AtWord, Busy, UpdateInv, VInv, Inv, WellFormed
  <1> DEFINE cells == {a \in DOMAIN mem : mem'[a] # mem[a]}
  <1>2. ASSUME NEW a \in cells
        PROVE  a \in DOMAIN Image /\ mem[a] = Blank /\ mem'[a] = Image[a]
    <2>1. /\ a \in WordAddrs /\ a \in ElemAddrs(<<ri, ei>>)
          /\ mem'[a] = ImageByte(a)
      BY WordChanges
    <2>2. a \in DOMAIN Image
      BY <1>1, <2>1, CurrentIsWritten DEF Image
    <2>3. mem[a] = Blank
      BY <1>1, <2>1, WordIsBlank
    <2> QED
      BY <2>1, <2>2, <2>3 DEF Image
  <1>3. cells \in SUBSET {a \in DOMAIN Image : mem[a] = Blank}
    BY <1>2
  <1>4. mem' = [a \in DOMAIN mem |-> IF a \in cells THEN Image[a] ELSE mem[a]]
    <2>1. PICK programmed \in SUBSET WordAddrs :
             mem' = [a \in DOMAIN mem |->
                        IF a \in programmed THEN Outgoing(a) ELSE mem[a]]
      BY DEF WriteWord
    <2>2. \A a \in DOMAIN mem :
             mem'[a] = IF a \in cells THEN Image[a] ELSE mem[a]
      BY <1>2
    <2> HIDE DEF cells
    <2> QED
      BY <2>1, <2>2
  <1>5. Job' = Job
    BY JobKept DEF Next, Program
  <1>6. Phase = "wiped" /\ Phase' = "wiped"
    BY <1>1 DEF Phase
  <1> QED
    BY <1>3, <1>4, <1>5, <1>6 DEF Update!Store, Job

LEMMA FinishCompletes ==
    ASSUME UpdateInv, Finish
    PROVE  Update!Complete
  <1>1. pass > 4 /\ pass \in Nat /\ DOMAIN WriteOrder = 1 .. 4
        /\ VInv /\ WellFormed /\ NoOverlap /\ TypeOK
    BY DEF Finish, UpdateInv, VInv, Inv, TypeOK, WriteOrder, WellFormed
  <1>2. ASSUME NEW a \in DOMAIN Image
        PROVE  mem[a] = Image[a]
    <2>1. PICK id \in WrittenIds : a \in ElemAddrs(id)
      BY DEF Image
    <2>2. id \in ElemIds /\ Processed(id)
      BY <1>1 DEF WrittenIds, Processed
    <2>3. Held(id)
      BY <1>1, <2>2 DEF VInv, VerifiedStaysVerified
    <2> DEFINE b == ElemAt(id).base_addr
               n == Len(ElemAt(id).data)
    <2>4. /\ b \in Nat /\ n \in Nat
          /\ DOMAIN ElemAt(id).data = 1 .. n
      BY <1>1, <2>2, ElemIdTyped
    <2>5. a - b + 1 \in 1 .. n /\ b + (a - b + 1) - 1 = a
      <3>1. a \in b .. b + n - 1
        BY <2>1 DEF ElemAddrs
      <3> HIDE DEF b, n
      <3> QED
        BY <2>4, <3>1
    <2>6. mem[a] = ElemAt(id).data[a - b + 1]
      BY <2>3, <2>4, <2>5 DEF Held, HeldUpTo
    <2> QED
      BY <1>1, <2>1, <2>6, ImageByteIs DEF Image
  <1>3. Job' = Job
    BY JobKept DEF Next, Program
  <1>4. mem' = mem /\ Phase = "wiped" /\ Phase' = "done"
    BY DEF Finish, Phase
  <1> QED
    BY <1>2, <1>3, <1>4 DEF Update!Complete, Job

LEMMA StepImplements ==
    UpdateInv /\ [Next]_vars => [Update!Next]_Update!vars
  <1> DEFINE Seen == Update!Next \/ UNCHANGED <<mem, Job, Phase>>
  <1> SUFFICES ASSUME UpdateInv, [Next]_vars
               PROVE  Seen
    BY DEF Update!vars
  <1> USE DEF cursor
  <1>1. Job' = Job
    BY JobKept
  <1>2. CASE BulkErase
    <2>1. Phase = "whole" /\ Phase' = "wiped"
      BY <1>2 DEF BulkErase, Phase
    <2>2. Update!Wipe
      BY <1>1, <1>2, <2>1 DEF BulkErase, Update!Wipe, Job
    <2> QED
      BY <2>2 DEF Update!Next
  <1>3. CASE WriteWord
    BY <1>3, StoresWord DEF Update!Next
  <1>4. CASE Finish
    BY <1>4, FinishCompletes DEF Update!Next
  <1>5. CASE RejectAddress \/ RejectWord \/ Interrupt
             \/ (ReadBack /\ step' = "error")
    <2>1. Phase \in {"whole", "wiped"} /\ Phase' = "failed" /\ mem' = mem
      <3>1. step \in {"erase", "seek", "write", "readback", "increment"}
            /\ step' \in {"error", "interrupted"} /\ mem' = mem
        BY <1>5 DEF UpdateInv, VInv, Inv, TypeOK, RejectAddress, AtElem, InPass,
                    RejectWord, AtWord, Interrupt, Running, Outcomes, ReadBack
      <3> QED
        BY <3>1 DEF Phase
    <2> QED
      BY <1>1, <2>1 DEF Update!Next, Update!GiveUp
  <1>6. CASE NextPass \/ NextBlock \/ LoadPC \/ IncrementAddr \/ NextElem
             \/ (ReadBack /\ step' # "error")
    <2>1. /\ step \in {"seek", "write", "readback", "increment"}
          /\ step' \in {"seek", "write", "readback", "increment"}
          /\ mem' = mem
      BY <1>6 DEF NextPass, NextBlock, LoadPC, AtElem, InPass, IncrementAddr,
                  NextElem, ReadBack
    <2>2. Phase = "wiped" /\ Phase' = "wiped"
      BY <2>1 DEF Phase
    <2> QED
      BY <1>1, <2>1, <2>2
  <1>7. CASE UNCHANGED vars
    BY <1>1, <1>7 DEF vars, Phase
  <1>8. CASE ReadBack
    BY <1>5, <1>6, <1>8
  <1> HIDE DEF Seen
  <1> QED
    BY <1>2, <1>3, <1>4, <1>5, <1>6, <1>7, <1>8 DEF Next, Program

LEMMA InitImplements == WellFormedInit => Update!Init
  <1> SUFFICES ASSUME WellFormedInit PROVE Update!Init
    OBVIOUS
  <1>1. TypeOK /\ FitsMap /\ NoOverlap
    BY InvInit DEF WellFormedInit, Inv, WellFormed
  <1>2. mem \in [MapAddrs(Map) -> Byte] /\ Area \subseteq MapAddrs(Map)
    BY <1>1, MaskInMap DEF TypeOK, Area
  <1>3. ASSUME NEW a \in DOMAIN Image
        PROVE  a \in Area /\ Image[a] \in Byte
    <2>1. PICK id \in WrittenIds : a \in ElemAddrs(id)
      BY DEF Image
    <2>2. a \in Area
      BY <1>1, <2>1, WrittenInArea
    <2> DEFINE b == ElemAt(id).base_addr
               n == Len(ElemAt(id).data)
    <2>3. /\ b \in Nat /\ n \in Nat /\ ElemAt(id).data \in Seq(Byte)
          /\ DOMAIN ElemAt(id).data = 1 .. n
      BY <1>1, <2>1, ElemIdTyped DEF WrittenIds
    <2>4. a - b + 1 \in 1 .. n
      <3>1. a \in b .. b + n - 1
        BY <2>1 DEF ElemAddrs
      <3> HIDE DEF b, n
      <3> QED
        BY <2>3, <3>1
    <2>5. Image[a] = ElemAt(id).data[a - b + 1]
      BY <1>1, <2>1, ImageByteIs DEF Image
    <2> QED
      BY <2>2, <2>3, <2>4, <2>5
  <1>4. Phase = "whole"
    BY DEF WellFormedInit, Init, Phase
  <1> QED
    BY <1>2, <1>3, <1>4 DEF Update!Init, Job, Area

(* Every behaviour of program_verify, seen through Job and Phase, is one of*)
(* the abstract update: the area is wiped by one command, each byte of the *)
(* image is stored at most once and where the memory is blank, nothing     *)
(* else is written, and the normal return finds the image in the device.   *)
THEOREM UpdateImplemented == WellFormedSpec => ImplementsUpdate
  BY UpdateInvHolds, StepImplements, InitImplements, PTL
     DEF WellFormedSpec, ImplementsUpdate, Update!Spec
=============================================================================
