-------------------------- MODULE ProgrammerUpdate --------------------------
(***************************************************************************)
(* program_verify implements FlashUpdate, for a firmware the map has room  *)
(* for (WellFormed, which the parser does not promise).  The image is made *)
(* of the elements of the four regions that are written; the 0xFF that     *)
(* pads an odd last byte is no part of it, and no such write may show.     *)
(***************************************************************************)
EXTENDS Programmer

WrittenIds ==
    {id \in ElemIds : fw[id[1]].region \in {WriteOrder[p] : p \in DOMAIN WriteOrder}}

ImageByte(a) ==
    LET id == CHOOSE x \in WrittenIds : a \in ElemAddrs(x)
    IN  ElemAt(id).data[a - ElemAt(id).base_addr + 1]

Image == [a \in UNION {ElemAddrs(id) : id \in WrittenIds} |-> ImageByte(a)]

Job == [image |-> Image, area |-> MaskAddrs(Map, EraseMask \cap Erasable)]

Phase == CASE step = "erase" -> "whole"
           [] step = "done"  -> "done"
           [] step \in {"error", "interrupted"} -> "failed"
           [] OTHER          -> "wiped"

Update == INSTANCE FlashUpdate
              WITH Addr <- MapAddrs(Map), job <- Job, phase <- Phase

WellFormedInit == Init /\ WellFormed

WellFormedSpec == WellFormedInit /\ [][Next]_vars

(* Every step is a step of the update or none: the whole area is wiped by  *)
(* one command, every write programs blank cells with the file's bytes (a  *)
(* byte is not programmed twice, nor wiped by the padding of a neighbour), *)
(* and the normal return comes only when the device holds the image.       *)
ImplementsUpdate == Update!Spec
=============================================================================
