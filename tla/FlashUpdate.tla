----------------------------- MODULE FlashUpdate -----------------------------
(***************************************************************************)
(* What program_verify promises of the device's memory, without regions,   *)
(* words, passes or a program counter: an area is wiped as a whole, then   *)
(* bytes of the image are stored, each only where the memory is blank, and *)
(* the update is complete when the memory holds the image.  It may be      *)
(* given up at any time.                                                   *)
(***************************************************************************)
CONSTANTS Addr,   \* the addresses of the memory
          Byte,
          Blank   \* an erased byte

VARIABLES mem,    \* the memory, a function on addresses
          job,    \* [image, area]: bytes by address, a set of addresses
          phase   \* "whole", "wiped", "done", or "failed"

vars == <<mem, job, phase>>

(* Everything the image stores is in the area that is wiped first. *)
Init == /\ mem \in [Addr -> Byte]
        /\ job.area \subseteq Addr
        /\ DOMAIN job.image \subseteq job.area
        /\ \A a \in DOMAIN job.image : job.image[a] \in Byte
        /\ phase = "whole"

(* All of the area at once: there is no half-wiped memory. *)
Wipe ==
    /\ phase = "whole"
    /\ mem' = [a \in DOMAIN mem |-> IF a \in job.area THEN Blank ELSE mem[a]]
    /\ phase' = "wiped"
    /\ UNCHANGED job

(* A cell is programmed once after it was erased, and with its own byte. *)
Store ==
    /\ phase = "wiped"
    /\ \E cells \in SUBSET {a \in DOMAIN job.image : mem[a] = Blank} :
          mem' = [a \in DOMAIN mem |->
                     IF a \in cells THEN job.image[a] ELSE mem[a]]
    /\ UNCHANGED <<job, phase>>

Complete ==
    /\ phase = "wiped"
    /\ \A a \in DOMAIN job.image : mem[a] = job.image[a]
    /\ phase' = "done"
    /\ UNCHANGED <<mem, job>>

GiveUp ==
    /\ phase \in {"whole", "wiped"}
    /\ phase' = "failed"
    /\ UNCHANGED <<mem, job>>

Next == Wipe \/ Store \/ Complete \/ GiveUp

Spec == Init /\ [][Next]_vars
=============================================================================
