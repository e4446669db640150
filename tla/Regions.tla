------------------------------ MODULE Regions ------------------------------
(***************************************************************************)
(* The memory map of the microcontroller as the programmer sees it:        *)
(* Address::region, RegionMap and the two with_region lookups of           *)
(* icsp/include/Region.hpp, and the map of the PIC18-Q20 family            *)
(* (icsp/include/PIC18-Q20.hpp).                                           *)
(*                                                                         *)
(* A map is a sequence of region records.  A mask of Address::Region bits  *)
(* is the set of the names whose bit is set: operator| is union,           *)
(* operator& is intersection and Region::INVALID is the empty set.         *)
(***************************************************************************)
EXTENDS Integers, Sequences

RegionNames == {"PROGRAM", "USER", "DIA", "CONFIG", "EEPROM", "DCI", "ID"}

Region == [name : RegionNames, start : Nat, end : Nat, word_size : {1, 2},
           t_PROG_us : Nat, writable : BOOLEAN, autoincrement_addr : BOOLEAN]

(* Mutant: the end address taken for the last one. *)
InRegionClosed(a, r) == r.start <= a /\ a <= r.end

InRegion(a, r) == r.start <= a /\ a < r.end

Addrs(r) == r.start .. r.end - 1

(* The order every region of a map has to be in, whatever checks it. *)
Ordered(m) == \A i, j \in DOMAIN m : i < j => m[i].end <= m[j].start

(* detail::region_in_order: the overload for two or more regions compares  *)
(* the first two and recurses on the rest WITHOUT them, so only the pairs  *)
(* (1,2), (3,4), ... are ever compared.                                    *)
RegionInOrder(m) ==
    \A k \in 1 .. Len(m) \div 2 : m[2 * k - 1].end <= m[2 * k].start

(***************************************************************************)
(* with_region(addr, ...): the first region of the map that holds addr,    *)
(* std::out_of_range ("out of bounds address") when Mapped is false.       *)
(***************************************************************************)
Mapped(m, a) == \E i \in DOMAIN m : InRegion(a, m[i])

FirstMatch(m, a, i) ==
    InRegion(a, m[i]) /\ \A j \in 1 .. i - 1 : ~ InRegion(a, m[j])

WithRegion(m, a) == m[CHOOSE i \in DOMAIN m : FirstMatch(m, a, i)]

(* region_metadata rejects an address that is in no region, and one that   *)
(* is not a multiple of its region's word size.                            *)
Addressable(m, a) == Mapped(m, a) /\ a % WithRegion(m, a).word_size = 0

(* with_region(name, ...): the regions a name stands for in this map. *)
Named(m, n) == {m[i] : i \in {j \in DOMAIN m : m[j].name = n}}

MapAddrs(m) == UNION {Addrs(m[i]) : i \in DOMAIN m}

(* The addresses of the regions whose bit is set in a mask. *)
MaskAddrs(m, mask) ==
    UNION {Addrs(m[i]) : i \in {j \in DOMAIN m : m[j].name \in mask}}

(***************************************************************************)
(* What a proof needs of a map, beyond the shape of its records: the       *)
(* regions are in order, they do not touch one another, each has a name of *)
(* its own, and both its ends are multiples of its word size (which        *)
(* Region.hpp:102 leaves as a TODO).                                       *)
(***************************************************************************)
WellFormedMap(m) ==
    /\ m \in Seq(Region)
    /\ \A i, j \in DOMAIN m : i < j => m[i].end < m[j].start
    /\ \A i, j \in DOMAIN m : m[i].name = m[j].name => i = j
    /\ \A i \in DOMAIN m : /\ m[i].start < m[i].end
                           /\ m[i].start % m[i].word_size = 0
                           /\ m[i].end % m[i].word_size = 0

MakeRegion(n, s, e, ws, us, w, inc) ==
    [name |-> n, start |-> s, end |-> e, word_size |-> ws, t_PROG_us |-> us,
     writable |-> w, autoincrement_addr |-> inc]

pic18fq20 ==
    << MakeRegion("PROGRAM",       0,   65536, 2,    75, TRUE,  TRUE),
       MakeRegion("USER",    2097152, 2097216, 2,    75, TRUE,  TRUE),
       MakeRegion("DIA",     2883584, 2883840, 2,     0, FALSE, TRUE),
       MakeRegion("CONFIG",  3145728, 3145760, 1, 11000, TRUE,  FALSE),
       MakeRegion("EEPROM",  3670016, 3670272, 1, 11000, TRUE,  TRUE),
       MakeRegion("DCI",     3932160, 3932170, 2,     0, FALSE, TRUE),
       MakeRegion("ID",      4194300, 4194304, 2,     0, FALSE, TRUE) >>
=============================================================================
