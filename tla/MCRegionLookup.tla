--------------------------- MODULE MCRegionLookup ---------------------------
(* Every map of one to three small regions, ordered or not, touching or    *)
(* not, that the static_asserts may be asked to accept.                    *)
EXTENDS RegionLookup

MaxAddr == 4

MCKeys == 0 .. MaxAddr

Extents == {x \in (0 .. MaxAddr) \X (0 .. MaxAddr) : x[1] < x[2]}

At(n, x) == MakeRegion(n, x[1], x[2], 1, 0, TRUE, TRUE)

MCMaps ==
    {<<At("PROGRAM", x)>> : x \in Extents}
    \cup {<<At("PROGRAM", x), At("USER", y)>> : x \in Extents, y \in Extents}
    \cup {<<At("PROGRAM", x), At("USER", y), At("DIA", z)>> :
            x \in Extents, y \in Extents, z \in Extents}

(* The map of the PIC18-Q20 family meets what the proofs assume of a map,  *)
(* and a lookup in it compiles.                                            *)
ASSUME RealMapIsWellFormed == WellFormedMap(pic18fq20) /\ Compiles(pic18fq20)
=============================================================================
