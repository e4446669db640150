---------------------------- MODULE RegionLookup ----------------------------
(***************************************************************************)
(* The recursion of Address::detail::with_region (Region.hpp): a lookup    *)
(* that walks a compile-time map one region at a time, by address or by    *)
(* name, and throws when the map is exhausted.  The map is one the lookup  *)
(* compiles for (Compiles), the key is any.                                *)
(***************************************************************************)
EXTENDS Regions

CONSTANTS Maps,     \* the maps to look in
          Keys      \* the addresses to look for

(* No region ends before it starts: region::size, which every use of a     *)
(* region's data evaluates at compile time, throws for such a region.      *)
ASSUME LookupAssumption ==
    /\ Maps \subseteq Seq(Region) \ {<<>>}
    /\ \A m \in Maps : \A i \in DOMAIN m : m[i].start <= m[i].end
    /\ Keys \subseteq Nat

VARIABLES map,      \* the RegionMap<R, Rs...> argument of the outermost call
          key,      \* the address looked for
          idx,      \* the region the current call compares: Idx + 1
          found     \* "no" while walking, "yes", or "out_of_range"

vars == <<map, key, idx, found>>

(* A lookup compiles for a map: the recursion of with_region names the     *)
(* type RegionMap<Rs...> of every tail of the map, and each of them is     *)
(* checked by the static_assert over region_in_order.                      *)
Compiles(m) == \A k \in DOMAIN m : RegionInOrder(SubSeq(m, k, Len(m)))

Init == /\ map \in {m \in Maps : Compiles(m)}
        /\ key \in Keys
        /\ idx = 1
        /\ found = "no"

(* comp(key, R) holds: the functor is called with this region. *)
Match == /\ found = "no"
         /\ InRegion(key, map[idx])
         /\ found' = "yes"
         /\ UNCHANGED <<map, key, idx>>

(* Mutants of Descend: it takes the map for longer than it is; it drops    *)
(* two regions, as region_in_order does; it passes the whole map on.       *)
DescendPastEnd == /\ found = "no"
                  /\ ~ InRegion(key, map[idx])
                  /\ idx' = idx + 1
                  /\ UNCHANGED <<map, key, found>>

DescendByTwo == /\ found = "no"
                /\ ~ InRegion(key, map[idx])
                /\ idx < Len(map)
                /\ idx' = IF idx + 2 > Len(map) THEN Len(map) ELSE idx + 2
                /\ UNCHANGED <<map, key, found>>

DescendNowhere == /\ found = "no"
                  /\ ~ InRegion(key, map[idx])
                  /\ idx < Len(map)
                  /\ UNCHANGED vars

(* sizeof...(Rs) > 0: the lookup goes on in the rest of the map. *)
Descend == /\ found = "no"
           /\ ~ InRegion(key, map[idx])
           /\ idx < Len(map)
           /\ idx' = idx + 1
           /\ UNCHANGED <<map, key, found>>

(* Nothing left to compare: throw std::out_of_range. *)
OutOfBounds == /\ found = "no"
               /\ ~ InRegion(key, map[idx])
               /\ idx = Len(map)
               /\ found' = "out_of_range"
               /\ UNCHANGED <<map, key, idx>>

Next == Match \/ Descend \/ OutOfBounds

Spec == Init /\ [][Next]_vars /\ WF_vars(Next)

TypeOK == /\ map \in Maps
          /\ key \in Keys
          /\ idx \in 1 .. Len(map)
          /\ found \in {"no", "yes", "out_of_range"}

(* A lookup hands its functor the region WithRegion names, and throws only *)
(* for an address that no region of the map holds: no region is walked     *)
(* past.                                                                   *)
LookupIsFirstMatch ==
    /\ found = "yes" => map[idx] = WithRegion(map, key)
    /\ found = "out_of_range" => ~ Mapped(map, key)

(* In every map a lookup compiles for, the region found is the only one    *)
(* that holds the address, although region_in_order skips every second     *)
(* pair: an address has one owner, and the last address of a region is not *)
(* also the first of the next.                                             *)
LookupIsUnambiguous ==
    found = "yes" =>
        \A i \in DOMAIN map : key \in Addrs(map[i]) => i = idx

(* Every lookup ends: with a region or with the exception. *)
LookupEnds == <>(found # "no")
=============================================================================
