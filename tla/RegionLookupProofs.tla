------------------------- MODULE RegionLookupProofs -------------------------
(***************************************************************************)
(* The recursive lookup returns what WithRegion stands for in every map it *)
(* compiles for, and the regions of such a map do not overlap.             *)
(***************************************************************************)
EXTENDS RegionLookup, RegionFacts

(* The static_asserts of all the tails together compare every region with  *)
(* the next one, although each of them skips every second pair.            *)
LEMMA AdjacentInOrder ==
    ASSUME NEW m \in Seq(Region), Compiles(m), NEW k \in DOMAIN m,
           k + 1 \in DOMAIN m
    PROVE  m[k].end <= m[k + 1].start
  <1> DEFINE tail == SubSeq(m, k, Len(m))
  <1>1. k \in Nat /\ Len(m) \in Nat /\ 1 <= k /\ k + 1 <= Len(m)
    OBVIOUS
  <1>2. Len(tail) = Len(m) - k + 1 /\ tail[1] = m[k] /\ tail[2] = m[k + 1]
    BY <1>1
  <1>3. RegionInOrder(tail)
    BY DEF Compiles
  <1>4. 1 \in 1 .. Len(tail) \div 2
    <2> HIDE DEF tail
    <2> QED
      BY <1>1, <1>2
  <1>5. tail[2 * 1 - 1].end <= tail[2 * 1].start
    <2> HIDE DEF tail
    <2> QED
      BY <1>3, <1>4 DEF RegionInOrder
  <1>6. 2 * 1 - 1 = 1 /\ 2 * 1 = 2
    OBVIOUS
  <1> QED
    BY <1>2, <1>5, <1>6

(* So a map that a lookup compiles for is in order from end to end: a      *)
(* first region out of order would follow one that is in order.            *)
LEMMA CompiledOrdered ==
    ASSUME NEW m \in Seq(Region), Compiles(m),
           \A k \in DOMAIN m : m[k].start <= m[k].end
    PROVE  Ordered(m)
  <1> SUFFICES ASSUME NEW i \in DOMAIN m, NEW j \in DOMAIN m, i < j,
                      ~ (m[i].end <= m[j].start)
               PROVE  FALSE
    BY DEF Ordered
  <1> DEFINE T == {x \in DOMAIN m : i < x /\ ~ (m[i].end <= m[x].start)}
  <1>1. \A x \in DOMAIN m : /\ x \in Nat /\ 1 <= x /\ x <= Len(m)
                            /\ m[x].start \in Nat /\ m[x].end \in Nat
    <2> TAKE x \in DOMAIN m
    <2>1. m[x] \in Region /\ x \in Nat /\ 1 <= x /\ x <= Len(m)
      OBVIOUS
    <2>2. m[x].start \in Nat /\ m[x].end \in Nat
      BY <2>1 DEF Region
    <2> QED
      BY <2>1, <2>2
  <1>2. PICK x \in T : \A y \in T : x <= y
    <2>1. T \subseteq Nat /\ j \in T
      BY <1>1
    <2> QED
      BY <2>1, LeastNat
  <1>3. CASE x = i + 1
    BY <1>2, <1>3, AdjacentInOrder
  <1>4. CASE x # i + 1
    <2>1. x - 1 \in DOMAIN m /\ i < x - 1 /\ (x - 1) + 1 = x
      BY <1>1, <1>2, <1>4
    <2>2. x - 1 \notin T
      BY <1>1, <1>2
    <2>3. m[i].end <= m[x - 1].start
      BY <2>1, <2>2
    <2>4. m[x - 1].end <= m[x].start
      BY <1>2, <2>1, AdjacentInOrder
    <2>5. m[x - 1].start <= m[x - 1].end
      BY <2>1
    <2>6. m[i].end <= m[x].start
      BY <1>1, <1>2, <2>1, <2>3, <2>4, <2>5
    <2> QED
      BY <1>2, <2>6
  <1> QED
    BY <1>3, <1>4

(* The map stays one the lookup compiles for. *)
MapCompiles == map \in Maps /\ Compiles(map)

LEMMA MapCompilesAlways == Spec => []MapCompiles
  <1>1. Init => MapCompiles
    BY DEF Init, MapCompiles
  <1>2. MapCompiles /\ [Next]_vars => MapCompiles'
    BY DEF MapCompiles, Next, Match, Descend, OutOfBounds, vars
  <1> QED
    BY <1>1, <1>2, PTL DEF Spec

(* The regions walked past do not hold the key. *)
NoneBefore == \A j \in 1 .. idx - 1 : ~ InRegion(key, map[j])

LookupInv == TypeOK /\ NoneBefore /\ LookupIsFirstMatch

LEMMA LookupInvInit == Init => LookupInv
  <1> USE LookupAssumption
  <1> SUFFICES ASSUME Init PROVE LookupInv
    OBVIOUS
  <1>1. map \in Seq(Region) /\ map # <<>>
    BY DEF Init
  <1>2. Len(map) \in Nat /\ Len(map) >= 1
    BY <1>1
  <1> QED
    BY <1>2 DEF Init, LookupInv, TypeOK, NoneBefore, LookupIsFirstMatch

LEMMA LookupInvStep == LookupInv /\ [Next]_vars => LookupInv'
  <1> USE LookupAssumption
  <1> SUFFICES ASSUME LookupInv, [Next]_vars PROVE LookupInv'
    OBVIOUS
  <1>1. /\ map \in Seq(Region) /\ Len(map) \in Nat /\ DOMAIN map = 1 .. Len(map)
        /\ key \in Nat /\ idx \in 1 .. Len(map)
    BY DEF LookupInv, TypeOK
  <1>2. CASE Match
    <2>1. FirstMatch(map, key, idx)
      BY <1>2 DEF Match, FirstMatch, LookupInv, NoneBefore
    <2>2. map[idx] = WithRegion(map, key)
      BY <1>1, <2>1, WithRegionAtFirstMatch
    <2> QED
      BY <1>2, <2>2 DEF Match, LookupInv, TypeOK, NoneBefore,
                        LookupIsFirstMatch
  <1>3. CASE Descend
    <2>1. idx' \in 1 .. Len(map)
      BY <1>1, <1>3 DEF Descend
    <2>2. NoneBefore'
      BY <1>1, <1>3 DEF Descend, LookupInv, NoneBefore
    <2> QED
      BY <1>3, <2>1, <2>2 DEF Descend, LookupInv, TypeOK, LookupIsFirstMatch
  <1>4. CASE OutOfBounds
    <2>1. \A i \in DOMAIN map : ~ InRegion(key, map[i])
      BY <1>1, <1>4 DEF OutOfBounds, LookupInv, NoneBefore
    <2> QED
      BY <1>4, <2>1 DEF OutOfBounds, LookupInv, TypeOK, NoneBefore,
                        LookupIsFirstMatch, Mapped
  <1>5. CASE UNCHANGED vars
    BY <1>5 DEF vars, LookupInv, TypeOK, NoneBefore, LookupIsFirstMatch,
                Mapped
  <1> QED
    BY <1>2, <1>3, <1>4, <1>5 DEF Next

LEMMA LookupInvAlways == Spec => []LookupInv
  BY LookupInvInit, LookupInvStep, PTL DEF Spec

(* The walk never leaves the map: idx stays an index of it. *)
THEOREM LookupTyped == Spec => []TypeOK
  <1>1. LookupInv => TypeOK
    BY DEF LookupInv
  <1> QED
    BY <1>1, LookupInvAlways, PTL

(* The recursion of with_region finds the first region that holds the      *)
(* address and throws only when there is none, in every map it compiles    *)
(* for and for every address.                                              *)
THEOREM LookupCorrect == Spec => []LookupIsFirstMatch
  <1>1. LookupInv => LookupIsFirstMatch
    BY DEF LookupInv
  <1> QED
    BY <1>1, LookupInvAlways, PTL

(* The region a lookup ends with holds the address. *)
FoundHolds == found = "yes" => InRegion(key, map[idx])

LEMMA FoundHoldsStep == LookupInv /\ FoundHolds /\ [Next]_vars => FoundHolds'
  BY DEF FoundHolds, Next, Match, Descend, OutOfBounds, vars

(* In every map it compiles for, touching and empty regions included, a    *)
(* lookup is unambiguous: the region found is the only one with the        *)
(* address.                                                                *)
THEOREM UnambiguousHolds == Spec => []LookupIsUnambiguous
  <1>1. Init => FoundHolds
    BY DEF Init, FoundHolds
  <1>2. LookupInv /\ FoundHolds /\ MapCompiles => LookupIsUnambiguous
    <2> SUFFICES ASSUME LookupInv, MapCompiles, InRegion(key, map[idx]),
                        NEW i \in DOMAIN map, key \in Addrs(map[i])
                 PROVE  i = idx
      BY DEF LookupIsUnambiguous, FoundHolds
    <2>0. Ordered(map)
      <3>1. map \in Seq(Region) /\ \A k \in DOMAIN map : map[k].start <= map[k].end
        BY LookupAssumption DEF MapCompiles
      <3> QED
        BY <3>1, CompiledOrdered DEF MapCompiles
    <2>1. /\ map \in Seq(Region) /\ key \in Nat
          /\ idx \in DOMAIN map /\ idx \in Nat /\ i \in Nat
      BY LookupAssumption DEF LookupInv, TypeOK
    <2>2. /\ map[i].start \in Nat /\ map[i].end \in Nat
          /\ map[idx].start \in Nat /\ map[idx].end \in Nat
      <3>1. map[i] \in Region /\ map[idx] \in Region
        BY <2>1
      <3> QED
        BY <3>1 DEF Region
    <2>3. map[i].start <= key /\ key < map[i].end
      BY <2>1, <2>2 DEF Addrs
    <2>4. map[idx].start <= key /\ key < map[idx].end
      BY DEF InRegion
    <2>5. ~ (i < idx)
      <3> SUFFICES ASSUME i < idx PROVE FALSE
        OBVIOUS
      <3>1. map[i].end <= map[idx].start
        BY <2>0, <2>1 DEF Ordered
      <3> QED
        BY <2>1, <2>2, <2>3, <2>4, <3>1
    <2>6. ~ (idx < i)
      <3> SUFFICES ASSUME idx < i PROVE FALSE
        OBVIOUS
      <3>1. map[idx].end <= map[i].start
        BY <2>0, <2>1 DEF Ordered
      <3> QED
        BY <2>1, <2>2, <2>3, <2>4, <3>1
    <2> QED
      BY <2>1, <2>5, <2>6
  <1> QED
    BY <1>1, <1>2, FoundHoldsStep, LookupInvAlways, MapCompilesAlways, PTL
       DEF Spec
=============================================================================
