---------------------------- MODULE RegionFacts ----------------------------
(***************************************************************************)
(* Facts about region maps and their lookup that the proofs of the other   *)
(* modules cite.                                                           *)
(***************************************************************************)
EXTENDS Regions, WellFoundedInduction, TLAPS

(* The records of a well-formed map are regions. *)
LEMMA RegionTyped ==
    ASSUME NEW m, WellFormedMap(m), NEW i \in DOMAIN m
    PROVE  /\ m[i] \in Region
           /\ m[i].start \in Nat /\ m[i].end \in Nat
           /\ m[i].word_size \in {1, 2}
           /\ i \in Nat
  <1>1. m \in Seq(Region)
    BY DEF WellFormedMap
  <1>2. m[i] \in Region /\ i \in Nat
    BY <1>1
  <1> QED
    BY <1>2 DEF Region

(* No two regions of a map are both the first that holds an address. *)
LEMMA FirstMatchUnique ==
    ASSUME NEW m \in Seq(Region), NEW a \in Nat,
           NEW i \in DOMAIN m, NEW j \in DOMAIN m,
           FirstMatch(m, a, i), FirstMatch(m, a, j)
    PROVE  i = j
  <1>1. i \in Nat /\ j \in Nat /\ i >= 1 /\ j >= 1
    OBVIOUS
  <1>2. ~ (i < j)
    <2> SUFFICES ASSUME i < j PROVE FALSE
      OBVIOUS
    <2>1. i \in 1 .. j - 1
      BY <1>1
    <2> QED
      BY <2>1 DEF FirstMatch
  <1>3. ~ (j < i)
    <2> SUFFICES ASSUME j < i PROVE FALSE
      OBVIOUS
    <2>1. j \in 1 .. i - 1
      BY <1>1
    <2> QED
      BY <2>1 DEF FirstMatch
  <1> QED
    BY <1>1, <1>2, <1>3

(* What with_region returns is the region at any index that is a first     *)
(* match.                                                                  *)
LEMMA WithRegionAtFirstMatch ==
    ASSUME NEW m \in Seq(Region), NEW a \in Nat,
           NEW i \in DOMAIN m, FirstMatch(m, a, i)
    PROVE  WithRegion(m, a) = m[i]
  <1> DEFINE k == CHOOSE j \in DOMAIN m : FirstMatch(m, a, j)
  <1>1. k \in DOMAIN m /\ FirstMatch(m, a, k)
    OBVIOUS
  <1>2. k = i
    BY <1>1, FirstMatchUnique
  <1> QED
    BY <1>2 DEF WithRegion

(* In a well-formed map the region that holds an address is the one        *)
(* with_region returns for it.                                             *)
LEMMA WithRegionUnique ==
    ASSUME NEW m, WellFormedMap(m), NEW a \in Nat,
           NEW i \in DOMAIN m, InRegion(a, m[i])
    PROVE  WithRegion(m, a) = m[i]
  <1>1. m \in Seq(Region)
    BY DEF WellFormedMap
  <1>2. ASSUME NEW j \in 1 .. i - 1
        PROVE  ~ InRegion(a, m[j])
    <2>1. j \in DOMAIN m /\ j < i
      BY <1>1
    <2>2. m[j].end < m[i].start
      BY <2>1 DEF WellFormedMap
    <2>3. m[i] \in Region /\ m[j] \in Region
      BY <1>1, <2>1
    <2> QED
      BY <2>2, <2>3 DEF InRegion, Region
  <1>3. FirstMatch(m, a, i)
    BY <1>2 DEF FirstMatch
  <1> QED
    BY <1>1, <1>3, WithRegionAtFirstMatch

(* A mapped address has a region, and that region holds it. *)
LEMMA WithRegionHolds ==
    ASSUME NEW m, WellFormedMap(m), NEW a \in Nat, Mapped(m, a)
    PROVE  /\ WithRegion(m, a) \in Region
           /\ InRegion(a, WithRegion(m, a))
           /\ \E i \in DOMAIN m : WithRegion(m, a) = m[i]
  <1>1. PICK i \in DOMAIN m : InRegion(a, m[i])
    BY DEF Mapped
  <1>2. WithRegion(m, a) = m[i]
    BY <1>1, WithRegionUnique
  <1>3. m[i] \in Region
    BY DEF WellFormedMap
  <1> QED
    BY <1>1, <1>2, <1>3

(* Two regions of a well-formed map that share an address are one.         *)
LEMMA RegionsDisjoint ==
    ASSUME NEW m, WellFormedMap(m), NEW a \in Nat,
           NEW i \in DOMAIN m, NEW j \in DOMAIN m,
           InRegion(a, m[i]), InRegion(a, m[j])
    PROVE  i = j
  <1>1. /\ m[i].start \in Nat /\ m[i].end \in Nat
        /\ m[j].start \in Nat /\ m[j].end \in Nat
        /\ i \in Nat /\ j \in Nat
    BY RegionTyped
  <1>2. ~ (i < j)
    <2> SUFFICES ASSUME i < j PROVE FALSE
      OBVIOUS
    <2>1. m[i].end < m[j].start
      BY DEF WellFormedMap
    <2> QED
      BY <1>1, <2>1 DEF InRegion
  <1>3. ~ (j < i)
    <2> SUFFICES ASSUME j < i PROVE FALSE
      OBVIOUS
    <2>1. m[j].end < m[i].start
      BY DEF WellFormedMap
    <2> QED
      BY <1>1, <2>1 DEF InRegion
  <1> QED
    BY <1>1, <1>2, <1>3

(* The address just after a region is in no region. *)
LEMMA GapAfterRegion ==
    ASSUME NEW m, WellFormedMap(m), NEW i \in DOMAIN m
    PROVE  ~ Mapped(m, m[i].end)
  <1> SUFFICES ASSUME NEW j \in DOMAIN m, InRegion(m[i].end, m[j])
               PROVE  FALSE
    BY DEF Mapped
  <1>1. /\ i \in Nat /\ j \in Nat
        /\ m[i].start \in Nat /\ m[i].end \in Nat
        /\ m[j].start \in Nat /\ m[j].end \in Nat
    BY RegionTyped
  <1>2. m[i].start < m[i].end /\ m[j].start < m[j].end
    BY DEF WellFormedMap
  <1>3. CASE i < j
    <2>1. m[i].end < m[j].start
      BY <1>3 DEF WellFormedMap
    <2> QED
      BY <2>1, <1>1 DEF InRegion
  <1>4. CASE j < i
    <2>1. m[j].end < m[i].start
      BY <1>4 DEF WellFormedMap
    <2> QED
      BY <2>1, <1>1, <1>2 DEF InRegion
  <1>5. CASE i = j
    BY <1>5, <1>1 DEF InRegion
  <1> QED
    BY <1>1, <1>3, <1>4, <1>5

-----------------------------------------------------------------------------
(* A set of naturals has a least element: what stands in for induction     *)
(* here, as a least counterexample.                                        *)
LEMMA LeastNat ==
    ASSUME NEW T, T \subseteq Nat, T # {}
    PROVE  \E x \in T : \A y \in T : x <= y
  <1> DEFINE R == OpToRel(<, Nat)
  <1>1. IsWellFoundedOn(R, Nat)
    BY NatLessThanWellFounded
  <1>2. \E x \in T : \A y \in T : ~ (<<y, x>> \in R)
    <2> HIDE DEF R
    <2> QED
      BY <1>1, WFMin
  <1>3. ASSUME NEW x \in T, NEW y \in T, ~ (<<y, x>> \in R)
        PROVE  x <= y
    <2>1. x \in Nat /\ y \in Nat
      OBVIOUS
    <2>2. ~ (y < x)
      BY <1>3, <2>1 DEF OpToRel
    <2> QED
      BY <2>1, <2>2
  <1> QED
    BY <1>2, <1>3

(* In any map, in order or not, with_region returns for a mapped address a *)
(* region of the map that holds it.                                        *)
LEMMA FirstMatchExists ==
    ASSUME NEW m \in Seq(Region), NEW a \in Nat, Mapped(m, a)
    PROVE  \E i \in DOMAIN m : /\ WithRegion(m, a) = m[i]
                              /\ m[i] \in Region
                              /\ InRegion(a, m[i])
  <1> DEFINE T == {i \in DOMAIN m : InRegion(a, m[i])}
  <1>1. T \subseteq Nat /\ T # {}
    BY DEF Mapped
  <1>2. PICK i \in T : \A j \in T : i <= j
    BY <1>1, LeastNat
  <1>3. FirstMatch(m, a, i)
    <2>1. ASSUME NEW j \in 1 .. i - 1
          PROVE  ~ InRegion(a, m[j])
      <3>1. j \in DOMAIN m /\ j < i /\ i \in Nat /\ j \in Nat
        BY <1>1
      <3> QED
        BY <1>2, <3>1
    <2> QED
      BY <1>2, <2>1 DEF FirstMatch
  <1>4. m[i] \in Region
    BY <1>2
  <1> QED
    BY <1>2, <1>3, <1>4, WithRegionAtFirstMatch
=============================================================================
