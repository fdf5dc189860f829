-------------------------- MODULE ExposureMapProofs --------------------------
(***************************************************************************)
(* Proofs about ExposureMap, for sequences of any exposures and any length *)
(* up to MaxSteps. What BuildExposureMap returns is the value of its loop  *)
(* over the duplicates (BuildIsALoop), so a fact about the map is one that *)
(* every pass of the loop keeps (BuildInduction). Exact is what the map is *)
(* for two sequences that share no exposure; for others BuildKeeps0 and    *)
(* BuildKeeps1 say what becomes of each sequence on its own.               *)
(***************************************************************************)
EXTENDS ExposureMap, FiniteSetTheorems, TLAPS

(* A set of numbers has a smallest one. *)
LEMMA Smallest ==
  ASSUME NEW S, S \subseteq Nat, S # {}
  PROVE  \E x \in S : \A y \in S : x <= y
<1> DEFINE Less == {ss \in Nat \X Nat : ss[1] < ss[2]}
<1>1. IsWellFoundedOn(Less, Nat)
  BY NatLessThanWellFounded DEF OpToRel
<1>2. \A x, y \in S : <<y, x>> \notin Less => x <= y
  OBVIOUS
<1> HIDE DEF Less
<1>3. \E x \in S : \A y \in S : <<y, x>> \notin Less
  BY <1>1, WFMin
<1>4. QED
  BY <1>2, <1>3

(* Induction over the numbers, for the members of a set. *)
LEMMA Induction ==
  ASSUME NEW S, 0 \in S, \A n \in Nat : n \in S => n + 1 \in S
  PROVE  Nat \subseteq S
<1> DEFINE Outside == {m \in Nat : m \notin S}
<1> SUFFICES ASSUME Outside # {} PROVE FALSE
  OBVIOUS
<1>1. PICK x \in Outside : \A y \in Outside : x <= y
  <2>1. Outside \subseteq Nat
    OBVIOUS
  <2> HIDE DEF Outside
  <2>2. QED
    BY <2>1, Smallest
<1>2. x # 0 /\ x - 1 \in Nat /\ x - 1 \notin Outside
  BY <1>1
<1>3. (x - 1) + 1 \in S
  BY <1>2
<1>4. QED
  BY <1>2, <1>3

(* A set of numbers with a bound has a largest one. *)
LEMMA Largest ==
  ASSUME NEW n \in Nat, NEW S, S \subseteq 1 .. n, S # {}
  PROVE  \E x \in S : \A y \in S : x >= y
<1> DEFINE Below == {n - i : i \in S}
<1>1. PICK x \in Below : \A y \in Below : x <= y
  <2>1. Below \subseteq Nat /\ Below # {}
    <3>1. \A i \in S : i \in 1 .. n /\ n - i \in Nat
      OBVIOUS
    <3>2. Below \subseteq Nat
      BY <3>1
    <3>3. Below # {}
      <4>1. PICK i \in S : TRUE
        OBVIOUS
      <4>2. n - i \in Below
        OBVIOUS
      <4>3. QED
        BY <4>2
    <3>4. QED
      BY <3>2, <3>3
  <2> HIDE DEF Below
  <2>2. QED
    BY <2>1, Smallest
<1>2. PICK i \in S : x = n - i
  OBVIOUS
<1>3. \A j \in S : n - i <= n - j
  BY <1>1, <1>2
<1>4. QED
  BY <1>3

-----------------------------------------------------------------------------
(* The loop over the duplicates. *)

AfterPlace(p0, p1, map, k) ==
  IF k \in Duplicates(p0 \o p1)
  THEN AdjustDuplicate(p0, p1, map, (p0 \o p1)[k])
  ELSE map

LEMMA BuildIsALoop ==
  ASSUME NEW p0, NEW p1, Len(p0 \o p1) \in Nat
  PROVE  LET n == Len(p0 \o p1)
         IN \E map :
              /\ map = [k \in 0 .. n |->
                          IF k = 0 THEN BothProfiles(p0, p1)
                          ELSE AfterPlace(p0, p1, map[k - 1], k)]
              /\ BuildExposureMap(p0, p1) = map[n]
<1> DEFINE n == Len(p0 \o p1)
           Base == BothProfiles(p0, p1)
           Body(map, m) == [k \in 0 .. m |->
                          IF k = 0 THEN Base ELSE AfterPlace(p0, p1, map[k - 1], k)]
           Good == {m \in Nat : \E map : map = Body(map, m)}
<1>1. 0 \in Good
  <2>1. [k \in 0 .. 0 |-> Base] = Body([k \in 0 .. 0 |-> Base], 0)
    OBVIOUS
  <2>2. QED
    BY <2>1
<1>2. ASSUME NEW m \in Nat, m \in Good PROVE m + 1 \in Good
  <2>1. PICK map : map = Body(map, m)
    BY <1>2
  <2> DEFINE more == [k \in 0 .. m + 1 |->
                        IF k = m + 1 THEN AfterPlace(p0, p1, map[m], m + 1) ELSE map[k]]
  <2>2. more = Body(more, m + 1)
    <3>1. \A k \in 0 .. m + 1 : more[k] = IF k = 0 THEN Base ELSE AfterPlace(p0, p1, more[k - 1], k)
      BY <2>1
    <3> HIDE DEF more
    <3>2. QED
      BY <3>1 DEF more
  <2>3. m + 1 \in Nat
    OBVIOUS
  <2> HIDE DEF more, Body
  <2>4. QED
    BY <2>2, <2>3
<1>3. \E map : map = Body(map, n)
  <2> HIDE DEF Good
  <2>1. n \in Good
    BY <1>1, <1>2, Induction
  <2>2. QED
    BY <2>1 DEF Good
<1>4. BuildExposureMap(p0, p1) = (CHOOSE map : map = Body(map, n))[n]
  BY DEF BuildExposureMap, AfterPlace
<1> DEFINE chosen == CHOOSE map : map = Body(map, n)
<1>5. chosen = Body(chosen, n)
  BY <1>3
<1>6. QED
  BY <1>4, <1>5

-----------------------------------------------------------------------------
(* Places of an exposure in a sequence. *)

LEMMA FirstIndexIsAPlace ==
  ASSUME NEW s \in Seq(Exposures), NEW e \in Range(s)
  PROVE  FirstIndex(s, e) \in DOMAIN s /\ s[FirstIndex(s, e)] = e
<1>1. Places(s, e) \subseteq Nat /\ Places(s, e) # {}
  BY DEF Places, Range
<1>2. \E i \in Places(s, e) : \A j \in Places(s, e) : i <= j
  BY <1>1, Smallest
<1>3. FirstIndex(s, e) \in Places(s, e)
  BY <1>2 DEF FirstIndex
<1>4. QED
  BY <1>3 DEF Places

LEMMA LastIndexIsAPlace ==
  ASSUME NEW s \in Seq(Exposures), NEW e \in Range(s)
  PROVE  LastIndex(s, e) \in DOMAIN s /\ s[LastIndex(s, e)] = e
<1>1. Places(s, e) \subseteq 1 .. Len(s) /\ Places(s, e) # {} /\ Len(s) \in Nat
  BY DEF Places, Range
<1>2. \E i \in Places(s, e) : \A j \in Places(s, e) : i >= j
  BY <1>1, Largest
<1>3. LastIndex(s, e) \in Places(s, e)
  BY <1>2 DEF LastIndex
<1>4. QED
  BY <1>3 DEF Places

LEMMA RangeOfBoth ==
  ASSUME NEW p0 \in Seq(Exposures), NEW p1 \in Seq(Exposures)
  PROVE  /\ Range(p0) \subseteq Exposures /\ Range(p1) \subseteq Exposures
         /\ p0 \o p1 \in Seq(Exposures)
         /\ Len(p0 \o p1) = Len(p0) + Len(p1) /\ Len(p0 \o p1) \in Nat
         /\ Range(p0 \o p1) = Range(p0) \cup Range(p1)
<1>1. /\ Range(p0) \subseteq Exposures /\ Range(p1) \subseteq Exposures
      /\ p0 \o p1 \in Seq(Exposures)
      /\ Len(p0 \o p1) = Len(p0) + Len(p1) /\ Len(p0 \o p1) \in Nat
  BY DEF Range
<1>2. Range(p0 \o p1) \subseteq Range(p0) \cup Range(p1)
  BY DEF Range
<1>3. \A i \in DOMAIN p0 : i \in DOMAIN (p0 \o p1) /\ (p0 \o p1)[i] = p0[i]
  OBVIOUS
<1>4. \A i \in DOMAIN p1 :
        Len(p0) + i \in DOMAIN (p0 \o p1) /\ (p0 \o p1)[Len(p0) + i] = p1[i]
  OBVIOUS
<1>5. Range(p0) \subseteq Range(p0 \o p1)
  BY <1>3 DEF Range
<1>6. Range(p1) \subseteq Range(p0 \o p1)
  BY <1>4 DEF Range
<1>7. QED
  BY <1>1, <1>2, <1>5, <1>6

-----------------------------------------------------------------------------
(* The map keeps its type, and its size is bounded. *)

IsMap(map) ==
  /\ map = [e \in DOMAIN map |-> map[e]]
  /\ DOMAIN map \subseteq Exposures
  /\ \A e \in DOMAIN map : map[e] \in Profiles \X Nat

LEMMA DomainIsFinite ==
  ASSUME NEW map, IsMap(map)
  PROVE  IsFiniteSet(DOMAIN map) /\ Cardinality(DOMAIN map) \in Nat
<1>1. IsFiniteSet(Exposures)
  BY MaxExposureAssumption, FS_Interval DEF Exposures
<1>2. IsFiniteSet(DOMAIN map)
  BY <1>1, FS_Subset DEF IsMap
<1>3. QED
  BY <1>2, FS_CardinalityType

(* The search for a free exposure wraps around once. *)
LEMMA Wraps ==
  ASSUME NEW e \in Exposures
  PROVE  \A k \in Exposures :
           (e + k) % (MaxExposure + 1) =
             IF e + k <= MaxExposure THEN e + k ELSE e + k - (MaxExposure + 1)
<1>1. \A a \in Exposures : a % (MaxExposure + 1) = a
  BY MaxExposureAssumption DEF Exposures
<1>2. \A a \in MaxExposure + 1 .. 2 * MaxExposure + 1 :
        a % (MaxExposure + 1) = a - (MaxExposure + 1)
  BY MaxExposureAssumption DEF Exposures
<1>3. QED
  BY <1>1, <1>2, MaxExposureAssumption DEF Exposures

(* While the map has room, the exposure found is a free one. *)
LEMMA FreeExposureIsFree ==
  ASSUME NEW map, IsMap(map), Cardinality(DOMAIN map) <= MaxExposure,
         NEW e \in Exposures
  PROVE  FreeExposure(map, e) \in Exposures \ DOMAIN map
<1> DEFINE Up(k) == (e + k) % (MaxExposure + 1)
           Free == {k \in Exposures : Up(k) \notin DOMAIN map}
<1>1. PICK x \in Exposures : x \notin DOMAIN map
  <2>1. Cardinality(Exposures) = MaxExposure + 1
    BY MaxExposureAssumption, FS_Interval DEF Exposures
  <2>2. DOMAIN map # Exposures
    BY <2>1, MaxExposureAssumption, DomainIsFinite
  <2>3. QED
    BY <2>2 DEF IsMap
<1>2. Free # {}
  <2> DEFINE k == IF x >= e THEN x - e ELSE x - e + MaxExposure + 1
  <2>1. k \in Exposures /\ (IF e + k <= MaxExposure THEN e + k ELSE e + k - (MaxExposure + 1)) = x
    BY MaxExposureAssumption DEF Exposures
  <2>2. Up(k) = x
    <3> HIDE DEF k
    <3>1. QED
      BY <2>1, Wraps
  <2> HIDE DEF k, Up
  <2>3. QED
    BY <1>1, <2>1, <2>2
<1>3. PICK k \in Free : \A j \in Free : k <= j
  <2>1. Free \subseteq Nat
    BY DEF Exposures
  <2> HIDE DEF Free
  <2>2. QED
    BY <1>2, <2>1, Smallest
<1>4. \A j \in 0 .. k - 1 : j \in Exposures /\ j \notin Free
  BY <1>3, MaxExposureAssumption DEF Exposures
<1> DEFINE IsIt(i) == Up(i) \notin DOMAIN map /\ \A j \in 0 .. i - 1 : Up(j) \in DOMAIN map
           found == CHOOSE i \in Exposures : IsIt(i)
<1>5. \E i \in Exposures : IsIt(i)
  <2>1. k \in Exposures /\ Up(k) \notin DOMAIN map
    OBVIOUS
  <2>2. \A j \in 0 .. k - 1 : Up(j) \in DOMAIN map
    BY <1>4
  <2>3. QED
    BY <2>1, <2>2
<1>6. found \in Exposures /\ IsIt(found)
  <2> HIDE DEF IsIt
  <2>1. QED
    BY <1>5
<1>7. Up(found) \in Exposures \ DOMAIN map
  <2>1. Up(found) \in Exposures
    <3> HIDE DEF found
    <3>1. QED
      BY <1>6, Wraps, MaxExposureAssumption DEF Exposures
  <2>2. QED
    BY <1>6, <2>1
<1>8. FreeExposure(map, e) = Up(found)
  BY DEF FreeExposure
<1>9. QED
  BY <1>7, <1>8

LEMMA RangeIsBounded ==
  ASSUME NEW s \in Seq(Exposures)
  PROVE  Cardinality(Range(s)) <= Len(s)
<1>1. Len(s) \in Nat /\ DOMAIN s = 1 .. Len(s)
  OBVIOUS
<1>2. s \in [1 .. Len(s) -> Range(s)]
  BY <1>1 DEF Range
<1>3. \A e \in Range(s) : \E i \in 1 .. Len(s) : s[i] = e
  BY <1>1 DEF Range
<1>4. ExistsSurjection(1 .. Len(s), Range(s))
  BY <1>2, <1>3 DEF ExistsSurjection, Surjection
<1>5. QED
  BY <1>1, <1>4, FS_SurjCardinalityBound

(* At first the map has at most one entry for each step. *)
LEMMA BothProfilesIsMap ==
  ASSUME NEW p0 \in Seq(Exposures), NEW p1 \in Seq(Exposures)
  PROVE  LET map == BothProfiles(p0, p1)
         IN  IsMap(map) /\ Cardinality(DOMAIN map) <= Len(p0) + Len(p1)
<1> DEFINE map == BothProfiles(p0, p1)
           all == p0 \o p1
<1>1. DOMAIN map = Range(all) /\ DOMAIN map \subseteq Exposures
  BY RangeOfBoth DEF BothProfiles
<1>2. map = [e \in DOMAIN map |-> map[e]]
  BY DEF BothProfiles
<1>3. ASSUME NEW e \in DOMAIN map PROVE map[e] \in Profiles \X Nat
  <2>1. e \in Range(p0) \cup Range(p1)
    BY DEF BothProfiles
  <2>2. CASE e \in Range(p1)
    <3>1. LastIndex(p1, e) \in 1 .. Len(p1) /\ Len(p1) \in Nat
      BY <2>2, LastIndexIsAPlace
    <3>2. map[e] = <<1, LastIndex(p1, e) - 1>>
      BY <2>1, <2>2 DEF BothProfiles
    <3>3. QED
      BY <3>1, <3>2 DEF Profiles
  <2>3. CASE e \notin Range(p1)
    <3>1. LastIndex(p0, e) \in 1 .. Len(p0) /\ Len(p0) \in Nat
      BY <2>1, <2>3, LastIndexIsAPlace
    <3>2. map[e] = <<0, LastIndex(p0, e) - 1>>
      BY <2>1, <2>3 DEF BothProfiles
    <3>3. QED
      BY <3>1, <3>2 DEF Profiles
  <2>4. QED
    BY <2>2, <2>3
<1>4. Cardinality(Range(all)) <= Len(all)
  BY RangeOfBoth, RangeIsBounded
<1>5. QED
  BY <1>1, <1>2, <1>3, <1>4, RangeOfBoth DEF IsMap

(* A duplicate adds at most one. *)
LEMMA AdjustDuplicateIsMap ==
  ASSUME NEW p0 \in Seq(Exposures), NEW p1 \in Seq(Exposures), NEW e \in Exposures,
         NEW map, IsMap(map), Cardinality(DOMAIN map) <= MaxExposure
  PROVE  LET next == AdjustDuplicate(p0, p1, map, e)
         IN  IsMap(next) /\ Cardinality(DOMAIN next) <= Cardinality(DOMAIN map) + 1
<1> DEFINE next == AdjustDuplicate(p0, p1, map, e)
           adjusted == FreeExposure(map, e)
<1>1. CASE ~(e \in Range(p0) /\ e \in Range(p1))
  <2>1. next = map
    BY <1>1 DEF AdjustDuplicate
  <2>2. QED
    BY <2>1, DomainIsFinite
<1>2. CASE e \in Range(p0) /\ e \in Range(p1)
  <2>1. adjusted \in Exposures
    BY FreeExposureIsFree
  <2>2. next = [x \in DOMAIN map \cup {adjusted} |->
                  CASE x = e        -> <<0, FirstIndex(p0, e) - 1>>
                    [] x = adjusted -> <<1, FirstIndex(p1, e) - 1>>
                    [] OTHER        -> map[x]]
    BY <1>2 DEF AdjustDuplicate
  <2>3. /\ <<0, FirstIndex(p0, e) - 1>> \in Profiles \X Nat
        /\ <<1, FirstIndex(p1, e) - 1>> \in Profiles \X Nat
    <3>1. /\ FirstIndex(p0, e) \in 1 .. Len(p0) /\ Len(p0) \in Nat
          /\ FirstIndex(p1, e) \in 1 .. Len(p1) /\ Len(p1) \in Nat
      BY <1>2, FirstIndexIsAPlace
    <3>2. QED
      BY <3>1 DEF Profiles
  <2> HIDE DEF next, adjusted
  <2>4. DOMAIN next = DOMAIN map \cup {adjusted}
    BY <2>2
  <2>5. IsMap(next)
    <3>1. \A x \in DOMAIN next : next[x] \in Profiles \X Nat
      BY <2>2, <2>3 DEF IsMap
    <3>2. QED
      BY <2>1, <2>2, <2>4, <3>1 DEF IsMap
  <2>6. Cardinality(DOMAIN next) <= Cardinality(DOMAIN map) + 1
    <3>1. IsFiniteSet(DOMAIN map) /\ Cardinality(DOMAIN map) \in Nat
      BY DomainIsFinite
    <3>2. Cardinality(DOMAIN map \cup {adjusted}) =
            IF adjusted \in DOMAIN map THEN Cardinality(DOMAIN map)
            ELSE Cardinality(DOMAIN map) + 1
      BY <3>1, FS_AddElement
    <3>3. QED
      BY <2>4, <3>1, <3>2
  <2>7. QED
    BY <2>5, <2>6 DEF next
<1>3. QED
  BY <1>1, <1>2

(* The map after the duplicates up to the k-th place of both sequences.    *)
(* Every fact about the map is one about each of its places.               *)
LEMMA BuildInduction ==
  ASSUME NEW p0 \in Seq(Exposures), NEW p1 \in Seq(Exposures),
         NEW S,
         <<0, BothProfiles(p0, p1)>> \in S,
         \A k \in 1 .. Len(p0 \o p1) : \A map :
           <<k - 1, map>> \in S => <<k, AfterPlace(p0, p1, map, k)>> \in S
  PROVE  <<Len(p0 \o p1), BuildExposureMap(p0, p1)>> \in S
<1> DEFINE n == Len(p0 \o p1)
<1>1. n \in Nat
  BY RangeOfBoth
<1>2. PICK map :
        /\ map = [k \in 0 .. n |->
                    IF k = 0 THEN BothProfiles(p0, p1)
                    ELSE AfterPlace(p0, p1, map[k - 1], k)]
        /\ BuildExposureMap(p0, p1) = map[n]
  BY <1>1, BuildIsALoop
<1> HIDE DEF n
<1>3. map[0] = BothProfiles(p0, p1)
  BY <1>1, <1>2
<1>4. \A k \in 1 .. n : map[k] = AfterPlace(p0, p1, map[k - 1], k)
  BY <1>1, <1>2
<1> DEFINE Good == {k \in Nat : k <= n => <<k, map[k]>> \in S}
<1>5. 0 \in Good
  BY <1>3
<1>6. ASSUME NEW k \in Nat, k \in Good PROVE k + 1 \in Good
  <2>1. SUFFICES ASSUME k + 1 <= n PROVE <<k + 1, map[k + 1]>> \in S
    OBVIOUS
  <2>2. k + 1 \in 1 .. n /\ (k + 1) - 1 = k /\ <<k, map[k]>> \in S
    BY <1>1, <1>6, <2>1
  <2>3. <<k + 1, AfterPlace(p0, p1, map[k], k + 1)>> \in S
    BY <2>2 DEF n
  <2>4. QED
    BY <1>4, <2>2, <2>3
<1>7. n \in Good
  <2> HIDE DEF Good
  <2>1. QED
    BY <1>1, <1>5, <1>6, Induction
<1>8. QED
  BY <1>1, <1>2, <1>7 DEF n

(* What the map is after the duplicates up to the k-th place. *)
Sized(p0, p1, k, map) ==
  IsMap(map) /\ Cardinality(DOMAIN map) <= Len(p0) + Len(p1) + k

LEMMA AfterPlaceIsSized ==
  ASSUME NEW p0 \in Seq(Exposures), NEW p1 \in Seq(Exposures),
         2 * (Len(p0) + Len(p1)) <= MaxExposure,
         NEW k \in 1 .. Len(p0 \o p1), NEW map, Sized(p0, p1, k - 1, map)
  PROVE  /\ Cardinality(DOMAIN map) <= MaxExposure
         /\ Sized(p0, p1, k, AfterPlace(p0, p1, map, k))
<1> DEFINE n == Len(p0) + Len(p1)
           next == AfterPlace(p0, p1, map, k)
           e == (p0 \o p1)[k]
<1>1. n \in Nat /\ k \in 1 .. n /\ 2 * n <= MaxExposure
  BY RangeOfBoth
<1>2. IsMap(map) /\ Cardinality(DOMAIN map) <= n + (k - 1)
  BY DEF Sized
<1>3. Cardinality(DOMAIN map) <= MaxExposure /\ Cardinality(DOMAIN map) \in Nat
  BY <1>1, <1>2, DomainIsFinite, MaxExposureAssumption
<1>4. e \in Exposures
  BY RangeOfBoth
<1>5. IsMap(next) /\ Cardinality(DOMAIN next) <= Cardinality(DOMAIN map) + 1
  <2>1. CASE k \in Duplicates(p0 \o p1)
    <3>1. next = AdjustDuplicate(p0, p1, map, e)
      BY <2>1 DEF AfterPlace
    <3> HIDE DEF next, e
    <3>2. QED
      BY <1>2, <1>3, <1>4, <3>1, AdjustDuplicateIsMap
  <2>2. CASE k \notin Duplicates(p0 \o p1)
    BY <1>2, <1>3, <2>2 DEF AfterPlace
  <2>3. QED
    BY <2>1, <2>2
<1>6. Cardinality(DOMAIN next) <= n + k
  <2>1. Cardinality(DOMAIN next) \in Nat
    BY <1>5, DomainIsFinite
  <2> HIDE DEF next, n
  <2>2. QED
    BY <1>1, <1>2, <1>3, <1>5, <2>1
<1>7. QED
  BY <1>3, <1>5, <1>6 DEF Sized

Maps == UNION {[D -> Profiles \X Nat] : D \in SUBSET Exposures}

LEMMA MapsAreMaps ==
  ASSUME NEW map, IsMap(map)
  PROVE  map \in Maps
<1>1. map \in [DOMAIN map -> Profiles \X Nat] /\ DOMAIN map \in SUBSET Exposures
  BY DEF IsMap
<1>2. QED
  BY <1>1 DEF Maps

LEMMA BuildIsMap ==
  ASSUME NEW p0 \in Seq(Exposures), NEW p1 \in Seq(Exposures),
         2 * (Len(p0) + Len(p1)) <= MaxExposure
  PROVE  IsMap(BuildExposureMap(p0, p1))
<1> DEFINE n == Len(p0 \o p1)
           S == {s \in (0 .. n) \X Maps : Sized(p0, p1, s[1], s[2])}
<1>1. n \in Nat /\ n = Len(p0) + Len(p1)
  BY RangeOfBoth
<1>2. <<0, BothProfiles(p0, p1)>> \in S
  <2>1. Sized(p0, p1, 0, BothProfiles(p0, p1))
    BY <1>1, BothProfilesIsMap DEF Sized
  <2> HIDE DEF n
  <2>2. QED
    BY <1>1, <2>1, MapsAreMaps DEF Sized
<1>3. ASSUME NEW k \in 1 .. n, NEW map, <<k - 1, map>> \in S
      PROVE  <<k, AfterPlace(p0, p1, map, k)>> \in S
  <2>1. Sized(p0, p1, k, AfterPlace(p0, p1, map, k))
    BY <1>3, AfterPlaceIsSized
  <2> HIDE DEF n
  <2>2. QED
    BY <1>1, <2>1, MapsAreMaps DEF Sized
<1>4. <<n, BuildExposureMap(p0, p1)>> \in S
  <2> HIDE DEF S
  <2>1. QED
    BY <1>2, <1>3, BuildInduction
<1>5. QED
  BY <1>4 DEF Sized

-----------------------------------------------------------------------------
(* The map of two profiles that do not repeat an exposure each.            *)

(* The map leads from the exposures in p0 and q to their places.           *)
Exact(map, p0, q) ==
  /\ IsMap(map)
  /\ DOMAIN map = Range(p0) \cup Range(q)
  /\ \A i \in DOMAIN p0 : map[p0[i]] = <<0, i - 1>>
  /\ \A i \in DOMAIN q : map[q[i]] = <<1, i - 1>>

(* Up to the k-th place, profile 1 has the exposures q instead of p1: each *)
(* that profile 0 has too is moved away from there.                        *)
Moved(p0, p1, k, map, q) ==
  /\ q \in [1 .. Len(p1) -> Exposures]
  /\ DOMAIN map = Range(p0) \cup Range(q)
  /\ \A i \in 1 .. Len(p1) : map[q[i]] = <<1, i - 1>>
  /\ \A i \in 1 .. Len(p0) : p0[i] \notin Range(q) => map[p0[i]] = <<0, i - 1>>
  /\ \A i \in 1 .. Len(p1) :
       /\ Len(p0) + i > k => q[i] = p1[i]
       /\ Len(p0) + i <= k => q[i] \notin Range(p0)
       /\ p1[i] \notin Range(p0) => q[i] = p1[i]

(* Without a repetition in a profile, only profile 1 has duplicates. *)
LEMMA DuplicatesOfUnique ==
  ASSUME NEW p0 \in Seq(Exposures), NEW p1 \in Seq(Exposures),
         IsInjective(p0), IsInjective(p1), NEW k \in 1 .. Len(p0 \o p1)
  PROVE  IF k <= Len(p0) THEN k \notin Duplicates(p0 \o p1)
         ELSE /\ k - Len(p0) \in 1 .. Len(p1)
              /\ (p0 \o p1)[k] = p1[k - Len(p0)]
              /\ k \in Duplicates(p0 \o p1) <=> p1[k - Len(p0)] \in Range(p0)
<1> DEFINE all == p0 \o p1
<1>1. /\ Len(p0) \in Nat /\ Len(p1) \in Nat
      /\ DOMAIN all = 1 .. Len(p0) + Len(p1) /\ DOMAIN p0 = 1 .. Len(p0) /\ DOMAIN p1 = 1 .. Len(p1)
      /\ \A i \in 1 .. Len(p0) : all[i] = p0[i]
      /\ \A i \in Len(p0) + 1 .. Len(p0) + Len(p1) : all[i] = p1[i - Len(p0)]
  BY RangeOfBoth
<1>2. k \in 1 .. Len(p0) + Len(p1)
  BY RangeOfBoth
<1> HIDE DEF all
<1>3. CASE k <= Len(p0)
  <2>1. \A j \in 1 .. k - 1 : all[j] # all[k]
    BY <1>1, <1>2, <1>3 DEF IsInjective
  <2>2. QED
    BY <1>3, <2>1 DEF Duplicates, all
<1>4. CASE k > Len(p0)
  <2>1. k - Len(p0) \in 1 .. Len(p1) /\ all[k] = p1[k - Len(p0)]
    BY <1>1, <1>2, <1>4
  <2>2. \A j \in Len(p0) + 1 .. k - 1 : all[j] # all[k]
    <3>1. TAKE j \in Len(p0) + 1 .. k - 1
    <3>2. j - Len(p0) \in 1 .. Len(p1) /\ all[j] = p1[j - Len(p0)] /\ j - Len(p0) # k - Len(p0)
      BY <1>1, <1>2
    <3>3. QED
      BY <1>1, <2>1, <3>2 DEF IsInjective
  <2>3. \A j \in 1 .. k - 1 : j \in 1 .. Len(p0) \/ j \in Len(p0) + 1 .. k - 1
    BY <1>1, <1>2, <1>4
  <2>4. \A j \in 1 .. Len(p0) : j \in 1 .. k - 1
    BY <1>1, <1>2, <1>4
  <2>5. (\E j \in 1 .. k - 1 : all[j] = all[k]) <=> (\E j \in 1 .. Len(p0) : p0[j] = p1[k - Len(p0)])
    BY <1>1, <2>1, <2>2, <2>3, <2>4
  <2>6. p1[k - Len(p0)] \in Range(p0) <=> \E j \in 1 .. Len(p0) : p0[j] = p1[k - Len(p0)]
    BY <1>1 DEF Range
  <2>7. k \in Duplicates(all) <=> \E j \in 1 .. k - 1 : all[j] = all[k]
    BY <1>1, <1>2 DEF Duplicates
  <2>8. QED
    BY <1>1, <1>2, <1>4, <2>1, <2>5, <2>6, <2>7 DEF all
<1>5. QED
  BY <1>1, <1>2, <1>3, <1>4

LEMMA UniqueIndex ==
  ASSUME NEW s \in Seq(Exposures), IsInjective(s), NEW i \in DOMAIN s
  PROVE  /\ s[i] \in Range(s) /\ s[i] \in Exposures
         /\ FirstIndex(s, s[i]) = i /\ LastIndex(s, s[i]) = i
<1>1. s[i] \in Range(s) /\ s[i] \in Exposures
  BY DEF Range
<1>2. QED
  BY <1>1, FirstIndexIsAPlace, LastIndexIsAPlace DEF IsInjective

LEMMA NothingMoved ==
  ASSUME NEW p0 \in Seq(Exposures), NEW p1 \in Seq(Exposures),
         IsInjective(p0), IsInjective(p1)
  PROVE  Moved(p0, p1, 0, BothProfiles(p0, p1), p1)
<1> DEFINE map == BothProfiles(p0, p1)
<1>1. p1 \in [1 .. Len(p1) -> Exposures] /\ DOMAIN p0 = 1 .. Len(p0) /\ Len(p0) \in Nat
  OBVIOUS
<1>2. DOMAIN map = Range(p0) \cup Range(p1)
  BY DEF BothProfiles
<1>3. ASSUME NEW i \in 1 .. Len(p1) PROVE map[p1[i]] = <<1, i - 1>>
  <2>1. p1[i] \in Range(p1) /\ LastIndex(p1, p1[i]) = i
    BY UniqueIndex
  <2>2. QED
    BY <2>1 DEF BothProfiles
<1>4. ASSUME NEW i \in 1 .. Len(p0), p0[i] \notin Range(p1) PROVE map[p0[i]] = <<0, i - 1>>
  <2>1. p0[i] \in Range(p0) /\ LastIndex(p0, p0[i]) = i
    BY UniqueIndex
  <2>2. QED
    BY <1>4, <2>1 DEF BothProfiles
<1>5. \A i \in 1 .. Len(p1) : ~(Len(p0) + i <= 0)
  BY <1>1
<1>6. QED
  BY <1>1, <1>2, <1>3, <1>4, <1>5 DEF Moved

LEMMA MovesOn ==
  ASSUME NEW p0 \in Seq(Exposures), NEW p1 \in Seq(Exposures),
         IsInjective(p0), IsInjective(p1),
         NEW k \in 1 .. Len(p0 \o p1), NEW map, NEW q,
         IsMap(map), Cardinality(DOMAIN map) <= MaxExposure,
         Moved(p0, p1, k - 1, map, q)
  PROVE  \E r : Moved(p0, p1, k, AfterPlace(p0, p1, map, k), r)
<1> DEFINE i0 == k - Len(p0)
           e == p1[i0]
           x == FreeExposure(map, e)
           next == AfterPlace(p0, p1, map, k)
<1>1. /\ Len(p0) \in Nat /\ Len(p1) \in Nat /\ k \in 1 .. Len(p0) + Len(p1)
      /\ DOMAIN p0 = 1 .. Len(p0) /\ DOMAIN p1 = 1 .. Len(p1)
  BY RangeOfBoth
<1>2. CASE k \notin Duplicates(p0 \o p1)
  <2>1. next = map
    BY <1>2 DEF AfterPlace
  <2>2. ASSUME NEW i \in 1 .. Len(p1)
        PROVE  /\ Len(p0) + i > k => q[i] = p1[i]
               /\ Len(p0) + i <= k => q[i] \notin Range(p0)
               /\ p1[i] \notin Range(p0) => q[i] = p1[i]
    <3>1. CASE Len(p0) + i # k
      <4>1. /\ Len(p0) + i > k - 1 => q[i] = p1[i]
            /\ Len(p0) + i <= k - 1 => q[i] \notin Range(p0)
            /\ p1[i] \notin Range(p0) => q[i] = p1[i]
        BY DEF Moved
      <4>2. QED
        BY <1>1, <3>1, <4>1
    <3>2. CASE Len(p0) + i = k
      <4>1. k > Len(p0) /\ i = i0
        BY <1>1, <3>2
      <4>2. p1[i] \notin Range(p0)
        BY <1>1, <1>2, <4>1, DuplicatesOfUnique
      <4>3. QED
        BY <1>1, <3>2, <4>2 DEF Moved
    <3>3. QED
      BY <3>1, <3>2
  <2>3. Moved(p0, p1, k, next, q)
    BY <2>1, <2>2 DEF Moved
  <2>4. QED
    BY <2>3
<1>3. CASE k \in Duplicates(p0 \o p1)
  <2>1. /\ k > Len(p0) /\ i0 \in 1 .. Len(p1)
        /\ (p0 \o p1)[k] = e /\ e \in Range(p0) /\ e \in Range(p1) /\ e \in Exposures
        /\ FirstIndex(p1, e) = i0
    <3>1. k > Len(p0) /\ i0 \in 1 .. Len(p1) /\ (p0 \o p1)[k] = e /\ e \in Range(p0)
      BY <1>1, <1>3, DuplicatesOfUnique
    <3>2. QED
      BY <1>1, <3>1, UniqueIndex
  <2>2. PICK j0 \in 1 .. Len(p0) : p0[j0] = e
    BY <1>1, <2>1 DEF Range
  <2>3. FirstIndex(p0, e) = j0
    BY <1>1, <2>2, UniqueIndex
  <2>4. x \in Exposures \ DOMAIN map
    BY <2>1, FreeExposureIsFree
  <2>5. next = AdjustDuplicate(p0, p1, map, e)
    BY <1>3, <2>1 DEF AfterPlace
  <2> DEFINE r == [q EXCEPT ![i0] = x]
  <2>6. /\ q \in [1 .. Len(p1) -> Exposures]
        /\ DOMAIN map = Range(p0) \cup Range(q)
        /\ \A i \in 1 .. Len(p1) : map[q[i]] = <<1, i - 1>>
        /\ \A i \in 1 .. Len(p0) : p0[i] \notin Range(q) => map[p0[i]] = <<0, i - 1>>
    BY DEF Moved
  <2>7. q[i0] = e
    BY <1>1, <2>1 DEF Moved
  <2>8. next = [y \in DOMAIN map \cup {x} |->
                  CASE y = e -> <<0, j0 - 1>>
                    [] y = x -> <<1, i0 - 1>>
                    [] OTHER -> map[y]]
    BY <2>1, <2>3, <2>5 DEF AdjustDuplicate
  <2>9. e \in DOMAIN map /\ e # x
    BY <2>1, <2>4, <2>6
  <2>10. /\ DOMAIN next = DOMAIN map \cup {x}
         /\ next[e] = <<0, j0 - 1>>
         /\ next[x] = <<1, i0 - 1>>
         /\ \A y \in DOMAIN map : y # e => next[y] = map[y]
    <3> HIDE DEF next, x, e
    <3>1. QED
      BY <2>4, <2>8, <2>9
  <2> HIDE DEF next, x, e, i0
  <2>11. /\ r \in [1 .. Len(p1) -> Exposures]
         /\ r[i0] = x
         /\ \A i \in 1 .. Len(p1) : i # i0 => r[i] = q[i]
    BY <2>1, <2>4, <2>6
  <2> HIDE DEF r
  <2>12. \A i \in 1 .. Len(p1) : i # i0 => q[i] # e /\ q[i] \in DOMAIN map
    <3>1. \A i \in 1 .. Len(p1) : i # i0 => map[q[i]] # map[q[i0]]
      BY <1>1, <2>1, <2>6
    <3>2. QED
      BY <2>6, <2>7, <3>1 DEF Range
  <2>13. Range(r) \subseteq Range(q) \cup {x} /\ Range(q) \subseteq Range(r) \cup {e} /\ x \in Range(r)
    <3>1. \A i \in 1 .. Len(p1) : r[i] \in Range(q) \cup {x}
      BY <2>6, <2>11 DEF Range
    <3>2. \A i \in 1 .. Len(p1) : q[i] \in Range(r) \cup {e}
      BY <2>7, <2>11 DEF Range
    <3>3. QED
      BY <2>1, <2>6, <2>11, <3>1, <3>2 DEF Range
  <2>14. DOMAIN next = Range(p0) \cup Range(r)
    BY <2>1, <2>6, <2>10, <2>13
  <2>15. \A i \in 1 .. Len(p1) : next[r[i]] = <<1, i - 1>>
    BY <2>6, <2>10, <2>11, <2>12
  <2>16. ASSUME NEW i \in 1 .. Len(p0), p0[i] \notin Range(r)
         PROVE  next[p0[i]] = <<0, i - 1>>
    <3>1. CASE p0[i] = e
      <4>1. i = j0
        BY <1>1, <2>2, <3>1 DEF IsInjective
      <4>2. QED
        BY <2>10, <3>1, <4>1
    <3>2. CASE p0[i] # e
      <4>1. p0[i] \notin Range(q) /\ p0[i] \in DOMAIN map
        BY <1>1, <2>6, <2>13, <2>16, <3>2 DEF Range
      <4>2. QED
        BY <2>6, <2>10, <3>2, <4>1
    <3>3. QED
      BY <3>1, <3>2
  <2>17. ASSUME NEW i \in 1 .. Len(p1)
         PROVE  /\ Len(p0) + i > k => r[i] = p1[i]
                /\ Len(p0) + i <= k => r[i] \notin Range(p0)
                /\ p1[i] \notin Range(p0) => r[i] = p1[i]
    <3>1. CASE i # i0
      <4>1. Len(p0) + i # k
        BY <1>1, <3>1 DEF i0
      <4>2. /\ Len(p0) + i > k - 1 => q[i] = p1[i]
            /\ Len(p0) + i <= k - 1 => q[i] \notin Range(p0)
            /\ p1[i] \notin Range(p0) => q[i] = p1[i]
        BY DEF Moved
      <4>3. r[i] = q[i]
        BY <2>11, <3>1
      <4>4. QED
        BY <1>1, <4>1, <4>2, <4>3
    <3>2. CASE i = i0
      <4>1. Len(p0) + i = k /\ p1[i] \in Range(p0)
        BY <1>1, <2>1, <3>2 DEF i0, e
      <4>2. r[i] \notin Range(p0)
        BY <2>4, <2>6, <2>11, <3>2
      <4>3. QED
        BY <1>1, <4>1, <4>2
    <3>3. QED
      BY <3>1, <3>2
  <2>18. Moved(p0, p1, k, next, r)
    BY <2>11, <2>14, <2>15, <2>16, <2>17 DEF Moved
  <2>19. QED
    BY <2>18 DEF next
<1>4. QED
  BY <1>2, <1>3

(* Profile 0 keeps its exposures; those of profile 1 are distinct from     *)
(* them in the end, and are kept if they always were.                      *)
LEMMA BuildIsExact ==
  ASSUME NEW p0 \in Seq(Exposures), NEW p1 \in Seq(Exposures),
         IsInjective(p0), IsInjective(p1),
         2 * (Len(p0) + Len(p1)) <= MaxExposure
  PROVE  \E q \in [1 .. Len(p1) -> Exposures] :
           /\ Exact(BuildExposureMap(p0, p1), p0, q)
           /\ Range(p0) \cap Range(p1) = {} => q = p1
<1> DEFINE n == Len(p0 \o p1)
           S == {s \in (0 .. n) \X Maps :
                   Sized(p0, p1, s[1], s[2]) /\ \E q : Moved(p0, p1, s[1], s[2], q)}
           map == BuildExposureMap(p0, p1)
<1>1. /\ n \in Nat /\ n = Len(p0) + Len(p1) /\ Len(p0) \in Nat /\ Len(p1) \in Nat
      /\ DOMAIN p0 = 1 .. Len(p0) /\ DOMAIN p1 = 1 .. Len(p1)
  BY RangeOfBoth
<1>2. <<0, BothProfiles(p0, p1)>> \in S
  <2>1. Sized(p0, p1, 0, BothProfiles(p0, p1))
    BY <1>1, BothProfilesIsMap DEF Sized
  <2>2. BothProfiles(p0, p1) \in Maps
    BY <2>1, MapsAreMaps DEF Sized
  <2> HIDE DEF n
  <2>3. QED
    BY <1>1, <2>1, <2>2, NothingMoved
<1>3. ASSUME NEW k \in 1 .. n, NEW before, <<k - 1, before>> \in S
      PROVE  <<k, AfterPlace(p0, p1, before, k)>> \in S
  <2>1. Sized(p0, p1, k - 1, before) /\ \E q : Moved(p0, p1, k - 1, before, q)
    BY <1>3
  <2>2. /\ Cardinality(DOMAIN before) <= MaxExposure
        /\ Sized(p0, p1, k, AfterPlace(p0, p1, before, k))
    BY <2>1, AfterPlaceIsSized
  <2>3. \E r : Moved(p0, p1, k, AfterPlace(p0, p1, before, k), r)
    BY <2>1, <2>2, MovesOn DEF Sized
  <2>4. AfterPlace(p0, p1, before, k) \in Maps
    BY <2>2, MapsAreMaps DEF Sized
  <2> HIDE DEF n
  <2>5. QED
    BY <1>1, <2>2, <2>3, <2>4
<1>4. IsMap(map) /\ \E q : Moved(p0, p1, n, map, q)
  <2>1. <<n, map>> \in S
    <3> HIDE DEF S
    <3>1. QED
      BY <1>2, <1>3, BuildInduction
  <2>2. QED
    BY <2>1 DEF Sized
<1>5. PICK q : Moved(p0, p1, n, map, q)
  BY <1>4
<1> HIDE DEF n, map
<1>6. q \in [1 .. Len(p1) -> Exposures]
  BY <1>5 DEF Moved
<1>7. \A i \in 1 .. Len(p1) : q[i] \notin Range(p0)
  BY <1>1, <1>5 DEF Moved
<1>8. \A i \in 1 .. Len(p0) : p0[i] \notin Range(q)
  BY <1>1, <1>6, <1>7 DEF Range
<1>9. Exact(map, p0, q)
  BY <1>1, <1>4, <1>5, <1>6, <1>8 DEF Moved, Exact
<1>10. ASSUME Range(p0) \cap Range(p1) = {} PROVE q = p1
  <2>1. \A i \in 1 .. Len(p1) : p1[i] \notin Range(p0)
    BY <1>1, <1>10 DEF Range
  <2>2. \A i \in 1 .. Len(p1) : q[i] = p1[i]
    BY <1>5, <2>1 DEF Moved
  <2>3. QED
    BY <1>1, <1>6, <2>2
<1>11. QED
  BY <1>6, <1>9, <1>10 DEF map

-----------------------------------------------------------------------------
(* The map of two profiles of which only one does not repeat an exposure.  *)

(* What one place of the sequences does to the map: nothing, or an entry   *)
(* of profile 0 for its exposure and one of profile 1 for a free one.      *)
Entered(p0, p1, k, map, next) ==
  LET e == (p0 \o p1)[k]
  IN  \/ /\ next = map
         /\ ~(k \in Duplicates(p0 \o p1) /\ e \in Range(p0) /\ e \in Range(p1))
      \/ \E x \in Exposures \ DOMAIN map :
           /\ e \in Range(p0) /\ e \in Range(p1)
           /\ DOMAIN next = DOMAIN map \cup {x}
           /\ next[e] = <<0, FirstIndex(p0, e) - 1>>
           /\ next[x] = <<1, FirstIndex(p1, e) - 1>>
           /\ \A y \in DOMAIN map : y # e => next[y] = map[y]

LEMMA AfterPlaceEntries ==
  ASSUME NEW p0 \in Seq(Exposures), NEW p1 \in Seq(Exposures),
         NEW k \in 1 .. Len(p0 \o p1), NEW map,
         IsMap(map), Cardinality(DOMAIN map) <= MaxExposure,
         Range(p0) \subseteq DOMAIN map
  PROVE  Entered(p0, p1, k, map, AfterPlace(p0, p1, map, k))
<1> DEFINE e == (p0 \o p1)[k]
           x == FreeExposure(map, e)
           next == AfterPlace(p0, p1, map, k)
<1>1. e \in Exposures
  BY RangeOfBoth
<1>2. x \in Exposures \ DOMAIN map
  <2> HIDE DEF e
  <2>1. QED
    BY <1>1, FreeExposureIsFree
<1>3. CASE ~(k \in Duplicates(p0 \o p1) /\ e \in Range(p0) /\ e \in Range(p1))
  BY <1>3 DEF AfterPlace, AdjustDuplicate, Entered
<1>4. CASE k \in Duplicates(p0 \o p1) /\ e \in Range(p0) /\ e \in Range(p1)
  <2>1. next = [y \in DOMAIN map \cup {x} |->
                  CASE y = e -> <<0, FirstIndex(p0, e) - 1>>
                    [] y = x -> <<1, FirstIndex(p1, e) - 1>>
                    [] OTHER -> map[y]]
    BY <1>4 DEF AfterPlace, AdjustDuplicate
  <2> HIDE DEF next, x, e
  <2>2. e \in DOMAIN map /\ e # x
    BY <1>2, <1>4
  <2>3. /\ DOMAIN next = DOMAIN map \cup {x}
        /\ next[e] = <<0, FirstIndex(p0, e) - 1>>
        /\ next[x] = <<1, FirstIndex(p1, e) - 1>>
        /\ \A y \in DOMAIN map : y # e => next[y] = map[y]
    BY <1>2, <2>1, <2>2
  <2>4. QED
    BY <1>2, <1>4, <2>3 DEF next, e, Entered
<1>5. QED
  BY <1>3, <1>4

(* Profile 0 gets its exposures back, at the latest when the loop comes to *)
(* the place where profile 1 has them.                                     *)
Keeps0(p0, p1, k, map) ==
  /\ Range(p0) \subseteq DOMAIN map
  /\ \A y \in DOMAIN map : \A i \in 1 .. Len(p0) : map[y] = <<0, i - 1>> => p0[i] = y
  /\ \A i \in 1 .. Len(p0) :
       \/ map[p0[i]] = <<0, i - 1>>
       \/ \E j \in 1 .. Len(p1) : p1[j] = p0[i] /\ Len(p0) + j > k

LEMMA Keeps0Initially ==
  ASSUME NEW p0 \in Seq(Exposures), NEW p1 \in Seq(Exposures), IsInjective(p0)
  PROVE  Keeps0(p0, p1, 0, BothProfiles(p0, p1))
<1> DEFINE map == BothProfiles(p0, p1)
<1>1. /\ Len(p0) \in Nat /\ Len(p1) \in Nat
      /\ DOMAIN p0 = 1 .. Len(p0) /\ DOMAIN p1 = 1 .. Len(p1)
  OBVIOUS
<1>2. DOMAIN map = Range(p0) \cup Range(p1)
  BY DEF BothProfiles
<1>3. ASSUME NEW y \in DOMAIN map, NEW i \in 1 .. Len(p0), map[y] = <<0, i - 1>>
      PROVE  p0[i] = y
  <2>1. y \notin Range(p1) /\ map[y] = <<0, LastIndex(p0, y) - 1>>
    BY <1>2, <1>3 DEF BothProfiles
  <2>2. y \in Range(p0)
    BY <1>2, <2>1
  <2>3. LastIndex(p0, y) \in 1 .. Len(p0) /\ p0[LastIndex(p0, y)] = y
    BY <1>1, <2>2, LastIndexIsAPlace
  <2>4. i = LastIndex(p0, y)
    BY <1>1, <1>3, <2>1, <2>3
  <2>5. QED
    BY <2>3, <2>4
<1>4. ASSUME NEW i \in 1 .. Len(p0)
      PROVE  \/ map[p0[i]] = <<0, i - 1>>
             \/ \E j \in 1 .. Len(p1) : p1[j] = p0[i] /\ Len(p0) + j > 0
  <2>1. CASE p0[i] \in Range(p1)
    BY <1>1, <2>1 DEF Range
  <2>2. CASE p0[i] \notin Range(p1)
    <3>1. p0[i] \in Range(p0) /\ LastIndex(p0, p0[i]) = i
      BY UniqueIndex
    <3>2. QED
      BY <2>2, <3>1 DEF BothProfiles
  <2>3. QED
    BY <2>1, <2>2
<1>5. QED
  BY <1>2, <1>3, <1>4 DEF Keeps0

LEMMA PastOne ==
  ASSUME NEW m \in Nat, NEW n \in Nat, NEW k \in Int
  PROVE  \A j \in 1 .. n : m + j > k - 1 /\ m + j # k => m + j > k
OBVIOUS

LEMMA Keeps0On ==
  ASSUME NEW p0 \in Seq(Exposures), NEW p1 \in Seq(Exposures), IsInjective(p0),
         NEW k \in 1 .. Len(p0 \o p1), NEW map,
         IsMap(map), Cardinality(DOMAIN map) <= MaxExposure,
         Keeps0(p0, p1, k - 1, map)
  PROVE  Keeps0(p0, p1, k, AfterPlace(p0, p1, map, k))
<1> DEFINE all == p0 \o p1
           e == all[k]
           next == AfterPlace(p0, p1, map, k)
<1>1. /\ Len(p0) \in Nat /\ Len(p1) \in Nat /\ k \in 1 .. Len(p0) + Len(p1)
      /\ DOMAIN p0 = 1 .. Len(p0) /\ DOMAIN p1 = 1 .. Len(p1)
      /\ DOMAIN all = 1 .. Len(p0) + Len(p1)
      /\ \A i \in 1 .. Len(p0) : all[i] = p0[i]
      /\ \A i \in 1 .. Len(p1) : all[Len(p0) + i] = p1[i]
  BY RangeOfBoth
<1>2. Range(p0) \subseteq DOMAIN map
  BY DEF Keeps0
<1>3. \/ next = map /\ ~(k \in Duplicates(all) /\ e \in Range(p0) /\ e \in Range(p1))
      \/ \E x \in Exposures \ DOMAIN map :
           /\ e \in Range(p0) /\ e \in Range(p1)
           /\ DOMAIN next = DOMAIN map \cup {x}
           /\ next[e] = <<0, FirstIndex(p0, e) - 1>>
           /\ next[x] = <<1, FirstIndex(p1, e) - 1>>
           /\ \A y \in DOMAIN map : y # e => next[y] = map[y]
  <2>1. Entered(p0, p1, k, map, next)
    BY <1>2, AfterPlaceEntries
  <2> HIDE DEF next
  <2>2. QED
    BY <2>1 DEF Entered
<1> HIDE DEF next, all
<1>4. \A i \in 1 .. Len(p0) :
        \/ map[p0[i]] = <<0, i - 1>>
        \/ \E j \in 1 .. Len(p1) : p1[j] = p0[i] /\ Len(p0) + j > k - 1
  BY DEF Keeps0
(* The place of profile 1 that has the same exposure is a duplicate.       *)
<1>5. ASSUME NEW i \in 1 .. Len(p0), NEW j \in 1 .. Len(p1), p1[j] = p0[i], Len(p0) + j = k
      PROVE  k \in Duplicates(all) /\ e = p0[i] /\ e \in Range(p0) /\ e \in Range(p1)
  <2>1. e = p0[i] /\ all[i] = all[k] /\ i \in 1 .. k - 1 /\ k \in DOMAIN all
    BY <1>1, <1>5
  <2>2. QED
    BY <1>1, <1>5, <2>1 DEF Duplicates, Range
<1>6. CASE next = map /\ ~(k \in Duplicates(all) /\ e \in Range(p0) /\ e \in Range(p1))
  <2>1. ASSUME NEW i \in 1 .. Len(p0), NEW j \in 1 .. Len(p1), p1[j] = p0[i], Len(p0) + j > k - 1
        PROVE  Len(p0) + j > k
    <3>1. Len(p0) + j # k
      BY <1>5, <1>6, <2>1
    <3>2. /\ Len(p0) \in Int /\ j \in Int /\ k \in Int
          /\ Len(p0) + j > k - 1
      BY <1>1, <2>1
    <3> HIDE DEF e
    <3>3. QED
      BY <3>1, <3>2
  <2>2. /\ Range(p0) \subseteq DOMAIN map
        /\ \A y \in DOMAIN map : \A i \in 1 .. Len(p0) : map[y] = <<0, i - 1>> => p0[i] = y
    BY DEF Keeps0
  <2>3. \A i \in 1 .. Len(p0) :
          \/ map[p0[i]] = <<0, i - 1>>
          \/ \E j \in 1 .. Len(p1) : p1[j] = p0[i] /\ Len(p0) + j > k
    <3> HIDE DEF e
    <3>1. QED
      BY <1>4, <2>1
  <2>4. Keeps0(p0, p1, k, map)
    BY <2>2, <2>3 DEF Keeps0
  <2>5. next = map
    BY <1>6
  <2>6. QED
    BY <2>4, <2>5 DEF next
<1>7. ASSUME NEW x \in Exposures \ DOMAIN map,
             e \in Range(p0), e \in Range(p1),
             DOMAIN next = DOMAIN map \cup {x},
             next[e] = <<0, FirstIndex(p0, e) - 1>>,
             next[x] = <<1, FirstIndex(p1, e) - 1>>,
             \A y \in DOMAIN map : y # e => next[y] = map[y]
      PROVE  Keeps0(p0, p1, k, next)
  <2>1. FirstIndex(p0, e) \in 1 .. Len(p0) /\ p0[FirstIndex(p0, e)] = e
    BY <1>1, <1>7, FirstIndexIsAPlace
  <2>2. ASSUME NEW y \in DOMAIN next, NEW i \in 1 .. Len(p0), next[y] = <<0, i - 1>>
        PROVE  p0[i] = y
    <3>1. CASE y = e
      <4>1. i = FirstIndex(p0, e)
        BY <1>1, <1>7, <2>1, <2>2, <3>1
      <4>2. QED
        BY <2>1, <3>1, <4>1
    <3>2. CASE y # e
      <4>1. y # x
        BY <1>7, <2>2
      <4>2. y \in DOMAIN map /\ map[y] = <<0, i - 1>>
        BY <1>7, <2>2, <3>2, <4>1
      <4>3. QED
        BY <4>2 DEF Keeps0
    <3>3. QED
      BY <3>1, <3>2
  <2>3. ASSUME NEW i \in 1 .. Len(p0)
        PROVE  \/ next[p0[i]] = <<0, i - 1>>
               \/ \E j \in 1 .. Len(p1) : p1[j] = p0[i] /\ Len(p0) + j > k
    <3>1. CASE p0[i] = e
      <4>1. FirstIndex(p0, e) = i
        BY <1>1, <2>1, <3>1 DEF IsInjective
      <4>2. QED
        BY <1>7, <3>1, <4>1
    <3>2. CASE p0[i] # e
      <4>1. p0[i] \in DOMAIN map /\ next[p0[i]] = map[p0[i]]
        BY <1>1, <1>2, <1>7, <3>2 DEF Range
      <4>2. \A j \in 1 .. Len(p1) : p1[j] = p0[i] => Len(p0) + j # k
        BY <1>5, <3>2
      <4>3. \A j \in 1 .. Len(p1) : Len(p0) + j > k - 1 /\ Len(p0) + j # k => Len(p0) + j > k
        <5>1. Len(p0) \in Nat /\ Len(p1) \in Nat /\ k \in Int
          BY <1>1
        <5>2. QED
          BY <5>1, PastOne
      <4> HIDE DEF e
      <4>4. CASE map[p0[i]] = <<0, i - 1>>
        BY <4>1, <4>4
      <4>5. CASE \E j \in 1 .. Len(p1) : p1[j] = p0[i] /\ Len(p0) + j > k - 1
        BY <4>2, <4>3, <4>5
      <4>6. QED
        BY <1>4, <4>4, <4>5
    <3>3. QED
      BY <3>1, <3>2
  <2>4. QED
    BY <1>2, <1>7, <2>2, <2>3 DEF Keeps0
<1>8. QED
  BY <1>3, <1>6, <1>7 DEF next

(* If profile 0 does not repeat an exposure, each of its exposures is the  *)
(* one entry of the map for its place.                                     *)
LEMMA BuildKeeps0 ==
  ASSUME NEW p0 \in Seq(Exposures), NEW p1 \in Seq(Exposures), IsInjective(p0),
         2 * (Len(p0) + Len(p1)) <= MaxExposure
  PROVE  LET map == BuildExposureMap(p0, p1)
         IN  \A i \in 1 .. Len(p0) :
               /\ p0[i] \in DOMAIN map /\ map[p0[i]] = <<0, i - 1>>
               /\ \A y \in DOMAIN map : map[y] = <<0, i - 1>> => y = p0[i]
<1> DEFINE n == Len(p0 \o p1)
           S == {s \in (0 .. n) \X Maps :
                   Sized(p0, p1, s[1], s[2]) /\ Keeps0(p0, p1, s[1], s[2])}
           map == BuildExposureMap(p0, p1)
<1>1. /\ n \in Nat /\ n = Len(p0) + Len(p1) /\ Len(p0) \in Nat /\ Len(p1) \in Nat
      /\ DOMAIN p0 = 1 .. Len(p0)
  BY RangeOfBoth
<1>2. <<0, BothProfiles(p0, p1)>> \in S
  <2>1. Sized(p0, p1, 0, BothProfiles(p0, p1))
    BY <1>1, BothProfilesIsMap DEF Sized
  <2>2. BothProfiles(p0, p1) \in Maps
    BY <2>1, MapsAreMaps DEF Sized
  <2> HIDE DEF n
  <2>3. QED
    BY <1>1, <2>1, <2>2, Keeps0Initially
<1>3. ASSUME NEW k \in 1 .. n, NEW before, <<k - 1, before>> \in S
      PROVE  <<k, AfterPlace(p0, p1, before, k)>> \in S
  <2>1. Sized(p0, p1, k - 1, before) /\ Keeps0(p0, p1, k - 1, before)
    BY <1>3
  <2>2. /\ Cardinality(DOMAIN before) <= MaxExposure
        /\ Sized(p0, p1, k, AfterPlace(p0, p1, before, k))
    BY <2>1, AfterPlaceIsSized
  <2>3. Keeps0(p0, p1, k, AfterPlace(p0, p1, before, k))
    BY <2>1, <2>2, Keeps0On DEF Sized
  <2>4. AfterPlace(p0, p1, before, k) \in Maps
    BY <2>2, MapsAreMaps DEF Sized
  <2> HIDE DEF n
  <2>5. QED
    BY <1>1, <2>2, <2>3, <2>4
<1>4. Keeps0(p0, p1, n, map)
  <2>1. <<n, map>> \in S
    <3> HIDE DEF S
    <3>1. QED
      BY <1>2, <1>3, BuildInduction
  <2>2. QED
    BY <2>1
<1> HIDE DEF n, map
<1>5. \A j \in 1 .. Len(p1) : ~(Len(p0) + j > n)
  BY <1>1
<1>6. ASSUME NEW i \in 1 .. Len(p0)
      PROVE  /\ p0[i] \in DOMAIN map /\ map[p0[i]] = <<0, i - 1>>
             /\ \A y \in DOMAIN map : map[y] = <<0, i - 1>> => y = p0[i]
  BY <1>1, <1>4, <1>5 DEF Keeps0, Range
<1>7. QED
  BY <1>6 DEF map

(* Each place of profile 1 has an entry, and those for exposures of the    *)
(* profiles are right.                                                     *)
Keeps1(p0, p1, map) ==
  /\ Range(p0) \cup Range(p1) \subseteq DOMAIN map
  /\ \A y \in Range(p0) \cup Range(p1) : \A i \in 1 .. Len(p1) :
       map[y] = <<1, i - 1>> => p1[i] = y
  /\ \A i \in 1 .. Len(p1) : \E y \in DOMAIN map : map[y] = <<1, i - 1>>

LEMMA Keeps1Initially ==
  ASSUME NEW p0 \in Seq(Exposures), NEW p1 \in Seq(Exposures), IsInjective(p1)
  PROVE  Keeps1(p0, p1, BothProfiles(p0, p1))
<1> DEFINE map == BothProfiles(p0, p1)
<1>1. Len(p1) \in Nat /\ DOMAIN p1 = 1 .. Len(p1)
  OBVIOUS
<1>2. DOMAIN map = Range(p0) \cup Range(p1)
  BY DEF BothProfiles
<1>3. ASSUME NEW y \in DOMAIN map, NEW i \in 1 .. Len(p1), map[y] = <<1, i - 1>>
      PROVE  p1[i] = y
  <2>1. y \in Range(p1) /\ map[y] = <<1, LastIndex(p1, y) - 1>>
    BY <1>2, <1>3 DEF BothProfiles
  <2>2. LastIndex(p1, y) \in 1 .. Len(p1) /\ p1[LastIndex(p1, y)] = y
    BY <1>1, <2>1, LastIndexIsAPlace
  <2>3. i = LastIndex(p1, y)
    BY <1>1, <1>3, <2>1, <2>2
  <2>4. QED
    BY <2>2, <2>3
<1>4. ASSUME NEW i \in 1 .. Len(p1)
      PROVE  p1[i] \in DOMAIN map /\ map[p1[i]] = <<1, i - 1>>
  <2>1. p1[i] \in Range(p1) /\ LastIndex(p1, p1[i]) = i
    BY UniqueIndex
  <2>2. QED
    BY <1>2, <2>1 DEF BothProfiles
<1> HIDE DEF map
<1>5. QED
  BY <1>2, <1>3, <1>4 DEF Keeps1, map

LEMMA Keeps1On ==
  ASSUME NEW p0 \in Seq(Exposures), NEW p1 \in Seq(Exposures), IsInjective(p1),
         NEW k \in 1 .. Len(p0 \o p1), NEW map,
         IsMap(map), Cardinality(DOMAIN map) <= MaxExposure,
         Keeps1(p0, p1, map)
  PROVE  Keeps1(p0, p1, AfterPlace(p0, p1, map, k))
<1> DEFINE e == (p0 \o p1)[k]
           next == AfterPlace(p0, p1, map, k)
<1>1. /\ Len(p0) \in Nat /\ DOMAIN p0 = 1 .. Len(p0)
      /\ Len(p1) \in Nat /\ DOMAIN p1 = 1 .. Len(p1)
  OBVIOUS
<1>2. /\ Range(p0) \cup Range(p1) \subseteq DOMAIN map
      /\ \A y \in Range(p0) \cup Range(p1) : \A i \in 1 .. Len(p1) :
           map[y] = <<1, i - 1>> => p1[i] = y
      /\ \A i \in 1 .. Len(p1) : \E y \in DOMAIN map : map[y] = <<1, i - 1>>
  BY DEF Keeps1
<1>3. Entered(p0, p1, k, map, next)
  BY <1>2, AfterPlaceEntries
<1> HIDE DEF next
<1>4. CASE next = map
  BY <1>4 DEF next
<1>5. ASSUME NEW x \in Exposures \ DOMAIN map,
             e \in Range(p0), e \in Range(p1),
             DOMAIN next = DOMAIN map \cup {x},
             next[e] = <<0, FirstIndex(p0, e) - 1>>,
             next[x] = <<1, FirstIndex(p1, e) - 1>>,
             \A y \in DOMAIN map : y # e => next[y] = map[y]
      PROVE  Keeps1(p0, p1, next)
  <2> HIDE DEF e
  <2>1. FirstIndex(p1, e) \in 1 .. Len(p1) /\ p1[FirstIndex(p1, e)] = e
    BY <1>1, <1>5, FirstIndexIsAPlace
  <2>2. ASSUME NEW y \in Range(p0) \cup Range(p1), NEW i \in 1 .. Len(p1),
               next[y] = <<1, i - 1>>
        PROVE  p1[i] = y
    <3>1. y # e
      BY <1>5, <2>2
    <3>2. map[y] = <<1, i - 1>>
      BY <1>2, <1>5, <2>2, <3>1
    <3>3. QED
      BY <1>2, <3>2
  <2>3. ASSUME NEW i \in 1 .. Len(p1)
        PROVE  \E y \in DOMAIN next : next[y] = <<1, i - 1>>
    <3>1. PICK y \in DOMAIN map : map[y] = <<1, i - 1>>
      BY <1>2
    <3>2. CASE y = e
      <4>1. p1[i] = e
        BY <1>2, <1>5, <3>1, <3>2
      <4>2. i = FirstIndex(p1, e)
        BY <1>1, <2>1, <4>1 DEF IsInjective
      <4>3. QED
        BY <1>5, <4>2
    <3>3. CASE y # e
      BY <1>5, <3>1, <3>3
    <3>4. QED
      BY <3>2, <3>3
  <2>4. QED
    BY <1>2, <1>5, <2>2, <2>3 DEF Keeps1
<1>6. QED
  BY <1>3, <1>4, <1>5 DEF Entered, next

(* If profile 1 does not repeat an exposure, each of its places is found.  *)
LEMMA BuildKeeps1 ==
  ASSUME NEW p0 \in Seq(Exposures), NEW p1 \in Seq(Exposures), IsInjective(p1),
         2 * (Len(p0) + Len(p1)) <= MaxExposure
  PROVE  LET map == BuildExposureMap(p0, p1)
         IN  \A i \in 1 .. Len(p1) : \E y \in DOMAIN map : map[y] = <<1, i - 1>>
<1> DEFINE n == Len(p0 \o p1)
           S == {s \in (0 .. n) \X Maps :
                   Sized(p0, p1, s[1], s[2]) /\ Keeps1(p0, p1, s[2])}
           map == BuildExposureMap(p0, p1)
<1>1. n \in Nat /\ n = Len(p0) + Len(p1)
  BY RangeOfBoth
<1>2. <<0, BothProfiles(p0, p1)>> \in S
  <2>1. Sized(p0, p1, 0, BothProfiles(p0, p1))
    BY <1>1, BothProfilesIsMap DEF Sized
  <2>2. BothProfiles(p0, p1) \in Maps
    BY <2>1, MapsAreMaps DEF Sized
  <2> HIDE DEF n
  <2>3. QED
    BY <1>1, <2>1, <2>2, Keeps1Initially
<1>3. ASSUME NEW k \in 1 .. n, NEW before, <<k - 1, before>> \in S
      PROVE  <<k, AfterPlace(p0, p1, before, k)>> \in S
  <2>1. Sized(p0, p1, k - 1, before) /\ Keeps1(p0, p1, before)
    BY <1>3
  <2>2. /\ Cardinality(DOMAIN before) <= MaxExposure
        /\ Sized(p0, p1, k, AfterPlace(p0, p1, before, k))
    BY <2>1, AfterPlaceIsSized
  <2>3. Keeps1(p0, p1, AfterPlace(p0, p1, before, k))
    BY <2>1, <2>2, Keeps1On DEF Sized
  <2>4. AfterPlace(p0, p1, before, k) \in Maps
    BY <2>2, MapsAreMaps DEF Sized
  <2> HIDE DEF n
  <2>5. QED
    BY <1>1, <2>2, <2>3, <2>4
<1>4. Keeps1(p0, p1, map)
  <2>1. <<n, map>> \in S
    <3> HIDE DEF S
    <3>1. QED
      BY <1>2, <1>3, BuildInduction
  <2>2. QED
    BY <2>1
<1>5. QED
  BY <1>4 DEF Keeps1

-----------------------------------------------------------------------------
(* What set_caps reads back and writes.                                    *)

LEMMA RequestedAreSequences ==
  ASSUME NEW steps \in RequestedSequences
  PROVE  steps \in Sequence /\ Len(steps) <= MaxSteps
<1>1. PICK m \in 0 .. MaxSteps : steps \in [1 .. m -> [exposure: Requests, gain: Gains \cup {0}]]
  BY DEF RequestedSequences, BoundedSeq, SeqOf
<1>2. m \in Nat /\ m <= MaxSteps
  BY BoundsAssumption
<1>3. [exposure: Requests, gain: Gains \cup {0}] \subseteq Step
  BY RequestsAssumption DEF Step
<1>4. steps \in [1 .. m -> Step]
  BY <1>1, <1>3
<1>5. steps \in Seq(Step) /\ Len(steps) = m
  BY <1>2, <1>4
<1>6. QED
  BY <1>2, <1>5 DEF Sequence

(* The steps and the exposures of a property. *)
LEMMA StepsAreASequence ==
  ASSUME NEW property \in Sequence \cup {Unset}
  PROVE  LET steps == StepsOf(property)
             exposures == ExposuresOf(steps)
         IN  /\ steps \in Sequence /\ steps \in Seq(Step)
             /\ exposures \in Seq(Exposures)
             /\ Len(exposures) = Len(steps) /\ Len(steps) \in Nat
             /\ DOMAIN exposures = 1 .. Len(steps) /\ DOMAIN steps = 1 .. Len(steps)
             /\ \A i \in 1 .. Len(steps) : exposures[i] = steps[i].exposure
<1> DEFINE steps == StepsOf(property)
           exposures == ExposuresOf(steps)
<1>1. steps \in Seq(Step)
  BY DEF StepsOf, Sequence
<1> HIDE DEF steps
<1>2. Len(steps) \in Nat /\ DOMAIN steps = 1 .. Len(steps)
  BY <1>1
<1>3. \A i \in 1 .. Len(steps) : steps[i].exposure \in Exposures
  <2>1. \A i \in 1 .. Len(steps) : steps[i] \in Step
    BY <1>1, <1>2
  <2>2. \A step \in Step : step.exposure \in Exposures
    BY DEF Step
  <2>3. QED
    BY <2>1, <2>2
<1>4. exposures = [i \in 1 .. Len(steps) |-> steps[i].exposure]
  BY <1>2 DEF ExposuresOf
<1>5. exposures \in Seq(Exposures) /\ Len(exposures) = Len(steps) /\ DOMAIN exposures = 1 .. Len(steps)
  BY <1>2, <1>3, <1>4
<1>6. QED
  BY <1>1, <1>2, <1>4, <1>5 DEF steps, Sequence

(* A property that was rewritten has the exposures that were read back.    *)
LEMMA RewrittenHasAdjusted ==
  ASSUME NEW property \in Sequence \cup {Unset},
         NEW adjusted \in [1 .. Len(StepsOf(property)) -> Exposures]
  PROVE  LET new == Rewritten(property, adjusted)
         IN  /\ new \in Sequence \cup {Unset}
             /\ property # Unset => new # Unset
             /\ Len(StepsOf(new)) = Len(StepsOf(property))
             /\ ExposuresOf(StepsOf(new)) = adjusted
             /\ adjusted = ExposuresOf(StepsOf(property)) => new = property
<1> DEFINE n == Len(StepsOf(property))
           old == ExposuresOf(StepsOf(property))
           written == [i \in DOMAIN adjusted |-> [exposure |-> adjusted[i], gain |-> 0]]
           new == Rewritten(property, adjusted)
<1>1. /\ n \in Nat /\ DOMAIN old = 1 .. n /\ old \in Seq(Exposures)
      /\ DOMAIN adjusted = 1 .. n
  BY StepsAreASequence
<1>2. CASE adjusted # <<>> /\ adjusted # old
  <2>1. new = written
    BY <1>2 DEF Rewritten
  <2>2. written \in [1 .. n -> Step]
    BY <1>1 DEF Step
  <2>3. written \in Sequence /\ Len(written) = n
    <3> HIDE DEF written, n
    <3>1. QED
      BY <1>1, <2>2 DEF Sequence
  <2>4. written # Unset
    BY <2>3, UnsetAssumption
  <2>5. StepsOf(written) = written
    BY <2>4 DEF StepsOf
  <2>6. ExposuresOf(written) = [i \in 1 .. n |-> adjusted[i]]
    BY <1>1 DEF ExposuresOf
  <2>7. ExposuresOf(written) = adjusted
    BY <1>1, <2>6
  <2>8. QED
    BY <1>2, <2>1, <2>3, <2>4, <2>5, <2>7
<1>3. CASE ~(adjusted # <<>> /\ adjusted # old)
  <2>1. new = property
    BY <1>3 DEF Rewritten
  <2>2. adjusted = old
    <3>1. CASE adjusted = <<>>
      <4>1. 1 .. n = {}
        BY <1>1, <3>1
      <4>2. n = 0
        <5>1. n \in Nat /\ (n > 0 => 1 \in 1 .. n)
          BY <1>1
        <5> HIDE DEF n
        <5>2. QED
          BY <4>1, <5>1
      <4>3. old = <<>>
        BY <1>1, <4>2, StepsAreASequence
      <4>4. QED
        BY <3>1, <4>3
    <3>2. QED
      BY <1>3, <3>1
  <2>3. QED
    BY <2>1, <2>2
<1>4. QED
  BY <1>2, <1>3

(* What is read back of a map are exposures. *)
LEMMA ReadsExposures ==
  ASSUME NEW map, IsMap(map), NEW p, NEW n \in Nat, NEW s \in ReadsBack(map, p, n)
  PROVE  s \in [1 .. n -> Exposures]
<1>1. 0 \in Exposures /\ DOMAIN map \subseteq Exposures
  BY MaxExposureAssumption DEF Exposures, IsMap
<1>2. s \in [1 .. n -> DOMAIN map \cup {0}]
  BY DEF ReadsBack
<1>3. QED
  BY <1>1, <1>2

(* A place with an entry is read back as an exposure that has it.          *)
LEMMA ReadsAnEntry ==
  ASSUME NEW map, NEW p, NEW n \in Nat, NEW s \in ReadsBack(map, p, n),
         NEW i \in 1 .. n, \E y \in DOMAIN map : map[y] = <<p, i - 1>>
  PROVE  s[i] \in DOMAIN map /\ map[s[i]] = <<p, i - 1>>
<1> DEFINE of == {e \in DOMAIN map : map[e] = <<p, i - 1>>}
<1>1. s[i] \in (IF of = {} THEN {0} ELSE of)
  BY DEF ReadsBack
<1>2. of # {}
  OBVIOUS
<1>3. s[i] \in of
  BY <1>1, <1>2
<1>4. QED
  BY <1>3

-----------------------------------------------------------------------------
(* What set_caps makes of the exposures p0 and p1 of two properties.       *)

(* Profile 0 is read back as it was, if it does not repeat an exposure.    *)
LEMMA ReadsProfile0Back ==
  ASSUME NEW p0 \in Seq(Exposures), NEW p1 \in Seq(Exposures), IsInjective(p0),
         2 * (Len(p0) + Len(p1)) <= MaxExposure,
         NEW s \in ReadsBack(BuildExposureMap(p0, p1), 0, Len(p0))
  PROVE  s = p0
<1> DEFINE map == BuildExposureMap(p0, p1)
<1>1. Len(p0) \in Nat /\ DOMAIN p0 = 1 .. Len(p0) /\ p0 \in [1 .. Len(p0) -> Exposures]
  OBVIOUS
<1>2. \A i \in 1 .. Len(p0) :
        /\ p0[i] \in DOMAIN map /\ map[p0[i]] = <<0, i - 1>>
        /\ \A y \in DOMAIN map : map[y] = <<0, i - 1>> => y = p0[i]
  BY BuildKeeps0
<1>3. s \in [1 .. Len(p0) -> DOMAIN map \cup {0}]
  BY DEF ReadsBack
<1>4. s \in ReadsBack(map, 0, Len(p0))
  OBVIOUS
<1> HIDE DEF map
<1>5. ASSUME NEW i \in 1 .. Len(p0) PROVE s[i] = p0[i]
  <2>1. \E y \in DOMAIN map : map[y] = <<0, i - 1>>
    BY <1>2
  <2>2. s[i] \in DOMAIN map /\ map[s[i]] = <<0, i - 1>>
    BY <1>1, <1>4, <2>1, ReadsAnEntry
  <2>3. QED
    BY <1>2, <2>2
<1>6. QED
  BY <1>1, <1>3, <1>5

(* Profile 1 is read back without a repetition, if it had none.            *)
LEMMA ReadsProfile1Back ==
  ASSUME NEW p0 \in Seq(Exposures), NEW p1 \in Seq(Exposures), IsInjective(p1),
         2 * (Len(p0) + Len(p1)) <= MaxExposure,
         NEW s \in ReadsBack(BuildExposureMap(p0, p1), 1, Len(p1))
  PROVE  IsInjective(s)
<1> DEFINE map == BuildExposureMap(p0, p1)
<1>1. Len(p1) \in Nat
  OBVIOUS
<1>2. \A i \in 1 .. Len(p1) : \E y \in DOMAIN map : map[y] = <<1, i - 1>>
  BY BuildKeeps1
<1>3. s \in [1 .. Len(p1) -> DOMAIN map \cup {0}]
  BY DEF ReadsBack
<1>4. s \in ReadsBack(map, 1, Len(p1))
  OBVIOUS
<1> HIDE DEF map
<1>5. \A i \in 1 .. Len(p1) : map[s[i]] = <<1, i - 1>>
  BY <1>1, <1>2, <1>4, ReadsAnEntry
<1>6. QED
  BY <1>1, <1>3, <1>5 DEF IsInjective

(* If neither does, the map is exact for what is read back, and profile 1  *)
(* is read back as it was if it shares no exposure with profile 0.         *)
LEMMA ReadsBothBack ==
  ASSUME NEW p0 \in Seq(Exposures), NEW p1 \in Seq(Exposures),
         IsInjective(p0), IsInjective(p1),
         2 * (Len(p0) + Len(p1)) <= MaxExposure,
         NEW s \in ReadsBack(BuildExposureMap(p0, p1), 1, Len(p1))
  PROVE  /\ Exact(BuildExposureMap(p0, p1), p0, s)
         /\ Range(p0) \cap Range(p1) = {} => s = p1
<1> DEFINE map == BuildExposureMap(p0, p1)
<1>1. PICK q \in [1 .. Len(p1) -> Exposures] :
        Exact(map, p0, q) /\ (Range(p0) \cap Range(p1) = {} => q = p1)
  BY BuildIsExact
<1>2. s \in ReadsBack(map, 1, Len(p1))
  OBVIOUS
<1>3. s \in [1 .. Len(p1) -> DOMAIN map \cup {0}]
  BY DEF ReadsBack
<1> HIDE DEF map
<1>4. Len(p0) \in Nat /\ DOMAIN p0 = 1 .. Len(p0) /\ Len(p1) \in Nat
  OBVIOUS
<1>5. /\ DOMAIN map = Range(p0) \cup Range(q)
      /\ \A i \in 1 .. Len(p0) : map[p0[i]] = <<0, i - 1>>
      /\ \A i \in 1 .. Len(p1) : map[q[i]] = <<1, i - 1>>
  BY <1>1, <1>4 DEF Exact
<1>6. \A i \in 1 .. Len(p1) : q[i] \in DOMAIN map
  BY <1>1, <1>5 DEF Range
<1>7. ASSUME NEW i \in 1 .. Len(p1)
      PROVE  s[i] \in DOMAIN map /\ map[s[i]] = <<1, i - 1>>
  <2>1. \E y \in DOMAIN map : map[y] = <<1, i - 1>>
    BY <1>5, <1>6
  <2>2. QED
    BY <1>2, <1>4, <2>1, ReadsAnEntry
<1>8. ASSUME NEW i \in 1 .. Len(p1) PROVE s[i] = q[i]
  <2>1. s[i] \notin Range(p0)
    <3>1. ASSUME NEW j \in 1 .. Len(p0) PROVE p0[j] # s[i]
      <4>1. map[p0[j]] = <<0, j - 1>> /\ map[s[i]] = <<1, i - 1>>
        BY <1>5, <1>7
      <4>2. QED
        BY <4>1
    <3>2. QED
      BY <1>4, <3>1 DEF Range
  <2>2. PICK j \in 1 .. Len(p1) : s[i] = q[j]
    BY <1>1, <1>5, <1>7, <2>1 DEF Range
  <2>3. i = j
    BY <1>4, <1>5, <1>7, <2>2
  <2>4. QED
    BY <2>2, <2>3
<1>9. s = q
  BY <1>1, <1>3, <1>8
<1>10. QED
  BY <1>1, <1>9 DEF map

(* There is one map that is exact for two sequences, and they have no      *)
(* exposure in common nor twice.                                           *)
LEMMA ExactIsUnique ==
  ASSUME NEW map, NEW other, NEW p0 \in Seq(Exposures), NEW p1 \in Seq(Exposures),
         Exact(map, p0, p1), Exact(other, p0, p1)
  PROVE  map = other
<1>1. /\ DOMAIN map = DOMAIN other
      /\ map = [e \in DOMAIN map |-> map[e]]
      /\ other = [e \in DOMAIN other |-> other[e]]
  BY DEF Exact, IsMap
<1>2. ASSUME NEW e \in DOMAIN map PROVE map[e] = other[e]
  <2>1. /\ e \in Range(p0) \cup Range(p1)
        /\ \A i \in DOMAIN p0 : map[p0[i]] = other[p0[i]]
        /\ \A i \in DOMAIN p1 : map[p1[i]] = other[p1[i]]
    <3>1. DOMAIN map = Range(p0) \cup Range(p1)
      BY DEF Exact
    <3>2. ASSUME NEW i \in DOMAIN p0 PROVE map[p0[i]] = other[p0[i]]
      <4>1. map[p0[i]] = <<0, i - 1>>
        BY DEF Exact
      <4>2. other[p0[i]] = <<0, i - 1>>
        BY DEF Exact
      <4>3. QED
        BY <4>1, <4>2
    <3>3. ASSUME NEW i \in DOMAIN p1 PROVE map[p1[i]] = other[p1[i]]
      <4>1. map[p1[i]] = <<1, i - 1>>
        BY DEF Exact
      <4>2. other[p1[i]] = <<1, i - 1>>
        BY DEF Exact
      <4>3. QED
        BY <4>1, <4>2
    <3>4. QED
      BY <3>1, <3>2, <3>3
  <2>2. QED
    BY <2>1 DEF Range
<1>3. QED
  BY <1>1, <1>2

LEMMA ExactIsApart ==
  ASSUME NEW map, NEW p0 \in Seq(Exposures), NEW p1 \in Seq(Exposures),
         Exact(map, p0, p1)
  PROVE  IsInjective(p0) /\ IsInjective(p1) /\ Range(p0) \cap Range(p1) = {}
<1>1. /\ \A i \in DOMAIN p0 : map[p0[i]] = <<0, i - 1>>
      /\ \A i \in DOMAIN p1 : map[p1[i]] = <<1, i - 1>>
  BY DEF Exact
<1>2. DOMAIN p0 \subseteq Int /\ DOMAIN p1 \subseteq Int
  OBVIOUS
<1>3. IsInjective(p0) /\ IsInjective(p1)
  <2>1. ASSUME NEW i \in DOMAIN p0, NEW j \in DOMAIN p0, p0[i] = p0[j] PROVE i = j
    <3>1. i - 1 = j - 1
      BY <1>1, <2>1
    <3>2. QED
      BY <1>2, <3>1
  <2>2. ASSUME NEW i \in DOMAIN p1, NEW j \in DOMAIN p1, p1[i] = p1[j] PROVE i = j
    <3>1. i - 1 = j - 1
      BY <1>1, <2>2
    <3>2. QED
      BY <1>2, <3>1
  <2>3. QED
    BY <2>1, <2>2 DEF IsInjective
<1>4. Range(p0) \cap Range(p1) = {}
  BY <1>1 DEF Range
<1>5. QED
  BY <1>3, <1>4

-----------------------------------------------------------------------------
(* The inductive invariant.                                                *)

E(p) == ExposuresOf(StepsOf(hdr_sequence[p]))

(* The properties keep their length, and with it the map its room.         *)
Bounded ==
  \A p \in Profiles :
    /\ requested[p] \in RequestedSequences \cup {Unset}
    /\ Len(StepsOf(hdr_sequence[p])) = Len(StepsOf(requested[p]))

(* A rewritten property does not repeat an exposure if the request did not,*)
(* whatever the other profile is or was meanwhile.                         *)
KeptApart ==
  /\ Unique(StepsOf(requested[0])) => hdr_sequence[0] = requested[0]
  /\ Unique(StepsOf(requested[1])) => IsInjective(E(1))

(* The camera cycles through the properties, and the map is made for them. *)
InStep ==
  streaming =>
    /\ hdr_sequence[0] # Unset
    /\ programmed = [p \in Profiles |-> StepsOf(hdr_sequence[p])]
    /\ AssumesUnique => Exact(exposureMap, E(0), E(1))

TypeInv == TypeOK /\ IsMap(exposureMap) /\ Bounded
IInv == TypeInv /\ KeptApart /\ InStep

LEMMA InitIInv == Init => IInv
<1> SUFFICES ASSUME Init PROVE IInv
  OBVIOUS
<1>1. requested = [p \in Profiles |-> Unset] /\ hdr_sequence = requested
      /\ exposureMap = <<>> /\ programmed = Nothing /\ streaming = FALSE
  BY DEF Init
<1>2. DOMAIN <<>> = {} /\ <<>> \in Sequence
  BY DEF Sequence
<1>3. Nothing \in [Profiles -> Sequence]
  BY <1>2 DEF Nothing
<1>4. TypeOK
  BY <1>1, <1>2, <1>3 DEF TypeOK, Properties
<1>5. IsMap(exposureMap)
  BY <1>1, <1>2 DEF IsMap
<1>6. Bounded
  BY <1>1 DEF Bounded
<1>7. KeptApart
  <2>1. hdr_sequence[1] = Unset
    BY <1>1 DEF Profiles
  <2>2. IsInjective(E(1))
    BY <2>1 DEF E, StepsOf, ExposuresOf, IsInjective
  <2>3. QED
    BY <1>1, <2>2 DEF KeptApart
<1>8. InStep
  BY <1>1 DEF InStep
<1>9. QED
  BY <1>4, <1>5, <1>6, <1>7, <1>8 DEF IInv, TypeInv

(* What the invariant says of the exposures of the properties.             *)
LEMMA ExposuresFit ==
  ASSUME TypeInv, NEW p \in Profiles
  PROVE  /\ hdr_sequence[p] \in Sequence \cup {Unset}
         /\ E(p) \in Seq(Exposures)
         /\ Len(E(p)) = Len(StepsOf(hdr_sequence[p]))
         /\ Len(E(p)) \in Nat /\ Len(E(p)) <= MaxSteps
<1>1. hdr_sequence[p] \in Sequence \cup {Unset} /\ requested[p] \in RequestedSequences \cup {Unset}
  BY DEF TypeInv, TypeOK, Properties, Bounded
<1>2. E(p) \in Seq(Exposures) /\ Len(E(p)) = Len(StepsOf(hdr_sequence[p])) /\ Len(E(p)) \in Nat
  BY <1>1, StepsAreASequence DEF E
<1>3. Len(StepsOf(requested[p])) <= MaxSteps
  <2>1. CASE requested[p] = Unset
    BY <2>1, BoundsAssumption DEF StepsOf
  <2>2. CASE requested[p] # Unset
    BY <1>1, <2>2, RequestedAreSequences DEF StepsOf
  <2>3. QED
    BY <2>1, <2>2
<1>4. Len(StepsOf(hdr_sequence[p])) = Len(StepsOf(requested[p]))
  BY DEF TypeInv, Bounded
<1>5. QED
  BY <1>1, <1>2, <1>3, <1>4

LEMMA SetSequenceKeepsIInv ==
  ASSUME IInv, NEW p \in Profiles, NEW steps \in RequestedSequences, SetSequence(p, steps)
  PROVE  IInv'
<1>1. /\ ~streaming /\ streaming' = streaming
      /\ requested' = [requested EXCEPT ![p] = steps]
      /\ hdr_sequence' = [hdr_sequence EXCEPT ![p] = steps]
      /\ exposureMap' = exposureMap /\ programmed' = programmed
  BY DEF SetSequence
<1>2. /\ requested \in Properties /\ hdr_sequence \in Properties
      /\ DOMAIN requested = Profiles /\ DOMAIN hdr_sequence = Profiles
  BY DEF IInv, TypeInv, TypeOK, Properties
<1>3. steps \in Sequence
  BY RequestedAreSequences
<1>4. TypeOK'
  BY <1>1, <1>2, <1>3 DEF IInv, TypeInv, TypeOK, Properties
<1>5. IsMap(exposureMap)'
  BY <1>1 DEF IInv, TypeInv
<1>6. Bounded'
  BY <1>1, <1>2 DEF IInv, TypeInv, Bounded
<1>7. KeptApart'
  <2>1. 0 \in Profiles /\ 1 \in Profiles
    BY DEF Profiles
  <2>2. (Unique(StepsOf(requested[0])) => hdr_sequence[0] = requested[0])'
    BY <1>1, <1>2, <2>1 DEF IInv, KeptApart
  <2>3. (Unique(StepsOf(requested[1])) => IsInjective(E(1)))'
    <3>1. CASE p = 1
      <4>1. requested'[1] = steps /\ hdr_sequence'[1] = steps
        BY <1>1, <1>2, <2>1, <3>1
      <4>2. QED
        BY <4>1 DEF Unique, E
    <3>2. CASE p # 1
      <4>1. requested'[1] = requested[1] /\ hdr_sequence'[1] = hdr_sequence[1]
        BY <1>1, <1>2, <2>1, <3>2
      <4>2. QED
        BY <4>1 DEF IInv, KeptApart, E
    <3>3. QED
      BY <3>1, <3>2
  <2>4. QED
    BY <2>2, <2>3 DEF KeptApart
<1>8. InStep'
  BY <1>1 DEF InStep
<1>9. QED
  BY <1>4, <1>5, <1>6, <1>7, <1>8 DEF IInv, TypeInv

(* What SetCaps does, whatever the camera says to it. *)
LEMMA SetCapsRewrites ==
  ASSUME IInv, SetCaps
  PROVE  /\ exposureMap' = BuildExposureMap(E(0), E(1))
         /\ requested' = requested
         /\ hdr_sequence[0] # Unset
         /\ hdr_sequence' \in Properties
         /\ \A p \in Profiles :
              /\ E(p)' \in ReadsBack(exposureMap', p, Len(E(p)))
              /\ Len(StepsOf(hdr_sequence'[p])) = Len(StepsOf(hdr_sequence[p]))
              /\ hdr_sequence[p] # Unset => hdr_sequence'[p] # Unset
              /\ E(p)' = E(p) => hdr_sequence'[p] = hdr_sequence[p]
         /\ 2 * (Len(E(0)) + Len(E(1))) <= MaxExposure
         /\ IsMap(exposureMap')
<1>1. 0 \in Profiles /\ 1 \in Profiles /\ \A p \in Profiles : p = 0 \/ p = 1
  BY DEF Profiles
<1>2. TypeInv
  BY DEF IInv
<1>3. hdr_sequence[0] # Unset /\ E(0) = ExposuresOf(hdr_sequence[0]) /\ requested' = requested
  BY DEF SetCaps, E, StepsOf
<1> DEFINE p0 == E(0)
           p1 == E(1)
           map == BuildExposureMap(p0, p1)
<1>4. PICK adjusted0 \in ReadsBack(map, 0, Len(p0)),
           adjusted1 \in ReadsBack(map, 1, Len(p1)) :
        /\ exposureMap' = map
        /\ hdr_sequence' = [p \in Profiles |->
             Rewritten(hdr_sequence[p], IF p = 0 THEN adjusted0 ELSE adjusted1)]
  BY <1>3 DEF SetCaps, E
<1>5. /\ p0 \in Seq(Exposures) /\ Len(p0) \in Nat /\ Len(p0) <= MaxSteps
      /\ p1 \in Seq(Exposures) /\ Len(p1) \in Nat /\ Len(p1) <= MaxSteps
  BY <1>1, <1>2, ExposuresFit
<1> HIDE DEF p0, p1
<1>6. 2 * (Len(p0) + Len(p1)) <= MaxExposure
  BY <1>5, RoomAssumption, BoundsAssumption, MaxExposureAssumption
<1>7. IsMap(map)
  BY <1>5, <1>6, BuildIsMap
<1> HIDE DEF map
<1> DEFINE adjusted(p) == IF p = 0 THEN adjusted0 ELSE adjusted1
<1>8. ASSUME NEW p \in Profiles
      PROVE  /\ adjusted(p) \in ReadsBack(map, p, Len(E(p)))
             /\ adjusted(p) \in [1 .. Len(StepsOf(hdr_sequence[p])) -> Exposures]
             /\ hdr_sequence'[p] = Rewritten(hdr_sequence[p], adjusted(p))
  <2>1. adjusted(p) \in ReadsBack(map, p, Len(E(p)))
    BY <1>1, <1>4 DEF p0, p1
  <2>2. hdr_sequence'[p] = Rewritten(hdr_sequence[p], adjusted(p))
    BY <1>4
  <2> HIDE DEF adjusted
  <2>3. Len(E(p)) = Len(StepsOf(hdr_sequence[p])) /\ Len(E(p)) \in Nat
    BY <1>2, ExposuresFit
  <2>4. adjusted(p) \in [1 .. Len(E(p)) -> Exposures]
    BY <1>7, <2>1, <2>3, ReadsExposures
  <2>5. QED
    BY <2>1, <2>2, <2>3, <2>4
<1> HIDE DEF adjusted
<1>9. ASSUME NEW p \in Profiles
      PROVE  /\ hdr_sequence'[p] \in Sequence \cup {Unset}
             /\ hdr_sequence[p] # Unset => hdr_sequence'[p] # Unset
             /\ Len(StepsOf(hdr_sequence'[p])) = Len(StepsOf(hdr_sequence[p]))
             /\ ExposuresOf(StepsOf(hdr_sequence'[p])) = adjusted(p)
             /\ adjusted(p) = ExposuresOf(StepsOf(hdr_sequence[p]))
                  => hdr_sequence'[p] = hdr_sequence[p]
  <2>1. hdr_sequence[p] \in Sequence \cup {Unset}
    BY <1>2, ExposuresFit
  <2>2. QED
    BY <1>8, <2>1, RewrittenHasAdjusted
<1>10. hdr_sequence' \in Properties
  <2>1. hdr_sequence' = [p \in Profiles |-> hdr_sequence'[p]]
    BY <1>4
  <2>2. QED
    BY <1>9, <2>1 DEF Properties
<1>11. ASSUME NEW p \in Profiles
       PROVE  /\ E(p)' = adjusted(p)
              /\ E(p)' = E(p) => hdr_sequence'[p] = hdr_sequence[p]
  BY <1>9 DEF E
<1>12. ASSUME NEW p \in Profiles PROVE E(p)' \in ReadsBack(exposureMap', p, Len(E(p)))
  BY <1>4, <1>8, <1>11
<1>13. QED
  BY <1>3, <1>4, <1>6, <1>7, <1>9, <1>10, <1>11, <1>12 DEF p0, p1, map

LEMMA SetCapsKeepsIInv ==
  ASSUME IInv, SetCaps
  PROVE  IInv'
<1>1. 0 \in Profiles /\ 1 \in Profiles /\ \A p \in Profiles : p = 0 \/ p = 1
  BY DEF Profiles
<1>2. /\ exposureMap' = BuildExposureMap(E(0), E(1))
      /\ requested' = requested
      /\ hdr_sequence[0] # Unset
      /\ hdr_sequence' \in Properties
      /\ \A p \in Profiles :
           /\ E(p)' \in ReadsBack(exposureMap', p, Len(E(p)))
           /\ Len(StepsOf(hdr_sequence'[p])) = Len(StepsOf(hdr_sequence[p]))
           /\ hdr_sequence[p] # Unset => hdr_sequence'[p] # Unset
           /\ E(p)' = E(p) => hdr_sequence'[p] = hdr_sequence[p]
      /\ 2 * (Len(E(0)) + Len(E(1))) <= MaxExposure
      /\ IsMap(exposureMap')
  BY SetCapsRewrites
<1>3. E(0) \in Seq(Exposures) /\ E(1) \in Seq(Exposures)
  BY <1>1, ExposuresFit DEF IInv
<1>4. \/ /\ streaming' = TRUE
         /\ programmed' = [p \in Profiles |-> StepsOf(hdr_sequence'[p])]
      \/ /\ streaming' = FALSE
         /\ programmed' = Nothing
  BY DEF SetCaps
<1>5. programmed' \in [Profiles -> Sequence]
  <2>1. \A p \in Profiles : StepsOf(hdr_sequence'[p]) \in Sequence
    <3>1. \A p \in Profiles : hdr_sequence'[p] \in Sequence \cup {Unset}
      BY <1>2 DEF Properties
    <3>2. QED
      BY <3>1, StepsAreASequence
  <2>2. Nothing \in [Profiles -> Sequence]
    BY DEF Nothing, Sequence
  <2>3. QED
    BY <1>4, <2>1, <2>2
<1>6. TypeOK'
  <2>1. /\ DOMAIN exposureMap' \subseteq Exposures
        /\ \A e \in DOMAIN exposureMap' : exposureMap'[e] \in Profiles \X Nat
    BY <1>2 DEF IsMap
  <2>2. requested' \in Properties
    BY <1>2 DEF IInv, TypeInv, TypeOK
  <2>3. streaming' \in BOOLEAN
    BY <1>4
  <2>4. QED
    BY <1>2, <1>5, <2>1, <2>2, <2>3 DEF TypeOK
<1>7. IsMap(exposureMap)'
  BY <1>2 DEF IsMap
<1>8. Bounded'
  BY <1>2 DEF IInv, TypeInv, Bounded
<1>9. ASSUME Unique(StepsOf(requested[0]))
      PROVE  /\ hdr_sequence[0] = requested[0] /\ IsInjective(E(0))
             /\ E(0)' = E(0) /\ hdr_sequence'[0] = requested[0]
  <2>1. hdr_sequence[0] = requested[0] /\ IsInjective(E(0))
    BY <1>9 DEF IInv, KeptApart, Unique, E
  <2>2. E(0)' \in ReadsBack(BuildExposureMap(E(0), E(1)), 0, Len(E(0)))
    BY <1>1, <1>2
  <2>3. E(0)' = E(0)
    BY <1>2, <1>3, <2>1, <2>2, ReadsProfile0Back
  <2>4. QED
    BY <1>1, <1>2, <2>1, <2>3
<1>10. E(1)' \in ReadsBack(BuildExposureMap(E(0), E(1)), 1, Len(E(1)))
  BY <1>1, <1>2
<1>11. ASSUME Unique(StepsOf(requested[1]))
       PROVE  IsInjective(E(1)) /\ IsInjective(E(1)')
  <2>1. IsInjective(E(1))
    BY <1>11 DEF IInv, KeptApart
  <2>2. QED
    BY <1>2, <1>3, <1>10, <2>1, ReadsProfile1Back
<1>12. KeptApart'
  <2>1. (Unique(StepsOf(requested[0])) => hdr_sequence[0] = requested[0])'
    BY <1>2, <1>9
  <2>2. (Unique(StepsOf(requested[1])) => IsInjective(E(1)))'
    BY <1>2, <1>11
  <2>3. QED
    BY <2>1, <2>2 DEF KeptApart
<1>13. ASSUME AssumesUnique PROVE Exact(exposureMap', E(0)', E(1)')
  <2>1. Unique(StepsOf(requested[0])) /\ Unique(StepsOf(requested[1]))
    BY <1>1, <1>13 DEF AssumesUnique
  <2>2. E(0)' = E(0) /\ IsInjective(E(0)) /\ IsInjective(E(1))
    BY <1>9, <1>11, <2>1
  <2>3. Exact(BuildExposureMap(E(0), E(1)), E(0), E(1)')
    BY <1>2, <1>3, <1>10, <2>2, ReadsBothBack
  <2>4. QED
    BY <1>2, <2>2, <2>3
<1>14. InStep'
  <2>1. SUFFICES ASSUME streaming' = TRUE
                 PROVE  /\ hdr_sequence'[0] # Unset
                        /\ programmed' = [p \in Profiles |-> StepsOf(hdr_sequence'[p])]
                        /\ AssumesUnique' => Exact(exposureMap', E(0)', E(1)')
    BY <1>4 DEF InStep
  <2>2. AssumesUnique' <=> AssumesUnique
    BY <1>2 DEF AssumesUnique
  <2>3. QED
    BY <1>1, <1>2, <1>4, <1>13, <2>1, <2>2
<1>15. QED
  BY <1>6, <1>7, <1>8, <1>12, <1>14 DEF IInv, TypeInv

LEMMA NextKeepsIInv == IInv /\ [Next]_vars => IInv'
<1> SUFFICES ASSUME IInv, [Next]_vars PROVE IInv'
  OBVIOUS
<1>1. CASE \E p \in Profiles, steps \in RequestedSequences : SetSequence(p, steps)
  BY <1>1, SetSequenceKeepsIInv
<1>2. CASE SetCaps
  BY <1>2, SetCapsKeepsIInv
<1>3. CASE Stop
  <2>1. /\ streaming' = FALSE /\ programmed' = Nothing /\ exposureMap' = <<>>
        /\ requested' = requested /\ hdr_sequence' = hdr_sequence
    BY <1>3 DEF Stop
  <2>2. DOMAIN <<>> = {} /\ Nothing \in [Profiles -> Sequence]
    BY DEF Nothing, Sequence
  <2>3. TypeOK'
    BY <2>1, <2>2 DEF IInv, TypeInv, TypeOK
  <2>4. IsMap(exposureMap)'
    BY <2>1, <2>2 DEF IsMap
  <2>5. Bounded' /\ KeptApart' /\ InStep'
    BY <2>1 DEF IInv, TypeInv, Bounded, KeptApart, InStep, E
  <2>6. QED
    BY <2>3, <2>4, <2>5 DEF IInv, TypeInv
<1>4. CASE UNCHANGED vars
  BY <1>4 DEF vars, IInv, TypeInv, TypeOK, IsMap, Bounded, KeptApart, InStep, E,
              AssumesUnique, Exact
<1>5. QED
  BY <1>1, <1>2, <1>3, <1>4 DEF Next

LEMMA AlwaysIInv == Spec => []IInv
BY InitIInv, NextKeepsIInv, PTL DEF Spec

-----------------------------------------------------------------------------
(* Type correctness, through any sequence of requests and renegotiations:  *)
(* what the search and the rewriting produce stays within the exposures.   *)
THEOREM TypeCorrect == Spec => []TypeOK
<1>1. IInv => TypeOK
  BY DEF IInv, TypeInv
<1>2. QED
  BY <1>1, AlwaysIInv, PTL

(* While the camera streams, the map that HdrMetadataProvider built finds  *)
(* the profile and the position of every step it cycles through, whatever  *)
(* exposures the profiles share and whichever was set or rewritten before. *)
THEOREM EveryStepIsFound == Spec => []FindsEveryStep
<1>1. IInv => FindsEveryStep
  <2> SUFFICES ASSUME IInv, streaming, AssumesUnique,
                      NEW p \in Profiles, NEW i \in DOMAIN programmed[p]
               PROVE  LET e == programmed[p][i].exposure
                      IN  e \in DOMAIN exposureMap /\ exposureMap[e] = <<p, i - 1>>
    BY DEF FindsEveryStep
  <2>1. /\ programmed[p] = StepsOf(hdr_sequence[p])
        /\ Exact(exposureMap, E(0), E(1))
    BY DEF IInv, InStep
  <2>2. hdr_sequence[p] \in Sequence \cup {Unset}
    BY ExposuresFit DEF IInv
  <2>3. DOMAIN programmed[p] = DOMAIN E(p) /\ programmed[p][i].exposure = E(p)[i]
    BY <2>1, <2>2, StepsAreASequence DEF E
  <2>4. CASE p = 0
    <3>1. E(0)[i] \in DOMAIN exposureMap /\ exposureMap[E(0)[i]] = <<0, i - 1>>
      BY <2>1, <2>3, <2>4 DEF Exact, Range
    <3>2. QED
      BY <2>3, <2>4, <3>1
  <2>5. CASE p = 1
    <3>1. E(1)[i] \in DOMAIN exposureMap /\ exposureMap[E(1)[i]] = <<1, i - 1>>
      BY <2>1, <2>3, <2>5 DEF Exact, Range
    <3>2. QED
      BY <2>3, <2>5, <3>1
  <2>6. QED
    BY <2>4, <2>5 DEF Profiles
<1>2. QED
  BY <1>1, AlwaysIInv, PTL

(* set_caps leaves profile 0 as the application asked for it, gains        *)
(* included, and drops no step of profile 1.                               *)
THEOREM Profile0IsKept == Spec => []Profile0Kept
<1>1. IInv => Profile0Kept
  <2> SUFFICES ASSUME IInv, streaming, AssumesUnique
               PROVE  /\ programmed[0] = requested[0]
                      /\ Len(programmed[1]) = Len(StepsOf(requested[1]))
    BY DEF Profile0Kept
  <2>1. 0 \in Profiles /\ 1 \in Profiles
    BY DEF Profiles
  <2>2. /\ hdr_sequence[0] # Unset
        /\ programmed[0] = StepsOf(hdr_sequence[0])
        /\ programmed[1] = StepsOf(hdr_sequence[1])
    BY <2>1 DEF IInv, InStep
  <2>3. hdr_sequence[0] = requested[0]
    BY <2>1 DEF IInv, KeptApart, AssumesUnique
  <2>4. Len(StepsOf(hdr_sequence[1])) = Len(StepsOf(requested[1]))
    BY <2>1 DEF IInv, TypeInv, Bounded
  <2>5. QED
    BY <2>2, <2>3, <2>4 DEF StepsOf
<1>2. QED
  BY <1>1, AlwaysIInv, PTL

(* The properties that set_caps rewrote are a fixed point of set_caps:     *)
(* the base class may call it as often as it likes.                        *)
THEOREM RenegotiationChangesNothing == Spec => RenegotiationIsStable
<1>1. ASSUME IInv, SetCaps, streaming, streaming', AssumesUnique
      PROVE  UNCHANGED <<hdr_sequence, exposureMap, programmed>>
  <2>1. 0 \in Profiles /\ 1 \in Profiles /\ \A p \in Profiles : p = 0 \/ p = 1
    BY DEF Profiles
  <2>2. /\ exposureMap' = BuildExposureMap(E(0), E(1))
        /\ hdr_sequence' \in Properties
        /\ \A p \in Profiles :
             /\ E(p)' \in ReadsBack(exposureMap', p, Len(E(p)))
             /\ E(p)' = E(p) => hdr_sequence'[p] = hdr_sequence[p]
        /\ 2 * (Len(E(0)) + Len(E(1))) <= MaxExposure
    BY <1>1, SetCapsRewrites
  <2>3. E(0) \in Seq(Exposures) /\ E(1) \in Seq(Exposures)
    BY <1>1, <2>1, ExposuresFit DEF IInv
  <2>4. /\ programmed = [p \in Profiles |-> StepsOf(hdr_sequence[p])]
        /\ Exact(exposureMap, E(0), E(1))
    BY <1>1 DEF IInv, InStep
  <2>5. IsInjective(E(0)) /\ IsInjective(E(1)) /\ Range(E(0)) \cap Range(E(1)) = {}
    BY <2>3, <2>4, ExactIsApart
  <2>6. /\ E(0)' \in ReadsBack(BuildExposureMap(E(0), E(1)), 0, Len(E(0)))
        /\ E(1)' \in ReadsBack(BuildExposureMap(E(0), E(1)), 1, Len(E(1)))
    BY <2>1, <2>2
  <2>7. E(0)' = E(0)
    BY <2>2, <2>3, <2>5, <2>6, ReadsProfile0Back
  <2>8. E(1)' = E(1) /\ Exact(BuildExposureMap(E(0), E(1)), E(0), E(1)')
    BY <2>2, <2>3, <2>5, <2>6, ReadsBothBack
  <2>9. exposureMap' = exposureMap
    <3>1. Exact(exposureMap', E(0), E(1))
      BY <2>2, <2>8
    <3>2. QED
      BY <2>3, <2>4, <3>1, ExactIsUnique
  <2>10. hdr_sequence' = hdr_sequence
    <3>1. \A p \in Profiles : hdr_sequence'[p] = hdr_sequence[p]
      BY <2>1, <2>2, <2>7, <2>8
    <3>2. hdr_sequence \in Properties
      BY <1>1 DEF IInv, TypeInv, TypeOK
    <3>3. QED
      BY <2>2, <3>1, <3>2 DEF Properties
  <2>11. programmed' = programmed
    BY <1>1, <2>4, <2>10 DEF SetCaps
  <2>12. QED
    BY <2>9, <2>10, <2>11
<1>2. IInv /\ [Next]_vars =>
        [streaming /\ streaming' /\ AssumesUnique /\ SetCaps
           => UNCHANGED <<hdr_sequence, exposureMap, programmed>>]_vars
  BY <1>1
<1>3. QED
  BY <1>2, AlwaysIInv, PTL DEF Spec, RenegotiationIsStable
==============================================================================
