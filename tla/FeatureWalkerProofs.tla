------------------------ MODULE FeatureWalkerProofs ------------------------
(***************************************************************************)
(* Proofs about FeatureWalker, for any node map, any camera the named      *)
(* assumptions allow, and any bound on the failures and on the processes.  *)
(***************************************************************************)
EXTENDS FeatureWalker, FiniteSetTheorems, TLAPS

LEMMA Smallest ==
  ASSUME NEW S, S \subseteq Nat, S # {}
  PROVE  \E x \in S : \A y \in S : x <= y
<1> DEFINE Less == {ss \in Nat \X Nat : ss[1] < ss[2]}
<1>1. IsWellFoundedOn(Less, Nat)
  BY NatLessThanWellFounded DEF OpToRel
<1>2. \A x, y \in S : <<y, x>> \notin Less => x <= y
  OBVIOUS
<1> HIDE DEF Less
<1>3. \E x \in S : \A y \in S : <<y, x>> \notin Less
  BY <1>1, WFMin
<1>4. QED
  BY <1>2, <1>3

(* Induction over the numbers, for the members of a set. *)
LEMMA Induction ==
  ASSUME NEW S, 0 \in S, \A n \in Nat : n \in S => n + 1 \in S
  PROVE  Nat \subseteq S
<1> DEFINE Outside == {m \in Nat : m \notin S}
<1> SUFFICES ASSUME Outside # {} PROVE FALSE
  OBVIOUS
<1>1. PICK x \in Outside : \A y \in Outside : x <= y
  <2>1. Outside \subseteq Nat
    OBVIOUS
  <2> HIDE DEF Outside
  <2>2. QED
    BY <2>1, Smallest
<1>2. x # 0 /\ x - 1 \in Nat /\ x - 1 \notin Outside
  BY <1>1
<1>3. (x - 1) + 1 \in S
  BY <1>2
<1>4. QED
  BY <1>2, <1>3

-----------------------------------------------------------------------------
(* The members of a set in a sequence, in its order. *)

AmongStep(seq, S, i, q) == IF seq[i] \in S THEN Append(q, seq[i]) ELSE q

LEMMA AmongIsALoop ==
  ASSUME NEW seq, NEW S, Len(seq) \in Nat
  PROVE  \E upto :
           /\ upto = [i \in 0..Len(seq) |->
                        IF i = 0 THEN <<>> ELSE AmongStep(seq, S, i, upto[i - 1])]
           /\ Among(seq, S) = upto[Len(seq)]
<1> DEFINE n == Len(seq)
           Body(upto, m) ==
             [i \in 0..m |-> IF i = 0 THEN <<>> ELSE AmongStep(seq, S, i, upto[i - 1])]
           Good == {m \in Nat : \E upto : upto = Body(upto, m)}
<1>1. 0 \in Good
  <2>1. [i \in 0..0 |-> <<>>] = Body([i \in 0..0 |-> <<>>], 0)
    OBVIOUS
  <2>2. QED
    BY <2>1
<1>2. ASSUME NEW m \in Nat, m \in Good PROVE m + 1 \in Good
  <2>1. PICK upto : upto = Body(upto, m)
    BY <1>2
  <2> DEFINE more == [i \in 0..(m + 1) |->
                        IF i = m + 1 THEN AmongStep(seq, S, m + 1, upto[m]) ELSE upto[i]]
  <2>2. more = Body(more, m + 1)
    <3>1. \A i \in 0..(m + 1) :
            more[i] = IF i = 0 THEN <<>> ELSE AmongStep(seq, S, i, more[i - 1])
      BY <2>1
    <3> HIDE DEF more
    <3>2. QED
      BY <3>1 DEF more
  <2>3. m + 1 \in Nat
    OBVIOUS
  <2> HIDE DEF more, Body
  <2>4. QED
    BY <2>2, <2>3
<1>3. \E upto : upto = Body(upto, n)
  <2> HIDE DEF Good
  <2>1. n \in Good
    BY <1>1, <1>2, Induction
  <2>2. QED
    BY <2>1 DEF Good
<1>4. Among(seq, S) = (CHOOSE upto : upto = Body(upto, n))[n]
  BY DEF Among, AmongStep
<1> DEFINE chosen == CHOOSE upto : upto = Body(upto, n)
<1>5. chosen = Body(chosen, n)
  BY <1>3
<1>6. QED
  BY <1>4, <1>5

(* What is taken of the first i elements: q has the members of S among     *)
(* them, nothing else, and in their order.                                 *)
TakenFrom(seq, S, i, q) ==
  /\ \A k \in 1..i : seq[k] \in S => \E m \in DOMAIN q : q[m] = seq[k]
  /\ \A m \in DOMAIN q : q[m] \in S /\ \E k \in 1..i : q[m] = seq[k]
  /\ \A m1, m2 \in DOMAIN q :
       m1 < m2 => \E k1, k2 \in 1..i : k1 < k2 /\ q[m1] = seq[k1] /\ q[m2] = seq[k2]

LEMMA AmongStepTakes ==
  ASSUME NEW T, NEW seq \in Seq(T), NEW S, NEW i \in 1..Len(seq),
         NEW q \in Seq(T), TakenFrom(seq, S, i - 1, q)
  PROVE  /\ AmongStep(seq, S, i, q) \in Seq(T)
         /\ TakenFrom(seq, S, i, AmongStep(seq, S, i, q))
<1>1. CASE seq[i] \notin S
  <2>1. AmongStep(seq, S, i, q) = q
    BY <1>1 DEF AmongStep
  <2>2. \A k \in 1..i : k \in 1..(i - 1) \/ k = i
    OBVIOUS
  <2>3. 1..(i - 1) \subseteq 1..i
    OBVIOUS
  <2>4. QED
    BY <1>1, <2>1, <2>2, <2>3 DEF TakenFrom
<1>2. CASE seq[i] \in S
  <2> DEFINE more == Append(q, seq[i])
  <2>1. AmongStep(seq, S, i, q) = more
    BY <1>2 DEF AmongStep
  <2>2. /\ more \in Seq(T) /\ Len(more) = Len(q) + 1 /\ more[Len(q) + 1] = seq[i]
        /\ DOMAIN more = 1..(Len(q) + 1) /\ DOMAIN q = 1..Len(q) /\ Len(q) \in Nat
        /\ \A m \in DOMAIN q : more[m] = q[m]
    OBVIOUS
  <2> HIDE DEF more
  <2>3. \A k \in 1..i : k \in 1..(i - 1) \/ k = i
    OBVIOUS
  <2>4. 1..(i - 1) \subseteq 1..i /\ i \in 1..i
    OBVIOUS
  <2>5. \A m \in DOMAIN more : m \in DOMAIN q \/ m = Len(q) + 1
    BY <2>2
  <2>6. ASSUME NEW k \in 1..i, seq[k] \in S
        PROVE  \E m \in DOMAIN more : more[m] = seq[k]
    <3>1. DOMAIN q \subseteq DOMAIN more /\ Len(q) + 1 \in DOMAIN more
      BY <2>2
    <3>2. CASE k = i
      BY <2>2, <3>1, <3>2
    <3>3. CASE k \in 1..(i - 1)
      <4>1. PICK m \in DOMAIN q : q[m] = seq[k]
        BY <2>6, <3>3 DEF TakenFrom
      <4>2. QED
        BY <2>2, <3>1, <4>1
    <3>4. QED
      BY <2>3, <3>2, <3>3
  <2>7. ASSUME NEW m \in DOMAIN more
        PROVE  more[m] \in S /\ \E k \in 1..i : more[m] = seq[k]
    <3>1. CASE m = Len(q) + 1
      BY <1>2, <2>2, <2>4, <3>1
    <3>2. CASE m \in DOMAIN q
      <4>1. q[m] \in S /\ \E k \in 1..(i - 1) : q[m] = seq[k]
        BY <3>2 DEF TakenFrom
      <4>2. QED
        BY <2>2, <2>4, <3>2, <4>1
    <3>3. QED
      BY <2>5, <3>1, <3>2
  <2>8. ASSUME NEW m1 \in DOMAIN more, NEW m2 \in DOMAIN more, m1 < m2
        PROVE  \E k1, k2 \in 1..i :
                 k1 < k2 /\ more[m1] = seq[k1] /\ more[m2] = seq[k2]
    <3>1. m1 \in DOMAIN q
      BY <2>2, <2>8
    <3>2. CASE m2 \in DOMAIN q
      <4>1. PICK k1 \in 1..(i - 1), k2 \in 1..(i - 1) :
              k1 < k2 /\ q[m1] = seq[k1] /\ q[m2] = seq[k2]
        BY <2>8, <3>1, <3>2 DEF TakenFrom
      <4>2. k1 \in 1..i /\ k2 \in 1..i /\ more[m1] = q[m1] /\ more[m2] = q[m2]
        BY <2>2, <2>4, <3>1, <3>2
      <4>3. QED
        BY <4>1, <4>2
    <3>3. CASE m2 = Len(q) + 1
      <4>1. PICK k1 \in 1..(i - 1) : q[m1] = seq[k1]
        BY <3>1 DEF TakenFrom
      <4>2. k1 \in 1..i /\ k1 < i /\ more[m1] = seq[k1] /\ more[m2] = seq[i]
        BY <2>2, <3>1, <3>3, <4>1
      <4>3. QED
        BY <2>4, <4>2
    <3>4. QED
      BY <2>5, <3>2, <3>3
  <2>9. QED
    BY <2>1, <2>2, <2>6, <2>7, <2>8 DEF TakenFrom
<1>3. QED
  BY <1>1, <1>2

(* What Among returns. *)
LEMMA AmongTakes ==
  ASSUME NEW T, NEW seq \in Seq(T), NEW S
  PROVE  Among(seq, S) \in Seq(T) /\ TakenFrom(seq, S, Len(seq), Among(seq, S))
<1> DEFINE n == Len(seq)
<1>1. n \in Nat
  OBVIOUS
<1>2. PICK upto :
        /\ upto = [i \in 0..n |->
                     IF i = 0 THEN <<>> ELSE AmongStep(seq, S, i, upto[i - 1])]
        /\ Among(seq, S) = upto[n]
  BY <1>1, AmongIsALoop
<1>3. upto[0] = <<>> /\ \A i \in 1..n : upto[i] = AmongStep(seq, S, i, upto[i - 1])
  BY <1>1, <1>2
<1> DEFINE Good == {i \in Nat : i <= n => upto[i] \in Seq(T) /\ TakenFrom(seq, S, i, upto[i])}
<1>4. 0 \in Good
  <2>1. TakenFrom(seq, S, 0, <<>>)
    BY DEF TakenFrom
  <2>2. upto[0] \in Seq(T) /\ TakenFrom(seq, S, 0, upto[0])
    BY <1>3, <2>1
  <2>3. QED
    BY <2>2
<1>5. ASSUME NEW i \in Nat, i \in Good PROVE i + 1 \in Good
  <2>1. SUFFICES ASSUME i + 1 <= n
                 PROVE  upto[i + 1] \in Seq(T) /\ TakenFrom(seq, S, i + 1, upto[i + 1])
    OBVIOUS
  <2>2. i + 1 \in 1..n /\ (i + 1) - 1 = i /\ i <= n
    BY <1>1, <2>1
  <2>3. upto[i] \in Seq(T) /\ TakenFrom(seq, S, (i + 1) - 1, upto[i])
    BY <1>5, <2>2
  <2> HIDE DEF n
  <2>4. QED
    BY <1>3, <2>2, <2>3, AmongStepTakes DEF n
<1>6. n \in Good
  <2> HIDE DEF Good, n
  <2>1. QED
    BY <1>1, <1>4, <1>5, Induction
<1>7. QED
  BY <1>1, <1>2, <1>6

-----------------------------------------------------------------------------
(* Sets of numbers, names and entries. *)

LEMMA FiniteHasBounds ==
  ASSUME NEW S, IsFiniteSet(S), S # {}, S \subseteq Int
  PROVE  \E low \in S, high \in S : \A x \in S : low <= x /\ x <= high
<1> DEFINE Bounded(T) == \E low \in T, high \in T : \A x \in T : low <= x /\ x <= high
           Good == {k \in Nat : \A T \in SUBSET S :
                      IsFiniteSet(T) /\ Cardinality(T) = k + 1 => Bounded(T)}
<1>1. 0 \in Good
  <2>1. SUFFICES ASSUME NEW T \in SUBSET S, IsFiniteSet(T), Cardinality(T) = 0 + 1
                 PROVE  Bounded(T)
    OBVIOUS
  <2>2. PICK x : T = {x}
    BY <2>1, FS_Singleton
  <2>3. x \in Int
    BY <2>2
  <2>4. QED
    BY <2>2, <2>3
<1>2. ASSUME NEW k \in Nat, k \in Good PROVE k + 1 \in Good
  <2>1. SUFFICES ASSUME NEW T \in SUBSET S, IsFiniteSet(T),
                        Cardinality(T) = (k + 1) + 1
                 PROVE  Bounded(T)
    OBVIOUS
  <2>2. T # {}
    BY <2>1, FS_EmptySet
  <2>3. PICK x \in T : TRUE
    BY <2>2
  <2>4. /\ T \ {x} \in SUBSET S /\ IsFiniteSet(T \ {x})
        /\ Cardinality(T \ {x}) = k + 1
    BY <2>1, FS_RemoveElement
  <2>5. PICK low \in T \ {x}, high \in T \ {x} :
          \A y \in T \ {x} : low <= y /\ y <= high
    BY <1>2, <2>4
  <2>6. x \in Int /\ low \in Int /\ high \in Int /\ T \subseteq Int
    OBVIOUS
  <2>7. \A y \in T : y \in Int /\ (y = x \/ (low <= y /\ y <= high))
    BY <2>5, <2>6
  <2>8. low <= high /\ low \in T /\ high \in T
    BY <2>5, <2>6
  <2>9. CASE x <= low
    <3>1. \A y \in T : x <= y /\ y <= high
      BY <2>6, <2>7, <2>8, <2>9
    <3>2. QED
      BY <2>8, <3>1
  <2>10. CASE high <= x
    <3>1. \A y \in T : low <= y /\ y <= x
      BY <2>6, <2>7, <2>8, <2>10
    <3>2. QED
      BY <2>8, <3>1
  <2>11. CASE low <= x /\ x <= high
    <3>1. \A y \in T : low <= y /\ y <= high
      BY <2>6, <2>7, <2>11
    <3>2. QED
      BY <2>8, <3>1
  <2>12. QED
    BY <2>6, <2>9, <2>10, <2>11
<1>3. Cardinality(S) \in Nat /\ Cardinality(S) # 0
  BY FS_CardinalityType, FS_EmptySet
<1>4. Cardinality(S) - 1 \in Nat
  BY <1>3
<1>5. Cardinality(S) - 1 \in Good
  <2> HIDE DEF Good
  <2>1. QED
    BY <1>1, <1>2, <1>4, Induction
<1>6. (Cardinality(S) - 1) + 1 = Cardinality(S)
  BY <1>3
<1>7. QED
  BY <1>5, <1>6

LEMMA MinMax ==
  ASSUME NEW S, IsFiniteSet(S), S # {}, S \subseteq Int
  PROVE  /\ Min(S) \in S /\ \A x \in S : Min(S) <= x
         /\ Max(S) \in S /\ \A x \in S : x <= Max(S)
<1>1. PICK low \in S, high \in S : \A x \in S : low <= x /\ x <= high
  BY FiniteHasBounds
<1>2. Min(S) \in S /\ \A x \in S : Min(S) <= x
  BY <1>1 DEF Min
<1>3. Max(S) \in S /\ \A x \in S : Max(S) >= x
  <2>1. high \in S /\ \A x \in S : high >= x
    BY <1>1
  <2>2. QED
    BY <2>1 DEF Max
<1>4. QED
  BY <1>2, <1>3

WellLimited(l) == l.min \in Int /\ l.max \in Int /\ l.min <= l.max

LEMMA CameraLimits ==
  ASSUME NEW s \in Settings, NEW n \in Nodes
  PROVE  WellLimited(LimitsIn(s, n))
<1>1. IsFiniteSet(Values(s, n)) /\ Values(s, n) # {} /\ Values(s, n) \subseteq Int
  BY CameraAssumption
<1>2. QED
  BY <1>1, MinMax DEF WellLimited, LimitsIn

AnyEntry == Int \union {NoEntry}

LEMMA EntriesTyped ==
  ASSUME NEW n \in Nodes
  PROVE  Entries(n) \in Seq(AnyEntry)
<1>1. CASE Node[n].selectors = <<>> \/ IsUnsupported(Node[n].selectors[1])
  <2>1. Entries(n) = <<NoEntry>>
    BY <1>1 DEF Entries
  <2>2. <<NoEntry>> \in Seq(AnyEntry)
    BY DEF AnyEntry
  <2>3. QED
    BY <2>1, <2>2
<1>2. CASE ~(Node[n].selectors = <<>> \/ IsUnsupported(Node[n].selectors[1]))
  <2> DEFINE selector == Node[n].selectors[1]
  <2>1. selector \in Nodes
    BY <1>2, NodeMapAssumption
  <2>2. Node[selector].entries \in Seq(Int)
    BY <2>1, NodeMapAssumption
  <2>3. SelectorEntries(selector) \in Seq(Int)
    BY <2>2, AmongTakes DEF SelectorEntries
  <2>4. SelectorEntries(selector) \in Seq(AnyEntry)
    BY <2>3 DEF AnyEntry
  <2>5. <<NoEntry>> \in Seq(AnyEntry)
    BY DEF AnyEntry
  <2>6. Entries(n) \in {<<NoEntry>>, SelectorEntries(selector)}
    BY <1>2 DEF Entries
  <2>7. QED
    BY <2>4, <2>5, <2>6
<1>3. QED
  BY <1>1, <1>2

Handled(n) == n \in Nodes /\ IsInstallable(n) /\ ~SelectorsRefused(n)

LEMMA NamesAre ==
  /\ \A n, e : <<n, e>> \in Names <=> Handled(n) /\ e \in ToSet(Entries(n))
  /\ \A name \in Names : name = <<name[1], name[2]>>
BY DEF Names, Handled

-----------------------------------------------------------------------------
(* Type correctness. The camera only ever has settings it can have, every  *)
(* pair of limits that is measured, cached or read from the cache is in    *)
(* order, and the entries left of a node are entries it has.               *)

CameraOK == settings \in Settings /\ locked \in {0, 1} /\ failures \in 0..MaxFailures

(* The smallest of what was measured is never above the largest.           *)
Measured ==
  /\ IsFiniteSet(mins) /\ mins \subseteq Int
  /\ IsFiniteSet(maxs) /\ maxs \subseteq Int
  /\ mins # {} => \E low \in mins, high \in maxs : low <= high

SearchOK ==
  /\ order \in Orders
  /\ search \in {"idle", "apply", "reset"}
  /\ search # "idle" => target \in Nodes
  /\ step \in Nat /\ position \in Nat \ {0}
  /\ Measured
  /\ WellLimited(limits)

NumericPhases == {"lookup", "limits", "store"}
EntryPhases == NumericPhases \union {"access", "unlock", "make"}

WalkOK ==
  /\ phase \in Phases
  /\ worklist \in Seq(Nodes) /\ node \in Nodes
  /\ nprop \in Nat \ {0}
  /\ entries \in Seq(AnyEntry)
  /\ \A e \in ToSet(entries) : <<node, e>> \in Names
  /\ phase \in EntryPhases => entries # <<>>
  /\ phase \in NumericPhases => IsNumeric(node)
  /\ phase \in {"next", "install"} => entries = <<>>

CacheNames == {CacheName(m[1], m[2]) : m \in NumericNames}
Cached(map) ==
  DOMAIN map \subseteq CacheNames /\ \A name \in DOMAIN map : WellLimited(map[name].limits)

CacheOK == Cached(dict) /\ Cached(file) /\ Cached(foreign) /\ modified \in BOOLEAN

HistoryOK == sessions \in 0..MaxSessions /\ clean \in BOOLEAN /\ skipped \subseteq Names

TypeInv == CameraOK /\ SearchOK /\ WalkOK /\ CacheOK /\ HistoryOK

LEMMA TypeInvImpliesTypeOK == TypeInv => TypeOK
BY DEF TypeInv, TypeOK, CameraOK, SearchOK, WalkOK, CacheOK, HistoryOK, Cached, CacheNames,
       WellLimited

LEMMA TypeInvInitially == Init => TypeInv
<1> SUFFICES ASSUME Init PROVE TypeInv
  OBVIOUS
<1>1. CameraOK
  BY CameraAssumption DEF Init, CameraOK
<1>2. SearchOK
  BY FS_EmptySet DEF Init, InitSearch, SearchOK, Measured, WellLimited, NoLimits
<1>3. WalkOK
  BY NodeMapAssumption
     DEF Init, WalkOK, Phases, NumericPhases, EntryPhases, ToSet
<1>4. CacheOK
  <2>1. Cached(<<>>)
    BY DEF Cached
  <2>2. QED
    BY <2>1 DEF Init, CacheOK
<1>5. HistoryOK
  BY NamesAssumption DEF Init, HistoryOK
<1>6. QED
  BY <1>1, <1>2, <1>3, <1>4, <1>5 DEF TypeInv

(* The entry being installed. *)
LEMMA EntryIsNamed ==
  ASSUME WalkOK, entries # <<>>
  PROVE  /\ Entry \in AnyEntry /\ <<node, Entry>> \in Names
         /\ Tail(entries) \in Seq(AnyEntry) /\ ToSet(Tail(entries)) \subseteq ToSet(entries)
<1>1. entries \in Seq(AnyEntry) /\ Len(entries) > 0
  BY DEF WalkOK
<1>2. Entry = entries[1] /\ 1 \in DOMAIN entries
  BY <1>1 DEF Entry
<1>3. Entry \in ToSet(entries)
  BY <1>2 DEF ToSet
<1>4. /\ Tail(entries) \in Seq(AnyEntry)
      /\ \A i \in DOMAIN Tail(entries) :
           i + 1 \in DOMAIN entries /\ Tail(entries)[i] = entries[i + 1]
  BY <1>1
<1>5. ToSet(Tail(entries)) \subseteq ToSet(entries)
  BY <1>4 DEF ToSet
<1>6. Entry \in AnyEntry
  BY <1>1, <1>2
<1>7. QED
  BY <1>3, <1>4, <1>5, <1>6 DEF WalkOK

LEMMA SelectKeepsSettings ==
  ASSUME CameraOK, WalkOK, entries # <<>>
  PROVE  SelectEntry(node) \in Settings
<1>1. <<node, Entry>> \in Names
  BY EntryIsNamed
<1>2. CASE IsNumeric(node) /\ Selected
  <2>1. [settings EXCEPT ![Selector(node)] = Entry] \in Settings
    <3>1. Entry # NoEntry
      BY <1>2 DEF Selected
    <3>2. QED
      BY <1>1, <3>1, NamesAssumption DEF CameraOK
  <2>2. QED
    BY <1>2, <2>1 DEF SelectEntry
<1>3. CASE ~(IsNumeric(node) /\ Selected)
  BY <1>3 DEF SelectEntry, CameraOK
<1>4. QED
  BY <1>2, <1>3

LEMMA WriteKeepsSettings ==
  ASSUME CameraOK, NEW n, NEW v, Write(n, v), UNCHANGED locked
  PROVE  CameraOK'
<1>1. settings \in [DOMAIN PowerOn -> Int]
  BY CameraAssumption DEF CameraOK
<1>2. Accepts(n, v) => [settings EXCEPT ![n] = v] \in Settings
  <2>1. SUFFICES ASSUME Accepts(n, v) PROVE [settings EXCEPT ![n] = v] \in Settings
    OBVIOUS
  <2>2. CASE n \in DOMAIN PowerOn
    BY <2>1, <2>2, CameraAssumption DEF Accepts, CameraOK
  <2>3. CASE n \notin DOMAIN PowerOn
    <3>1. [settings EXCEPT ![n] = v] = settings
      BY <1>1, <2>3
    <3>2. QED
      BY <3>1 DEF CameraOK
  <2>4. QED
    BY <2>2, <2>3
<1>3. settings' \in Settings /\ failures' \in 0..MaxFailures
  BY <1>2, CameraAssumption DEF Write, CameraOK
<1>4. QED
  BY <1>3 DEF CameraOK

LEMMA CameraFrame ==
  [Next]_vars => \/ Start \/ BeginEntry \/ QueryAccess \/ Unlock
                 \/ phase = "limits" /\ ApplyExtreme
                 \/ phase = "limits" /\ ResetValue
                 \/ EntryThrows
                 \/ UNCHANGED <<camera, failures>>
BY DEF Next, vars, Walk, NextNode, LookUp, FindLimits, LimitsDirect, LimitsKnown, Search,
       SaveSettings, MeasureLimits, TakeExtremes, FinishSearch, SearchEnds, SearchCrashes,
       StoreProps, MakeSpec, FinishNode, InstallSpec, Finish, Crash, ForeignLoads,
       ForeignSaves, camera, searching

LEMMA CameraPreserved == CameraOK /\ WalkOK /\ [Next]_vars => CameraOK'
<1> SUFFICES ASSUME CameraOK, WalkOK, [Next]_vars PROVE CameraOK'
  OBVIOUS
<1>1. CASE Start
  BY <1>1, CameraAssumption DEF Start, CameraOK
<1>2. CASE BeginEntry
  BY <1>2, SelectKeepsSettings DEF BeginEntry, CameraOK
<1>3. CASE QueryAccess \/ Unlock
  BY <1>3 DEF QueryAccess, Unlock, CameraOK
<1>4. CASE ApplyExtreme
  BY <1>4, WriteKeepsSettings DEF ApplyExtreme
<1>5. CASE ResetValue
  BY <1>5, WriteKeepsSettings DEF ResetValue
<1>6. CASE EntryThrows
  BY <1>6, CameraAssumption DEF EntryThrows, CameraOK, camera
<1>7. CASE UNCHANGED <<camera, failures>>
  BY <1>7 DEF CameraOK, camera
<1>8. QED
  BY <1>1, <1>2, <1>3, <1>4, <1>5, <1>6, <1>7, CameraFrame

LEMMA SearchFrame ==
  [Next]_vars => \/ Start \/ LookUp \/ FindLimits
                 \/ phase = "limits" /\ (\/ SaveSettings(node) \/ ApplyExtreme
                                         \/ MeasureLimits \/ TakeExtremes \/ ResetValue)
                 \/ FinishSearch \/ EntryThrows
                 \/ UNCHANGED searching
BY DEF Next, vars, Walk, NextNode, BeginEntry, QueryAccess, Unlock, Search, SearchCrashes,
       StoreProps, MakeSpec, FinishNode, InstallSpec, Finish, Crash, ForeignLoads,
       ForeignSaves

LEMMA SearchPreserved ==
  CameraOK /\ WalkOK /\ CacheOK /\ SearchOK /\ [Next]_vars => SearchOK'
<1> SUFFICES ASSUME CameraOK, WalkOK, CacheOK, SearchOK, [Next]_vars PROVE SearchOK'
  OBVIOUS
<1>1. CASE Start
  BY <1>1, FS_EmptySet DEF Start, SearchOK, Measured, WellLimited, NoLimits
<1>2. CASE LookUp
  <2>1. WellLimited(limits')
    BY <1>2 DEF LookUp, CacheOK, Cached, SearchOK
  <2>2. QED
    BY <1>2, <2>1 DEF LookUp, SearchOK, Measured
<1>3. CASE FindLimits
  <2>1. WellLimited(limits')
    <3>1. CASE LimitsDirect(node)
      BY <3>1, CameraLimits DEF LimitsDirect, CameraOK, WalkOK
    <3>2. CASE LimitsKnown(node)
      BY <3>2, NodeMapAssumption DEF LimitsKnown, WellLimited, WalkOK
    <3>3. QED
      BY <1>3, <3>1, <3>2 DEF FindLimits
  <2>2. QED
    BY <1>3, <2>1 DEF FindLimits, LimitsDirect, LimitsKnown, SearchOK, Measured
<1>4. CASE SaveSettings(node)
  BY <1>4, FS_EmptySet DEF SaveSettings, SearchOK, Measured, WalkOK
<1>5. CASE ApplyExtreme
  BY <1>5 DEF ApplyExtreme, SearchOK, Measured
<1>6. CASE MeasureLimits
  <2>1. WellLimited(LimitsIn(settings, target))
    BY <1>6, CameraLimits DEF MeasureLimits, SearchOK, CameraOK
  <2> DEFINE low == LimitsIn(settings, target).min
             high == LimitsIn(settings, target).max
  <2>2. low \in Int /\ high \in Int /\ low <= high
    BY <2>1 DEF WellLimited
  <2>3. mins' = mins \union {low} /\ maxs' = maxs \union {high}
    BY <1>6 DEF MeasureLimits
  <2> HIDE DEF low, high
  <2>4. IsFiniteSet(mins') /\ IsFiniteSet(maxs')
    BY <2>3, FS_AddElement DEF SearchOK, Measured
  <2>5. Measured'
    BY <2>2, <2>3, <2>4 DEF SearchOK, Measured
  <2>6. QED
    BY <1>6, <2>5 DEF MeasureLimits, SearchOK
<1>7. CASE TakeExtremes
  <2>1. PICK low \in mins, high \in maxs : low <= high
    BY <1>7 DEF TakeExtremes, SearchOK, Measured
  <2>2. /\ Min(mins) \in Int /\ Max(maxs) \in Int /\ low \in Int /\ high \in Int
        /\ Min(mins) <= low /\ high <= Max(maxs)
    BY <2>1, MinMax DEF SearchOK, Measured
  <2>3. limits' = [min |-> Min(mins), max |-> Max(maxs)]
    BY <1>7 DEF TakeExtremes
  <2>4. WellLimited(limits')
    BY <2>1, <2>2, <2>3 DEF WellLimited
  <2>5. QED
    BY <1>7, <2>4 DEF TakeExtremes, SearchOK, Measured
<1>8. CASE ResetValue
  BY <1>8 DEF ResetValue, SearchOK, Measured
<1>9. CASE FinishSearch
  BY <1>9 DEF FinishSearch, SearchEnds, SearchOK, Measured
<1>10. CASE EntryThrows
  BY <1>10 DEF EntryThrows, SearchThrows, SearchOK, Measured
<1>11. CASE UNCHANGED searching
  BY <1>11 DEF searching, SearchOK, Measured
<1>12. QED
  BY <1>1, <1>2, <1>3, <1>4, <1>5, <1>6, <1>7, <1>8, <1>9, <1>10, <1>11, SearchFrame

-----------------------------------------------------------------------------
(* What the reference says of a number is a pair of limits in order.       *)

LEMMA SelectorIsNamed ==
  ASSUME NEW name \in Names, name[2] # NoEntry
  PROVE  Selector(name[1]) \in ToSet(Node[name[1]].selectors)
<1>1. name[1] \in Nodes /\ name[2] \in ToSet(Entries(name[1]))
  BY NamesAre DEF Handled
<1>2. Node[name[1]].selectors \in Seq(Nodes)
  BY <1>1, NodeMapAssumption
<1>3. Node[name[1]].selectors # <<>>
  <2>1. ToSet(<<NoEntry>>) = {NoEntry}
    BY DEF ToSet
  <2>2. QED
    BY <1>1, <2>1 DEF Entries
<1>4. 1 \in DOMAIN Node[name[1]].selectors
  BY <1>2, <1>3
<1>5. QED
  BY <1>4 DEF ToSet, Selector

(* The camera with the selector of an entry moved: no control is. *)
LEMMA SettingsForEntry ==
  ASSUME NEW name \in Names
  PROVE  /\ SettingsFor(name[1], name[2]) \in Settings
         /\ \A c \in Controlling : SettingsFor(name[1], name[2])[c] = PowerOn[c]
<1>1. CASE name[2] = NoEntry
  BY <1>1, CameraAssumption DEF SettingsFor
<1>2. CASE name[2] # NoEntry
  <2> DEFINE s == [PowerOn EXCEPT ![Selector(name[1])] = name[2]]
  <2>1. SettingsFor(name[1], name[2]) = s
    BY <1>2 DEF SettingsFor
  <2>2. s \in Settings
    BY <1>2, NamesAssumption, CameraAssumption
  <2>3. Selector(name[1]) \notin Controlling
    BY <1>2, SelectorIsNamed, ControlsAssumption, NamesAre DEF Handled
  <2>4. \A c \in Controlling : s[c] = PowerOn[c]
    BY <2>3, CameraAssumption, ControlsAssumption
  <2>5. QED
    BY <2>1, <2>2, <2>4
<1>3. QED
  BY <1>1, <1>2

LEMMA SettingsOfEntry ==
  ASSUME NEW name \in Names
  PROVE  /\ SettingsFor(name[1], name[2]) \in SettingsOf(name[1], name[2])
         /\ IsFiniteSet(SettingsOf(name[1], name[2]))
<1> DEFINE n == name[1]
           s == SettingsFor(n, name[2])
<1>1. n \in Nodes
  BY NamesAre DEF Handled
<1>2. s \in Settings /\ \A c \in Controlling : s[c] = PowerOn[c]
  BY SettingsForEntry
<1>3. \A c \in Controls[n] : c \in Controlling
  BY <1>1 DEF Controlling
<1> HIDE DEF s
<1>4. \A c \in Controls[n] : s[c] \in Values(s, c)
  BY <1>1, <1>2, <1>3, ControlsAssumption
<1>5. s \in SettingsOf(n, name[2])
  BY <1>2, <1>4 DEF SettingsOf, s
<1>6. IsFiniteSet(SettingsOf(n, name[2]))
  BY CameraAssumption, FS_Subset DEF SettingsOf
<1>7. QED
  BY <1>5, <1>6 DEF s

(* The limits of a feature over some of the settings that count. *)
LEMMA LimitsOfSome ==
  ASSUME NEW n \in Nodes, NEW S, S \subseteq Settings, S # {}
  PROVE  LET lows == {LimitsIn(s, n).min : s \in S}
             highs == {LimitsIn(s, n).max : s \in S}
         IN  /\ IsFiniteSet(lows) /\ lows # {} /\ lows \subseteq Int
             /\ IsFiniteSet(highs) /\ highs # {} /\ highs \subseteq Int
             /\ \E low \in lows, high \in highs : low <= high
<1> DEFINE Lows == {LimitsIn(s, n).min : s \in S}
           Highs == {LimitsIn(s, n).max : s \in S}
<1>2. IsFiniteSet(S)
  BY CameraAssumption, FS_Subset
<1>4. \A s \in S : WellLimited(LimitsIn(s, n))
  BY CameraLimits
<1>5. IsFiniteSet(Lows)
  <2> DEFINE f == [s \in S |-> LimitsIn(s, n).min]
  <2>1. f \in Surjection(S, Lows)
    BY DEF Surjection
  <2>2. QED
    BY <1>2, <2>1, FS_Surjection
<1>6. IsFiniteSet(Highs)
  <2> DEFINE f == [s \in S |-> LimitsIn(s, n).max]
  <2>1. f \in Surjection(S, Highs)
    BY DEF Surjection
  <2>2. QED
    BY <1>2, <2>1, FS_Surjection
<1>7. Lows # {} /\ Lows \subseteq Int /\ Highs # {} /\ Highs \subseteq Int
  BY <1>4 DEF WellLimited
<1>8. \E low \in Lows, high \in Highs : low <= high
  <2>1. PICK s \in S : TRUE
    OBVIOUS
  <2>2. WellLimited(LimitsIn(s, n))
    BY <1>4
  <2>3. LimitsIn(s, n).min \in Lows /\ LimitsIn(s, n).max \in Highs
    BY <2>1
  <2>4. QED
    BY <2>2, <2>3 DEF WellLimited
<1>9. QED
  BY <1>5, <1>6, <1>7, <1>8

LEMMA LimitsOverTyped ==
  ASSUME NEW n \in Nodes, NEW S, S \subseteq Settings, S # {}
  PROVE  WellLimited(LimitsOver(S, n))
<1> DEFINE Lows == {LimitsIn(s, n).min : s \in S}
           Highs == {LimitsIn(s, n).max : s \in S}
<1>1. /\ IsFiniteSet(Lows) /\ Lows # {} /\ Lows \subseteq Int
      /\ IsFiniteSet(Highs) /\ Highs # {} /\ Highs \subseteq Int
      /\ \E low \in Lows, high \in Highs : low <= high
  BY LimitsOfSome
<1>2. LimitsOver(S, n) = [min |-> Min(Lows), max |-> Max(Highs)]
  BY DEF LimitsOver
<1> HIDE DEF Lows, Highs
<1>3. PICK low \in Lows, high \in Highs : low <= high
  BY <1>1
<1>4. /\ Min(Lows) \in Lows /\ Min(Lows) <= low
      /\ Max(Highs) \in Highs /\ high <= Max(Highs)
  BY <1>1, <1>3, MinMax
<1>5. /\ Min(Lows) \in Int /\ Max(Highs) \in Int /\ low \in Int /\ high \in Int
  BY <1>1, <1>3, <1>4
<1>6. Min(Lows) <= Max(Highs)
  BY <1>3, <1>4, <1>5
<1>7. QED
  BY <1>2, <1>5, <1>6 DEF WellLimited

LEMMA RightLimitsTyped ==
  ASSUME NEW name \in Names, NEW l \in RightLimits(name[1], name[2])
  PROVE  WellLimited(l)
<1>1. name[1] \in Nodes /\ SettingsOf(name[1], name[2]) # {}
  BY NamesAre, SettingsOfEntry DEF Handled
<1>2. SettingsOf(name[1], name[2]) \subseteq Settings
  BY DEF SettingsOf
<1>3. CASE CornersTell(name[1], name[2])
  <2>1. l = LimitsOver(SettingsOf(name[1], name[2]), name[1])
    BY <1>3 DEF RightLimits, TrueLimits
  <2>2. QED
    BY <1>1, <1>2, <2>1, LimitsOverTyped
<1>4. CASE ~CornersTell(name[1], name[2])
  <2>1. RightLimits(name[1], name[2])
          = {LimitsOver(S, name[1]) : S \in (SUBSET SettingsOf(name[1], name[2])) \ {{}}}
    BY <1>4 DEF RightLimits
  <2>2. PICK S \in (SUBSET SettingsOf(name[1], name[2])) \ {{}} : l = LimitsOver(S, name[1])
    BY <2>1
  <2>3. S \subseteq Settings /\ S # {}
    BY <1>2, <2>2
  <2>4. QED
    BY <1>1, <2>2, <2>3, LimitsOverTyped
<1>5. QED
  BY <1>3, <1>4

(* What the reference says of a number, and of what it says it. *)
LEMMA TruthHas ==
  ASSUME NEW name, NEW props, <<name, props>> \in Truth
  PROVE  /\ name \in NumericNames
         /\ props.limits \in RightLimits(name[1], name[2])
         /\ props.flags = TrueAccess(name[1], name[2])
BY DEF Truth

LEMMA TruthOf ==
  ASSUME NEW name \in NumericNames, NEW l \in RightLimits(name[1], name[2])
  PROVE  <<name, [limits |-> l, flags |-> TrueAccess(name[1], name[2])]>> \in Truth
BY DEF Truth

LEMMA TruthTyped ==
  ASSUME NEW known \in Truth
  PROVE  /\ known = <<known[1], known[2]>>
         /\ known[1] \in NumericNames /\ WellLimited(known[2].limits)
<1>1. known = <<known[1], known[2]>>
  BY DEF Truth
<1>2. known[1] \in NumericNames /\ known[2].limits \in RightLimits(known[1][1], known[1][2])
  BY <1>1, TruthHas
<1>3. QED
  BY <1>1, <1>2, RightLimitsTyped DEF NumericNames

-----------------------------------------------------------------------------

LEMMA WalkFrame ==
  [Next]_vars => \/ Start \/ NextNode \/ BeginEntry \/ LookUp \/ QueryAccess \/ Unlock
                 \/ FindLimits \/ FinishSearch \/ SearchCrashes
                 \/ StoreProps \/ MakeSpec \/ EntryThrows
                 \/ FinishNode \/ InstallSpec \/ Finish \/ Crash
                 \/ UNCHANGED walk
BY DEF Next, vars, Walk, Search, ForeignLoads, ForeignSaves

LEMMA WalkPreserved == WalkOK /\ [Next]_vars => WalkOK'
<1> SUFFICES ASSUME WalkOK, [Next]_vars PROVE WalkOK'
  OBVIOUS
<1> USE DEF Phases, NumericPhases, EntryPhases
<1>1. CASE Start
  BY <1>1, NodeMapAssumption DEF Start, WalkOK, ToSet
<1>2. CASE NextNode
  <2> DEFINE n == Head(worklist)
             more == IF IsWalked(n) THEN Node[n].children ELSE <<>>
             handled == IsInstallable(n) /\ ~SelectorsRefused(n)
  <2>1. worklist \in Seq(Nodes) /\ worklist # <<>>
    BY <1>2 DEF NextNode, WalkOK
  <2>2. n \in Nodes /\ Tail(worklist) \in Seq(Nodes)
    BY <2>1
  <2>3. more \in Seq(Nodes)
    BY <2>2, NodeMapAssumption
  <2>4. /\ worklist' = Tail(worklist) \o more /\ node' = n
        /\ phase' = IF handled THEN "entry" ELSE "next"
        /\ entries' = IF handled THEN Entries(n) ELSE <<>>
        /\ nprop' = nprop
    BY <1>2 DEF NextNode
  <2>5. worklist' \in Seq(Nodes) /\ node' \in Nodes
    BY <2>2, <2>3, <2>4
  <2>6. handled => Handled(n)
    BY <2>2 DEF Handled
  <2>7. entries' \in Seq(AnyEntry)
    BY <2>2, <2>4, EntriesTyped
  <2>8. \A e \in ToSet(entries') : <<node', e>> \in Names
    <3>1. CASE handled
      BY <2>4, <2>6, <3>1, NamesAre
    <3>2. CASE ~handled
      BY <2>4, <3>2 DEF ToSet
    <3>3. QED
      BY <3>1, <3>2
  <2> HIDE DEF n, more, handled
  <2>9. QED
    BY <2>4, <2>5, <2>7, <2>8 DEF WalkOK
<1>3. CASE BeginEntry
  BY <1>3 DEF BeginEntry, WalkOK
<1>4. CASE LookUp
  BY <1>4 DEF LookUp, WalkOK
<1>5. CASE QueryAccess
  BY <1>5 DEF QueryAccess, AfterAccess, WalkOK
<1>6. CASE Unlock
  BY <1>6 DEF Unlock, AfterAccess, WalkOK
<1>7. CASE FindLimits
  BY <1>7 DEF FindLimits, WalkOK
<1>8. CASE FinishSearch
  BY <1>8 DEF FinishSearch, WalkOK
<1>9. CASE SearchCrashes
  BY <1>9 DEF SearchCrashes, walk, WalkOK
<1>10. CASE StoreProps
  BY <1>10 DEF StoreProps, WalkOK
<1>11. CASE MakeSpec
  BY <1>11, EntryIsNamed DEF MakeSpec, WalkOK
<1>12. CASE EntryThrows
  BY <1>12, EntryIsNamed DEF EntryThrows, WalkOK
<1>13. CASE FinishNode
  BY <1>13 DEF FinishNode, WalkOK
<1>14. CASE InstallSpec
  BY <1>14 DEF InstallSpec, WalkOK
<1>15. CASE Finish
  BY <1>15 DEF Finish, WalkOK
<1>16. CASE Crash
  BY <1>16 DEF Crash, WalkOK
<1>17. CASE UNCHANGED walk
  BY <1>17 DEF walk, WalkOK
<1>18. QED
  BY <1>1, <1>2, <1>3, <1>4, <1>5, <1>6, <1>7, <1>8, <1>9, <1>10, <1>11, <1>12, <1>13, <1>14,
     <1>15, <1>16, <1>17, WalkFrame

LEMMA CachePreserved == SearchOK /\ WalkOK /\ CacheOK /\ [Next]_vars => CacheOK'
<1> SUFFICES ASSUME SearchOK, WalkOK, CacheOK, [Next]_vars PROVE CacheOK'
  OBVIOUS
<1>1. CASE Start
  BY <1>1 DEF Start, LoadCacheFile, CacheOK, Cached
<1>2. CASE StoreProps
  <2>1. <<node, Entry>> \in NumericNames
    BY <1>2, EntryIsNamed DEF StoreProps, WalkOK, NumericPhases, EntryPhases, NumericNames
  <2>2. CacheName(node, Entry) \in CacheNames
    BY <2>1 DEF CacheNames
  <2>3. Cached(dict')
    BY <1>2, <2>2 DEF StoreProps, Stored, Cached, CacheOK, SearchOK, WellLimited
  <2>4. QED
    BY <1>2, <2>3 DEF StoreProps, CacheOK, Cached
<1>3. CASE Finish
  BY <1>3 DEF Finish, SavedFile, CacheOK, Cached
<1>4. CASE ForeignLoads
  BY <1>4 DEF ForeignLoads, CacheOK, Cached
<1>5. CASE ForeignSaves
  <2>1. PICK known \in Truth :
          /\ known[1] \in ForeignNames
          /\ file' = Stored(foreign, known[1], known[2])
          /\ foreign' = file' /\ UNCHANGED <<dict, modified>>
    BY <1>5 DEF ForeignSaves
  <2>2. known[1] \in CacheNames
    <3>1. known[1] \in OwnNames
      BY <2>1, NamesAssumption
    <3>2. known[1] \in NumericNames /\ known[1] = <<known[1][1], known[1][2]>>
      BY <3>1, NamesAre DEF OwnNames, NumericNames
    <3>3. CacheName(known[1][1], known[1][2]) = known[1]
      BY <3>1, <3>2 DEF CacheName, OwnNames
    <3>4. QED
      BY <3>2, <3>3 DEF CacheNames
  <2>3. Cached(file')
    BY <2>1, <2>2, TruthTyped DEF Stored, Cached, CacheOK
  <2>4. QED
    BY <2>1, <2>3 DEF CacheOK, Cached
<1>6. CASE UNCHANGED cache
  BY <1>6 DEF cache, CacheOK, Cached
<1>7. Start \/ StoreProps \/ Finish \/ ForeignLoads \/ ForeignSaves \/ UNCHANGED cache
  BY DEF Next, vars, Walk, NextNode, BeginEntry, LookUp, QueryAccess, Unlock, FindLimits,
         Search, FinishSearch, SearchCrashes, MakeSpec, EntryThrows, FinishNode,
         InstallSpec, Crash
<1>8. QED
  BY <1>1, <1>2, <1>3, <1>4, <1>5, <1>6, <1>7

LEMMA HistoryPreserved == WalkOK /\ HistoryOK /\ [Next]_vars => HistoryOK'
<1> SUFFICES ASSUME WalkOK, HistoryOK, [Next]_vars PROVE HistoryOK'
  OBVIOUS
<1>1. CASE Start
  BY <1>1, NamesAssumption DEF Start, HistoryOK
<1>2. CASE MakeSpec
  BY <1>2, EntryIsNamed DEF MakeSpec, HistoryOK, WalkOK, EntryPhases
<1>3. CASE EntryThrows
  BY <1>3, EntryIsNamed DEF EntryThrows, HistoryOK
<1>4. CASE Search
  BY <1>4 DEF Search, HistoryOK
<1>5. CASE UNCHANGED history
  BY <1>5 DEF history, HistoryOK
<1>6. Start \/ MakeSpec \/ EntryThrows \/ Search \/ UNCHANGED history
  BY DEF Next, vars, Walk, NextNode, BeginEntry, LookUp, QueryAccess, Unlock, FindLimits,
         StoreProps, FinishSearch, SearchCrashes, FinishNode, Finish,
         InstallSpec, Crash, ForeignLoads, ForeignSaves
<1>7. QED
  BY <1>1, <1>2, <1>3, <1>4, <1>5, <1>6

LEMMA TypeInvPreserved == TypeInv /\ [Next]_vars => TypeInv'
BY CameraPreserved, SearchPreserved, WalkPreserved, CachePreserved, HistoryPreserved DEF TypeInv

LEMMA TypeInvHolds == Spec => []TypeInv
BY TypeInvInitially, TypeInvPreserved, PTL DEF Spec

(* The types of the walk: whatever fails, is locked or is cached, the      *)
(* camera has settings it can have, limits are never the wrong way round,  *)
(* and the cache has entries of numbers only.                              *)
THEOREM TypeCorrect == Spec => []TypeOK
BY TypeInvHolds, TypeInvImpliesTypeOK, PTL

-----------------------------------------------------------------------------
(* The camera gets its values back. Until the search writes them back,     *)
(* only the controls it drives may have others than at first, and it goes  *)
(* through them in an order in which none is locked by one that comes      *)
(* later.                                                                  *)

SavedControls(n) ==
  [i \in DOMAIN ControlsInOrder(n) |->
     [node |-> ControlsInOrder(n)[i], value |-> PowerOn[ControlsInOrder(n)[i]]]]

(* The controls that may be away from their first values. *)
Moved ==
  IF search = "idle" THEN {}
  ELSE IF search = "apply" THEN Controls[target]
  ELSE {saved[i].node : i \in {j \in DOMAIN saved : j >= position}}

Undisturbed == clean /\ phase # "crashed"

SearchIsWhereItIs == search # "idle" /\ phase # "crashed" => phase = "limits"

CameraOfPowerOn ==
  Undisturbed =>
    /\ locked = IF phase = "unlock" THEN 1 ELSE 0
    /\ \A c \in Controlling : c \notin Moved => settings[c] = PowerOn[c]

SearchCanUndo ==
  Undisturbed =>
    /\ phase # "off" => order \in GoodOrders
    /\ search # "idle" => saved = SavedControls(target)
    /\ search = "apply" => Len(extremes) = Len(saved)

RestoreInv == SearchIsWhereItIs /\ CameraOfPowerOn /\ SearchCanUndo

LEMMA RestoreInitially == Init => RestoreInv
<1>1. PowerOn \in [DOMAIN PowerOn -> Int]
  BY CameraAssumption
<1>2. QED
  BY <1>1 DEF Init, InitSearch, RestoreInv, SearchIsWhereItIs, CameraOfPowerOn, SearchCanUndo,
              Moved

LEMMA RestoreInvImplies == TypeInv /\ RestoreInv => SettingsRestored
<1> SUFFICES ASSUME TypeInv, RestoreInv,
                    clean, search = "idle", phase \notin {"unlock", "crashed"}
             PROVE  /\ locked = 0
                    /\ \A n \in Nodes : \A c \in Controls[n] : Value(settings, c) = Value(PowerOn, c)
  BY DEF SettingsRestored
<1>1. locked = 0 /\ \A c \in Controlling : settings[c] = PowerOn[c]
  BY DEF RestoreInv, CameraOfPowerOn, Undisturbed, Moved
<1>2. settings \in Settings /\ PowerOn \in Settings
  BY CameraAssumption DEF TypeInv, CameraOK
<1>3. \A n \in Nodes : \A c \in Controls[n] : c \in Controlling
  BY DEF Controlling
<1>4. QED
  BY <1>1, <1>2, <1>3, ControlsAssumption

(* What a search drives, in the order it does. *)
LEMMA ControlsInOrderAre ==
  ASSUME order \in Orders, NEW n \in Nodes
  PROVE  /\ ControlsInOrder(n) \in Seq(Nodes)
         /\ \A c \in Controls[n] : \E i \in DOMAIN ControlsInOrder(n) : ControlsInOrder(n)[i] = c
         /\ \A i \in DOMAIN ControlsInOrder(n) : ControlsInOrder(n)[i] \in Controls[n]
         /\ order \in GoodOrders =>
              \A i, j \in DOMAIN ControlsInOrder(n) :
                Locks(ControlsInOrder(n)[i], ControlsInOrder(n)[j]) => i < j
<1> DEFINE controls == ControlsInOrder(n)
<1>1. order \in Seq(Nodes) /\ Controlling \subseteq ToSet(order)
  BY ControlsAssumption
<1>2. controls \in Seq(Nodes) /\ TakenFrom(order, Controls[n], Len(order), controls)
  BY <1>1, AmongTakes DEF ControlsInOrder
<1>3. DOMAIN order = 1..Len(order)
  BY <1>1
<1> HIDE DEF controls
<1>4. ASSUME NEW c \in Controls[n] PROVE \E i \in DOMAIN controls : controls[i] = c
  <2>1. c \in ToSet(order)
    BY <1>1 DEF Controlling
  <2>2. QED
    BY <1>2, <1>3, <2>1 DEF TakenFrom, ToSet
<1>5. \A i \in DOMAIN controls : controls[i] \in Controls[n]
  BY <1>2 DEF TakenFrom
<1>6. ASSUME order \in GoodOrders, NEW i \in DOMAIN controls, NEW j \in DOMAIN controls,
             Locks(controls[i], controls[j]), ~(i < j)
      PROVE  FALSE
  <2>1. i \in Nat /\ j \in Nat
    BY <1>2
  <2>2. PICK k1 \in 1..Len(order), k2 \in 1..Len(order) :
          k2 <= k1 /\ controls[i] = order[k1] /\ controls[j] = order[k2]
    <3>1. CASE i = j
      <4>1. PICK k \in 1..Len(order) : controls[i] = order[k]
        BY <1>2 DEF TakenFrom
      <4>2. QED
        BY <3>1, <4>1
    <3>2. CASE j < i
      <4>1. PICK m2 \in 1..Len(order), m1 \in 1..Len(order) :
              m2 < m1 /\ controls[j] = order[m2] /\ controls[i] = order[m1]
        BY <1>2, <3>2 DEF TakenFrom
      <4>2. QED
        BY <4>1
    <3>3. QED
      BY <1>6, <2>1, <3>1, <3>2
  <2>3. {order[k1], order[k2]} \subseteq Controls[n]
    BY <1>5, <2>2
  <2>4. k1 < k2
    BY <1>3, <1>6, <2>2, <2>3 DEF GoodOrders
  <2>5. QED
    BY <2>2, <2>4
<1>7. QED
  BY <1>2, <1>4, <1>5, <1>6 DEF controls

(* A write that fails is counted, one the camera takes or refuses changes  *)
(* at most the feature that is written.                                    *)
LEMMA WriteTouchesOne ==
  ASSUME CameraOK, NEW n, NEW v, Write(n, v)
  PROVE  /\ \A c \in DOMAIN PowerOn : c # n => settings'[c] = settings[c]
         /\ failures' = failures /\ n \in DOMAIN PowerOn =>
              (Accepts(n, v) => settings'[n] = v) /\ (~Accepts(n, v) => settings' = settings)
<1>1. settings \in [DOMAIN PowerOn -> Int] /\ failures \in Nat
  BY CameraAssumption DEF CameraOK
<1>2. QED
  BY <1>1 DEF Write

LEMMA SavedWith ==
  ASSUME order \in Orders, NEW n \in Nodes
  PROVE  /\ Len(SavedControls(n)) = Len(ControlsInOrder(n))
         /\ SavedControls(n) \in Seq([node : Nodes, value : {PowerOn[c] : c \in Nodes}])
         /\ \A i \in DOMAIN SavedControls(n) :
              /\ i \in DOMAIN ControlsInOrder(n)
              /\ SavedControls(n)[i].node = ControlsInOrder(n)[i]
              /\ SavedControls(n)[i].value = PowerOn[SavedControls(n)[i].node]
              /\ SavedControls(n)[i].node \in Controls[n]
              /\ SavedControls(n)[i].node \in Controlling
         /\ \A c \in Controls[n] : \E i \in DOMAIN SavedControls(n) : SavedControls(n)[i].node = c
<1> DEFINE controls == ControlsInOrder(n)
<1>1. controls \in Seq(Nodes) /\ DOMAIN controls = 1..Len(controls) /\ Len(controls) \in Nat
  BY ControlsInOrderAre
<1>2. /\ \A c \in Controls[n] : \E i \in DOMAIN controls : controls[i] = c
      /\ \A i \in DOMAIN controls : controls[i] \in Controls[n] /\ controls[i] \in Controlling
  BY ControlsInOrderAre DEF Controlling
<1>3. \A i \in DOMAIN controls : controls[i] \in Nodes
  BY <1>1
<1> DEFINE all == [i \in DOMAIN controls |-> [node |-> controls[i], value |-> PowerOn[controls[i]]]]
<1>4. SavedControls(n) = all
  BY DEF SavedControls
<1> HIDE DEF controls
<1>5. /\ all \in Seq([node : Nodes, value : {PowerOn[c] : c \in Nodes}])
      /\ Len(all) = Len(controls) /\ DOMAIN all = DOMAIN controls
  BY <1>1, <1>3
<1>6. QED
  BY <1>2, <1>4, <1>5 DEF controls

LEMMA SaveKeepsRestore ==
  ASSUME TypeInv, RestoreInv, phase = "limits", search = "idle", SaveSettings(node),
         UNCHANGED phase, clean' = (clean /\ failures' = failures)
  PROVE  RestoreInv'
<1> DEFINE controls == ControlsInOrder(node)
<1>1. node \in Nodes /\ order \in Orders /\ settings \in Settings
  BY DEF TypeInv, WalkOK, SearchOK, CameraOK
<1>2. /\ UNCHANGED <<settings, locked, order, phase>> /\ search' = "apply" /\ target' = node
      /\ saved' = Saved(controls)
      /\ extremes' = [i \in DOMAIN controls |-> ExtremesOf(controls[i])]
  BY DEF SaveSettings, camera
<1>3. /\ DOMAIN controls = 1..Len(controls) /\ Len(controls) \in Nat
      /\ \A i \in DOMAIN controls : controls[i] \in Controlling
  BY <1>1, ControlsInOrderAre DEF Controlling
<1>4. SavedControls(target)' = SavedControls(node)
  BY <1>2 DEF SavedControls, ControlsInOrder
<1>5. ASSUME clean' PROVE saved' = SavedControls(node) /\ Len(extremes') = Len(saved')
  <2>1. \A c \in Controlling : settings[c] = PowerOn[c]
    BY <1>5 DEF RestoreInv, CameraOfPowerOn, Undisturbed, Moved
  <2>2. \A i \in DOMAIN controls : Value(settings, controls[i]) = PowerOn[controls[i]]
    BY <1>1, <1>3, <2>1, ControlsAssumption
  <2> HIDE DEF controls
  <2>3. saved' = [i \in DOMAIN controls |-> [node |-> controls[i], value |-> PowerOn[controls[i]]]]
    BY <1>2, <2>2 DEF Saved
  <2>4. Len(extremes') = Len(controls) /\ Len(saved') = Len(controls)
    BY <1>2, <1>3, <2>3
  <2>5. QED
    BY <2>3, <2>4 DEF SavedControls, controls
<1>6. QED
  BY <1>2, <1>4, <1>5
     DEF RestoreInv, SearchIsWhereItIs, CameraOfPowerOn, SearchCanUndo, Undisturbed, Moved

LEMMA ApplyKeepsRestore ==
  ASSUME TypeInv, RestoreInv, phase = "limits", ApplyExtreme,
         UNCHANGED phase, clean' = (clean /\ failures' = failures)
  PROVE  RestoreInv'
<1>1. target \in Nodes /\ order \in Orders /\ CameraOK /\ position \in Nat \ {0}
  BY DEF TypeInv, SearchOK, ApplyExtreme
<1>2. UNCHANGED <<locked, order, phase, search, target, saved, extremes>> /\ search = "apply"
  BY DEF ApplyExtreme
<1>3. SavedControls(target)' = SavedControls(target)
  BY <1>2 DEF SavedControls, ControlsInOrder
<1>4. ASSUME clean' PROVE \A c \in Controlling : c \notin Controls[target] => settings'[c] = PowerOn[c]
  <2>1. clean /\ saved = SavedControls(target) /\ Len(extremes) = Len(saved)
    BY <1>2, <1>4 DEF RestoreInv, SearchCanUndo, Undisturbed
  <2>2. position \in DOMAIN saved
    BY <1>1, <2>1, SavedWith DEF ApplyExtreme
  <2>3. saved[position].node \in Controls[target]
    BY <1>1, <2>1, <2>2, SavedWith
  <2>4. \A c \in DOMAIN PowerOn : c # saved[position].node => settings'[c] = settings[c]
    BY <1>1, WriteTouchesOne DEF ApplyExtreme
  <2>5. \A c \in Controlling : c \notin Controls[target] => settings[c] = PowerOn[c]
    BY <1>2, <2>1 DEF RestoreInv, CameraOfPowerOn, Undisturbed, Moved
  <2>6. QED
    BY <2>3, <2>4, <2>5, ControlsAssumption
<1>5. QED
  BY <1>2, <1>3, <1>4
     DEF RestoreInv, SearchIsWhereItIs, CameraOfPowerOn, SearchCanUndo, Undisturbed, Moved

LEMMA TakeKeepsRestore ==
  ASSUME TypeInv, RestoreInv, phase = "limits", TakeExtremes,
         UNCHANGED phase, clean' = (clean /\ failures' = failures)
  PROVE  RestoreInv'
<1>1. target \in Nodes /\ order \in Orders
  BY DEF TypeInv, SearchOK, TakeExtremes
<1>2. /\ UNCHANGED <<settings, locked, order, phase, target, saved, extremes>>
      /\ search = "apply" /\ search' = "reset" /\ position' = 1
  BY DEF TakeExtremes, camera
<1>3. SavedControls(target)' = SavedControls(target)
  BY <1>2 DEF SavedControls, ControlsInOrder
<1>4. ASSUME clean' PROVE \A c \in Controlling : c \notin Moved' => settings[c] = PowerOn[c]
  <2>1. clean /\ saved = SavedControls(target)
    BY <1>2, <1>4 DEF RestoreInv, SearchCanUndo, Undisturbed
  <2>2. DOMAIN saved = 1..Len(saved) /\ Len(saved) \in Nat
    BY <1>1, <2>1, SavedWith
  <2>3. \A c \in Controls[target] : c \in Moved'
    <3>1. \A i \in DOMAIN saved : i >= 1
      BY <2>2
    <3>2. \A c \in Controls[target] : \E i \in DOMAIN saved : saved[i].node = c
      BY <1>1, <2>1, SavedWith
    <3>3. QED
      BY <1>2, <3>1, <3>2 DEF Moved
  <2>4. \A c \in Controlling : c \notin Controls[target] => settings[c] = PowerOn[c]
    BY <1>2, <2>1 DEF RestoreInv, CameraOfPowerOn, Undisturbed, Moved
  <2>5. QED
    BY <2>3, <2>4
<1>5. QED
  BY <1>2, <1>3, <1>4 DEF RestoreInv, SearchIsWhereItIs, CameraOfPowerOn, SearchCanUndo, Undisturbed

(* What is written back is accepted: what still differs, and could lock    *)
(* the feature, comes before it, and is back.                              *)
LEMMA ResetKeepsRestore ==
  ASSUME TypeInv, RestoreInv, phase = "limits", ResetValue,
         UNCHANGED phase, clean' = (clean /\ failures' = failures)
  PROVE  RestoreInv'
<1>1. /\ target \in Nodes /\ order \in Orders /\ CameraOK /\ settings \in Settings
      /\ position \in Nat \ {0}
  BY DEF TypeInv, SearchOK, ResetValue, CameraOK
<1>2. /\ UNCHANGED <<locked, order, phase, search, target, saved, extremes>>
      /\ search = "reset" /\ position' = position + 1 /\ position <= Len(saved)
      /\ Write(saved[position].node, saved[position].value)
  BY DEF ResetValue
<1>3. SavedControls(target)' = SavedControls(target)
  BY <1>2 DEF SavedControls, ControlsInOrder
<1>4. ASSUME clean' PROVE \A c \in Controlling : c \notin Moved' => settings'[c] = PowerOn[c]
  <2>1. clean /\ failures' = failures /\ saved = SavedControls(target) /\ order \in GoodOrders
    BY <1>2, <1>4 DEF RestoreInv, SearchCanUndo, Undisturbed
  <2>2. locked = 0 /\ \A c \in Controlling : c \notin Moved => settings[c] = PowerOn[c]
    BY <2>1 DEF RestoreInv, CameraOfPowerOn, Undisturbed
  <2>3. DOMAIN saved = 1..Len(saved) /\ Len(saved) \in Nat /\ position \in DOMAIN saved
    BY <1>1, <1>2, <2>1, SavedWith
  <2> DEFINE n == saved[position].node
             v == saved[position].value
  <2>4. /\ n \in Controls[target] /\ n \in Controlling
        /\ n = ControlsInOrder(target)[position] /\ position \in DOMAIN ControlsInOrder(target)
        /\ v = PowerOn[n]
    <3>1. \A i \in DOMAIN saved :
            /\ saved[i].node \in Controls[target] /\ saved[i].node \in Controlling
            /\ saved[i].node = ControlsInOrder(target)[i]
            /\ i \in DOMAIN ControlsInOrder(target)
            /\ saved[i].value = PowerOn[saved[i].node]
      BY <1>1, <2>1, SavedWith
    <3>2. QED
      BY <2>3, <3>1
  <2>5. ASSUME NEW a \in Controlling, settings[a] # PowerOn[a]
        PROVE  a \in Controls[target] /\ ~Locks(a, n)
    <3>1. PICK i \in DOMAIN saved : i >= position /\ a = saved[i].node
      BY <1>2, <2>2, <2>5 DEF Moved
    <3>2. /\ a \in Controls[target] /\ a = ControlsInOrder(target)[i]
          /\ i \in DOMAIN ControlsInOrder(target)
      BY <1>1, <2>1, <3>1, SavedWith
    <3>3. ~(i < position)
      BY <1>1, <2>3, <3>1
    <3>4. QED
      BY <1>1, <2>1, <2>4, <3>2, <3>3, ControlsInOrderAre
  <2>6. Accepts(n, v)
    BY <1>1, <2>2, <2>4, <2>5, ControlsAssumption DEF Accepts
  <2>7. settings'[n] = PowerOn[n]
    BY <1>1, <1>2, <2>1, <2>4, <2>6, WriteTouchesOne, ControlsAssumption
  <2>8. \A c \in DOMAIN PowerOn : c # n => settings'[c] = settings[c]
    BY <1>1, <1>2, WriteTouchesOne
  <2>9. \A c \in Moved : c = n \/ c \in Moved'
    <3>1. \A i \in DOMAIN saved : i >= position => i = position \/ i >= position + 1
      BY <1>1, <2>3
    <3>2. QED
      BY <1>2, <3>1 DEF Moved
  <2> HIDE DEF n, v
  <2>10. QED
    BY <2>2, <2>7, <2>8, <2>9, ControlsAssumption
<1>5. QED
  BY <1>2, <1>3, <1>4 DEF RestoreInv, SearchIsWhereItIs, CameraOfPowerOn, SearchCanUndo, Undisturbed

(* A selector is no control. *)
LEMMA SelectKeepsControls ==
  ASSUME TypeInv, entries # <<>>
  PROVE  \A c \in Controlling : SelectEntry(node)[c] = settings[c]
<1>1. <<node, Entry>> \in Names /\ node \in Nodes /\ settings \in [DOMAIN PowerOn -> Int]
  BY EntryIsNamed, CameraAssumption DEF TypeInv, WalkOK, CameraOK
<1>2. Selected => Selector(node) \notin Controlling
  <2>1. SUFFICES ASSUME Selected PROVE Selector(node) \notin Controlling
    OBVIOUS
  <2>2. Selector(node) \in ToSet(Node[node].selectors)
    BY <1>1, <2>1, SelectorIsNamed DEF Selected
  <2>3. QED
    BY <1>1, <2>2, ControlsAssumption
<1>3. QED
  BY <1>1, <1>2 DEF SelectEntry

LEMMA RestorePreserved == TypeInv /\ RestoreInv /\ [Next]_vars => RestoreInv'
<1> SUFFICES ASSUME TypeInv, RestoreInv, [Next]_vars PROVE RestoreInv'
  OBVIOUS
<1> USE DEF RestoreInv, SearchIsWhereItIs, CameraOfPowerOn, SearchCanUndo, Undisturbed
<1>1. CASE Start
  <2>1. clean' => order' \in GoodOrders
    BY <1>1 DEF Start
  <2>2. settings' = PowerOn /\ locked' = 0 /\ phase' = "next" /\ search' = "idle"
    BY <1>1 DEF Start
  <2>3. QED
    BY <2>1, <2>2 DEF Moved
<1>2. CASE BeginEntry
  <2>1. /\ UNCHANGED <<locked, order, search, target, saved, extremes, position, clean>>
        /\ phase = "entry" /\ phase' \in {"lookup", "access"} /\ settings' = SelectEntry(node)
    BY <1>2 DEF BeginEntry, searching, history
  <2>2. search = "idle"
    BY <2>1
  <2>3. \A c \in Controlling : settings'[c] = settings[c]
    BY <1>2, <2>1, SelectKeepsControls DEF BeginEntry
  <2>4. QED
    BY <2>1, <2>2, <2>3 DEF Moved
<1>3. CASE QueryAccess
  <2>1. /\ UNCHANGED <<settings, order, search, clean>> /\ phase = "access"
        /\ \/ locked' = 1 /\ phase' = "unlock"
           \/ locked' = locked /\ phase' \in {"limits", "make"}
    BY <1>3 DEF QueryAccess, AfterAccess, searching, history
  <2>2. search = "idle"
    BY <2>1
  <2>3. QED
    BY <2>1, <2>2 DEF Moved
<1>4. CASE Unlock
  <2>1. /\ UNCHANGED <<settings, order, search, clean>> /\ phase = "unlock"
        /\ locked' = 0 /\ phase' \in {"limits", "make"}
    BY <1>4 DEF Unlock, AfterAccess, searching, history
  <2>2. search = "idle"
    BY <2>1
  <2>3. QED
    BY <2>1, <2>2 DEF Moved
<1>5. CASE Search
  <2>1. phase = "limits" /\ UNCHANGED phase /\ clean' = (clean /\ failures' = failures)
    BY <1>5 DEF Search, walk
  <2>2. CASE search = "idle" /\ SaveSettings(node)
    BY <2>1, <2>2, SaveKeepsRestore
  <2>3. CASE ApplyExtreme
    BY <2>1, <2>3, ApplyKeepsRestore
  <2>4. CASE MeasureLimits
    <3>1. UNCHANGED <<settings, locked, order, search, target, saved, extremes, phase>>
      BY <2>1, <2>4 DEF MeasureLimits, camera
    <3>2. search = "apply" /\ SavedControls(target)' = SavedControls(target)
      BY <2>4, <3>1 DEF MeasureLimits, SavedControls, ControlsInOrder
    <3>3. QED
      BY <2>1, <3>1, <3>2 DEF Moved
  <2>5. CASE TakeExtremes
    BY <2>1, <2>5, TakeKeepsRestore
  <2>6. CASE ResetValue
    BY <2>1, <2>6, ResetKeepsRestore
  <2>7. QED
    BY <1>5, <2>2, <2>3, <2>4, <2>5, <2>6 DEF Search
<1>6. CASE FinishSearch
  <2>1. /\ UNCHANGED <<settings, locked, order, clean>> /\ phase = "limits"
        /\ phase' = "store" /\ search = "reset" /\ search' = "idle" /\ position > Len(saved)
    BY <1>6 DEF FinishSearch, SearchEnds, camera, history
  <2>2. ASSUME clean PROVE Moved = {}
    <3>1. saved = SavedControls(target) /\ target \in Nodes /\ order \in Orders
      BY <2>1, <2>2 DEF TypeInv, SearchOK
    <3>2. DOMAIN saved = 1..Len(saved) /\ Len(saved) \in Nat /\ position \in Nat
      BY <3>1, SavedWith DEF TypeInv, SearchOK
    <3>3. \A i \in DOMAIN saved : ~(i >= position)
      BY <2>1, <3>2
    <3>4. QED
      BY <2>1, <3>3 DEF Moved
  <2>3. QED
    BY <2>1, <2>2 DEF Moved
<1>7. CASE EntryThrows
  BY <1>7 DEF EntryThrows, SearchThrows
<1>8. CASE SearchCrashes \/ Crash
  BY <1>8 DEF SearchCrashes, Crash
<1>9. CASE /\ search = "idle" /\ search' = "idle" /\ phase # "unlock" /\ phase' # "unlock"
           /\ phase \notin {"off", "crashed"}
           /\ UNCHANGED <<settings, locked, order, clean>>
  BY <1>9 DEF Moved
<1>10. CASE UNCHANGED <<settings, locked, phase, clean, searching>>
  <2>1. UNCHANGED <<order, search, target, saved, extremes, position>>
    BY <1>10 DEF searching
  <2>2. SavedControls(target)' = SavedControls(target)
    BY <2>1 DEF SavedControls, ControlsInOrder
  <2>3. QED
    BY <1>10, <2>1, <2>2 DEF Moved
<1>11. \/ Start \/ BeginEntry \/ QueryAccess \/ Unlock \/ Search \/ FinishSearch
       \/ EntryThrows \/ SearchCrashes \/ Crash
       \/ /\ phase # "unlock" /\ phase' # "unlock" /\ phase \notin {"off", "crashed", "limits"}
          /\ UNCHANGED <<settings, locked, order, clean, search>>
       \/ FindLimits
       \/ UNCHANGED <<settings, locked, phase, clean, searching>>
  BY DEF Next, vars, Walk, NextNode, LookUp, StoreProps, MakeSpec, FinishNode, InstallSpec,
         Finish, ForeignLoads, ForeignSaves, camera, searching, history, walk
<1>12. CASE FindLimits
  BY <1>9, <1>12 DEF FindLimits, LimitsDirect, LimitsKnown, camera, history
<1>13. QED
  BY <1>1, <1>2, <1>3, <1>4, <1>5, <1>6, <1>7, <1>8, <1>9, <1>10, <1>11, <1>12

LEMMA RestoreInvHolds == Spec => []RestoreInv
BY RestoreInitially, RestorePreserved, TypeInvHolds, PTL DEF Spec

(* The walk leaves no trace: between two features every control has its    *)
(* value of before and the transport layer is unlocked, unless a call to   *)
(* the camera failed or the addresses put a control before one that locks  *)
(* it.                                                                     *)
THEOREM TheCameraIsRestored == Spec => []SettingsRestored
BY RestoreInvHolds, RestoreInvImplies, TypeInvHolds, PTL

-----------------------------------------------------------------------------
(* The nodes the walk can reach: the least set with the root in it that    *)
(* has the children of every category the walk enters.                     *)

Closed(C) == \A c \in C : IsWalked(c) => ToSet(Node[c].children) \subseteq C

ChildrenOf(C) == UNION {ToSet(Node[c].children) : c \in {d \in C : IsWalked(d)}}
Grown(C) == C \union ChildrenOf(C)
AtRoot == {Root}

LEMMA ChildrenAreNodes ==
  ASSUME NEW n \in Nodes
  PROVE  ToSet(Node[n].children) \subseteq Nodes
<1>1. Node[n].children \in Seq(Nodes)
  BY NodeMapAssumption
<1>2. QED
  BY <1>1 DEF ToSet

LEMMA ReachedIsALoop ==
  \E more :
    /\ more[0] = {Root}
    /\ \A i \in 1..Cardinality(Nodes) : more[i] = more[i - 1] \union ChildrenOf(more[i - 1])
    /\ Reached = more[Cardinality(Nodes)]
<1> DEFINE n == Cardinality(Nodes)
           Body(more, m) ==
             [i \in 0..m |-> IF i = 0 THEN AtRoot ELSE Grown(more[i - 1])]
           Good == {m \in Nat : \E more : more = Body(more, m)}
<1>1. 0 \in Good
  <2>1. [i \in 0..0 |-> AtRoot] = Body([i \in 0..0 |-> AtRoot], 0)
    OBVIOUS
  <2>2. QED
    BY <2>1
<1>2. ASSUME NEW m \in Nat, m \in Good PROVE m + 1 \in Good
  <2>1. PICK upto : upto = Body(upto, m)
    BY <1>2
  <2> DEFINE more == [i \in 0..(m + 1) |-> IF i = m + 1 THEN Grown(upto[m]) ELSE upto[i]]
  <2>2. more = Body(more, m + 1)
    <3>1. \A i \in 0..(m + 1) : more[i] = IF i = 0 THEN AtRoot ELSE Grown(more[i - 1])
      BY <2>1
    <3> HIDE DEF more
    <3>2. QED
      BY <3>1 DEF more
  <2>3. m + 1 \in Nat
    OBVIOUS
  <2> HIDE DEF more, Body
  <2>4. QED
    BY <2>2, <2>3
<1>3. n \in Nat
  BY NodeMapAssumption, FS_CardinalityType
<1>4. \E more : more = Body(more, n)
  <2> HIDE DEF Good
  <2>1. n \in Good
    BY <1>1, <1>2, <1>3, Induction
  <2>2. QED
    BY <2>1 DEF Good
<1>5. Reached = (CHOOSE more : more = Body(more, n))[n]
  BY DEF Reached, ChildrenOf, Grown, AtRoot
<1> DEFINE chosen == CHOOSE more : more = Body(more, n)
<1>6. chosen = Body(chosen, n)
  BY <1>4
<1> HIDE DEF chosen
<1>7. chosen[0] = AtRoot /\ \A i \in 1..n : chosen[i] = Grown(chosen[i - 1])
  BY <1>3, <1>6
<1>8. QED
  BY <1>5, <1>7 DEF chosen, Grown, AtRoot

(* The loop has found every node when it can not have found a new one in   *)
(* every round.                                                            *)
LEMMA ReachedIsClosed ==
  Reached \subseteq Nodes /\ Root \in Reached /\ Closed(Reached)
<1> DEFINE n == Cardinality(Nodes)
<1>1. n \in Nat /\ IsFiniteSet(Nodes) /\ Root \in Nodes
  BY NodeMapAssumption, FS_CardinalityType
<1>2. PICK more :
        /\ more[0] = {Root}
        /\ \A i \in 1..n : more[i] = more[i - 1] \union ChildrenOf(more[i - 1])
        /\ Reached = more[n]
  BY ReachedIsALoop
<1> DEFINE OK(C, i) == /\ C \subseteq Nodes /\ Root \in C
                       /\ Closed(C) \/ Cardinality(C) >= i + 1
           Good == {i \in Nat : i <= n => OK(more[i], i)}
<1>3. 0 \in Good
  <2>1. Cardinality({Root}) = 1
    BY FS_Singleton
  <2>2. QED
    BY <1>1, <1>2, <2>1
<1>4. ASSUME NEW i \in Nat, i \in Good PROVE i + 1 \in Good
  <2>1. SUFFICES ASSUME i + 1 <= n PROVE OK(more[i + 1], i + 1)
    OBVIOUS
  <2>2. i + 1 \in 1..n /\ (i + 1) - 1 = i /\ i <= n
    BY <1>1, <2>1
  <2> DEFINE C == more[i]
             D == more[i + 1]
  <2>3. D = C \union ChildrenOf(C)
    BY <1>2, <2>2
  <2>4. OK(C, i)
    BY <1>4, <2>2
  <2> HIDE DEF C, D, n
  <2>5. D \subseteq Nodes /\ Root \in D /\ C \subseteq D
    BY <2>3, <2>4, ChildrenAreNodes DEF ChildrenOf
  <2>6. CASE Closed(C)
    <3>1. D = C
      BY <2>3, <2>6 DEF Closed, ChildrenOf
    <3>2. QED
      BY <2>5, <2>6, <3>1 DEF D
  <2>7. CASE ~Closed(C)
    <3>1. PICK x \in D : x \notin C
      BY <2>3, <2>7 DEF Closed, ChildrenOf
    <3>2. IsFiniteSet(C) /\ IsFiniteSet(D)
      BY <1>1, <2>4, <2>5, FS_Subset
    <3>3. Cardinality(C) \in Nat /\ Cardinality(D) \in Nat /\ Cardinality(C) >= i + 1
      BY <2>4, <2>7, <3>2, FS_CardinalityType
    <3>4. C \union {x} \in SUBSET D /\ Cardinality(C \union {x}) = Cardinality(C) + 1
      BY <2>5, <3>1, <3>2, FS_AddElement
    <3>5. Cardinality(C \union {x}) <= Cardinality(D)
      BY <3>2, <3>4, FS_Subset
    <3>6. Cardinality(D) >= (i + 1) + 1
      BY <3>3, <3>4, <3>5
    <3>7. QED
      BY <2>5, <3>6 DEF D
  <2>8. QED
    BY <2>6, <2>7
<1>5. n \in Good
  <2> HIDE DEF Good, n
  <2>1. QED
    BY <1>1, <1>3, <1>4, Induction
<1>6. OK(Reached, n)
  BY <1>1, <1>2, <1>5
<1>7. Cardinality(Reached) <= n /\ Cardinality(Reached) \in Nat
  <2>1. Reached \in SUBSET Nodes
    BY <1>6
  <2>2. QED
    BY <1>1, <2>1, FS_Subset, FS_CardinalityType
<1> HIDE DEF n
<1>8. QED
  BY <1>1, <1>6, <1>7

LEMMA ReachedIsLeast ==
  ASSUME NEW C, Root \in C, Closed(C)
  PROVE  Reached \subseteq C
<1> DEFINE n == Cardinality(Nodes)
<1>1. n \in Nat
  BY NodeMapAssumption, FS_CardinalityType
<1>2. PICK more :
        /\ more[0] = {Root}
        /\ \A i \in 1..n : more[i] = more[i - 1] \union ChildrenOf(more[i - 1])
        /\ Reached = more[n]
  BY ReachedIsALoop
<1> DEFINE Good == {i \in Nat : i <= n => more[i] \subseteq C}
<1>3. 0 \in Good
  BY <1>2
<1>4. ASSUME NEW i \in Nat, i \in Good PROVE i + 1 \in Good
  <2>1. SUFFICES ASSUME i + 1 <= n PROVE more[i + 1] \subseteq C
    OBVIOUS
  <2>2. i + 1 \in 1..n /\ (i + 1) - 1 = i /\ i <= n
    BY <1>1, <2>1
  <2>3. more[i + 1] = more[i] \union ChildrenOf(more[i]) /\ more[i] \subseteq C
    BY <1>2, <1>4, <2>2
  <2>4. ChildrenOf(more[i]) \subseteq C
    BY <2>3 DEF Closed, ChildrenOf
  <2>5. QED
    BY <2>3, <2>4
<1>5. n \in Good
  <2> HIDE DEF Good, n
  <2>1. QED
    BY <1>1, <1>3, <1>4, Induction
<1>6. QED
  BY <1>1, <1>2, <1>5

-----------------------------------------------------------------------------
(* Every feature once. The names the walk has met are those of properties, *)
(* of specs that wait for their number, of the entries left of the node,   *)
(* and of what was given up; all of them can be reached, and what can be   *)
(* reached and is not among them is reached from the worklist.             *)

IsSequence(q) == \E S : q \in Seq(S)

PropertyNames == {NameOf(properties[i].spec) : i \in DOMAIN properties}
SpecNames == {NameOf(specs[i]) : i \in DOMAIN specs}
EntryNames == {<<node, e>> : e \in ToSet(entries)}
Met == PropertyNames \union skipped \union SpecNames \union EntryNames
Reachable == {name \in Names : name[1] \in Reached}

Numbered ==
  /\ IsSequence(properties) /\ IsSequence(specs)
  /\ nprop = Len(properties) + 1
  /\ \A i \in DOMAIN properties : properties[i].id = i
  /\ \A i, j \in DOMAIN properties :
       NameOf(properties[i].spec) = NameOf(properties[j].spec) => i = j

NothingPending ==
  /\ phase \in {"next", "done"} => entries = <<>> /\ specs = <<>>
  /\ phase = "install" => entries = <<>> /\ specs # <<>>
  /\ phase = "done" => worklist = <<>>

OnlyReachable == Met \subseteq Reachable /\ ToSet(worklist) \subseteq Reached

(* What was not met yet can be reached from the worklist. *)
AllReachable ==
  phase \notin {"off", "crashed"} =>
    \A C \in SUBSET Nodes : Closed(C) /\ ToSet(worklist) \subseteq C =>
      \A name \in Reachable : name \in Met \/ name[1] \in C

OnceInv == Numbered /\ NothingPending /\ OnlyReachable /\ AllReachable

LEMMA Appended ==
  ASSUME NEW q, IsSequence(q), NEW x
  PROVE  /\ IsSequence(Append(q, x)) /\ Len(q) \in Nat /\ DOMAIN q = 1..Len(q)
         /\ Len(Append(q, x)) = Len(q) + 1
         /\ DOMAIN Append(q, x) = DOMAIN q \union {Len(q) + 1}
         /\ Append(q, x)[Len(q) + 1] = x
         /\ \A i \in DOMAIN q : Append(q, x)[i] = q[i]
<1>1. PICK S : q \in Seq(S)
  BY DEF IsSequence
<1> DEFINE T == S \union {x}
<1>2. q \in Seq(T) /\ x \in T
  BY <1>1
<1> HIDE DEF T
<1>3. Append(q, x) \in Seq(T)
  BY <1>2
<1>4. QED
  BY <1>2, <1>3 DEF IsSequence

LEMMA FirstAndRest ==
  ASSUME NEW q, IsSequence(q), q # <<>>
  PROVE  /\ IsSequence(Tail(q))
         /\ 1 \in DOMAIN q /\ Head(q) = q[1]
         /\ \A i \in DOMAIN Tail(q) : i + 1 \in DOMAIN q /\ Tail(q)[i] = q[i + 1]
         /\ \A i \in DOMAIN q : i = 1 \/ (i - 1 \in DOMAIN Tail(q) /\ q[i] = Tail(q)[i - 1])
<1>1. PICK S : q \in Seq(S)
  BY DEF IsSequence
<1>2. Tail(q) \in Seq(S)
  BY <1>1
<1>3. QED
  BY <1>1, <1>2 DEF IsSequence

LEMMA FirstAndRestAre ==
  ASSUME NEW q, IsSequence(q), q # <<>>
  PROVE  ToSet(q) = {Head(q)} \union ToSet(Tail(q))
<1>1. ASSUME NEW x \in ToSet(q) PROVE x = Head(q) \/ x \in ToSet(Tail(q))
  <2>1. PICK i \in DOMAIN q : x = q[i]
    BY DEF ToSet
  <2>2. QED
    BY <2>1, FirstAndRest DEF ToSet
<1>2. ASSUME NEW x \in ToSet(Tail(q)) PROVE x \in ToSet(q)
  <2>1. PICK i \in DOMAIN Tail(q) : x = Tail(q)[i]
    BY DEF ToSet
  <2>2. QED
    BY <2>1, FirstAndRest DEF ToSet
<1>3. Head(q) \in ToSet(q)
  BY FirstAndRest DEF ToSet
<1>4. QED
  BY <1>1, <1>2, <1>3

LEMMA NoElements ==
  ASSUME NEW q, q = <<>>
  PROVE  IsSequence(q) /\ ToSet(q) = {} /\ DOMAIN q = {} /\ Len(q) = 0
<1>1. q \in Seq({}) /\ Len(q) = 0
  OBVIOUS
<1>2. DOMAIN q = {}
  BY <1>1
<1>3. QED
  BY <1>1, <1>2 DEF IsSequence, ToSet

LEMMA OnceInitially == Init => OnceInv
<1> SUFFICES ASSUME Init PROVE OnceInv
  OBVIOUS
<1>1. Numbered
  BY NoElements DEF Init, Numbered
<1>2. NothingPending
  BY DEF Init, NothingPending
<1>3. Met = {}
  BY NoElements DEF Init, Met, PropertyNames, SpecNames, EntryNames
<1>4. OnlyReachable
  BY <1>3, NoElements DEF Init, OnlyReachable
<1>5. AllReachable
  BY DEF Init, AllReachable
<1>6. QED
  BY <1>1, <1>2, <1>4, <1>5 DEF OnceInv

LEMMA OnceInvImplies == OnceInv => EveryFeatureOnce
<1> SUFFICES ASSUME OnceInv, phase = "done"
             PROVE  /\ PropertyNames \union skipped = Reachable
                    /\ \A i, j \in DOMAIN properties :
                         NameOf(properties[i].spec) = NameOf(properties[j].spec) => i = j
                    /\ \A i \in DOMAIN properties : properties[i].id = i
  BY DEF EveryFeatureOnce, PropertyNames, Reachable
<1>1. entries = <<>> /\ specs = <<>> /\ worklist = <<>>
  BY DEF OnceInv, NothingPending
<1>2. Met = PropertyNames \union skipped
  BY <1>1, NoElements DEF Met, SpecNames, EntryNames
<1>3. Reachable \subseteq Met
  <2>1. Closed({}) /\ ToSet(worklist) = {}
    BY <1>1, NoElements DEF Closed
  <2>2. QED
    BY <2>1 DEF OnceInv, AllReachable
<1>4. QED
  BY <1>2, <1>3 DEF OnceInv, OnlyReachable, Numbered

(* A step that moves a name from one list to the next one. *)
LEMMA SameNames ==
  ASSUME OnceInv, Met' = Met, UNCHANGED worklist,
         phase \notin {"off", "crashed"} \/ phase' \in {"off", "crashed"}
  PROVE  OnlyReachable' /\ AllReachable'
BY DEF OnceInv, OnlyReachable, AllReachable, Reachable

(* What happens to the entry of the node that is being installed. *)
LEMMA EntryLeaves ==
  ASSUME WalkOK, entries # <<>>, entries' = Tail(entries), UNCHANGED node
  PROVE  EntryNames' \union {<<node, Entry>>} = EntryNames
<1>1. IsSequence(entries)
  BY DEF WalkOK, IsSequence
<1>2. ToSet(entries) = {Entry} \union ToSet(Tail(entries))
  BY <1>1, FirstAndRestAre DEF Entry
<1>3. QED
  BY <1>2 DEF EntryNames

LEMMA MakeSpecOnce == ASSUME WalkOK, OnceInv, MakeSpec PROVE OnceInv'
<1> DEFINE spec == [node |-> node, entry |-> Entry, flags |-> flags,
                    limits |-> IF IsNumeric(node) THEN limits ELSE NoLimits]
<1>1. /\ UNCHANGED <<properties, nprop, node, worklist>> /\ phase = "make" /\ phase' = "entry"
      /\ entries' = Tail(entries)
      /\ \/ specs' = Append(specs, spec) /\ skipped' = skipped
         \/ skipped' = skipped \union {<<node, Entry>>} /\ specs' = specs
  BY DEF MakeSpec
<1>2. NameOf(spec) = <<node, Entry>>
  BY DEF NameOf
<1>3. entries # <<>>
  BY <1>1 DEF WalkOK, EntryPhases
<1>4. EntryNames' \union {<<node, Entry>>} = EntryNames
  BY <1>1, <1>3, EntryLeaves
<1>5. PropertyNames' = PropertyNames
  BY <1>1 DEF PropertyNames
<1>6. IsSequence(specs)
  BY DEF OnceInv, Numbered
<1> HIDE DEF spec
<1>7. CASE specs' = Append(specs, spec) /\ skipped' = skipped
  <2>1. IsSequence(specs')
    BY <1>6, <1>7, Appended
  <2>2. SpecNames' = SpecNames \union {<<node, Entry>>}
    <3>1. /\ DOMAIN specs' = DOMAIN specs \union {Len(specs) + 1}
          /\ specs'[Len(specs) + 1] = spec
          /\ \A i \in DOMAIN specs : specs'[i] = specs[i]
      BY <1>6, <1>7, Appended
    <3>2. QED
      BY <1>2, <3>1 DEF SpecNames
  <2>3. Met' = Met
    BY <1>4, <1>5, <1>7, <2>2 DEF Met
  <2>4. OnlyReachable' /\ AllReachable'
    BY <1>1, <2>3, SameNames
  <2>5. QED
    BY <1>1, <2>1, <2>4 DEF OnceInv, Numbered, NothingPending
<1>8. CASE skipped' = skipped \union {<<node, Entry>>} /\ specs' = specs
  <2>1. Met' = Met
    <3>1. SpecNames' = SpecNames
      BY <1>8 DEF SpecNames
    <3>2. QED
      BY <1>4, <1>5, <1>8, <3>1 DEF Met
  <2>2. OnlyReachable' /\ AllReachable'
    BY <1>1, <2>1, SameNames
  <2>3. QED
    BY <1>1, <1>8, <2>2 DEF OnceInv, Numbered, NothingPending
<1>9. QED
  BY <1>1, <1>7, <1>8

LEMMA EntryThrowsOnce == ASSUME WalkOK, OnceInv, EntryThrows PROVE OnceInv'
<1>1. /\ UNCHANGED <<properties, nprop, node, worklist, specs>> /\ phase' = "entry"
      /\ phase \notin {"off", "crashed"}
      /\ entries # <<>> /\ entries' = Tail(entries)
      /\ skipped' = skipped \union {<<node, Entry>>}
  BY DEF EntryThrows
<1>2. EntryNames' \union {<<node, Entry>>} = EntryNames
  BY <1>1, EntryLeaves
<1>3. PropertyNames' = PropertyNames /\ SpecNames' = SpecNames
  BY <1>1 DEF PropertyNames, SpecNames
<1>4. Met' = Met
  BY <1>1, <1>2, <1>3 DEF Met
<1>5. OnlyReachable' /\ AllReachable'
  BY <1>1, <1>4, SameNames
<1>6. QED
  BY <1>1, <1>5 DEF OnceInv, Numbered, NothingPending

LEMMA InstallSpecOnce == ASSUME OnceInv, InstallSpec PROVE OnceInv'
<1> DEFINE spec == Head(specs)
           known == \E i \in DOMAIN properties : NameOf(properties[i].spec) = NameOf(spec)
           more == Append(properties, [id |-> nprop, spec |-> spec])
<1>1. /\ UNCHANGED <<node, worklist, entries, skipped>> /\ phase = "install"
      /\ specs' = Tail(specs) /\ phase' = IF Tail(specs) = <<>> THEN "next" ELSE "install"
      /\ IF known THEN UNCHANGED <<properties, nprop>>
                  ELSE properties' = more /\ nprop' = nprop + 1
  BY DEF InstallSpec, history
<1>2. entries = <<>> /\ specs # <<>> /\ IsSequence(specs) /\ IsSequence(properties)
  BY <1>1 DEF OnceInv, NothingPending, Numbered
<1>3. IsSequence(specs') /\ NothingPending'
  BY <1>1, <1>2, FirstAndRest DEF NothingPending
<1>4. SpecNames' \union {NameOf(spec)} = SpecNames
  <2>1. /\ 1 \in DOMAIN specs /\ spec = specs[1]
        /\ \A i \in DOMAIN specs' : i + 1 \in DOMAIN specs /\ specs'[i] = specs[i + 1]
        /\ \A i \in DOMAIN specs : i = 1 \/ (i - 1 \in DOMAIN specs' /\ specs[i] = specs'[i - 1])
    BY <1>1, <1>2, FirstAndRest
  <2> HIDE DEF spec
  <2>2. QED
    BY <2>1 DEF SpecNames
<1>5. EntryNames' = EntryNames
  BY <1>1 DEF EntryNames
<1>6. CASE known
  <2>1. UNCHANGED <<properties, nprop>> /\ PropertyNames' = PropertyNames
    BY <1>1, <1>6 DEF PropertyNames
  <2>2. NameOf(spec) \in PropertyNames
    BY <1>6 DEF PropertyNames
  <2> HIDE DEF spec
  <2>3. Met' = Met
    BY <1>1, <1>4, <1>5, <2>1, <2>2 DEF Met
  <2>4. OnlyReachable' /\ AllReachable'
    BY <1>1, <2>3, SameNames
  <2>5. QED
    BY <1>3, <2>1, <2>4 DEF OnceInv, Numbered
<1>7. CASE ~known
  <2>1. properties' = more /\ nprop' = nprop + 1
    BY <1>1, <1>7
  <2> HIDE DEF spec
  <2>2. /\ IsSequence(properties') /\ Len(properties) \in Nat
        /\ DOMAIN properties = 1..Len(properties)
        /\ Len(properties') = Len(properties) + 1
        /\ DOMAIN properties' = DOMAIN properties \union {Len(properties) + 1}
        /\ properties'[Len(properties) + 1] = [id |-> nprop, spec |-> spec]
        /\ \A i \in DOMAIN properties : properties'[i] = properties[i]
    BY <1>2, <2>1, Appended
  <2>3. nprop = Len(properties) + 1
    BY DEF OnceInv, Numbered
  <2>4. /\ \A i \in DOMAIN properties' : properties'[i].id = i
        /\ nprop' = Len(properties') + 1
    BY <2>1, <2>2, <2>3 DEF OnceInv, Numbered
  <2>5. \A i, j \in DOMAIN properties' :
          NameOf(properties'[i].spec) = NameOf(properties'[j].spec) => i = j
    <3> DEFINE last == Len(properties) + 1
    <3>1. properties'[last].spec = spec
      BY <2>2
    <3>2. \A i \in DOMAIN properties : NameOf(properties[i].spec) # NameOf(spec)
      BY <1>7
    <3>3. \A i \in DOMAIN properties' : i = last \/ i \in DOMAIN properties
      BY <2>2
    <3> HIDE DEF last
    <3>4. QED
      BY <2>2, <3>1, <3>2, <3>3 DEF OnceInv, Numbered
  <2>6. PropertyNames' = PropertyNames \union {NameOf(spec)}
    <3> DEFINE last == Len(properties) + 1
    <3>1. properties'[last].spec = spec /\ DOMAIN properties' = DOMAIN properties \union {last}
      BY <2>2
    <3> HIDE DEF last
    <3>2. QED
      BY <2>2, <3>1 DEF PropertyNames
  <2>7. Met' = Met
    BY <1>1, <1>4, <1>5, <2>6 DEF Met
  <2>8. OnlyReachable' /\ AllReachable'
    BY <1>1, <2>7, SameNames
  <2>9. QED
    BY <1>3, <2>2, <2>4, <2>5, <2>8 DEF OnceInv, Numbered
<1>8. QED
  BY <1>6, <1>7

LEMMA StartOnce == ASSUME Start PROVE OnceInv'
<1>1. /\ entries' = <<>> /\ specs' = <<>> /\ properties' = <<>> /\ nprop' = 1 /\ skipped' = {}
      /\ phase' = "next" /\ worklist' = <<Root>>
  BY DEF Start
<1>2. Numbered' /\ NothingPending'
  BY <1>1, NoElements DEF Numbered, NothingPending
<1>3. ToSet(worklist') = {Root}
  BY <1>1 DEF ToSet
<1>4. Met' = {}
  BY <1>1, NoElements DEF Met, PropertyNames, SpecNames, EntryNames
<1>5. OnlyReachable'
  BY <1>3, <1>4, ReachedIsClosed DEF OnlyReachable
<1>6. ASSUME NEW C \in SUBSET Nodes, Closed(C), Root \in C, NEW name \in Reachable
      PROVE  name[1] \in C
  BY <1>6, ReachedIsLeast DEF Reachable
<1>7. AllReachable'
  BY <1>1, <1>3, <1>6 DEF AllReachable, Reachable
<1>8. QED
  BY <1>2, <1>5, <1>7 DEF OnceInv

(* The node leaves the worklist: its names are now among its entries, its  *)
(* children in the worklist.                                               *)
LEMMA NextNodeOnce == ASSUME WalkOK, OnceInv, NextNode PROVE OnceInv'
<1> DEFINE n == Head(worklist)
           more == IF IsWalked(n) THEN Node[n].children ELSE <<>>
           handled == IsInstallable(n) /\ ~SelectorsRefused(n)
<1>1. /\ phase = "next" /\ worklist \in Seq(Nodes) /\ worklist # <<>>
      /\ worklist' = Tail(worklist) \o more /\ node' = n
      /\ phase' = IF handled THEN "entry" ELSE "next"
      /\ entries' = IF handled THEN Entries(n) ELSE <<>>
      /\ specs' = <<>> /\ UNCHANGED <<properties, nprop, skipped>>
  BY DEF NextNode, history, WalkOK
<1>2. n \in Nodes /\ more \in Seq(Nodes) /\ n \in ToSet(worklist)
  <2>1. n = worklist[1] /\ 1 \in DOMAIN worklist /\ n \in Nodes
    BY <1>1
  <2>2. QED
    BY <2>1, NodeMapAssumption DEF ToSet
<1>3. ToSet(worklist) = {n} \union ToSet(Tail(worklist))
  <2>1. IsSequence(worklist)
    BY <1>1 DEF IsSequence
  <2>2. QED
    BY <1>1, <2>1, FirstAndRestAre
<1>4. ToSet(worklist') = ToSet(Tail(worklist)) \union ToSet(more)
  <2> DEFINE t == Tail(worklist)
  <2>1. t \in Seq(Nodes) /\ more \in Seq(Nodes)
    BY <1>1, <1>2
  <2> HIDE DEF t, more
  <2>2. /\ Len(t \o more) = Len(t) + Len(more)
        /\ Len(t) \in Nat /\ Len(more) \in Nat
        /\ DOMAIN t = 1..Len(t) /\ DOMAIN more = 1..Len(more)
        /\ DOMAIN (t \o more) = 1..(Len(t) + Len(more))
        /\ \A i \in 1..(Len(t) + Len(more)) :
             (t \o more)[i] = IF i <= Len(t) THEN t[i] ELSE more[i - Len(t)]
    BY <2>1
  <2>3. \A i \in DOMAIN t : i \in DOMAIN (t \o more) /\ (t \o more)[i] = t[i]
    BY <2>2
  <2>4. \A i \in DOMAIN more : /\ i + Len(t) \in DOMAIN (t \o more)
                               /\ (t \o more)[i + Len(t)] = more[i]
    BY <2>2
  <2>5. \A i \in DOMAIN (t \o more) :
          \/ i \in DOMAIN t /\ (t \o more)[i] = t[i]
          \/ i - Len(t) \in DOMAIN more /\ (t \o more)[i] = more[i - Len(t)]
    BY <2>2
  <2>6. ToSet(t \o more) = ToSet(t) \union ToSet(more)
    BY <2>3, <2>4, <2>5 DEF ToSet
  <2>7. QED
    BY <1>1, <2>6 DEF t
<1>5. ToSet(more) = IF IsWalked(n) THEN ToSet(Node[n].children) ELSE {}
  BY NoElements
<1>6. entries = <<>> /\ specs = <<>>
  BY <1>1 DEF OnceInv, NothingPending
<1>7. EntryNames' = {<<n, e>> : e \in IF handled THEN ToSet(Entries(n)) ELSE {}}
  BY <1>1, NoElements DEF EntryNames
<1>8. Met = PropertyNames \union skipped /\ Met' = Met \union EntryNames'
  <2> HIDE DEF n, more, handled
  <2>1. /\ EntryNames = {} /\ SpecNames = {} /\ SpecNames' = {}
        /\ PropertyNames' = PropertyNames /\ skipped' = skipped
    BY <1>1, <1>6, NoElements DEF EntryNames, SpecNames, PropertyNames
  <2>2. QED
    BY <2>1 DEF Met
<1>9. handled <=> Handled(n)
  BY <1>2 DEF Handled
<1> HIDE DEF n, more, handled
<1>10. \A name \in Names : name[1] = n => name \in EntryNames'
  BY <1>7, <1>9, NamesAre
<1>11. EntryNames' \subseteq Reachable
  <2>1. n \in Reached
    BY <1>2 DEF OnceInv, OnlyReachable
  <2>2. \A e : e \in ToSet(Entries(n)) /\ handled => <<n, e>> \in Reachable
    BY <1>9, <2>1, NamesAre DEF Reachable
  <2>3. QED
    BY <1>7, <2>2
<1>12. OnlyReachable'
  <2>1. ToSet(more) \subseteq Reached
    BY <1>2, <1>5, ReachedIsClosed DEF OnceInv, OnlyReachable, Closed
  <2>2. Reachable' = Reachable /\ Reached' = Reached
    BY DEF Reachable
  <2>3. QED
    BY <1>3, <1>4, <1>8, <1>11, <2>1, <2>2 DEF OnceInv, OnlyReachable
<1>13. ASSUME NEW C \in SUBSET Nodes, Closed(C), ToSet(worklist') \subseteq C,
              NEW name \in Reachable
       PROVE  name \in Met' \/ name[1] \in C
  <2>1. C \union {n} \in SUBSET Nodes /\ ToSet(worklist) \subseteq C \union {n}
    BY <1>2, <1>3, <1>4, <1>13
  <2>2. Closed(C \union {n})
    BY <1>4, <1>5, <1>13 DEF Closed
  <2>3. name \in Met \/ name[1] \in C \union {n}
    BY <1>1, <2>1, <2>2 DEF OnceInv, AllReachable
  <2>4. QED
    BY <1>8, <1>10, <2>3 DEF Reachable
<1>14. AllReachable'
  BY <1>13 DEF AllReachable, Reachable
<1>15. Numbered'
  BY <1>1, NoElements DEF OnceInv, Numbered
<1>16. NothingPending'
  BY <1>1 DEF NothingPending
<1>17. QED
  BY <1>12, <1>14, <1>15, <1>16 DEF OnceInv

LEMMA OncePreserved == WalkOK /\ OnceInv /\ [Next]_vars => OnceInv'
<1> SUFFICES ASSUME WalkOK, OnceInv, [Next]_vars PROVE OnceInv'
  OBVIOUS
<1> DEFINE lists == <<worklist, node, entries, specs, properties, nprop, skipped>>
<1>1. ASSUME UNCHANGED lists PROVE Met' = Met /\ Numbered'
  BY <1>1 DEF OnceInv, Numbered, Met, PropertyNames, SpecNames, EntryNames
<1>2. ASSUME UNCHANGED lists, NothingPending',
             phase \notin {"off", "crashed"} \/ phase' \in {"off", "crashed"}
      PROVE  OnceInv'
  BY <1>1, <1>2, SameNames DEF OnceInv
<1>3. CASE Start \/ NextNode \/ MakeSpec \/ EntryThrows \/ InstallSpec
  BY <1>3, StartOnce, NextNodeOnce, MakeSpecOnce, EntryThrowsOnce, InstallSpecOnce
<1>4. CASE FinishNode
  BY <1>2, <1>4 DEF FinishNode, OnceInv, NothingPending, history
<1>5. CASE Finish
  BY <1>2, <1>5 DEF Finish, OnceInv, NothingPending, history
<1>6. CASE /\ phase \notin {"off", "crashed", "next", "done", "install"}
           /\ phase' \notin {"next", "done", "install"}
           /\ UNCHANGED lists
  BY <1>2, <1>6 DEF NothingPending
<1>7. CASE Crash
  BY <1>2, <1>7 DEF Crash, NothingPending, history
<1>8. CASE UNCHANGED <<walk, skipped>>
  <2>1. UNCHANGED lists /\ UNCHANGED phase
    BY <1>8 DEF walk
  <2> HIDE DEF lists
  <2>2. Met' = Met /\ Numbered'
    BY <1>1, <2>1
  <2>3. NothingPending'
    BY <2>1 DEF lists, OnceInv, NothingPending
  <2>4. OnlyReachable' /\ AllReachable'
    BY <2>1, <2>2 DEF lists, OnceInv, OnlyReachable, AllReachable, Reachable
  <2>5. QED
    BY <2>2, <2>3, <2>4 DEF OnceInv
<1>9. \/ Start \/ NextNode \/ MakeSpec \/ EntryThrows \/ InstallSpec \/ FinishNode \/ Finish
      \/ /\ phase \notin {"off", "crashed", "next", "done", "install"}
         /\ phase' \notin {"next", "done", "install"}
         /\ UNCHANGED lists
      \/ Crash
      \/ UNCHANGED <<walk, skipped>>
  BY DEF Next, vars, Walk, BeginEntry, LookUp, QueryAccess, Unlock, AfterAccess, FindLimits,
         Search, FinishSearch, SearchCrashes, StoreProps, ForeignLoads, ForeignSaves,
         history, walk
<1>10. QED
  BY <1>3, <1>4, <1>5, <1>6, <1>7, <1>8, <1>9

LEMMA OnceInvHolds == Spec => []OnceInv
<1>1. TypeInv => WalkOK
  BY DEF TypeInv
<1>2. QED
  BY <1>1, OnceInitially, OncePreserved, TypeInvHolds, PTL DEF Spec

(* A walk that ends has met every entry of every feature that can be       *)
(* reached, has made one property of each that did not fail, and none of   *)
(* anything else, with consecutive numbers: for any node map, whatever is  *)
(* in several categories and wherever the categories lead back to.         *)
THEOREM EveryFeatureIsInstalledOnce == Spec => []EveryFeatureOnce
BY OnceInvHolds, OnceInvImplies, PTL

-----------------------------------------------------------------------------
(* What is cached is what was found. Apart from the result of a search,    *)
(* all that the walk, its predecessors and the other process keep of a     *)
(* number is true of it, because the camera is in the state its features   *)
(* had at first whenever it is asked.                                      *)

MapIsTrue(map) == \A name \in OwnNames : name \in DOMAIN map => <<name, map[name]>> \in Truth

SpecIsTrue(spec) ==
  NameOf(spec) \in OwnNames =>
    <<NameOf(spec), [limits |-> spec.limits, flags |-> spec.flags]>> \in Truth

CachesAreTrue == MapIsTrue(dict) /\ MapIsTrue(file) /\ MapIsTrue(foreign)

ListsAreTrue ==
  /\ \A i \in DOMAIN specs : SpecIsTrue(specs[i])
  /\ \A i \in DOMAIN properties : SpecIsTrue(properties[i].spec)

(* What is known of the current entry. *)
EntryIsTrue ==
  phase \in EntryPhases /\ <<node, Entry>> \in OwnNames =>
    /\ phase = "unlock" =>
         /\ IsWritable(settings, 0, node)
         /\ flags = [writable |-> TRUE, playing |-> FALSE]
    /\ phase \in {"limits", "store", "make"} => flags = TrueAccess(node, Entry)
    /\ phase \in {"store", "make"} => limits \in RightLimits(node, Entry)

(* The nodes that are moved to an entry. *)
MovedSelectors == {Selector(name[1]) : name \in {m \in Names : m[2] # NoEntry}}

SelectorsAreSet ==
  phase \notin {"off", "crashed"} =>
    /\ \A m \in DOMAIN PowerOn : m \notin Controlling \union MovedSelectors => settings[m] = PowerOn[m]
    /\ phase \in EntryPhases /\ IsNumeric(node) /\ Selected /\ Selector(node) \in DOMAIN PowerOn =>
         settings[Selector(node)] = Entry

TruthInv == clean => CachesAreTrue /\ ListsAreTrue /\ EntryIsTrue /\ SelectorsAreSet

LEMMA EntriesEither ==
  ASSUME NEW n \in Nodes
  PROVE  \/ Entries(n) = <<NoEntry>>
         \/ /\ Selector(n) \in ToSet(Node[n].selectors)
            /\ ~IsUnsupported(Selector(n))
            /\ Len(SelectorEntries(Selector(n))) # 1
            /\ Entries(n) = SelectorEntries(Selector(n))
            /\ NoEntry \notin ToSet(Entries(n))
<1>1. CASE Node[n].selectors = <<>> \/ IsUnsupported(Node[n].selectors[1])
  BY <1>1 DEF Entries
<1>2. CASE ~(Node[n].selectors = <<>> \/ IsUnsupported(Node[n].selectors[1]))
  <2> DEFINE selector == Node[n].selectors[1]
             all == SelectorEntries(selector)
  <2>1. Node[n].selectors \in Seq(Nodes) /\ 1 \in DOMAIN Node[n].selectors /\ selector \in Nodes
    BY <1>2, NodeMapAssumption
  <2>2. selector \in ToSet(Node[n].selectors)
    BY <2>1 DEF ToSet
  <2>3. Node[selector].entries \in Seq(Int)
    BY <2>1, NodeMapAssumption
  <2>4. all \in Seq(Int)
    BY <2>3, AmongTakes DEF SelectorEntries
  <2>5. NoEntry \notin ToSet(all)
    BY <2>4, NodeMapAssumption DEF ToSet
  <2>6. Entries(n) = IF Len(all) = 1 THEN <<NoEntry>> ELSE all
    BY <1>2 DEF Entries
  <2> HIDE DEF all, selector
  <2>7. QED
    BY <1>2, <2>2, <2>5, <2>6 DEF Selector, all, selector
<1>3. QED
  BY <1>1, <1>2

LEMMA OnlyNoEntry == \A n \in Nodes : Entries(n) = <<NoEntry>> => ToSet(Entries(n)) = {NoEntry}
BY DEF ToSet

(* The name of an entry in the cache is its own, or that of several. *)
LEMMA CacheNameIsOwn ==
  ASSUME WalkOK, entries # <<>>
  PROVE  /\ <<node, Entry>> \in OwnNames => CacheName(node, Entry) = <<node, Entry>>
         /\ CacheName(node, Entry) \in OwnNames => CacheName(node, Entry) = <<node, Entry>>
<1>1. node \in Nodes /\ <<node, Entry>> \in Names
  BY EntryIsNamed DEF WalkOK
<1>2. <<node, Entry>> \in OwnNames => CacheName(node, Entry) = <<node, Entry>>
  BY DEF OwnNames, CacheName
<1>3. ASSUME CacheName(node, Entry) \in OwnNames PROVE CacheName(node, Entry) = <<node, Entry>>
  <2>1. CASE Node[node].kind # "integer" \/ Entry = NoEntry
    BY <2>1 DEF CacheName
  <2>2. CASE Node[node].kind = "integer" /\ Entry # NoEntry
    <3>1. <<node, NoEntry>> \in Names
      BY <1>3, <2>2 DEF CacheName, OwnNames, NumericNames
    <3>2. NoEntry \in ToSet(Entries(node)) /\ Entry \in ToSet(Entries(node))
      BY <1>1, <3>1, NamesAre
    <3>3. QED
      BY <1>1, <2>2, <3>2, EntriesEither, OnlyNoEntry
  <2>3. QED
    BY <2>1, <2>2
<1>4. QED
  BY <1>2, <1>3

(* A node without an entry of its own has no selector that is moved. *)
LEMMA DirectHasNoMovedSelector ==
  ASSUME NEW name \in Names, name[2] = NoEntry
  PROVE  MovedSelectors \intersect ToSet(Node[name[1]].selectors) = {}
<1> DEFINE n == name[1]
<1>1. Handled(n) /\ NoEntry \in ToSet(Entries(n)) /\ n \in Nodes
  BY NamesAre DEF Handled
<1>2. Entries(n) = <<NoEntry>>
  BY <1>1, EntriesEither
<1>3. SUFFICES ASSUME NEW other \in Names, other[2] # NoEntry,
                      Selector(other[1]) \in ToSet(Node[n].selectors)
               PROVE  FALSE
  BY DEF MovedSelectors
<1> DEFINE m == other[1]
           selector == Selector(m)
<1>4. m \in Nodes /\ other[2] \in ToSet(Entries(m))
  BY NamesAre DEF Handled
<1>5. /\ ~IsUnsupported(selector) /\ Len(SelectorEntries(selector)) # 1
      /\ Entries(m) = SelectorEntries(selector)
  BY <1>3, <1>4, EntriesEither, OnlyNoEntry
<1>6. Node[n].selectors \in Seq(Nodes) /\ Len(Node[n].selectors) <= 1
  BY <1>1, NodeMapAssumption DEF Handled, SelectorsRefused
<1>7. Node[n].selectors # <<>> /\ selector = Node[n].selectors[1]
  <2>1. PICK i \in DOMAIN Node[n].selectors : selector = Node[n].selectors[i]
    BY <1>3 DEF ToSet
  <2>2. i = 1
    BY <1>6, <2>1
  <2>3. QED
    BY <1>6, <2>1, <2>2
<1> HIDE DEF n, m, selector
<1>8. Entries(n) = SelectorEntries(selector)
  BY <1>5, <1>7 DEF Entries
<1>9. Len(<<NoEntry>>) = 1
  OBVIOUS
<1>10. QED
  BY <1>2, <1>5, <1>8, <1>9

(* Between two searches the camera has, as far as it matters, the settings *)
(* of before and the selector moved to the entry.                          *)
LEMMA StandsAsAtFirst ==
  ASSUME TypeInv, RestoreInv, SelectorsAreSet, clean,
         phase \in EntryPhases, search = "idle", IsNumeric(node)
  PROVE  /\ entries # <<>> /\ <<node, Entry>> \in Names /\ node \in Nodes
         /\ settings \in Settings /\ SettingsFor(node, Entry) \in Settings
         /\ \A m \in (Controlling \union ToSet(Node[node].selectors)) \intersect DOMAIN PowerOn :
              settings[m] = SettingsFor(node, Entry)[m]
<1> DEFINE s == SettingsFor(node, Entry)
<1>1. entries # <<>> /\ node \in Nodes /\ <<node, Entry>> \in Names /\ settings \in Settings
  BY EntryIsNamed DEF TypeInv, WalkOK, CameraOK
<1>2. s \in Settings /\ \A c \in Controlling : s[c] = PowerOn[c]
  BY <1>1, SettingsForEntry
<1>3. phase \notin {"off", "crashed"}
  BY DEF EntryPhases, NumericPhases
<1>4. \A c \in Controlling : settings[c] = PowerOn[c]
  BY <1>3 DEF RestoreInv, CameraOfPowerOn, Undisturbed, Moved
<1>5. ASSUME NEW m \in DOMAIN PowerOn, m \in ToSet(Node[node].selectors)
      PROVE  s[m] = settings[m]
  <2>1. CASE Entry = NoEntry
    <3>1. m \notin MovedSelectors
      BY <1>1, <1>5, <2>1, DirectHasNoMovedSelector
    <3>2. settings[m] = PowerOn[m]
      BY <1>3, <1>4, <3>1 DEF SelectorsAreSet
    <3>3. QED
      BY <2>1, <3>2 DEF SettingsFor
  <2>2. CASE Entry # NoEntry
    <3>1. m = Selector(node)
      <4>1. Node[node].selectors \in Seq(Nodes) /\ Len(Node[node].selectors) <= 1
        BY <1>1, NodeMapAssumption, NamesAre DEF Handled, SelectorsRefused
      <4>2. PICK i \in DOMAIN Node[node].selectors : m = Node[node].selectors[i]
        BY <1>5 DEF ToSet
      <4>3. i = 1
        BY <4>1, <4>2
      <4>4. QED
        BY <4>2, <4>3 DEF Selector
    <3>2. settings[m] = Entry
      BY <1>3, <1>5, <2>2, <3>1 DEF SelectorsAreSet, Selected
    <3>3. s[m] = Entry
      BY <1>5, <2>2, <3>1, CameraAssumption DEF SettingsFor
    <3>4. QED
      BY <3>2, <3>3
  <2>3. QED
    BY <2>1, <2>2
<1> HIDE DEF s
<1>6. \A m \in (Controlling \union ToSet(Node[node].selectors)) \intersect DOMAIN PowerOn :
        settings[m] = s[m]
  BY <1>2, <1>4, <1>5
<1>7. QED
  BY <1>1, <1>2, <1>6 DEF s

(* Then it answers for the entry as it would with these. *)
LEMMA AskedAsAtFirst ==
  ASSUME TypeInv, RestoreInv, SelectorsAreSet, clean,
         phase \in EntryPhases, search = "idle", IsNumeric(node)
  PROVE  /\ <<node, Entry>> \in Names /\ node \in Nodes
         /\ SettingsFor(node, Entry) \in Settings
         /\ Values(settings, node) = Values(SettingsFor(node, Entry), node)
         /\ \A l \in {0, 1} : IsWritable(settings, l, node) = IsWritable(SettingsFor(node, Entry), l, node)
<1> DEFINE s == SettingsFor(node, Entry)
<1>1. /\ <<node, Entry>> \in Names /\ node \in Nodes /\ settings \in Settings /\ s \in Settings
      /\ \A m \in (Controlling \union ToSet(Node[node].selectors)) \intersect DOMAIN PowerOn :
           settings[m] = s[m]
  BY StandsAsAtFirst
<1> HIDE DEF s
<1>2. /\ Values(settings, node) = Values(s, node)
      /\ \A l \in {0, 1} : IsWritable(settings, l, node) = IsWritable(s, l, node)
  BY <1>1, FeaturesAssumption
<1>3. QED
  BY <1>1, <1>2 DEF s

LEMMA NothingControls ==
  ASSUME NEW name \in Names, Invalidators(name[1]) = {}
  PROVE  TrueLimits(name[1], name[2]) = LimitsIn(SettingsFor(name[1], name[2]), name[1])
<1> DEFINE n == name[1]
           s == SettingsFor(n, name[2])
<1>1. n \in Nodes
  BY NamesAre DEF Handled
<1>2. Controls[n] = {}
  BY <1>1 DEF Controls
<1>3. s \in SettingsOf(n, name[2])
  BY SettingsOfEntry
<1>4. \A t \in SettingsOf(n, name[2]) : t = s
  <2>1. SUFFICES ASSUME NEW t \in SettingsOf(n, name[2]) PROVE t = s
    OBVIOUS
  <2>2. \A m \in DOMAIN PowerOn : t[m] = s[m]
    BY <1>2, <2>1 DEF SettingsOf
  <2>3. t \in [DOMAIN PowerOn -> Int] /\ s \in [DOMAIN PowerOn -> Int]
    BY <1>3, CameraAssumption DEF SettingsOf
  <2> HIDE DEF s
  <2>4. QED
    BY <2>2, <2>3
<1>5. SettingsOf(n, name[2]) = {s}
  BY <1>3, <1>4
<1>6. s \in Settings
  BY <1>3 DEF SettingsOf
<1> HIDE DEF s
<1>7. LimitsIn(s, n).min \in Int /\ LimitsIn(s, n).max \in Int
  BY <1>1, <1>6, CameraLimits DEF WellLimited
<1>8. \A x \in Int : Min({x}) = x /\ Max({x}) = x
  <2>1. SUFFICES ASSUME NEW x \in Int PROVE Min({x}) = x /\ Max({x}) = x
    OBVIOUS
  <2>2. IsFiniteSet({x}) /\ {x} # {} /\ {x} \subseteq Int
    BY FS_Singleton
  <2>3. QED
    BY <2>2, MinMax
<1>9. TrueLimits(n, name[2]) = [min |-> Min({LimitsIn(t, n).min : t \in {s}}),
                                max |-> Max({LimitsIn(t, n).max : t \in {s}})]
  BY <1>5 DEF TrueLimits, LimitsOver
<1>10. /\ {LimitsIn(t, n).min : t \in {s}} = {LimitsIn(s, n).min}
       /\ {LimitsIn(t, n).max : t \in {s}} = {LimitsIn(s, n).max}
  OBVIOUS
<1>11. TrueLimits(n, name[2]) = [min |-> LimitsIn(s, n).min, max |-> LimitsIn(s, n).max]
  BY <1>7, <1>8, <1>9, <1>10
<1>12. QED
  BY <1>11 DEF LimitsIn, s

LEMMA CleanBefore == HistoryOK /\ [Next]_vars /\ clean' => clean
BY DEF HistoryOK, Next, vars, Walk, Start, NextNode, BeginEntry, LookUp, QueryAccess, Unlock,
       FindLimits, Search, FinishSearch, SearchCrashes, StoreProps, MakeSpec, EntryThrows,
       FinishNode, InstallSpec, Finish, Crash, ForeignLoads, ForeignSaves, history

(* A search writes controls only. *)
LEMMA SearchMovesControls ==
  ASSUME TypeInv, RestoreInv, clean, phase # "crashed", ApplyExtreme \/ ResetValue
  PROVE  \A m \in DOMAIN PowerOn : m \notin Controlling => settings'[m] = settings[m]
<1>1. /\ target \in Nodes /\ order \in Orders /\ CameraOK /\ position \in Nat \ {0}
      /\ search \in {"apply", "reset"} /\ saved = SavedControls(target)
  BY DEF TypeInv, SearchOK, ApplyExtreme, ResetValue, RestoreInv, SearchCanUndo, Undisturbed
<1>2. position <= Len(saved)
  BY DEF ApplyExtreme, ResetValue, RestoreInv, SearchCanUndo, Undisturbed
<1>3. position \in DOMAIN saved
  BY <1>1, <1>2, SavedWith
<1>4. saved[position].node \in Controlling
  BY <1>1, <1>3, SavedWith
<1>5. \E v : Write(saved[position].node, v)
  BY DEF ApplyExtreme, ResetValue
<1>6. QED
  BY <1>1, <1>4, <1>5, WriteTouchesOne

LEMMA SelectorsStaySet ==
  ASSUME TypeInv, RestoreInv, SelectorsAreSet, clean, [Next]_vars
  PROVE  SelectorsAreSet'
<1> USE DEF EntryPhases, NumericPhases
<1>1. settings \in [DOMAIN PowerOn -> Int]
  BY CameraAssumption DEF TypeInv, CameraOK
<1>2. CASE Start
  BY <1>2 DEF Start, SelectorsAreSet
<1>3. CASE BeginEntry
  <2>1. /\ phase = "entry" /\ settings' = SelectEntry(node) /\ UNCHANGED <<node, entries>>
        /\ entries # <<>>
    BY <1>3 DEF BeginEntry
  <2>2. <<node, Entry>> \in Names /\ Entry' = Entry
    BY <2>1, EntryIsNamed DEF TypeInv, Entry
  <2>3. Selected => Selector(node) \in MovedSelectors
    BY <2>2 DEF MovedSelectors, Selected
  <2>4. \A m \in DOMAIN PowerOn :
          m \notin Controlling \union MovedSelectors => settings'[m] = settings[m]
    BY <1>1, <2>1, <2>3 DEF SelectEntry
  <2>5. IsNumeric(node) /\ Selected /\ Selector(node) \in DOMAIN PowerOn =>
          settings'[Selector(node)] = Entry
    BY <1>1, <2>1 DEF SelectEntry
  <2>6. Selected' = Selected /\ Selector(node)' = Selector(node)
    BY <2>1, <2>2 DEF Selected, Selector
  <2>7. QED
    BY <2>1, <2>2, <2>4, <2>5, <2>6 DEF SelectorsAreSet
<1>4. CASE Search /\ (ApplyExtreme \/ ResetValue)
  <2>1. phase = "limits" /\ UNCHANGED <<phase, node, entries>>
    BY <1>4 DEF Search, walk
  <2>2. \A m \in DOMAIN PowerOn : m \notin Controlling => settings'[m] = settings[m]
    BY <1>4, <2>1, SearchMovesControls
  <2>3. entries # <<>> /\ <<node, Entry>> \in Names /\ node \in Nodes
    BY <2>1, EntryIsNamed DEF TypeInv, WalkOK
  <2>4. Selected => Selector(node) \notin Controlling
    BY <2>3, SelectorIsNamed, ControlsAssumption DEF Selected
  <2>5. Selected' = Selected /\ Selector(node)' = Selector(node) /\ Entry' = Entry
    BY <2>1 DEF Selected, Selector, Entry
  <2>6. QED
    BY <2>1, <2>2, <2>4, <2>5 DEF SelectorsAreSet
<1>5. CASE /\ UNCHANGED settings
           /\ phase' \in EntryPhases => phase \in EntryPhases /\ UNCHANGED <<node, entries>>
           /\ phase \in {"off", "crashed"} => phase' \in {"off", "crashed"}
  <2>1. UNCHANGED <<node, entries>> =>
          Selected' = Selected /\ Selector(node)' = Selector(node) /\ Entry' = Entry
    BY DEF Selected, Selector, Entry
  <2>2. QED
    BY <1>5, <2>1 DEF SelectorsAreSet
<1>6. CASE Search /\ ~(ApplyExtreme \/ ResetValue)
  BY <1>5, <1>6 DEF Search, SaveSettings, MeasureLimits, TakeExtremes, walk, camera
<1>7. CASE FindLimits \/ FinishSearch \/ SearchCrashes
  BY <1>5, <1>7 DEF FindLimits, FinishSearch, SearchEnds, SearchCrashes, camera
<1>8. CASE NextNode \/ LookUp \/ QueryAccess \/ Unlock \/ StoreProps
  BY <1>5, <1>8 DEF NextNode, LookUp, QueryAccess, Unlock, AfterAccess, StoreProps, camera
<1>9. CASE MakeSpec \/ EntryThrows \/ FinishNode \/ InstallSpec
  BY <1>5, <1>9 DEF MakeSpec, EntryThrows, FinishNode, InstallSpec, camera
<1>10. CASE Finish \/ Crash \/ ForeignLoads \/ ForeignSaves \/ UNCHANGED vars
  BY <1>5, <1>10 DEF Finish, Crash, ForeignLoads, ForeignSaves, vars, walk, camera
<1>11. QED
  BY <1>2, <1>3, <1>4, <1>6, <1>7, <1>8, <1>9, <1>10 DEF Next, Walk

LEMMA CachesStayTrue ==
  ASSUME TypeInv, CachesAreTrue, EntryIsTrue, [Next]_vars
  PROVE  CachesAreTrue'
<1>1. CASE Start
  BY <1>1 DEF Start, LoadCacheFile, CachesAreTrue, MapIsTrue
<1>2. CASE StoreProps
  <2> DEFINE name == CacheName(node, Entry)
             props == [limits |-> limits, flags |-> flags]
  <2>1. phase = "store" /\ dict' = Stored(dict, name, props) /\ UNCHANGED <<file, foreign>>
    BY <1>2 DEF StoreProps
  <2>2. entries # <<>> /\ WalkOK
    BY <2>1 DEF TypeInv, WalkOK, EntryPhases, NumericPhases
  <2>3. name \in OwnNames => name = <<node, Entry>> /\ name[1] = node /\ name[2] = Entry
    BY <2>2, CacheNameIsOwn
  <2>4. name \in OwnNames => limits \in RightLimits(node, Entry) /\ flags = TrueAccess(node, Entry)
    BY <2>1, <2>3 DEF EntryIsTrue, EntryPhases, NumericPhases
  <2>5. name \in OwnNames => <<name, props>> \in Truth
    <3>1. SUFFICES ASSUME name \in OwnNames PROVE <<name, props>> \in Truth
      OBVIOUS
    <3>2. name \in NumericNames /\ limits \in RightLimits(name[1], name[2])
          /\ flags = TrueAccess(name[1], name[2])
      BY <2>3, <2>4, <3>1 DEF OwnNames
    <3> HIDE DEF name
    <3>3. QED
      BY <3>2, TruthOf
  <2> HIDE DEF name, props
  <2>6. MapIsTrue(dict')
    BY <2>1, <2>5 DEF CachesAreTrue, MapIsTrue, Stored
  <2>7. QED
    BY <2>1, <2>6 DEF CachesAreTrue, MapIsTrue
<1>3. CASE Finish
  BY <1>3 DEF Finish, SavedFile, CachesAreTrue, MapIsTrue
<1>4. CASE ForeignLoads
  BY <1>4 DEF ForeignLoads, CachesAreTrue, MapIsTrue
<1>5. CASE ForeignSaves
  <2>1. PICK known \in Truth :
          /\ file' = Stored(foreign, known[1], known[2])
          /\ foreign' = file' /\ UNCHANGED dict
    BY <1>5 DEF ForeignSaves
  <2>2. <<known[1], known[2]>> \in Truth
    BY TruthTyped
  <2>3. MapIsTrue(file')
    BY <2>1, <2>2 DEF CachesAreTrue, MapIsTrue, Stored
  <2>4. QED
    BY <2>1, <2>3 DEF CachesAreTrue, MapIsTrue
<1>6. CASE UNCHANGED cache
  BY <1>6 DEF cache, CachesAreTrue, MapIsTrue
<1>7. Start \/ StoreProps \/ Finish \/ ForeignLoads \/ ForeignSaves \/ UNCHANGED cache
  BY DEF Next, vars, Walk, NextNode, BeginEntry, LookUp, QueryAccess, Unlock, FindLimits,
         Search, FinishSearch, SearchCrashes, MakeSpec, EntryThrows, FinishNode,
         InstallSpec, Crash
<1>8. QED
  BY <1>1, <1>2, <1>3, <1>4, <1>5, <1>6, <1>7

LEMMA ListsStayTrue ==
  ASSUME TypeInv, OnceInv, ListsAreTrue, EntryIsTrue, [Next]_vars
  PROVE  ListsAreTrue'
<1>1. IsSequence(specs) /\ IsSequence(properties)
  BY DEF OnceInv, Numbered
<1>2. CASE Start \/ NextNode
  <2>1. specs' = <<>> /\ (properties' = <<>> \/ properties' = properties)
    BY <1>2 DEF Start, NextNode
  <2>2. QED
    BY <2>1, NoElements DEF ListsAreTrue
<1>3. CASE MakeSpec
  <2> DEFINE spec == [node |-> node, entry |-> Entry, flags |-> flags,
                      limits |-> IF IsNumeric(node) THEN limits ELSE NoLimits]
  <2>1. /\ phase = "make" /\ UNCHANGED properties
        /\ specs' = Append(specs, spec) \/ specs' = specs
    BY <1>3 DEF MakeSpec
  <2>2. SpecIsTrue(spec)
    <3>1. SUFFICES ASSUME <<node, Entry>> \in OwnNames
                   PROVE  <<<<node, Entry>>, [limits |-> limits, flags |-> flags]>> \in Truth
      BY DEF SpecIsTrue, NameOf, OwnNames, NumericNames
    <3>2. limits \in RightLimits(node, Entry) /\ flags = TrueAccess(node, Entry)
      BY <2>1, <3>1 DEF EntryIsTrue, EntryPhases, NumericPhases
    <3>3. <<node, Entry>> \in NumericNames
      BY <3>1 DEF OwnNames
    <3>4. QED
      BY <3>2, <3>3, TruthOf
  <2> HIDE DEF spec
  <2>3. QED
    BY <1>1, <2>1, <2>2, Appended DEF ListsAreTrue
<1>4. CASE InstallSpec
  <2> DEFINE spec == Head(specs)
             new == [id |-> nprop, spec |-> spec]
  <2>1. /\ phase = "install" /\ specs' = Tail(specs)
        /\ properties' = Append(properties, new) \/ properties' = properties
    BY <1>4 DEF InstallSpec
  <2>2. specs # <<>>
    BY <2>1 DEF OnceInv, NothingPending
  <2>3. SpecIsTrue(spec)
    BY <1>1, <2>2, FirstAndRest DEF ListsAreTrue
  <2>4. \A i \in DOMAIN specs' : SpecIsTrue(specs'[i])
    BY <1>1, <2>1, <2>2, FirstAndRest DEF ListsAreTrue
  <2>5. new.spec = spec
    OBVIOUS
  <2> HIDE DEF spec, new
  <2>6. \A i \in DOMAIN properties' : SpecIsTrue(properties'[i].spec)
    BY <1>1, <2>1, <2>3, <2>5, Appended DEF ListsAreTrue
  <2>7. QED
    BY <2>4, <2>6 DEF ListsAreTrue
<1>5. CASE UNCHANGED <<specs, properties>>
  BY <1>5 DEF ListsAreTrue
<1>6. Start \/ NextNode \/ MakeSpec \/ InstallSpec \/ UNCHANGED <<specs, properties>>
  BY DEF Next, vars, Walk, BeginEntry, LookUp, QueryAccess, Unlock, FindLimits,
         Search, FinishSearch, SearchCrashes, StoreProps, EntryThrows, FinishNode,
         Finish, Crash, ForeignLoads, ForeignSaves, walk
<1>7. QED
  BY <1>2, <1>3, <1>4, <1>5, <1>6

LEMMA AccessIsTrue ==
  ASSUME TypeInv, RestoreInv, SelectorsAreSet, clean, <<node, Entry>> \in OwnNames, UNCHANGED <<node, entries>>
  PROVE  /\ QueryAccess => EntryIsTrue'
         /\ EntryIsTrue /\ Unlock => EntryIsTrue'
<1> DEFINE s == SettingsFor(node, Entry)
           now == IsWritable(settings, 0, node)
           playing == IsWritable(settings, 1, node)
<1>1. IsNumeric(node) /\ CameraOK /\ WalkOK
  BY DEF OwnNames, NumericNames, TypeInv
<1>2. /\ TrueAccess(node, Entry)' = TrueAccess(node, Entry)
      /\ Entry' = Entry /\ <<node, Entry>>' = <<node, Entry>>
  BY DEF Entry, TrueAccess, SettingsFor, Selector
<1>3. ASSUME phase \in {"access", "unlock"}
      PROVE  /\ search = "idle" /\ now \in BOOLEAN /\ playing \in BOOLEAN
             /\ TrueAccess(node, Entry) = [writable |-> now \/ CanLaterBeWritable[node],
                                           playing |-> now /\ playing]
  <2>1. search = "idle"
    BY <1>3 DEF RestoreInv, SearchIsWhereItIs
  <2>2. node \in Nodes /\ now = IsWritable(s, 0, node) /\ playing = IsWritable(s, 1, node)
    BY <1>1, <1>3, <2>1, AskedAsAtFirst DEF EntryPhases
  <2>3. now \in BOOLEAN /\ playing \in BOOLEAN
    BY <1>1, <2>2, CameraAssumption DEF CameraOK
  <2>4. TrueAccess(node, Entry) = [writable |-> IsWritable(s, 0, node) \/ CanLaterBeWritable[node],
                                   playing |-> IsWritable(s, 0, node) /\ IsWritable(s, 1, node)]
    BY DEF TrueAccess
  <2> HIDE DEF s, now, playing
  <2>5. QED
    BY <2>1, <2>2, <2>3, <2>4
<1>4. ASSUME QueryAccess PROVE EntryIsTrue'
  <2>1. phase = "access" /\ locked = 0
    BY <1>4 DEF QueryAccess, RestoreInv, CameraOfPowerOn, Undisturbed
  <2>2. /\ flags' = [writable |-> now \/ CanLaterBeWritable[node], playing |-> FALSE]
        /\ IF now THEN phase' = "unlock" ELSE phase' = "limits"
        /\ UNCHANGED settings
    BY <1>1, <1>4, <2>1 DEF QueryAccess, MayBeWritten, AfterAccess
  <2>3. now' = now
    BY <2>2
  <2>4. CASE now
    <3>1. flags' = [writable |-> TRUE, playing |-> FALSE] /\ phase' = "unlock"
      BY <2>2, <2>4
    <3>2. QED
      BY <2>3, <2>4, <3>1 DEF EntryIsTrue
  <2>5. CASE ~now
    <3>1. phase' = "limits"
      BY <2>2, <2>5
    <3>2. flags' = TrueAccess(node, Entry)
      BY <1>3, <2>1, <2>2, <2>5
    <3>3. QED
      BY <1>2, <3>1, <3>2 DEF EntryIsTrue
  <2>6. QED
    BY <2>4, <2>5
<1>5. ASSUME EntryIsTrue, Unlock PROVE EntryIsTrue'
  <2>1. phase = "unlock" /\ locked = 1
    BY <1>5 DEF Unlock, RestoreInv, CameraOfPowerOn, Undisturbed
  <2>2. now /\ flags = [writable |-> TRUE, playing |-> FALSE]
    BY <1>5, <2>1 DEF EntryIsTrue, EntryPhases
  <2>3. flags' = [writable |-> TRUE, playing |-> playing] /\ phase' = "limits"
    BY <1>1, <1>5, <2>1, <2>2 DEF Unlock, AfterAccess
  <2>4. flags' = TrueAccess(node, Entry)
    <3>1. TrueAccess(node, Entry) = [writable |-> now \/ CanLaterBeWritable[node],
                                     playing |-> now /\ playing]
      BY <1>3, <2>1
    <3>2. playing \in BOOLEAN
      BY <1>3, <2>1
    <3> HIDE DEF now, playing
    <3>3. QED
      BY <2>2, <2>3, <3>1, <3>2
  <2>5. QED
    BY <1>2, <2>3, <2>4 DEF EntryIsTrue
<1>6. QED
  BY <1>4, <1>5

LEMMA EntryStaysTrue ==
  ASSUME TypeInv, RestoreInv, CachesAreTrue, EntryIsTrue, SelectorsAreSet, clean,
         SearchedLimitsAreTrue, [Next]_vars
  PROVE  EntryIsTrue'
<1>1. SUFFICES ASSUME (phase \in {"unlock", "limits", "store", "make"})',
                      (<<node, Entry>> \in OwnNames)'
               PROVE  EntryIsTrue'
  BY DEF EntryIsTrue
<1>2. WalkOK /\ CameraOK
  BY DEF TypeInv
<1>3. ASSUME UNCHANGED <<node, entries>>
      PROVE  /\ <<node, Entry>> \in OwnNames
             /\ TrueAccess(node, Entry)' = TrueAccess(node, Entry)
             /\ RightLimits(node, Entry)' = RightLimits(node, Entry)
  BY <1>1, <1>3 DEF Entry
<1>4. CASE LookUp
  <2> DEFINE name == CacheName(node, Entry)
  <2>1. UNCHANGED <<node, entries>> /\ phase = "lookup"
    BY <1>4 DEF LookUp
  <2>2. name \in DOMAIN dict
    BY <1>1, <1>4 DEF LookUp
  <2>3. limits' = dict[name].limits /\ flags' = dict[name].flags /\ phase' = "make"
    BY <1>4, <2>2 DEF LookUp
  <2>4. entries # <<>> /\ <<node, Entry>> \in OwnNames
    BY <1>2, <1>3, <2>1 DEF WalkOK, EntryPhases, NumericPhases
  <2>5. name = <<node, Entry>>
    BY <1>2, <2>4, CacheNameIsOwn
  <2>6. <<<<node, Entry>>, dict[name]>> \in Truth
    BY <2>2, <2>4, <2>5 DEF CachesAreTrue, MapIsTrue
  <2>7. limits' \in RightLimits(node, Entry) /\ flags' = TrueAccess(node, Entry)
    BY <2>3, <2>6, TruthHas
  <2>8. QED
    BY <1>3, <2>1, <2>3, <2>7 DEF EntryIsTrue
<1>5. CASE QueryAccess \/ Unlock
  <2>1. UNCHANGED <<node, entries>>
    BY <1>5 DEF QueryAccess, Unlock
  <2>2. QED
    BY <1>3, <1>5, <2>1, AccessIsTrue
<1>6. CASE FindLimits
  <2>1. /\ UNCHANGED <<node, entries, flags>> /\ phase = "limits" /\ phase' = "store"
        /\ search = "idle" /\ (LimitsDirect(node) \/ LimitsKnown(node))
    BY <1>6 DEF FindLimits
  <2>2. <<node, Entry>> \in OwnNames /\ <<node, Entry>> \in Names /\ IsNumeric(node)
    BY <1>3, <2>1 DEF OwnNames, NumericNames
  <2>3. flags = TrueAccess(node, Entry)
    BY <2>1, <2>2 DEF EntryIsTrue, EntryPhases, NumericPhases
  <2>4. limits' \in RightLimits(node, Entry)
    <3>1. CASE LimitsDirect(node)
      <4>1. limits' = LimitsIn(settings, node) /\ Invalidators(node) = {}
        BY <3>1 DEF LimitsDirect
      <4>2. Values(settings, node) = Values(SettingsFor(node, Entry), node)
        BY <2>1, <2>2, AskedAsAtFirst DEF EntryPhases, NumericPhases
      <4>3. TrueLimits(node, Entry) = LimitsIn(SettingsFor(node, Entry), node)
        BY <2>2, <4>1, NothingControls
      <4>4. limits' = TrueLimits(node, Entry)
        BY <4>1, <4>2, <4>3 DEF LimitsIn
      <4>5. CornersTell(node, Entry)
        BY <4>1 DEF CornersTell, NeedsSearch
      <4>6. QED
        BY <4>4, <4>5 DEF RightLimits
    <3>2. CASE LimitsKnown(node)
      BY <2>2, <3>2 DEF LimitsKnown, OwnNames, ByName
    <3>3. QED
      BY <2>1, <3>1, <3>2
  <2>5. QED
    BY <1>3, <2>1, <2>3, <2>4 DEF EntryIsTrue
<1>7. CASE FinishSearch
  <2>1. /\ UNCHANGED <<node, entries, flags, limits>> /\ phase = "limits" /\ phase' = "store"
        /\ search = "reset"
    BY <1>7 DEF FinishSearch, SearchEnds
  <2>2. <<node, Entry>> \in OwnNames
    BY <1>3, <2>1
  <2>3. flags = TrueAccess(node, Entry) /\ limits \in RightLimits(node, Entry)
    BY <2>1, <2>2 DEF EntryIsTrue, EntryPhases, NumericPhases, SearchedLimitsAreTrue
  <2>4. QED
    BY <1>3, <2>1, <2>3 DEF EntryIsTrue
<1>8. CASE Search
  <2>1. UNCHANGED <<node, entries, flags, phase>> /\ phase = "limits"
    BY <1>8 DEF Search, walk
  <2>2. QED
    BY <1>3, <2>1 DEF EntryIsTrue, EntryPhases, NumericPhases
<1>9. CASE StoreProps
  <2>1. UNCHANGED <<node, entries, flags, limits>> /\ phase = "store" /\ phase' = "make"
    BY <1>9 DEF StoreProps, searching
  <2>2. QED
    BY <1>3, <2>1 DEF EntryIsTrue, EntryPhases, NumericPhases
<1>10. CASE UNCHANGED <<settings, walk, flags, limits>>
  <2>1. UNCHANGED <<node, entries, phase>>
    BY <1>10 DEF walk
  <2>2. QED
    BY <1>3, <1>10, <2>1 DEF EntryIsTrue
<1>11. QED
  BY <1>1, <1>4, <1>5, <1>6, <1>7, <1>8, <1>9, <1>10
     DEF Next, vars, Walk, Start, NextNode, BeginEntry, SearchCrashes, MakeSpec, EntryThrows,
         FinishNode, InstallSpec, Finish, Crash, ForeignLoads, ForeignSaves, camera, searching

LEMMA TruthInitially == Init => TruthInv
<1> SUFFICES ASSUME Init PROVE CachesAreTrue /\ ListsAreTrue /\ EntryIsTrue /\ SelectorsAreSet
  BY DEF TruthInv
<1>2. CachesAreTrue
  BY DEF Init, CachesAreTrue, MapIsTrue
<1>3. ListsAreTrue
  BY NoElements DEF Init, ListsAreTrue
<1>4. EntryIsTrue /\ SelectorsAreSet
  BY DEF Init, EntryIsTrue, EntryPhases, NumericPhases, SelectorsAreSet
<1>5. QED
  BY <1>2, <1>3, <1>4

LEMMA TruthPreserved ==
  /\ TypeInv /\ RestoreInv /\ OnceInv /\ TruthInv
  /\ clean => SearchedLimitsAreTrue
  /\ [Next]_vars
  => TruthInv'
<1> SUFFICES ASSUME TypeInv, RestoreInv, OnceInv, TruthInv, clean => SearchedLimitsAreTrue,
                    [Next]_vars, clean'
             PROVE  CachesAreTrue' /\ ListsAreTrue' /\ EntryIsTrue' /\ SelectorsAreSet'
  BY DEF TruthInv
<1>1. clean
  BY CleanBefore DEF TypeInv
<1>2. CachesAreTrue /\ ListsAreTrue /\ EntryIsTrue /\ SelectorsAreSet /\ SearchedLimitsAreTrue
  BY <1>1 DEF TruthInv
<1>3. QED
  BY <1>1, <1>2, CachesStayTrue, ListsStayTrue, EntryStaysTrue, SelectorsStaySet

LEMMA TruthImplies == TruthInv /\ (clean => SearchedLimitsAreTrue) => LimitsAreTrue
BY DEF LimitsAreTrue, TruthInv, CachesAreTrue, MapIsTrue, ListsAreTrue, SpecIsTrue

-----------------------------------------------------------------------------
(* cartesian_product: every combination is one of those that are listed.   *)

Times(lists, i, p) == p * Len(lists[i])
DividedBy(lists, k, q) == q \div Len(lists[Len(lists) + 1 - k])

LEMMA CombinationsIsALoop ==
  ASSUME NEW lists, Len(lists) \in Nat
  PROVE  \E product :
           /\ product[0] = 1
           /\ \A i \in 1..Len(lists) : product[i] = Times(lists, i, product[i - 1])
           /\ Combinations(lists) = product[Len(lists)]
<1> DEFINE n == Len(lists)
           Body(f, m) == [i \in 0..m |-> IF i = 0 THEN 1 ELSE Times(lists, i, f[i - 1])]
           Good == {m \in Nat : \E f : f = Body(f, m)}
<1>1. 0 \in Good
  <2>1. [i \in 0..0 |-> 1] = Body([i \in 0..0 |-> 1], 0)
    OBVIOUS
  <2>2. QED
    BY <2>1
<1>2. ASSUME NEW m \in Nat, m \in Good PROVE m + 1 \in Good
  <2>1. PICK f : f = Body(f, m)
    BY <1>2
  <2> DEFINE more == [i \in 0..(m + 1) |-> IF i = m + 1 THEN Times(lists, m + 1, f[m]) ELSE f[i]]
  <2>2. more = Body(more, m + 1)
    <3>1. \A i \in 0..(m + 1) : more[i] = IF i = 0 THEN 1 ELSE Times(lists, i, more[i - 1])
      BY <2>1
    <3> HIDE DEF more
    <3>2. QED
      BY <3>1 DEF more
  <2>3. m + 1 \in Nat
    OBVIOUS
  <2> HIDE DEF more, Body
  <2>4. QED
    BY <2>2, <2>3
<1>3. \E f : f = Body(f, n)
  <2> HIDE DEF Good
  <2>1. n \in Good
    BY <1>1, <1>2, Induction
  <2>2. QED
    BY <2>1 DEF Good
<1>4. Combinations(lists) = (CHOOSE f : f = Body(f, n))[n]
  BY DEF Combinations, Times
<1> DEFINE chosen == CHOOSE f : f = Body(f, n)
<1>5. chosen = Body(chosen, n)
  BY <1>3
<1> HIDE DEF chosen
<1>6. chosen[0] = 1 /\ \A i \in 1..n : chosen[i] = Times(lists, i, chosen[i - 1])
  BY <1>5
<1>7. QED
  BY <1>4, <1>6 DEF chosen

LEMMA QuotientIsALoop ==
  ASSUME NEW lists, Len(lists) \in Nat, NEW first
  PROVE  /\ Quotient(lists, first)[0] = first
         /\ \A k \in 1..Len(lists) :
              Quotient(lists, first)[k] = DividedBy(lists, k, Quotient(lists, first)[k - 1])
<1> DEFINE n == Len(lists)
           Body(f, m) == [k \in 0..m |-> IF k = 0 THEN first ELSE DividedBy(lists, k, f[k - 1])]
           Good == {m \in Nat : \E f : f = Body(f, m)}
<1>1. 0 \in Good
  <2>1. [k \in 0..0 |-> first] = Body([k \in 0..0 |-> first], 0)
    OBVIOUS
  <2>2. QED
    BY <2>1
<1>2. ASSUME NEW m \in Nat, m \in Good PROVE m + 1 \in Good
  <2>1. PICK f : f = Body(f, m)
    BY <1>2
  <2> DEFINE more == [k \in 0..(m + 1) |-> IF k = m + 1 THEN DividedBy(lists, m + 1, f[m]) ELSE f[k]]
  <2>2. more = Body(more, m + 1)
    <3>1. \A k \in 0..(m + 1) : more[k] = IF k = 0 THEN first ELSE DividedBy(lists, k, more[k - 1])
      BY <2>1
    <3> HIDE DEF more
    <3>2. QED
      BY <3>1 DEF more
  <2>3. m + 1 \in Nat
    OBVIOUS
  <2> HIDE DEF more, Body
  <2>4. QED
    BY <2>2, <2>3
<1>3. \E f : f = Body(f, n)
  <2> HIDE DEF Good
  <2>1. n \in Good
    BY <1>1, <1>2, Induction
  <2>2. QED
    BY <2>1 DEF Good
<1>4. Quotient(lists, first) = CHOOSE f : f = Body(f, n)
  BY DEF Quotient, DividedBy
<1> DEFINE chosen == CHOOSE f : f = Body(f, n)
<1>5. chosen = Body(chosen, n)
  BY <1>3
<1> HIDE DEF chosen
<1>6. chosen[0] = first /\ \A k \in 1..n : chosen[k] = DividedBy(lists, k, chosen[k - 1])
  BY <1>5
<1>7. QED
  BY <1>4, <1>6 DEF chosen

LEMMA DivideAgain ==
  ASSUME NEW q \in Nat, NEW size \in Nat, NEW d \in Nat, d < size
  PROVE  (q * size + d) \div size = q /\ (q * size + d) % size = d
<1>1. QED
  BY Z3

ListsOK(lists) == Len(lists) \in Nat /\ \A i \in 1..Len(lists) : Len(lists[i]) \in Nat

(* One place in each of the lists. *)
Places(lists) == {f \in [1..Len(lists) -> Nat] : \A i \in 1..Len(lists) : f[i] \in 1..Len(lists[i])}

LEMMA CombinationsTyped ==
  ASSUME NEW lists, ListsOK(lists)
  PROVE  Combinations(lists) \in Nat
<1> DEFINE n == Len(lists)
<1>1. n \in Nat /\ \A i \in 1..n : Len(lists[i]) \in Nat
  BY DEF ListsOK
<1>2. PICK product :
        /\ product[0] = 1
        /\ \A i \in 1..n : product[i] = Times(lists, i, product[i - 1])
        /\ Combinations(lists) = product[n]
  BY <1>1, CombinationsIsALoop
<1> DEFINE Good == {i \in Nat : i <= n => product[i] \in Nat}
<1>3. 0 \in Good
  BY <1>2
<1>4. ASSUME NEW i \in Nat, i \in Good PROVE i + 1 \in Good
  <2>1. SUFFICES ASSUME i + 1 <= n PROVE product[i + 1] \in Nat
    OBVIOUS
  <2>2. i + 1 \in 1..n /\ (i + 1) - 1 = i /\ i <= n
    BY <1>1, <2>1
  <2>3. product[i] \in Nat /\ product[i + 1] = product[i] * Len(lists[i + 1])
    BY <1>2, <1>4, <2>2 DEF Times
  <2>4. QED
    BY <1>1, <2>2, <2>3
<1>5. n \in Good
  <2> HIDE DEF Good, n
  <2>1. QED
    BY <1>1, <1>3, <1>4, Induction
<1>6. QED
  BY <1>1, <1>2, <1>5

LEMMA TimesGrows ==
  ASSUME NEW a \in Nat, NEW b \in Nat, NEW c \in Nat, a <= b
  PROVE  a * c \in Nat /\ b * c \in Nat /\ a * c <= b * c
<1> DEFINE k == b - a
<1>1. k \in Nat /\ b = a + k
  OBVIOUS
<1> HIDE DEF k
<1>2. a * c \in Nat /\ k * c \in Nat
  BY <1>1
<1>3. (a + k) * c = a * c + k * c
  BY <1>1
<1>4. QED
  BY <1>1, <1>2, <1>3

(* One more digit keeps a number below the product of the sizes. *)
LEMMA DigitFits ==
  ASSUME NEW q \in Nat, NEW p \in Nat, q < p, NEW size \in Nat, NEW d \in Nat, d < size
  PROVE  q * size + d \in Nat /\ p * size \in Nat /\ q * size + d < p * size
<1>1. q + 1 \in Nat /\ q + 1 <= p
  OBVIOUS
<1>2. /\ q * size \in Nat /\ p * size \in Nat /\ (q + 1) * size \in Nat
      /\ (q + 1) * size <= p * size
  BY <1>1, TimesGrows
<1>3. (q + 1) * size = q * size + size
  OBVIOUS
<1>4. QED
  BY <1>2, <1>3

(* A number below the product of the sizes so far, with these digits. *)
NumberFor(lists, f, product, m) ==
  \E h \in [0..m -> Nat] :
    /\ product[m] \in Nat /\ h[m] < product[m]
    /\ \A i \in 1..m : h[i] = h[i - 1] * Len(lists[i]) + (f[i] - 1)

LEMMA NumberNext ==
  ASSUME NEW lists, ListsOK(lists), NEW f \in Places(lists), NEW product,
         NEW m \in Nat, m + 1 \in 1..Len(lists),
         product[m + 1] = product[m] * Len(lists[m + 1]),
         NumberFor(lists, f, product, m)
  PROVE  NumberFor(lists, f, product, m + 1)
<1>1. PICK h \in [0..m -> Nat] :
        /\ product[m] \in Nat /\ h[m] < product[m]
        /\ \A i \in 1..m : h[i] = h[i - 1] * Len(lists[i]) + (f[i] - 1)
  BY DEF NumberFor
<1> DEFINE size == Len(lists[m + 1])
           d == f[m + 1] - 1
           next == h[m] * size + d
           more == [i \in 0..(m + 1) |-> IF i = m + 1 THEN next ELSE h[i]]
<1>2. size \in Nat /\ f[m + 1] \in 1..size /\ h[m] \in Nat
  BY <1>1 DEF ListsOK, Places
<1>3. d \in Nat /\ d < size
  BY <1>2
<1>4. product[m + 1] = product[m] * size
  OBVIOUS
<1>5. next \in Nat /\ product[m + 1] \in Nat /\ next < product[m + 1]
  <2> DEFINE q == h[m]
             p == product[m]
  <2>1. q \in Nat /\ p \in Nat /\ q < p /\ size \in Nat /\ d \in Nat /\ d < size
    BY <1>1, <1>2, <1>3
  <2> HIDE DEF size, d, q, p
  <2>2. q * size + d \in Nat /\ p * size \in Nat /\ q * size + d < p * size
    BY <2>1, DigitFits
  <2>3. QED
    BY <1>4, <2>2 DEF q, p
<1>6. more \in [0..(m + 1) -> Nat] /\ more[m + 1] = next /\ \A i \in 0..m : more[i] = h[i]
  <2> HIDE DEF next
  <2>1. QED
    BY <1>1, <1>5
<1> HIDE DEF more
<1>7. ASSUME NEW i \in 1..(m + 1) PROVE more[i] = more[i - 1] * Len(lists[i]) + (f[i] - 1)
  <2>1. CASE i = m + 1
    <3>1. i - 1 = m
      BY <2>1
    <3>2. QED
      BY <1>6, <2>1, <3>1
  <2>2. CASE i \in 1..m
    <3>1. i - 1 \in 0..m /\ i \in 0..m
      BY <2>2
    <3>2. QED
      BY <1>1, <1>6, <2>2, <3>1
  <2>3. QED
    BY <2>1, <2>2
<1> HIDE DEF next
<1>8. QED
  BY <1>5, <1>6, <1>7 DEF NumberFor

(* The number that has the places as its digits, from the first list on. *)
LEMMA NumberOf ==
  ASSUME NEW lists, ListsOK(lists), NEW f \in Places(lists)
  PROVE  \E h \in [0..Len(lists) -> Nat] :
           /\ h[Len(lists)] < Combinations(lists)
           /\ \A i \in 1..Len(lists) : h[i] = h[i - 1] * Len(lists[i]) + (f[i] - 1)
<1> DEFINE n == Len(lists)
<1>1. n \in Nat
  BY DEF ListsOK
<1>2. PICK product :
        /\ product[0] = 1
        /\ \A i \in 1..n : product[i] = Times(lists, i, product[i - 1])
        /\ Combinations(lists) = product[n]
  BY <1>1, CombinationsIsALoop
<1> DEFINE Good == {m \in Nat : m <= n => NumberFor(lists, f, product, m)}
<1>3. 0 \in Good
  <2> DEFINE zero == [i \in 0..0 |-> 0]
  <2>1. zero \in [0..0 -> Nat] /\ zero[0] < product[0] /\ product[0] \in Nat
    BY <1>2
  <2>2. 1..0 = {}
    OBVIOUS
  <2> HIDE DEF zero
  <2>3. NumberFor(lists, f, product, 0)
    BY <2>1, <2>2 DEF NumberFor
  <2>4. QED
    BY <2>3
<1>4. ASSUME NEW m \in Nat, m \in Good PROVE m + 1 \in Good
  <2>1. SUFFICES ASSUME m + 1 <= n PROVE NumberFor(lists, f, product, m + 1)
    OBVIOUS
  <2>2. m + 1 \in 1..n /\ (m + 1) - 1 = m /\ m <= n
    BY <1>1, <2>1
  <2>3. product[m + 1] = product[m] * Len(lists[m + 1])
    BY <1>2, <2>2 DEF Times
  <2>4. QED
    BY <1>4, <2>2, <2>3, NumberNext
<1>5. n \in Good
  <2> HIDE DEF Good, n
  <2>1. QED
    BY <1>1, <1>3, <1>4, Induction
<1>6. QED
  BY <1>1, <1>2, <1>5 DEF NumberFor

(* gst_pylon_cartesian_product leaves no combination out: whatever place   *)
(* is chosen in each list, one of the numbers it counts through has it.    *)
THEOREM EveryCombinationIsListed ==
  ASSUME NEW lists, ListsOK(lists), NEW f \in Places(lists)
  PROVE  \E number \in Nat :
           /\ number < Combinations(lists)
           /\ \A i \in 1..Len(lists) : Place(lists, number, i) = f[i]
<1> DEFINE n == Len(lists)
<1>1. n \in Nat /\ \A i \in 1..n : Len(lists[i]) \in Nat /\ f[i] \in 1..Len(lists[i])
  BY DEF ListsOK, Places
<1>2. PICK h \in [0..n -> Nat] :
        /\ h[n] < Combinations(lists)
        /\ \A i \in 1..n : h[i] = h[i - 1] * Len(lists[i]) + (f[i] - 1)
  BY NumberOf
<1> DEFINE number == h[n]
           q == Quotient(lists, number)
<1>3. number \in Nat
  BY <1>1
<1>4. q[0] = number /\ \A k \in 1..n : q[k] = DividedBy(lists, k, q[k - 1])
  BY <1>1, QuotientIsALoop
<1> HIDE DEF q, number
<1>5. \A i \in 1..n : /\ h[i] \div Len(lists[i]) = h[i - 1]
                      /\ h[i] % Len(lists[i]) = f[i] - 1
  <2>1. SUFFICES ASSUME NEW i \in 1..n
                 PROVE  h[i] \div Len(lists[i]) = h[i - 1] /\ h[i] % Len(lists[i]) = f[i] - 1
    OBVIOUS
  <2>2. /\ h[i - 1] \in Nat /\ Len(lists[i]) \in Nat /\ f[i] - 1 \in Nat
        /\ f[i] - 1 < Len(lists[i])
    <3>1. i - 1 \in 0..n /\ Len(lists[i]) \in Nat /\ f[i] \in 1..Len(lists[i])
      BY <1>1
    <3>2. QED
      BY <1>2, <3>1, SMTT(30)
  <2>3. h[i] = h[i - 1] * Len(lists[i]) + (f[i] - 1)
    BY <1>2
  <2> DEFINE a == h[i - 1]
             size == Len(lists[i])
             d == f[i] - 1
  <2>4. a \in Nat /\ size \in Nat /\ d \in Nat /\ d < size
    BY <2>2
  <2> HIDE DEF a, size, d
  <2>5. (a * size + d) \div size = a /\ (a * size + d) % size = d
    BY <2>4, DivideAgain
  <2>6. QED
    BY <2>3, <2>5 DEF a, size, d
<1> DEFINE Good == {k \in Nat : k <= n => q[k] = h[n - k]}
<1>6. 0 \in Good
  BY <1>1, <1>4 DEF number
<1>7. ASSUME NEW k \in Nat, k \in Good PROVE k + 1 \in Good
  <2>1. SUFFICES ASSUME k + 1 <= n PROVE q[k + 1] = h[n - (k + 1)]
    OBVIOUS
  <2>2. /\ k + 1 \in 1..n /\ (k + 1) - 1 = k /\ k <= n /\ n - k \in 1..n
        /\ (n + 1) - (k + 1) = n - k /\ (n - k) - 1 = n - (k + 1)
    BY <1>1, <2>1
  <2>3. q[k + 1] = DividedBy(lists, k + 1, q[k]) /\ q[k] = h[n - k]
    BY <1>4, <1>7, <2>2
  <2>4. DividedBy(lists, k + 1, q[k]) = h[n - k] \div Len(lists[n - k])
    BY <2>2, <2>3 DEF DividedBy
  <2>5. h[n - k] \div Len(lists[n - k]) = h[(n - k) - 1]
    BY <1>5, <2>2
  <2> HIDE DEF n
  <2>6. QED
    BY <2>2, <2>3, <2>4, <2>5
<1>8. Nat \subseteq Good
  <2> HIDE DEF Good
  <2>1. QED
    BY <1>6, <1>7, Induction
<1>9. \A i \in 1..n : Place(lists, number, i) = f[i]
  <2>1. SUFFICES ASSUME NEW i \in 1..n PROVE Place(lists, number, i) = f[i]
    OBVIOUS
  <2>2. n - i \in Nat /\ n - i <= n /\ n - (n - i) = i
    BY <1>1
  <2>3. q[n - i] = h[i]
    BY <1>8, <2>2
  <2>4. Place(lists, number, i) = (h[i] % Len(lists[i])) + 1
    BY <2>3 DEF Place, q
  <2>5. f[i] \in Nat
    BY <1>1
  <2>6. QED
    BY <1>5, <2>4, <2>5
<1>10. QED
  BY <1>2, <1>3, <1>9 DEF number
-----------------------------------------------------------------------------
(* A search finds the true limits. It has seen every corner among the      *)
(* combinations it is through with, and nothing but settings that count;   *)
(* in the one it sets up, a corner is in place as far as it has come.      *)

ExtremesAtFirst(n, e) ==
  [i \in DOMAIN ControlsInOrder(n) |-> ExtremesIn(SettingsFor(n, e), 0, ControlsInOrder(n)[i])]

(* Nothing but the controls of the feature is away from where it was. *)
ElsewhereAsAtFirst(n, e) ==
  \A m \in DOMAIN PowerOn :
    m \in (Controlling \ Controls[n]) \union ToSet(Node[n].selectors)
    => settings[m] = SettingsFor(n, e)[m]

(* The combination puts the controls where a setting has them. *)
Picks(number, s) ==
  \A i \in DOMAIN ControlsInOrder(node) :
    extremes[i][Place(extremes, number, i)] = s[ControlsInOrder(node)[i]]

Corner(s) == IsCorner(node, Entry, s)

(* What was measured are the limits of some settings that count. *)
Within ==
  \E S \in SUBSET SettingsOf(node, Entry) :
    /\ mins = {LimitsIn(s, node).min : s \in S}
    /\ maxs = {LimitsIn(s, node).max : s \in S}

Driven ==
  \A s \in Settings : Corner(s) /\ Picks(step, s) =>
    \A i \in DOMAIN ControlsInOrder(node) :
      i < position => settings[ControlsInOrder(node)[i]] = s[ControlsInOrder(node)[i]]

Seen ==
  \A s \in Settings, number \in 0..(step - 1) : Corner(s) /\ Picks(number, s) =>
    LimitsIn(s, node).min \in mins /\ LimitsIn(s, node).max \in maxs

SearchInv ==
  clean =>
    /\ search = "apply" =>
         /\ entries # <<>> /\ target = node /\ NeedsSearch(node)
         /\ ElsewhereAsAtFirst(node, Entry)
         /\ extremes = ExtremesAtFirst(node, Entry)
         /\ Within /\ Driven /\ Seen
    /\ SearchedLimitsAreTrue

(* The places in a list of extremes are its numbers. *)
LEMMA SetToSeqIs ==
  ASSUME NEW S, IsFiniteSet(S)
  PROVE  Cardinality(S) \in Nat /\ SetToSeq(S) \in [1..Cardinality(S) -> S]
<1>1. PICK n \in Nat : ExistsBijection(1..n, S)
  BY FS_NatBijection
<1>2. Cardinality(S) = n
  BY <1>1, FS_CountingElements
<1>3. \E f \in [1..n -> S] : IsInjective(f)
  BY <1>1 DEF ExistsBijection, Bijection, Injection, IsInjective
<1>4. QED
  BY <1>2, <1>3 DEF SetToSeq

(* The extremes of a control are a list, empty only for an enumeration     *)
(* that is locked.                                                         *)
LEMMA ExtremesAre ==
  ASSUME NEW s \in Settings, NEW l \in {0, 1}, NEW n \in Nodes, NEW c \in Controls[n]
  PROVE  /\ Len(ExtremesIn(s, l, c)) \in Nat
         /\ DOMAIN ExtremesIn(s, l, c) = 1..Len(ExtremesIn(s, l, c))
         /\ Len(ExtremesIn(s, l, c)) = 0 => Node[c].kind = "enumeration" /\ ~IsWritable(s, l, c)
<1>1. c \in Nodes /\ Node[c].kind \in {"boolean", "integer", "float", "enumeration"}
  <2>1. PICK i \in Invalidators(n) : c \in ParentFeatures[i]
    BY DEF Controls
  <2>2. QED
    BY ControlsAssumption, CameraAssumption DEF Controls, Controlling
<1>2. CASE Node[c].kind = "boolean"
  BY <1>2 DEF ExtremesIn
<1>3. CASE Node[c].kind \in {"integer", "float"}
  <2> DEFINE x == LimitsIn(s, c).min
             y == LimitsIn(s, c).max
  <2>1. ExtremesIn(s, l, c) = <<x, y>>
    BY <1>3 DEF ExtremesIn
  <2> HIDE DEF x, y
  <2>2. Len(<<x, y>>) = 2 /\ DOMAIN <<x, y>> = 1..2
    OBVIOUS
  <2>3. QED
    BY <2>1, <2>2
<1>4. CASE Node[c].kind = "enumeration"
  <2>1. IsFiniteSet(Settable(s, l, c))
    BY <1>1, CameraAssumption, FS_EmptySet DEF Settable
  <2> DEFINE k == Cardinality(Settable(s, l, c))
             list == SetToSeq(Settable(s, l, c))
  <2>2. k \in Nat /\ list \in [1..k -> Settable(s, l, c)]
    BY <2>1, SetToSeqIs
  <2>3. ExtremesIn(s, l, c) = list
    BY <1>4 DEF ExtremesIn
  <2> HIDE DEF k, list
  <2>4. Len(list) = k /\ DOMAIN list = 1..k
    BY <2>2
  <2>5. k = 0 => ~IsWritable(s, l, c)
    <3>1. k = 0 => Settable(s, l, c) = {}
      BY <2>1, FS_EmptySet DEF k
    <3>2. Values(s, c) # {}
      BY <1>1, CameraAssumption
    <3>3. QED
      BY <3>1, <3>2 DEF Settable
  <2>6. QED
    BY <1>4, <2>2, <2>3, <2>4, <2>5
<1>5. QED
  BY <1>1, <1>2, <1>3, <1>4

LEMMA ExtremesTyped ==
  ASSUME NEW s \in Settings, NEW n \in Nodes, NEW c \in Controls[n]
  PROVE  /\ Len(ExtremesIn(s, 0, c)) \in Nat
         /\ DOMAIN ExtremesIn(s, 0, c) = 1..Len(ExtremesIn(s, 0, c))
BY ExtremesAre

(* A control is in no other state than the controls are.                   *)
LEMMA ControlsAgree ==
  ASSUME NEW s \in Settings, NEW t \in Settings,
         \A c \in Controlling : s[c] = t[c]
  PROVE  \A c \in Controlling :
           /\ Values(s, c) = Values(t, c)
           /\ IsWritable(s, 0, c) = IsWritable(t, 0, c)
           /\ ExtremesIn(s, 0, c) = ExtremesIn(t, 0, c)
<1> SUFFICES ASSUME NEW c \in Controlling
             PROVE  /\ Values(s, c) = Values(t, c)
                    /\ IsWritable(s, 0, c) = IsWritable(t, 0, c)
                    /\ ExtremesIn(s, 0, c) = ExtremesIn(t, 0, c)
  OBVIOUS
<1>1. c \in Nodes
  BY ControlsAssumption, CameraAssumption
<1>2. ToSet(Node[c].selectors) = {}
  BY ControlsAssumption DEF ToSet
<1>3. Values(s, c) = Values(t, c) /\ IsWritable(s, 0, c) = IsWritable(t, 0, c)
  BY <1>1, <1>2, FeaturesAssumption
<1>4. ExtremesIn(s, 0, c) = ExtremesIn(t, 0, c)
  BY <1>3 DEF ExtremesIn, LimitsIn, Settable
<1>5. QED
  BY <1>3, <1>4

(* The settings during a search stand for some of those that count.        *)
LEMMA Represented ==
  ASSUME settings \in Settings, <<node, Entry>> \in Names, ElsewhereAsAtFirst(node, Entry)
  PROVE  \E t \in SettingsOf(node, Entry) :
           /\ \A c \in Controlling : t[c] = settings[c]
           /\ Values(t, node) = Values(settings, node)
<1> DEFINE s == SettingsFor(node, Entry)
           t == [m \in DOMAIN PowerOn |-> IF m \in Controlling THEN settings[m] ELSE s[m]]
<1>1. node \in Nodes
  BY NamesAre DEF Handled
<1>2. s \in Settings
  BY SettingsForEntry
<1> HIDE DEF s
<1>3. t \in Settings
  BY <1>2, SelectorsAssumption
<1>4. Controlling \subseteq DOMAIN PowerOn /\ Controls[node] \subseteq Controlling
  BY <1>1, ControlsAssumption DEF Controlling
<1>5. \A c \in Controlling : t[c] = settings[c]
  BY <1>4
<1>6. \A m \in DOMAIN PowerOn : m \notin Controls[node] => t[m] = s[m]
  BY DEF ElsewhereAsAtFirst, s
<1>7. ToSet(Node[node].selectors) \intersect Controlling = {}
  BY <1>1, ControlsAssumption
<1>8. \A m \in (Controlling \union ToSet(Node[node].selectors)) \intersect DOMAIN PowerOn :
        t[m] = settings[m]
  BY <1>5, <1>7 DEF ElsewhereAsAtFirst, s
<1> HIDE DEF t
<1>9. Values(t, node) = Values(settings, node)
  BY <1>1, <1>3, <1>8, FeaturesAssumption
<1>10. \A c \in Controls[node] : t[c] \in Values(t, c)
  BY <1>3, <1>4, ControlsAssumption
<1>11. t \in SettingsOf(node, Entry)
  BY <1>3, <1>6, <1>10 DEF SettingsOf, s
<1>12. QED
  BY <1>5, <1>9, <1>11

(* With the controls at a corner the feature has the limits it has there.  *)
LEMMA CornerReached ==
  ASSUME settings \in Settings, <<node, Entry>> \in Names, ElsewhereAsAtFirst(node, Entry),
         NEW s \in Settings, Corner(s), \A c \in Controls[node] : settings[c] = s[c]
  PROVE  LimitsIn(settings, node) = LimitsIn(s, node)
<1>1. node \in Nodes
  BY NamesAre DEF Handled
<1>2. \A m \in DOMAIN PowerOn : m \notin Controls[node] => s[m] = SettingsFor(node, Entry)[m]
  BY DEF Corner, IsCorner, SettingsOf
<1>3. \A m \in (Controlling \union ToSet(Node[node].selectors)) \intersect DOMAIN PowerOn :
        settings[m] = s[m]
  BY <1>2 DEF ElsewhereAsAtFirst
<1>4. Values(settings, node) = Values(s, node)
  BY <1>1, <1>3, FeaturesAssumption
<1>5. QED
  BY <1>4 DEF LimitsIn

(* A control goes where a corner has it once those that lock it are there. *)
LEMMA CornerAccepted ==
  ASSUME settings \in Settings, <<node, Entry>> \in Names, ElsewhereAsAtFirst(node, Entry),
         NEW s \in Settings, Corner(s), NEW c \in Controls[node],
         \A a \in Controls[node] : Locks(a, c) => settings[a] = s[a]
  PROVE  IsWritable(settings, 0, c) /\ s[c] \in Values(settings, c)
<1>1. node \in Nodes
  BY NamesAre DEF Handled
<1>2. PICK t \in SettingsOf(node, Entry) : \A a \in Controlling : t[a] = settings[a]
  BY Represented
<1>3. t \in Settings
  BY DEF SettingsOf
<1>4. Controls[node] \subseteq Controlling
  BY <1>1 DEF Controlling
<1>5. \A a \in Controls[node] : Locks(a, c) => t[a] = s[a]
  BY <1>2, <1>4
<1>6. IsWritable(t, 0, c) /\ s[c] \in Values(t, c)
  BY <1>5 DEF Corner, IsCorner
<1>7. IsWritable(t, 0, c) = IsWritable(settings, 0, c) /\ Values(t, c) = Values(settings, c)
  BY <1>2, <1>3, <1>4, ControlsAgree
<1>8. QED
  BY <1>6, <1>7
-----------------------------------------------------------------------------
(* Each step of a search keeps what is known of it. *)

(* What the search collects is what it would at first. *)
LEMMA ExtremesOfControls ==
  ASSUME order \in Orders, settings \in Settings, locked = 0, <<node, Entry>> \in Names,
         \A c \in Controlling : settings[c] = SettingsFor(node, Entry)[c]
  PROVE  [i \in DOMAIN ControlsInOrder(node) |-> ExtremesOf(ControlsInOrder(node)[i])]
           = ExtremesAtFirst(node, Entry)
<1>1. node \in Nodes
  BY NamesAre DEF Handled
<1>2. SettingsFor(node, Entry) \in Settings
  BY SettingsForEntry
<1>3. \A i \in DOMAIN ControlsInOrder(node) : ControlsInOrder(node)[i] \in Controlling
  BY <1>1, ControlsInOrderAre DEF Controlling
<1>4. \A c \in Controlling : ExtremesOf(c) = ExtremesIn(SettingsFor(node, Entry), 0, c)
  BY <1>2, ControlsAgree DEF ExtremesOf
<1>5. QED
  BY <1>3, <1>4 DEF ExtremesAtFirst

LEMMA ExtremesAreLists ==
  ASSUME order \in Orders, <<node, Entry>> \in Names
  PROVE  /\ ListsOK(ExtremesAtFirst(node, Entry))
         /\ Len(ExtremesAtFirst(node, Entry)) = Len(ControlsInOrder(node))
         /\ DOMAIN ControlsInOrder(node) = 1..Len(ControlsInOrder(node))
<1> DEFINE controls == ControlsInOrder(node)
           lists == ExtremesAtFirst(node, Entry)
<1>1. node \in Nodes
  BY NamesAre DEF Handled
<1>2. SettingsFor(node, Entry) \in Settings
  BY SettingsForEntry
<1>3. controls \in Seq(Nodes) /\ \A i \in DOMAIN controls : controls[i] \in Controls[node]
  BY <1>1, ControlsInOrderAre
<1>4. DOMAIN controls = 1..Len(controls) /\ Len(controls) \in Nat
  BY <1>3
<1>5. lists = [i \in DOMAIN controls |-> ExtremesIn(SettingsFor(node, Entry), 0, controls[i])]
  BY DEF ExtremesAtFirst
<1> HIDE DEF controls, lists
<1>6. Len(lists) = Len(controls)
  BY <1>4, <1>5
<1>7. \A i \in DOMAIN controls : Len(lists[i]) \in Nat
  BY <1>1, <1>2, <1>3, <1>5, ExtremesTyped
<1>8. QED
  BY <1>4, <1>6, <1>7 DEF ListsOK, controls, lists

LEMMA SaveKeepsSearch ==
  ASSUME TypeInv, RestoreInv, SelectorsAreSet, clean, phase = "limits", search = "idle",
         SaveSettings(node), UNCHANGED <<node, entries>>
  PROVE  SearchInv'
<1>1. /\ entries # <<>> /\ <<node, Entry>> \in Names /\ node \in Nodes
      /\ settings \in Settings /\ SettingsFor(node, Entry) \in Settings
      /\ \A m \in (Controlling \union ToSet(Node[node].selectors)) \intersect DOMAIN PowerOn :
           settings[m] = SettingsFor(node, Entry)[m]
  <2>1. phase \in EntryPhases /\ IsNumeric(node)
    BY DEF EntryPhases, NumericPhases, TypeInv, WalkOK
  <2>2. QED
    BY <2>1, StandsAsAtFirst
<1>2. locked = 0 /\ order \in Orders
  BY DEF TypeInv, SearchOK, RestoreInv, CameraOfPowerOn, Undisturbed
<1>3. \A c \in Controlling : settings[c] = SettingsFor(node, Entry)[c]
  BY <1>1, ControlsAssumption
<1>4. /\ UNCHANGED <<settings, order, node, entries>> /\ Entry' = Entry
      /\ search' = "apply" /\ target' = node /\ NeedsSearch(node)
      /\ step' = 0 /\ position' = 1 /\ mins' = {} /\ maxs' = {}
      /\ extremes' = [i \in DOMAIN ControlsInOrder(node) |-> ExtremesOf(ControlsInOrder(node)[i])]
  BY DEF SaveSettings, camera, NeedsSearch, Entry
<1>5. ExtremesAtFirst(node, Entry)' = ExtremesAtFirst(node, Entry)
  BY <1>4 DEF ExtremesAtFirst, ControlsInOrder
<1>6. extremes' = ExtremesAtFirst(node, Entry)'
  BY <1>1, <1>2, <1>3, <1>4, <1>5, ExtremesOfControls
<1>7. ElsewhereAsAtFirst(node, Entry)'
  BY <1>1, <1>4 DEF ElsewhereAsAtFirst
<1>8. Within'
  <2>1. /\ {} \in SUBSET SettingsOf(node, Entry)'
        /\ mins' = {LimitsIn(s, node).min : s \in {}}' /\ maxs' = {LimitsIn(s, node).max : s \in {}}'
    BY <1>4
  <2>2. QED
    BY <2>1 DEF Within
<1>9. Driven'
  <2>1. ControlsInOrder(node)' = ControlsInOrder(node)
    BY <1>4 DEF ControlsInOrder
  <2>2. DOMAIN ControlsInOrder(node) = 1..Len(ControlsInOrder(node))
    BY <1>1, <1>2, ExtremesAreLists
  <2>3. \A i \in DOMAIN ControlsInOrder(node)' : ~(i < position')
    BY <1>4, <2>1, <2>2
  <2>4. QED
    BY <2>3 DEF Driven
<1>10. Seen'
  BY <1>4 DEF Seen
<1>11. QED
  BY <1>1, <1>4, <1>6, <1>7, <1>8, <1>9, <1>10 DEF SearchInv, SearchedLimitsAreTrue

LEMMA ApplyKeepsSearch ==
  ASSUME TypeInv, RestoreInv, SearchInv, clean, phase = "limits",
         ApplyExtreme, failures' = failures, UNCHANGED <<node, entries>>
  PROVE  SearchInv'
<1> DEFINE controls == ControlsInOrder(node)
           c == controls[position]
           v == extremes[position][Place(extremes, step, position)]
<1>1. /\ search = "apply" /\ position <= Len(extremes) /\ position' = position + 1
      /\ Write(saved[position].node, v)
      /\ UNCHANGED <<locked, order, search, target, extremes, step, mins, maxs, node, entries>>
      /\ Entry' = Entry
  BY DEF ApplyExtreme, Entry
<1>2. /\ entries # <<>> /\ target = node /\ NeedsSearch(node)
      /\ ElsewhereAsAtFirst(node, Entry)
      /\ extremes = ExtremesAtFirst(node, Entry) /\ Within /\ Driven /\ Seen
  BY <1>1 DEF SearchInv
<1>3. /\ <<node, Entry>> \in Names /\ node \in Nodes /\ CameraOK /\ settings \in Settings
      /\ order \in Orders /\ position \in Nat \ {0}
  BY <1>2, EntryIsNamed DEF TypeInv, WalkOK, SearchOK, CameraOK
<1>4. locked = 0 /\ order \in GoodOrders /\ saved = SavedControls(node)
  BY <1>1, <1>2 DEF RestoreInv, CameraOfPowerOn, SearchCanUndo, Undisturbed
<1>5. /\ DOMAIN controls = 1..Len(controls) /\ Len(extremes) = Len(controls)
      /\ Len(controls) \in Nat
  BY <1>2, <1>3, ExtremesAreLists DEF ListsOK
<1>6. position \in DOMAIN controls
  BY <1>1, <1>3, <1>5
<1>7. /\ c \in Controls[node] /\ c \in Controlling /\ c \in DOMAIN PowerOn
      /\ saved[position].node = c
  <2>1. c \in Controls[node]
    BY <1>3, <1>6, ControlsInOrderAre
  <2>2. saved[position].node = c
    BY <1>4, <1>6 DEF SavedControls
  <2>3. QED
    BY <1>3, <2>1, <2>2, ControlsAssumption DEF Controlling
<1> HIDE DEF c, v
<1>8. /\ \A m \in DOMAIN PowerOn : m # c => settings'[m] = settings[m]
      /\ Accepts(c, v) => settings'[c] = v
  BY <1>1, <1>3, <1>7, WriteTouchesOne
<1>9. ElsewhereAsAtFirst(node, Entry)'
  <2>1. c \notin ToSet(Node[node].selectors)
    BY <1>3, <1>7, ControlsAssumption
  <2>2. \A m \in DOMAIN PowerOn :
          m \in (Controlling \ Controls[node]) \union ToSet(Node[node].selectors) =>
            settings'[m] = settings[m]
    BY <1>7, <1>8, <2>1
  <2>3. QED
    BY <1>1, <1>2, <2>2 DEF ElsewhereAsAtFirst
<1>10. ControlsInOrder(node)' = controls /\ ExtremesAtFirst(node, Entry)' = ExtremesAtFirst(node, Entry)
  BY <1>1 DEF ControlsInOrder, ExtremesAtFirst
<1>11. /\ \A s \in Settings : Corner(s)' = Corner(s)
       /\ \A s \in Settings : \A k : Picks(k, s)' = Picks(k, s)
  BY <1>1, <1>10 DEF Corner, Picks
<1>12. Within' /\ Seen'
  BY <1>1, <1>2, <1>11 DEF Within, Seen
<1>13. Driven'
  <2>1. SUFFICES ASSUME NEW s \in Settings, Corner(s), Picks(step, s),
                        NEW i \in DOMAIN controls, i < position + 1
                 PROVE  settings'[controls[i]] = s[controls[i]]
    BY <1>1, <1>10, <1>11 DEF Driven
  <2>2. \A j \in DOMAIN controls : j < position => settings[controls[j]] = s[controls[j]]
    BY <1>2, <2>1 DEF Driven
  <2>3. v = s[c]
    BY <1>6, <2>1 DEF Picks, v, c
  <2>4. \A a \in Controls[node] : Locks(a, c) => settings[a] = s[a]
    <3>1. SUFFICES ASSUME NEW a \in Controls[node], Locks(a, c) PROVE settings[a] = s[a]
      OBVIOUS
    <3>2. PICK j \in DOMAIN controls : controls[j] = a
      BY <1>3, ControlsInOrderAre
    <3>3. j < position
      BY <1>3, <1>4, <1>6, <3>1, <3>2, ControlsInOrderAre DEF c
    <3>4. QED
      BY <2>2, <3>2, <3>3
  <2>5. Accepts(c, v)
    BY <1>2, <1>3, <1>4, <1>7, <2>1, <2>3, <2>4, CornerAccepted DEF Accepts
  <2>6. settings'[c] = s[c]
    BY <1>8, <2>3, <2>5
  <2>7. CASE controls[i] = c
    BY <2>6, <2>7
  <2>8. CASE controls[i] # c
    <3>1. i < position
      BY <1>3, <1>5, <2>1, <2>8 DEF c
    <3>2. controls[i] \in DOMAIN PowerOn
      <4>1. controls[i] \in Controls[node]
        BY <1>3, <2>1, ControlsInOrderAre
      <4>2. QED
        BY <1>3, <4>1, ControlsAssumption DEF Controlling
    <3>3. QED
      BY <1>8, <2>2, <2>8, <3>1, <3>2
  <2>9. QED
    BY <2>7, <2>8
<1>14. QED
  BY <1>1, <1>2, <1>9, <1>10, <1>12, <1>13 DEF SearchInv, SearchedLimitsAreTrue

LEMMA MeasureKeepsSearch ==
  ASSUME TypeInv, SearchInv, clean, MeasureLimits, UNCHANGED <<node, entries>>
  PROVE  SearchInv'
<1> DEFINE controls == ControlsInOrder(node)
           now == LimitsIn(settings, node)
<1>1. /\ search = "apply" /\ position > Len(extremes) /\ position' = 1 /\ step' = step + 1
      /\ mins' = mins \union {LimitsIn(settings, target).min}
      /\ maxs' = maxs \union {LimitsIn(settings, target).max}
      /\ UNCHANGED <<settings, order, search, target, extremes, node, entries>>
      /\ Entry' = Entry
  BY DEF MeasureLimits, Entry, camera
<1>2. /\ entries # <<>> /\ target = node /\ NeedsSearch(node)
      /\ ElsewhereAsAtFirst(node, Entry)
      /\ extremes = ExtremesAtFirst(node, Entry) /\ Within /\ Driven /\ Seen
  BY <1>1 DEF SearchInv
<1>3. /\ <<node, Entry>> \in Names /\ node \in Nodes /\ settings \in Settings
      /\ order \in Orders /\ position \in Nat \ {0} /\ step \in Nat
  BY <1>2, EntryIsNamed DEF TypeInv, WalkOK, SearchOK, CameraOK
<1>4. /\ DOMAIN controls = 1..Len(controls) /\ Len(extremes) = Len(controls)
      /\ Len(controls) \in Nat
  BY <1>2, <1>3, ExtremesAreLists DEF ListsOK
<1>5. /\ ControlsInOrder(node)' = controls
      /\ ExtremesAtFirst(node, Entry)' = ExtremesAtFirst(node, Entry)
      /\ ElsewhereAsAtFirst(node, Entry)'
  BY <1>1, <1>2 DEF ControlsInOrder, ExtremesAtFirst, ElsewhereAsAtFirst
<1>6. /\ \A s \in Settings : Corner(s)' = Corner(s)
      /\ \A s \in Settings : \A k : Picks(k, s)' = Picks(k, s)
  BY <1>1, <1>5 DEF Corner, Picks
<1>7. mins' = mins \union {now.min} /\ maxs' = maxs \union {now.max}
  BY <1>1, <1>2
<1>8. Within'
  <2>1. PICK t \in SettingsOf(node, Entry) : Values(t, node) = Values(settings, node)
    BY <1>2, <1>3, Represented
  <2>2. LimitsIn(t, node) = now
    BY <2>1 DEF LimitsIn
  <2> HIDE DEF now
  <2>3. PICK S \in SUBSET SettingsOf(node, Entry) :
          /\ mins = {LimitsIn(s, node).min : s \in S}
          /\ maxs = {LimitsIn(s, node).max : s \in S}
    BY <1>2 DEF Within
  <2> DEFINE more == S \union {t}
  <2>4. /\ more \in SUBSET SettingsOf(node, Entry)
        /\ mins' = {LimitsIn(s, node).min : s \in more}
        /\ maxs' = {LimitsIn(s, node).max : s \in more}
    BY <1>7, <2>1, <2>2, <2>3
  <2> HIDE DEF more
  <2>5. SettingsOf(node, Entry)' = SettingsOf(node, Entry) /\ node' = node
    BY <1>1
  <2>6. \E T \in SUBSET SettingsOf(node, Entry)' :
          /\ mins' = {LimitsIn(s, node').min : s \in T}
          /\ maxs' = {LimitsIn(s, node').max : s \in T}
    BY <2>4, <2>5
  <2>7. QED
    BY <2>6 DEF Within
<1>9. Driven'
  <2>1. \A i \in DOMAIN controls : ~(i < 1)
    BY <1>4
  <2>2. QED
    BY <1>1, <1>5, <2>1 DEF Driven
<1>10. Seen'
  <2>1. SUFFICES ASSUME NEW s \in Settings, NEW number \in 0..step, Corner(s), Picks(number, s)
                 PROVE  LimitsIn(s, node).min \in mins' /\ LimitsIn(s, node).max \in maxs'
    <3>1. (step + 1) - 1 = step
      BY <1>3
    <3>2. QED
      BY <1>1, <1>6, <3>1 DEF Seen
  <2>2. CASE number = step
    <3>1. \A i \in DOMAIN controls : settings[controls[i]] = s[controls[i]]
      <4>1. \A i \in DOMAIN controls : i < position
        BY <1>1, <1>3, <1>4
      <4>2. QED
        BY <1>2, <2>1, <2>2, <4>1 DEF Driven
    <3>2. \A c \in Controls[node] : settings[c] = s[c]
      BY <1>3, <3>1, ControlsInOrderAre
    <3>3. now = LimitsIn(s, node)
      BY <1>2, <1>3, <2>1, <3>2, CornerReached
    <3>4. QED
      BY <1>7, <3>3
  <2>3. CASE number # step
    <3>1. number \in 0..(step - 1)
      BY <1>3, <2>3
    <3>2. LimitsIn(s, node).min \in mins /\ LimitsIn(s, node).max \in maxs
      BY <1>2, <2>1, <3>1 DEF Seen
    <3>3. QED
      BY <1>7, <3>2
  <2>4. QED
    BY <2>2, <2>3
<1>11. QED
  BY <1>1, <1>2, <1>5, <1>8, <1>9, <1>10 DEF SearchInv, SearchedLimitsAreTrue

(* Every corner is one of the combinations. *)
LEMMA CornerIsListed ==
  ASSUME order \in Orders, <<node, Entry>> \in Names,
         extremes = ExtremesAtFirst(node, Entry), NEW s \in Settings, Corner(s)
  PROVE  \E number \in Nat : number < Combinations(extremes) /\ Picks(number, s)
<1> DEFINE controls == ControlsInOrder(node)
           At(i) == CHOOSE k \in 1..Len(extremes[i]) : extremes[i][k] = s[controls[i]]
           f == [i \in 1..Len(extremes) |-> At(i)]
<1>1. node \in Nodes
  BY NamesAre DEF Handled
<1>2. SettingsFor(node, Entry) \in Settings
  BY SettingsForEntry
<1>3. /\ ListsOK(extremes) /\ Len(extremes) = Len(controls)
      /\ DOMAIN controls = 1..Len(controls)
  BY ExtremesAreLists
<1>4. ASSUME NEW i \in DOMAIN controls
      PROVE  \E k \in 1..Len(extremes[i]) : extremes[i][k] = s[controls[i]]
  <2>1. controls[i] \in Controls[node]
    BY <1>1, ControlsInOrderAre
  <2>2. extremes[i] = ExtremesIn(SettingsFor(node, Entry), 0, controls[i])
    BY DEF ExtremesAtFirst
  <2>3. s[controls[i]] \in ToSet(extremes[i])
    BY <2>1, <2>2 DEF Corner, IsCorner
  <2>4. DOMAIN extremes[i] = 1..Len(extremes[i])
    BY <1>1, <1>2, <2>1, <2>2, ExtremesTyped
  <2>5. QED
    BY <2>3, <2>4 DEF ToSet
<1>5. \A i \in DOMAIN controls : At(i) \in 1..Len(extremes[i]) /\ extremes[i][At(i)] = s[controls[i]]
  BY <1>4
<1> HIDE DEF At, controls
<1>6. f \in Places(extremes)
  BY <1>3, <1>5 DEF Places
<1>7. PICK number \in Nat :
        /\ number < Combinations(extremes)
        /\ \A i \in 1..Len(extremes) : Place(extremes, number, i) = f[i]
  <2> HIDE DEF f
  <2>1. QED
    BY <1>3, <1>6, EveryCombinationIsListed
<1>8. \A i \in DOMAIN controls : Place(extremes, number, i) = At(i)
  BY <1>3, <1>7
<1>9. Picks(number, s)
  BY <1>5, <1>8 DEF Picks, controls
<1>10. QED
  BY <1>7, <1>9

(* The smallest of what was seen is the smallest of all that counts, and   *)
(* the largest the largest.                                                *)
LEMMA TakenAtCorners ==
  ASSUME SearchOK, <<node, Entry>> \in NumericNames, NeedsSearch(node), CornersTell(node, Entry), step = Combinations(extremes),
         mins # {}, extremes = ExtremesAtFirst(node, Entry), Within, Seen
  PROVE  [min |-> Min(mins), max |-> Max(maxs)] = TrueLimits(node, Entry)
<1> DEFINE All == SettingsOf(node, Entry)
           Lows == {LimitsIn(s, node).min : s \in All}
           Highs == {LimitsIn(s, node).max : s \in All}
           name == <<node, Entry>>
<1>1. name \in Names /\ node \in Nodes /\ order \in Orders /\ step \in Nat
  BY NamesAre DEF Handled, NumericNames, SearchOK
<1>2. /\ IsFiniteSet(mins) /\ mins \subseteq Int /\ IsFiniteSet(maxs) /\ maxs \subseteq Int
  BY DEF SearchOK, Measured
<1>3. PICK low \in Settings, high \in Settings :
        /\ Corner(low) /\ Corner(high)
        /\ LimitsIn(low, node).min = TrueLimits(node, Entry).min
        /\ LimitsIn(high, node).max = TrueLimits(node, Entry).max
  BY DEF CornersTell, Corner
<1>4. /\ IsFiniteSet(Lows) /\ Lows # {} /\ Lows \subseteq Int
      /\ IsFiniteSet(Highs) /\ Highs # {} /\ Highs \subseteq Int
  <2>1. name[1] = node /\ name[2] = Entry
    OBVIOUS
  <2> HIDE DEF name
  <2>2. All # {}
    BY <1>1, <2>1, SettingsOfEntry
  <2>3. All \subseteq Settings
    BY DEF SettingsOf
  <2> HIDE DEF All
  <2>4. QED
    BY <1>1, <2>2, <2>3, LimitsOfSome
<1>5. TrueLimits(node, Entry) = [min |-> Min(Lows), max |-> Max(Highs)]
  BY DEF TrueLimits, LimitsOver
<1>6. mins \subseteq Lows /\ maxs \subseteq Highs
  <2>1. PICK S \in SUBSET All : /\ mins = {LimitsIn(s, node).min : s \in S}
                                /\ maxs = {LimitsIn(s, node).max : s \in S}
    BY DEF Within
  <2> HIDE DEF All
  <2>2. QED
    BY <2>1
<1>7. LimitsIn(low, node).min \in mins /\ LimitsIn(high, node).max \in maxs
  <2>1. \A s \in Settings : Corner(s) => LimitsIn(s, node).min \in mins /\ LimitsIn(s, node).max \in maxs
    <3>1. SUFFICES ASSUME NEW s \in Settings, Corner(s)
                   PROVE  LimitsIn(s, node).min \in mins /\ LimitsIn(s, node).max \in maxs
      OBVIOUS
    <3>2. PICK number \in Nat : number < step /\ Picks(number, s)
      BY <1>1, <3>1, CornerIsListed
    <3>3. number \in 0..(step - 1)
      BY <1>1, <3>2
    <3>4. QED
      BY <3>1, <3>2, <3>3 DEF Seen
  <2>2. QED
    BY <1>3, <2>1
<1> HIDE DEF Lows, Highs, name
<1>8. Min(Lows) \in mins /\ Max(Highs) \in maxs
  BY <1>3, <1>5, <1>7
<1>9. /\ Min(mins) \in mins /\ \A x \in mins : Min(mins) <= x
      /\ Max(maxs) \in maxs /\ \A x \in maxs : x <= Max(maxs)
  BY <1>2, <1>8, MinMax
<1>10. (\A x \in Lows : Min(Lows) <= x) /\ (\A x \in Highs : x <= Max(Highs))
  BY <1>4, MinMax
<1>11. /\ Min(mins) <= Min(Lows) /\ Min(Lows) <= Min(mins)
       /\ Max(Highs) <= Max(maxs) /\ Max(maxs) <= Max(Highs)
  BY <1>6, <1>8, <1>9, <1>10
<1>12. Min(mins) = Min(Lows) /\ Max(maxs) = Max(Highs)
  <2>1. \A x, y \in Int : x <= y /\ y <= x => x = y
    OBVIOUS
  <2>2. Min(mins) \in Int /\ Min(Lows) \in Int /\ Max(maxs) \in Int /\ Max(Highs) \in Int
    BY <1>2, <1>8, <1>9
  <2>3. QED
    BY <1>11, <2>1, <2>2
<1>13. QED
  BY <1>5, <1>12

(* Where the extremes do not tell, it is the smallest of some. *)
LEMMA TakenAreRight ==
  ASSUME SearchOK, <<node, Entry>> \in NumericNames, NeedsSearch(node), step = Combinations(extremes),
         mins # {}, extremes = ExtremesAtFirst(node, Entry), Within, Seen
  PROVE  [min |-> Min(mins), max |-> Max(maxs)] \in RightLimits(node, Entry)
<1>1. CASE CornersTell(node, Entry)
  BY <1>1, TakenAtCorners DEF RightLimits
<1>2. CASE ~CornersTell(node, Entry)
  <2>1. PICK S \in SUBSET SettingsOf(node, Entry) :
          /\ mins = {LimitsIn(s, node).min : s \in S}
          /\ maxs = {LimitsIn(s, node).max : s \in S}
    BY DEF Within
  <2>2. S # {}
    BY <2>1
  <2>3. [min |-> Min(mins), max |-> Max(maxs)] = LimitsOver(S, node)
    BY <2>1 DEF LimitsOver
  <2>4. RightLimits(node, Entry)
          = {LimitsOver(T, node) : T \in (SUBSET SettingsOf(node, Entry)) \ {{}}}
    BY <1>2 DEF RightLimits
  <2>5. S \in (SUBSET SettingsOf(node, Entry)) \ {{}}
    BY <2>1, <2>2
  <2>6. QED
    BY <2>3, <2>4, <2>5
<1>3. QED
  BY <1>1, <1>2

LEMMA TakeKeepsSearch ==
  ASSUME TypeInv, SearchInv, clean, phase = "limits", TakeExtremes, UNCHANGED <<node, entries>>
  PROVE  SearchInv'
<1>1. /\ search = "apply" /\ step = Combinations(extremes) /\ mins # {}
      /\ search' = "reset" /\ limits' = [min |-> Min(mins), max |-> Max(maxs)]
      /\ Entry' = Entry
  BY DEF TakeExtremes, Entry
<1>2. /\ entries # <<>> /\ NeedsSearch(node)
      /\ extremes = ExtremesAtFirst(node, Entry) /\ Within /\ Seen
  BY <1>1 DEF SearchInv
<1>3. SearchOK /\ IsNumeric(node) /\ <<node, Entry>> \in Names
  BY <1>2, EntryIsNamed DEF TypeInv, WalkOK, NumericPhases
<1>4. <<node, Entry>> \in NumericNames
  BY <1>3 DEF NumericNames
<1>5. limits' \in RightLimits(node, Entry)
  BY <1>1, <1>2, <1>3, <1>4, TakenAreRight
<1>6. RightLimits(node, Entry)' = RightLimits(node, Entry)
  BY <1>1
<1>7. QED
  BY <1>1, <1>5, <1>6 DEF SearchInv, SearchedLimitsAreTrue

LEMMA SearchInvPreserved ==
  TypeInv /\ RestoreInv /\ TruthInv /\ SearchInv /\ [Next]_vars => SearchInv'
<1> SUFFICES ASSUME TypeInv, RestoreInv, TruthInv, SearchInv, [Next]_vars, clean', search' # "idle"
             PROVE  SearchInv'
  BY DEF SearchInv, SearchedLimitsAreTrue
<1>1. clean
  BY CleanBefore DEF TypeInv
<1>2. search # "idle" => phase \in {"limits", "crashed"}
  BY DEF RestoreInv, SearchIsWhereItIs
<1>3. CASE Search
  <2>1. /\ phase = "limits" /\ UNCHANGED <<node, entries, phase>> /\ failures' = failures
    BY <1>3 DEF Search, walk
  <2>2. CASE search = "idle" /\ SaveSettings(node)
    <3>1. SelectorsAreSet
      BY <1>1 DEF TruthInv
    <3>2. QED
      BY <1>1, <2>1, <2>2, <3>1, SaveKeepsSearch
  <2>3. CASE ApplyExtreme
    BY <1>1, <2>1, <2>3, ApplyKeepsSearch
  <2>4. CASE MeasureLimits
    BY <1>1, <2>1, <2>4, MeasureKeepsSearch
  <2>5. CASE TakeExtremes
    BY <1>1, <2>1, <2>5, TakeKeepsSearch
  <2>6. CASE ResetValue
    <3>1. UNCHANGED <<search, limits, node, entries>> /\ search = "reset" /\ Entry' = Entry
      BY <2>1, <2>6 DEF ResetValue, Entry
    <3>2. RightLimits(node, Entry)' = RightLimits(node, Entry)
      BY <3>1
    <3>3. QED
      BY <1>1, <3>1, <3>2 DEF SearchInv, SearchedLimitsAreTrue
  <2>7. QED
    BY <1>3, <2>2, <2>3, <2>4, <2>5, <2>6 DEF Search
<1>4. CASE UNCHANGED <<settings, searching, clean, node, entries>>
  <2>1. /\ UNCHANGED <<settings, order, search, target, extremes, step, position, mins, maxs,
                       limits, clean, node, entries>>
        /\ Entry' = Entry
    BY <1>4 DEF searching, Entry
  <2>2. /\ ElsewhereAsAtFirst(node, Entry)' = ElsewhereAsAtFirst(node, Entry)
        /\ ControlsInOrder(node)' = ControlsInOrder(node)
        /\ ExtremesAtFirst(node, Entry)' = ExtremesAtFirst(node, Entry)
        /\ RightLimits(node, Entry)' = RightLimits(node, Entry)
    BY <2>1 DEF ElsewhereAsAtFirst, ControlsInOrder, ExtremesAtFirst
  <2>3. Within' = Within
    BY <2>1 DEF Within
  <2>4. /\ \A s \in Settings : Corner(s)' = Corner(s)
        /\ \A s \in Settings : \A k : Picks(k, s)' = Picks(k, s)
    BY <2>1, <2>2 DEF Corner, Picks
  <2>5. (Driven => Driven') /\ (Seen => Seen')
    BY <2>1, <2>2, <2>4 DEF Driven, Seen
  <2>6. QED
    BY <1>1, <2>1, <2>2, <2>3, <2>5 DEF SearchInv, SearchedLimitsAreTrue
<1>5. QED
  BY <1>2, <1>3, <1>4
     DEF Next, vars, Walk, Start, NextNode, BeginEntry, LookUp, QueryAccess, Unlock, FindLimits,
         FinishSearch, SearchEnds, SearchCrashes, StoreProps, MakeSpec, EntryThrows, SearchThrows,
         FinishNode, InstallSpec, Finish, Crash, ForeignLoads, ForeignSaves, LimitsDirect,
         LimitsKnown, camera, searching, walk, cache, history

LEMMA SearchInvInitially == Init => SearchInv
BY DEF Init, InitSearch, SearchInv, SearchedLimitsAreTrue

LEMMA SearchInvHolds == Spec => [](TruthInv /\ SearchInv)
<1>1. Init => TruthInv /\ SearchInv
  BY TruthInitially, SearchInvInitially
<1>2. TypeInv /\ RestoreInv /\ OnceInv /\ TruthInv /\ SearchInv /\ [Next]_vars
        => TruthInv' /\ SearchInv'
  <2>1. SearchInv => (clean => SearchedLimitsAreTrue)
    BY DEF SearchInv
  <2>2. QED
    BY <2>1, TruthPreserved, SearchInvPreserved
<1>3. QED
  BY <1>1, <1>2, TypeInvHolds, RestoreInvHolds, OnceInvHolds, PTL DEF Spec

(* Unless a call to the camera failed, or the addresses put a control      *)
(* before one that locks it, a number whose limits are asked of the camera *)
(* and cached under a name of its own has the access the camera gives it   *)
(* and, if it is at its limits with its controls at their extremes,        *)
(* exactly the limits it can ever have; otherwise those of some of the     *)
(* settings. So it is wherever the process has them from:                  *)
(* gst_pylon_find_limits, a walk that died, or another process that writes *)
(* the same cache file.                                                    *)
THEOREM OwnLimitsAreTrue == Spec => []LimitsAreTrue
<1>1. TruthInv /\ SearchInv => LimitsAreTrue
  BY TruthImplies DEF SearchInv
<1>2. QED
  BY <1>1, SearchInvHolds, PTL

-----------------------------------------------------------------------------
(* The empty vector. There is no combination only if a list of extremes is *)
(* empty, which the list of an enumeration is while it is locked; nothing  *)
(* is written then before the vector is read, so it still is locked.       *)

LockedEnumeration ==
  \E c \in Controls[target] : Node[c].kind = "enumeration" /\ ~IsWritable(settings, locked, c)

EmptyInv ==
  search = "apply" =>
    /\ mins = {} => step = 0
    /\ Combinations(extremes) = 0 => LockedEnumeration

LEMMA NoEmptyListNoZero ==
  ASSUME NEW lists, ListsOK(lists), \A i \in 1..Len(lists) : Len(lists[i]) # 0
  PROVE  Combinations(lists) # 0
<1> DEFINE n == Len(lists)
<1>1. n \in Nat /\ \A i \in 1..n : Len(lists[i]) \in Nat /\ Len(lists[i]) # 0
  BY DEF ListsOK
<1>2. PICK product :
        /\ product[0] = 1
        /\ \A i \in 1..n : product[i] = Times(lists, i, product[i - 1])
        /\ Combinations(lists) = product[n]
  BY <1>1, CombinationsIsALoop
<1> DEFINE Good == {i \in Nat : i <= n => product[i] \in Nat /\ 1 <= product[i]}
<1>3. 0 \in Good
  BY <1>2
<1>4. ASSUME NEW i \in Nat, i \in Good PROVE i + 1 \in Good
  <2>1. SUFFICES ASSUME i + 1 <= n PROVE product[i + 1] \in Nat /\ 1 <= product[i + 1]
    OBVIOUS
  <2>2. i + 1 \in 1..n /\ (i + 1) - 1 = i /\ i <= n
    BY <1>1, <2>1
  <2>3. /\ product[i] \in Nat /\ 1 <= product[i]
        /\ product[i + 1] = product[i] * Len(lists[i + 1])
    BY <1>2, <1>4, <2>2 DEF Times
  <2>4. Len(lists[i + 1]) \in Nat /\ 1 <= Len(lists[i + 1])
    BY <1>1, <2>2
  <2>5. 1 * Len(lists[i + 1]) <= product[i] * Len(lists[i + 1])
        /\ product[i] * Len(lists[i + 1]) \in Nat
    BY <2>3, <2>4, TimesGrows
  <2>6. QED
    BY <2>3, <2>4, <2>5
<1>5. n \in Good
  <2> HIDE DEF Good, n
  <2>1. QED
    BY <1>1, <1>3, <1>4, Induction
<1>6. QED
  BY <1>1, <1>2, <1>5

LEMMA SaveFindsCause ==
  ASSUME TypeInv, node \in Nodes, SaveSettings(node)
  PROVE  EmptyInv'
<1> DEFINE controls == ControlsInOrder(node)
<1>1. /\ extremes' = [i \in DOMAIN controls |-> ExtremesOf(controls[i])]
      /\ target' = node /\ step' = 0 /\ UNCHANGED <<settings, locked>>
  BY DEF SaveSettings, camera
<1>2. order \in Orders /\ settings \in Settings /\ locked \in {0, 1}
  BY DEF TypeInv, SearchOK, CameraOK
<1>3. controls \in Seq(Nodes) /\ \A i \in DOMAIN controls : controls[i] \in Controls[node]
  BY <1>2, ControlsInOrderAre
<1>4. DOMAIN controls = 1..Len(controls) /\ Len(controls) \in Nat
  BY <1>3
<1> HIDE DEF controls
<1>5. Len(extremes') = Len(controls)
  BY <1>1, <1>4
<1>6. ASSUME NEW i \in DOMAIN controls
      PROVE  /\ Len(extremes'[i]) \in Nat
             /\ Len(extremes'[i]) = 0 => /\ Node[controls[i]].kind = "enumeration"
                                         /\ ~IsWritable(settings, locked, controls[i])
  <2>1. extremes'[i] = ExtremesIn(settings, locked, controls[i]) /\ controls[i] \in Controls[node]
    BY <1>1, <1>3 DEF ExtremesOf
  <2>2. QED
    BY <1>2, <2>1, ExtremesAre
<1>7. ASSUME Combinations(extremes') = 0 PROVE LockedEnumeration'
  <2>1. ListsOK(extremes')
    BY <1>4, <1>5, <1>6 DEF ListsOK
  <2>2. PICK i \in DOMAIN controls : Len(extremes'[i]) = 0
    BY <1>4, <1>5, <1>7, <2>1, NoEmptyListNoZero
  <2>3. controls[i] \in Controls[node]
    BY <1>3
  <2>4. QED
    BY <1>1, <1>6, <2>2, <2>3 DEF LockedEnumeration
<1>8. QED
  BY <1>1, <1>7 DEF EmptyInv

LEMMA EmptyPreserved == TypeInv /\ RestoreInv /\ EmptyInv /\ [Next]_vars => EmptyInv'
<1> SUFFICES ASSUME TypeInv, RestoreInv, EmptyInv, [Next]_vars, search' = "apply" PROVE EmptyInv'
  BY DEF EmptyInv
<1>1. search # "idle" => phase \in {"limits", "crashed"}
  BY DEF RestoreInv, SearchIsWhereItIs
<1>2. node \in Nodes /\ step \in Nat
  BY DEF TypeInv, WalkOK, SearchOK
<1>3. CASE Search
  <2>1. CASE SaveSettings(node)
    BY <1>2, <2>1, SaveFindsCause
  <2>2. CASE ApplyExtreme
    <3>1. /\ search = "apply" /\ step < Combinations(extremes)
          /\ UNCHANGED <<extremes, step, mins>>
      BY <2>2 DEF ApplyExtreme
    <3>2. Combinations(extremes') # 0
      BY <1>2, <3>1
    <3>3. QED
      BY <3>1, <3>2 DEF EmptyInv
  <2>3. CASE MeasureLimits
    <3>1. /\ search = "apply" /\ step < Combinations(extremes) /\ UNCHANGED extremes
          /\ mins' # {}
      BY <2>3 DEF MeasureLimits
    <3>2. Combinations(extremes') # 0
      BY <1>2, <3>1
    <3>3. QED
      BY <3>1, <3>2 DEF EmptyInv
  <2>4. CASE TakeExtremes \/ ResetValue
    BY <2>4 DEF TakeExtremes, ResetValue
  <2>5. QED
    BY <1>3, <2>1, <2>2, <2>3, <2>4 DEF Search
<1>4. CASE UNCHANGED <<camera, searching>>
  <2>1. UNCHANGED <<settings, locked, search, target, extremes, step, mins>>
    BY <1>4 DEF camera, searching
  <2>2. LockedEnumeration' = LockedEnumeration
    BY <2>1 DEF LockedEnumeration
  <2>3. QED
    BY <2>1, <2>2 DEF EmptyInv
<1>5. QED
  BY <1>1, <1>3, <1>4
     DEF Next, vars, Walk, Start, NextNode, BeginEntry, LookUp, QueryAccess, Unlock, FindLimits,
         FinishSearch, SearchEnds, SearchCrashes, StoreProps, MakeSpec, EntryThrows, SearchThrows,
         FinishNode, InstallSpec, Finish, Crash, ForeignLoads, ForeignSaves, LimitsDirect,
         LimitsKnown, camera, searching

(* In every state, after failures and bad orders too, gst_pylon_find_limits *)
(* is about to dereference the end of an empty vector only if an            *)
(* enumeration that controls the feature is locked at that moment.          *)
THEOREM EmptyVectorIsExplained == Spec => []EmptyVectorHasCause
<1>1. Init => EmptyInv
  BY DEF Init, InitSearch, EmptyInv
<1>2. EmptyInv => EmptyVectorHasCause
  <2> SUFFICES ASSUME EmptyInv, NothingMeasured PROVE LockedEnumeration
    BY DEF EmptyVectorHasCause, LockedEnumeration
  <2>1. search = "apply" /\ step = Combinations(extremes) /\ mins = {}
    BY DEF NothingMeasured
  <2>2. QED
    BY <2>1 DEF EmptyInv
<1>3. QED
  BY <1>1, <1>2, EmptyPreserved, TypeInvHolds, RestoreInvHolds, PTL DEF Spec
=============================================================================
