---------------------------- MODULE GeometryProofs ----------------------------
(***************************************************************************)
(* Proofs about Geometry, for any sensor, increments, user sets, requests, *)
(* demands and any number of peers that query the caps.                    *)
(***************************************************************************)
EXTENDS Geometry, TLAPS

(* The conjuncts of TypeOK, in groups that share few actions.               *)
CameraOK ==
  /\ access \in {"always", "stopped", "never"}
  /\ grabbing \in BOOLEAN /\ correction \in BOOLEAN
  /\ cache \in [Axes -> Nat \union {Unset}]
QueryOK ==
  /\ query \in [Threads -> [stage : {"idle", "save", "minimise", "range", "restore"},
                            axis : Axes, structure : 1..Len(Structures)]]
  /\ saved \in [Threads -> [Axes -> Nat]]
NegotiationOK ==
  /\ phase \in {"open", "query", "fixate", "set_caps", "size", "offset", "reset", "start",
                "streaming", "failed"}
  /\ axis \in Axes
  /\ format \in {"raw", "bayer"}
  /\ demand \in [Axes -> Nat \union {Any}]
  /\ range \in [Axes -> Nat] /\ chosen \in [Axes -> Nat]
  /\ why \in {"none", "query", "caps", "alignment", "size", "offset", "camera"}
ApplicationOK ==
  /\ app \in [stage : {"idle", "cache", "write"}, axis : Axes, value : Nat]
  /\ request \in [Axes -> Nat \union {Unset}]
  /\ due \in [Axes -> SUBSET Nat]
  /\ disturbed \in [Axes -> BOOLEAN]

-----------------------------------------------------------------------------
(* Arithmetic and data.                                                    *)

LEMMA ZeroIsStep == ASSUME NEW n \in Nat \ {0} PROVE 0 % n = 0
OBVIOUS

LEMMA Division ==
  ASSUME NEW n \in Nat \ {0}, NEW v \in Nat
  PROVE  v \div n \in Nat /\ v % n \in 0..(n - 1) /\ v = (v \div n) * n + (v % n)
BY SMT

LEMMA RoundedDown ==
  ASSUME NEW v \in Nat, NEW n \in Nat \ {0} PROVE v - (v % n) \in Nat
<1> DEFINE d == v \div n
           r == v % n
<1>1. d \in Nat /\ r \in Nat /\ v = d * n + r
  BY Division
<1> HIDE DEF d, r
<1>2. d * n >= 0 /\ d * n \in Int
  BY <1>1, SMT
<1> QED
  BY <1>1, <1>2 DEF r

LEMMA PairOfSizes ==
  ASSUME NEW S, NEW w \in S, NEW h \in S PROVE <<w, h>> \in [1..2 -> S]
OBVIOUS

LEMMA TwoStructures == Len(Structures) = 2
BY DEF Structures

(* What can be written leaves the size in range, and is in increments.      *)
LEMMA OffsetFits ==
  ASSUME NEW a \in Axes, NEW s, NEW o, NEW p \in OffsetsFor(a, s),
         s \in SizesFor(a, o), o \in OffsetsFor(a, s)
  PROVE  s \in SizesFor(a, p) /\ s \in Nat /\ p \in Nat /\ s <= Sensor[a] - p
<1>1. Sensor[a] \in Nat /\ Inc[a] \in Nat
  BY GeometryAssumption DEF Axes
<1>2. o \in Int
  BY DEF OffsetsFor
<1>3. s \in Int
  BY <1>1, <1>2 DEF SizesFor
<1> QED
  BY <1>1, <1>2, <1>3 DEF SizesFor, OffsetsFor

LEMMA SizeFits ==
  ASSUME NEW a \in Axes, NEW s, NEW o, NEW r \in SizesFor(a, o),
         s \in SizesFor(a, o), o \in OffsetsFor(a, s)
  PROVE  o \in OffsetsFor(a, r)
<1>1. Sensor[a] \in Nat /\ Inc[a] \in Nat
  BY GeometryAssumption DEF Axes
<1>2. o \in Int
  BY DEF OffsetsFor
<1>3. s \in Int /\ r \in Int
  BY <1>1, <1>2 DEF SizesFor
<1> QED
  BY <1>1, <1>2, <1>3 DEF SizesFor, OffsetsFor

LEMMA ZeroFits ==
  ASSUME NEW a \in Axes, NEW s, NEW o,
         s \in SizesFor(a, o), o \in OffsetsFor(a, s)
  PROVE  0 \in OffsetsFor(a, s)
<1>1. Sensor[a] \in Nat /\ Inc[a] \in Nat \ {0}
  BY GeometryAssumption DEF Axes
<1>2. o \in Int
  BY DEF OffsetsFor
<1>3. s \in Int
  BY <1>1, <1>2 DEF SizesFor
<1>4. 0 % Inc[a] = 0
  BY <1>1, ZeroIsStep
<1> QED
  BY <1>1, <1>2, <1>3, <1>4 DEF SizesFor, OffsetsFor

LEMMA NearestFits ==
  ASSUME NEW a \in Axes, NEW s, NEW v
  PROVE  Nearest(a, s, v) \subseteq OffsetsFor(a, s)
BY DEF Nearest

LEMMA OffsetsAreNumbers ==
  ASSUME NEW a \in Axes, NEW s PROVE OffsetsFor(a, s) \subseteq Nat
BY DEF OffsetsFor

(* An offset that needs no correction is the nearest to itself.             *)
LEMMA NearestToItself ==
  ASSUME NEW a \in Axes, NEW s, NEW v \in OffsetsFor(a, s)
  PROVE  v \in Nearest(a, s, v)
<1>1. v \in Nat /\ OffsetsFor(a, s) \subseteq Nat
  BY OffsetsAreNumbers
<1>2. ASSUME NEW p \in OffsetsFor(a, s) PROVE Distance(v, v) <= Distance(v, p)
  BY <1>1, <1>2 DEF Distance
<1> QED
  BY <1>2 DEF Nearest

(* What a write leaves is next to what was asked for, exact or corrected.   *)
LEMMA WrittenIsNearest ==
  ASSUME NEW a \in Axes, NEW v, NEW o \in Written(a, v)
  PROVE  Writable /\ o \in Nearest(a, size[a], v) /\ o \in OffsetsFor(a, size[a])
BY NearestToItself, NearestFits DEF Written

-----------------------------------------------------------------------------
(* Type correctness. First the sensor: which actions move the image.       *)

LEMMA SensorKept ==
  ASSUME OnSensor, QueryOK, NegotiationOK, ApplicationOK, [Next]_vars
  PROVE  OnSensor'
<1> USE DEF OnSensor, camera
<1> DEFINE Kept == UNCHANGED <<size, offset>>
<1>0. ASSUME Kept PROVE OnSensor'
  BY <1>0
<1>1. ASSUME NEW t \in Threads, MinimiseOffset(t) PROVE OnSensor'
  <2> DEFINE a == query[t].axis
  <2>1. a \in Axes
    BY DEF QueryOK
  <2>2. 0 \in OffsetsFor(a, size[a]) /\ size[a] \in SizesFor(a, 0)
    BY <2>1, ZeroFits, OffsetFits
  <2>3. size' = size /\ (offset' = [offset EXCEPT ![a] = 0] \/ offset' = offset)
    BY <1>1 DEF MinimiseOffset
  <2> HIDE DEF a
  <2> QED
    BY <2>1, <2>2, <2>3
<1>2. ASSUME NEW t \in Threads, RestoreOffset(t) PROVE OnSensor'
  <2> DEFINE a == query[t].axis
             v == saved[t][a]
  <2>1. a \in Axes
    BY DEF QueryOK
  <2>2. size' = size /\ \/ offset' = offset
                        \/ offset' = [offset EXCEPT ![a] = v] /\ v \in OffsetsFor(a, size[a])
    BY <1>2 DEF RestoreOffset
  <2> HIDE DEF a, v
  <2>3. v \in OffsetsFor(a, size[a]) => size[a] \in SizesFor(a, v)
    BY <2>1, OffsetFits
  <2> QED
    BY <2>1, <2>2, <2>3
<1>3. CASE SetSize
  <2>1. axis \in Axes /\ chosen[axis] \in SizesFor(axis, offset[axis])
    BY <1>3 DEF NegotiationOK, SetSize
  <2>2. offset[axis] \in OffsetsFor(axis, chosen[axis])
    BY <2>1, SizeFits
  <2> QED
    BY <2>1, <2>2, <1>3 DEF SetSize
<1>4. ASSUME NEW a \in Axes, NEW v, NEW o \in Written(a, v),
             offset' = [offset EXCEPT ![a] = o], size' = size
      PROVE  OnSensor'
  <2>1. o \in OffsetsFor(a, size[a]) /\ size[a] \in SizesFor(a, o)
    BY WrittenIsNearest, OffsetFits
  <2> QED
    BY <1>4, <2>1
<1>5. CASE ApplyOffset
  <2>1. axis \in Axes
    BY DEF NegotiationOK
  <2> QED
    BY <1>5, <1>4, <2>1 DEF ApplyOffset
<1>6. CASE AppWrites
  <2>1. app.axis \in Axes
    BY DEF ApplicationOK
  <2> QED
    BY <1>6, <1>4, <2>1 DEF AppWrites
<1>7. CASE Reopen
  BY <1>7, PowerOnAssumption DEF Reopen
<1>8. ASSUME NEW t \in Threads,
             PeerQueries(t) \/ SaveOffset(t) \/ ReadRanges(t) \/ QueryThrows(t)
      PROVE  Kept
  BY <1>8 DEF PeerQueries, SaveOffset, ReadRanges, QueryThrows
<1>9. ASSUME \/ Negotiate \/ Fixate \/ NoCommonCaps \/ StopGrabbing \/ NotAligned
             \/ SizeRefused \/ OffsetRefused \/ NoOffset \/ ResetCache
             \/ StartGrabbing \/ ConfigurationThrows
      PROVE  Kept
  BY <1>9 DEF Negotiate, Fixate, NoCommonCaps, StopGrabbing, NotAligned, SizeRefused,
              OffsetRefused, NoOffset, ResetCache, StartGrabbing, ConfigurationThrows
<1>10. ASSUME \/ \E a \in Axes : \E v \in Requests[a] : AppTests(a, v)
              \/ AppCaches \/ AppWriteIgnored
              \/ UNCHANGED vars
       PROVE  Kept
  BY <1>10 DEF AppTests, AppCaches, AppWriteIgnored, vars
<1> HIDE DEF Kept
<1> QED
  BY <1>0, <1>1, <1>2, <1>3, <1>5, <1>6, <1>7, <1>8, <1>9, <1>10
     DEF Next, Query, Configure, Application

-----------------------------------------------------------------------------
(* The other groups.                                                       *)

LEMMA CameraTyped ==
  ASSUME CameraOK, NegotiationOK, ApplicationOK, [Next]_vars
  PROVE  CameraOK'
<1> USE DEF CameraOK, camera
<1> DEFINE Kept == UNCHANGED <<access, grabbing, correction, cache>>
<1>0. ASSUME Kept PROVE CameraOK'
  BY <1>0
<1>1. CASE StopGrabbing
  BY <1>1 DEF StopGrabbing
<1>2. CASE StartGrabbing
  BY <1>2 DEF StartGrabbing
<1>3. CASE ResetCache
  BY <1>3 DEF ResetCache, NegotiationOK, Unset
<1>4. CASE Reopen
  BY <1>4 DEF Reopen, Unset
<1>5. CASE AppCaches
  BY <1>5 DEF AppCaches, ApplicationOK
<1>6. ASSUME NEW t \in Threads, Query(t) PROVE Kept
  BY <1>6 DEF Query, PeerQueries, SaveOffset, MinimiseOffset, ReadRanges, RestoreOffset,
              QueryThrows
<1>7. ASSUME \/ Negotiate \/ Fixate \/ NoCommonCaps \/ NotAligned \/ SetSize \/ SizeRefused
             \/ ApplyOffset \/ OffsetRefused \/ NoOffset \/ ConfigurationThrows
      PROVE  Kept
  BY <1>7 DEF Negotiate, Fixate, NoCommonCaps, NotAligned, SetSize, SizeRefused, ApplyOffset,
              OffsetRefused, NoOffset, ConfigurationThrows
<1>8. ASSUME \/ \E a \in Axes : \E v \in Requests[a] : AppTests(a, v)
             \/ AppWrites \/ AppWriteIgnored
             \/ UNCHANGED vars
      PROVE  Kept
  BY <1>8 DEF AppTests, AppWrites, AppWriteIgnored, vars
<1> HIDE DEF Kept
<1> QED
  BY <1>0, <1>1, <1>2, <1>3, <1>4, <1>5, <1>6, <1>7, <1>8 DEF Next, Configure, Application

(* What a query's step does to the place its thread is at.                  *)
LEMMA MoveTyped ==
  ASSUME QueryOK, NEW t \in Threads,
         NEW stage \in {"idle", "save", "minimise", "range", "restore"}, NEW a \in Axes,
         Move(t, stage, a)
  PROVE  /\ query' \in [Threads -> [stage : {"idle", "save", "minimise", "range", "restore"},
                                    axis : Axes, structure : 1..Len(Structures)]]
         /\ query'[t].stage = stage /\ query'[t].axis = a
         /\ \A u \in Threads : u # t => query'[u] = query[u]
BY DEF QueryOK, Move

LEMMA NextStageTyped ==
  ASSUME QueryOK, NEW t \in Threads,
         NEW stage \in {"save", "minimise"}, NEW then \in {"minimise", "range"},
         NextStage(t, stage, then)
  PROVE  /\ query' \in [Threads -> [stage : {"idle", "save", "minimise", "range", "restore"},
                                    axis : Axes, structure : 1..Len(Structures)]]
         /\ query'[t].stage = IF query[t].axis = 1 THEN stage ELSE then
         /\ query'[t].axis = IF query[t].axis = 1 THEN 2 ELSE 1
         /\ \A u \in Threads : u # t => query'[u] = query[u]
BY MoveTyped DEF NextStage, Axes

LEMMA PlacesTyped ==
  /\ Idle \in [stage : {"idle"}, axis : {1}, structure : 1..Len(Structures)]
  /\ [Idle EXCEPT !.stage = "save"]
       \in [stage : {"save"}, axis : {1}, structure : 1..Len(Structures)]
  /\ QueryOK => \A t \in Threads :
       AfterStructure(t) \in [stage : {"idle", "save"}, axis : {1}, structure : 1..Len(Structures)]
BY TwoStructures DEF Idle, AfterStructure, QueryOK

LEMMA QueryTyped ==
  ASSUME OnSensor, QueryOK, NegotiationOK, [Next]_vars
  PROVE  QueryOK'
<1> USE DEF camera
<1> DEFINE Places == [stage : {"idle", "save", "minimise", "range", "restore"},
                      axis : Axes, structure : 1..Len(Structures)]
           Kept == UNCHANGED <<query, saved>>
<1>0. ASSUME Kept PROVE QueryOK'
  BY <1>0 DEF QueryOK
<1>a. /\ \A t \in Threads : query[t] \in Places
      /\ Idle \in Places /\ [Idle EXCEPT !.stage = "save"] \in Places
      /\ \A t \in Threads : AfterStructure(t) \in Places
  BY PlacesTyped DEF QueryOK, Axes
<1>1. ASSUME NEW t \in Threads, PeerQueries(t) PROVE QueryOK'
  BY <1>1, <1>a DEF PeerQueries, QueryOK
<1>2. ASSUME NEW t \in Threads, SaveOffset(t) PROVE QueryOK'
  <2>1. query' \in [Threads -> Places]
    BY <1>2, NextStageTyped DEF SaveOffset
  <2>2. \A a \in Axes : offset[a] \in Nat
    BY OffsetsAreNumbers DEF OnSensor
  <2> QED
    BY <1>2, <2>1, <2>2 DEF SaveOffset, QueryOK
<1>3. ASSUME NEW t \in Threads, MinimiseOffset(t) PROVE QueryOK'
  BY <1>3, NextStageTyped DEF MinimiseOffset, QueryOK
<1>4. ASSUME NEW t \in Threads, ReadRanges(t) PROVE QueryOK'
  BY <1>4, MoveTyped DEF ReadRanges, QueryOK, Axes
<1>5. ASSUME NEW t \in Threads, RestoreOffset(t) PROVE QueryOK'
  <2>1. [query[t] EXCEPT !.axis = 2] \in Places
    BY <1>a DEF Axes
  <2>2. query' \in [Threads -> Places]
    BY <1>5, <1>a, <2>1 DEF RestoreOffset, QueryOK
  <2>3. saved' \in [Threads -> [Axes -> Nat]]
    BY <1>5 DEF RestoreOffset, QueryOK
  <2> QED
    BY <2>2, <2>3 DEF QueryOK
<1>6. ASSUME NEW t \in Threads, QueryThrows(t) PROVE QueryOK'
  BY <1>6, <1>a DEF QueryThrows, QueryOK
<1>7. CASE Negotiate
  BY <1>7, <1>a DEF Negotiate, QueryOK, Threads
<1>8. ASSUME \/ Fixate \/ NoCommonCaps \/ StopGrabbing \/ NotAligned \/ SetSize \/ SizeRefused
             \/ ApplyOffset \/ OffsetRefused \/ NoOffset \/ ResetCache \/ StartGrabbing
             \/ ConfigurationThrows \/ Reopen
      PROVE  Kept
  BY <1>8 DEF Fixate, NoCommonCaps, StopGrabbing, NotAligned, SetSize, SizeRefused, ApplyOffset,
              OffsetRefused, NoOffset, ResetCache, StartGrabbing, ConfigurationThrows, Reopen
<1>9. ASSUME \/ \E a \in Axes : \E v \in Requests[a] : AppTests(a, v)
             \/ AppCaches \/ AppWrites \/ AppWriteIgnored
             \/ UNCHANGED vars
      PROVE  Kept
  BY <1>9 DEF AppTests, AppCaches, AppWrites, AppWriteIgnored, vars
<1> HIDE DEF Kept
<1> QED
  BY <1>0, <1>1, <1>2, <1>3, <1>4, <1>5, <1>6, <1>7, <1>8, <1>9
     DEF Next, Query, Configure, Application

LEMMA FailTyped ==
  ASSUME NEW reason \in {"query", "caps", "alignment", "size", "offset", "camera"},
         NegotiationOK, axis' = axis, Fail(reason)
  PROVE  NegotiationOK'
BY GeometryAssumption DEF Fail, Forget, NegotiationOK

(* The sizes that the negotiation may choose.                               *)
LEMMA ChosenTyped ==
  ASSUME OnSensor, NegotiationOK, Fixate
  PROVE  chosen' \in [Axes -> Nat]
<1>1. \A a \in Axes : size[a] \in Nat
  BY OffsetFits DEF OnSensor
<1>2. RoundDown(range[1]) \in Nat
  BY RoundedDown, GeometryAssumption DEF RoundDown, NegotiationOK, Axes
<1>3. \A a \in Axes : Preferred(a) \in Nat
  BY <1>1, <1>2 DEF Preferred
<1>4. \A a \in Axes : Inc[a] \in Nat /\ range[a] \in Nat
  BY GeometryAssumption DEF NegotiationOK
<1>5. \A a \in Axes : Fixated(a, Preferred(a)) \in Nat
  BY <1>3, <1>4 DEF Fixated
<1>6. \A a \in Axes : demand[a] # Any => demand[a] \in Nat
  BY DEF NegotiationOK
<1> QED
  BY <1>5, <1>6 DEF Fixate

LEMMA NegotiationTyped ==
  ASSUME OnSensor, NegotiationOK, [Next]_vars
  PROVE  NegotiationOK'
<1> USE DEF negotiation
<1> DEFINE Kept == UNCHANGED <<phase, axis, format, demand, range, chosen, why>>
<1>0. ASSUME Kept PROVE NegotiationOK'
  BY <1>0 DEF NegotiationOK
<1>1. ASSUME NEW t \in Threads, ReadRanges(t) PROVE NegotiationOK'
  <2>1. Ranges \in [Axes -> Nat]
    <3>1. \A a \in Axes : Sensor[a] - offset[a] \in Nat
      BY GeometryAssumption DEF OnSensor, SizesFor, OffsetsFor
    <3> QED
      BY <3>1 DEF Ranges
  <2>2. range' \in [Axes -> Nat]
    BY <1>1, <2>1 DEF ReadRanges, NegotiationOK
  <2> QED
    BY <1>1, <2>2 DEF ReadRanges, NegotiationOK
<1>2. ASSUME NEW t \in Threads, RestoreOffset(t) PROVE NegotiationOK'
  BY <1>2 DEF RestoreOffset, NegotiationOK
<1>3. ASSUME NEW t \in Threads, QueryThrows(t) PROVE NegotiationOK'
  BY <1>3, <1>0, FailTyped DEF QueryThrows
<1>4. CASE Negotiate
  <2>1. demand' \in [Axes -> Nat \union {Any}]
    <3>1. Demands[1] \subseteq Nat /\ Demands[2] \subseteq Nat
      BY GeometryAssumption DEF Axes
    <3>2. PICK w \in Nat \union {Any}, h \in Nat \union {Any} : demand' = <<w, h>>
      BY <1>4, <3>1 DEF Negotiate
    <3> QED
      BY <3>2, PairOfSizes DEF Axes
  <2> QED
    BY <1>4, <2>1 DEF Negotiate, NegotiationOK
<1>5. CASE Fixate
  BY <1>5, ChosenTyped DEF Fixate, NegotiationOK
<1>6. CASE StopGrabbing
  BY <1>6 DEF StopGrabbing, NegotiationOK, Axes
<1>7. CASE SetSize
  BY <1>7 DEF SetSize, NegotiationOK, Axes
<1>8. CASE ApplyOffset
  BY <1>8 DEF ApplyOffset, NegotiationOK, Axes
<1>9. CASE NoOffset
  BY <1>9 DEF NoOffset, AfterOffset, NegotiationOK, Axes
<1>10. CASE ResetCache
  BY <1>10 DEF ResetCache, AfterOffset, NegotiationOK, Axes
<1>11. CASE StartGrabbing
  BY <1>11, GeometryAssumption DEF StartGrabbing, Forget, NegotiationOK
<1>12. CASE Reopen
  BY <1>12 DEF Reopen, NegotiationOK
<1>13. ASSUME NoCommonCaps \/ NotAligned \/ SizeRefused \/ OffsetRefused \/ ConfigurationThrows
       PROVE  NegotiationOK'
  BY <1>13, FailTyped
     DEF NoCommonCaps, NotAligned, SizeRefused, OffsetRefused, ConfigurationThrows
<1>14. ASSUME NEW t \in Threads, PeerQueries(t) \/ SaveOffset(t) \/ MinimiseOffset(t)
       PROVE  Kept
  BY <1>14 DEF PeerQueries, SaveOffset, MinimiseOffset
<1>15. ASSUME \/ \E a \in Axes : \E v \in Requests[a] : AppTests(a, v)
              \/ AppCaches \/ AppWrites \/ AppWriteIgnored
              \/ UNCHANGED vars
       PROVE  Kept
  BY <1>15 DEF AppTests, AppCaches, AppWrites, AppWriteIgnored, vars
<1> HIDE DEF Kept
<1> QED
  BY <1>0, <1>1, <1>2, <1>3, <1>4, <1>5, <1>6, <1>7, <1>8, <1>9, <1>10, <1>11, <1>12, <1>13,
     <1>14, <1>15
     DEF Next, Query, Configure, Application

LEMMA NearestAreNumbers ==
  ASSUME NEW a \in Axes, NEW s, NEW v PROVE Nearest(a, s, v) \in SUBSET Nat
BY NearestFits, OffsetsAreNumbers

LEMMA ApplicationTyped ==
  ASSUME OnSensor, OnSensor', QueryOK, NegotiationOK, ApplicationOK, [Next]_vars
  PROVE  ApplicationOK'
<1> USE DEF history
<1> DEFINE Kept == UNCHANGED <<app, request, due, disturbed>>
<1>0. ASSUME Kept PROVE ApplicationOK'
  BY <1>0 DEF ApplicationOK
<1>a. ASSUME UNCHANGED <<app, request, due>>, disturbed' \in [Axes -> BOOLEAN]
      PROVE  ApplicationOK'
  BY <1>a DEF ApplicationOK
<1>b. ASSUME NEW a \in Axes, NEW b \in BOOLEAN, disturbed' = [disturbed EXCEPT ![a] = b]
      PROVE  disturbed' \in [Axes -> BOOLEAN]
  BY <1>b DEF ApplicationOK
<1>1. ASSUME NEW t \in Threads, SaveOffset(t) PROVE ApplicationOK'
  <2> DEFINE a == query[t].axis
             b == disturbed[a] \/ Window(a)
  <2>1. a \in Axes
    BY DEF QueryOK
  <2>2. disturbed' = [disturbed EXCEPT ![a] = b] /\ UNCHANGED <<app, request, due>>
    BY <1>1 DEF SaveOffset
  <2>3. b \in BOOLEAN
    OBVIOUS
  <2> HIDE DEF a, b
  <2> QED
    BY <2>1, <2>2, <2>3, <1>a, <1>b
<1>2. ASSUME NEW t \in Threads, QueryThrows(t) PROVE ApplicationOK'
  BY <1>2, <1>a DEF QueryThrows
<1>3. CASE ApplyOffset
  <2> DEFINE b == Window(axis) \/ request[axis] # cache[axis]
  <2>1. disturbed' = [disturbed EXCEPT ![axis] = b] /\ UNCHANGED <<app, request, due>>
    BY <1>3 DEF ApplyOffset
  <2>2. b \in BOOLEAN /\ axis \in Axes
    BY DEF NegotiationOK
  <2> HIDE DEF b
  <2> QED
    BY <2>1, <2>2, <1>a, <1>b
<1>4. CASE StartGrabbing
  <2>1. disturbed' \in [Axes -> BOOLEAN]
    BY <1>4 DEF StartGrabbing
  <2>2. request' \in [Axes -> Nat \union {Unset}]
    BY <1>4 DEF StartGrabbing, ApplicationOK
  <2>3. due' \in [Axes -> SUBSET Nat]
    BY <1>4, NearestAreNumbers DEF StartGrabbing, ApplicationOK
  <2> QED
    BY <1>4, <2>1, <2>2, <2>3 DEF StartGrabbing, ApplicationOK
<1>5. CASE Reopen
  <2>1. \A a \in Axes : {offset'[a]} \in SUBSET Nat
    BY OffsetsAreNumbers DEF OnSensor
  <2> QED
    BY <1>5, <2>1 DEF Reopen, ApplicationOK
<1>6. ASSUME NEW a \in Axes, NEW v \in Requests[a], AppTests(a, v) PROVE ApplicationOK'
  <2>1. v \in Nat
    BY GeometryAssumption
  <2> QED
    BY <1>6, <2>1 DEF AppTests, ApplicationOK
<1>7. AppIdle \in [stage : {"idle", "cache", "write"}, axis : Axes, value : Nat]
  BY DEF AppIdle, Axes
<1>8. CASE AppCaches
  <2> DEFINE b == disturbed[app.axis] \/ TooLate(app.axis)
  <2>1. b \in BOOLEAN /\ app.axis \in Axes /\ app.value \in Nat
    BY DEF ApplicationOK
  <2>2. disturbed' = [disturbed EXCEPT ![app.axis] = b]
    BY <1>8 DEF AppCaches
  <2> HIDE DEF b
  <2>3. disturbed' \in [Axes -> BOOLEAN]
    BY <2>1, <2>2, <1>b
  <2> QED
    BY <1>8, <1>7, <2>1, <2>3 DEF AppCaches, ApplicationOK
<1>9. CASE AppWrites
  <2> DEFINE b == Window(app.axis) \/ cache[app.axis] # Unset
  <2>1. b \in BOOLEAN /\ app.axis \in Axes
    BY DEF ApplicationOK
  <2>2. disturbed' = [disturbed EXCEPT ![app.axis] = b]
    BY <1>9 DEF AppWrites
  <2> HIDE DEF b
  <2>3. disturbed' \in [Axes -> BOOLEAN]
    BY <2>1, <2>2, <1>b
  <2> QED
    BY <1>9, <1>7, <2>1, <2>3, NearestAreNumbers DEF AppWrites, ApplicationOK
<1>10. CASE AppWriteIgnored
  BY <1>10, <1>7 DEF AppWriteIgnored, ApplicationOK
<1>11. ASSUME NEW t \in Threads,
              PeerQueries(t) \/ MinimiseOffset(t) \/ ReadRanges(t) \/ RestoreOffset(t)
       PROVE  Kept
  BY <1>11 DEF PeerQueries, MinimiseOffset, ReadRanges, RestoreOffset
<1>12. ASSUME \/ Negotiate \/ Fixate \/ NoCommonCaps \/ StopGrabbing \/ NotAligned \/ SetSize
              \/ SizeRefused \/ OffsetRefused \/ NoOffset \/ ResetCache \/ ConfigurationThrows
              \/ UNCHANGED vars
       PROVE  Kept
  BY <1>12 DEF Negotiate, Fixate, NoCommonCaps, StopGrabbing, NotAligned, SetSize, SizeRefused,
               OffsetRefused, NoOffset, ResetCache, ConfigurationThrows, vars
<1> HIDE DEF Kept
<1> QED
  BY <1>0, <1>1, <1>2, <1>3, <1>4, <1>5, <1>6, <1>8, <1>9, <1>10, <1>11, <1>12
     DEF Next, Query, Configure, Application

-----------------------------------------------------------------------------

LEMMA TypeOKParts ==
  TypeOK <=> OnSensor /\ CameraOK /\ QueryOK /\ NegotiationOK /\ ApplicationOK
BY DEF TypeOK, CameraOK, QueryOK, NegotiationOK, ApplicationOK

(* A camera that was just opened.                                           *)
LEMMA InitTyped == Init => TypeOK
<1> SUFFICES ASSUME Init PROVE TypeOK
  OBVIOUS
<1>1. OnSensor
  BY PowerOnAssumption DEF Init, OnSensor
<1>2. \A a \in Axes : offset[a] \in Nat
  BY <1>1, OffsetsAreNumbers DEF OnSensor
<1>3. CameraOK
  BY GeometryAssumption DEF Init, CameraOK, Unset
<1>4. QueryOK
  <2>1. Idle \in [stage : {"idle"}, axis : Axes, structure : 1..Len(Structures)]
    BY PlacesTyped DEF Axes
  <2> QED
    BY <2>1 DEF Init, QueryOK
<1>5. NegotiationOK
  BY GeometryAssumption DEF Init, NegotiationOK, Axes
<1>6. ApplicationOK
  BY <1>2 DEF Init, ApplicationOK, AppIdle, Axes
<1> QED
  BY <1>1, <1>3, <1>4, <1>5, <1>6, TypeOKParts

LEMMA TypesKept == TypeOK /\ [Next]_vars => TypeOK'
<1> SUFFICES ASSUME TypeOK, [Next]_vars PROVE TypeOK'
  OBVIOUS
<1>1. OnSensor /\ CameraOK /\ QueryOK /\ NegotiationOK /\ ApplicationOK
  BY TypeOKParts
<1>2. OnSensor' /\ CameraOK' /\ QueryOK' /\ NegotiationOK'
  BY <1>1, SensorKept, CameraTyped, QueryTyped, NegotiationTyped
<1>3. ApplicationOK'
  BY <1>1, <1>2, ApplicationTyped
<1> QED
  BY <1>2, <1>3 DEF TypeOK, CameraOK, QueryOK, NegotiationOK, ApplicationOK

(* Whatever order the caps queries, the negotiations, the failures and the  *)
(* writes of the application come in, the image lies on the sensor.         *)
THEOREM TypeCorrect == Spec => []TypeOK
BY InitTyped, TypesKept, PTL DEF Spec

-----------------------------------------------------------------------------
(* The offset asked for. What OffsetAsAsked says of a stream is kept from  *)
(* the first write on: an offset is either the one due from before, or, if *)
(* the negotiation has applied the request, next to the request already;   *)
(* while a query has moved it away, that holds of what the query saved.    *)

(* The negotiation has taken the request out of the cache, or is about to.  *)
Applied(a) == request[a] # Unset /\ (cache[a] = Unset \/ (phase = "reset" /\ axis = a))
Passed(a) ==
  \/ phase = "start"
  \/ phase = "offset" /\ axis > a
  \/ phase = "reset" /\ axis >= a

Good(a, o) == IF Applied(a) THEN o \in Nearest(a, size[a], request[a]) ELSE o \in due[a]

(* A camera that stopped for a negotiation that failed is closed next.      *)
Live == phase # "failed" \/ grabbing

ControlInv ==
  /\ grabbing => phase \in {"streaming", "query", "fixate", "set_caps", "failed"}
  /\ phase = "reset" => cache[axis] # Unset
  /\ phase = "query" <=> query[Src].stage # "idle"

AskedAt(a) ==
  ~disturbed[a] /\ Live =>
    /\ ~Window(a) => Good(a, offset[a])
    /\ \A t \in Threads : InWindow(t, a) =>
         /\ Good(a, saved[t][a])
         /\ ~Writable => offset[a] = saved[t][a]
         /\ \A u \in Threads : InWindow(u, a) => u = t
    /\ Applied(a) => Passed(a)
    /\ phase = "reset" /\ axis = a => request[a] = cache[a]

IInv == TypeOK /\ ControlInv /\ \A a \in Axes : AskedAt(a)

LEMMA QueryPlaces ==
  ASSUME QueryOK, NEW t \in Threads
  PROVE  /\ query[t].stage \in {"idle", "save", "minimise", "range", "restore"}
         /\ query[t].axis \in {1, 2}
BY DEF QueryOK, Axes

LEMMA SrcIsThread == Src \in Threads /\ Src \notin Peers
BY GeometryAssumption DEF Threads

-----------------------------------------------------------------------------
(* Which windows a step of a query opens and closes.                       *)

LEMMA PeerQueriesWindows ==
  ASSUME QueryOK, NEW t \in Threads, PeerQueries(t)
  PROVE  /\ \A u \in Threads, a \in Axes : InWindow(u, a)' <=> InWindow(u, a)
         /\ t # Src /\ \A u \in Threads : u # t => query'[u] = query[u]
<1>1. query'[t].stage = "save" /\ query'[t].axis = 1
  BY PlacesTyped DEF PeerQueries, QueryOK
<1>2. \A u \in Threads : u # t => query'[u] = query[u]
  BY DEF PeerQueries, QueryOK
<1>3. query[t].stage = "idle" /\ t # Src
  BY SrcIsThread DEF PeerQueries
<1> QED
  BY <1>1, <1>2, <1>3 DEF InWindow, Axes

LEMMA SaveOffsetWindows ==
  ASSUME QueryOK, NEW t \in Threads, SaveOffset(t)
  PROVE  /\ \A u \in Threads, a \in Axes :
              u # t \/ a # query[t].axis => (InWindow(u, a)' <=> InWindow(u, a))
         /\ ~InWindow(t, query[t].axis)
         /\ query'[t].stage # "idle" /\ query[t].stage # "idle"
         /\ \A u \in Threads : u # t => query'[u] = query[u]
<1>1. /\ query'[t].stage = IF query[t].axis = 1 THEN "save" ELSE "minimise"
      /\ query'[t].axis = IF query[t].axis = 1 THEN 2 ELSE 1
      /\ \A u \in Threads : u # t => query'[u] = query[u]
  BY NextStageTyped DEF SaveOffset
<1>2. query[t].stage = "save" /\ query[t].axis \in {1, 2}
  BY QueryPlaces DEF SaveOffset
<1> QED
  BY <1>1, <1>2 DEF InWindow, Axes

LEMMA MinimiseOffsetWindows ==
  ASSUME QueryOK, NEW t \in Threads, MinimiseOffset(t)
  PROVE  /\ \A u \in Threads, a \in Axes : InWindow(u, a)' <=> InWindow(u, a)
         /\ \A a \in Axes : InWindow(t, a)
         /\ query'[t].stage # "idle" /\ query[t].stage # "idle"
         /\ \A u \in Threads : u # t => query'[u] = query[u]
<1>1. /\ query'[t].stage = IF query[t].axis = 1 THEN "minimise" ELSE "range"
      /\ query'[t].axis = IF query[t].axis = 1 THEN 2 ELSE 1
      /\ \A u \in Threads : u # t => query'[u] = query[u]
  BY NextStageTyped DEF MinimiseOffset
<1>2. query[t].stage = "minimise" /\ query[t].axis \in {1, 2}
  BY QueryPlaces DEF MinimiseOffset
<1> QED
  BY <1>1, <1>2 DEF InWindow, Axes

LEMMA ReadRangesWindows ==
  ASSUME QueryOK, NEW t \in Threads, ReadRanges(t)
  PROVE  /\ \A u \in Threads, a \in Axes : InWindow(u, a)' <=> InWindow(u, a)
         /\ query'[t].stage # "idle" /\ query[t].stage # "idle"
         /\ \A u \in Threads : u # t => query'[u] = query[u]
<1>1. /\ query'[t].stage = "restore" /\ query'[t].axis = 1
      /\ \A u \in Threads : u # t => query'[u] = query[u]
  BY MoveTyped DEF ReadRanges, Axes
<1>2. query[t].stage = "range"
  BY DEF ReadRanges
<1> QED
  BY <1>1, <1>2 DEF InWindow, Axes

LEMMA RestoreOffsetWindows ==
  ASSUME QueryOK, NEW t \in Threads, RestoreOffset(t)
  PROVE  /\ \A u \in Threads, a \in Axes :
              u # t \/ a # query[t].axis => (InWindow(u, a)' <=> InWindow(u, a))
         /\ \A a \in Axes : a = query[t].axis => InWindow(t, a) /\ ~InWindow(t, a)'
         /\ query[t].stage # "idle"
         /\ phase' = IF t = Src /\ query'[t].stage = "idle" THEN "fixate" ELSE phase
         /\ \A u \in Threads : u # t => query'[u] = query[u]
<1>1. CASE query[t].axis = 1
  <2> DEFINE r == [query[t] EXCEPT !.axis = 2]
  <2>1. query' = [query EXCEPT ![t] = r]
    BY <1>1 DEF RestoreOffset
  <2>2. query[t].stage = "restore"
    BY DEF RestoreOffset
  <2>3. r.stage = "restore" /\ r.axis = 2
    BY <2>2 DEF QueryOK
  <2> HIDE DEF r
  <2>4. query'[t].stage = "restore" /\ query'[t].axis = 2
    BY <2>1, <2>3 DEF QueryOK
  <2>5. \A u \in Threads : u # t => query'[u] = query[u]
    BY <2>1 DEF QueryOK
  <2>6. phase' = phase
    BY <1>1 DEF RestoreOffset
  <2> QED
    BY <1>1, <2>2, <2>4, <2>5, <2>6 DEF InWindow, Axes
<1>2. CASE query[t].axis = 2
  <2>1. query' = [query EXCEPT ![t] = AfterStructure(t)]
    BY <1>2 DEF RestoreOffset
  <2>2. query'[t].stage \in {"idle", "save"} /\ query'[t].axis = 1
    BY <2>1, PlacesTyped DEF QueryOK
  <2>3. AfterStructure(t) = Idle <=> AfterStructure(t).stage = "idle"
    BY DEF AfterStructure, Idle
  <2>4. phase' = IF t = Src /\ query'[t].stage = "idle" THEN "fixate" ELSE phase
    BY <1>2, <2>1, <2>3 DEF RestoreOffset, QueryOK
  <2> QED
    BY <1>2, <2>1, <2>2, <2>4 DEF RestoreOffset, InWindow, Axes, QueryOK
<1> QED
  BY <1>1, <1>2, QueryPlaces

LEMMA QueryThrowsWindows ==
  ASSUME QueryOK, NEW t \in Threads, QueryThrows(t)
  PROVE  /\ \A u \in Threads, a \in Axes : u # t => (InWindow(u, a)' <=> InWindow(u, a))
         /\ \A a \in Axes : ~InWindow(t, a)'
         /\ query'[t].stage = "idle" /\ query[t].stage # "idle"
         /\ \A u \in Threads : u # t => query'[u] = query[u]
<1>1. query'[t].stage = "idle" /\ query[t].stage # "idle"
  BY DEF QueryThrows, QueryOK, Idle
<1>2. \A u \in Threads : u # t => query'[u] = query[u]
  BY DEF QueryThrows, QueryOK
<1> QED
  BY <1>1, <1>2 DEF InWindow

LEMMA NegotiateWindows ==
  ASSUME QueryOK, ControlInv, Negotiate
  PROVE  /\ \A u \in Threads, a \in Axes : InWindow(u, a)' <=> InWindow(u, a)
         /\ query'[Src].stage # "idle"
<1>1. query'[Src].stage = "save" /\ query'[Src].axis = 1
  BY PlacesTyped, SrcIsThread DEF Negotiate, QueryOK
<1>2. \A u \in Threads : u # Src => query'[u] = query[u]
  BY DEF Negotiate, QueryOK
<1>3. query[Src].stage = "idle"
  BY DEF Negotiate, ControlInv
<1> QED
  BY <1>1, <1>2, <1>3 DEF InWindow, Axes

-----------------------------------------------------------------------------

LEMMA ControlKept ==
  ASSUME TypeOK, ControlInv, [Next]_vars
  PROVE  ControlInv'
<1>0. QueryOK /\ NegotiationOK /\ ApplicationOK /\ CameraOK
  BY TypeOKParts
<1> USE DEF ControlInv, camera, negotiation
<1>1. ASSUME NEW t \in Threads, Query(t) PROVE ControlInv'
  <2>1. CASE PeerQueries(t)
    BY <2>1, <1>0, PeerQueriesWindows, SrcIsThread DEF PeerQueries
  <2>2. CASE SaveOffset(t)
    BY <2>2, <1>0, SaveOffsetWindows, SrcIsThread DEF SaveOffset
  <2>3. CASE MinimiseOffset(t)
    BY <2>3, <1>0, MinimiseOffsetWindows, SrcIsThread DEF MinimiseOffset
  <2>4. CASE ReadRanges(t)
    BY <2>4, <1>0, ReadRangesWindows, SrcIsThread DEF ReadRanges
  <2>5. CASE RestoreOffset(t)
    <3>1. UNCHANGED <<grabbing, cache, axis>>
      BY <2>5 DEF RestoreOffset
    <3>2. /\ phase' = IF t = Src /\ query'[t].stage = "idle" THEN "fixate" ELSE phase
          /\ query[t].stage # "idle"
          /\ \A u \in Threads : u # t => query'[u] = query[u]
      BY <2>5, <1>0, RestoreOffsetWindows
    <3> QED
      BY <3>1, <3>2, SrcIsThread
  <2>6. CASE QueryThrows(t)
    <3>1. UNCHANGED <<grabbing, cache, axis>>
      BY <2>6 DEF QueryThrows
    <3>2. phase' = IF t = Src THEN "failed" ELSE phase
      BY <2>6 DEF QueryThrows, Fail
    <3>3. /\ query'[t].stage = "idle" /\ query[t].stage # "idle"
          /\ \A u \in Threads : u # t => query'[u] = query[u]
      BY <2>6, <1>0, QueryThrowsWindows
    <3> QED
      BY <3>1, <3>2, <3>3, SrcIsThread
  <2> QED
    BY <1>1, <2>1, <2>2, <2>3, <2>4, <2>5, <2>6 DEF Query
<1>2. CASE Negotiate
  BY <1>2, <1>0, NegotiateWindows DEF Negotiate
<1>3. ASSUME \/ Fixate \/ NoCommonCaps \/ StopGrabbing \/ NotAligned \/ SetSize \/ SizeRefused
             \/ OffsetRefused \/ NoOffset \/ StartGrabbing \/ ConfigurationThrows
      PROVE  ControlInv'
  BY <1>3
     DEF Fixate, NoCommonCaps, StopGrabbing, NotAligned, SetSize, SizeRefused, OffsetRefused,
         NoOffset, AfterOffset, StartGrabbing, ConfigurationThrows, Fail
<1>4. CASE ApplyOffset
  BY <1>4, <1>0 DEF ApplyOffset, CameraOK, NegotiationOK, Unset
<1>5. CASE ResetCache
  BY <1>5 DEF ResetCache, AfterOffset
<1>6. CASE Reopen
  BY <1>6, SrcIsThread DEF Reopen
<1>7. CASE AppCaches
  <2>1. UNCHANGED <<grabbing, phase, query, axis>>
    BY <1>7 DEF AppCaches
  <2>2. cache[axis] # Unset => cache'[axis] # Unset
    BY <1>7, <1>0 DEF AppCaches, CameraOK, NegotiationOK, ApplicationOK, Unset
  <2> QED
    BY <2>1, <2>2
<1>8. ASSUME \/ \E a \in Axes : \E v \in Requests[a] : AppTests(a, v)
             \/ AppWrites \/ AppWriteIgnored
             \/ UNCHANGED vars
      PROVE  ControlInv'
  BY <1>8 DEF AppTests, AppWrites, AppWriteIgnored, vars
<1> QED
  BY <1>1, <1>2, <1>3, <1>4, <1>5, <1>6, <1>7, <1>8 DEF Next, Configure, Application

(* A step that leaves the offset of an axis and the windows alone, and may  *)
(* only unlock the offsets.                                                 *)
LEMMA Carried ==
  ASSUME NEW a \in Axes, AskedAt(a),
         ~disturbed'[a] => ~disturbed[a],
         Live' => Live,
         offset'[a] = offset[a] /\ due'[a] = due[a] /\ request'[a] = request[a],
         ~disturbed[a] /\ Live' => (Applied(a)' <=> Applied(a)),
         ~disturbed[a] /\ Live' /\ Applied(a) => size'[a] = size[a] /\ Passed(a)',
         ~Writable' => ~Writable,
         \A t \in Threads : InWindow(t, a)' <=> InWindow(t, a),
         \A t \in Threads : InWindow(t, a) => saved'[t][a] = saved[t][a],
         ~disturbed[a] /\ Live' /\ phase' = "reset" /\ axis' = a => request[a] = cache'[a]
  PROVE  AskedAt(a)'
<1> SUFFICES ASSUME ~disturbed'[a], Live'
             PROVE  /\ ~Window(a)' => Good(a, offset[a])'
                    /\ \A t \in Threads : InWindow(t, a)' =>
                         /\ Good(a, saved[t][a])'
                         /\ ~Writable' => offset'[a] = saved'[t][a]
                         /\ \A u \in Threads : InWindow(u, a)' => u = t
                    /\ Applied(a)' => Passed(a)'
                    /\ phase' = "reset" /\ axis' = a => request'[a] = cache'[a]
  BY DEF AskedAt
<1>1. Window(a)' <=> Window(a)
  BY DEF Window
<1>2. Good(a, offset[a]) => Good(a, offset[a])'
  BY DEF Good
<1>3. ASSUME NEW t \in Threads, InWindow(t, a), Good(a, saved[t][a])
      PROVE  Good(a, saved[t][a])'
  BY <1>3 DEF Good
<1> QED
  BY <1>1, <1>2, <1>3 DEF AskedAt

-----------------------------------------------------------------------------
(* The steps of the queries.                                               *)

LEMMA QueryKeepsAsked ==
  ASSUME TypeOK, ControlInv, NEW a \in Axes, AskedAt(a), NEW t \in Threads, Query(t)
  PROVE  AskedAt(a)'
<1>0. QueryOK /\ ApplicationOK
  BY TypeOKParts
<1> USE DEF camera, negotiation, history
<1>1. CASE PeerQueries(t)
  <2>1. UNCHANGED <<camera, cache, saved, negotiation, history>>
    BY <1>1 DEF PeerQueries
  <2>2. \A u \in Threads : InWindow(u, a)' <=> InWindow(u, a)
    BY <1>1, <1>0, PeerQueriesWindows
  <2> QED
    BY <2>1, <2>2, Carried DEF Live, Applied, Passed, Writable, AskedAt
<1>2. CASE ReadRanges(t)
  <2>1. UNCHANGED <<camera, cache, saved, phase, axis, history>>
    BY <1>2 DEF ReadRanges
  <2>2. \A u \in Threads : InWindow(u, a)' <=> InWindow(u, a)
    BY <1>2, <1>0, ReadRangesWindows
  <2> QED
    BY <2>1, <2>2, Carried DEF Live, Applied, Passed, Writable, AskedAt
<1>3. CASE SaveOffset(t)
  <2>1. UNCHANGED <<camera, cache, negotiation, request, due>>
    BY <1>3 DEF SaveOffset
  <2>2. /\ \A u \in Threads, b \in Axes :
              u # t \/ b # query[t].axis => (InWindow(u, b)' <=> InWindow(u, b))
        /\ ~InWindow(t, query[t].axis)
    BY <1>3, <1>0, SaveOffsetWindows
  <2>3. query[t].axis \in Axes
    BY <1>0 DEF QueryOK
  <2>4. /\ saved'[t][query[t].axis] = offset[query[t].axis]
        /\ \A u \in Threads, b \in Axes :
             u # t \/ b # query[t].axis => saved'[u][b] = saved[u][b]
    BY <1>3, <1>0, <2>3 DEF SaveOffset, QueryOK
  <2>5. /\ disturbed'[query[t].axis] <=> (disturbed[query[t].axis] \/ Window(query[t].axis))
        /\ \A b \in Axes : b # query[t].axis => disturbed'[b] = disturbed[b]
    BY <1>3, <1>0, <2>3 DEF SaveOffset, ApplicationOK
  <2>6. CASE a # query[t].axis
    BY <2>1, <2>2, <2>4, <2>5, <2>6, Carried DEF Live, Applied, Passed, Writable, AskedAt
  <2>7. CASE a = query[t].axis
    <3> SUFFICES ASSUME ~disturbed'[a], Live'
                 PROVE  AskedAt(a)'
      BY DEF AskedAt
    <3>1. ~disturbed[a] /\ ~Window(a) /\ Live
      BY <2>1, <2>5, <2>7 DEF Live
    <3>2. Good(a, offset[a]) /\ (Applied(a) => Passed(a))
          /\ (phase = "reset" /\ axis = a => request[a] = cache[a])
      BY <3>1 DEF AskedAt
    <3>3. \A u \in Threads : InWindow(u, a)' => u = t
      BY <2>2, <3>1 DEF Window
    <3>4. Good(a, offset[a])' /\ (saved'[t][a] = offset'[a])
      BY <2>1, <2>4, <2>7, <3>2 DEF Good, Applied
    <3>5. Good(a, saved[t][a])'
      BY <3>4 DEF Good
    <3> QED
      BY <2>1, <3>2, <3>3, <3>4, <3>5 DEF AskedAt, Applied, Passed
  <2> QED
    BY <2>6, <2>7
<1>4. CASE MinimiseOffset(t)
  <2>1. UNCHANGED <<size, access, grabbing, cache, saved, negotiation, history>>
    BY <1>4 DEF MinimiseOffset
  <2>2. /\ \A u \in Threads : InWindow(u, a)' <=> InWindow(u, a)
        /\ InWindow(t, a)
    BY <1>4, <1>0, MinimiseOffsetWindows
  <2>3. ~Writable => offset' = offset
    BY <1>4 DEF MinimiseOffset
  <2> SUFFICES ASSUME ~disturbed'[a], Live'
               PROVE  AskedAt(a)'
    BY DEF AskedAt
  <2>4. /\ \A u \in Threads : InWindow(u, a) =>
             /\ Good(a, saved[u][a])
             /\ ~Writable => offset[a] = saved[u][a]
             /\ \A w \in Threads : InWindow(w, a) => w = u
        /\ Applied(a) => Passed(a)
        /\ phase = "reset" /\ axis = a => request[a] = cache[a]
    BY <2>1 DEF AskedAt, Live
  <2>5. Window(a)'
    BY <2>2 DEF Window
  <2>6. ASSUME NEW u \in Threads, Good(a, saved[u][a]) PROVE Good(a, saved[u][a])'
    BY <2>1, <2>6 DEF Good, Applied
  <2> QED
    BY <2>1, <2>2, <2>3, <2>4, <2>5, <2>6 DEF AskedAt, Applied, Passed, Writable
<1>5. CASE RestoreOffset(t)
  <2>1. UNCHANGED <<size, access, grabbing, cache, axis, history>>
    BY <1>5 DEF RestoreOffset
  <2>2. /\ \A u \in Threads, b \in Axes :
              u # t \/ b # query[t].axis => (InWindow(u, b)' <=> InWindow(u, b))
        /\ \A b \in Axes : b = query[t].axis => InWindow(t, b) /\ ~InWindow(t, b)'
        /\ phase' = IF t = Src /\ query'[t].stage = "idle" THEN "fixate" ELSE phase
        /\ query[t].stage # "idle"
    BY <1>5, <1>0, RestoreOffsetWindows
  <2>3. query[t].axis \in Axes
    BY <1>0 DEF QueryOK
  <2>4. \A u \in Threads, b \in Axes :
          u # t \/ b # query[t].axis => saved'[u][b] = saved[u][b]
    BY <1>5, <1>0, <2>3 DEF RestoreOffset, QueryOK
  <2>5. /\ \A b \in Axes : b # query[t].axis => offset'[b] = offset[b]
        /\ offset'[query[t].axis] = IF Writable THEN saved[t][query[t].axis]
                                    ELSE offset[query[t].axis]
    BY <1>5, <2>3 DEF RestoreOffset, TypeOK, OnSensor
  <2>6. phase' # phase => phase = "query" /\ phase' = "fixate"
    BY <2>2 DEF ControlInv
  <2>7. Live' => Live
    BY <2>1, <2>6 DEF Live
  <2>8. ~disturbed[a] /\ Live => (Applied(a)' <=> Applied(a)) /\ (Applied(a) => Passed(a)')
    BY <2>1, <2>6 DEF Applied, Passed, AskedAt
  <2>9. ~disturbed[a] /\ Live /\ phase' = "reset" /\ axis' = a => request[a] = cache'[a]
    BY <2>1, <2>6 DEF AskedAt
  <2>10. CASE a # query[t].axis
    BY <2>1, <2>2, <2>4, <2>5, <2>7, <2>8, <2>9, <2>10, Carried DEF Writable
  <2>11. CASE a = query[t].axis
    <3> SUFFICES ASSUME ~disturbed'[a], Live'
                 PROVE  AskedAt(a)'
      BY DEF AskedAt
    <3>1. ~disturbed[a] /\ Live /\ InWindow(t, a)
      BY <2>1, <2>2, <2>7, <2>11
    <3>2. /\ Good(a, saved[t][a])
          /\ ~Writable => offset[a] = saved[t][a]
          /\ \A u \in Threads : InWindow(u, a) => u = t
      BY <3>1 DEF AskedAt
    <3>3. \A u \in Threads : ~InWindow(u, a)'
      BY <2>2, <2>11, <3>2
    <3>4. offset'[a] = saved[t][a]
      BY <2>5, <2>11, <3>2
    <3>5. Good(a, offset[a])'
      BY <2>1, <2>8, <3>1, <3>2, <3>4 DEF Good
    <3> QED
      BY <2>1, <2>8, <2>9, <3>1, <3>3, <3>5 DEF AskedAt
  <2> QED
    BY <2>10, <2>11
<1>6. CASE QueryThrows(t)
  <2>1. UNCHANGED <<camera, cache, axis, request, due>>
    BY <1>6 DEF QueryThrows
  <2>2. /\ \A u \in Threads, b \in Axes : u # t => (InWindow(u, b)' <=> InWindow(u, b))
        /\ ~InWindow(t, a)'
        /\ query[t].stage # "idle"
    BY <1>6, <1>0, QueryThrowsWindows
  <2>3. disturbed'[a] <=> disturbed[a] \/ InWindow(t, a)
    BY <1>6 DEF QueryThrows
  <2>4. \A u \in Threads : u # t => saved'[u] = saved[u]
    BY <1>6, <1>0 DEF QueryThrows, QueryOK
  <2>5. phase' = IF t = Src THEN "failed" ELSE phase
    BY <1>6 DEF QueryThrows, Fail
  <2>6. phase' # phase => phase = "query" /\ phase' = "failed"
    BY <2>2, <2>5 DEF ControlInv
  <2>7. Live' => Live
    BY <2>1, <2>6 DEF Live
  <2>8. ~disturbed[a] /\ Live => (Applied(a)' <=> Applied(a)) /\ (Applied(a) => Passed(a)')
    BY <2>1, <2>6 DEF Applied, Passed, AskedAt
  <2>9. ~disturbed[a] /\ Live /\ phase' = "reset" /\ axis' = a => request[a] = cache'[a]
    BY <2>1, <2>6 DEF AskedAt
  <2>10. CASE InWindow(t, a)
    BY <2>3, <2>10 DEF AskedAt
  <2>11. CASE ~InWindow(t, a)
    BY <2>1, <2>2, <2>3, <2>4, <2>7, <2>8, <2>9, <2>11, Carried DEF Writable
  <2> QED
    BY <2>10, <2>11
<1> QED
  BY <1>1, <1>2, <1>3, <1>4, <1>5, <1>6 DEF Query

-----------------------------------------------------------------------------
(* The steps of the negotiation.                                           *)

LEMMA SameWindows ==
  ASSUME UNCHANGED query
  PROVE  \A t \in Threads, a \in Axes : InWindow(t, a)' <=> InWindow(t, a)
BY DEF InWindow

(* A negotiation that has not come to the offsets has applied no request.   *)
LEMMA ControlStepsKeepAsked ==
  ASSUME TypeOK, ControlInv, NEW a \in Axes, AskedAt(a),
         \/ Negotiate \/ Fixate \/ NoCommonCaps \/ StopGrabbing \/ NotAligned \/ SizeRefused
         \/ OffsetRefused \/ NoOffset \/ ConfigurationThrows
  PROVE  AskedAt(a)'
<1>0. QueryOK /\ NegotiationOK
  BY TypeOKParts
<1> USE DEF camera, negotiation, history
<1>1. UNCHANGED <<size, offset, access, cache, saved, history>>
  BY DEF Negotiate, Fixate, NoCommonCaps, StopGrabbing, NotAligned, SizeRefused, OffsetRefused,
         NoOffset, ConfigurationThrows
<1>2. grabbing' = grabbing \/ grabbing' = FALSE
  BY DEF Negotiate, Fixate, NoCommonCaps, StopGrabbing, NotAligned, SizeRefused, OffsetRefused,
         NoOffset, ConfigurationThrows
<1>3. \A t \in Threads : InWindow(t, a)' <=> InWindow(t, a)
  <2>1. CASE Negotiate
    BY <2>1, <1>0, NegotiateWindows
  <2>2. CASE ~Negotiate
    BY <2>2, SameWindows
       DEF Fixate, NoCommonCaps, StopGrabbing, NotAligned, SizeRefused, OffsetRefused,
           NoOffset, ConfigurationThrows
  <2> QED
    BY <2>1, <2>2
<1>4. phase # "reset" /\ phase' # "reset" /\ phase # "failed"
  BY DEF Negotiate, Fixate, NoCommonCaps, StopGrabbing, NotAligned, SizeRefused, OffsetRefused,
         NoOffset, AfterOffset, ConfigurationThrows, Fail
<1>5. phase \in {"offset", "start"} /\ Live' /\ Passed(a) => Passed(a)'
  <2>1. CASE NoOffset
    BY <2>1, <1>0 DEF NoOffset, AfterOffset, Passed, NegotiationOK, Axes
  <2>2. ASSUME phase \in {"offset", "start"}, ~NoOffset PROVE ~Live'
    BY <2>2
       DEF Negotiate, Fixate, NoCommonCaps, StopGrabbing, NotAligned, SizeRefused, OffsetRefused,
           ConfigurationThrows, Fail, Live, ControlInv
  <2> QED
    BY <2>1, <2>2
<1>6. Live
  BY <1>4 DEF Live
<1>7. ~disturbed[a] /\ Applied(a) => phase \in {"offset", "start"} /\ Passed(a)
  BY <1>4, <1>6 DEF AskedAt, Passed
<1>8. Applied(a)' <=> Applied(a)
  BY <1>1, <1>4 DEF Applied
<1>9. ~Writable' => ~Writable
  BY <1>1, <1>2 DEF Writable
<1> QED
  BY <1>1, <1>3, <1>4, <1>5, <1>6, <1>7, <1>8, <1>9, Carried

LEMMA SetSizeKeepsAsked ==
  ASSUME ControlInv, NEW a \in Axes, AskedAt(a), SetSize
  PROVE  AskedAt(a)'
<1>1. /\ UNCHANGED <<offset, access, grabbing, cache, query, saved, request, due, disturbed>>
      /\ phase = "size" /\ phase' \in {"size", "offset"}
  BY DEF SetSize, history
<1>2. Live /\ (~disturbed[a] => ~Applied(a)) /\ (Applied(a)' <=> Applied(a))
  BY <1>1 DEF Live, AskedAt, Passed, Applied
<1> QED
  BY <1>1, <1>2, SameWindows, Carried DEF Writable

LEMMA ApplyOffsetKeepsAsked ==
  ASSUME TypeOK, ControlInv, NEW a \in Axes, AskedAt(a), ApplyOffset
  PROVE  AskedAt(a)'
<1>0. NegotiationOK /\ ApplicationOK /\ CameraOK
  BY TypeOKParts
<1>1. /\ UNCHANGED <<size, access, grabbing, cache, query, saved, axis, request, due>>
      /\ phase = "offset" /\ phase' = "reset" /\ cache[axis] >= 0
  BY DEF ApplyOffset
<1>2. axis \in Axes /\ cache[axis] # Unset
  BY <1>0, <1>1 DEF NegotiationOK, Unset
<1>3. PICK o \in Written(axis, cache[axis]) : offset' = [offset EXCEPT ![axis] = o]
  BY DEF ApplyOffset
<1>4. o \in Nearest(axis, size[axis], cache[axis])
  BY <1>2, WrittenIsNearest
<1>5. /\ offset'[axis] = o
      /\ \A b \in Axes : b # axis => offset'[b] = offset[b]
  BY <1>2, <1>3 DEF TypeOK, OnSensor
<1>6. /\ disturbed'[axis] <=> (Window(axis) \/ request[axis] # cache[axis])
      /\ \A b \in Axes : b # axis => disturbed'[b] = disturbed[b]
  BY <1>0, <1>2 DEF ApplyOffset, ApplicationOK
<1>7. \A t \in Threads : InWindow(t, a)' <=> InWindow(t, a)
  BY <1>1, SameWindows
<1>8. CASE a = axis
  <2> SUFFICES ASSUME ~disturbed'[a] PROVE AskedAt(a)'
    BY DEF AskedAt
  <2>1. ~Window(a) /\ request[a] = cache[a]
    BY <1>6, <1>8
  <2>2. \A t \in Threads : ~InWindow(t, a)'
    BY <1>7, <2>1 DEF Window
  <2>3. Applied(a)'
    BY <1>1, <1>2, <1>8, <2>1 DEF Applied
  <2>4. Good(a, offset[a])'
    BY <1>1, <1>4, <1>5, <1>8, <2>1, <2>3 DEF Good
  <2>5. Passed(a)'
    BY <1>0, <1>1, <1>8 DEF Passed, NegotiationOK, Axes
  <2> QED
    BY <1>1, <2>1, <2>2, <2>4, <2>5 DEF AskedAt
<1>9. CASE a # axis
  <2>1. Live /\ (Applied(a)' <=> Applied(a)) /\ (Passed(a) => Passed(a)')
    BY <1>0, <1>1, <1>9 DEF Live, Applied, Passed, NegotiationOK, Axes
  <2> QED
    BY <1>1, <1>5, <1>6, <1>7, <1>9, <2>1, Carried DEF AskedAt, Writable
<1> QED
  BY <1>8, <1>9

LEMMA ResetCacheKeepsAsked ==
  ASSUME TypeOK, ControlInv, NEW a \in Axes, AskedAt(a), ResetCache
  PROVE  AskedAt(a)'
<1>0. NegotiationOK /\ CameraOK
  BY TypeOKParts
<1>1. /\ UNCHANGED <<camera, query, saved, history>>
      /\ phase = "reset" /\ AfterOffset
      /\ cache' = [cache EXCEPT ![axis] = Unset]
  BY DEF ResetCache
<1>2. axis \in Axes
  BY <1>0 DEF NegotiationOK
<1>3. cache'[axis] = Unset /\ \A b \in Axes : b # axis => cache'[b] = cache[b]
  BY <1>0, <1>1, <1>2 DEF CameraOK
<1>4. phase' \in {"offset", "start"} /\ Live
  BY <1>1 DEF AfterOffset, Live
<1>5. ~disturbed[a] => (Applied(a)' <=> Applied(a))
  BY <1>1, <1>3, <1>4 DEF Applied, AskedAt, ControlInv, history
<1>6. Passed(a) => Passed(a)'
  BY <1>0, <1>1 DEF Passed, AfterOffset, NegotiationOK, Axes
<1>7. ~disturbed[a] /\ Applied(a) => Passed(a)'
  BY <1>4, <1>6 DEF AskedAt
<1>8. UNCHANGED <<size, offset, access, grabbing, saved, request, due, disturbed>>
  BY <1>1 DEF camera, history
<1>9. \A t \in Threads : InWindow(t, a)' <=> InWindow(t, a)
  BY <1>1, SameWindows
<1> QED
  BY <1>4, <1>5, <1>7, <1>8, <1>9, Carried DEF Writable

LEMMA StartGrabbingKeepsAsked ==
  ASSUME TypeOK, ControlInv, NEW a \in Axes, AskedAt(a), StartGrabbing
  PROVE  AskedAt(a)'
<1>0. ApplicationOK
  BY TypeOKParts
<1> DEFINE settled == request[a] # Unset /\ cache[a] = Unset
<1>1. /\ UNCHANGED <<size, offset, access, cache, query, saved>>
      /\ phase = "start" /\ phase' = "streaming"
      /\ due'[a] = IF settled THEN Nearest(a, size[a], request[a]) ELSE due[a]
      /\ request'[a] = IF settled THEN Unset ELSE request[a]
      /\ disturbed'[a] <=> (disturbed[a] \/ (access = "stopped" /\ Window(a)))
  BY DEF StartGrabbing
<1> SUFFICES ASSUME ~disturbed'[a] PROVE AskedAt(a)'
  BY DEF AskedAt
<1>2. ~disturbed[a] /\ Live /\ (access = "stopped" => ~Window(a))
  BY <1>1 DEF Live
<1>3. (Applied(a) <=> settled) /\ ~Applied(a)'
  BY <1>1 DEF Applied
<1>4. Good(a, offset[a]) => Good(a, offset[a])'
  BY <1>1, <1>3 DEF Good
<1>5. ASSUME NEW t \in Threads, Good(a, saved[t][a]) PROVE Good(a, saved[t][a])'
  BY <1>1, <1>3, <1>5 DEF Good
<1>6. \A t \in Threads : InWindow(t, a)' <=> InWindow(t, a)
  BY <1>1, SameWindows
<1>7. Window(a) => (~Writable' => ~Writable)
  BY <1>1, <1>2 DEF Writable
<1> HIDE DEF settled
<1> QED
  BY <1>1, <1>2, <1>3, <1>4, <1>5, <1>6, <1>7 DEF AskedAt, Window

LEMMA ReopenKeepsAsked ==
  ASSUME NEW a \in Axes, Reopen
  PROVE  AskedAt(a)'
<1>1. /\ query' = query /\ \A t \in Threads : query[t].stage = "idle"
      /\ cache'[a] = Unset /\ request'[a] = Unset
      /\ due'[a] = {offset'[a]}
      /\ phase' = "open"
  BY DEF Reopen
<1>2. \A t \in Threads : ~InWindow(t, a)'
  BY <1>1 DEF InWindow
<1>3. ~Applied(a)'
  BY <1>1 DEF Applied
<1>4. Good(a, offset[a])'
  BY <1>1, <1>3 DEF Good
<1> QED
  BY <1>1, <1>2, <1>3, <1>4 DEF AskedAt

-----------------------------------------------------------------------------
(* The steps of the application.                                           *)

LEMMA AppCachesKeepsAsked ==
  ASSUME TypeOK, ControlInv, NEW a \in Axes, AskedAt(a), AppCaches
  PROVE  AskedAt(a)'
<1>0. ApplicationOK /\ CameraOK /\ NegotiationOK
  BY TypeOKParts
<1>1. UNCHANGED <<size, offset, access, grabbing, query, saved, phase, axis, due>>
  BY DEF AppCaches, camera, negotiation
<1>2. app.axis \in Axes /\ app.value \in Nat
  BY <1>0 DEF ApplicationOK
<1>3. /\ cache'[app.axis] = app.value /\ request'[app.axis] = app.value
      /\ disturbed'[app.axis] <=> (disturbed[app.axis] \/ TooLate(app.axis))
      /\ \A b \in Axes : b # app.axis => /\ cache'[b] = cache[b] /\ request'[b] = request[b]
                                         /\ disturbed'[b] = disturbed[b]
  BY <1>0, <1>2 DEF AppCaches, CameraOK, ApplicationOK
<1>4. \A t \in Threads : InWindow(t, a)' <=> InWindow(t, a)
  BY <1>1, SameWindows
<1>5. CASE a # app.axis
  BY <1>1, <1>3, <1>4, <1>5, Carried DEF Live, Applied, Passed, Writable, AskedAt
<1>6. CASE a = app.axis
  <2> SUFFICES ASSUME ~disturbed'[a], Live' PROVE AskedAt(a)'
    BY DEF AskedAt
  <2>1. ~disturbed[a] /\ ~TooLate(a) /\ Live
    BY <1>1, <1>3, <1>6 DEF Live
  <2>2. ~(phase = "reset" /\ axis = a) /\ ~Passed(a)
    BY <1>0, <2>1 DEF TooLate, Passed, NegotiationOK, Axes
  <2>3. ~Applied(a)
    BY <2>1, <2>2 DEF AskedAt
  <2>4. ~Applied(a)'
    BY <1>1, <1>2, <1>3, <1>6, <2>2 DEF Applied, Unset
  <2>5. Good(a, offset[a]) => Good(a, offset[a])'
    BY <1>1, <2>3, <2>4 DEF Good
  <2>6. ASSUME NEW t \in Threads, Good(a, saved[t][a]) PROVE Good(a, saved[t][a])'
    BY <1>1, <2>3, <2>4, <2>6 DEF Good
  <2> QED
    BY <1>1, <1>4, <2>1, <2>2, <2>4, <2>5, <2>6 DEF AskedAt, Window, Writable
<1> QED
  BY <1>5, <1>6

LEMMA AppWritesKeepsAsked ==
  ASSUME TypeOK, ControlInv, NEW a \in Axes, AskedAt(a), AppWrites
  PROVE  AskedAt(a)'
<1>0. ApplicationOK
  BY TypeOKParts
<1>1. UNCHANGED <<size, access, grabbing, cache, query, saved, phase, axis>>
  BY DEF AppWrites, negotiation
<1>2. app.axis \in Axes
  BY <1>0 DEF ApplicationOK
<1>3. PICK o \in Written(app.axis, app.value) : offset' = [offset EXCEPT ![app.axis] = o]
  BY DEF AppWrites
<1>4. o \in Nearest(app.axis, size[app.axis], app.value)
  BY <1>2, WrittenIsNearest
<1>5. /\ offset'[app.axis] = o
      /\ \A b \in Axes : b # app.axis => offset'[b] = offset[b]
  BY <1>2, <1>3 DEF TypeOK, OnSensor
<1>6. /\ due'[app.axis] = Nearest(app.axis, size[app.axis], app.value)
      /\ request'[app.axis] = Unset
      /\ disturbed'[app.axis] <=> (Window(app.axis) \/ cache[app.axis] # Unset)
      /\ \A b \in Axes : b # app.axis => /\ due'[b] = due[b] /\ request'[b] = request[b]
                                         /\ disturbed'[b] = disturbed[b]
  BY <1>0, <1>2 DEF AppWrites, ApplicationOK
<1>7. \A t \in Threads : InWindow(t, a)' <=> InWindow(t, a)
  BY <1>1, SameWindows
<1>8. CASE a # app.axis
  BY <1>1, <1>5, <1>6, <1>7, <1>8, Carried DEF Live, Applied, Passed, Writable, AskedAt
<1>9. CASE a = app.axis
  <2> SUFFICES ASSUME ~disturbed'[a] PROVE AskedAt(a)'
    BY DEF AskedAt
  <2>1. ~Window(a) /\ cache[a] = Unset
    BY <1>6, <1>9
  <2>2. \A t \in Threads : ~InWindow(t, a)'
    BY <1>7, <2>1 DEF Window
  <2>3. ~Applied(a)'
    BY <1>6, <1>9 DEF Applied
  <2>4. Good(a, offset[a])'
    BY <1>4, <1>5, <1>6, <1>9, <2>3 DEF Good
  <2>5. ~(phase' = "reset" /\ axis' = a)
    BY <1>1, <2>1 DEF ControlInv
  <2> QED
    BY <2>2, <2>3, <2>4, <2>5 DEF AskedAt
<1> QED
  BY <1>8, <1>9

LEMMA OtherStepsKeepAsked ==
  ASSUME NEW a \in Axes, AskedAt(a),
         \/ \E b \in Axes : \E v \in Requests[b] : AppTests(b, v)
         \/ AppWriteIgnored \/ UNCHANGED vars
  PROVE  AskedAt(a)'
<1>1. UNCHANGED <<camera, cache, query, saved, negotiation, history>>
  BY DEF AppTests, AppWriteIgnored, vars
<1> USE DEF camera, negotiation, history
<1>2. \A t \in Threads : InWindow(t, a)' <=> InWindow(t, a)
  BY <1>1, SameWindows
<1> QED
  BY <1>1, <1>2, Carried DEF Live, Applied, Passed, Writable, AskedAt

-----------------------------------------------------------------------------

LEMMA InitAsked == Init => IInv
<1> SUFFICES ASSUME Init PROVE IInv
  OBVIOUS
<1>1. \A t \in Threads : query[t].stage = "idle"
  BY DEF Init, Idle
<1>2. ControlInv
  BY <1>1, SrcIsThread DEF Init, ControlInv
<1>3. ASSUME NEW a \in Axes PROVE AskedAt(a)
  <2>1. \A t \in Threads : ~InWindow(t, a)
    BY <1>1 DEF InWindow
  <2>2. ~Applied(a) /\ due[a] = {offset[a]} /\ phase = "open"
    BY DEF Init, Applied
  <2> QED
    BY <2>1, <2>2 DEF AskedAt, Good
<1> QED
  BY <1>2, <1>3, InitTyped DEF IInv

LEMMA AskedKept == IInv /\ [Next]_vars => IInv'
<1> SUFFICES ASSUME IInv, [Next]_vars PROVE IInv'
  OBVIOUS
<1>1. TypeOK /\ ControlInv /\ \A a \in Axes : AskedAt(a)
  BY DEF IInv
<1>2. TypeOK' /\ ControlInv'
  BY <1>1, TypesKept, ControlKept
<1>3. ASSUME NEW a \in Axes PROVE AskedAt(a)'
  BY <1>1, QueryKeepsAsked, ControlStepsKeepAsked, SetSizeKeepsAsked, ApplyOffsetKeepsAsked,
     ResetCacheKeepsAsked, StartGrabbingKeepsAsked, ReopenKeepsAsked, AppCachesKeepsAsked,
     AppWritesKeepsAsked, OtherStepsKeepAsked
     DEF Next, Configure, Application
<1> QED
  BY <1>2, <1>3 DEF IInv

LEMMA AskedInvariant == IInv => OffsetAsAsked
<1> SUFFICES ASSUME IInv, NEW a \in Axes, grabbing, ~disturbed[a], ~Window(a)
             PROVE  offset[a] \in due[a]
  BY DEF OffsetAsAsked
<1>1. AskedAt(a) /\ Live /\ ControlInv
  BY DEF IInv, Live
<1>2. ~Applied(a)
  BY <1>1 DEF AskedAt, ControlInv, Passed
<1> QED
  BY <1>1, <1>2 DEF AskedAt, Good

(* Whatever caps queries, renegotiations, failures and writes come between, *)
(* a stream has the offset that was asked for last, as close as the camera  *)
(* can have it, on every axis where no two threads overlapped.              *)
THEOREM OffsetIsAsAsked == Spec => []OffsetAsAsked
BY InitAsked, AskedKept, AskedInvariant, PTL DEF Spec

-----------------------------------------------------------------------------
(* Multiples.                                                              *)

LEMMA TimesAtLeast ==
  ASSUME NEW b \in Nat \ {0}, NEW k \in Int, k >= 1 PROVE b * k >= b
<1> DEFINE e == k - 1
<1>1. e \in Nat /\ k = e + 1
  OBVIOUS
<1> HIDE DEF e
<1>2. b * e >= 0 /\ b * e \in Int
  BY <1>1, SMT
<1>3. b * (e + 1) = b * e + b
  BY <1>1, SMT
<1> QED
  BY <1>1, <1>2, <1>3

LEMMA MultipleHasNoRest ==
  ASSUME NEW b \in Nat \ {0}, NEW k \in Nat PROVE (b * k) % b = 0
<1> DEFINE v == b * k
           d == v \div b
           r == v % b
           e == k - d
<1>1. v \in Nat
  BY SMT
<1> HIDE DEF v
<1>2. d \in Nat /\ r \in 0 .. b - 1 /\ v = d * b + r
  BY <1>1, Division
<1> HIDE DEF d, r
<1>3. e \in Int /\ k = d + e /\ v = b * k
  BY <1>2 DEF v
<1> HIDE DEF e
<1>4. b * (d + e) = d * b + b * e /\ b * e \in Int
  BY <1>2, <1>3, SMT
<1>5. r = b * e
  BY <1>2, <1>3, <1>4
<1>6. ~(e >= 1)
  BY <1>2, <1>3, <1>5, TimesAtLeast
<1>7. ~(e <= -1)
  <2>1. ASSUME e <= -1 PROVE FALSE
    <3>1. b * (-e) >= b
      BY <1>3, <2>1, TimesAtLeast
    <3>2. b * (-e) = -(b * e)
      BY <1>3, SMT
    <3> QED
      BY <1>2, <1>4, <1>5, <3>1, <3>2
  <2> QED
    BY <1>3, <2>1
<1>8. e = 0
  BY <1>3, <1>6, <1>7
<1>9. r = 0
  BY <1>5, <1>8
<1> QED
  BY <1>9 DEF r, v

LEMMA NoRestIsMultiple ==
  ASSUME NEW b \in Nat \ {0}, NEW v \in Nat, v % b = 0
  PROVE  \E k \in Nat : v = b * k
<1>1. v \div b \in Nat /\ v = (v \div b) * b + 0
  BY Division
<1> DEFINE d == v \div b
<1> HIDE DEF d
<1>2. d \in Nat /\ v = b * d
  BY <1>1, SMT DEF d
<1> QED
  BY <1>2

LEMMA MultipleOfMultiple ==
  ASSUME NEW b \in Nat \ {0}, NEW c \in Nat \ {0}, NEW v \in Nat, c % b = 0, v % c = 0
  PROVE  v % b = 0
<1>1. PICK j \in Nat : c = b * j
  BY NoRestIsMultiple
<1>2. PICK k \in Nat : v = c * k
  BY NoRestIsMultiple
<1>3. v = b * (j * k) /\ j * k \in Nat
  BY <1>1, <1>2, SMT
<1> QED
  BY <1>3, MultipleHasNoRest

LEMMA RestOfMultiple ==
  ASSUME NEW b \in Nat \ {0}, NEW s \in Nat, NEW r \in 0 .. s, s % b = 0, (s - r) % b = 0
  PROVE  r % b = 0
<1>1. PICK j \in Nat : s = b * j
  BY NoRestIsMultiple
<1>2. PICK k \in Nat : s - r = b * k
  BY NoRestIsMultiple
<1> DEFINE e == j - k
<1>3. e \in Int /\ j = k + e
  OBVIOUS
<1> HIDE DEF e
<1>4. b * (k + e) = b * k + b * e /\ b * e \in Int /\ b * k \in Int
  BY <1>3, SMT
<1>5. r = b * e
  BY <1>1, <1>2, <1>3, <1>4
<1>6. ~(e <= -1)
  <2>1. ASSUME e <= -1 PROVE FALSE
    <3>1. b * (-e) >= b
      BY <1>3, <2>1, TimesAtLeast
    <3>2. b * (-e) = -(b * e)
      BY <1>3, SMT
    <3> QED
      BY <1>4, <1>5, <3>1, <3>2
  <2> QED
    BY <1>3, <2>1
<1>7. e \in Nat
  BY <1>3, <1>6
<1> QED
  BY <1>5, <1>7, MultipleHasNoRest

(* The largest aligned width up to v.                                       *)
LEMMA RoundedDownFits ==
  ASSUME NEW v \in Nat, NEW n \in Nat \ {0}
  PROVE  /\ v - (v % n) \in 0 .. v
         /\ (v - (v % n)) % n = 0
         /\ v >= n => v - (v % n) >= n
<1> DEFINE d == v \div n
           r == v % n
<1>1. d \in Nat /\ r \in 0 .. n - 1 /\ v = d * n + r
  BY Division
<1>2. v - r \in Nat
  BY RoundedDown
<1> HIDE DEF d, r
<1>3. d * n = n * d /\ n * d \in Nat
  BY <1>1, SMT
<1>4. v - r = n * d
  BY <1>1, <1>3
<1>5. (v - r) % n = 0
  BY <1>1, <1>4, MultipleHasNoRest
<1>6. ASSUME v >= n PROVE v - r >= n
  <2>1. d # 0
    BY <1>1, <1>6
  <2>2. n * d >= n
    BY <1>1, <2>1, TimesAtLeast
  <2> QED
    BY <1>4, <2>2
<1>7. v - r \in 0 .. v
  BY <1>1, <1>2
<1> QED
  BY <1>5, <1>6, <1>7 DEF r

-----------------------------------------------------------------------------
(* The sizes of a negotiation.                                             *)

(* The range of a query holds the size the camera has, in increments.       *)
RangeFits(a) ==
  range[a] \in size[a] .. Sensor[a] /\ (Sensor[a] - range[a]) % Inc[a] = 0

RangesInv ==
  /\ phase \in {"open", "streaming", "failed"} => range = Sensor
  /\ phase \in {"query", "fixate"} => \A a \in Axes : RangeFits(a)

(* The size is the one before the negotiation until it is the chosen one,   *)
(* which is the same one where nobody has asked for another.                *)
BeforeInv ==
  /\ phase \in {"query", "fixate", "set_caps"} => size = before
  /\ phase = "size" =>
       /\ size[1] = IF axis = 1 THEN before[1] ELSE chosen[1]
       /\ size[2] = before[2]
  /\ phase \in {"offset", "reset", "start"} => size = chosen
  /\ phase \in {"set_caps", "size", "offset", "reset", "start"} =>
       \A a \in Axes : demand[a] = Any /\ (format = "raw" \/ a = 2) => chosen[a] = before[a]

(* A Bayer width nobody has asked for is aligned and fits without an offset.*)
WidthInv ==
  phase \in {"set_caps", "size"} /\ demand[1] = Any /\ format = "bayer" =>
    chosen[1] % Alignment = 0 /\ chosen[1] \in SizesFor(1, 0)

(* All widths are aligned, or wide enough to be rounded down.               *)
WideInv ==
  /\ demand[1] \in Demands[1] \union {Any}
  /\ \/ Inc[1] % Alignment = 0 /\ Sensor[1] % Inc[1] = 0
     \/ /\ Alignment % Inc[1] = 0
        /\ size[1] >= Alignment
        /\ phase \in {"set_caps", "size", "offset", "reset", "start"} => chosen[1] >= Alignment

SizesInv == RangesInv /\ BeforeInv /\ WidthInv /\ WideInv

(* What the steps of the queries and the application are for the sizes:     *)
(* nothing, a range read, the end of the query or its failure.              *)
Sizes == <<size, axis, format, demand, chosen, before>>

LEMMA QueryStepsOnSizes ==
  ASSUME TypeOK, ControlInv, NEW t \in Threads, Query(t)
  PROVE  \/ UNCHANGED <<Sizes, phase, range>>
         \/ UNCHANGED <<Sizes, phase>> /\ phase = "query" /\ range' = Ranges
         \/ UNCHANGED <<Sizes, range>> /\ phase = "query" /\ phase' = "fixate"
         \/ size' = size /\ phase' = "failed" /\ Forget
<1>0. QueryOK
  BY TypeOKParts
<1> USE DEF Sizes, camera, negotiation
<1>1. CASE PeerQueries(t)
  BY <1>1 DEF PeerQueries
<1>2. CASE SaveOffset(t)
  BY <1>2 DEF SaveOffset
<1>3. CASE MinimiseOffset(t)
  BY <1>3 DEF MinimiseOffset
<1>4. CASE ReadRanges(t)
  <2>1. t = Src => phase = "query"
    BY <1>4 DEF ReadRanges, ControlInv
  <2> QED
    BY <1>4, <2>1 DEF ReadRanges
<1>5. CASE RestoreOffset(t)
  <2>1. t = Src => phase = "query"
    BY <1>5 DEF RestoreOffset, ControlInv
  <2>2. phase' = IF t = Src /\ query'[t].stage = "idle" THEN "fixate" ELSE phase
    BY <1>0, <1>5, RestoreOffsetWindows
  <2>3. UNCHANGED <<Sizes, range>>
    BY <1>5 DEF RestoreOffset
  <2> QED
    BY <2>1, <2>2, <2>3
<1>6. CASE QueryThrows(t)
  BY <1>6 DEF QueryThrows, Fail
<1> QED
  BY <1>1, <1>2, <1>3, <1>4, <1>5, <1>6 DEF Query

LEMMA OtherStepsOnSizes ==
  ASSUME \/ NoCommonCaps \/ NotAligned \/ SizeRefused \/ OffsetRefused \/ ConfigurationThrows
         \/ ApplyOffset \/ NoOffset \/ ResetCache
         \/ Application
         \/ UNCHANGED vars
  PROVE  \/ UNCHANGED <<Sizes, phase, range>>
         \/ size' = size /\ phase' = "failed" /\ Forget
         \/ /\ phase \in {"offset", "reset"} /\ phase' \in {"offset", "reset", "start"}
            /\ UNCHANGED <<size, format, demand, range, chosen, before>>
<1> USE DEF Sizes, camera, negotiation
<1>1. CASE NoCommonCaps \/ NotAligned \/ SizeRefused \/ OffsetRefused \/ ConfigurationThrows
  BY <1>1 DEF NoCommonCaps, NotAligned, SizeRefused, OffsetRefused, ConfigurationThrows, Fail
<1>2. CASE ApplyOffset \/ NoOffset \/ ResetCache
  BY <1>2 DEF ApplyOffset, NoOffset, ResetCache, AfterOffset
<1>3. CASE Application \/ UNCHANGED vars
  BY <1>3 DEF Application, AppTests, AppCaches, AppWrites, AppWriteIgnored, vars
<1> QED
  BY <1>1, <1>2, <1>3

(* A step of the model, by what it is for the sizes.                        *)
LEMMA SizeSteps ==
  ASSUME TypeOK, ControlInv, [Next]_vars
  PROVE  \/ Negotiate \/ Fixate \/ StopGrabbing \/ SetSize \/ StartGrabbing \/ Reopen
         \/ UNCHANGED <<Sizes, phase, range>>
         \/ UNCHANGED <<Sizes, phase>> /\ phase = "query" /\ range' = Ranges
         \/ UNCHANGED <<Sizes, range>> /\ phase = "query" /\ phase' = "fixate"
         \/ size' = size /\ phase' = "failed" /\ Forget
         \/ /\ phase \in {"offset", "reset"} /\ phase' \in {"offset", "reset", "start"}
            /\ UNCHANGED <<size, format, demand, range, chosen, before>>
BY QueryStepsOnSizes, OtherStepsOnSizes DEF Next, Configure


LEMMA Numbers ==
  ASSUME TypeOK, NEW a \in Axes
  PROVE  /\ Sensor[a] \in Nat /\ Inc[a] \in Nat \ {0} /\ offset[a] \in Nat
         /\ size[a] \in Inc[a] .. Sensor[a] - offset[a] /\ size[a] \in Nat
         /\ size[a] % Inc[a] = 0 /\ offset[a] % Inc[a] = 0
<1>1. Sensor[a] \in Nat /\ Inc[a] \in Nat \ {0}
  BY GeometryAssumption
<1>2. size[a] \in SizesFor(a, offset[a]) /\ offset[a] \in OffsetsFor(a, size[a])
  BY TypeOKParts DEF OnSensor
<1>3. offset[a] \in Nat
  BY <1>2, OffsetsAreNumbers
<1>4. size[a] \in Inc[a] .. Sensor[a] - offset[a] /\ size[a] % Inc[a] = 0
  BY <1>2 DEF SizesFor
<1>5. offset[a] % Inc[a] = 0
  BY <1>2 DEF OffsetsFor
<1> QED
  BY <1>1, <1>3, <1>4, <1>5

LEMMA RangesKept ==
  ASSUME TypeOK, ControlInv, RangesInv, [Next]_vars
  PROVE  RangesInv'
<1> USE DEF RangesInv, Sizes
<1>0. NegotiationOK
  BY TypeOKParts
<1>1. CASE UNCHANGED <<Sizes, phase, range>>
  BY <1>1 DEF RangeFits
<1>2. CASE UNCHANGED <<Sizes, phase>> /\ phase = "query" /\ range' = Ranges
  <2>1. ASSUME NEW a \in Axes PROVE RangeFits(a)'
    <3>1. range'[a] = Sensor[a] - offset[a] /\ size'[a] = size[a]
      BY <1>2 DEF Ranges
    <3>2. range'[a] \in size[a] .. Sensor[a] /\ Sensor[a] - range'[a] = offset[a]
      BY <3>1, Numbers
    <3> QED
      BY <3>1, <3>2, Numbers DEF RangeFits
  <2> QED
    BY <1>2, <2>1
<1>3. CASE UNCHANGED <<Sizes, range>> /\ phase = "query" /\ phase' = "fixate"
  BY <1>3 DEF RangeFits
<1>4. CASE size' = size /\ phase' = "failed" /\ Forget
  BY <1>4 DEF Forget
<1>5. CASE phase' \in {"offset", "reset", "start"}
  BY <1>5
<1>6. CASE Negotiate
  <2>1. range' = Sensor /\ size' = size /\ phase' = "query"
    BY <1>6 DEF Negotiate, camera
  <2>2. ASSUME NEW a \in Axes PROVE RangeFits(a)'
    <3>1. size[a] <= Sensor[a] /\ Sensor[a] - Sensor[a] = 0 /\ Sensor[a] \in Nat /\ size[a] \in Nat
      BY Numbers
    <3>2. 0 % Inc[a] = 0
      BY Numbers, ZeroIsStep
    <3> QED
      BY <2>1, <3>1, <3>2 DEF RangeFits
  <2> QED
    BY <2>1, <2>2
<1>7. CASE Fixate \/ StopGrabbing \/ SetSize
  BY <1>7 DEF Fixate, StopGrabbing, SetSize
<1>8. CASE StartGrabbing
  BY <1>8 DEF StartGrabbing, Forget
<1>9. CASE Reopen
  BY <1>9 DEF Reopen
<1> QED
  BY <1>1, <1>2, <1>3, <1>4, <1>5, <1>6, <1>7, <1>8, <1>9, SizeSteps

(* The camera's size is in the range: where it is preferred it is chosen.   *)
LEMMA SizeIsChosen ==
  ASSUME TypeOK, RangesInv, Fixate, NEW a \in Axes, demand[a] = Any, format = "raw" \/ a = 2
  PROVE  chosen'[a] = size[a]
<1>1. chosen'[a] = Fixated(a, size[a])
  BY DEF Fixate, Preferred
<1>2. range[a] \in size[a] .. Sensor[a]
  BY DEF Fixate, RangesInv, RangeFits
<1>3. ~(size[a] < Inc[a]) /\ ~(size[a] > range[a])
  BY <1>2, Numbers
<1> QED
  BY <1>1, <1>3 DEF Fixated

LEMMA BeforeKept ==
  ASSUME TypeOK, ControlInv, RangesInv, BeforeInv, [Next]_vars
  PROVE  BeforeInv'
<1> USE DEF BeforeInv, Sizes
<1>0. NegotiationOK /\ OnSensor
  BY TypeOKParts
<1>1. CASE UNCHANGED <<Sizes, phase>>
  BY <1>1
<1>2. CASE UNCHANGED <<Sizes, range>> /\ phase = "query" /\ phase' = "fixate"
  BY <1>2
<1>3. CASE phase' \in {"failed", "streaming", "open"}
  BY <1>3
<1>4. CASE /\ phase \in {"offset", "reset"} /\ phase' \in {"offset", "reset", "start"}
           /\ UNCHANGED <<size, format, demand, range, chosen, before>>
  BY <1>4
<1>5. CASE Negotiate
  BY <1>5 DEF Negotiate, camera
<1>6. CASE Fixate
  <2>1. phase = "fixate" /\ phase' = "set_caps" /\ UNCHANGED <<size, before, demand, format>>
    BY <1>6 DEF Fixate, camera
  <2>2. \A a \in Axes : demand[a] = Any /\ (format = "raw" \/ a = 2) => chosen'[a] = before[a]
    BY <1>6, <2>1, SizeIsChosen
  <2> QED
    BY <2>1, <2>2
<1>7. CASE StopGrabbing
  BY <1>7 DEF StopGrabbing
<1>8. CASE SetSize
  <2>1. /\ phase = "size" /\ size' = [size EXCEPT ![axis] = chosen[axis]]
        /\ axis' = (IF axis = 1 THEN 2 ELSE 1)
        /\ phase' = (IF axis = 1 THEN "size" ELSE "offset")
        /\ UNCHANGED <<before, demand, format, chosen>>
    BY <1>8 DEF SetSize
  <2>2. axis \in {1, 2} /\ DOMAIN size = {1, 2} /\ chosen \in [{1, 2} -> Nat]
    BY <1>0 DEF NegotiationOK, OnSensor, Axes
  <2>3. CASE axis = 1
    BY <2>1, <2>2, <2>3
  <2>4. CASE axis = 2
    <3>1. size'[1] = chosen[1] /\ size'[2] = chosen[2]
      BY <2>1, <2>2, <2>4
    <3>2. size' = chosen
      <4>1. size' = [a \in {1, 2} |-> size'[a]]
        BY <2>1, <2>2
      <4>2. chosen = [a \in {1, 2} |-> chosen[a]]
        BY <2>2
      <4> QED
        BY <3>1, <4>1, <4>2
    <3> QED
      BY <2>1, <2>4, <3>2
  <2> QED
    BY <2>2, <2>3, <2>4
<1>9. CASE StartGrabbing \/ Reopen
  BY <1>9 DEF StartGrabbing, Reopen
<1> QED
  BY <1>1, <1>2, <1>3, <1>4, <1>5, <1>6, <1>7, <1>8, <1>9, SizeSteps


(* What the largest aligned width of the range is.                          *)
LEMMA AlignedWidth ==
  ASSUME TypeOK, RangeFits(1), WideInv
  PROVE  /\ RoundDown(range[1]) \in Inc[1] .. range[1]
         /\ RoundDown(range[1]) % Inc[1] = 0
         /\ RoundDown(range[1]) % Alignment = 0
         /\ ~(Inc[1] % Alignment = 0 /\ Sensor[1] % Inc[1] = 0) => RoundDown(range[1]) >= Alignment
<1>1. 1 \in Axes /\ Alignment \in Nat \ {0} /\ Inc[1] \in Nat \ {0} /\ Sensor[1] \in Nat
  BY GeometryAssumption DEF Axes
<1>2. size[1] \in Nat /\ size[1] >= Inc[1]
  BY <1>1, Numbers
<1> DEFINE r == range[1]
           w == r - (r % Alignment)
<1>3. r \in 0 .. Sensor[1] /\ r >= size[1] /\ (Sensor[1] - r) % Inc[1] = 0 /\ r \in Nat
  BY <1>1, <1>2 DEF RangeFits
<1> HIDE DEF r
<1>4. /\ w \in 0 .. r /\ w % Alignment = 0
      /\ r >= Alignment => w >= Alignment
  BY <1>1, <1>3, RoundedDownFits
<1> HIDE DEF w
<1>5. CASE Inc[1] % Alignment = 0 /\ Sensor[1] % Inc[1] = 0
  <2>1. r % Inc[1] = 0
    BY <1>1, <1>3, <1>5, RestOfMultiple
  <2>2. r % Alignment = 0
    BY <1>1, <1>3, <1>5, <2>1, MultipleOfMultiple
  <2>3. w = r
    BY <1>3, <2>2 DEF w
  <2>4. w \in Inc[1] .. r /\ w % Inc[1] = 0
    BY <1>1, <1>2, <1>3, <2>1, <2>3
  <2> QED
    BY <1>4, <1>5, <2>4 DEF RoundDown, w, r
<1>6. CASE ~(Inc[1] % Alignment = 0 /\ Sensor[1] % Inc[1] = 0)
  <2>1. Alignment % Inc[1] = 0 /\ size[1] >= Alignment
    BY <1>6 DEF WideInv
  <2>2. w >= Alignment
    BY <1>1, <1>2, <1>3, <1>4, <2>1
  <2>3. w % Inc[1] = 0
    BY <1>1, <1>4, <2>1, MultipleOfMultiple
  <2>4. Alignment >= Inc[1]
    <3>1. PICK k \in Nat : Alignment = Inc[1] * k
      BY <1>1, <2>1, NoRestIsMultiple
    <3>2. k # 0
      <4>1. Inc[1] * 0 = 0
        BY <1>1
      <4> QED
        BY <1>1, <3>1, <4>1
    <3> QED
      BY <1>1, <3>1, <3>2, TimesAtLeast
  <2>5. w \in Inc[1] .. r
    BY <1>1, <1>3, <1>4, <2>2, <2>4
  <2> QED
    BY <1>4, <2>2, <2>3, <2>5 DEF RoundDown, w, r
<1> QED
  BY <1>5, <1>6

(* Where nobody asks for a Bayer width, that one is chosen.                 *)
LEMMA AlignedIsChosen ==
  ASSUME TypeOK, RangesInv, WideInv, Fixate, demand[1] = Any, format = "bayer"
  PROVE  chosen'[1] = RoundDown(range[1]) /\ RangeFits(1)
<1>1. 1 \in Axes
  BY DEF Axes
<1>2. RangeFits(1)
  BY <1>1 DEF Fixate, RangesInv
<1>3. chosen'[1] = Fixated(1, RoundDown(range[1]))
  BY <1>1 DEF Fixate, Preferred
<1>4. RoundDown(range[1]) \in Inc[1] .. range[1]
  BY <1>2, AlignedWidth
<1>5. Inc[1] \in Int /\ range[1] \in Int
  BY <1>1, GeometryAssumption, TypeOKParts DEF NegotiationOK
<1>6. ~(RoundDown(range[1]) < Inc[1]) /\ ~(RoundDown(range[1]) > range[1])
  BY <1>4, <1>5
<1> QED
  BY <1>2, <1>3, <1>6 DEF Fixated

LEMMA WidthKept ==
  ASSUME TypeOK, ControlInv, RangesInv, WidthInv, WideInv, [Next]_vars
  PROVE  WidthInv'
<1> USE DEF WidthInv, Sizes
<1>1. CASE UNCHANGED <<Sizes, phase>>
  BY <1>1 DEF SizesFor
<1>2. CASE phase' \notin {"set_caps", "size"}
  BY <1>2
<1>3. CASE Fixate
  <2>1. SUFFICES ASSUME demand[1] = Any, format = "bayer"
                 PROVE  chosen'[1] % Alignment = 0 /\ chosen'[1] \in SizesFor(1, 0)
    BY <1>3 DEF Fixate, SizesFor
  <2>2. chosen'[1] = RoundDown(range[1]) /\ RangeFits(1)
    BY <1>3, <2>1, AlignedIsChosen
  <2>3. /\ chosen'[1] \in Inc[1] .. range[1]
        /\ chosen'[1] % Inc[1] = 0 /\ chosen'[1] % Alignment = 0
    BY <2>2, AlignedWidth
  <2>4. Inc[1] \in Nat /\ range[1] \in Nat /\ Sensor[1] \in Nat /\ range[1] <= Sensor[1]
    <3>1. 1 \in Axes
      BY DEF Axes
    <3>2. Inc[1] \in Nat /\ Sensor[1] \in Nat /\ size[1] \in Nat
      BY <3>1, Numbers
    <3> QED
      BY <2>2, <3>2 DEF RangeFits
  <2> QED
    BY <2>3, <2>4 DEF SizesFor
<1>4. CASE StopGrabbing \/ SetSize
  BY <1>4 DEF StopGrabbing, SetSize, SizesFor
<1>5. CASE Negotiate \/ StartGrabbing \/ Reopen
  BY <1>2, <1>5 DEF Negotiate, StartGrabbing, Reopen
<1> QED
  BY <1>1, <1>2, <1>3, <1>4, <1>5, SizeSteps

LEMMA WideKept ==
  ASSUME TypeOK, ControlInv, RangesInv, WideInv, [Next]_vars
  PROVE  WideInv'
<1> USE DEF WideInv, Sizes
<1> DEFINE Whole == Inc[1] % Alignment = 0 /\ Sensor[1] % Inc[1] = 0
           Configuring == {"set_caps", "size", "offset", "reset", "start"}
<1>0. NegotiationOK /\ OnSensor /\ 1 \in Axes /\ DOMAIN size = {1, 2} /\ axis \in {1, 2}
  BY TypeOKParts DEF Axes, OnSensor, NegotiationOK
<1>1. CASE /\ UNCHANGED <<size, demand>>
           /\ phase' \in Configuring => phase \in Configuring /\ chosen' = chosen
  BY <1>1
<1>2. CASE Fixate
  <2>1. /\ phase' = "set_caps" /\ UNCHANGED <<size, demand>>
        /\ chosen'[1] = IF demand[1] # Any THEN demand[1] ELSE Fixated(1, Preferred(1))
    BY <1>2, <1>0 DEF Fixate, camera
  <2>2. CASE Whole
    BY <2>1, <2>2
  <2>3. CASE ~Whole
    <3>1. size[1] >= Alignment
      BY <2>3
    <3>2. CASE demand[1] # Any
      BY <2>1, <2>3, <3>2, WidthsAssumption
    <3>3. CASE demand[1] = Any /\ format = "raw"
      BY <1>0, <1>2, <2>1, <2>3, <3>1, <3>3, SizeIsChosen
    <3>4. CASE demand[1] = Any /\ format = "bayer"
      <4>1. chosen'[1] >= Alignment
        BY <1>2, <2>3, <3>4, AlignedIsChosen, AlignedWidth
      <4> QED
        BY <2>1, <2>3, <3>1, <4>1
    <3> QED
      BY <1>0, <3>2, <3>3, <3>4 DEF NegotiationOK
  <2> QED
    BY <2>2, <2>3
<1>3. CASE SetSize
  <2>1. /\ phase = "size" /\ size' = [size EXCEPT ![axis] = chosen[axis]]
        /\ UNCHANGED <<demand, chosen>>
    BY <1>3 DEF SetSize
  <2>2. size'[1] \in {size[1], chosen[1]}
    BY <1>0, <2>1
  <2> QED
    BY <2>1, <2>2
<1>4. CASE Reopen
  <2>1. UNCHANGED <<demand, chosen>> /\ phase' = "open" /\ \E g \in PowerOn : size' = g.size
    BY <1>4 DEF Reopen
  <2> QED
    BY <2>1, WidthsAssumption
<1>5. CASE Negotiate
  <2>1. demand'[1] \in Demands[1] \union {Any} /\ size' = size /\ phase' = "query"
    BY <1>5 DEF Negotiate, camera
  <2> QED
    BY <2>1
<1>6. CASE StartGrabbing \/ (size' = size /\ phase' = "failed" /\ Forget)
  <2>1. demand'[1] = Any /\ size' = size /\ phase' \notin Configuring
    BY <1>0, <1>6 DEF StartGrabbing, Forget
  <2> QED
    BY <2>1
<1>7. CASE StopGrabbing
  BY <1>7 DEF StopGrabbing
<1> QED
  BY <1>1, <1>2, <1>3, <1>4, <1>5, <1>6, <1>7, SizeSteps

LEMMA InitSizes == Init => SizesInv
<1> SUFFICES ASSUME Init PROVE SizesInv
  OBVIOUS
<1>1. /\ phase = "open" /\ range = Sensor /\ demand = [a \in Axes |-> Any]
      /\ \E g \in PowerOn : size = g.size
  BY DEF Init
<1>2. demand[1] = Any
  BY <1>1 DEF Axes
<1>3. WideInv
  BY <1>1, <1>2, WidthsAssumption DEF WideInv
<1> QED
  BY <1>1, <1>3 DEF SizesInv, RangesInv, BeforeInv, WidthInv

LEMMA SizesKept ==
  ASSUME TypeOK, ControlInv, SizesInv, [Next]_vars
  PROVE  SizesInv'
BY RangesKept, BeforeKept, WidthKept, WideKept DEF SizesInv

LEMMA NothingChanged ==
  ASSUME TypeOK, SizesInv
  PROVE  ~OpenSizesChanged
<1> SUFFICES ASSUME StartGrabbing, NEW a \in Axes,
                    demand[a] = Any, format = "raw" \/ a = 2, size[a] # before[a]
             PROVE  FALSE
  BY DEF OpenSizesChanged
<1> QED
  BY DEF StartGrabbing, SizesInv, BeforeInv

LEMMA NothingRefused ==
  ASSUME TypeOK, SizesInv
  PROVE  ~OpenSizesRefused
<1>0. NegotiationOK /\ OnSensor /\ 1 \in Axes
  BY TypeOKParts DEF Axes
<1>1. ASSUME NoCommonCaps, \A a \in Axes : demand[a] = Any PROVE FALSE
  BY <1>1 DEF NoCommonCaps
<1>2. ASSUME NotAligned, demand[1] = Any PROVE FALSE
  BY <1>2 DEF NotAligned, Aligned, SizesInv, WidthInv
<1>3. ASSUME SizeRefused, demand[axis] = Any, ~(format = "bayer" /\ axis = 1 /\ offset[1] > 0)
      PROVE  FALSE
  <2>1. phase = "size" /\ axis \in Axes /\ chosen[axis] \notin SizesFor(axis, offset[axis])
    BY <1>0, <1>3 DEF SizeRefused, NegotiationOK
  <2>2. CASE format = "raw" \/ axis = 2
    <3>1. chosen[axis] = before[axis]
      BY <1>3, <2>1, <2>2 DEF SizesInv, BeforeInv
    <3>2. size[axis] = before[axis]
      BY <2>1 DEF SizesInv, BeforeInv, Axes
    <3> QED
      BY <1>0, <2>1, <3>1, <3>2 DEF OnSensor
  <2>3. CASE format = "bayer" /\ axis = 1
    <3>1. offset[1] = 0
      BY <1>0, <1>3, <2>3, Numbers
    <3>2. chosen[1] \in SizesFor(1, 0)
      BY <1>3, <2>1, <2>3 DEF SizesInv, WidthInv
    <3> QED
      BY <2>1, <2>3, <3>1, <3>2
  <2> QED
    BY <1>0, <2>1, <2>2, <2>3 DEF NegotiationOK, Axes
<1>4. /\ NoCommonCaps => why' = "caps"
      /\ NotAligned => why' = "alignment"
      /\ SizeRefused => why' = "size"
  BY DEF NoCommonCaps, NotAligned, SizeRefused, Fail
<1> QED
  BY <1>1, <1>2, <1>3, <1>4 DEF OpenSizesRefused

(* A size that downstream leaves open is never what a negotiation fails     *)
(* for, a Bayer width on a camera with an offset apart, and a raw stream    *)
(* keeps the size of the user set and the PFS file.                         *)
THEOREM OpenSizesAreKept == Spec => OpenSizesKept
<1>1. Init => TypeOK /\ ControlInv /\ SizesInv
  BY InitAsked, InitSizes DEF IInv
<1>2. TypeOK /\ ControlInv /\ SizesInv /\ [Next]_vars => (TypeOK /\ ControlInv /\ SizesInv)'
  BY TypesKept, ControlKept, SizesKept
<1>3. TypeOK /\ ControlInv /\ SizesInv => [~OpenSizesRefused /\ ~OpenSizesChanged]_vars
  BY NothingChanged, NothingRefused
<1> QED
  BY <1>1, <1>2, <1>3, PTL DEF Spec, OpenSizesKept

==============================================================================
