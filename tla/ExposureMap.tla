----------------------------- MODULE ExposureMap -----------------------------
(***************************************************************************)
(* The way of the HDR sequences from the properties of pylonsrc to the     *)
(* camera and to the map by which HdrMetadataProvider recognises a frame:  *)
(* the HDR part of gst_pylon_src_set_caps (ext/pylon/gstpylonsrc.cpp), the *)
(* factory of HdrMetadataProvider and the steps that the configure         *)
(* functions of ext/pylon/gstpylon.cpp accept.  How those program the      *)
(* sequencer is left to "programmed", what they make it cycle through.     *)
(***************************************************************************)
EXTENDS Integers, Sequences, FiniteSets, SequencesExt

CONSTANTS
  MaxExposure,  (* The largest uint32_t.                                   *)
  Requests,     (* The exposures an application asks for.                  *)
  Gains,        (* The gains it asks for.                                  *)
  MaxSets,      (* The sequencer sets of a camera: 16.                     *)
  MaxSteps,     (* Bound on the steps of a sequence.                       *)
  Unset         (* A property that was never set: NULL.                    *)

Profiles == {0, 1}
Exposures == 0 .. MaxExposure

(* A step is an "exposure:gain" pair, the gain 0 if it is left out.        *)
Step == [exposure: Exposures, gain: Gains \cup {0}]
Sequence == Seq(Step)

(* The sequences an application sets. *)
RequestedSequences ==
  BoundedSeq([exposure: Requests, gain: Gains \cup {0}], MaxSteps)

ASSUME MaxExposureAssumption == MaxExposure \in Nat
ASSUME RequestsAssumption == Requests \subseteq Exposures
ASSUME GainsAssumption == Gains \subseteq Nat
ASSUME BoundsAssumption == MaxSets \in Nat /\ MaxSteps \in Nat
ASSUME UnsetAssumption == Unset \notin Sequence

(* There is always a free exposure: the map has one entry for each step of *)
(* both profiles, and one more for each duplicate.                         *)
ASSUME RoomAssumption == 4 * MaxSteps <= MaxExposure

VARIABLES
  requested,     (* The sequences the application set, per profile.        *)
  hdr_sequence,  (* The properties hdr-sequence and hdr-sequence2.         *)
  exposureMap,   (* _exposureMap: where each exposure is, <<profile, i>>.  *)
  programmed,    (* The steps the camera cycles through, per profile, ...  *)
  streaming      (* ... while it streams.                                  *)

vars == <<requested, hdr_sequence, exposureMap, programmed, streaming>>

Properties == [Profiles -> Sequence \cup {Unset}]

TypeOK ==
  /\ requested \in Properties
  /\ hdr_sequence \in Properties
  /\ DOMAIN exposureMap \subseteq Exposures
  /\ \A e \in DOMAIN exposureMap : exposureMap[e] \in Profiles \X Nat
  /\ programmed \in [Profiles -> Sequence]
  /\ streaming \in BOOLEAN

Nothing == [p \in Profiles |-> <<>>]

Init ==
  /\ requested = [p \in Profiles |-> Unset]
  /\ hdr_sequence = requested
  /\ exposureMap = <<>>
  /\ programmed = Nothing
  /\ streaming = FALSE

StepsOf(property) == IF property = Unset THEN <<>> ELSE property
ExposuresOf(steps) == [i \in DOMAIN steps |-> steps[i].exposure]

-----------------------------------------------------------------------------
(* HdrMetadataProvider. *)

Places(exposures, e) == {i \in DOMAIN exposures : exposures[i] = e}
FirstIndex(exposures, e) ==
  CHOOSE i \in Places(exposures, e) : \A j \in Places(exposures, e) : i <= j
LastIndex(exposures, e) ==
  CHOOSE i \in Places(exposures, e) : \A j \in Places(exposures, e) : i >= j

(* addProfileToMap for both profiles: a later entry replaces an earlier.   *)
BothProfiles(p0, p1) ==
  [e \in Range(p0) \cup Range(p1) |->
     IF e \in Range(p1) THEN <<1, LastIndex(p1, e) - 1>>
                        ELSE <<0, LastIndex(p0, e) - 1>>]

(* The places of the exposures that were seen before. *)
Duplicates(all) == {i \in DOMAIN all : \E j \in 1 .. i - 1 : all[j] = all[i]}

(* Seeded bug: nobody looks whether the next exposure is free. *)
FreeExposure_Next(map, e) == (e + 1) % (MaxExposure + 1)

(* Seeded bug: the search does not wrap around. *)
FreeExposure_Wide(map, e) ==
  CHOOSE x \in e .. e + Cardinality(DOMAIN map) :
    x \notin DOMAIN map /\ \A y \in e .. x - 1 : y \in DOMAIN map

(* The first exposure from e upwards that is not in the map. *)
FreeExposure(map, e) ==
  LET Up(k) == (e + k) % (MaxExposure + 1)
      k == CHOOSE k \in Exposures :
             /\ Up(k) \notin DOMAIN map
             /\ \A j \in 0 .. k - 1 : Up(j) \in DOMAIN map
  IN  Up(k)

(* Seeded bug: profile 1 keeps the exposure, profile 0 gets a free one. *)
AdjustDuplicate_MovesProfile0(p0, p1, map, e) ==
  IF e \in Range(p0) /\ e \in Range(p1)
  THEN LET adjusted == FreeExposure(map, e)
       IN  [x \in DOMAIN map \cup {adjusted} |->
              CASE x = e        -> <<1, FirstIndex(p1, e) - 1>>
                [] x = adjusted -> <<0, FirstIndex(p0, e) - 1>>
                [] OTHER        -> map[x]]
  ELSE map

(* Profile 0 keeps an exposure both have, profile 1 gets a free one. *)
AdjustDuplicate(p0, p1, map, e) ==
  IF e \in Range(p0) /\ e \in Range(p1)
  THEN LET adjusted == FreeExposure(map, e)
       IN  [x \in DOMAIN map \cup {adjusted} |->
              CASE x = e        -> <<0, FirstIndex(p0, e) - 1>>
                [] x = adjusted -> <<1, FirstIndex(p1, e) - 1>>
                [] OTHER        -> map[x]]
  ELSE map

(* Both profiles in the map, and then one duplicate after the other: what  *)
(* is free for one depends on what the ones before have taken.             *)
BuildExposureMap(p0, p1) ==
  LET all == p0 \o p1
      Map[k \in 0 .. Len(all)] ==
        IF k = 0 THEN BothProfiles(p0, p1)
        ELSE IF k \in Duplicates(all)
             THEN AdjustDuplicate(p0, p1, Map[k - 1], all[k])
             ELSE Map[k - 1]
  IN  Map[Len(all)]

(* The exposures the factory reads back for profile p: 0 where the map has *)
(* none, and the one its iteration meets last where it has several.        *)
ReadsBack(map, p, n) ==
  {s \in [1 .. n -> DOMAIN map \cup {0}] :
     \A i \in 1 .. n :
       LET of == {e \in DOMAIN map : map[e] = <<p, i - 1>>}
       IN  s[i] \in (IF of = {} THEN {0} ELSE of)}

-----------------------------------------------------------------------------
(* The element. *)

(* The application sets a property, which it may do in READY. *)
SetSequence(p, steps) ==
  /\ ~streaming
  /\ requested' = [requested EXCEPT ![p] = steps]
  /\ hdr_sequence' = [hdr_sequence EXCEPT ![p] = steps]
  /\ UNCHANGED <<exposureMap, programmed, streaming>>

(* Seeded bug: a sequence that is rewritten moves one exposure further. *)
Rewritten_Drifts(property, adjusted) ==
  IF adjusted # <<>> /\ adjusted # ExposuresOf(StepsOf(property))
  THEN [i \in DOMAIN adjusted |->
          [exposure |-> (adjusted[i] + 1) % (MaxExposure + 1), gain |-> 0]]
  ELSE property

(* set_caps rewrites a property when the provider adjusted its exposures:  *)
(* only the exposures are written.                                         *)
Rewritten(property, adjusted) ==
  IF adjusted # <<>> /\ adjusted # ExposuresOf(StepsOf(property))
  THEN [i \in DOMAIN adjusted |-> [exposure |-> adjusted[i], gain |-> 0]]
  ELSE property

(* What gst_pylon_configure_dual_hdr_sequence asks of the steps, or        *)
(* gst_pylon_configure_hdr_sequence when hdr-sequence2 is NULL.            *)
Accepts(sequences) ==
  LET n == Len(sequences[0])
  IN  \/ sequences[1] = Unset /\ n >= 2
      \/ /\ sequences[1] \notin {Unset, <<>>}
         /\ n + Len(sequences[1]) <= MaxSets

(* The camera may refuse to be configured or to start all the same. *)
SetCaps ==
  /\ hdr_sequence[0] \notin {Unset, <<>>}
  /\ LET p0 == ExposuresOf(hdr_sequence[0])
         p1 == ExposuresOf(StepsOf(hdr_sequence[1]))
         map == BuildExposureMap(p0, p1)
     IN  \E adjusted0 \in ReadsBack(map, 0, Len(p0)),
            adjusted1 \in ReadsBack(map, 1, Len(p1)) :
           /\ exposureMap' = map
           /\ hdr_sequence' = [p \in Profiles |->
                Rewritten(hdr_sequence[p],
                          IF p = 0 THEN adjusted0 ELSE adjusted1)]
  /\ \/ /\ Accepts(hdr_sequence')
        /\ streaming' = TRUE
        /\ programmed' = [p \in Profiles |-> StepsOf(hdr_sequence'[p])]
     \/ /\ streaming' = FALSE
        /\ programmed' = Nothing
  /\ UNCHANGED requested

(* The element goes back to READY, and the plugin drops its provider. *)
Stop ==
  /\ streaming
  /\ streaming' = FALSE
  /\ programmed' = Nothing
  /\ exposureMap' = <<>>
  /\ UNCHANGED <<requested, hdr_sequence>>

Next ==
  \/ \E p \in Profiles, steps \in RequestedSequences : SetSequence(p, steps)
  \/ SetCaps
  \/ Stop

Spec == Init /\ [][Next]_vars

-----------------------------------------------------------------------------
(* HdrMetadataProvider/README.md: "Assumes exposure times are unique       *)
(* within each profile".                                                   *)
Unique(steps) == IsInjective(ExposuresOf(steps))
AssumesUnique == \A p \in Profiles : Unique(StepsOf(requested[p]))

(* While the camera streams, the map finds for the exposure of each step   *)
(* the profile and the position the sequencer has it at: two steps with    *)
(* one exposure would be two frames nobody can tell apart.                 *)
FindsEveryStep ==
  streaming /\ AssumesUnique =>
    \A p \in Profiles : \A i \in DOMAIN programmed[p] :
      LET e == programmed[p][i].exposure
      IN  e \in DOMAIN exposureMap /\ exposureMap[e] = <<p, i - 1>>

(* Profile 0 is programmed as it was asked for, gains included, and        *)
(* profile 1 with as many steps as were asked for.                         *)
Profile0Kept ==
  streaming /\ AssumesUnique =>
    /\ programmed[0] = requested[0]
    /\ Len(programmed[1]) = Len(StepsOf(requested[1]))

(* set_caps rewrites the properties it reads, and the base class calls it  *)
(* again on every renegotiation: the second call changes nothing more.     *)
RenegotiationIsStable ==
  [][streaming /\ streaming' /\ AssumesUnique /\ SetCaps
       => UNCHANGED <<hdr_sequence, exposureMap, programmed>>]_vars
=============================================================================
