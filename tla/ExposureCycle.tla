---------------------------- MODULE ExposureCycle ----------------------------
(***************************************************************************)
(* What the HDR properties of pylonsrc promise: while the camera streams   *)
(* it exposes the steps of profile 0 one after the other, over and over,   *)
(* until it is asked for the other profile, and then at once begins with   *)
(* the first step of that one.  The sequences change only while it does    *)
(* not stream.                                                             *)
(***************************************************************************)
EXTENDS Integers, Sequences

CONSTANTS
  Sequences,    (* Pairs of sequences of steps, the second one maybe empty. *)
  NoStep        (* What a camera that does not stream exposes.              *)

VARIABLES
  sequences,    (* The sequence of each profile.                            *)
  streaming,
  profile,      (* The active profile, ...                                  *)
  index,        (* ... the position in its sequence, counted from 0, ...    *)
  exposing,     (* ... and the step the camera exposes.                     *)
  asked,        (* The profiles it was asked for during the last exposure.  *)
  image         (* Changes with each image.                                 *)

vars == <<sequences, streaming, profile, index, exposing, asked, image>>

Resting ==
  /\ streaming = FALSE
  /\ profile = 0
  /\ index = 0
  /\ exposing = NoStep
  /\ asked = {}
  /\ image = 0

Init == sequences \in Sequences /\ Resting

Choose ==
  /\ ~streaming
  /\ sequences' \in Sequences
  /\ UNCHANGED <<streaming, profile, index, exposing, asked, image>>

(* The camera exposes the i-th step of profile p next. *)
Expose(p, i) ==
  /\ profile' = p
  /\ index' = i
  /\ exposing' = sequences[p][i + 1]
  /\ streaming' = TRUE
  /\ UNCHANGED sequences

Start == ~streaming /\ Expose(0, 0) /\ asked' = {} /\ image' = 0

AskedForOther == 1 - profile \in asked' /\ sequences[1 - profile] # <<>>

NextExposure ==
  /\ streaming
  /\ asked' \in SUBSET {0, 1}
  /\ image' = 1 - image
  /\ ~AskedForOther
  /\ Expose(profile, (index + 1) % Len(sequences[profile]))

SwitchProfile ==
  /\ streaming
  /\ asked' \in SUBSET {0, 1}
  /\ image' = 1 - image
  /\ AskedForOther
  /\ Expose(1 - profile, 0)

(* By the time it starts again, the sequences may be others. *)
Stop == streaming /\ Resting' /\ sequences' \in Sequences

Next == Choose \/ Start \/ NextExposure \/ SwitchProfile \/ Stop

Spec == Init /\ [][Next]_vars
=============================================================================
