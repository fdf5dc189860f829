----------------------------- MODULE HdrMetadata -----------------------------
(***************************************************************************)
(* HdrMetadataProvider (HdrMetadataProvider/HdrMetadataProvider.cpp) and   *)
(* the plugin around it: the numbers by which downstream elements group    *)
(* the frames of an HDR window, computed from the image number and the     *)
(* position of the exposure in its profile.                                *)
(*                                                                         *)
(* The camera's sequencer is external: it walks through the exposures of   *)
(* the active profile and, on a software signal, goes on with the first    *)
(* exposure of the other one.  Any number of the images it exposes is lost *)
(* before create() sees the next.  The position of an exposure is what     *)
(* LookupExposure finds; module ExposureMap is about the map it looks in.  *)
(***************************************************************************)
EXTENDS Integers

CONSTANTS
  Sizes,        (* The window sizes a profile may have.                    *)
  MaxFrames     (* Bound on the images the camera exposes.                 *)

(* A window size is a uint8_t. *)
ASSUME SizesAssumption == Sizes \subseteq 0 .. 255
ASSUME MaxFramesAssumption == MaxFrames \in Nat

Profiles == {0, 1}

(* _lastFrameNumber before the first frame, UINT64_MAX in the code. *)
NoFrame == 0

VARIABLES
  windowSize,           (* The number of exposures of each profile.        *)
  (* The fields of the provider. *)
  _lastProfile, _lastSequenceIndex, _lastFrameNumber, _frameOffset,
  (* The camera. *)
  number,               (* The number of the image last exposed, ...       *)
  profile, index,       (* ... which exposure of which profile it has, ... *)
  window,               (* ... and which HDR window it belongs to.         *)
  hidden,               (* A profile came and went without being seen.     *)
  (* The metadata of the last image that has any. *)
  MasterSequence,
  lastWindow            (* The HDR window of that image.                   *)

providerVars ==
  <<_lastProfile, _lastSequenceIndex, _lastFrameNumber, _frameOffset>>
cameraVars == <<number, profile, index, window, hidden>>
metaVars == <<MasterSequence, lastWindow>>
vars == <<windowSize, providerVars, cameraVars, metaVars>>

TypeOK ==
  /\ windowSize \in [Profiles -> Sizes]
  /\ _lastProfile \in Profiles
  /\ _lastSequenceIndex \in Nat
  /\ _lastFrameNumber \in Nat
  /\ _frameOffset \in Int
  /\ number \in Nat
  /\ profile \in Profiles
  /\ index \in Nat
  /\ window \in Nat
  /\ hidden \in BOOLEAN
  /\ MasterSequence \in Nat
  /\ lastWindow \in Nat

(* set_caps configures the plugin with at least one exposure of profile 0  *)
(* before it starts the camera.                                            *)
Configurations == {sizes \in [Profiles -> Sizes] : sizes[0] > 0}

Init ==
  /\ windowSize \in Configurations
  /\ _lastProfile = 0
  /\ _lastSequenceIndex = 0
  /\ _lastFrameNumber = NoFrame
  /\ _frameOffset = 0
  /\ number = 1
  /\ profile = 0
  /\ index = 0
  /\ window = 1
  /\ hidden = FALSE
  /\ MasterSequence = 0
  /\ lastWindow = 0

-----------------------------------------------------------------------------
(* The provider. *)

(* ProfileInfo::GetMasterSequence: which window of size W the frame n is   *)
(* in.  The division of C++ rounds towards zero.                           *)
GetMasterSequence(W, n) ==
  IF W = 0 THEN 0
  ELSE IF n >= 0 THEN n \div W + (IF n % W > 0 THEN 1 ELSE 0)
  ELSE -((-n) \div W)

(* The loop of CalculateFrameOffset: how far the frame can be moved back,  *)
(* at most W frames, while the frame before it is in window m.             *)
StepsBack(W, n, m) ==
  CHOOSE d \in 0 .. W :
    /\ \A j \in 1 .. d : GetMasterSequence(W, n - j) = m
    /\ d = W \/ GetMasterSequence(W, n - d - 1) # m

(* Seeded bug: the offset that is in force is left out of prv_m. *)
CalculateFrameOffset_ForgetsOffset(n, prv, nx, sequenceIndex) ==
  LET prv_m == GetMasterSequence(prv, n)
      last == prv_m * nx
  IN  last - StepsBack(nx, last, prv_m) + sequenceIndex - n

(* Seeded bug: the position of the exposure in its profile is left out. *)
CalculateFrameOffset_IgnoresIndex(n, prv, nx, sequenceIndex) ==
  LET prv_m == GetMasterSequence(prv, n + _frameOffset)
      last == prv_m * nx
  IN  last - StepsBack(nx, last, prv_m) - n

(* Seeded bug: no correction for a window that was cut short. *)
CalculateFrameOffset_NoMidWindow(n, prv, nx, sequenceIndex) ==
  LET prv_m == GetMasterSequence(prv, n + _frameOffset)
      last == prv_m * nx
  IN  last - StepsBack(nx, last, prv_m) + sequenceIndex - n

(* Seeded bug: the difference is taken the other way round. *)
CalculateFrameOffset_Negated(n, prv, nx, sequenceIndex) ==
  LET prv_m == GetMasterSequence(prv, n + _frameOffset)
      last == prv_m * nx
  IN  n - (last - StepsBack(nx, last, prv_m) + sequenceIndex)

(* What CalculateFrameOffset stores for frame n, the sequenceIndex-th of a *)
(* profile with the window size nx, after one with the window size prv.    *)
CalculateFrameOffset(n, prv, nx, sequenceIndex) ==
  LET prv_m == GetMasterSequence(prv, n + _frameOffset)
      mid_prv == prv > 1 /\ _lastSequenceIndex < prv - 1
      last == prv_m * nx
      first == last - StepsBack(nx, last, prv_m)
      adjusted == first + sequenceIndex
      again == /\ mid_prv
               /\ sequenceIndex = 0
               /\ GetMasterSequence(nx, adjusted) = prv_m
  IN  (IF again THEN adjusted + nx ELSE adjusted) - n

ProfileSwitch == _lastFrameNumber # NoFrame /\ profile # _lastProfile

(* ProcessFrame for the image last exposed. *)
ProcessFrame ==
  /\ number > _lastFrameNumber
  /\ _frameOffset' =
       IF ProfileSwitch
       THEN CalculateFrameOffset(number, windowSize[_lastProfile],
                                 windowSize[profile], index)
       ELSE _frameOffset
  /\ MasterSequence' =
       GetMasterSequence(windowSize[profile], number + _frameOffset')
  /\ lastWindow' = window
  /\ _lastProfile' = profile
  /\ _lastSequenceIndex' = index
  /\ _lastFrameNumber' = number
  /\ UNCHANGED <<windowSize, cameraVars>>

(* HdrMetadataPlugin::Configure creates a new provider; the camera starts  *)
(* again with the first exposure of profile 0.                             *)
Configure ==
  /\ windowSize' \in Configurations
  /\ _lastProfile' = 0
  /\ _lastSequenceIndex' = 0
  /\ _lastFrameNumber' = NoFrame
  /\ _frameOffset' = 0
  /\ number' = 1
  /\ profile' = 0
  /\ index' = 0
  /\ window' = 1
  /\ hidden' = FALSE
  /\ MasterSequence' = 0
  /\ lastWindow' = 0

-----------------------------------------------------------------------------
(* The camera. *)

(* External.  The next exposure of the active profile. *)
NextExposure ==
  /\ number < MaxFrames
  /\ number' = number + 1
  /\ index' = (index + 1) % windowSize[profile]
  /\ window' = IF index' = 0 THEN window + 1 ELSE window
  /\ UNCHANGED <<windowSize, providerVars, profile, hidden, metaVars>>

(* External.  The sequencer received the signal for the other profile, in  *)
(* whichever exposure it is.                                               *)
SwitchProfile ==
  /\ number < MaxFrames
  /\ windowSize[1 - profile] > 0
  /\ number' = number + 1
  /\ profile' = 1 - profile
  /\ index' = 0
  /\ window' = window + 1
  /\ hidden' = (hidden \/ _lastProfile # profile \/ _lastFrameNumber = NoFrame)
  /\ UNCHANGED <<windowSize, providerVars, metaVars>>

Next == ProcessFrame \/ Configure \/ NextExposure \/ SwitchProfile

Spec == Init /\ [][Next]_vars
-----------------------------------------------------------------------------
(* The master sequence never goes back, whatever images are lost and       *)
(* whatever profiles were missed: README.md calls it "monotonically        *)
(* increasing".                                                            *)
MasterNondecreasing ==
  [][ProcessFrame => MasterSequence' >= MasterSequence]_vars

(* As long as no profile was missed, the master sequence counts the        *)
(* windows of the active profile, lost ones included: the frames of a      *)
(* window have the same number and no other frame of the profile has it.   *)
CountsWindows ==
  [][ProcessFrame /\ _lastFrameNumber # NoFrame /\ ~ProfileSwitch /\ ~hidden
       => MasterSequence' - MasterSequence = window - lastWindow]_vars

(* A switch that is seen from its first exposure on begins a new master    *)
(* sequence, the next one if no image was lost.                            *)
SwitchSeparates ==
  [][ProcessFrame /\ ProfileSwitch /\ index = 0 /\ ~hidden
       => /\ MasterSequence' > MasterSequence
          /\ number = _lastFrameNumber + 1
               => MasterSequence' = MasterSequence + 1]_vars
=============================================================================
