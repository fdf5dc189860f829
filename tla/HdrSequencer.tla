----------------------------- MODULE HdrSequencer -----------------------------
(***************************************************************************)
(* How gst_pylon_configure_hdr_sequence and                                *)
(* gst_pylon_configure_dual_hdr_sequence (ext/pylon/gstpylon.cpp) program  *)
(* the sequencer of the camera, one register after the other, and how the  *)
(* camera then walks through the sets.  Every write may throw: the rest of *)
(* the configuration is skipped and set_caps fails.  Many writes are made  *)
(* only if the register IsWritable: without it the code logs a warning, or *)
(* nothing, and goes on.                                                   *)
(*                                                                         *)
(* The camera is external.  It depends on its kind which registers are     *)
(* always writable, whether it has several paths per set and commands to   *)
(* load and save a set, and what its user set says.                        *)
(***************************************************************************)
EXTENDS Integers, Sequences

CONSTANTS
  Exposures, Gains,
  Requests,     (* hdr-sequence and hdr-sequence2, as pairs of sequences of *)
                (* steps; an empty second one stands for a NULL property.   *)
  Formats,      (* Width, height and pixel format of the caps.              *)
  FactoryStep,  (* The exposure and gain of a set nobody programmed.        *)
  MaxSets,      (* The limit of the dual configuration: 16.                 *)
  CameraSets,   (* The sets the camera has.                                 *)
  Cameras,      (* The kinds of camera.                                     *)
  Triggers,     (* The trigger sources there are, and those of them that    *)
  EachImage     (* come with every image.                                   *)

Steps == [exposure: Exposures, gain: Gains]
SetNumbers == 0 .. CameraSets - 1

(* What the code asks for IsWritable; Format is Width, Height and          *)
(* PixelFormat, and SetLoad and SetSave are commands.                      *)
Registers ==
  {"Mode", "ConfigurationMode", "TriggerSource", "SetStart", "SetSelector",
   "SetLoad", "Format", "Gain", "ExposureTime", "SetNext", "SetSave"}

(* A kind of camera.                                                       *)
(*   immediate  it has no commands to load and save a set: what is written *)
(*              goes into the selected set                                 *)
(*   paths      the paths of a set                                         *)
(*   writable   the registers that are always writable; the others may be  *)
(*              writable at one moment and not at another, or never        *)
(*   triggers   the trigger sources that can be set                        *)
(*   shared     there is one trigger source (per path) for all sets        *)
(*   trigger    the trigger source in the user set                         *)
(*   start      SequencerSetStart in the user set                          *)
Kind ==
  [immediate: BOOLEAN, paths: {{0}, {0, 1}}, writable: SUBSET Registers,
   triggers: SUBSET Triggers, shared: BOOLEAN, trigger: Triggers,
   start: SetNumbers]

ASSUME RequestsAssumption ==
  \A r \in Requests : r \in [{0, 1} -> Seq(Steps)] /\ r[0] # <<>>
ASSUME FactoryStepAssumption == FactoryStep \in Steps
ASSUME SetsAssumption == MaxSets \in Nat /\ CameraSets \in Nat \ {0}
ASSUME CamerasAssumption == Cameras \subseteq Kind
ASSUME TriggersAssumption ==
  /\ {"ExposureActive", "SoftwareSignal1", "SoftwareSignal2"} \subseteq Triggers
  /\ EachImage \subseteq Triggers
  /\ "ExposureActive" \in EachImage
  /\ {"SoftwareSignal1", "SoftwareSignal2"} \intersect EachImage = {}

VARIABLES
  (* The camera. *)
  kind,                 (* A member of Cameras.                             *)
  SequencerMode, SequencerConfigurationMode, SequencerSetStart,
  SequencerSetSelector, SequencerPathSelector,
  active,               (* The registers a set is loaded to and saved from. *)
  sets,                 (* The sets.                                        *)
  grabbing, current,    (* While it streams: the set it exposes with, and   *)
  asked,                (* what it was signalled during the last exposure,  *)
  image,                (* and whether it exposed an even number of images. *)
  (* The element. *)
  request, format,
  pc, i                 (* How far set_caps is, and in which set.           *)

modeVars == <<SequencerMode, SequencerConfigurationMode>>
selectorVars ==
  <<SequencerSetStart, SequencerSetSelector, SequencerPathSelector>>
setVars == <<active, sets>>
runVars == <<grabbing, current, asked, image>>
requestVars == <<kind, request, format>>
vars == <<modeVars, selectorVars, setVars, runVars, requestVars, pc, i>>

Set == [step: Steps, format: Formats,
        next: [{0, 1} -> SetNumbers], trigger: [{0, 1} -> Triggers]]

Configuring ==
  {"mode off", "configuration on", "trigger", "set start", "select", "load", "settings",
   "signal path", "default path", "next", "save", "configuration off",
   "mode on", "start"}

TypeOK ==
  /\ kind \in Cameras
  /\ SequencerMode \in {"Off", "On"}
  /\ SequencerConfigurationMode \in {"Off", "On"}
  /\ SequencerSetStart \in SetNumbers
  /\ SequencerSetSelector \in SetNumbers
  /\ SequencerPathSelector \in {0, 1}
  /\ active \in Set
  /\ sets \in [SetNumbers -> Set]
  /\ grabbing \in BOOLEAN
  /\ current \in SetNumbers
  /\ asked \subseteq {0, 1}
  /\ image \in {0, 1}
  /\ request \in Requests
  /\ format \in Formats
  /\ pc \in Configuring \cup {"opened", "streaming", "failed"}
  /\ i \in Nat

(* External.  The user set the element loads when it opens the camera: a   *)
(* set nobody programmed, and the registers outside of the sets.           *)
Factory(f) ==
  [step |-> FactoryStep, format |-> f, next |-> [p \in {0, 1} |-> 0],
   trigger |-> [p \in {0, 1} |-> kind.trigger]]

LoadUserSet(f) ==
  /\ SequencerMode' = "Off"
  /\ SequencerConfigurationMode' = "Off"
  /\ SequencerSetStart' = kind.start
  /\ SequencerSetSelector' = 0
  /\ SequencerPathSelector' = 0
  /\ active' = Factory(f)
  /\ sets' = [s \in SetNumbers |-> Factory(f)]

Init ==
  /\ kind \in Cameras
  /\ request \in Requests
  /\ format \in Formats
  /\ SequencerMode = "Off"
  /\ SequencerConfigurationMode = "Off"
  /\ SequencerSetStart = kind.start
  /\ SequencerSetSelector = 0
  /\ SequencerPathSelector = 0
  /\ active = Factory(format)
  /\ sets = [s \in SetNumbers |-> Factory(format)]
  /\ grabbing = FALSE
  /\ current = 0
  /\ asked = {}
  /\ image = 0
  /\ pc = "opened"
  /\ i = 0

-----------------------------------------------------------------------------
(* The allocation of the sets: the steps of profile 0, then of profile 1. *)

Dual == request[1] # <<>>
SetCount == Len(request[0]) + Len(request[1])
ProfileOf(s) == IF s < Len(request[0]) THEN 0 ELSE 1
FirstSet(p) == IF p = 0 THEN 0 ELSE Len(request[0])
LastSet(p) == FirstSet(p) + Len(request[p]) - 1
StepOf(s) == LET p == ProfileOf(s) IN request[p][s - FirstSet(p) + 1]

(* Both functions check the lengths before they touch the camera. *)
Accepted == IF Dual THEN SetCount <= MaxSets ELSE SetCount >= 2

AllSets == 0 .. SetCount - 1

(* What is written without asking: the dual configuration relies on the    *)
(* selector, the trigger source, the next set and the exposure time, and   *)
(* SetValue throws where it must not.                                      *)
MayBeSkipped(register) ==
  /\ register \notin kind.writable
  /\ Dual => register \notin {"TriggerSource", "SetSelector", "ExposureTime",
                              "SetNext"}

(* What a register can be after the code wrote a value to it, or did not.  *)
AfterWrite(register, value, old) ==
  {value} \cup (IF MayBeSkipped(register) THEN {old} ELSE {})

(* A camera without commands to load and save a set writes into the set    *)
(* that is selected, and one with a single trigger source has it in all    *)
(* sets.  A next set that it does not have is refused.                     *)
Edit(registers) ==
  /\ \A path \in {0, 1} : registers.next[path] \in SetNumbers
  /\ active' = registers
  /\ sets' = [s \in SetNumbers |->
               IF kind.immediate /\ s = SequencerSetSelector THEN registers
               ELSE IF kind.shared
                    THEN [sets[s] EXCEPT !.trigger = registers.trigger]
                    ELSE sets[s]]

-----------------------------------------------------------------------------
(* set_caps up to the configure functions: the camera is stopped and the   *)
(* size and format are set.                                                *)
SetCaps(f) ==
  /\ pc \in {"opened", "streaming"}
  /\ grabbing' = FALSE
  /\ current' = 0
  /\ asked' = {}
  /\ image' = 0
  /\ format' = f
  /\ Edit([active EXCEPT !.format = f])
  /\ pc' = IF Accepted THEN "mode off" ELSE "failed"
  /\ UNCHANGED <<modeVars, selectorVars, kind, request, i>>

(* Seeded bug: the sequencer stays on while it is configured. *)
ModeOff_Forgotten ==
  /\ pc = "mode off"
  /\ pc' = "configuration on"
  /\ UNCHANGED <<modeVars, selectorVars, setVars, runVars, requestVars, i>>

ModeOff ==
  /\ pc = "mode off"
  /\ SequencerMode' \in AfterWrite("Mode", "Off", SequencerMode)
  /\ pc' = "configuration on"
  /\ UNCHANGED <<SequencerConfigurationMode, selectorVars, setVars, runVars,
                 requestVars, i>>

(* The dual configuration checks for the path selector only now. *)
ConfigurationOn ==
  /\ pc = "configuration on"
  /\ SequencerConfigurationMode'
       \in AfterWrite("ConfigurationMode", "On", SequencerConfigurationMode)
  /\ pc' = CASE ~Dual -> "trigger"
             [] Dual /\ kind.paths = {0} -> "failed"
             [] Dual /\ kind.paths # {0} -> "set start"
  /\ UNCHANGED <<SequencerMode, selectorVars, setVars, runVars, requestVars,
                 i>>

(* trigger_options: the sources in the order in which they are tried.  If  *)
(* the camera has none of them, any one it has.                            *)
TriggerOptions ==
  <<"ExposureActive", "ExposureStart", "AcquisitionActive", "FrameStart",
    "AcquisitionStart">>

ChosenTriggers ==
  LET settable == {j \in DOMAIN TriggerOptions :
                     TriggerOptions[j] \in kind.triggers}
  IN  IF settable = {} THEN kind.triggers
      ELSE {TriggerOptions[j] : j \in {k \in settable :
                                        \A l \in settable : k <= l}}

(* Seeded bug: the trigger source is left as it is. *)
SetTrigger_Forgotten ==
  /\ pc = "trigger"
  /\ pc' = "set start"
  /\ UNCHANGED <<modeVars, selectorVars, setVars, runVars, requestVars, i>>

(* The single configuration sets the trigger source here, once for all,    *)
(* before any set is selected or loaded, for the path that happens to be   *)
(* selected.  Unless the camera has one source for all sets, loading a set *)
(* replaces it by what that set has.                                       *)
SetTrigger ==
  /\ pc = "trigger"
  /\ \/ \E t \in ChosenTriggers :
          Edit([active EXCEPT !.trigger[SequencerPathSelector] = t])
     \/ /\ MayBeSkipped("TriggerSource") \/ ChosenTriggers = {}
        /\ UNCHANGED setVars
  /\ pc' = "set start"
  /\ UNCHANGED <<modeVars, selectorVars, runVars, requestVars, i>>

SetStart ==
  /\ pc = "set start"
  /\ SequencerSetStart' \in AfterWrite("SetStart", 0, SequencerSetStart)
  /\ pc' = "select"
  /\ i' = 0
  /\ UNCHANGED <<modeVars, SequencerSetSelector, SequencerPathSelector,
                 setVars, runVars, requestVars>>

-----------------------------------------------------------------------------
(* One set, the i-th. *)

(* Seeded bug: sets are counted from one. *)
SelectSet_FromOne ==
  /\ pc = "select"
  /\ i < CameraSets
  /\ SequencerSetSelector' = i + 1
  /\ pc' = "load"
  /\ UNCHANGED <<modeVars, SequencerSetStart, SequencerPathSelector, setVars,
                 runVars, requestVars, i>>

(* A set the camera does not have can not be selected.  The set is loaded  *)
(* only if it was selected.                                                *)
SelectSet ==
  /\ pc = "select"
  /\ \/ /\ i < CameraSets
        /\ SequencerSetSelector' = i
        /\ pc' = "load"
     \/ /\ MayBeSkipped("SetSelector")
        /\ UNCHANGED SequencerSetSelector
        /\ pc' = "settings"
  /\ UNCHANGED <<modeVars, SequencerSetStart, SequencerPathSelector, setVars,
                 runVars, requestVars, i>>

(* A camera without the commands shows the selected set. *)
LoadSet ==
  /\ pc = "load"
  /\ active' \in IF kind.immediate THEN {sets[SequencerSetSelector]}
                 ELSE AfterWrite("SetLoad", sets[SequencerSetSelector], active)
  /\ pc' = "settings"
  /\ UNCHANGED <<modeVars, selectorVars, sets, runVars, requestVars, i>>

(* Seeded bug: the size and format that were loaded with the set stay. *)
WriteSettings_KeepsFormat ==
  /\ pc = "settings"
  /\ Edit([active EXCEPT !.step = StepOf(i)])
  /\ pc' = IF Dual THEN "signal path" ELSE "next"
  /\ UNCHANGED <<modeVars, selectorVars, runVars, requestVars, i>>

(* Size, format, gain and exposure. *)
WriteSettings ==
  /\ pc = "settings"
  /\ \E f \in AfterWrite("Format", format, active.format),
        g \in AfterWrite("Gain", StepOf(i).gain, active.step.gain),
        e \in AfterWrite("ExposureTime", StepOf(i).exposure,
                        active.step.exposure) :
       Edit([active EXCEPT !.format = f, !.step = [exposure |-> e, gain |-> g]])
  /\ pc' = IF Dual THEN "signal path" ELSE "next"
  /\ UNCHANGED <<modeVars, selectorVars, runVars, requestVars, i>>

(* A trigger source the camera can not be set to is an exception.          *)
SignalTo(p) == IF p = 1 THEN "SoftwareSignal1" ELSE "SoftwareSignal2"

(* Path 0, which the camera checks first: the signal for the other profile *)
(* leads to the first set of that profile.                                 *)
WriteSignalPath ==
  /\ pc = "signal path"
  /\ SignalTo(1 - ProfileOf(i)) \in kind.triggers
  /\ SequencerPathSelector' = 0
  /\ Edit([active EXCEPT
             !.next[0] = FirstSet(1 - ProfileOf(i)),
             !.trigger[0] = SignalTo(1 - ProfileOf(i))])
  /\ pc' = "default path"
  /\ UNCHANGED <<modeVars, SequencerSetStart, SequencerSetSelector, runVars,
                 requestVars, i>>

NextInProfile(s) ==
  IF s = LastSet(ProfileOf(s)) THEN FirstSet(ProfileOf(s)) ELSE s + 1

(* Seeded bug: path 0 is still selected and is overwritten. *)
WriteDefaultPath_Overwrites ==
  /\ pc = "default path"
  /\ Edit([active EXCEPT
             !.next[SequencerPathSelector] = NextInProfile(i),
             !.trigger[SequencerPathSelector] = "ExposureActive"])
  /\ pc' = "save"
  /\ UNCHANGED <<modeVars, selectorVars, runVars, requestVars, i>>

(* Path 1: on with the profile. *)
WriteDefaultPath ==
  /\ pc = "default path"
  /\ "ExposureActive" \in kind.triggers
  /\ SequencerPathSelector' = 1
  /\ Edit([active EXCEPT !.next[1] = NextInProfile(i),
                         !.trigger[1] = "ExposureActive"])
  /\ pc' = "save"
  /\ UNCHANGED <<modeVars, SequencerSetStart, SequencerSetSelector, runVars,
                 requestVars, i>>

(* The single configuration writes the path that happens to be selected. *)
WriteNext ==
  /\ pc = "next"
  /\ \E n \in AfterWrite("SetNext", (i + 1) % SetCount,
                         active.next[SequencerPathSelector]) :
       Edit([active EXCEPT !.next[SequencerPathSelector] = n])
  /\ pc' = "save"
  /\ UNCHANGED <<modeVars, selectorVars, runVars, requestVars, i>>

SaveSet ==
  /\ pc = "save"
  /\ sets' \in AfterWrite("SetSave", [sets EXCEPT ![SequencerSetSelector] = active],
                          sets)
  /\ i' = i + 1
  /\ pc' = IF i' < SetCount THEN "select" ELSE "configuration off"
  /\ UNCHANGED <<modeVars, selectorVars, active, runVars, requestVars>>

-----------------------------------------------------------------------------
ConfigurationOff ==
  /\ pc = "configuration off"
  /\ SequencerConfigurationMode'
       \in AfterWrite("ConfigurationMode", "Off", SequencerConfigurationMode)
  /\ pc' = "mode on"
  /\ UNCHANGED <<SequencerMode, selectorVars, setVars, runVars, requestVars,
                 i>>

ModeOn ==
  /\ pc = "mode on"
  /\ SequencerMode' \in AfterWrite("Mode", "On", SequencerMode)
  /\ pc' = "start"
  /\ UNCHANGED <<SequencerConfigurationMode, selectorVars, setVars, runVars,
                 requestVars, i>>

Start ==
  /\ pc = "start"
  /\ grabbing' = TRUE
  /\ current' = SequencerSetStart
  /\ asked' = {}
  /\ image' = 0
  /\ pc' = "streaming"
  /\ UNCHANGED <<modeVars, selectorVars, setVars, requestVars, i>>

(* The catch clause, wherever the exception came from: nothing is undone. *)
Fails ==
  /\ pc \in Configuring
  /\ pc' = "failed"
  /\ UNCHANGED <<modeVars, selectorVars, setVars, runVars, requestVars, i>>

(* The element is stopped and started: the camera is closed and opened.    *)
(* The properties can be changed in between.                               *)
Reopen(r, f) ==
  /\ pc \notin Configuring
  /\ LoadUserSet(f)
  /\ grabbing' = FALSE
  /\ current' = 0
  /\ asked' = {}
  /\ image' = 0
  /\ request' = r
  /\ format' = f
  /\ pc' = "opened"
  /\ UNCHANGED <<kind, i>>

-----------------------------------------------------------------------------
(* gst_pylon_switch_hdr_profile: what is sent to ask for profile p. *)
SignalFor(p) == IF p = 1 THEN "SoftwareSignal1" ELSE "SoftwareSignal2"

(* External.  After an exposure the camera goes on to the set of the first *)
(* path whose trigger fired; signals is what it received meanwhile.  If    *)
(* none fired, or its sequencer is off, it exposes the same again.         *)
Fires(path, signals) ==
  sets[current].trigger[path] \in EachImage \cup signals

Advance(profiles) ==
  LET signals == {SignalFor(p) : p \in profiles}
  IN  /\ grabbing
      /\ \/ \E path \in kind.paths :
              /\ SequencerMode = "On"
              /\ Fires(path, signals)
              /\ \A earlier \in 0 .. path - 1 : ~Fires(earlier, signals)
              /\ current' = sets[current].next[path]
         \/ /\ SequencerMode = "Off" \/ \A path \in kind.paths : ~Fires(path, signals)
            /\ UNCHANGED current
      /\ asked' = profiles
      /\ image' = 1 - image
      /\ UNCHANGED <<modeVars, selectorVars, setVars, grabbing, requestVars,
                     pc, i>>

Configure ==
  \/ \E f \in Formats : SetCaps(f)
  \/ ModeOff \/ ConfigurationOn \/ SetTrigger \/ SetStart
  \/ SelectSet \/ LoadSet \/ WriteSettings
  \/ WriteSignalPath \/ WriteDefaultPath \/ WriteNext \/ SaveSet
  \/ ConfigurationOff \/ ModeOn \/ Start

Next ==
  \/ Configure
  \/ Fails
  \/ \E r \in Requests, f \in Formats : Reopen(r, f)
  \/ \E profiles \in SUBSET {0, 1} : Advance(profiles)

Spec == Init /\ [][Next]_vars
-----------------------------------------------------------------------------
(* A set that is edited is the selected one, and what is edited is kept.   *)
SetsAreWritten ==
  /\ ~MayBeSkipped("SetSelector")
  /\ kind.immediate \/ ~MayBeSkipped("SetSave")

(* What is always writable is written in set s. *)
Programmed(s) ==
  /\ ~MayBeSkipped("ExposureTime") => sets[s].step.exposure = StepOf(s).exposure
  /\ ~MayBeSkipped("Gain") => sets[s].step.gain = StepOf(s).gain
  /\ ~MayBeSkipped("SetNext") =>
       \E path \in kind.paths : sets[s].next[path] = NextInProfile(s)

(* The hazard of a configuration that stops half way, or goes on without a *)
(* register: the sequencer is never on in configuration mode, and never    *)
(* unless every set of both profiles has the requested value in each       *)
(* register that is always writable.  So a write that was skipped costs    *)
(* the register it was for and nothing else.  The selector, the command to *)
(* save a set and the mode are the exceptions: nothing is claimed of a     *)
(* camera on which one of these is skipped.                                *)
OnlyRunsProgrammed ==
  SequencerMode = "On" /\ ~MayBeSkipped("Mode") =>
    /\ ~MayBeSkipped("ConfigurationMode") => SequencerConfigurationMode = "Off"
    /\ SetsAreWritten => \A s \in AllSets : Programmed(s)

(* Loading a set brings its old size and format back: all sets of the      *)
(* profiles, and the registers a camera exposes with while its sequencer   *)
(* is off, have those of the caps while it streams.                        *)
DeliversCaps ==
  grabbing /\ SetsAreWritten /\ ~MayBeSkipped("Format") =>
    /\ active.format = format
    /\ \A s \in AllSets : sets[s].format = format

(* The cameras on which a request is carried out or fails: nothing that    *)
(* matters to the order of the exposures is skipped.  The dual             *)
(* configuration gives every set its own trigger sources.  The single one  *)
(* relies on a source that comes with every image: that is the one it      *)
(* sets, if there is one for all sets; otherwise the sets must have such a *)
(* source from the user set, because loading a set undoes the write.       *)
CanCycle ==
  /\ SetsAreWritten
  /\ \A r \in {"Mode", "ExposureTime", "Gain", "SetNext"} : ~MayBeSkipped(r)
  /\ kind.start = 0 \/ ~MayBeSkipped("SetStart")
  /\ IF Dual THEN ~kind.shared
     ELSE /\ ChosenTriggers \subseteq EachImage
          /\ \/ kind.trigger \in EachImage
             \/ /\ kind.shared
                /\ ChosenTriggers # {}
                /\ ~MayBeSkipped("TriggerSource")

(* Whatever was programmed before, whatever failed, and whenever a signal  *)
(* comes: a streaming camera that can cycle does cycle through the steps   *)
(* of the profiles, one with each image.                                   *)
Cycling == grabbing /\ CanCycle

Cycle == INSTANCE ExposureCycle WITH
  Sequences <- Requests,
  NoStep <- FactoryStep,
  sequences <- request,
  streaming <- Cycling,
  profile <- IF Cycling THEN ProfileOf(current) ELSE 0,
  index <- IF Cycling THEN current - FirstSet(ProfileOf(current)) ELSE 0,
  exposing <- IF ~Cycling THEN FactoryStep
              ELSE IF SequencerMode = "On" THEN sets[current].step
              ELSE active.step,
  asked <- IF Cycling THEN asked ELSE {},
  image <- IF Cycling THEN image ELSE 0

ImplementsCycle == Cycle!Spec
=============================================================================
