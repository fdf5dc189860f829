-------------------------- MODULE HdrSequencerProofs --------------------------
(***************************************************************************)
(* Proofs about HdrSequencer, for any sequences, formats, limit and number *)
(* of sets the camera has, and about HdrSwitch, for any number of requests *)
(* and both builds.                                                        *)
(***************************************************************************)
EXTENDS HdrSequencer, HdrSwitch, TLAPS

-----------------------------------------------------------------------------
(* What a set, or the registers it is saved from, is once it is programmed, *)
(* which is more than Programmed says. What may be skipped is left out.     *)

Sure(register) == ~MayBeSkipped(register)

StepWritten(registers, s) ==
  /\ Sure("ExposureTime") => registers.step.exposure = StepOf(s).exposure
  /\ Sure("Gain") => registers.step.gain = StepOf(s).gain

FormatWritten(registers) == Sure("Format") => registers.format = format

SignalPathWritten(registers, s) ==
  /\ registers.next[0] = FirstSet(1 - ProfileOf(s))
  /\ ~kind.shared => registers.trigger[0] = SignalTo(1 - ProfileOf(s))

PathsWritten(registers, s) ==
  IF Dual
  THEN /\ SignalPathWritten(registers, s)
       /\ registers.next[1] = NextInProfile(s)
       /\ ~kind.shared => registers.trigger[1] = "ExposureActive"
  ELSE Sure("SetNext") => registers.next[0] = NextInProfile(s)

Wired(registers, s) == StepWritten(registers, s) /\ PathsWritten(registers, s)

SetWired(s) == s \in SetNumbers /\ Wired(sets[s], s)
SetFormatted(s) == FormatWritten(sets[s])
AllWired == \A s \in AllSets : SetWired(s)
AllFormatted == \A s \in AllSets : SetFormatted(s)

(* How far the registers of the set are that is being edited.               *)
SettingsDone == StepWritten(active, i) /\ FormatWritten(active)
SignalPathDone == SignalPathWritten(active, i)
PathsDone == PathsWritten(active, i)

Selected == {"load", "settings", "signal path", "default path", "next", "save"}
Looping == Selected \cup {"select"}
Finished == {"configuration off", "mode on", "start", "streaming"}

(* Which steps the sequencer may be on in, or in configuration mode.        *)
ModeInv ==
  /\ Dual /\ pc \in Looping \cup Finished \cup {"set start"} => kind.paths = {0, 1}
  /\ grabbing => pc = "streaming"
  /\ Sure("ConfigurationMode") /\ pc \in {"opened", "mode off", "mode on", "start", "streaming"}
       => SequencerConfigurationMode = "Off"
  /\ Sure("Mode") /\ SequencerMode = "On" =>
       /\ pc \in {"mode off", "start", "streaming", "failed"}
       /\ Sure("ConfigurationMode") => SequencerConfigurationMode = "Off"
       /\ SetsAreWritten => AllWired
       /\ Dual => kind.paths = {0, 1}
  /\ Sure("Mode") /\ pc \in {"start", "streaming"} => SequencerMode = "On"

(* The selectors. A camera that needs no saving has what is being edited in *)
(* the selected set; the single configuration never leaves the first path.  *)
SelectorInv ==
  /\ SequencerSetStart \in {0, kind.start}
  /\ Sure("SetStart") /\ pc \in Looping \cup Finished => SequencerSetStart = 0
  /\ kind.immediate /\ pc \notin {"load", "failed"} => active = sets[SequencerSetSelector]
  /\ ~Dual => SequencerPathSelector = 0

(* On which cameras, and from when on, the single configuration can rely on *)
(* a trigger source that comes with every image.                            *)
SourceSet ==
  /\ ~Dual
  /\ ChosenTriggers \subseteq EachImage
  /\ \/ kind.trigger \in EachImage
     \/ /\ kind.shared /\ ChosenTriggers # {} /\ Sure("TriggerSource")
        /\ pc \in Looping \cup Finished \cup {"set start"}
EachImageFires(registers) == registers.trigger[0] \in EachImage
TriggerInv ==
  /\ pc = "trigger" => ~Dual
  /\ SourceSet => /\ EachImageFires(active)
                  /\ \A s \in SetNumbers : EachImageFires(sets[s])

(* How far the loop is.                                                     *)
LoopInv ==
  /\ pc \in Looping => i \in AllSets
  /\ SetsAreWritten /\ pc \in Looping =>
       \A s \in 0 .. i - 1 : SetWired(s) /\ SetFormatted(s)
  /\ Sure("SetSelector") /\ pc \in Selected => i \in SetNumbers /\ SequencerSetSelector = i
  /\ pc \in {"signal path", "default path"} => Dual
  /\ pc = "next" => ~Dual
  /\ pc \in {"signal path", "default path", "next", "save"} => SettingsDone
  /\ pc = "default path" => SignalPathDone
  /\ pc = "save" => PathsDone
  /\ pc \in Finished =>
       /\ FormatWritten(active)
       /\ SetsAreWritten => AllWired /\ AllFormatted

(* The camera is in a set of the sequences.                                 *)
RunInv == Cycling => current \in AllSets

ControlInv == ModeInv /\ SelectorInv /\ TriggerInv /\ LoopInv /\ RunInv

IInv == TypeOK /\ ControlInv

-----------------------------------------------------------------------------
(* Arithmetic of the allocation of the sets.                                *)

LEMMA Successor ==
  ASSUME NEW n \in Nat \ {0}, NEW s \in 0 .. n - 1
  PROVE  (s + 1) % n = IF s = n - 1 THEN 0 ELSE s + 1
<1>1. CASE s = n - 1
  BY <1>1, SMT
<1>2. CASE s # n - 1
  BY <1>2, SMT
<1> QED
  BY <1>1, <1>2

LEMMA Sum == ASSUME NEW m \in Nat \ {0}, NEW n \in Nat PROVE m + n \in Nat \ {0}
OBVIOUS

LEMMA Lengths ==
  ASSUME request \in Requests
  PROVE  /\ request[0] \in Seq(Steps) /\ request[1] \in Seq(Steps)
         /\ Len(request[0]) \in Nat \ {0} /\ Len(request[1]) \in Nat
         /\ Dual <=> Len(request[1]) > 0
         /\ SetCount \in Nat \ {0}
<1>1. /\ request[0] \in Seq(Steps) /\ request[1] \in Seq(Steps)
      /\ request[0] # <<>>
  BY RequestsAssumption
<1> HIDE DEF Steps
<1>2. Len(request[0]) \in Nat \ {0} /\ Len(request[1]) \in Nat
  BY <1>1
<1>3. Dual <=> Len(request[1]) > 0
  BY <1>1 DEF Dual
<1>4. SetCount \in Nat \ {0}
  BY <1>2, Sum, Zenon DEF SetCount
<1>5. QED
  BY <1>1, <1>2, <1>3, <1>4

(* The m sets of profile 0 and the n of profile 1 lead in a circle each.    *)
LEMMA First ==
  ASSUME NEW m \in Nat \ {0}, NEW n \in Nat, NEW s \in 0 .. m - 1, NEW t,
         t = IF s = 0 + m - 1 THEN 0 ELSE s + 1
  PROVE  /\ t \in 0 .. (m + n) - 1 /\ t < m
         /\ 0 \in 0 .. s /\ s - 0 + 1 \in 1 .. m
         /\ t - 0 = (s - 0 + 1) % m
         /\ n = 0 => t = (s + 1) % (m + n)
<1>1. (s + 1) % m = IF s = m - 1 THEN 0 ELSE s + 1
  BY Successor
<1>2. t \in 0 .. m - 1 /\ t = (s + 1) % m /\ s - 0 + 1 = s + 1
  BY <1>1
<1>3. n = 0 => m + n = m
  OBVIOUS
<1>4. t \in 0 .. (m + n) - 1 /\ t < m /\ s + 1 \in 1 .. m /\ 0 \in 0 .. s
  BY <1>2
<1> QED
  BY <1>2, <1>3, <1>4

LEMMA Second ==
  ASSUME NEW m \in Nat \ {0}, NEW n \in Nat, NEW s \in m .. (m + n) - 1, NEW t,
         t = IF s = m + n - 1 THEN m ELSE s + 1
  PROVE  /\ n > 0
         /\ t \in 0 .. (m + n) - 1 /\ ~(t < m)
         /\ m \in 0 .. s /\ s - m + 1 \in 1 .. n
         /\ t - m = (s - m + 1) % n
<1>1. s - m \in 0 .. n - 1 /\ n \in Nat \ {0}
  OBVIOUS
<1>2. (s - m + 1) % n = IF s - m = n - 1 THEN 0 ELSE s - m + 1
  BY <1>1, Successor
<1> QED
  BY <1>1, <1>2

LEMMA Allocation ==
  ASSUME request \in Requests, NEW s \in AllSets
  PROVE  /\ ProfileOf(s) \in {0, 1}
         /\ ProfileOf(s) = 1 => Dual
         /\ FirstSet(ProfileOf(s)) \in 0 .. s
         /\ s - FirstSet(ProfileOf(s)) + 1 \in 1 .. Len(request[ProfileOf(s)])
         /\ NextInProfile(s) \in AllSets
         /\ ProfileOf(NextInProfile(s)) = ProfileOf(s)
         /\ NextInProfile(s) - FirstSet(ProfileOf(s))
              = (s - FirstSet(ProfileOf(s)) + 1) % Len(request[ProfileOf(s)])
         /\ ~Dual => NextInProfile(s) = (s + 1) % SetCount
<1> DEFINE m == Len(request[0])
           n == Len(request[1])
           t == NextInProfile(s)
<1>1. m \in Nat \ {0} /\ n \in Nat /\ (Dual <=> n > 0)
  BY Lengths
<1>2. s \in 0 .. (m + n) - 1 /\ SetCount = m + n
  BY DEF AllSets, SetCount
<1>3. CASE s < m
  <2>1. ProfileOf(s) = 0
    BY <1>3 DEF ProfileOf
  <2>2. FirstSet(0) = 0 /\ LastSet(0) = 0 + m - 1
    BY DEF FirstSet, LastSet
  <2>3. t = IF s = 0 + m - 1 THEN 0 ELSE s + 1
    BY <2>1, <2>2 DEF NextInProfile
  <2>4. s \in 0 .. m - 1
    <3> HIDE DEF m, n
    <3> QED
      BY <1>1, <1>2, <1>3
  <2> HIDE DEF m, n, t
  <2>5. /\ t \in 0 .. (m + n) - 1 /\ t < m
        /\ 0 \in 0 .. s /\ s - 0 + 1 \in 1 .. m
        /\ t - 0 = (s - 0 + 1) % m
        /\ n = 0 => t = (s + 1) % (m + n)
    BY <1>1, <2>3, <2>4, First
  <2>6. ProfileOf(t) = 0
    BY <2>5 DEF ProfileOf, m
  <2>7. t \in AllSets
    BY <1>2, <2>5 DEF AllSets
  <2>8. ~Dual => t = (s + 1) % SetCount
    <3>1. ~Dual => n = 0
      BY <1>1
    <3> QED
      BY <1>2, <2>5, <3>1
  <2>9. Len(request[ProfileOf(s)]) = m
    BY <2>1 DEF m
  <2> QED
    BY <2>1, <2>2, <2>5, <2>6, <2>7, <2>8, <2>9 DEF t
<1>4. CASE ~(s < m)
  <2>1. ProfileOf(s) = 1
    BY <1>4 DEF ProfileOf
  <2>2. FirstSet(1) = m /\ LastSet(1) = m + n - 1
    BY DEF FirstSet, LastSet
  <2>3. t = IF s = m + n - 1 THEN m ELSE s + 1
    BY <2>1, <2>2 DEF NextInProfile
  <2>4. s \in m .. (m + n) - 1
    <3> HIDE DEF m, n
    <3> QED
      BY <1>1, <1>2, <1>4
  <2> HIDE DEF m, n, t
  <2>5. /\ n > 0
        /\ t \in 0 .. (m + n) - 1 /\ ~(t < m)
        /\ m \in 0 .. s /\ s - m + 1 \in 1 .. n
        /\ t - m = (s - m + 1) % n
    BY <1>1, <2>3, <2>4, Second
  <2>6. ProfileOf(t) = 1
    BY <2>5 DEF ProfileOf, m
  <2>7. t \in AllSets
    BY <1>2, <2>5 DEF AllSets
  <2>9. Len(request[ProfileOf(s)]) = n
    BY <2>1 DEF n
  <2> QED
    BY <1>1, <2>1, <2>2, <2>5, <2>6, <2>7, <2>9 DEF t
<1> QED
  BY <1>3, <1>4

LEMMA StepsAreAsked ==
  ASSUME request \in Requests, NEW s \in AllSets PROVE StepOf(s) \in Steps
<1>1. /\ ProfileOf(s) \in {0, 1}
      /\ s - FirstSet(ProfileOf(s)) + 1 \in 1 .. Len(request[ProfileOf(s)])
  BY Allocation
<1>2. request[ProfileOf(s)] \in Seq(Steps)
  BY <1>1, Lengths
<1> HIDE DEF Steps
<1> QED
  BY <1>1, <1>2 DEF StepOf

(* The signal leads to the first set of the other profile.                  *)
LEMMA OtherFirst ==
  ASSUME NEW m \in Nat \ {0}, NEW n \in Nat \ {0}
  PROVE  m \in 0 .. (m + n) - 1 /\ 0 \in 0 .. (m + n) - 1 /\ ~(m < m) /\ 0 < m
OBVIOUS

LEMMA OtherProfile ==
  ASSUME request \in Requests, Dual, NEW s \in AllSets
  PROVE  /\ FirstSet(1 - ProfileOf(s)) \in AllSets
         /\ ProfileOf(FirstSet(1 - ProfileOf(s))) = 1 - ProfileOf(s)
<1>1. Len(request[0]) \in Nat \ {0} /\ Len(request[1]) \in Nat \ {0}
  BY Lengths
<1>2. /\ Len(request[0]) \in AllSets /\ 0 \in AllSets
      /\ ProfileOf(Len(request[0])) = 1 /\ ProfileOf(0) = 0
  BY <1>1, OtherFirst, Zenon DEF AllSets, SetCount, ProfileOf
<1>3. ProfileOf(s) = 0 \/ ProfileOf(s) = 1
  BY Allocation
<1>4. FirstSet(1 - 0) = Len(request[0]) /\ FirstSet(1 - 1) = 0 /\ 1 - 0 = 1 /\ 1 - 1 = 0
  BY DEF FirstSet
<1> QED
  BY <1>2, <1>3, <1>4

-----------------------------------------------------------------------------
(* Types.                                                                   *)

CameraOK ==
  /\ SequencerMode \in {"Off", "On"}
  /\ SequencerConfigurationMode \in {"Off", "On"}
  /\ SequencerSetStart \in SetNumbers
  /\ SequencerSetSelector \in SetNumbers
  /\ SequencerPathSelector \in {0, 1}
RegistersOK == active \in Set /\ sets \in [SetNumbers -> Set]
RunOK ==
  /\ grabbing \in BOOLEAN /\ current \in SetNumbers /\ asked \subseteq {0, 1}
  /\ image \in {0, 1}
ElementOK ==
  /\ kind \in Cameras
  /\ request \in Requests
  /\ format \in Formats
  /\ pc \in Configuring \cup {"opened", "streaming", "failed"}
  /\ i \in Nat

LEMMA TypeOKParts == TypeOK <=> CameraOK /\ RegistersOK /\ RunOK /\ ElementOK
BY DEF TypeOK, CameraOK, RegistersOK, RunOK, ElementOK

LEMMA KindTyped ==
  ASSUME kind \in Cameras
  PROVE  /\ kind.immediate \in BOOLEAN /\ kind.shared \in BOOLEAN
         /\ kind.paths \in {{0}, {0, 1}}
         /\ kind.triggers \subseteq Triggers /\ kind.trigger \in Triggers
         /\ kind.start \in SetNumbers
BY CamerasAssumption DEF Kind

LEMMA ChosenTyped == ASSUME kind \in Cameras PROVE ChosenTriggers \subseteq kind.triggers
BY DEF ChosenTriggers

(* What a register is after a write: always the value if it is sure.        *)
LEMMA Written ==
  ASSUME NEW register, NEW value, NEW old, NEW new \in AfterWrite(register, value, old)
  PROVE  /\ new = value \/ new = old
         /\ Sure(register) => new = value
BY DEF AfterWrite, Sure

(* What an edit may ask for; the camera refuses a set it does not have.     *)
Editable == [step: Steps, format: Formats, next: [{0, 1} -> Int],
             trigger: [{0, 1} -> Triggers]]

LEMMA SetsAreNumbers == SetNumbers \subseteq Int /\ 0 \in SetNumbers
BY SetsAssumption DEF SetNumbers

LEMMA SetIsEditable == Set \subseteq Editable
BY SetsAreNumbers DEF Set, Editable

(* An edit reaches the selected set of a camera that needs no saving, and   *)
(* the trigger source of all sets of one that has one for all.              *)
LEMMA EditWrites ==
  ASSUME RegistersOK, SequencerSetSelector \in SetNumbers, NEW r, Edit(r)
  PROVE  /\ active' = r
         /\ kind.immediate => sets'[SequencerSetSelector] = r
         /\ \A s \in SetNumbers :
              ~(kind.immediate /\ s = SequencerSetSelector) =>
                sets'[s] = IF kind.shared THEN [sets[s] EXCEPT !.trigger = r.trigger]
                           ELSE sets[s]
BY DEF Edit, RegistersOK

LEMMA EditTyped ==
  ASSUME RegistersOK, SequencerSetSelector \in SetNumbers, NEW r \in Editable, Edit(r)
  PROVE  RegistersOK'
<1>1. \A path \in {0, 1} : r.next[path] \in SetNumbers
  BY DEF Edit
<1>2. r \in Set
  BY <1>1 DEF Editable, Set
<1>3. active' = r
  BY DEF Edit
<1>4. sets' = [s \in SetNumbers |->
                IF kind.immediate /\ s = SequencerSetSelector THEN r
                ELSE IF kind.shared THEN [sets[s] EXCEPT !.trigger = r.trigger]
                     ELSE sets[s]]
  BY DEF Edit
<1>5. ASSUME NEW s \in SetNumbers
      PROVE  sets[s] \in Set /\ [sets[s] EXCEPT !.trigger = r.trigger] \in Set
  <2>1. sets[s] \in Set
    BY <1>5 DEF RegistersOK
  <2> QED
    BY <1>2, <2>1 DEF Set
<1> QED
  BY <1>2, <1>3, <1>4, <1>5 DEF RegistersOK

LEMMA EditStep ==
  ASSUME NEW r \in Editable, NEW s \in Steps, NEW f \in Formats
  PROVE  /\ [r EXCEPT !.format = f] \in Editable
         /\ [r EXCEPT !.format = f, !.step = s] \in Editable
<1> HIDE DEF Steps
<1> QED
  BY DEF Editable

LEMMA EditTrigger ==
  ASSUME NEW r \in Editable, NEW p \in {0, 1}, NEW t \in Triggers
  PROVE  [r EXCEPT !.trigger[p] = t] \in Editable
BY DEF Editable

LEMMA EditPath ==
  ASSUME NEW r \in Editable, NEW p \in {0, 1}, NEW n \in Int, NEW t \in Triggers
  PROVE  /\ [r EXCEPT !.next[p] = n] \in Editable
         /\ [r EXCEPT !.next[p] = n, !.trigger[p] = t] \in Editable
BY DEF Editable

LEMMA FactoryTyped == ASSUME kind \in Cameras, NEW f \in Formats PROVE Factory(f) \in Set
BY SetsAreNumbers, KindTyped, FactoryStepAssumption DEF Factory, Set

LEMMA InitTyped == Init => TypeOK
<1> SUFFICES ASSUME Init PROVE TypeOK
  OBVIOUS
<1>1. RegistersOK
  BY FactoryTyped DEF Init, RegistersOK
<1>2. CameraOK /\ RunOK
  BY SetsAreNumbers, KindTyped DEF Init, CameraOK, RunOK
<1>3. ElementOK
  BY DEF Init, ElementOK
<1> QED
  BY <1>1, <1>2, <1>3, TypeOKParts

LEMMA CameraTyped == TypeOK /\ [Next]_vars => CameraOK'
<1> SUFFICES ASSUME TypeOK, [Next]_vars PROVE CameraOK'
  OBVIOUS
<1>1. CameraOK /\ i \in Nat /\ kind.start \in SetNumbers
  BY KindTyped DEF TypeOK, CameraOK
<1>2. i < CameraSets => i \in SetNumbers
  BY <1>1, SetsAssumption DEF SetNumbers
<1>3. SetNumbers' = SetNumbers
  BY DEF SetNumbers
<1> USE DEF CameraOK, modeVars, selectorVars
<1>4. CASE ModeOff \/ ConfigurationOn \/ SetStart \/ ConfigurationOff \/ ModeOn
  BY <1>1, <1>3, <1>4, SetsAreNumbers
     DEF ModeOff, ConfigurationOn, SetStart, ConfigurationOff, ModeOn, AfterWrite
<1>5. CASE SelectSet
  BY <1>1, <1>2, <1>3, <1>5 DEF SelectSet
<1>6. CASE \/ SetTrigger \/ LoadSet \/ WriteSettings \/ WriteSignalPath \/ WriteDefaultPath
           \/ WriteNext \/ SaveSet \/ Start \/ Fails
  BY <1>1, <1>3, <1>6
     DEF SetTrigger, LoadSet, WriteSettings, WriteSignalPath, WriteDefaultPath, WriteNext,
         SaveSet, Start, Fails
<1>7. ASSUME NEW f, SetCaps(f) PROVE CameraOK'
  BY <1>1, <1>3, <1>7 DEF SetCaps
<1>8. ASSUME NEW r, NEW f, Reopen(r, f) PROVE CameraOK'
  BY <1>1, <1>3, <1>8, SetsAreNumbers DEF Reopen, LoadUserSet
<1>9. ASSUME NEW profiles, Advance(profiles) PROVE CameraOK'
  BY <1>1, <1>3, <1>9 DEF Advance
<1>10. CASE UNCHANGED vars
  BY <1>1, <1>3, <1>10 DEF vars
<1> QED
  BY <1>4, <1>5, <1>6, <1>7, <1>8, <1>9, <1>10 DEF Next, Configure

LEMMA RegistersTyped == TypeOK /\ LoopInv /\ [Next]_vars => RegistersOK'
<1> SUFFICES ASSUME TypeOK, LoopInv, [Next]_vars PROVE RegistersOK'
  OBVIOUS
<1>1. /\ RegistersOK /\ SequencerSetSelector \in SetNumbers /\ SequencerPathSelector \in {0, 1}
      /\ format \in Formats /\ kind \in Cameras /\ request \in Requests
  BY DEF TypeOK, RegistersOK
<1>2. active \in Editable
  BY <1>1, SetIsEditable DEF RegistersOK
<1>3. "ExposureActive" \in Triggers /\ "SoftwareSignal1" \in Triggers
      /\ "SoftwareSignal2" \in Triggers
  BY TriggersAssumption
<1>4. ASSUME NEW f \in Formats, SetCaps(f) PROVE RegistersOK'
  <2>1. Edit([active EXCEPT !.format = f])
    BY <1>4 DEF SetCaps
  <2>2. active.step \in Steps
    BY <1>1 DEF RegistersOK, Set
  <2> QED
    BY <1>1, <1>2, <2>1, <2>2, EditStep, EditTyped
<1>5. CASE SetTrigger
  <2>1. CASE UNCHANGED setVars
    BY <1>1, <2>1 DEF RegistersOK, setVars, SetNumbers, Set
  <2>2. ASSUME NEW t \in ChosenTriggers,
               Edit([active EXCEPT !.trigger[SequencerPathSelector] = t])
        PROVE  RegistersOK'
    <3>1. t \in Triggers
      BY <1>1, <2>2, ChosenTyped, KindTyped
    <3>2. [active EXCEPT !.trigger[SequencerPathSelector] = t] \in Editable
      BY <1>1, <1>2, <3>1, EditTrigger
    <3> QED
      BY <1>1, <2>2, <3>2, EditTyped
  <2> QED
    BY <1>5, <2>1, <2>2 DEF SetTrigger
<1>6. CASE LoadSet
  <2>1. active' \in Set /\ sets' = sets
    BY <1>1, <1>6 DEF LoadSet, RegistersOK, AfterWrite
  <2> QED
    BY <1>1, <2>1 DEF RegistersOK
<1>7. CASE WriteSettings
  <2>1. StepOf(i) \in Steps
    BY <1>1, <1>7, StepsAreAsked DEF WriteSettings, LoopInv, Looping, Selected
  <2>2. PICK f \in AfterWrite("Format", format, active.format),
             g \in AfterWrite("Gain", StepOf(i).gain, active.step.gain),
             e \in AfterWrite("ExposureTime", StepOf(i).exposure, active.step.exposure) :
               Edit([active EXCEPT !.format = f, !.step = [exposure |-> e, gain |-> g]])
    BY <1>7 DEF WriteSettings
  <2>3. active.format \in Formats /\ active.step \in Steps
    BY <1>1 DEF RegistersOK, Set
  <2>4. f \in Formats
    BY <1>1, <2>3, Written
  <2>5. g \in Gains /\ e \in Exposures
    <3>1. /\ StepOf(i).gain \in Gains /\ active.step.gain \in Gains
          /\ StepOf(i).exposure \in Exposures /\ active.step.exposure \in Exposures
      BY <2>1, <2>3 DEF Steps
    <3> QED
      BY <3>1, Written
  <2>6. [exposure |-> e, gain |-> g] \in Steps
    BY <2>5 DEF Steps
  <2>7. [active EXCEPT !.format = f, !.step = [exposure |-> e, gain |-> g]] \in Editable
    BY <1>2, <2>4, <2>6, EditStep
  <2> QED
    BY <1>1, <2>2, <2>7, EditTyped
<1>8. CASE WriteSignalPath
  <2> DEFINE n == FirstSet(1 - ProfileOf(i))
             t == SignalTo(1 - ProfileOf(i))
  <2>1. n \in Int
    <3>1. i \in AllSets /\ Dual
      BY <1>8 DEF WriteSignalPath, Looping, Selected, LoopInv
    <3>2. n \in AllSets
      BY <1>1, <3>1, OtherProfile
    <3> QED
      BY <3>2 DEF AllSets
  <2>2. t \in Triggers
    BY <1>3 DEF SignalTo
  <2>3. Edit([active EXCEPT !.next[0] = n, !.trigger[0] = t])
    BY <1>8 DEF WriteSignalPath
  <2> HIDE DEF n, t
  <2>4. [active EXCEPT !.next[0] = n, !.trigger[0] = t] \in Editable
    BY <1>2, <2>1, <2>2, EditPath
  <2> QED
    BY <1>1, <2>3, <2>4, EditTyped
<1>9. CASE WriteDefaultPath
  <2>1. NextInProfile(i) \in Int
    <3>1. NextInProfile(i) \in AllSets
      BY <1>1, <1>9, Allocation DEF WriteDefaultPath, LoopInv, Looping, Selected
    <3> QED
      BY <3>1 DEF AllSets
  <2>2. Edit([active EXCEPT !.next[1] = NextInProfile(i), !.trigger[1] = "ExposureActive"])
    BY <1>9 DEF WriteDefaultPath
  <2>3. [active EXCEPT !.next[1] = NextInProfile(i), !.trigger[1] = "ExposureActive"] \in Editable
    BY <1>2, <1>3, <2>1, EditPath
  <2> QED
    BY <1>1, <2>2, <2>3, EditTyped
<1>10. CASE WriteNext
  <2>1. PICK n \in AfterWrite("SetNext", (i + 1) % SetCount,
                              active.next[SequencerPathSelector]) :
          Edit([active EXCEPT !.next[SequencerPathSelector] = n])
    BY <1>10 DEF WriteNext
  <2>2. (i + 1) % SetCount \in Int
    <3>1. i \in AllSets /\ ~Dual
      BY <1>10 DEF WriteNext, Looping, Selected, LoopInv
    <3>2. NextInProfile(i) \in AllSets /\ NextInProfile(i) = (i + 1) % SetCount
      BY <1>1, <3>1, Allocation
    <3> QED
      BY <3>2 DEF AllSets
  <2>3. active.next[SequencerPathSelector] \in Int
    BY <1>1, <1>2 DEF Editable
  <2>4. n \in Int
    BY <2>2, <2>3, Written
  <2>5. [active EXCEPT !.next[SequencerPathSelector] = n] \in Editable
    BY <1>1, <1>2, <1>3, <2>4, EditPath
  <2> QED
    BY <1>1, <2>1, <2>5, EditTyped
<1>11. CASE SaveSet
  <2>1. active' = active /\ \/ sets' = [sets EXCEPT ![SequencerSetSelector] = active]
                            \/ sets' = sets
    BY <1>11, Written DEF SaveSet
  <2> QED
    BY <1>1, <2>1 DEF RegistersOK
<1>12. ASSUME NEW r \in Requests, NEW f \in Formats, Reopen(r, f) PROVE RegistersOK'
  <2>1. Factory(f) \in Set
    BY <1>1, FactoryTyped
  <2> QED
    BY <1>12, <2>1 DEF Reopen, LoadUserSet, RegistersOK
<1>13. CASE UNCHANGED setVars
  BY <1>1, <1>13 DEF RegistersOK, setVars
<1>14. ModeOff \/ ConfigurationOn \/ SetStart \/ SelectSet \/ ConfigurationOff \/ ModeOn \/ Start
       \/ Fails \/ (\E profiles \in SUBSET {0, 1} : Advance(profiles)) \/ UNCHANGED vars
       => UNCHANGED setVars
  BY DEF ModeOff, ConfigurationOn, SetStart, SelectSet, ConfigurationOff, ModeOn, Start, Fails,
         Advance, vars
<1> QED
  BY <1>4, <1>5, <1>6, <1>7, <1>8, <1>9, <1>10, <1>11, <1>12, <1>13, <1>14 DEF Next, Configure

LEMMA RunTyped == TypeOK /\ [Next]_vars => RunOK'
<1> SUFFICES ASSUME TypeOK, [Next]_vars PROVE RunOK'
  OBVIOUS
<1>1. RunOK /\ SequencerSetStart \in SetNumbers
  BY DEF TypeOK, RunOK
<1>2. SetNumbers' = SetNumbers
  BY DEF SetNumbers
<1> USE DEF RunOK, runVars
<1>3. CASE Configure
  BY <1>1, <1>2, <1>3, SetsAreNumbers
     DEF Configure, SetCaps, ModeOff, ConfigurationOn, SetTrigger, SetStart, SelectSet, LoadSet,
         WriteSettings, WriteSignalPath, WriteDefaultPath, WriteNext, SaveSet,
         ConfigurationOff, ModeOn, Start
<1>4. CASE Fails
  BY <1>1, <1>2, <1>4 DEF Fails
<1>5. ASSUME NEW r, NEW f, Reopen(r, f) PROVE RunOK'
  BY <1>1, <1>2, <1>5, SetsAreNumbers DEF Reopen
<1>6. ASSUME NEW profiles \in SUBSET {0, 1}, Advance(profiles) PROVE RunOK'
  <2>1. grabbing' = grabbing /\ asked' = profiles /\ image' = 1 - image
    BY <1>6 DEF Advance
  <2>2. current' \in SetNumbers
    <3>1. CASE current' = current
      BY <1>1, <3>1
    <3>2. ASSUME NEW path \in kind.paths, current' = sets[current].next[path]
          PROVE  current' \in SetNumbers
      <4>1. path \in {0, 1}
        BY <3>2, KindTyped DEF TypeOK
      <4>2. sets[current] \in Set
        BY DEF TypeOK
      <4> QED
        BY <3>2, <4>1, <4>2 DEF Set
    <3> QED
      BY <1>6, <3>1, <3>2 DEF Advance
  <2> QED
    BY <1>1, <1>2, <2>1, <2>2
<1>7. CASE UNCHANGED vars
  BY <1>1, <1>2, <1>7 DEF vars
<1> QED
  BY <1>3, <1>4, <1>5, <1>6, <1>7 DEF Next

LEMMA ElementTyped == TypeOK /\ [Next]_vars => ElementOK'
<1> SUFFICES ASSUME TypeOK, [Next]_vars PROVE ElementOK'
  OBVIOUS
<1>1. ElementOK
  BY DEF TypeOK, ElementOK
<1> USE DEF ElementOK, requestVars, Configuring
<1>2. ASSUME NEW f \in Formats, SetCaps(f) PROVE ElementOK'
  BY <1>1, <1>2 DEF SetCaps
<1>3. CASE ModeOff \/ ConfigurationOn \/ SetTrigger \/ SelectSet \/ LoadSet \/ WriteSettings
           \/ WriteSignalPath \/ WriteDefaultPath \/ WriteNext \/ ConfigurationOff \/ ModeOn
           \/ Start \/ Fails
  <2>1. UNCHANGED <<kind, request, format, i>>
    BY <1>3 DEF ModeOff, ConfigurationOn, SetTrigger, SelectSet, LoadSet, WriteSettings,
         WriteSignalPath, WriteDefaultPath, WriteNext, ConfigurationOff, ModeOn, Start, Fails
  <2>2. pc' \in Configuring \cup {"opened", "streaming", "failed"}
    <3>1. CASE ConfigurationOn
      <4>1. kind.paths \in {{0}, {0, 1}}
        BY <1>1, KindTyped
      <4> QED
        BY <3>1, <4>1 DEF ConfigurationOn
    <3>2. CASE ~ConfigurationOn
      BY <1>3, <3>2 DEF ModeOff, SetTrigger, SelectSet, LoadSet, WriteSettings,
         WriteSignalPath, WriteDefaultPath, WriteNext, ConfigurationOff, ModeOn, Start, Fails
    <3> QED
      BY <3>1, <3>2
  <2> QED
    BY <1>1, <2>1, <2>2
<1>4. CASE SetStart
  BY <1>1, <1>4 DEF SetStart
<1>5. CASE SaveSet
  <2>1. i' = i + 1 /\ UNCHANGED <<kind, request, format>>
    BY <1>5 DEF SaveSet
  <2>2. i' \in Nat
    <3>1. i' = i + 1
      BY <2>1, Zenon
    <3>2. i \in Nat
      BY <1>1
    <3> QED
      BY <3>1, <3>2
  <2>3. pc' \in Configuring
    BY <1>5 DEF SaveSet
  <2> QED
    BY <1>1, <2>1, <2>2, <2>3
<1>6. ASSUME NEW r \in Requests, NEW f \in Formats, Reopen(r, f) PROVE ElementOK'
  BY <1>1, <1>6 DEF Reopen
<1>7. ASSUME NEW profiles \in SUBSET {0, 1}, Advance(profiles) PROVE ElementOK'
  BY <1>1, <1>7 DEF Advance
<1>8. CASE UNCHANGED vars
  BY <1>1, <1>8 DEF vars
<1> QED
  BY <1>2, <1>3, <1>4, <1>5, <1>6, <1>7, <1>8 DEF Next, Configure

LEMMA TypesKept == TypeOK /\ LoopInv /\ [Next]_vars => TypeOK'
<1> SUFFICES ASSUME TypeOK, LoopInv, [Next]_vars PROVE TypeOK'
  OBVIOUS
<1>1. (CameraOK /\ RegistersOK /\ RunOK /\ ElementOK)'
  BY CameraTyped, RegistersTyped, RunTyped, ElementTyped
<1> QED
  BY <1>1, TypeOKParts DEF TypeOK, CameraOK, RegistersOK, RunOK, ElementOK

-----------------------------------------------------------------------------
(* What the conjuncts of the invariant depend on.                           *)

LEMMA SameCamera ==
  ASSUME UNCHANGED <<kind, request>>
  PROVE  /\ Dual' <=> Dual
         /\ SetCount' = SetCount
         /\ AllSets' = AllSets
         /\ SetNumbers' = SetNumbers
         /\ \A r : Sure(r)' <=> Sure(r)
         /\ SetsAreWritten' <=> SetsAreWritten
         /\ ChosenTriggers' = ChosenTriggers
BY DEF Dual, SetCount, AllSets, SetNumbers, Sure, MayBeSkipped, SetsAreWritten, ChosenTriggers

LEMMA SameSet ==
  ASSUME UNCHANGED <<kind, request>>
  PROVE  /\ \A s : SetWired(s)' <=> s \in SetNumbers /\ Wired(sets'[s], s)
         /\ \A s : SetFormatted(s)' <=> (Sure("Format") => sets'[s].format = format')
         /\ FormatWritten(active)' <=> (Sure("Format") => active'.format = format')
         /\ SettingsDone' <=> /\ StepWritten(active', i')
                              /\ Sure("Format") => active'.format = format'
         /\ SignalPathDone' <=> SignalPathWritten(active', i')
         /\ PathsDone' <=> PathsWritten(active', i')
<1>1. /\ Dual' <=> Dual
      /\ SetNumbers' = SetNumbers
      /\ \A r : Sure(r)' <=> Sure(r)
  BY SameCamera
<1>2. /\ \A s : ProfileOf(s)' = ProfileOf(s)
      /\ \A p : FirstSet(p)' = FirstSet(p)
      /\ \A p : LastSet(p)' = LastSet(p)
  BY DEF ProfileOf, FirstSet, LastSet
<1>3. /\ \A s : StepOf(s)' = StepOf(s)
      /\ \A s : NextInProfile(s)' = NextInProfile(s)
  BY <1>2 DEF StepOf, NextInProfile
<1>4. /\ \A s : SetWired(s)' <=> s \in SetNumbers /\ Wired(sets'[s], s)
      /\ \A s : SetFormatted(s)' <=> (Sure("Format") => sets'[s].format = format')
  BY <1>1, <1>2, <1>3
     DEF StepWritten, FormatWritten, SignalPathWritten, PathsWritten, Wired, SetWired,
         SetFormatted
<1>5. /\ FormatWritten(active)' <=> (Sure("Format") => active'.format = format')
      /\ SettingsDone' <=> /\ StepWritten(active', i')
                           /\ Sure("Format") => active'.format = format'
  BY <1>1 DEF StepWritten, FormatWritten, SettingsDone, StepOf, ProfileOf, FirstSet
<1>6. /\ SignalPathDone' <=> SignalPathWritten(active', i')
      /\ PathsDone' <=> PathsWritten(active', i')
  BY <1>1
     DEF SignalPathWritten, PathsWritten, SignalPathDone, PathsDone, ProfileOf, FirstSet,
         LastSet, NextInProfile
<1> QED
  BY <1>4, <1>5, <1>6

LEMMA SameSets ==
  ASSUME UNCHANGED <<kind, request, format, sets>>
  PROVE  /\ \A s : SetWired(s)' <=> SetWired(s)
         /\ \A s : SetFormatted(s)' <=> SetFormatted(s)
         /\ AllWired' <=> AllWired
         /\ AllFormatted' <=> AllFormatted
<1>1. AllSets' = AllSets
  BY SameCamera
<1>2. /\ \A s : SetWired(s)' <=> SetWired(s)
      /\ \A s : SetFormatted(s)' <=> SetFormatted(s)
  BY SameSet DEF SetWired, SetFormatted, FormatWritten
<1> QED
  BY <1>1, <1>2 DEF AllWired, AllFormatted

LEMMA SameCycling ==
  ASSUME UNCHANGED <<kind, request>> PROVE CanCycle' <=> CanCycle
<1>1. /\ Dual' <=> Dual
      /\ \A r : MayBeSkipped(r)' <=> MayBeSkipped(r)
      /\ SetsAreWritten' <=> SetsAreWritten
      /\ ChosenTriggers' = ChosenTriggers
  BY SameCamera DEF Sure
<1> QED
  BY <1>1 DEF CanCycle

(* The place of a set in the sequence has nothing to do with its format.    *)
LEMMA WiredWithoutFormat ==
  ASSUME NEW r \in Set, NEW s, NEW f, Wired(r, s) PROVE Wired([r EXCEPT !.format = f], s)
BY DEF Set, Wired, StepWritten, PathsWritten, SignalPathWritten

(* A camera with one trigger source for all sets has no other in a set.     *)
LEMMA WiredWhileShared ==
  ASSUME NEW r \in Set, NEW s, NEW t, kind.shared, Wired(r, s)
  PROVE  Wired([r EXCEPT !.trigger = t], s)
BY DEF Set, Wired, StepWritten, PathsWritten, SignalPathWritten

LEMMA EditLeavesOthers ==
  ASSUME TypeOK, NEW r, Edit(r), NEW s \in SetNumbers,
         ~(kind.immediate /\ s = SequencerSetSelector)
  PROVE  /\ Wired(sets[s], s) => Wired(sets'[s], s)
         /\ sets'[s].format = sets[s].format
<1>1. RegistersOK /\ SequencerSetSelector \in SetNumbers /\ sets[s] \in Set
  BY DEF TypeOK, RegistersOK
<1>2. sets'[s] = IF kind.shared THEN [sets[s] EXCEPT !.trigger = r.trigger] ELSE sets[s]
  BY <1>1, EditWrites
<1>3. [sets[s] EXCEPT !.trigger = r.trigger].format = sets[s].format
  BY <1>1 DEF Set
<1> QED
  BY <1>1, <1>2, <1>3, WiredWhileShared

LEMMA EditKeepsSelectors ==
  ASSUME TypeOK, SelectorInv, NEW r, Edit(r),
         UNCHANGED <<kind, request, SequencerSetStart, SequencerSetSelector>>,
         pc' \in Looping \cup Finished => pc \in Looping \cup Finished,
         ~Dual => SequencerPathSelector' = 0
  PROVE  SelectorInv'
<1>1. RegistersOK /\ SequencerSetSelector \in SetNumbers
  BY DEF TypeOK, RegistersOK
<1>2. active' = r /\ (kind.immediate => sets'[SequencerSetSelector] = r)
  BY <1>1, EditWrites
<1>3. (Dual' <=> Dual) /\ (Sure("SetStart")' <=> Sure("SetStart"))
  BY SameCamera
<1>4. /\ SequencerSetStart' \in {0, kind'.start}
      /\ Sure("SetStart") /\ pc' \in Looping \cup Finished => SequencerSetStart' = 0
  BY DEF SelectorInv
<1>5. kind'.immediate => active' = sets'[SequencerSetSelector']
  BY <1>2
<1> QED
  BY <1>3, <1>4, <1>5 DEF SelectorInv, Looping, Selected, Finished

(* Only the write of the trigger source changes that of path 0.             *)
LEMMA EditKeepsTriggers ==
  ASSUME TypeOK, TriggerInv, NEW r, Edit(r), UNCHANGED <<kind, request>>,
         pc' # "trigger",
         SourceSet' => EachImageFires(r) /\ (SourceSet \/ kind.shared)
  PROVE  TriggerInv'
<1>1. RegistersOK /\ SequencerSetSelector \in SetNumbers
  BY DEF TypeOK, RegistersOK
<1>2. active' = r /\ SetNumbers' = SetNumbers
  BY <1>1, EditWrites DEF SetNumbers
<1>3. ASSUME SourceSet', NEW s \in SetNumbers PROVE EachImageFires(sets'[s])
  <2>1. CASE kind.immediate /\ s = SequencerSetSelector
    <3>1. sets'[s] = r
      BY <1>1, <2>1, EditWrites
    <3> QED
      BY <1>3, <3>1
  <2>2. CASE ~(kind.immediate /\ s = SequencerSetSelector)
    <3>1. sets'[s] = IF kind.shared THEN [sets[s] EXCEPT !.trigger = r.trigger] ELSE sets[s]
      BY <1>1, <2>2, EditWrites
    <3>2. [sets[s] EXCEPT !.trigger = r.trigger].trigger = r.trigger
      BY <1>1 DEF RegistersOK, Set
    <3>3. CASE kind.shared
      BY <1>3, <3>1, <3>2, <3>3 DEF EachImageFires
    <3>4. CASE ~kind.shared
      BY <1>3, <3>1, <3>4 DEF TriggerInv
    <3> QED
      BY <3>3, <3>4
  <2> QED
    BY <2>1, <2>2
<1>4. SourceSet' => EachImageFires(active')
  BY <1>2
<1> QED
  BY <1>2, <1>3, <1>4 DEF TriggerInv, EachImageFires

(* What it was before the loop it is in the loop and after it.              *)
LEMMA SameSource ==
  ASSUME UNCHANGED <<kind, request>>,
         pc' \in Looping \cup Finished \cup {"set start"}
           => pc \in Looping \cup Finished \cup {"set start"}
  PROVE  SourceSet' => SourceSet
<1>1. /\ Dual' <=> Dual
      /\ Sure("TriggerSource")' <=> Sure("TriggerSource")
      /\ ChosenTriggers' = ChosenTriggers
  BY SameCamera
<1> QED
  BY <1>1 DEF SourceSet, Looping, Finished, Selected

LEMMA UntouchedTriggers ==
  ASSUME TriggerInv, UNCHANGED <<kind, request>>, pc' = "trigger" => ~Dual,
         SourceSet' => SourceSet,
         active' = active \/ active' \in {sets[s] : s \in SetNumbers},
         \A s \in SetNumbers : sets'[s] = sets[s] \/ sets'[s] = active
  PROVE  TriggerInv'
<1>1. (Dual' <=> Dual) /\ SetNumbers' = SetNumbers
  BY SameCamera
<1>2. ASSUME SourceSet'
      PROVE  EachImageFires(active') /\ \A s \in SetNumbers : EachImageFires(sets'[s])
  BY <1>2 DEF TriggerInv
<1> QED
  BY <1>1, <1>2 DEF TriggerInv, EachImageFires

(* Between the mode's being off and its being on again nothing of it moves. *)
LEMMA QuietMode ==
  ASSUME TypeOK, ControlInv, pc \in {"trigger", "set start"} \cup Looping,
         pc' \in {"set start"} \cup Looping \cup {"configuration off"},
         UNCHANGED <<SequencerMode, kind, request, runVars>>
  PROVE  ModeInv' /\ RunInv'
<1>1. (Dual' <=> Dual) /\ (Sure("Mode")' <=> Sure("Mode"))
  BY SameCamera
<1>2. Dual => kind.paths = {0, 1}
  BY DEF ControlInv, ModeInv, TriggerInv
<1>3. ~grabbing /\ (Sure("Mode") => SequencerMode # "On")
  BY DEF ControlInv, ModeInv, Looping, Selected
<1>4. ~grabbing' /\ (Sure("Mode") => SequencerMode' # "On")
  BY <1>3 DEF runVars
<1>5. pc' \notin {"opened", "mode off", "mode on", "start", "streaming"}
  BY DEF Looping, Selected
<1> QED
  BY <1>1, <1>2, <1>4, <1>5 DEF ModeInv, RunInv, Cycling

(* The sets that are done stay as they are while the next one is edited.    *)
LEMMA EditKeepsDone ==
  ASSUME TypeOK, LoopInv, SetsAreWritten, pc \in Selected, NEW r, Edit(r),
         UNCHANGED <<kind, request, format, i, SequencerSetSelector>>
  PROVE  \A s \in 0 .. i' - 1 : SetWired(s)' /\ SetFormatted(s)'
<1>1. i \in Nat
  BY DEF TypeOK
<1>2. i \in SetNumbers /\ SequencerSetSelector = i
  BY DEF LoopInv, SetsAreWritten, Sure
<1>3. ASSUME NEW s \in 0 .. i - 1
      PROVE  SetWired(s)' /\ SetFormatted(s)'
  <2>1. SetWired(s) /\ SetFormatted(s)
    BY DEF LoopInv, Looping
  <2>2. s \in SetNumbers /\ s # SequencerSetSelector
    BY <1>1, <1>2, <2>1 DEF SetWired
  <2>3. (Wired(sets[s], s) => Wired(sets'[s], s)) /\ sets'[s].format = sets[s].format
    BY <2>2, EditLeavesOthers
  <2> QED
    BY <2>1, <2>2, <2>3, SameSet DEF SetWired, SetFormatted, FormatWritten
<1> QED
  BY <1>3

-----------------------------------------------------------------------------
(* Each action keeps the invariant.                                         *)

LEMMA SetCapsKeeps ==
  ASSUME TypeOK, ControlInv, NEW f \in Formats, SetCaps(f) PROVE ControlInv'
<1> DEFINE r == [active EXCEPT !.format = f]
<1>1. /\ pc \in {"opened", "streaming"} /\ Edit(r)
      /\ ~grabbing'
      /\ pc' = (IF Accepted THEN "mode off" ELSE "failed")
      /\ UNCHANGED <<SequencerMode, SequencerConfigurationMode, SequencerSetStart,
                     SequencerSetSelector, SequencerPathSelector, kind, request>>
  BY DEF SetCaps, modeVars, selectorVars
<1>2. active \in Set /\ RegistersOK /\ SequencerSetSelector \in SetNumbers
  BY DEF TypeOK, RegistersOK
<1>3. r.trigger = active.trigger
  BY <1>2 DEF Set
<1>4. pc' \in {"mode off", "failed"}
  BY <1>1
<1>5. pc' \notin Looping \cup Finished \cup {"set start"}
  BY <1>4 DEF Looping, Finished, Selected
<1>6. SelectorInv' /\ TriggerInv'
  <2>1. ~Dual => SequencerPathSelector' = 0
    BY <1>1 DEF ControlInv, SelectorInv
  <2>2. SourceSet' => SourceSet
    BY <1>1, <1>5, SameSource
  <2>3. SourceSet' => EachImageFires(r)
    BY <1>3, <2>2 DEF ControlInv, TriggerInv, EachImageFires
  <2> HIDE DEF r
  <2> QED
    BY <1>1, <1>4, <1>5, <2>1, <2>2, <2>3, EditKeepsSelectors, EditKeepsTriggers
       DEF ControlInv
<1>7. ASSUME Sure("Mode"), SequencerMode = "On", SetsAreWritten, NEW s \in AllSets
      PROVE  SetWired(s)'
  <2>1. s \in SetNumbers /\ Wired(sets[s], s)
    BY <1>7 DEF ControlInv, ModeInv, AllWired, SetWired
  <2>2. CASE s = SequencerSetSelector /\ kind.immediate
    <3>1. active = sets[s]
      BY <1>1, <2>2 DEF ControlInv, SelectorInv
    <3>2. Wired(r, s)
      BY <1>2, <2>1, <3>1, WiredWithoutFormat
    <3>3. sets'[s] = r
      BY <1>1, <1>2, <2>2, EditWrites
    <3> HIDE DEF r
    <3> QED
      BY <1>1, <2>1, <3>2, <3>3, SameSet
  <2>3. CASE ~(kind.immediate /\ s = SequencerSetSelector)
    <3> HIDE DEF r
    <3>1. Wired(sets'[s], s)
      BY <1>1, <2>1, <2>3, EditLeavesOthers
    <3> QED
      BY <1>1, <2>1, <3>1, SameSet
  <2> QED
    BY <2>2, <2>3
<1>8. ModeInv'
  <2>1. /\ Dual' <=> Dual
        /\ AllSets' = AllSets
        /\ SetsAreWritten' <=> SetsAreWritten
        /\ Sure("Mode")' <=> Sure("Mode")
        /\ Sure("ConfigurationMode")' <=> Sure("ConfigurationMode")
    BY <1>1, SameCamera
  <2>2. Sure("Mode") /\ SequencerMode = "On" /\ SetsAreWritten => AllWired'
    BY <1>7, <2>1 DEF AllWired
  <2>3. Sure("ConfigurationMode") => SequencerConfigurationMode = "Off"
    BY <1>1 DEF ControlInv, ModeInv
  <2>4. Sure("Mode") /\ SequencerMode = "On" => (Dual => kind.paths = {0, 1})
    BY DEF ControlInv, ModeInv
  <2>5. pc' \notin {"start", "streaming"}
    BY <1>4
  <2> QED
    BY <1>1, <1>4, <1>5, <2>1, <2>2, <2>3, <2>4, <2>5 DEF ModeInv, Looping, Finished, Selected
<1>9. LoopInv' /\ RunInv'
  BY <1>1, <1>4, <1>5 DEF LoopInv, RunInv, Cycling, Looping, Selected, Finished
<1> QED
  BY <1>6, <1>8, <1>9 DEF ControlInv

(* Before the loop, and after it, nothing is written to the registers.      *)
LEMMA UntouchedSelectors ==
  ASSUME SelectorInv,
         UNCHANGED <<kind, request, setVars, SequencerSetStart, SequencerSetSelector,
                     SequencerPathSelector>>,
         pc' \in Looping \cup Finished => pc \in Looping \cup Finished,
         pc' \notin {"load", "failed"} => pc \notin {"load", "failed"}
  PROVE  SelectorInv'
<1>1. (Dual' <=> Dual) /\ (Sure("SetStart")' <=> Sure("SetStart"))
  BY SameCamera
<1> QED
  BY <1>1 DEF SelectorInv, setVars, Looping, Selected, Finished

(* An action that writes no register of a set, nor the selectors.           *)
LEMMA OutsideSets ==
  ASSUME TypeOK, ControlInv, UNCHANGED <<kind, request, setVars, selectorVars>>,
         pc' = "trigger" => ~Dual,
         pc' \in Looping \cup Finished => pc \in Looping \cup Finished,
         pc' = "set start" => pc \in Looping \cup Finished \cup {"set start"} \/ Dual,
         pc' \notin {"load", "failed"} => pc \notin {"load", "failed"}
  PROVE  SelectorInv' /\ TriggerInv'
<1>1. SelectorInv'
  BY UntouchedSelectors DEF ControlInv, selectorVars
<1>2. SourceSet' => SourceSet
  <2>1. CASE pc' = "set start" /\ Dual
    BY <2>1, SameCamera DEF SourceSet
  <2>2. CASE ~(pc' = "set start" /\ Dual)
    BY <2>2, SameSource
  <2> QED
    BY <2>1, <2>2
<1>3. TriggerInv'
  BY <1>2, UntouchedTriggers DEF ControlInv, setVars
<1> QED
  BY <1>1, <1>3

LEMMA ModeOffKeeps == ASSUME TypeOK, ControlInv, ModeOff PROVE ControlInv'
<1>1. /\ pc = "mode off" /\ pc' = "configuration on"
      /\ SequencerMode' \in AfterWrite("Mode", "Off", SequencerMode)
      /\ UNCHANGED <<selectorVars, setVars, runVars, requestVars>>
  BY DEF ModeOff
<1>2. SelectorInv' /\ TriggerInv'
  BY <1>1, OutsideSets DEF requestVars, Looping, Finished, Selected
<1>3. Sure("Mode")' <=> Sure("Mode")
  BY <1>1, SameCamera DEF requestVars
<1>4. ~grabbing' /\ (Sure("Mode") => SequencerMode' = "Off")
  BY <1>1, Written DEF ControlInv, ModeInv, runVars
<1>5. ModeInv' /\ RunInv' /\ LoopInv'
  BY <1>1, <1>3, <1>4
     DEF ModeInv, RunInv, Cycling, LoopInv, Looping, Selected, Finished
<1> QED
  BY <1>2, <1>5 DEF ControlInv

LEMMA ConfigurationOnKeeps == ASSUME TypeOK, ControlInv, ConfigurationOn PROVE ControlInv'
<1>1. /\ pc = "configuration on"
      /\ UNCHANGED <<SequencerMode, selectorVars, setVars, runVars, requestVars>>
  BY DEF ConfigurationOn
<1>2. \/ pc' = "trigger" /\ ~Dual
      \/ pc' = "failed" /\ Dual
      \/ pc' = "set start" /\ Dual /\ kind.paths = {0, 1}
  <2>1. kind.paths \in {{0}, {0, 1}}
    BY KindTyped DEF TypeOK
  <2> QED
    BY <2>1 DEF ConfigurationOn
<1>3. SelectorInv' /\ TriggerInv'
  BY <1>1, <1>2, OutsideSets DEF requestVars, Looping, Finished, Selected
<1>4. (Dual' <=> Dual) /\ (Sure("Mode")' <=> Sure("Mode"))
  BY <1>1, SameCamera DEF requestVars
<1>5. ~grabbing' /\ (Sure("Mode") => SequencerMode' # "On")
  BY <1>1 DEF ControlInv, ModeInv, runVars
<1>6. ModeInv' /\ RunInv' /\ LoopInv'
  BY <1>1, <1>2, <1>4, <1>5
     DEF ModeInv, RunInv, Cycling, LoopInv, Looping, Selected, Finished, requestVars
<1> QED
  BY <1>3, <1>6 DEF ControlInv

LEMMA SetTriggerKeeps == ASSUME TypeOK, ControlInv, SetTrigger PROVE ControlInv'
<1>1. /\ pc = "trigger" /\ pc' = "set start"
      /\ UNCHANGED <<modeVars, selectorVars, runVars, requestVars>>
  BY DEF SetTrigger
<1>2. ~Dual /\ SequencerPathSelector = 0
  BY <1>1 DEF ControlInv, TriggerInv, SelectorInv
<1>3. SelectorInv' /\ TriggerInv'
  <2>1. CASE /\ MayBeSkipped("TriggerSource") \/ ChosenTriggers = {}
             /\ UNCHANGED setVars
    <3>1. /\ Dual' <=> Dual
          /\ Sure("TriggerSource")' <=> Sure("TriggerSource")
          /\ ChosenTriggers' = ChosenTriggers
      BY <1>1, SameCamera DEF requestVars
    <3>2. SourceSet' => SourceSet
      BY <1>1, <2>1, <3>1 DEF SourceSet, Sure, requestVars
    <3>3. TriggerInv'
      BY <1>1, <2>1, <3>2, UntouchedTriggers DEF ControlInv, setVars, requestVars
    <3>4. SelectorInv'
      BY <1>1, <2>1, UntouchedSelectors
         DEF ControlInv, selectorVars, requestVars, Looping, Finished, Selected
    <3> QED
      BY <3>3, <3>4
  <2>2. ASSUME NEW t \in ChosenTriggers,
               Edit([active EXCEPT !.trigger[SequencerPathSelector] = t])
        PROVE  SelectorInv' /\ TriggerInv'
    <3> DEFINE r == [active EXCEPT !.trigger[SequencerPathSelector] = t]
    <3>1. r.trigger[0] = t
      BY <1>2 DEF TypeOK, Set
    <3>2. Edit(r)
      BY <2>2
    <3>3. SourceSet' => t \in EachImage /\ (SourceSet \/ kind.shared)
      <4>1. /\ Dual' <=> Dual
            /\ ChosenTriggers' = ChosenTriggers
        BY <1>1, SameCamera DEF requestVars
      <4> QED
        BY <1>1, <2>2, <4>1 DEF SourceSet, requestVars
    <3>4. SourceSet' => EachImageFires(r) /\ (SourceSet \/ kind.shared)
      BY <3>1, <3>3 DEF EachImageFires
    <3> HIDE DEF r
    <3>5. SelectorInv'
      BY <1>1, <1>2, <3>2, EditKeepsSelectors
         DEF ControlInv, selectorVars, requestVars, Looping, Finished, Selected
    <3>6. TriggerInv'
      BY <1>1, <3>2, <3>4, EditKeepsTriggers DEF ControlInv, requestVars
    <3> QED
      BY <3>5, <3>6
  <2> QED
    BY <2>1, <2>2 DEF SetTrigger
<1>4. ModeInv' /\ RunInv'
  BY <1>1, QuietMode DEF modeVars, requestVars
<1>5. LoopInv'
  BY <1>1 DEF LoopInv, Looping, Selected, Finished
<1> QED
  BY <1>3, <1>4, <1>5 DEF ControlInv

LEMMA SetStartKeeps == ASSUME TypeOK, ControlInv, SetStart PROVE ControlInv'
<1>1. /\ pc = "set start" /\ pc' = "select" /\ i' = 0
      /\ SequencerSetStart' \in AfterWrite("SetStart", 0, SequencerSetStart)
      /\ UNCHANGED <<modeVars, SequencerSetSelector, SequencerPathSelector, setVars, runVars,
                     requestVars>>
  BY DEF SetStart
<1>2. SelectorInv'
  <2>1. (Dual' <=> Dual) /\ (Sure("SetStart")' <=> Sure("SetStart"))
    BY <1>1, SameCamera DEF requestVars
  <2>2. /\ SequencerSetStart' \in {0, kind.start}
        /\ Sure("SetStart") => SequencerSetStart' = 0
    <3>1. SequencerSetStart \in {0, kind.start}
      BY DEF ControlInv, SelectorInv
    <3>2. /\ SequencerSetStart' = 0 \/ SequencerSetStart' = SequencerSetStart
          /\ Sure("SetStart") => SequencerSetStart' = 0
      BY <1>1, Written
    <3> QED
      BY <3>1, <3>2
  <2> QED
    BY <1>1, <2>1, <2>2 DEF ControlInv, SelectorInv, setVars, requestVars
<1>3. TriggerInv'
  <2>1. SourceSet' => SourceSet
    BY <1>1, SameSource DEF requestVars
  <2> QED
    BY <1>1, <2>1, UntouchedTriggers DEF ControlInv, setVars, requestVars
<1>4. ModeInv' /\ RunInv'
  BY <1>1, QuietMode DEF Looping, modeVars, requestVars
<1>5. i' \in AllSets' /\ 0 .. i' - 1 = {}
  <2>1. SetCount \in Nat \ {0}
    BY Lengths DEF TypeOK
  <2>2. 0 \in AllSets /\ 0 .. 0 - 1 = {}
    BY <2>1 DEF AllSets
  <2>3. AllSets' = AllSets
    BY <1>1, SameCamera DEF requestVars
  <2> QED
    BY <1>1, <2>2, <2>3
<1>6. LoopInv'
  BY <1>1, <1>5 DEF LoopInv, Looping, Selected, Finished
<1> QED
  BY <1>2, <1>3, <1>4, <1>6 DEF ControlInv

LEMMA SelectSetKeeps == ASSUME TypeOK, ControlInv, SelectSet PROVE ControlInv'
<1>1. /\ pc = "select" /\ pc' \in {"load", "settings"}
      /\ UNCHANGED <<modeVars, SequencerSetStart, SequencerPathSelector, setVars, runVars,
                     requestVars, i>>
  BY DEF SelectSet
<1>2. /\ pc' = "load" => i < CameraSets /\ SequencerSetSelector' = i
      /\ pc' = "settings" => ~Sure("SetSelector") /\ SequencerSetSelector' = SequencerSetSelector
  BY DEF SelectSet, Sure
<1>3. ModeInv' /\ RunInv'
  BY <1>1, QuietMode DEF Looping, Selected, modeVars, requestVars
<1>4. /\ Dual' <=> Dual
      /\ AllSets' = AllSets
      /\ SetNumbers' = SetNumbers
      /\ \A r : Sure(r)' <=> Sure(r)
      /\ SetsAreWritten' <=> SetsAreWritten
  BY <1>1, SameCamera DEF requestVars
<1>5. SelectorInv'
  <2>1. kind'.immediate /\ pc' \notin {"load", "failed"} => active' = sets'[SequencerSetSelector']
    BY <1>1, <1>2 DEF ControlInv, SelectorInv, setVars, requestVars
  <2> QED
    BY <1>1, <1>4, <2>1
       DEF ControlInv, SelectorInv, Looping, Selected, Finished, requestVars
<1>6. TriggerInv'
  <2>1. SourceSet' => SourceSet
    BY <1>1, SameSource DEF requestVars, Looping, Selected
  <2> QED
    BY <1>1, <2>1, UntouchedTriggers DEF ControlInv, setVars, requestVars
<1>7. \A s : (SetWired(s)' <=> SetWired(s)) /\ (SetFormatted(s)' <=> SetFormatted(s))
  BY <1>1, SameSets DEF setVars, requestVars
<1>8. i < CameraSets => i \in SetNumbers
  BY SetsAssumption DEF TypeOK, SetNumbers
<1>9. LoopInv'
  BY <1>1, <1>2, <1>4, <1>7, <1>8 DEF ControlInv, LoopInv, Looping, Selected, Finished
<1> QED
  BY <1>3, <1>5, <1>6, <1>9 DEF ControlInv

LEMMA LoadSetKeeps == ASSUME TypeOK, ControlInv, LoadSet PROVE ControlInv'
<1>1. /\ pc = "load" /\ pc' = "settings"
      /\ UNCHANGED <<modeVars, selectorVars, sets, runVars, requestVars, i>>
  BY DEF LoadSet
<1>2. /\ active' = active \/ active' = sets[SequencerSetSelector]
      /\ kind.immediate => active' = sets[SequencerSetSelector]
  BY Written DEF LoadSet
<1>3. ModeInv' /\ RunInv'
  BY <1>1, QuietMode DEF Looping, Selected, modeVars, requestVars
<1>4. /\ Dual' <=> Dual
      /\ AllSets' = AllSets
      /\ SetNumbers' = SetNumbers
      /\ \A r : Sure(r)' <=> Sure(r)
      /\ SetsAreWritten' <=> SetsAreWritten
  BY <1>1, SameCamera DEF requestVars
<1>5. SelectorInv'
  BY <1>1, <1>2, <1>4
     DEF ControlInv, SelectorInv, Looping, Selected, Finished, selectorVars, requestVars
<1>6. TriggerInv'
  <2>1. SourceSet' => SourceSet
    BY <1>1, SameSource DEF requestVars, Looping, Selected
  <2>2. SequencerSetSelector \in SetNumbers
    BY DEF TypeOK
  <2> QED
    BY <1>1, <1>2, <2>1, <2>2, UntouchedTriggers DEF ControlInv, requestVars
<1>7. \A s : (SetWired(s)' <=> SetWired(s)) /\ (SetFormatted(s)' <=> SetFormatted(s))
  BY <1>1, SameSets DEF requestVars
<1>8. LoopInv'
  BY <1>1, <1>4, <1>7 DEF ControlInv, LoopInv, Looping, Selected, Finished, selectorVars
<1> QED
  BY <1>3, <1>5, <1>6, <1>8 DEF ControlInv

(* A write to the registers of the i-th set.                                *)
LEMMA LoopEdit ==
  ASSUME TypeOK, ControlInv, NEW r, Edit(r),
         pc \in {"settings", "signal path", "default path", "next"},
         pc' \in {"signal path", "default path", "next", "save"},
         UNCHANGED <<modeVars, SequencerSetStart, SequencerSetSelector, runVars, requestVars, i>>,
         ~Dual => SequencerPathSelector' = 0 /\ r.trigger = active.trigger,
         StepWritten(r, i), FormatWritten(r),
         pc' \in {"signal path", "default path"} => Dual,
         pc' = "next" => ~Dual,
         pc' = "default path" => SignalPathWritten(r, i),
         pc' = "save" => PathsWritten(r, i)
  PROVE  ControlInv'
<1>1. pc \in Selected /\ pc' \in Selected /\ UNCHANGED <<kind, request, format>>
  BY DEF Selected, requestVars
<1>2. ModeInv' /\ RunInv'
  BY <1>1, QuietMode DEF Looping, modeVars
<1>3. SelectorInv'
  BY <1>1, EditKeepsSelectors DEF ControlInv, Looping
<1>4. TriggerInv'
  <2>1. SourceSet' => SourceSet
    BY <1>1, SameSource DEF Looping
  <2>2. SourceSet' => EachImageFires(r)
    BY <2>1 DEF ControlInv, TriggerInv, SourceSet, EachImageFires
  <2> QED
    BY <1>1, <2>1, <2>2, EditKeepsTriggers DEF ControlInv
<1>5. active' = r
  BY DEF Edit
<1>6. /\ Dual' <=> Dual
      /\ AllSets' = AllSets
      /\ SetNumbers' = SetNumbers
      /\ Sure("SetSelector")' <=> Sure("SetSelector")
      /\ SetsAreWritten' <=> SetsAreWritten
  BY <1>1, SameCamera
<1>7. SetsAreWritten => \A s \in 0 .. i' - 1 : SetWired(s)' /\ SetFormatted(s)'
  BY <1>1, EditKeepsDone DEF ControlInv
<1>8. /\ SettingsDone'
      /\ pc' = "default path" => SignalPathDone'
      /\ pc' = "save" => PathsDone'
  BY <1>1, <1>5, SameSet DEF FormatWritten
<1>9. i' \in AllSets' /\ (Sure("SetSelector") => i' \in SetNumbers /\ SequencerSetSelector' = i')
  BY <1>1, <1>6 DEF ControlInv, LoopInv, Looping
<1>10. LoopInv'
  BY <1>1, <1>6, <1>7, <1>8, <1>9 DEF LoopInv, Looping, Selected, Finished
<1> QED
  BY <1>2, <1>3, <1>4, <1>10 DEF ControlInv

LEMMA WriteSettingsKeeps == ASSUME TypeOK, ControlInv, WriteSettings PROVE ControlInv'
<1>1. PICK f \in AfterWrite("Format", format, active.format),
           g \in AfterWrite("Gain", StepOf(i).gain, active.step.gain),
           e \in AfterWrite("ExposureTime", StepOf(i).exposure, active.step.exposure) :
             Edit([active EXCEPT !.format = f, !.step = [exposure |-> e, gain |-> g]])
  BY DEF WriteSettings
<1> DEFINE r == [active EXCEPT !.format = f, !.step = [exposure |-> e, gain |-> g]]
<1>2. /\ pc = "settings" /\ pc' = (IF Dual THEN "signal path" ELSE "next")
      /\ UNCHANGED <<modeVars, selectorVars, runVars, requestVars, i>>
  BY DEF WriteSettings
<1>3. /\ r.format = f /\ r.step.exposure = e /\ r.step.gain = g
      /\ r.trigger = active.trigger
  BY DEF TypeOK, Set
<1>4. StepWritten(r, i) /\ FormatWritten(r)
  <2>1. /\ Sure("Format") => f = format
        /\ Sure("Gain") => g = StepOf(i).gain
        /\ Sure("ExposureTime") => e = StepOf(i).exposure
    BY Written
  <2> HIDE DEF r
  <2> QED
    BY <1>3, <2>1 DEF StepWritten, FormatWritten
<1>5. ~Dual => SequencerPathSelector' = 0
  BY <1>2 DEF ControlInv, SelectorInv, selectorVars
<1>6. Edit(r)
  BY <1>1
<1> HIDE DEF r
<1>7. pc' \in {"signal path", "next"} /\ (pc' = "signal path" => Dual) /\ (pc' = "next" => ~Dual)
  BY <1>2
<1> QED
  BY <1>2, <1>3, <1>4, <1>5, <1>6, <1>7, LoopEdit DEF selectorVars

LEMMA WriteSignalPathKeeps == ASSUME TypeOK, ControlInv, WriteSignalPath PROVE ControlInv'
<1> DEFINE n == FirstSet(1 - ProfileOf(i))
           t == SignalTo(1 - ProfileOf(i))
           r == [active EXCEPT !.next[0] = n, !.trigger[0] = t]
<1>1. /\ pc = "signal path" /\ pc' = "default path" /\ Edit(r)
      /\ UNCHANGED <<modeVars, SequencerSetStart, SequencerSetSelector, runVars, requestVars, i>>
  BY DEF WriteSignalPath
<1>2. Dual /\ SettingsDone
  BY <1>1 DEF ControlInv, LoopInv
<1>3. /\ r.next[0] = n /\ r.trigger[0] = t
      /\ r.step = active.step /\ r.format = active.format
  <2> HIDE DEF n, t
  <2> QED
    BY DEF TypeOK, Set
<1>4. SignalPathWritten(r, i)
  BY <1>3 DEF SignalPathWritten
<1> HIDE DEF r
<1>5. StepWritten(r, i) /\ FormatWritten(r)
  BY <1>2, <1>3 DEF SettingsDone, StepWritten, FormatWritten
<1> QED
  BY <1>1, <1>2, <1>4, <1>5, LoopEdit

LEMMA WriteDefaultPathKeeps == ASSUME TypeOK, ControlInv, WriteDefaultPath PROVE ControlInv'
<1> DEFINE n == NextInProfile(i)
           r == [active EXCEPT !.next[1] = n, !.trigger[1] = "ExposureActive"]
<1>1. /\ pc = "default path" /\ pc' = "save" /\ Edit(r)
      /\ UNCHANGED <<modeVars, SequencerSetStart, SequencerSetSelector, runVars, requestVars, i>>
  BY DEF WriteDefaultPath
<1>2. Dual /\ SettingsDone /\ SignalPathDone
  BY <1>1 DEF ControlInv, LoopInv
<1>3. /\ r.next[1] = n /\ r.trigger[1] = "ExposureActive"
      /\ r.next[0] = active.next[0] /\ r.trigger[0] = active.trigger[0]
      /\ r.step = active.step /\ r.format = active.format
  <2> HIDE DEF n
  <2> QED
    BY DEF TypeOK, Set
<1>4. PathsWritten(r, i)
  BY <1>2, <1>3 DEF PathsWritten, SignalPathDone, SignalPathWritten
<1> HIDE DEF r
<1>5. StepWritten(r, i) /\ FormatWritten(r)
  BY <1>2, <1>3 DEF SettingsDone, StepWritten, FormatWritten
<1> QED
  BY <1>1, <1>2, <1>4, <1>5, LoopEdit

LEMMA WriteNextKeeps == ASSUME TypeOK, ControlInv, WriteNext PROVE ControlInv'
<1>1. PICK n \in AfterWrite("SetNext", (i + 1) % SetCount,
                            active.next[SequencerPathSelector]) :
        Edit([active EXCEPT !.next[SequencerPathSelector] = n])
  BY DEF WriteNext
<1> DEFINE r == [active EXCEPT !.next[SequencerPathSelector] = n]
<1>2. /\ pc = "next" /\ pc' = "save"
      /\ UNCHANGED <<modeVars, selectorVars, runVars, requestVars, i>>
  BY DEF WriteNext
<1>3. ~Dual /\ SettingsDone /\ i \in AllSets
  BY <1>2 DEF ControlInv, LoopInv, Looping, Selected
<1>4. SequencerPathSelector = 0
  BY <1>3 DEF ControlInv, SelectorInv
<1>5. /\ r.next[0] = n /\ r.trigger = active.trigger
      /\ r.step = active.step /\ r.format = active.format
  BY <1>4 DEF TypeOK, Set
<1>6. Edit(r)
  BY <1>1
<1> HIDE DEF r
<1>7. PathsWritten(r, i)
  <2>1. NextInProfile(i) = (i + 1) % SetCount
    BY <1>3, Allocation DEF TypeOK
  <2>2. Sure("SetNext") => n = (i + 1) % SetCount
    BY Written
  <2> QED
    BY <1>3, <1>5, <2>1, <2>2 DEF PathsWritten
<1>8. StepWritten(r, i) /\ FormatWritten(r)
  BY <1>3, <1>5 DEF SettingsDone, StepWritten, FormatWritten
<1> QED
  BY <1>2, <1>3, <1>4, <1>5, <1>6, <1>7, <1>8, LoopEdit DEF selectorVars

LEMMA SaveSetKeeps == ASSUME TypeOK, ControlInv, SaveSet PROVE ControlInv'
<1> DEFINE saved == [sets EXCEPT ![SequencerSetSelector] = active]
<1>1. /\ pc = "save" /\ sets' \in AfterWrite("SetSave", saved, sets)
      /\ pc' = (IF i' < SetCount THEN "select" ELSE "configuration off")
      /\ UNCHANGED <<modeVars, selectorVars, active, runVars, requestVars>>
  BY DEF SaveSet
<1>2. i' = i + 1 /\ i \in AllSets /\ SetCount \in Nat /\ SettingsDone /\ PathsDone
  <2>1. i' = i + 1
    BY DEF SaveSet
  <2> QED
    BY <1>1, <2>1, Lengths DEF ControlInv, LoopInv, Looping, Selected, TypeOK
<1>3. i \in Int /\ i' - 1 = i
  <2>1. i \in Int
    BY <1>2 DEF AllSets
  <2> QED
    BY <1>2, <2>1
<1>4. SequencerSetSelector \in SetNumbers /\ sets \in [SetNumbers -> Set] /\ active \in Set
  BY DEF TypeOK
<1>5. /\ sets' = saved \/ sets' = sets
      /\ Sure("SetSave") => sets' = saved
  BY <1>1, Written
<1>6. /\ \A s \in SetNumbers : s # SequencerSetSelector => sets'[s] = sets[s]
      /\ \A s \in SetNumbers : sets'[s] = sets[s] \/ sets'[s] = active
  BY <1>4, <1>5
<1>7. kind.immediate => active = sets[SequencerSetSelector]
  BY <1>1 DEF ControlInv, SelectorInv
<1>8. /\ kind.immediate => sets'[SequencerSetSelector] = active
      /\ SetsAreWritten => sets'[SequencerSetSelector] = active
  BY <1>4, <1>5, <1>7 DEF SetsAreWritten, Sure
<1> HIDE DEF saved
<1>9. UNCHANGED <<kind, request, format>> /\ pc' \in {"select", "configuration off"}
  BY <1>1 DEF requestVars
<1>10. ModeInv' /\ RunInv'
  BY <1>1, <1>9, QuietMode DEF Looping, Selected, modeVars
<1>11. /\ Dual' <=> Dual
       /\ SetCount' = SetCount
       /\ AllSets' = AllSets
       /\ \A r : Sure(r)' <=> Sure(r)
       /\ SetsAreWritten' <=> SetsAreWritten
  BY <1>9, SameCamera
<1>12. SelectorInv'
  BY <1>1, <1>8, <1>9, <1>11 DEF ControlInv, SelectorInv, selectorVars, Looping, Selected, Finished
<1>13. TriggerInv'
  <2>1. SourceSet' => SourceSet
    BY <1>1, <1>9, SameSource DEF Looping, Selected
  <2> QED
    BY <1>1, <1>6, <1>9, <2>1, UntouchedTriggers DEF ControlInv
<1>14. ASSUME SetsAreWritten, NEW s \in 0 .. i PROVE SetWired(s)' /\ SetFormatted(s)'
  <2>1. SequencerSetSelector = i /\ i \in SetNumbers
    BY <1>1, <1>14 DEF SetsAreWritten, Sure, ControlInv, LoopInv, Looping, Selected
  <2>2. CASE s = i
    <3>1. Wired(active, i) /\ FormatWritten(active)
      BY <1>2 DEF SettingsDone, PathsDone, Wired
    <3>2. sets'[i] = active
      BY <1>8, <1>14, <2>1
    <3> QED
      BY <1>9, <2>1, <2>2, <3>1, <3>2, SameSet DEF FormatWritten
  <2>3. CASE s # i
    <3>1. s \in 0 .. i - 1
      BY <1>3, <2>3
    <3>2. SetWired(s) /\ SetFormatted(s)
      BY <1>1, <1>14, <3>1 DEF ControlInv, LoopInv, Looping, Selected
    <3>3. sets'[s] = sets[s]
      BY <1>6, <2>1, <2>3, <3>2 DEF SetWired
    <3> QED
      BY <1>9, <3>2, <3>3, SameSet DEF SetWired, SetFormatted, FormatWritten
  <2> QED
    BY <2>2, <2>3
<1>15. FormatWritten(active)'
  BY <1>1, <1>2, <1>9, SameSet DEF SettingsDone, FormatWritten
<1>16. LoopInv'
  <2>1. CASE i' < SetCount
    <3>1. 0 .. i' - 1 = 0 .. i
      BY <1>3
    <3>2. pc' = "select"
      BY <1>1, <2>1
    <3>3. i' \in AllSets
      BY <1>2, <2>1 DEF AllSets
    <3> QED
      BY <1>11, <1>14, <3>1, <3>2, <3>3 DEF LoopInv, Looping, Selected, Finished
  <2>2. CASE ~(i' < SetCount)
    <3>1. pc' = "configuration off"
      BY <1>1, <2>2
    <3>2. AllSets = 0 .. i
      <4>1. i + 1 = SetCount
        BY <1>2, <2>2 DEF AllSets
      <4>2. SetCount - 1 = i
        BY <1>3, <4>1
      <4> QED
        BY <4>2 DEF AllSets
    <3>3. SetsAreWritten => AllWired' /\ AllFormatted'
      BY <1>11, <1>14, <3>2 DEF AllWired, AllFormatted
    <3> QED
      BY <1>11, <1>15, <3>1, <3>3 DEF LoopInv, Looping, Selected, Finished
  <2> QED
    BY <2>1, <2>2
<1> QED
  BY <1>10, <1>12, <1>13, <1>16 DEF ControlInv

LEMMA FinishingKeeps ==
  ASSUME TypeOK, ControlInv, ConfigurationOff \/ ModeOn \/ Start PROVE ControlInv'
<1>1. /\ pc \in {"configuration off", "mode on", "start"}
      /\ pc' \in {"mode on", "start", "streaming"}
      /\ UNCHANGED <<selectorVars, setVars, requestVars, i>>
  BY DEF ConfigurationOff, ModeOn, Start
<1>2. SelectorInv' /\ TriggerInv'
  BY <1>1, OutsideSets DEF requestVars, Looping, Finished, Selected
<1>3. /\ Dual' <=> Dual
      /\ AllSets' = AllSets
      /\ SetNumbers' = SetNumbers
      /\ \A r : Sure(r)' <=> Sure(r)
      /\ SetsAreWritten' <=> SetsAreWritten
  BY <1>1, SameCamera DEF requestVars
<1>4. /\ FormatWritten(active)
      /\ SetsAreWritten => AllWired /\ AllFormatted
      /\ Dual => kind.paths = {0, 1}
  BY <1>1 DEF ControlInv, LoopInv, ModeInv, Finished
<1>5. /\ FormatWritten(active)'
      /\ SetsAreWritten => AllWired' /\ AllFormatted'
  BY <1>1, <1>4, SameSets, SameSet DEF setVars, requestVars, FormatWritten
<1>6. LoopInv'
  BY <1>1, <1>3, <1>5 DEF LoopInv, Looping, Selected, Finished
<1>7. ~grabbing
  BY <1>1 DEF ControlInv, ModeInv
<1>8. grabbing' => pc' = "streaming"
  BY <1>7 DEF ConfigurationOff, ModeOn, Start, runVars
<1>9. Sure("ConfigurationMode") => SequencerConfigurationMode' = "Off"
  <2>1. CASE ConfigurationOff
    BY <2>1, Written DEF ConfigurationOff
  <2>2. CASE ModeOn \/ Start
    BY <2>2 DEF ModeOn, Start, ControlInv, ModeInv, modeVars
  <2> QED
    BY <2>1, <2>2
<1>10. Sure("Mode") =>
         /\ SequencerMode' = "On" => pc' \in {"start", "streaming"}
         /\ pc' \in {"start", "streaming"} => SequencerMode' = "On"
  <2>1. CASE ConfigurationOff
    BY <2>1 DEF ConfigurationOff, ControlInv, ModeInv
  <2>2. CASE ModeOn
    BY <2>2, Written DEF ModeOn
  <2>3. CASE Start
    BY <2>3 DEF Start, ControlInv, ModeInv, modeVars
  <2> QED
    BY <2>1, <2>2, <2>3
<1>11. ModeInv'
  BY <1>1, <1>3, <1>4, <1>5, <1>8, <1>9, <1>10 DEF ModeInv, requestVars
<1>12. RunInv'
  <2>1. CASE ~Start
    BY <1>7, <2>1 DEF ConfigurationOff, ModeOn, runVars, RunInv, Cycling
  <2>2. CASE Start
    <3>1. current' = SequencerSetStart
      BY <2>2 DEF Start
    <3>2. kind.start = 0 \/ Sure("SetStart") => SequencerSetStart = 0
      BY <1>1 DEF ControlInv, SelectorInv, Finished
    <3>3. CanCycle' => CanCycle
      BY <1>1, SameCycling DEF requestVars
    <3>4. 0 \in AllSets
      <4>1. SetCount \in Nat \ {0}
        BY Lengths DEF TypeOK
      <4> QED
        BY <4>1 DEF AllSets
    <3> QED
      BY <1>3, <3>1, <3>2, <3>3, <3>4 DEF RunInv, Cycling, CanCycle, Sure
  <2> QED
    BY <2>1, <2>2
<1> QED
  BY <1>2, <1>6, <1>11, <1>12 DEF ControlInv

LEMMA FailsKeeps == ASSUME TypeOK, ControlInv, Fails PROVE ControlInv'
<1>1. /\ pc \in Configuring /\ pc' = "failed"
      /\ UNCHANGED <<modeVars, selectorVars, setVars, runVars, requestVars, i>>
  BY DEF Fails
<1>2. SelectorInv' /\ TriggerInv'
  BY <1>1, OutsideSets DEF requestVars, Looping, Finished, Selected
<1>3. /\ Dual' <=> Dual
      /\ AllWired' <=> AllWired
      /\ \A r : Sure(r)' <=> Sure(r)
      /\ SetsAreWritten' <=> SetsAreWritten
  BY <1>1, SameSets, SameCamera DEF setVars, requestVars
<1>4. ~grabbing'
  BY <1>1 DEF ControlInv, ModeInv, Configuring, runVars
<1>5. ModeInv'
  BY <1>1, <1>3, <1>4
     DEF ControlInv, ModeInv, Looping, Selected, Finished, modeVars, requestVars
<1>6. LoopInv' /\ RunInv'
  BY <1>1, <1>4 DEF LoopInv, RunInv, Cycling, Looping, Selected, Finished
<1> QED
  BY <1>2, <1>5, <1>6 DEF ControlInv

LEMMA OpenedControl ==
  ASSUME kind \in Cameras, NEW f, LoadUserSet(f), ~grabbing', pc' = "opened", kind' = kind
  PROVE  ControlInv'
<1>1. /\ SequencerMode' = "Off" /\ SequencerConfigurationMode' = "Off"
      /\ SequencerSetStart' = kind.start /\ SequencerSetSelector' = 0
      /\ SequencerPathSelector' = 0
      /\ active' = Factory(f) /\ sets' = [s \in SetNumbers |-> Factory(f)]
  BY DEF LoadUserSet
<1>2. SetNumbers' = SetNumbers
  BY DEF SetNumbers
<1>3. ModeInv' /\ LoopInv' /\ RunInv'
  BY <1>1 DEF ModeInv, LoopInv, RunInv, Cycling, Looping, Selected, Finished
<1>4. SelectorInv'
  BY <1>1, SetsAreNumbers DEF SelectorInv, Looping, Selected, Finished
<1>5. Factory(f).trigger[0] = kind.trigger
  BY DEF Factory
<1>6. SourceSet' => kind.trigger \in EachImage
  BY DEF SourceSet, Looping, Selected, Finished
<1>7. TriggerInv'
  BY <1>1, <1>2, <1>5, <1>6 DEF TriggerInv, EachImageFires
<1> QED
  BY <1>3, <1>4, <1>7 DEF ControlInv

LEMMA ReopenKeeps ==
  ASSUME TypeOK, NEW r \in Requests, NEW f \in Formats, Reopen(r, f) PROVE ControlInv'
<1>1. LoadUserSet(f) /\ ~grabbing' /\ pc' = "opened" /\ kind' = kind
  BY DEF Reopen
<1> QED
  BY <1>1, OpenedControl DEF TypeOK

(* Where an exposure leads on a camera that can cycle: to the first set of  *)
(* the other profile if that was asked for, and to the next one of the      *)
(* profile otherwise.                                                       *)
LEMMA AdvanceLeads ==
  ASSUME TypeOK, ControlInv, Cycling, NEW profiles \in SUBSET {0, 1}, Advance(profiles)
  PROVE  /\ current \in AllSets
         /\ \/ /\ Dual /\ 1 - ProfileOf(current) \in profiles
               /\ current' = FirstSet(1 - ProfileOf(current))
            \/ /\ Dual => 1 - ProfileOf(current) \notin profiles
               /\ current' = NextInProfile(current)
<1> DEFINE signals == {SignalFor(p) : p \in profiles}
           c == sets[current]
           other == 1 - ProfileOf(current)
<1>1. /\ pc = "streaming" /\ current \in AllSets
      /\ Sure("Mode") /\ Sure("SetNext") /\ SetsAreWritten
  BY DEF Cycling, CanCycle, ControlInv, ModeInv, RunInv, Sure
<1>2. SequencerMode = "On" /\ (Dual => kind.paths = {0, 1})
  BY <1>1 DEF ControlInv, ModeInv, Finished
<1>3. \/ \E path \in kind.paths :
           /\ Fires(path, signals)
           /\ \A earlier \in 0 .. path - 1 : ~Fires(earlier, signals)
           /\ current' = c.next[path]
      \/ \A path \in kind.paths : ~Fires(path, signals)
  BY <1>2 DEF Advance
<1>4. current \in SetNumbers /\ Wired(c, current)
  BY <1>1 DEF ControlInv, LoopInv, Finished, AllWired, SetWired
<1>5. ProfileOf(current) \in {0, 1}
  BY <1>1, Allocation DEF TypeOK
<1>6. CASE Dual
  <2>1. ~kind.shared
    BY <1>6 DEF Cycling, CanCycle
  <2>2. /\ c.next[0] = FirstSet(other) /\ c.trigger[0] = SignalTo(other)
        /\ c.next[1] = NextInProfile(current) /\ c.trigger[1] = "ExposureActive"
    BY <1>4, <1>6, <2>1 DEF Wired, PathsWritten, SignalPathWritten
  <2>3. Fires(1, signals)
    BY <2>2, TriggersAssumption DEF Fires
  <2>4. Fires(0, signals) <=> SignalTo(other) \in signals
    BY <2>2, TriggersAssumption DEF Fires, SignalTo
  <2>5. SignalTo(other) \in signals <=> other \in profiles
    <3>1. other \in {0, 1}
      BY <1>5
    <3> HIDE DEF other
    <3>2. \A p \in {0, 1} : SignalFor(p) = SignalTo(other) <=> p = other
      BY <3>1 DEF SignalFor, SignalTo
    <3>3. profiles \subseteq {0, 1}
      OBVIOUS
    <3> QED
      BY <3>1, <3>2, <3>3
  <2>6. PICK path \in {0, 1} :
           /\ Fires(path, signals)
           /\ \A earlier \in 0 .. path - 1 : ~Fires(earlier, signals)
           /\ current' = c.next[path]
    BY <1>2, <1>3, <1>6, <2>3
  <2> HIDE DEF signals, c, other
  <2>7. path = 1 => ~Fires(0, signals)
    BY <2>6
  <2> QED
    BY <1>1, <1>6, <2>2, <2>4, <2>5, <2>6, <2>7 DEF other
<1>7. CASE ~Dual
  <2>1. c.next[0] = NextInProfile(current)
    BY <1>1, <1>4, <1>7 DEF Wired, PathsWritten
  <2>2. SourceSet
    BY <1>1, <1>7 DEF Cycling, CanCycle, SourceSet, Finished, Sure
  <2>3. Fires(0, signals)
    BY <1>4, <2>2 DEF ControlInv, TriggerInv, EachImageFires, Fires
  <2>4. kind.paths \in {{0}, {0, 1}}
    BY KindTyped DEF TypeOK
  <2> HIDE DEF signals, c
  <2>5. PICK path \in {0, 1} :
           /\ Fires(path, signals)
           /\ \A earlier \in 0 .. path - 1 : ~Fires(earlier, signals)
           /\ current' = c.next[path]
    BY <1>3, <2>3, <2>4
  <2>6. path = 1 => ~Fires(0, signals)
    BY <2>5
  <2>7. path = 0
    BY <2>3, <2>5, <2>6
  <2> QED
    BY <1>1, <1>7, <2>1, <2>5, <2>7
<1> QED
  BY <1>6, <1>7

(* The set it leads to is one of the sequences again.                       *)
LEMMA AdvanceStays ==
  ASSUME TypeOK, ControlInv, Cycling, NEW profiles \in SUBSET {0, 1}, Advance(profiles)
  PROVE  current' \in AllSets
BY AdvanceLeads, OtherProfile, Allocation DEF TypeOK

LEMMA AdvanceKeeps ==
  ASSUME TypeOK, ControlInv, NEW profiles \in SUBSET {0, 1}, Advance(profiles)
  PROVE  ControlInv'
<1>1. /\ grabbing /\ UNCHANGED <<modeVars, selectorVars, setVars, grabbing, requestVars, pc, i>>
  BY DEF Advance
<1>2. pc = "streaming" /\ pc' = "streaming"
  BY <1>1 DEF ControlInv, ModeInv
<1>3. SelectorInv' /\ TriggerInv'
  BY <1>1, <1>2, OutsideSets DEF requestVars, Looping, Finished, Selected
<1>4. /\ Dual' <=> Dual
      /\ AllSets' = AllSets
      /\ SetNumbers' = SetNumbers
      /\ \A r : Sure(r)' <=> Sure(r)
      /\ SetsAreWritten' <=> SetsAreWritten
  BY <1>1, SameCamera DEF requestVars
<1>5. /\ AllWired' <=> AllWired
      /\ AllFormatted' <=> AllFormatted
      /\ FormatWritten(active)' <=> FormatWritten(active)
  BY <1>1, SameSets, SameSet DEF setVars, requestVars, FormatWritten
<1>6. ModeInv'
  BY <1>1, <1>2, <1>4, <1>5 DEF ControlInv, ModeInv, modeVars, requestVars, Finished
<1>7. LoopInv'
  BY <1>1, <1>2, <1>4, <1>5 DEF ControlInv, LoopInv, Looping, Selected, Finished
<1>8. RunInv'
  <2>1. Cycling' => Cycling
    BY <1>1, SameCycling DEF Cycling, requestVars
  <2> QED
    BY <1>4, <2>1, AdvanceStays DEF RunInv
<1> QED
  BY <1>3, <1>6, <1>7, <1>8 DEF ControlInv

LEMMA StutterKeeps == ASSUME ControlInv, UNCHANGED vars PROVE ControlInv'
<1>1. UNCHANGED <<modeVars, selectorVars, setVars, runVars, requestVars, pc, i>>
  BY DEF vars
<1>2. /\ Dual' <=> Dual
      /\ AllSets' = AllSets
      /\ SetNumbers' = SetNumbers
      /\ \A r : Sure(r)' <=> Sure(r)
      /\ SetsAreWritten' <=> SetsAreWritten
      /\ ChosenTriggers' = ChosenTriggers
      /\ CanCycle' <=> CanCycle
  BY <1>1, SameCamera, SameCycling DEF requestVars
<1>3. /\ AllWired' <=> AllWired
      /\ AllFormatted' <=> AllFormatted
      /\ \A s : (SetWired(s)' <=> SetWired(s)) /\ (SetFormatted(s)' <=> SetFormatted(s))
  BY <1>1, SameSets DEF setVars, requestVars
<1>4. /\ SettingsDone' <=> SettingsDone
      /\ SignalPathDone' <=> SignalPathDone
      /\ PathsDone' <=> PathsDone
      /\ FormatWritten(active)' <=> FormatWritten(active)
  BY <1>1, SameSet
     DEF SettingsDone, SignalPathDone, PathsDone, FormatWritten, setVars, requestVars
<1>5. ModeInv' /\ SelectorInv'
  BY <1>1, <1>2, <1>3
     DEF ControlInv, ModeInv, SelectorInv, modeVars, selectorVars, setVars, runVars, requestVars
<1>6. TriggerInv'
  BY <1>1, <1>2
     DEF ControlInv, TriggerInv, SourceSet, EachImageFires, setVars, requestVars
<1>7. LoopInv'
  BY <1>1, <1>2, <1>3, <1>4 DEF ControlInv, LoopInv, selectorVars
<1>8. RunInv'
  BY <1>1, <1>2 DEF ControlInv, RunInv, Cycling, runVars
<1> QED
  BY <1>5, <1>6, <1>7, <1>8 DEF ControlInv

-----------------------------------------------------------------------------
(* The invariant.                                                           *)

LEMMA ControlKept == TypeOK /\ ControlInv /\ [Next]_vars => ControlInv'
<1> SUFFICES ASSUME TypeOK, ControlInv, [Next]_vars PROVE ControlInv'
  OBVIOUS
<1>1. CASE Configure
  BY <1>1, SetCapsKeeps, ModeOffKeeps, ConfigurationOnKeeps, SetTriggerKeeps, SetStartKeeps,
     SelectSetKeeps, LoadSetKeeps, WriteSettingsKeeps, WriteSignalPathKeeps,
     WriteDefaultPathKeeps, WriteNextKeeps, SaveSetKeeps, FinishingKeeps DEF Configure
<1>2. CASE Fails
  BY <1>2, FailsKeeps
<1>3. ASSUME NEW r \in Requests, NEW f \in Formats, Reopen(r, f) PROVE ControlInv'
  BY <1>3, ReopenKeeps
<1>4. ASSUME NEW profiles \in SUBSET {0, 1}, Advance(profiles) PROVE ControlInv'
  BY <1>4, AdvanceKeeps
<1>5. CASE UNCHANGED vars
  BY <1>5, StutterKeeps
<1> QED
  BY <1>1, <1>2, <1>3, <1>4, <1>5 DEF Next

LEMMA IInvInitially == Init => IInv
<1> SUFFICES ASSUME Init PROVE IInv
  OBVIOUS
<1>1. kind \in Cameras /\ pc = "opened" /\ ~grabbing
  BY DEF Init
<1>2. ModeInv /\ LoopInv /\ RunInv
  BY <1>1 DEF Init, ModeInv, LoopInv, RunInv, Cycling, Looping, Selected, Finished
<1>3. SelectorInv
  BY <1>1, SetsAreNumbers DEF Init, SelectorInv, Looping, Selected, Finished
<1>4. Factory(format).trigger[0] = kind.trigger
  BY DEF Factory
<1>5. SourceSet => kind.trigger \in EachImage
  BY <1>1 DEF SourceSet, Looping, Selected, Finished
<1>6. TriggerInv
  BY <1>4, <1>5 DEF Init, TriggerInv, EachImageFires
<1> QED
  BY <1>2, <1>3, <1>6, InitTyped DEF IInv, ControlInv

LEMMA IInvPreserved == IInv /\ [Next]_vars => IInv'
BY TypesKept, ControlKept DEF IInv, ControlInv

LEMMA Invariant == Spec => []IInv
BY IInvInitially, IInvPreserved, PTL DEF Spec

(* Every register of the camera and every variable of the element has a    *)
(* value of its type; a set that does not exist is never selected.         *)
THEOREM TypeCorrect == Spec => []TypeOK
<1>1. IInv => TypeOK
  BY DEF IInv
<1> QED
  BY <1>1, Invariant, PTL

(* The sequencer is never on in configuration mode, or with a set in which *)
(* a register that is always writable does not have the requested value:   *)
(* whatever the configure functions were asked for, wherever they failed,  *)
(* and whichever of the other registers they had to skip.                  *)
THEOREM RunsOnlyProgrammed == Spec => []OnlyRunsProgrammed
<1>1. IInv => OnlyRunsProgrammed
  <2> SUFFICES ASSUME IInv, SequencerMode = "On", Sure("Mode")
               PROVE  /\ Sure("ConfigurationMode") => SequencerConfigurationMode = "Off"
                      /\ SetsAreWritten => \A s \in AllSets : Programmed(s)
    BY DEF OnlyRunsProgrammed, Sure
  <2>1. /\ Sure("ConfigurationMode") => SequencerConfigurationMode = "Off"
        /\ SetsAreWritten => AllWired
        /\ Dual => kind.paths = {0, 1}
    BY DEF IInv, ControlInv, ModeInv
  <2>2. ASSUME SetsAreWritten, NEW s \in AllSets PROVE Programmed(s)
    <3>1. Wired(sets[s], s)
      BY <2>1, <2>2 DEF AllWired, SetWired
    <3>2. kind.paths \in {{0}, {0, 1}}
      BY KindTyped DEF IInv, TypeOK
    <3>3. Sure("SetNext") =>
            \E path \in kind.paths : sets[s].next[path] = NextInProfile(s)
      BY <2>1, <3>1, <3>2 DEF Wired, PathsWritten
    <3> QED
      BY <3>1, <3>3 DEF Programmed, Wired, StepWritten, Sure
  <2> QED
    BY <2>1, <2>2
<1> QED
  BY <1>1, Invariant, PTL

(* Whichever set the camera is in while it streams, with whatever it was   *)
(* loaded: it delivers the size and format of the caps, if the camera lets *)
(* them be written to the sets at all.                                     *)
THEOREM CapsAreDelivered == Spec => []DeliversCaps
<1>1. IInv => DeliversCaps
  BY DEF IInv, ControlInv, ModeInv, LoopInv, Finished, AllFormatted, SetFormatted, FormatWritten,
         DeliversCaps, Sure
<1> QED
  BY <1>1, Invariant, PTL

-----------------------------------------------------------------------------
(* The camera with its sequencer implements the cycle of exposures.         *)

LEMMA RestingSeen == ~Cycling => Cycle!Resting
BY DEF Cycle!Resting

LEMMA NotCycling ==
  ASSUME ~Cycling, ~Cycling', request' \in Requests PROVE Cycle!Choose
<1>1. /\ Cycling = FALSE /\ Cycling' = FALSE
  OBVIOUS
<1> QED
  BY <1>1 DEF Cycle!Choose

LEMMA StopSeen ==
  ASSUME Cycling, ~Cycling', request' \in Requests PROVE Cycle!Stop
BY DEF Cycle!Stop, Cycle!Resting

LEMMA CyclingSame ==
  ASSUME Cycling, Cycling',
         UNCHANGED <<SequencerMode, active, sets, current, request, asked, image>>
  PROVE  UNCHANGED Cycle!vars
BY DEF Cycle!vars, ProfileOf, FirstSet

LEMMA ExposeSeen ==
  ASSUME Cycling', request' = request, SequencerMode' = "On", NEW p, NEW k,
         ProfileOf(current') = p, current' - FirstSet(p) = k,
         sets'[current'].step = request[p][k + 1]
  PROVE  Cycle!Expose(p, k)
BY DEF Cycle!Expose, ProfileOf, FirstSet

(* The step a set that is programmed exposes with.                          *)
LEMMA ExposedStep ==
  ASSUME TypeOK, AllWired, CanCycle, NEW s \in AllSets
  PROVE  sets[s].step = request[ProfileOf(s)][(s - FirstSet(ProfileOf(s))) + 1]
<1>1. s \in SetNumbers /\ StepWritten(sets[s], s)
  BY DEF AllWired, SetWired, Wired
<1>2. /\ sets[s].step.exposure = StepOf(s).exposure
      /\ sets[s].step.gain = StepOf(s).gain
  BY <1>1 DEF StepWritten, CanCycle, Sure
<1>3. sets[s].step \in Steps
  BY <1>1 DEF TypeOK, Set
<1>4. StepOf(s) \in Steps
  BY StepsAreAsked DEF TypeOK
<1>5. sets[s].step = StepOf(s)
  BY <1>2, <1>3, <1>4 DEF Steps
<1> QED
  BY <1>5 DEF StepOf

LEMMA CycleInitially == Init => Cycle!Init
<1> SUFFICES ASSUME Init PROVE Cycle!Init
  OBVIOUS
<1>1. ~Cycling /\ request \in Requests
  BY DEF Init, Cycling
<1> QED
  BY <1>1, RestingSeen DEF Cycle!Init

LEMMA StartIsStart ==
  ASSUME TypeOK, ControlInv, Start, Cycling' PROVE Cycle!Start
<1>1. /\ pc = "start" /\ grabbing' = TRUE /\ asked' = {} /\ image' = 0
      /\ current' = SequencerSetStart
      /\ UNCHANGED <<SequencerMode, sets, kind, request>>
  BY DEF Start, setVars, requestVars, modeVars
<1>2. CanCycle /\ SetsAreWritten /\ Sure("Mode") /\ (kind.start = 0 \/ Sure("SetStart"))
  BY <1>1, SameCycling DEF Cycling, CanCycle, Sure
<1>3. ~Cycling
  BY <1>1 DEF ControlInv, ModeInv, Cycling
<1>4. AllWired /\ SequencerMode = "On" /\ SequencerSetStart = 0
  BY <1>1, <1>2 DEF ControlInv, LoopInv, ModeInv, SelectorInv, Finished
<1>5. SetCount \in Nat \ {0} /\ Len(request[0]) \in Nat \ {0}
  BY Lengths DEF TypeOK
<1>6. 0 \in AllSets /\ ProfileOf(0) = 0 /\ FirstSet(0) = 0
  BY <1>5 DEF AllSets, ProfileOf, FirstSet
<1>7. sets'[0].step = request[0][0 + 1]
  <2>1. sets[0].step = request[0][(0 - 0) + 1]
    BY <1>2, <1>4, <1>6, ExposedStep
  <2> QED
    BY <1>1, <2>1
<1>8. Cycle!Expose(0, 0)
  <2>1. current' - FirstSet(0) = 0
    BY <1>1, <1>4, <1>6
  <2> QED
    BY <1>1, <1>4, <1>6, <1>7, <2>1, ExposeSeen
<1> QED
  BY <1>1, <1>3, <1>8 DEF Cycle!Start

LEMMA AdvanceIsExposure ==
  ASSUME TypeOK, ControlInv, Cycling, NEW profiles \in SUBSET {0, 1}, Advance(profiles)
  PROVE  Cycle!NextExposure \/ Cycle!SwitchProfile
<1> DEFINE p == ProfileOf(current)
           k == current - FirstSet(p)
<1>1. /\ current \in AllSets
      /\ \/ /\ Dual /\ 1 - p \in profiles
            /\ current' = FirstSet(1 - p)
         \/ /\ Dual => 1 - p \notin profiles
            /\ current' = NextInProfile(current)
  BY AdvanceLeads
<1>2. /\ asked' = profiles /\ image' = 1 - image
      /\ UNCHANGED <<SequencerMode, grabbing, sets, kind, request>>
  BY DEF Advance, modeVars, setVars, requestVars
<1>3. CanCycle /\ Cycling' /\ pc = "streaming"
  BY <1>2, SameCycling DEF Cycling, ControlInv, ModeInv
<1>4. AllWired /\ request \in Requests /\ SequencerMode' = "On"
  BY <1>2, <1>3 DEF ControlInv, ModeInv, LoopInv, Finished, TypeOK, CanCycle, Sure
<1>5. current' \in AllSets
  BY AdvanceStays
<1>6. sets[current'].step = request[ProfileOf(current')][(current' - FirstSet(ProfileOf(current'))) + 1]
  BY <1>3, <1>4, <1>5, ExposedStep
<1>7. p \in {0, 1} /\ (p = 1 => Dual)
  BY <1>1, <1>4, Allocation
<1>8. Cycle!AskedForOther <=> 1 - p \in profiles /\ request[1 - p] # <<>>
  BY <1>2, <1>3 DEF Cycle!AskedForOther
<1>9. request[0] # <<>> /\ (Dual <=> request[1] # <<>>)
  BY <1>4, RequestsAssumption DEF Dual
<1>10. request[1 - p] # <<>> <=> Dual
  <2>1. CASE p = 0
    <3>1. 1 - p = 1
      BY <2>1
    <3> QED
      BY <1>9, <3>1
  <2>2. CASE p = 1
    <3>1. 1 - p = 0
      BY <2>2
    <3> QED
      BY <1>7, <1>9, <2>2, <3>1
  <2> QED
    BY <1>7, <2>1, <2>2
<1>11. /\ asked' = profiles /\ profiles \in SUBSET {0, 1}
       /\ (IF Cycling THEN image ELSE 0) = image
       /\ (IF Cycling THEN image ELSE 0)' = 1 - image
       /\ (IF Cycling THEN asked ELSE {})' = profiles
  BY <1>2, <1>3
<1>12. CASE Dual /\ 1 - p \in profiles
  <2>1. current' = FirstSet(1 - p)
    BY <1>1, <1>12
  <2>2. ProfileOf(current') = 1 - p
    BY <1>1, <1>4, <1>12, <2>1, OtherProfile
  <2>3. current' - FirstSet(1 - p) = 0
    <3>1. current' \in Int
      BY <1>5 DEF AllSets
    <3> QED
      BY <2>1, <3>1
  <2>4. sets'[current'].step = request[1 - p][0 + 1]
    BY <1>2, <1>6, <2>2, <2>3
  <2>5. Cycle!Expose(1 - p, 0)
    <3> HIDE DEF p
    <3> QED
      BY <1>2, <1>3, <1>4, <2>2, <2>3, <2>4, ExposeSeen
  <2>6. Cycle!SwitchProfile
    BY <1>8, <1>10, <1>11, <1>12, <2>5 DEF Cycle!SwitchProfile
  <2> QED
    BY <2>6
<1>13. CASE ~(Dual /\ 1 - p \in profiles)
  <2>1. current' = NextInProfile(current)
    BY <1>1, <1>13
  <2>2. ProfileOf(current') = p /\ current' - FirstSet(p) = (k + 1) % Len(request[p])
    BY <1>1, <1>4, <2>1, Allocation
  <2>3. sets'[current'].step = request[p][((k + 1) % Len(request[p])) + 1]
    BY <1>2, <1>6, <2>2
  <2>4. Cycle!Expose(p, (k + 1) % Len(request[p]))
    <3> HIDE DEF p, k
    <3> QED
      BY <1>2, <1>3, <1>4, <2>2, <2>3, ExposeSeen
  <2>5. Cycle!NextExposure
    BY <1>8, <1>10, <1>11, <1>13, <2>4 DEF Cycle!NextExposure
  <2> QED
    BY <2>5
<1> QED
  BY <1>12, <1>13

LEMMA StepImplements == IInv /\ IInv' /\ [Next]_vars => [Cycle!Next]_(Cycle!vars)
<1> SUFFICES ASSUME IInv, IInv', [Next]_vars PROVE Cycle!Next \/ UNCHANGED Cycle!vars
  OBVIOUS
<1>1. TypeOK /\ ControlInv /\ request' \in Requests
  BY DEF IInv, TypeOK
<1>2. pc \in Configuring => ~grabbing
  BY DEF IInv, ControlInv, ModeInv, Configuring
<1>3. ~Cycling' => Cycle!Next
  BY <1>1, NotCycling, StopSeen DEF Cycle!Next
<1>4. ASSUME NEW f \in Formats, SetCaps(f) PROVE ~Cycling'
  BY <1>4 DEF SetCaps, Cycling
<1>5. CASE \/ ModeOff \/ ConfigurationOn \/ SetTrigger \/ SetStart \/ SelectSet \/ LoadSet
           \/ WriteSettings \/ WriteSignalPath \/ WriteDefaultPath \/ WriteNext \/ SaveSet
           \/ ConfigurationOff \/ ModeOn \/ Fails
  <2>1. pc \in Configuring /\ UNCHANGED runVars
    BY <1>5 DEF ModeOff, ConfigurationOn, SetTrigger, SetStart, SelectSet, LoadSet,
         WriteSettings, WriteSignalPath, WriteDefaultPath, WriteNext, SaveSet, ConfigurationOff,
         ModeOn, Fails, Configuring
  <2>2. ~Cycling'
    BY <1>2, <2>1 DEF runVars, Cycling
  <2> QED
    BY <1>3, <2>2
<1>6. CASE Start
  BY <1>1, <1>3, <1>6, StartIsStart DEF Cycle!Next
<1>7. ASSUME NEW r \in Requests, NEW f \in Formats, Reopen(r, f) PROVE ~Cycling'
  BY <1>7 DEF Reopen, Cycling
<1>8. ASSUME NEW profiles \in SUBSET {0, 1}, Advance(profiles)
      PROVE  Cycle!Next
  <2>1. Cycling' => Cycling
    BY <1>8, SameCycling DEF Advance, Cycling, requestVars
  <2> QED
    BY <1>1, <1>3, <1>8, <2>1, AdvanceIsExposure DEF Cycle!Next
<1>9. CASE UNCHANGED vars
  <2>1. UNCHANGED <<SequencerMode, active, sets, grabbing, current, request, asked, image, kind>>
    BY <1>9 DEF vars, modeVars, setVars, runVars, requestVars
  <2>2. Cycling' => Cycling
    BY <2>1, SameCycling DEF Cycling
  <2>3. Cycling' => UNCHANGED Cycle!vars
    BY <2>1, <2>2, CyclingSame
  <2> QED
    BY <1>3, <2>3
<1> QED
  BY <1>3, <1>4, <1>5, <1>6, <1>7, <1>8, <1>9 DEF Next, Configure

(* On a camera that can cycle, the registers that the configure functions  *)
(* write make it cycle through the steps of the profiles as asked for, and *)
(* change the profile at the signal: every step of it is one of the cycle  *)
(* or a stutter.                                                           *)
THEOREM SequencerImplementsCycle == Spec => ImplementsCycle
BY CycleInitially, StepImplements, Invariant, PTL DEF Spec, ImplementsCycle, Cycle!Spec

-----------------------------------------------------------------------------
(* The switcher, which decides when the signal is sent that this sequencer *)
(* waits for. The count of signals is for any count of retries, the one of *)
(* each profile for the single try that set_property asks for.             *)

InTest == create \in {"testing", "decrementing", "storing"}
Deciding == create \in {"comparing", "resetting", "signalling"}
Loaded == create \in {"decrementing", "storing"} \/ Deciding
Unreset == create \in {"decrementing", "storing", "comparing", "resetting"}

(* The count does not fall behind the streaming thread's back, so that what *)
(* it has loaded is positive and not more than what is there.               *)
CountInv ==
  /\ InTest => loaded > 0 /\ loaded <= retry_count_
  /\ create = "comparing" => loaded < RetryCount

One(condition) == IF condition THEN 1 ELSE 0

(* Signals sent, one that is being decided, and what the count may cause.   *)
Budget ==
  pulses[0] + pulses[1] + One(Deciding) + retry_count_
    + (IF "retry_count_" \in stores THEN RetryCount ELSE 0)
  <= RetryCount * (requests[0] + requests[1])

(* Where a profile may come from.                                           *)
Asked(p) == requests[p] > 0
SourcesInv ==
  /\ target_profile_ # None => Asked(target_profile_)
  /\ signal_profile # None => Asked(signal_profile)
  /\ stores # {} => Asked(new_profile)
  /\ \A p \in Profiles : pulses[p] > 0 => Asked(p)

(* In an optimised build that tries once a request is in one place only:    *)
(* about to be stored, stored where nobody resets it, or being signalled.   *)
Pending(p) == "target_profile_" \in stores /\ new_profile = p
Stored(p) == target_profile_ = p /\ ~Unreset
Signalled(p) == Loaded /\ signal_profile = p
Tokens(p) == One(Pending(p)) + One(Stored(p)) + One(Signalled(p))
TokensInv == \A p \in Profiles : optimised => pulses[p] + Tokens(p) <= requests[p]

SwitcherInv ==
  /\ SwitcherTypeOK
  /\ CountInv
  /\ Budget
  /\ SourcesInv
  /\ RetryCount = 1 => TokensInv

-----------------------------------------------------------------------------
(* Arithmetic.                                                             *)

LEMMA OneMore ==
  ASSUME NEW r \in Nat, NEW m \in Nat
  PROVE  r * (m + 1) = r * m + r
BY SMT

LEMMA OnePulse ==
  ASSUME NEW s \in Nat, NEW t \in Nat, NEW c \in Nat, NEW x \in Nat, t <= s + 1
  PROVE  t + 0 + c + x <= s + 1 + c + x
OBVIOUS

LEMMA Product ==
  ASSUME NEW r \in Nat, NEW m \in Nat PROVE r * m \in Nat
BY SMT

-----------------------------------------------------------------------------

LEMMA NoProfile == None \notin Profiles
BY DEF None, Profiles

LEMMA SwitcherTypesKept == SwitcherTypeOK /\ CountInv /\ [SwitcherNext]_switchVars => SwitcherTypeOK'
<1> SUFFICES ASSUME SwitcherTypeOK, CountInv, [SwitcherNext]_switchVars PROVE SwitcherTypeOK'
  OBVIOUS
<1>0. /\ retry_count_ \in 0 .. RetryCount /\ RetryCount \in Nat \ {0}
      /\ target_profile_ \in Profiles \cup {None} /\ new_profile \in Profiles
  BY RetryCountAssumption DEF SwitcherTypeOK
<1> USE DEF switcherVars, appVars, streamVars, historyVars
<1>1. ASSUME NEW p \in Profiles, SetHdrProfile(p), UNCHANGED optimised PROVE SwitcherTypeOK'
  <2>1. /\ UNCHANGED <<configured, target_profile_, retry_count_, create, loaded, signal_profile,
                     pulses>>
        /\ new_profile' = p /\ wanted' = p /\ stores' = Fields
        /\ requests' = [requests EXCEPT ![p] = @ + 1]
        /\ spoiled' = InGetPendingSignal
    BY <1>1 DEF SetHdrProfile
  <2>2. requests' \in [Profiles -> Nat]
    <3>1. requests \in [Profiles -> Nat]
      BY DEF SwitcherTypeOK
    <3> QED
      BY <2>1, <3>1
  <2>3. spoiled' \in BOOLEAN
    <3>1. InGetPendingSignal \in BOOLEAN
      BY DEF InGetPendingSignal
    <3> QED
      BY <2>1, <3>1
  <2> QED
    BY <1>1, <2>1, <2>2, <2>3 DEF SwitcherTypeOK
<1>2. CASE Storing
  <2>1. stores' \subseteq stores
    BY <1>2 DEF Storing, StoreTarget, StoreRetryCount
  <2>2. /\ retry_count_' \in {retry_count_, RetryCount}
        /\ target_profile_' \in {target_profile_, new_profile}
    BY <1>2 DEF Storing, StoreTarget, StoreRetryCount
  <2>3. UNCHANGED <<optimised, new_profile, streamVars, historyVars>>
    BY <1>2 DEF Storing, StoreTarget, StoreRetryCount
  <2>4. stores' \subseteq Fields
    BY <2>1 DEF SwitcherTypeOK
  <2>5. retry_count_' \in 0 .. RetryCount /\ target_profile_' \in Profiles \cup {None}
    BY <1>0, <2>2
  <2> QED
    BY <2>3, <2>4, <2>5 DEF SwitcherTypeOK
<1>3. CASE Streaming
  <2>0. UNCHANGED optimised
    BY <1>3 DEF Streaming
  <2>1. CASE TestRetryCount
    <3>1. /\ UNCHANGED <<switcherVars, appVars, configured, signal_profile, pulses, requests,
                         wanted>>
          /\ loaded' = retry_count_ /\ create' \in {"capturing", "testing"}
      BY <2>1 DEF TestRetryCount
    <3>2. spoiled' \in BOOLEAN
      BY <2>1, Zenon DEF TestRetryCount
    <3> QED
      BY <2>0, <3>1, <3>2 DEF SwitcherTypeOK
  <2>2. CASE LoadTarget \/ LoadRetryCount \/ Compare \/ ResetTarget \/ Captured
    <3>1. /\ UNCHANGED <<retry_count_, appVars, configured, historyVars>>
          /\ target_profile_' \in {target_profile_, None}
          /\ loaded' \in {loaded, retry_count_}
          /\ signal_profile' \in {signal_profile, target_profile_}
          /\ create' \in {"entered", "decrementing", "storing", "resetting", "signalling"}
      BY <2>2 DEF LoadTarget, LoadRetryCount, Compare, ResetTarget, Captured
    <3>2. /\ target_profile_' \in Profiles \cup {None}
          /\ signal_profile' \in Profiles \cup {None}
          /\ loaded' \in 0 .. RetryCount
      BY <3>1 DEF SwitcherTypeOK
    <3> QED
      BY <2>0, <3>1, <3>2 DEF SwitcherTypeOK
  <2>3. CASE StoreDecremented
    <3>1. /\ UNCHANGED <<target_profile_, appVars, configured, signal_profile, historyVars>>
          /\ retry_count_' = loaded - 1 /\ loaded' = loaded - 1
          /\ create = "storing" /\ create' = "comparing"
      BY <2>3 DEF StoreDecremented
    <3>2. loaded - 1 \in 0 .. RetryCount
      BY <3>1, RetryCountAssumption DEF CountInv, InTest, SwitcherTypeOK
    <3> QED
      BY <2>0, <3>1, <3>2 DEF SwitcherTypeOK
  <2>4. CASE SwitchHdrProfile
    <3>1. pulses' \in [Profiles -> Nat]
      <4>1. \/ pulses' = pulses
            \/ signal_profile \in Profiles /\ pulses' = CountPulse(signal_profile)
        BY <2>4 DEF SwitchHdrProfile
      <4>2. CountPulse(signal_profile) \in {pulses, [pulses EXCEPT ![signal_profile] = @ + 1]}
        BY DEF CountPulse
      <4>3. pulses \in [Profiles -> Nat]
        BY DEF SwitcherTypeOK
      <4> QED
        BY <4>1, <4>2, <4>3
    <3>2. /\ UNCHANGED <<switcherVars, appVars, configured, loaded, signal_profile, requests>>
          /\ wanted' \in {wanted, None} /\ create' = "capturing"
      BY <2>4 DEF SwitchHdrProfile
    <3>3. spoiled' \in BOOLEAN
      BY <2>4 DEF SwitchHdrProfile, SwitcherTypeOK
    <3> QED
      BY <2>0, <3>1, <3>2, <3>3 DEF SwitcherTypeOK
  <2>5. CASE StopResetsTarget \/ StopResetsRetryCount
    <3>1. /\ UNCHANGED <<appVars, configured, loaded, signal_profile, historyVars>>
          /\ target_profile_' \in {target_profile_, None}
          /\ create' \in {"stopping count", "stopped"}
      BY <2>5 DEF StopResetsTarget, StopResetsRetryCount
    <3>2. retry_count_' = retry_count_ \/ retry_count_' = 0
      BY <2>5 DEF StopResetsTarget, StopResetsRetryCount
    <3>3. retry_count_ \in 0 .. RetryCount
      BY <1>0
    <3>4. retry_count_' \in 0 .. RetryCount
      BY <3>2, <3>3, RetryCountAssumption
    <3> QED
      BY <2>0, <3>1, <3>4 DEF SwitcherTypeOK
  <2> QED
    BY <1>3, <2>1, <2>2, <2>3, <2>4, <2>5 DEF Streaming
<1>4. CASE StoppingOrStarting
  BY <1>4 DEF StoppingOrStarting, ResetPlugin, Restart, SwitcherTypeOK
<1>5. CASE UNCHANGED switchVars
  BY <1>5 DEF switchVars, SwitcherTypeOK
<1> QED
  BY <1>1, <1>2, <1>3, <1>4, <1>5 DEF SwitcherNext, Requesting

LEMMA CountKept == SwitcherTypeOK /\ CountInv /\ [SwitcherNext]_switchVars => CountInv'
<1> SUFFICES ASSUME SwitcherTypeOK, CountInv, [SwitcherNext]_switchVars PROVE CountInv'
  OBVIOUS
<1>0. retry_count_ \in 0 .. RetryCount /\ loaded \in 0 .. RetryCount /\ RetryCount \in Nat \ {0}
  BY RetryCountAssumption DEF SwitcherTypeOK
<1> USE DEF CountInv, InTest, switcherVars, appVars, streamVars, historyVars
<1>1. ASSUME NEW p \in Profiles, SetHdrProfile(p) PROVE CountInv'
  BY <1>1 DEF SetHdrProfile
<1>2. CASE StoreTarget
  BY <1>2 DEF StoreTarget
<1>3. CASE StoreRetryCount
  BY <1>0, <1>3 DEF StoreRetryCount
<1>4. CASE TestRetryCount
  <2>1. /\ UNCHANGED retry_count_ /\ loaded' = retry_count_
        /\ create' = IF retry_count_ <= 0 THEN "capturing" ELSE "testing"
    BY <1>4 DEF TestRetryCount
  <2> QED
    BY <1>0, <2>1
<1>5. CASE LoadTarget
  BY <1>5 DEF LoadTarget
<1>6. CASE LoadRetryCount
  <2>1. /\ UNCHANGED retry_count_ /\ loaded' \in {retry_count_, loaded}
        /\ create = "decrementing" /\ create' = "storing"
    BY <1>6 DEF LoadRetryCount
  <2> QED
    BY <1>0, <2>1
<1>7. ASSUME \/ Compare \/ ResetTarget \/ SwitchHdrProfile \/ Captured
             \/ StopResetsTarget \/ StopResetsRetryCount \/ ResetPlugin \/ Restart
      PROVE  ~InTest' /\ create' # "comparing"
  BY <1>7 DEF Compare, ResetTarget, SwitchHdrProfile, Captured,
              StopResetsTarget, StopResetsRetryCount, ResetPlugin, Restart
<1>9. CASE StoreDecremented
  <2>1. create = "storing" /\ create' = "comparing" /\ loaded' = loaded - 1
    BY <1>9 DEF StoreDecremented
  <2>2. loaded - 1 < RetryCount
    BY <1>0
  <2>3. ~InTest'
    BY <2>1
  <2> QED
    BY <2>1, <2>2, <2>3
<1>8. CASE UNCHANGED switchVars
  BY <1>8 DEF switchVars
<1> QED
  BY <1>1, <1>2, <1>3, <1>4, <1>5, <1>6, <1>7, <1>8, <1>9
     DEF SwitcherNext, Requesting, Storing, Streaming, StoppingOrStarting

LEMMA BudgetKept == SwitcherTypeOK /\ CountInv /\ Budget /\ [SwitcherNext]_switchVars => Budget'
<1> SUFFICES ASSUME SwitcherTypeOK, CountInv, Budget, [SwitcherNext]_switchVars PROVE Budget'
  OBVIOUS
<1> DEFINE sent == pulses[0] + pulses[1]
           requested == requests[0] + requests[1]
           store == IF "retry_count_" \in stores THEN RetryCount ELSE 0
<1>0. /\ sent \in Nat /\ requested \in Nat /\ retry_count_ \in 0 .. RetryCount
      /\ RetryCount \in Nat \ {0} /\ RetryCount * requested \in Nat
      /\ sent + One(Deciding) + retry_count_ + store <= RetryCount * requested
  <2>1. pulses \in [Profiles -> Nat] /\ requests \in [Profiles -> Nat]
    BY DEF SwitcherTypeOK
  <2>2. sent \in Nat /\ requested \in Nat
    BY <2>1 DEF Profiles
  <2>3. RetryCount * requested \in Nat
    BY <2>2, RetryCountAssumption, Product
  <2>4. retry_count_ \in 0 .. RetryCount
    BY DEF SwitcherTypeOK
  <2> QED
    BY <2>2, <2>3, <2>4, RetryCountAssumption DEF Budget
<1> USE DEF switcherVars, appVars, streamVars, historyVars
<1>1. ASSUME NEW p \in Profiles, SetHdrProfile(p) PROVE Budget'
  <2>1. requested' = requested + 1
    <3>1. requests \in [Profiles -> Nat] /\ requests' = [requests EXCEPT ![p] = @ + 1]
      BY <1>1 DEF SetHdrProfile, SwitcherTypeOK
    <3> QED
      BY <3>1 DEF Profiles
  <2>2. UNCHANGED <<pulses, create, retry_count_>> /\ store = 0 /\ store' = RetryCount
    BY <1>1 DEF SetHdrProfile, Fields
  <2>3. RetryCount * (requested + 1) = RetryCount * requested + RetryCount
    BY <1>0, OneMore
  <2>4. sent' = sent /\ One(Deciding)' = One(Deciding) /\ One(Deciding) \in {0, 1}
    BY <2>2 DEF One, Deciding
  <2> HIDE DEF sent, requested, store
  <2>5. sent' + One(Deciding)' + retry_count_' + store' <= RetryCount * requested'
    BY <1>0, <2>1, <2>2, <2>3, <2>4
  <2> QED
    BY <2>5 DEF Budget, sent, requested, store
<1>2. ASSUME requests' = requests,
             sent' + One(Deciding)' + retry_count_' + store'
               <= sent + One(Deciding) + retry_count_ + store,
             sent' \in Nat, retry_count_' \in Nat
      PROVE  Budget'
  <2>1. requested' = requested /\ One(Deciding)' \in {0, 1} /\ One(Deciding) \in {0, 1}
    BY <1>2 DEF One
  <2>2. store \in Nat /\ store' \in Nat
    BY <1>0
  <2> HIDE DEF sent, requested, store
  <2>3. sent' + One(Deciding)' + retry_count_' + store' <= RetryCount * requested'
    BY <1>0, <1>2, <2>1, <2>2
  <2> QED
    BY <2>3 DEF Budget, sent, requested, store
<1>3. CASE Storing
  BY <1>0, <1>2, <1>3, RetryCountAssumption DEF Storing, StoreTarget, StoreRetryCount, Deciding, One
<1>4. CASE Streaming
  <2>1. CASE SwitchHdrProfile
    <3>1. UNCHANGED <<retry_count_, stores, requests>> /\ Deciding /\ ~Deciding'
      BY <2>1 DEF SwitchHdrProfile, Deciding
    <3>2. sent' \in Nat /\ sent' <= sent + 1
      <4>1. pulses \in [Profiles -> Nat] /\ signal_profile \in Profiles \cup {None}
        BY DEF SwitcherTypeOK
      <4>2. \/ pulses' = pulses
            \/ signal_profile \in Profiles /\ pulses' = CountPulse(signal_profile)
        BY <2>1 DEF SwitchHdrProfile
      <4>3. CountPulse(signal_profile) \in {pulses, [pulses EXCEPT ![signal_profile] = @ + 1]}
        BY DEF CountPulse
      <4> QED
        BY <4>1, <4>2, <4>3 DEF Profiles
    <3>3. store' = store /\ One(Deciding) = 1 /\ One(Deciding)' = 0 /\ store \in Nat
      BY <1>0, <3>1 DEF One
    <3>4. sent \in Nat /\ retry_count_ \in Nat /\ retry_count_' = retry_count_
      BY <1>0, <3>1
    <3> HIDE DEF sent, store
    <3>5. sent' + 0 + retry_count_ + store <= sent + 1 + retry_count_ + store
      BY <3>2, <3>3, <3>4, OnePulse
    <3>6. /\ sent' \in Nat /\ retry_count_' \in Nat
          /\ sent' + One(Deciding)' + retry_count_' + store'
               <= sent + One(Deciding) + retry_count_ + store
      BY <3>2, <3>3, <3>4, <3>5
    <3> QED
      BY <1>2, <3>1, <3>6
  <2>2. CASE StoreDecremented
    <3>1. /\ UNCHANGED <<stores, requests, pulses>> /\ ~Deciding /\ Deciding'
          /\ retry_count_' = loaded - 1
      BY <2>2 DEF StoreDecremented, Deciding
    <3>2. loaded > 0 /\ loaded <= retry_count_ /\ loaded \in Nat
      BY <2>2 DEF StoreDecremented, CountInv, InTest, SwitcherTypeOK
    <3>3. sent' = sent /\ store' = store /\ One(Deciding) = 0 /\ One(Deciding)' = 1 /\ store \in Nat
      BY <1>0, <3>1 DEF One
    <3>4. sent \in Nat /\ retry_count_ \in Nat /\ retry_count_' = loaded - 1
      BY <1>0, <3>1
    <3> HIDE DEF sent, store
    <3>5. /\ sent' \in Nat /\ retry_count_' \in Nat
          /\ sent' + One(Deciding)' + retry_count_' + store'
               <= sent + One(Deciding) + retry_count_ + store
      BY <3>2, <3>3, <3>4
    <3> QED
      BY <1>2, <3>1, <3>5
  <2>3. CASE StopResetsRetryCount
    <3>1. /\ UNCHANGED <<stores, requests, pulses>> /\ ~Deciding /\ ~Deciding'
          /\ retry_count_' = 0
      BY <2>3 DEF StopResetsRetryCount, Deciding
    <3>2. sent' = sent /\ store' = store /\ One(Deciding) = 0 /\ One(Deciding)' = 0 /\ store \in Nat
      BY <1>0, <3>1 DEF One
    <3> HIDE DEF sent, store
    <3>3. /\ sent' \in Nat /\ retry_count_' \in Nat
          /\ sent' + One(Deciding)' + retry_count_' + store'
               <= sent + One(Deciding) + retry_count_ + store
      BY <1>0, <3>1, <3>2
    <3> QED
      BY <1>2, <3>1, <3>3
  <2>4. CASE \/ TestRetryCount \/ LoadTarget \/ LoadRetryCount \/ Compare \/ ResetTarget
             \/ Captured \/ StopResetsTarget
    <3>1. /\ UNCHANGED <<stores, requests, pulses, retry_count_>>
          /\ Deciding' <=> Deciding
      BY <2>4 DEF TestRetryCount, LoadTarget, LoadRetryCount, Compare, ResetTarget, Captured,
                  StopResetsTarget, Deciding
    <3> QED
      BY <1>0, <1>2, <3>1 DEF One
  <2> QED
    BY <1>4, <2>1, <2>2, <2>3, <2>4 DEF Streaming
<1>5. CASE StoppingOrStarting \/ UNCHANGED switchVars
  <2>1. /\ UNCHANGED <<stores, requests, pulses, retry_count_>>
        /\ Deciding' <=> Deciding
    BY <1>5 DEF StoppingOrStarting, ResetPlugin, Restart, switchVars, Deciding
  <2> QED
    BY <1>0, <1>2, <2>1 DEF One
<1> QED
  BY <1>1, <1>3, <1>4, <1>5 DEF SwitcherNext, Requesting

LEMMA SourcesKept == SwitcherTypeOK /\ SourcesInv /\ [SwitcherNext]_switchVars => SourcesInv'
<1> SUFFICES ASSUME SwitcherTypeOK, SourcesInv, [SwitcherNext]_switchVars PROVE SourcesInv'
  OBVIOUS
<1> USE DEF switcherVars, appVars, streamVars, historyVars
<1>0. /\ requests \in [Profiles -> Nat] /\ pulses \in [Profiles -> Nat]
      /\ target_profile_ \in Profiles \cup {None} /\ signal_profile \in Profiles \cup {None}
      /\ new_profile \in Profiles /\ None \notin Profiles
  BY NoProfile DEF SwitcherTypeOK
<1>a. ASSUME UNCHANGED requests,
             target_profile_' \in {target_profile_, None},
             signal_profile' \in {signal_profile, target_profile_},
             stores' = stores, new_profile' = new_profile, pulses' = pulses
      PROVE  SourcesInv'
  BY <1>a DEF SourcesInv, Asked
<1>1. ASSUME NEW p \in Profiles, SetHdrProfile(p) PROVE SourcesInv'
  <2>1. /\ requests' = [requests EXCEPT ![p] = @ + 1] /\ new_profile' = p
        /\ UNCHANGED <<target_profile_, signal_profile, pulses>>
    BY <1>1 DEF SetHdrProfile
  <2>2. \A q \in Profiles : Asked(q) => Asked(q)'
    BY <1>0, <2>1 DEF Asked
  <2>3. Asked(p)'
    BY <1>0, <2>1 DEF Asked
  <2>4. target_profile_' # None => Asked(target_profile_)'
    BY <1>0, <2>1, <2>2 DEF SourcesInv, Asked
  <2>5. signal_profile' # None => Asked(signal_profile)'
    BY <1>0, <2>1, <2>2 DEF SourcesInv, Asked
  <2>6. Asked(new_profile)'
    BY <2>1, <2>3 DEF Asked
  <2> QED
    BY <2>1, <2>2, <2>4, <2>5, <2>6 DEF SourcesInv
<1>2. CASE StoreTarget
  BY <1>2 DEF StoreTarget, SourcesInv, Asked
<1>3. CASE StoreRetryCount
  BY <1>3 DEF StoreRetryCount, SourcesInv, Asked
<1>4. CASE SwitchHdrProfile
  <2>1. UNCHANGED <<requests, target_profile_, signal_profile, stores, new_profile>>
    BY <1>4 DEF SwitchHdrProfile
  <2>2. \/ pulses' = pulses
        \/ signal_profile \in Profiles /\ pulses' = CountPulse(signal_profile)
    BY <1>4 DEF SwitchHdrProfile
  <2>3. CountPulse(signal_profile) \in {pulses, [pulses EXCEPT ![signal_profile] = @ + 1]}
    BY DEF CountPulse
  <2>4. ASSUME NEW q \in Profiles, pulses'[q] > 0 PROVE Asked(q)
    <3>1. CASE q = signal_profile
      BY <1>0, <3>1 DEF SourcesInv
    <3>2. CASE q # signal_profile
      <4>1. pulses'[q] = pulses[q]
        BY <1>0, <2>2, <2>3, <3>2
      <4> QED
        BY <2>4, <4>1 DEF SourcesInv
    <3> QED
      BY <3>1, <3>2
  <2> QED
    BY <2>1, <2>4 DEF SourcesInv, Asked
<1>5. ASSUME \/ TestRetryCount \/ LoadTarget \/ LoadRetryCount \/ StoreDecremented \/ Compare
             \/ ResetTarget \/ Captured \/ StopResetsTarget \/ StopResetsRetryCount
             \/ ResetPlugin \/ Restart
      PROVE  SourcesInv'
  <2>1. /\ UNCHANGED <<requests, stores, new_profile, pulses>>
        /\ target_profile_' \in {target_profile_, None}
        /\ signal_profile' \in {signal_profile, target_profile_}
    BY <1>5 DEF TestRetryCount, LoadTarget, LoadRetryCount, StoreDecremented, Compare,
                ResetTarget, Captured, StopResetsTarget, StopResetsRetryCount, ResetPlugin, Restart
  <2> QED
    BY <1>a, <2>1
<1>6. CASE UNCHANGED switchVars
  BY <1>6, <1>a DEF switchVars
<1> QED
  BY <1>1, <1>2, <1>3, <1>4, <1>5, <1>6
     DEF SwitcherNext, Requesting, Storing, Streaming, StoppingOrStarting

-----------------------------------------------------------------------------
(* The tokens of one profile.                                              *)

LEMMA TokensFall ==
  ASSUME NEW p \in Profiles, pulses'[p] = pulses[p], requests'[p] = requests[p],
         Pending(p)' => Pending(p),
         Stored(p)' => Stored(p),
         Signalled(p)' => Signalled(p),
         pulses[p] \in Nat, requests[p] \in Nat, pulses[p] + Tokens(p) <= requests[p]
  PROVE  (pulses[p] + Tokens(p) <= requests[p])'
BY DEF Tokens, One

LEMMA TokensKept ==
  ASSUME RetryCount = 1, SwitcherTypeOK, CountInv, TokensInv, [SwitcherNext]_switchVars
  PROVE  TokensInv'
<1> SUFFICES ASSUME optimised', NEW p \in Profiles
             PROVE  (pulses[p] + Tokens(p) <= requests[p])'
  BY DEF TokensInv
<1>0. /\ requests \in [Profiles -> Nat] /\ pulses \in [Profiles -> Nat]
      /\ pulses[p] \in Nat /\ requests[p] \in Nat
      /\ target_profile_ \in Profiles \cup {None} /\ signal_profile \in Profiles \cup {None}
      /\ new_profile \in Profiles /\ None \notin Profiles
      /\ optimised
  <2>1. optimised
    BY DEF SwitcherNext, Storing, Streaming, StoppingOrStarting, switchVars
  <2> QED
    BY <2>1, NoProfile DEF SwitcherTypeOK
<1>a. pulses[p] + Tokens(p) <= requests[p]
  BY <1>0 DEF TokensInv
<1> USE DEF switcherVars, appVars, streamVars, historyVars
<1>1. ASSUME NEW q \in Profiles, SetHdrProfile(q)
      PROVE  (pulses[p] + Tokens(p) <= requests[p])'
  <2>1. /\ requests' = [requests EXCEPT ![q] = @ + 1]
        /\ UNCHANGED <<target_profile_, signal_profile, create, pulses>>
        /\ new_profile' = q /\ stores = {}
    BY <1>1 DEF SetHdrProfile
  <2>2. /\ ~Pending(p) /\ (Pending(p)' => p = q)
        /\ (Stored(p)' <=> Stored(p)) /\ (Signalled(p)' <=> Signalled(p))
    BY <2>1 DEF Pending, Stored, Signalled, Unreset, Loaded, Deciding
  <2>3. pulses'[p] = pulses[p] /\ requests'[p] = IF p = q THEN requests[p] + 1 ELSE requests[p]
    BY <1>0, <2>1
  <2> QED
    BY <1>0, <1>a, <2>2, <2>3 DEF Tokens, One
<1>2. CASE StoreTarget
  <2>1. /\ UNCHANGED <<requests, pulses, signal_profile, create, new_profile>>
        /\ "target_profile_" \in stores /\ target_profile_' = new_profile
        /\ "target_profile_" \notin stores'
    BY <1>2 DEF StoreTarget
  <2>2. /\ ~Pending(p)' /\ (Stored(p)' => Pending(p))
        /\ (Signalled(p)' <=> Signalled(p))
    BY <2>1 DEF Pending, Stored, Signalled, Unreset, Loaded, Deciding
  <2>3. pulses'[p] = pulses[p] /\ requests'[p] = requests[p]
    BY <2>1
  <2> QED
    BY <1>0, <1>a, <2>2, <2>3 DEF Tokens, One
<1>3. CASE LoadTarget
  <2>1. /\ UNCHANGED <<requests, pulses, stores, new_profile, target_profile_>>
        /\ create = "testing" /\ create' = "decrementing" /\ signal_profile' = target_profile_
    BY <1>3 DEF LoadTarget
  <2>2. /\ (Pending(p)' <=> Pending(p)) /\ ~Stored(p)' /\ ~Signalled(p)
        /\ (Signalled(p)' <=> Stored(p))
    BY <2>1 DEF Pending, Stored, Signalled, Unreset, Loaded, Deciding
  <2>3. pulses'[p] = pulses[p] /\ requests'[p] = requests[p]
    BY <2>1
  <2> QED
    BY <1>0, <1>a, <2>2, <2>3 DEF Tokens, One
<1>4. CASE SwitchHdrProfile
  <2>1. /\ UNCHANGED <<requests, stores, new_profile, target_profile_, signal_profile>>
        /\ create = "signalling" /\ create' = "capturing"
    BY <1>4 DEF SwitchHdrProfile
  <2>2. /\ (Pending(p)' <=> Pending(p)) /\ (Stored(p)' <=> Stored(p))
        /\ ~Signalled(p)' /\ (Signalled(p) <=> signal_profile = p)
    BY <2>1 DEF Pending, Stored, Signalled, Unreset, Loaded, Deciding
  <2>3. \/ pulses' = pulses
        \/ signal_profile \in Profiles /\ pulses' = CountPulse(signal_profile)
    BY <1>4 DEF SwitchHdrProfile
  <2>4. CountPulse(signal_profile) \in {pulses, [pulses EXCEPT ![signal_profile] = @ + 1]}
    BY DEF CountPulse
  <2>5. \/ pulses'[p] = pulses[p]
        \/ pulses'[p] = pulses[p] + 1 /\ signal_profile = p
    BY <1>0, <2>3, <2>4
  <2>6. requests'[p] = requests[p]
    BY <2>1
  <2> QED
    BY <1>0, <1>a, <2>2, <2>5, <2>6 DEF Tokens, One
<1>5. CASE Compare
  <2>1. /\ UNCHANGED <<requests, pulses, stores, new_profile, target_profile_, signal_profile>>
        /\ create = "comparing"
        /\ create' = IF loaded = 0 THEN "resetting" ELSE "signalling"
    BY <1>0, <1>5 DEF Compare
  <2>2. loaded = 0
    BY <2>1 DEF CountInv, SwitcherTypeOK
  <2>3. /\ (Pending(p)' => Pending(p)) /\ (Stored(p)' => Stored(p))
        /\ (Signalled(p)' => Signalled(p))
    BY <2>1, <2>2 DEF Pending, Stored, Signalled, Unreset, Loaded, Deciding
  <2> QED
    BY <1>0, <1>a, <2>1, <2>3, TokensFall
<1>6. CASE ResetTarget
  <2>1. /\ UNCHANGED <<requests, pulses, stores, new_profile, signal_profile>>
        /\ target_profile_' = None
        /\ create = "resetting" /\ create' = "signalling"
    BY <1>6 DEF ResetTarget
  <2>2. /\ (Pending(p)' => Pending(p)) /\ (Stored(p)' => Stored(p))
        /\ (Signalled(p)' => Signalled(p))
    BY <1>0, <2>1 DEF Pending, Stored, Signalled, Unreset, Loaded, Deciding
  <2> QED
    BY <1>0, <1>a, <2>1, <2>2, TokensFall
<1>7. CASE StopResetsTarget
  <2>1. /\ UNCHANGED <<requests, pulses, stores, new_profile, signal_profile>>
        /\ target_profile_' = None
        /\ create' = "stopping count"
    BY <1>7 DEF StopResetsTarget
  <2>2. /\ (Pending(p)' => Pending(p)) /\ (Stored(p)' => Stored(p))
        /\ (Signalled(p)' => Signalled(p))
    BY <1>0, <2>1 DEF Pending, Stored, Signalled, Unreset, Loaded, Deciding
  <2> QED
    BY <1>0, <1>a, <2>1, <2>2, TokensFall
<1>8. ASSUME \/ StoreRetryCount \/ TestRetryCount \/ LoadRetryCount \/ StoreDecremented
             \/ Captured \/ StopResetsRetryCount \/ ResetPlugin \/ Restart \/ UNCHANGED switchVars
      PROVE  (pulses[p] + Tokens(p) <= requests[p])'
  <2>1. /\ UNCHANGED <<requests, pulses, new_profile, target_profile_, signal_profile>>
        /\ stores' \subseteq stores
        /\ Loaded' <=> Loaded
        /\ Unreset' <=> Unreset
    BY <1>8 DEF StoreRetryCount, TestRetryCount, LoadRetryCount, StoreDecremented, Captured,
                StopResetsRetryCount, ResetPlugin, Restart, switchVars, Loaded, Unreset, Deciding
  <2>2. /\ (Pending(p)' => Pending(p)) /\ (Stored(p)' => Stored(p))
        /\ (Signalled(p)' => Signalled(p))
    BY <2>1 DEF Pending, Stored, Signalled
  <2> QED
    BY <1>0, <1>a, <2>1, <2>2, TokensFall
<1> QED
  BY <1>1, <1>2, <1>3, <1>4, <1>5, <1>6, <1>7, <1>8
     DEF SwitcherNext, Requesting, Storing, Streaming, StoppingOrStarting

-----------------------------------------------------------------------------

LEMMA InitIInv == SwitcherInit => SwitcherInv
<1> SUFFICES ASSUME SwitcherInit PROVE SwitcherInv
  OBVIOUS
<1>1. SwitcherTypeOK
  <2>1. retry_count_ \in 0 .. RetryCount /\ loaded \in 0 .. RetryCount
    BY RetryCountAssumption DEF SwitcherInit
  <2>2. new_profile \in Profiles /\ stores \subseteq Fields
    BY DEF SwitcherInit, Profiles
  <2> QED
    BY <2>1, <2>2 DEF SwitcherInit, SwitcherTypeOK
<1>2. CountInv /\ SourcesInv
  BY DEF SwitcherInit, CountInv, InTest, SourcesInv, Asked
<1>3. /\ pulses[0] = 0 /\ pulses[1] = 0 /\ requests[0] = 0 /\ requests[1] = 0
      /\ retry_count_ = 0 /\ stores = {} /\ create = "capturing" /\ target_profile_ = None
  BY DEF SwitcherInit, Profiles
<1>4. Budget
  <2>1. RetryCount * (0 + 0) = 0
    BY RetryCountAssumption
  <2> QED
    BY <1>3, <2>1 DEF Budget, One, Deciding
<1>5. TokensInv
  BY <1>3 DEF TokensInv, Tokens, One, Pending, Stored, Signalled, Loaded, Deciding, Profiles, None
<1> QED
  BY <1>1, <1>2, <1>4, <1>5 DEF SwitcherInv

LEMMA IInvKept == SwitcherInv /\ [SwitcherNext]_switchVars => SwitcherInv'
BY SwitcherTypesKept, CountKept, BudgetKept, SourcesKept, TokensKept DEF SwitcherInv

LEMMA IInvMeans == SwitcherInv /\ RetryCount = 1 => OnlyRequestedSignals
<1> SUFFICES ASSUME SwitcherInv, RetryCount = 1 PROVE OnlyRequestedSignals
  OBVIOUS
<1>1. /\ requests \in [Profiles -> Nat] /\ pulses \in [Profiles -> Nat]
      /\ retry_count_ \in 0 .. 1
  BY DEF SwitcherInv, SwitcherTypeOK
<1>2. pulses[0] + pulses[1] <= RetryCount * (requests[0] + requests[1])
  <2>1. /\ pulses[0] \in Nat /\ pulses[1] \in Nat /\ retry_count_ \in Nat
        /\ requests[0] \in Nat /\ requests[1] \in Nat
    BY <1>1 DEF Profiles
  <2> QED
    BY <2>1 DEF SwitcherInv, Budget, One
<1>3. \A p \in Profiles : pulses[p] > 0 => requests[p] > 0
  BY DEF SwitcherInv, SourcesInv, Asked
<1>4. \A p \in Profiles : optimised => pulses[p] <= RetryCount * requests[p]
  <2>1. ASSUME NEW p \in Profiles, optimised PROVE pulses[p] <= RetryCount * requests[p]
    <3>1. pulses[p] \in Nat /\ requests[p] \in Nat /\ pulses[p] + Tokens(p) <= requests[p]
      BY <1>1, <2>1 DEF SwitcherInv, TokensInv
    <3> QED
      BY <3>1 DEF Tokens, One
  <2> QED
    BY <2>1
<1> QED
  BY <1>2, <1>3, <1>4 DEF OnlyRequestedSignals

(* Whatever the race of set_property and create() does, in both builds.     *)
THEOREM SwitcherTypeCorrect == SwitcherSpec => []SwitcherTypeOK
<1>1. SwitcherInv => SwitcherTypeOK
  BY DEF SwitcherInv
<1> QED
  BY <1>1, InitIInv, IInvKept, PTL DEF SwitcherSpec

(* With the one try that set_property asks for, the camera is signalled no *)
(* more often than asked, and only to a profile that was asked for.        *)
THEOREM OnlyRequestedAreSignalled == RetryCount = 1 => (SwitcherSpec => []OnlyRequestedSignals)
<1> SUFFICES ASSUME RetryCount = 1 PROVE SwitcherSpec => []OnlyRequestedSignals
  OBVIOUS
<1>1. SwitcherInv => OnlyRequestedSignals
  BY IInvMeans
<1> QED
  BY <1>1, InitIInv, IInvKept, PTL DEF SwitcherSpec
==============================================================================
