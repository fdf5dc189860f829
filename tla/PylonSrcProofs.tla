---------------------------- MODULE PylonSrcProofs ----------------------------
(***************************************************************************)
(* Proofs about PylonSrc, for any cameras, criteria, user sets and files.  *)
(***************************************************************************)
EXTENDS PylonSrc, SequenceTheorems, TLAPS

(* What a call of start has got to, and what it may rely on there.          *)
ControlInv ==
  /\ pc # "idle" \/ started => alive
  /\ pc \in {"check", "new"} => sdk < MaxSdk
  /\ pc \in Locked => sdk > 0
  /\ pc \in {"new"} \cup Locked => pylon = NULL
  /\ pc \in {"user set", "pfs"} => pylon # NULL

(* The camera that start attaches and that the element holds fits.          *)
DeviceInv ==
  /\ pc = "attach" => device # NULL
  /\ pc \in Locked /\ device # NULL => device \in criteria.filter
  /\ pylon # NULL => pylon.device \in pylon.requested.filter

OnlyUserSets == \A i \in DOMAIN applied : applied[i].kind = "user set"

(* Until start returns, nothing but user sets has been applied.             *)
SettingsInv ==
  /\ SettingsInOrder
  /\ pc \in {"user set", "pfs"} => OnlyUserSets

(* While start configures the camera, nothing was refused yet.              *)
SdkInv ==
  /\ SdkInitialised
  /\ pc \in {"user set", "pfs"} => ~refused /\ sdk > 0

(* The camera is that of the criteria as start read them.                   *)
RequestInv ==
  /\ StartedAsRequested
  /\ pc \in {"user set", "pfs"} => pylon.requested = criteria \/ changed

IInv ==
  /\ TypeOK
  /\ ControlInv
  /\ DeviceInv
  /\ OneCamera
  /\ SettingsInv
  /\ SdkInv
  /\ RequestInv

-----------------------------------------------------------------------------
LEMMA TerminatedType ==
  ASSUME NEW count \in 0 .. MaxSdk
  PROVE  Terminated(count) \in 0 .. MaxSdk
BY CountsAssumption DEF Terminated

LEMMA InitializeCounts ==
  ASSUME sdk \in 0 .. MaxSdk, sdk < MaxSdk, SelectDevice
  PROVE  /\ sdk' \in 0 .. MaxSdk
         /\ retry_idx' \in 0 .. FAILED_OPEN_RETRY_COUNT + 1
BY CountsAssumption DEF SelectDevice

LEMMA AttachFailsCounts ==
  ASSUME retry_idx \in 0 .. FAILED_OPEN_RETRY_COUNT + 1, AttachFails
  PROVE  retry_idx' \in 0 .. FAILED_OPEN_RETRY_COUNT + 1
BY CountsAssumption DEF AttachFails

LEMMA TypesPreserved ==
  TypesOK /\ ControlInv /\ DeviceInv /\ [Next]_vars => TypesOK'
<1> SUFFICES ASSUME TypesOK, ControlInv, DeviceInv, [Next]_vars
             PROVE  TypesOK'
  OBVIOUS
<1> USE DevicesAssumption, CountsAssumption, NullAssumption, TerminatedType
<1> USE DEF TypesOK, ControlInv, DeviceInv, Waiting, Locked, worldVars,
            propertyVars, elementVars, cameraVars, localVars
<1>1. ASSUME NEW who \in {"base class", "child proxy"}, Start(who)
      PROVE  TypesOK'
  BY <1>1 DEF Start
<1>2. CASE KeepDevice
  BY <1>2 DEF KeepDevice
<1>3. CASE NoDevice
  BY <1>3 DEF NoDevice
<1>4. CASE CloseOther
  BY <1>4 DEF CloseOther, Fail, Close
<1>5. CASE SelectDevice
  <2>1. sdk' \in 0 .. MaxSdk /\ retry_idx' \in 0 .. FAILED_OPEN_RETRY_COUNT + 1
    BY <1>5, InitializeCounts DEF SelectDevice
  <2>2. device' \in Devices
    BY <1>5 DEF SelectDevice, Selected, Matches
  <2>3. QED
    BY <1>5, <2>1, <2>2 DEF SelectDevice
<1>6. CASE SelectNone
  BY <1>6 DEF SelectNone, Selected, Matches
<1>7. CASE AttachFails
  BY <1>7, AttachFailsCounts DEF AttachFails
<1>8. CASE Attach
  BY <1>8 DEF Attach
<1>9. CASE AttachGivesUp
  BY <1>9 DEF AttachGivesUp
<1>10. CASE Open
  BY <1>10 DEF Open
<1>11. CASE OpenFails
  BY <1>11 DEF OpenFails, Fail
<1>12. CASE SetUserConfig
  BY <1>12 DEF SetUserConfig
<1>13. CASE UserConfigFails
  BY <1>13 DEF UserConfigFails, Fail
<1>14. CASE SetPfsConfig
  BY <1>14 DEF SetPfsConfig
<1>15. CASE PfsConfigFails
  BY <1>15 DEF PfsConfigFails, Fail
<1>16. CASE ReturnToBaseClass
  BY <1>16 DEF ReturnToBaseClass
<1>17. CASE ReturnToChildProxy
  BY <1>17 DEF ReturnToChildProxy
<1>18. CASE SetProperty
  BY <1>18 DEF SetProperty
<1>19. CASE Stop
  BY <1>19 DEF Stop, Close
<1>20. CASE Finalize
  BY <1>20 DEF Finalize
<1>21. ASSUME NEW d \in Devices, PlugOrUnplug(d)
      PROVE  TypesOK'
  BY <1>21, ZenonT(60) DEF PlugOrUnplug
<1>22. ASSUME NEW d \in Devices, TakeOrRelease(d)
      PROVE  TypesOK'
  BY <1>22, ZenonT(60) DEF TakeOrRelease
<1>23. CASE UNCHANGED vars
  BY <1>23, ZenonT(60) DEF vars
<1>24. QED
  BY <1>1, <1>2, <1>3, <1>4, <1>5, <1>6, <1>7, <1>8, <1>9, <1>10, <1>11,
     <1>12, <1>13, <1>14, <1>15, <1>16, <1>17, <1>18, <1>19, <1>20, <1>21,
     <1>22, <1>23 DEF Next, StartStep

LEMMA ApplyTyped ==
  ASSUME NEW kind, NEW name, applied \in Seq(Setting),
         [kind |-> kind, name |-> name] \in Setting, Apply(kind, name)
  PROVE  applied' \in Seq(Setting)
<1>1. Append(applied, [kind |-> kind, name |-> name]) \in Seq(Setting)
  BY AppendProperties
<1>2. QED
  BY <1>1 DEF Apply

LEMMA SettingKinds ==
  /\ \A set \in UserSets \cup {DefaultSet} :
       [kind |-> "user set", name |-> set] \in Setting
  /\ \A file \in PfsFiles : [kind |-> "pfs", name |-> file] \in Setting
  /\ [kind |-> "feature", name |-> "X"] \in Setting
BY DEF Setting

LEMMA SingletonSeq ==
  ASSUME NEW S, NEW x \in S
  PROVE  <<x>> \in Seq(S)
OBVIOUS

LEMMA FirstSettings ==
  /\ <<>> \in Seq(Setting)
  /\ <<[kind |-> "user set", name |-> DefaultSet]>> \in Seq(Setting)
<1>1. [kind |-> "user set", name |-> DefaultSet] \in Setting
  BY SettingKinds
<1>2. <<>> \in Seq(Setting)
  BY EmptySeq
<1>3. QED
  BY <1>1, <1>2, SingletonSeq

LEMMA SettingsTyped ==
  TypeOK /\ ControlInv /\ [Next]_vars => applied' \in Seq(Setting)
<1> SUFFICES ASSUME applied \in Seq(Setting),
                    user_set \in UserSets \cup {"Auto"},
                    pfs_location \in PfsFiles \cup {NULL},
                    [Next]_vars
             PROVE  applied' \in Seq(Setting)
  BY DEF TypeOK, TypesOK
<1> USE ApplyTyped, SettingKinds DEF cameraVars
<1>1. ASSUME NEW who \in {"base class", "child proxy"}, Start(who)
      PROVE  applied' \in Seq(Setting)
  BY <1>1 DEF Start
<1>2. CASE KeepDevice
  BY <1>2 DEF KeepDevice
<1>3. CASE NoDevice
  BY <1>3 DEF NoDevice
<1>4. CASE CloseOther
  BY <1>4, FirstSettings DEF CloseOther, Close
<1>5. CASE SelectDevice
  BY <1>5 DEF SelectDevice
<1>6. CASE SelectNone
  BY <1>6 DEF SelectNone
<1>7. CASE AttachFails
  BY <1>7 DEF AttachFails
<1>8. CASE Attach
  BY <1>8 DEF Attach
<1>9. CASE AttachGivesUp
  BY <1>9 DEF AttachGivesUp
<1>10. CASE Open
  BY <1>10, FirstSettings DEF Open
<1>11. CASE OpenFails
  BY <1>11 DEF OpenFails
<1>12. CASE SetUserConfig
  BY <1>12 DEF SetUserConfig, SetNamed
<1>13. CASE UserConfigFails
  BY <1>13 DEF UserConfigFails
<1>14. CASE SetPfsConfig
  BY <1>14 DEF SetPfsConfig
<1>15. CASE PfsConfigFails
  BY <1>15 DEF PfsConfigFails
<1>16. CASE ReturnToBaseClass
  BY <1>16 DEF ReturnToBaseClass
<1>17. CASE ReturnToChildProxy
  BY <1>17 DEF ReturnToChildProxy
<1>18. CASE SetProperty
  BY <1>18 DEF SetProperty
<1>19. CASE Stop
  BY <1>19, FirstSettings DEF Stop, Close
<1>20. CASE Finalize
  BY <1>20 DEF Finalize
<1>21. ASSUME NEW d \in Devices, PlugOrUnplug(d)
      PROVE  applied' \in Seq(Setting)
  BY <1>21 DEF PlugOrUnplug
<1>22. ASSUME NEW d \in Devices, TakeOrRelease(d)
      PROVE  applied' \in Seq(Setting)
  BY <1>22 DEF TakeOrRelease
<1>23. CASE UNCHANGED vars
  BY <1>23 DEF vars
<1>24. QED
  BY <1>1, <1>2, <1>3, <1>4, <1>5, <1>6, <1>7, <1>8, <1>9, <1>10, <1>11,
     <1>12, <1>13, <1>14, <1>15, <1>16, <1>17, <1>18, <1>19, <1>20, <1>21,
     <1>22, <1>23 DEF Next, StartStep

LEMMA TypePreserved ==
  TypeOK /\ ControlInv /\ DeviceInv /\ [Next]_vars => TypeOK'
BY TypesPreserved, SettingsTyped DEF TypeOK, TypesOK

-----------------------------------------------------------------------------
LEMMA OpenHolds ==
  ASSUME present \subseteq Devices, criteria \in Criteria, Open
  PROVE  pylon' # NULL
<1>1. device \in Devices
  BY DEF Open
<1>2. [requested |-> criteria, device |-> device]
        \in [requested: Criteria, device: Devices]
  BY <1>1
<1>3. QED
  BY <1>2, NullAssumption DEF Open

LEMMA ControlPreserved == TypesOK /\ ControlInv /\ [Next]_vars => ControlInv'
<1> SUFFICES ASSUME present \subseteq Devices, criteria \in Criteria,
                    sdk \in 0 .. MaxSdk,
                    pc \in {"idle", "returns"} \cup Waiting \cup Locked,
                    ControlInv, [Next]_vars
             PROVE  ControlInv'
  BY DEF TypesOK
<1> USE CountsAssumption, NullAssumption
<1> USE DEF ControlInv, Waiting, Locked, worldVars, propertyVars,
            elementVars, localVars
<1>1. ASSUME NEW who \in {"base class", "child proxy"}, Start(who)
      PROVE  ControlInv'
  BY <1>1 DEF Start
<1>2. CASE KeepDevice
  BY <1>2 DEF KeepDevice
<1>3. CASE NoDevice
  BY <1>3 DEF NoDevice
<1>4. CASE CloseOther
  BY <1>4 DEF CloseOther, Fail, Close
<1>5. CASE SelectDevice
  BY <1>5 DEF SelectDevice
<1>6. CASE SelectNone
  BY <1>6 DEF SelectNone
<1>7. CASE AttachFails
  BY <1>7 DEF AttachFails
<1>8. CASE Attach
  BY <1>8 DEF Attach
<1>9. CASE AttachGivesUp
  BY <1>9 DEF AttachGivesUp
<1>10. CASE Open
  BY <1>10, OpenHolds DEF Open
<1>11. CASE OpenFails
  BY <1>11 DEF OpenFails, Fail
<1>12. CASE SetUserConfig
  BY <1>12 DEF SetUserConfig
<1>13. CASE UserConfigFails
  BY <1>13 DEF UserConfigFails, Fail
<1>14. CASE SetPfsConfig
  BY <1>14 DEF SetPfsConfig
<1>15. CASE PfsConfigFails
  BY <1>15 DEF PfsConfigFails, Fail
<1>16. CASE ReturnToBaseClass
  BY <1>16 DEF ReturnToBaseClass
<1>17. CASE ReturnToChildProxy
  BY <1>17 DEF ReturnToChildProxy
<1>18. CASE SetProperty
  BY <1>18 DEF SetProperty
<1>19. CASE Stop
  BY <1>19 DEF Stop, Close
<1>20. CASE Finalize
  BY <1>20 DEF Finalize
<1>21. ASSUME NEW d \in Devices, PlugOrUnplug(d)
      PROVE  ControlInv'
  BY <1>21 DEF PlugOrUnplug
<1>22. ASSUME NEW d \in Devices, TakeOrRelease(d)
      PROVE  ControlInv'
  BY <1>22 DEF TakeOrRelease
<1>23. CASE UNCHANGED vars
  BY <1>23 DEF vars
<1>24. QED
  BY <1>1, <1>2, <1>3, <1>4, <1>5, <1>6, <1>7, <1>8, <1>9, <1>10, <1>11,
     <1>12, <1>13, <1>14, <1>15, <1>16, <1>17, <1>18, <1>19, <1>20, <1>21,
     <1>22, <1>23 DEF Next, StartStep

LEMMA DevicePreserved ==
  TypesOK /\ ControlInv /\ DeviceInv /\ [Next]_vars => DeviceInv'
<1> SUFFICES ASSUME present \subseteq Devices,
                    pylon \in [requested: Criteria, device: Devices]
                               \cup {NULL},
                    ControlInv, DeviceInv, [Next]_vars
             PROVE  DeviceInv'
  BY DEF TypesOK
<1> USE NullAssumption
<1> USE DEF ControlInv, DeviceInv, Waiting, Locked, worldVars, propertyVars,
            elementVars, localVars
<1>1. ASSUME NEW who \in {"base class", "child proxy"}, Start(who)
      PROVE  DeviceInv'
  BY <1>1 DEF Start
<1>2. CASE KeepDevice
  BY <1>2 DEF KeepDevice
<1>3. CASE NoDevice
  BY <1>3 DEF NoDevice
<1>4. CASE CloseOther
  BY <1>4 DEF CloseOther, Fail, Close
<1>5. CASE SelectDevice
  BY <1>5 DEF SelectDevice, Selected, Matches
<1>6. CASE SelectNone
  BY <1>6 DEF SelectNone
<1>7. CASE AttachFails
  BY <1>7 DEF AttachFails
<1>8. CASE Attach
  BY <1>8 DEF Attach
<1>9. CASE AttachGivesUp
  BY <1>9 DEF AttachGivesUp
<1>10. CASE Open
  BY <1>10 DEF Open
<1>11. CASE OpenFails
  BY <1>11 DEF OpenFails, Fail
<1>12. CASE SetUserConfig
  BY <1>12 DEF SetUserConfig
<1>13. CASE UserConfigFails
  BY <1>13 DEF UserConfigFails, Fail
<1>14. CASE SetPfsConfig
  BY <1>14 DEF SetPfsConfig
<1>15. CASE PfsConfigFails
  BY <1>15 DEF PfsConfigFails, Fail
<1>16. CASE ReturnToBaseClass
  BY <1>16 DEF ReturnToBaseClass
<1>17. CASE ReturnToChildProxy
  BY <1>17 DEF ReturnToChildProxy
<1>18. CASE SetProperty
  BY <1>18 DEF SetProperty
<1>19. CASE Stop
  BY <1>19 DEF Stop, Close
<1>20. CASE Finalize
  BY <1>20 DEF Finalize
<1>21. ASSUME NEW d \in Devices, PlugOrUnplug(d)
      PROVE  DeviceInv'
  BY <1>21 DEF PlugOrUnplug
<1>22. ASSUME NEW d \in Devices, TakeOrRelease(d)
      PROVE  DeviceInv'
  BY <1>22 DEF TakeOrRelease
<1>23. CASE UNCHANGED vars
  BY <1>23 DEF vars
<1>24. QED
  BY <1>1, <1>2, <1>3, <1>4, <1>5, <1>6, <1>7, <1>8, <1>9, <1>10, <1>11,
     <1>12, <1>13, <1>14, <1>15, <1>16, <1>17, <1>18, <1>19, <1>20, <1>21,
     <1>22, <1>23 DEF Next, StartStep

LEMMA OneCameraPreserved ==
  TypesOK /\ ControlInv /\ OneCamera /\ [Next]_vars => OneCamera'
<1> SUFFICES ASSUME present \subseteq Devices, criteria \in Criteria,
                    ControlInv, OneCamera, [Next]_vars
             PROVE  OneCamera'
  BY DEF TypesOK
<1> USE NullAssumption
<1> USE DEF ControlInv, OneCamera, Locked, elementVars, cameraVars
<1>1. ASSUME NEW who \in {"base class", "child proxy"}, Start(who)
      PROVE  OneCamera'
  BY <1>1 DEF Start
<1>2. CASE KeepDevice
  BY <1>2 DEF KeepDevice
<1>3. CASE NoDevice
  BY <1>3 DEF NoDevice
<1>4. CASE CloseOther
  BY <1>4 DEF CloseOther, Fail, Close
<1>5. CASE SelectDevice
  BY <1>5 DEF SelectDevice
<1>6. CASE SelectNone
  BY <1>6 DEF SelectNone
<1>7. CASE AttachFails
  BY <1>7 DEF AttachFails
<1>8. CASE Attach
  BY <1>8 DEF Attach
<1>9. CASE AttachGivesUp
  BY <1>9 DEF AttachGivesUp
<1>10. CASE Open
  BY <1>10, OpenHolds DEF Open
<1>11. CASE OpenFails
  BY <1>11 DEF OpenFails, Fail
<1>12. CASE SetUserConfig
  BY <1>12 DEF SetUserConfig
<1>13. CASE UserConfigFails
  BY <1>13 DEF UserConfigFails, Fail
<1>14. CASE SetPfsConfig
  BY <1>14 DEF SetPfsConfig
<1>15. CASE PfsConfigFails
  BY <1>15 DEF PfsConfigFails, Fail
<1>16. CASE ReturnToBaseClass
  BY <1>16 DEF ReturnToBaseClass
<1>17. CASE ReturnToChildProxy
  BY <1>17 DEF ReturnToChildProxy
<1>18. CASE SetProperty
  BY <1>18 DEF SetProperty
<1>19. CASE Stop
  BY <1>19 DEF Stop, Close
<1>20. CASE Finalize
  BY <1>20 DEF Finalize
<1>21. ASSUME NEW d \in Devices, PlugOrUnplug(d)
      PROVE  OneCamera'
  BY <1>21 DEF PlugOrUnplug
<1>22. ASSUME NEW d \in Devices, TakeOrRelease(d)
      PROVE  OneCamera'
  BY <1>22 DEF TakeOrRelease
<1>23. CASE UNCHANGED vars
  BY <1>23 DEF vars
<1>24. QED
  BY <1>1, <1>2, <1>3, <1>4, <1>5, <1>6, <1>7, <1>8, <1>9, <1>10, <1>11,
     <1>12, <1>13, <1>14, <1>15, <1>16, <1>17, <1>18, <1>19, <1>20, <1>21,
     <1>22, <1>23 DEF Next, StartStep

LEMMA EndSplit ==
  ASSUME NEW n \in Nat, NEW i \in 1 .. n + 1
  PROVE  i \in 1 .. n \/ i = n + 1
OBVIOUS

LEMMA IndexSplit ==
  ASSUME NEW n \in Nat, NEW i \in 1 .. n + 1, NEW j \in 1 .. n + 1, i < j
  PROVE  i \in 1 .. n /\ (j \in 1 .. n \/ j = n + 1)
OBVIOUS

LEMMA AppendIs ==
  ASSUME NEW S, NEW s \in Seq(S), NEW x
  PROVE  /\ DOMAIN s = 1 .. Len(s)
         /\ DOMAIN Append(s, x) = 1 .. Len(s) + 1
         /\ \A i \in 1 .. Len(s) : Append(s, x)[i] = s[i]
         /\ Append(s, x)[Len(s) + 1] = x
         /\ Len(s) \in Nat
OBVIOUS

(* What is appended to a sequence of settings in order. *)
LEMMA AppendKeepsOrder ==
  ASSUME NEW setting, applied \in Seq(Setting), SettingsInOrder,
         applied' = Append(applied, setting),
         \A i \in DOMAIN applied :
           /\ setting.kind = "user set" => applied[i].kind = "user set"
           /\ applied[i].kind = "feature" => setting.kind = "feature"
  PROVE  /\ SettingsInOrder'
         /\ OnlyUserSets /\ setting.kind = "user set" => OnlyUserSets'
<1>1. /\ DOMAIN applied = 1 .. Len(applied)
      /\ DOMAIN applied' = 1 .. Len(applied) + 1
      /\ \A i \in 1 .. Len(applied) : applied'[i] = applied[i]
      /\ applied'[Len(applied) + 1] = setting
      /\ Len(applied) \in Nat
  BY AppendIs
<1>2. ASSUME NEW i \in DOMAIN applied', NEW j \in DOMAIN applied', i < j
      PROVE  /\ applied'[j].kind = "user set" => applied'[i].kind = "user set"
             /\ applied'[i].kind = "feature" => applied'[j].kind = "feature"
  <2>1. /\ i \in 1 .. Len(applied)
        /\ j \in 1 .. Len(applied) \/ j = Len(applied) + 1
    <3>1. /\ i \in 1 .. Len(applied) + 1
          /\ j \in 1 .. Len(applied) + 1
      BY <1>1
    <3>2. QED
      BY <1>1, <1>2, <3>1, IndexSplit
  <2>2. CASE j \in 1 .. Len(applied)
    <3>1. applied'[i] = applied[i] /\ applied'[j] = applied[j]
      BY <1>1, <2>1, <2>2
    <3>2. i \in DOMAIN applied /\ j \in DOMAIN applied
      BY <1>1, <2>1, <2>2
    <3>3. /\ applied[j].kind = "user set" => applied[i].kind = "user set"
          /\ applied[i].kind = "feature" => applied[j].kind = "feature"
      BY <1>2, <3>2 DEF SettingsInOrder
    <3>4. QED
      BY <3>1, <3>3
  <2>3. CASE j = Len(applied) + 1
    BY <1>1, <2>1, <2>3
  <2>4. QED
    BY <2>1, <2>2, <2>3
<1>3. SettingsInOrder'
  BY <1>2 DEF SettingsInOrder
<1>4. ASSUME OnlyUserSets, setting.kind = "user set", NEW i \in DOMAIN applied'
      PROVE  applied'[i].kind = "user set"
  <2>1. i \in 1 .. Len(applied) \/ i = Len(applied) + 1
    BY <1>1, EndSplit
  <2>2. CASE i \in 1 .. Len(applied)
    BY <1>1, <1>4, <2>2 DEF OnlyUserSets
  <2>3. QED
    BY <1>1, <1>4, <2>1, <2>2
<1>5. QED
  BY <1>3, <1>4 DEF OnlyUserSets

LEMMA SingletonIs ==
  /\ \A x : DOMAIN <<x>> = {1} /\ <<x>>[1] = x
  /\ \A i, j \in {1} : ~ (i < j)
OBVIOUS

LEMMA FirstKeepsOrder ==
  ASSUME NEW setting, setting.kind = "user set", applied' = <<setting>>
  PROVE  SettingsInOrder' /\ OnlyUserSets'
<1>1. DOMAIN applied' = {1} /\ applied'[1] = setting
  BY SingletonIs
<1>2. QED
  BY <1>1, SingletonIs DEF SettingsInOrder, OnlyUserSets

LEMMA NoneKeepOrder ==
  ASSUME applied' = <<>>
  PROVE  SettingsInOrder' /\ OnlyUserSets'
BY DEF SettingsInOrder, OnlyUserSets

LEMMA SameKeepOrder ==
  ASSUME UNCHANGED applied
  PROVE  /\ SettingsInOrder => SettingsInOrder'
         /\ OnlyUserSets => OnlyUserSets'
BY DEF SettingsInOrder, OnlyUserSets

LEMMA SettingsPreserved ==
  TypeOK /\ ControlInv /\ SettingsInv /\ [Next]_vars => SettingsInv'
<1> SUFFICES ASSUME applied \in Seq(Setting), SettingsInv, [Next]_vars
             PROVE  SettingsInv'
  BY DEF TypeOK
<1> USE SameKeepOrder DEF SettingsInv, cameraVars
<1>1. ASSUME NEW who \in {"base class", "child proxy"}, Start(who)
      PROVE  SettingsInv'
  BY <1>1 DEF Start
<1>2. CASE KeepDevice
  BY <1>2 DEF KeepDevice
<1>3. CASE NoDevice
  BY <1>3 DEF NoDevice
<1>4. CASE CloseOther
  BY <1>4, NoneKeepOrder DEF CloseOther, Close
<1>5. CASE SelectDevice
  BY <1>5 DEF SelectDevice
<1>6. CASE SelectNone
  BY <1>6 DEF SelectNone
<1>7. CASE AttachFails
  BY <1>7 DEF AttachFails
<1>8. CASE Attach
  BY <1>8 DEF Attach
<1>9. CASE AttachGivesUp
  BY <1>9 DEF AttachGivesUp
<1>10. CASE Open
  BY <1>10, NoneKeepOrder, FirstKeepsOrder DEF Open
<1>11. CASE OpenFails
  BY <1>11 DEF OpenFails, Fail
<1>12. CASE SetUserConfig
  <2>1. SettingsInOrder /\ OnlyUserSets
    BY <1>12 DEF SetUserConfig
  <2>2. CASE UNCHANGED applied
    BY <2>1, <2>2
  <2>3. CASE Apply("user set", SetNamed(user_set))
    <3> DEFINE setting == [kind |-> "user set", name |-> SetNamed(user_set)]
    <3>1. applied' = Append(applied, setting) /\ setting.kind = "user set"
      BY <2>3 DEF Apply
    <3>2. \A i \in DOMAIN applied : applied[i].kind = "user set"
      BY <2>1 DEF OnlyUserSets
    <3> HIDE DEF setting
    <3>3. SettingsInOrder' /\ OnlyUserSets'
      BY <2>1, <3>1, <3>2, AppendKeepsOrder
    <3>4. QED
      BY <3>3
  <2>4. QED
    BY <1>12, <2>2, <2>3 DEF SetUserConfig
<1>13. CASE UserConfigFails
  BY <1>13 DEF UserConfigFails, Fail
<1>14. CASE SetPfsConfig
  <2>1. CASE UNCHANGED applied
    BY <1>14, <2>1 DEF SetPfsConfig
  <2>2. CASE Apply("pfs", pfs_location)
    BY <1>14, <2>2, AppendKeepsOrder
       DEF Apply, OnlyUserSets, SetPfsConfig
  <2>3. QED
    BY <1>14, <2>1, <2>2 DEF SetPfsConfig
<1>15. CASE PfsConfigFails
  <2>1. CASE UNCHANGED applied
    BY <1>15, <2>1 DEF PfsConfigFails, Fail
  <2>2. CASE Apply("pfs", pfs_location)
    BY <1>15, <2>2, AppendKeepsOrder
       DEF Apply, OnlyUserSets, PfsConfigFails, Fail
  <2>3. QED
    BY <1>15, <2>1, <2>2 DEF PfsConfigFails, Fail
<1>16. CASE ReturnToBaseClass
  BY <1>16 DEF ReturnToBaseClass
<1>17. CASE ReturnToChildProxy
  <2>1. CASE UNCHANGED applied
    BY <1>17, <2>1 DEF ReturnToChildProxy
  <2>2. CASE Apply("feature", "X")
    BY <1>17, <2>2, AppendKeepsOrder
       DEF Apply, OnlyUserSets, ReturnToChildProxy
  <2>3. QED
    BY <1>17, <2>1, <2>2 DEF ReturnToChildProxy
<1>18. CASE SetProperty
  BY <1>18 DEF SetProperty
<1>19. CASE Stop
  BY <1>19, NoneKeepOrder DEF Stop, Close
<1>20. CASE Finalize
  BY <1>20 DEF Finalize
<1>21. ASSUME NEW d \in Devices, PlugOrUnplug(d)
      PROVE  SettingsInv'
  BY <1>21 DEF PlugOrUnplug
<1>22. ASSUME NEW d \in Devices, TakeOrRelease(d)
      PROVE  SettingsInv'
  BY <1>22 DEF TakeOrRelease
<1>23. CASE UNCHANGED vars
  BY <1>23 DEF vars
<1>24. QED
  BY <1>1, <1>2, <1>3, <1>4, <1>5, <1>6, <1>7, <1>8, <1>9, <1>10, <1>11,
     <1>12, <1>13, <1>14, <1>15, <1>16, <1>17, <1>18, <1>19, <1>20, <1>21,
     <1>22, <1>23 DEF Next, StartStep

LEMMA SdkPreserved ==
  TypesOK /\ ControlInv /\ SdkInv /\ [Next]_vars => SdkInv'
<1> SUFFICES ASSUME sdk \in 0 .. MaxSdk, ControlInv, SdkInv, [Next]_vars
             PROVE  SdkInv'
  BY DEF TypesOK
<1> USE CountsAssumption
<1> USE DEF ControlInv, SdkInv, SdkInitialised, Locked, elementVars, cameraVars
<1>1. ASSUME NEW who \in {"base class", "child proxy"}, Start(who)
      PROVE  SdkInv'
  BY <1>1 DEF Start
<1>2. CASE KeepDevice
  BY <1>2 DEF KeepDevice
<1>3. CASE NoDevice
  BY <1>3 DEF NoDevice
<1>4. CASE CloseOther
  BY <1>4 DEF CloseOther, Fail, Close, Terminated
<1>5. CASE SelectDevice
  BY <1>5 DEF SelectDevice
<1>6. CASE SelectNone
  BY <1>6 DEF SelectNone
<1>7. CASE AttachFails
  BY <1>7 DEF AttachFails
<1>8. CASE Attach
  BY <1>8 DEF Attach
<1>9. CASE AttachGivesUp
  BY <1>9 DEF AttachGivesUp
<1>10. CASE Open
  BY <1>10 DEF Open
<1>11. CASE OpenFails
  BY <1>11 DEF OpenFails, Fail, Terminated
<1>12. CASE SetUserConfig
  BY <1>12 DEF SetUserConfig
<1>13. CASE UserConfigFails
  BY <1>13 DEF UserConfigFails, Fail, Terminated
<1>14. CASE SetPfsConfig
  BY <1>14 DEF SetPfsConfig
<1>15. CASE PfsConfigFails
  BY <1>15 DEF PfsConfigFails, Fail, Terminated
<1>16. CASE ReturnToBaseClass
  BY <1>16 DEF ReturnToBaseClass
<1>17. CASE ReturnToChildProxy
  BY <1>17 DEF ReturnToChildProxy
<1>18. CASE SetProperty
  BY <1>18 DEF SetProperty
<1>19. CASE Stop
  BY <1>19 DEF Stop, Close, Terminated
<1>20. CASE Finalize
  BY <1>20 DEF Finalize
<1>21. ASSUME NEW d \in Devices, PlugOrUnplug(d)
      PROVE  SdkInv'
  BY <1>21 DEF PlugOrUnplug
<1>22. ASSUME NEW d \in Devices, TakeOrRelease(d)
      PROVE  SdkInv'
  BY <1>22 DEF TakeOrRelease
<1>23. CASE UNCHANGED vars
  BY <1>23 DEF vars
<1>24. QED
  BY <1>1, <1>2, <1>3, <1>4, <1>5, <1>6, <1>7, <1>8, <1>9, <1>10, <1>11,
     <1>12, <1>13, <1>14, <1>15, <1>16, <1>17, <1>18, <1>19, <1>20, <1>21,
     <1>22, <1>23 DEF Next, StartStep

LEMMA RequestPreserved ==
  /\ TypesOK /\ ControlInv /\ DeviceInv /\ RequestInv /\ [Next]_vars
  => RequestInv'
<1> SUFFICES ASSUME ControlInv, DeviceInv, RequestInv, [Next]_vars
             PROVE  RequestInv'
  OBVIOUS
<1> USE NullAssumption
<1> USE DEF ControlInv, DeviceInv, RequestInv, StartedAsRequested,
            Waiting, Locked, propertyVars, elementVars, localVars
<1>1. ASSUME NEW who \in {"base class", "child proxy"}, Start(who)
      PROVE  RequestInv'
  BY <1>1 DEF Start
<1>2. CASE KeepDevice
  BY <1>2 DEF KeepDevice, IsSameDevice
<1>3. CASE NoDevice
  BY <1>3 DEF NoDevice
<1>4. CASE CloseOther
  BY <1>4 DEF CloseOther, Fail, Close
<1>5. CASE SelectDevice
  BY <1>5 DEF SelectDevice
<1>6. CASE SelectNone
  BY <1>6 DEF SelectNone
<1>7. CASE AttachFails
  BY <1>7 DEF AttachFails
<1>8. CASE Attach
  BY <1>8 DEF Attach
<1>9. CASE AttachGivesUp
  BY <1>9 DEF AttachGivesUp
<1>10. CASE Open
  BY <1>10 DEF Open
<1>11. CASE OpenFails
  BY <1>11 DEF OpenFails, Fail
<1>12. CASE SetUserConfig
  BY <1>12 DEF SetUserConfig
<1>13. CASE UserConfigFails
  BY <1>13 DEF UserConfigFails, Fail
<1>14. CASE SetPfsConfig
  BY <1>14 DEF SetPfsConfig
<1>15. CASE PfsConfigFails
  BY <1>15 DEF PfsConfigFails, Fail
<1>16. CASE ReturnToBaseClass
  BY <1>16 DEF ReturnToBaseClass
<1>17. CASE ReturnToChildProxy
  BY <1>17 DEF ReturnToChildProxy
<1>18. CASE SetProperty
  BY <1>18 DEF SetProperty
<1>19. CASE Stop
  BY <1>19 DEF Stop, Close
<1>20. CASE Finalize
  BY <1>20 DEF Finalize
<1>21. ASSUME NEW d \in Devices, PlugOrUnplug(d)
      PROVE  RequestInv'
  BY <1>21 DEF PlugOrUnplug
<1>22. ASSUME NEW d \in Devices, TakeOrRelease(d)
      PROVE  RequestInv'
  BY <1>22 DEF TakeOrRelease
<1>23. CASE UNCHANGED vars
  BY <1>23 DEF vars
<1>24. QED
  BY <1>1, <1>2, <1>3, <1>4, <1>5, <1>6, <1>7, <1>8, <1>9, <1>10, <1>11,
     <1>12, <1>13, <1>14, <1>15, <1>16, <1>17, <1>18, <1>19, <1>20, <1>21,
     <1>22, <1>23 DEF Next, StartStep

-----------------------------------------------------------------------------
LEMMA InitialCounts ==
  0 \in 0 .. MaxSdk /\ 0 \in 0 .. FAILED_OPEN_RETRY_COUNT + 1
BY CountsAssumption

LEMMA NoneIs == DOMAIN <<>> = {}
OBVIOUS

LEMMA IInvInitially == Init => IInv
<1> SUFFICES ASSUME Init
             PROVE  IInv
  OBVIOUS
<1> USE DEF Init
<1>1. TypeOK
  <2>1. applied \in Seq(Setting)
    BY FirstSettings
  <2>2. sdk \in 0 .. MaxSdk /\ retry_idx \in 0 .. FAILED_OPEN_RETRY_COUNT + 1
    BY InitialCounts
  <2>3. QED
    BY <2>1, <2>2 DEF TypeOK, TypesOK
<1>2. ControlInv /\ DeviceInv /\ OneCamera
  BY DEF ControlInv, DeviceInv, OneCamera, Locked
<1>3. SettingsInv
  <2>1. DOMAIN applied = {}
    BY NoneIs
  <2>2. QED
    BY <2>1 DEF SettingsInv, SettingsInOrder, OnlyUserSets
<1>4. SdkInv /\ RequestInv
  BY DEF SdkInv, SdkInitialised, RequestInv, StartedAsRequested
<1>5. QED
  BY <1>1, <1>2, <1>3, <1>4 DEF IInv

LEMMA IInvPreserved == IInv /\ [Next]_vars => IInv'
<1> SUFFICES ASSUME IInv, [Next]_vars
             PROVE  IInv'
  OBVIOUS
<1>1. TypesOK
  BY DEF IInv, TypeOK, TypesOK
<1>2. QED
  BY <1>1, TypePreserved, ControlPreserved, DevicePreserved,
     OneCameraPreserved, SettingsPreserved, SdkPreserved, RequestPreserved
     DEF IInv

LEMMA IInvAlways == Spec => []IInv
BY IInvInitially, IInvPreserved, PTL DEF Spec

(* Every variable of the element keeps its type; start never tries more     *)
(* often than it may.                                                       *)
THEOREM TypeCorrect == Spec => []TypeOK
<1>1. IInv => TypeOK
  BY DEF IInv
<1>2. QED
  BY <1>1, IInvAlways, PTL

(* The camera that is open is the one the element holds.                    *)
THEOREM OneCameraIsOpen == Spec => []OneCamera
<1>1. IInv => OneCamera
  BY DEF IInv
<1>2. QED
  BY <1>1, IInvAlways, PTL

(* User sets come before the PFS file, and the features last.               *)
THEOREM SettingsStayInOrder == Spec => []SettingsInOrder
<1>1. IInv => SettingsInOrder
  BY DEF IInv, SettingsInv
<1>2. QED
  BY <1>1, IInvAlways, PTL

(* Unless a setting was refused, an open camera has an initialised SDK.     *)
THEOREM SdkStaysInitialised == Spec => []SdkInitialised
<1>1. IInv => SdkInitialised
  BY DEF IInv, SdkInv
<1>2. QED
  BY <1>1, IInvAlways, PTL

(* start succeeds with a camera that fits what was asked for.               *)
THEOREM StartsAsRequested == Spec => []StartedAsRequested
<1>1. IInv => StartedAsRequested
  BY DEF IInv, RequestInv
<1>2. QED
  BY <1>1, IInvAlways, PTL
=============================================================================
