------------------------------- MODULE PylonSrc -------------------------------
(***************************************************************************)
(* The lifecycle of pylonsrc: opening the camera the properties select,    *)
(* configuring it, and closing it (gst_pylon_src_start and _stop in        *)
(* ext/pylon/gstpylonsrc.cpp, gst_pylon_new and _free in                   *)
(* ext/pylon/gstpylon.cpp).                                                *)
(*                                                                         *)
(* gst_pylon_src_start has two callers: the base class when the element    *)
(* starts, and the child proxy whenever the application names a feature    *)
(* as cam::X or stream::X.  Calls do not overlap (section 5 of the         *)
(* README), but start holds the object lock in four separate sections, and *)
(* another thread may set a property between any two of them.              *)
(***************************************************************************)
EXTENDS Integers, Sequences, FiniteSets

CONSTANTS
  Devices,                  (* The cameras, numbered as they are listed.    *)
  Criteria,                 (* What the device-... properties may say: a    *)
                            (* filter, as the cameras it fits, and an index.*)
  UserSetsOf,               (* The user sets of each camera; none if its    *)
                            (* UserSetSelector is not writable.             *)
  DefaultSet,               (* The power-on user set.                       *)
  UserSets,                 (* What user-set may be, besides "Auto".        *)
  PfsFiles,                 (* What pfs-location may be, besides NULL.      *)
  FAILED_OPEN_RETRY_COUNT,
  MaxSdk,                   (* Bound on calls of PylonInitialize.           *)
  NULL

ASSUME DevicesAssumption == Devices \subseteq Int
ASSUME CriteriaAssumption ==
  Criteria \subseteq [filter: SUBSET Devices, index: Nat \cup {-1}]
ASSUME UserSetsOfAssumption ==
  /\ DOMAIN UserSetsOf = Devices
  /\ \A d \in Devices : UserSetsOf[d] # {} => DefaultSet \in UserSetsOf[d]
ASSUME CountsAssumption == FAILED_OPEN_RETRY_COUNT \in Nat /\ MaxSdk \in Nat
ASSUME NullAssumption ==
  /\ NULL \notin Devices
  /\ NULL \notin PfsFiles
  /\ NULL \notin [requested: Criteria, device: Devices]

VARIABLES
  (* The world: cameras plugged in, and those another process has open.     *)
  present, taken,
  (* The properties of the element. *)
  criteria, user_set, pfs_location,
  (* self->pylon, and what the base class knows of the element.             *)
  pylon, alive, started,
  (* The camera objects of this process that are open, and the count of     *)
  (* PylonInitialize less that of PylonTerminate.                           *)
  open, sdk,
  (* The call of start: where it is, who called, its locals and result.     *)
  pc, caller, device, retry_idx, ret,
  (* History: what was applied to the camera since it was opened, whether   *)
  (* some of it was refused, and whether a property was set that this call  *)
  (* had already read.                                                      *)
  applied, refused, changed

worldVars == <<present, taken>>
propertyVars == <<criteria, user_set, pfs_location>>
elementVars == <<pylon, alive, started>>
cameraVars == <<open, applied, refused>>
localVars == <<caller, device, retry_idx>>
vars == <<worldVars, propertyVars, elementVars, cameraVars, sdk, localVars,
          pc, ret, changed>>

(* A setting is a user set, a PFS file or a feature the application wrote.  *)
Setting ==
  [kind: {"user set"}, name: UserSets \cup {DefaultSet}]
    \cup [kind: {"pfs"}, name: PfsFiles]
    \cup [kind: {"feature"}, name: {"X"}]

Waiting == {"check", "new", "user set", "pfs"}
Locked == {"attach", "open"}

TypesOK ==
  /\ present \subseteq Devices
  /\ taken \subseteq Devices
  /\ criteria \in Criteria
  /\ user_set \in UserSets \cup {"Auto"}
  /\ pfs_location \in PfsFiles \cup {NULL}
  /\ pylon \in [requested: Criteria, device: Devices] \cup {NULL}
  /\ alive \in BOOLEAN
  /\ started \in BOOLEAN
  /\ open \subseteq Devices
  /\ sdk \in 0 .. MaxSdk
  /\ pc \in {"idle", "returns"} \cup Waiting \cup Locked
  /\ caller \in {"base class", "child proxy"}
  /\ device \in Devices \cup {NULL}
  /\ retry_idx \in 0 .. FAILED_OPEN_RETRY_COUNT + 1
  /\ ret \in BOOLEAN
  /\ refused \in BOOLEAN
  /\ changed \in BOOLEAN

TypeOK == TypesOK /\ applied \in Seq(Setting)

Init ==
  /\ present \in SUBSET Devices
  /\ taken = {}
  /\ criteria \in Criteria
  /\ user_set = "Auto"
  /\ pfs_location = NULL
  /\ pylon = NULL
  /\ alive = TRUE
  /\ started = FALSE
  /\ open = {}
  /\ sdk = 0
  /\ pc = "idle"
  /\ caller = "base class"
  /\ device = NULL
  /\ retry_idx = 0
  /\ ret = FALSE
  /\ applied = <<>>
  /\ refused = FALSE
  /\ changed = FALSE

-----------------------------------------------------------------------------
(* What start is made of. *)

(* EnumerateDevices and the checks after it: the one camera that is meant,  *)
(* or none.  Without an index only a single match will do.                  *)
Matches(c) == c.filter \cap present

Selected(c) ==
  {d \in Matches(c) :
     IF c.index = -1
     THEN Matches(c) = {d}
     ELSE Cardinality({e \in Matches(c) : e < d}) = c.index}

(* Seeded bug: the index is not compared. *)
IsSameDevice_IgnoresIndex ==
  pylon # NULL /\ pylon.requested.filter = criteria.filter

(* gst_pylon_is_same_device. *)
IsSameDevice == pylon # NULL /\ pylon.requested = criteria

(* PylonTerminate does nothing when the SDK is not initialised.             *)
Terminated(count) == IF count = 0 THEN 0 ELSE count - 1

(* The label log_gst_error. *)
Fail ==
  /\ sdk' = Terminated(sdk)
  /\ ret' = FALSE
  /\ pc' = "returns"

(* Seeded bug: the camera is released without being closed. *)
Close_LeavesOpen ==
  /\ pylon' = NULL
  /\ applied' = <<>>
  /\ refused' = FALSE
  /\ UNCHANGED open

(* gst_pylon_stop and gst_pylon_free. *)
Close ==
  /\ pylon' = NULL
  /\ open' = open \ {pylon.device}
  /\ applied' = <<>>
  /\ refused' = FALSE

Apply(kind, name) ==
  applied' = Append(applied, [kind |-> kind, name |-> name])

(* gst_pylon_apply_set: the user set that is meant by a name.               *)
SetNamed(set) == IF set = "Auto" THEN DefaultSet ELSE set

-----------------------------------------------------------------------------
(* gst_pylon_src_start. *)

Start(who) ==
  /\ alive
  /\ pc = "idle"
  /\ who = "base class" => ~started
  /\ sdk < MaxSdk   (* Bound. *)
  /\ pc' = "check"
  /\ caller' = who
  /\ UNCHANGED <<worldVars, propertyVars, elementVars, cameraVars, sdk, device,
                 retry_idx, ret, changed>>

(* Seeded bug: the same camera is configured again. *)
KeepDevice_Reconfigures ==
  /\ pc = "check"
  /\ IsSameDevice
  /\ pc' = "user set"
  /\ UNCHANGED <<worldVars, propertyVars, elementVars, cameraVars, sdk,
                 localVars, ret, changed>>

(* Seeded bug: the same camera leaves through the error path. *)
KeepDevice_Terminates ==
  /\ pc = "check"
  /\ IsSameDevice
  /\ Fail
  /\ UNCHANGED <<worldVars, propertyVars, elementVars, cameraVars, localVars,
                 changed>>

(* Nothing is done for a camera that was opened for the same criteria.      *)
KeepDevice ==
  /\ pc = "check"
  /\ IsSameDevice
  /\ pc' = "returns"
  /\ ret' = TRUE
  /\ changed' = FALSE
  /\ UNCHANGED <<worldVars, propertyVars, elementVars, cameraVars, sdk,
                 localVars>>

NoDevice ==
  /\ pc = "check"
  /\ pylon = NULL
  /\ pc' = "new"
  /\ UNCHANGED <<worldVars, propertyVars, elementVars, cameraVars, sdk,
                 localVars, ret, changed>>

(* Another camera is closed first, whether or not it could be stopped; the  *)
(* SDK stays initialised once more.                                         *)
CloseOther ==
  /\ pc = "check"
  /\ pylon # NULL
  /\ ~IsSameDevice
  /\ Close
  /\ \/ pc' = "new" /\ UNCHANGED <<sdk, ret>>
     \/ Fail
  /\ UNCHANGED <<worldVars, propertyVars, alive, started, localVars, changed>>

(* PylonInitialize and the first part of gst_pylon_new.                     *)
SelectDevice ==
  /\ pc = "new"
  /\ \E d \in Selected(criteria) : device' = d
  /\ sdk' = sdk + 1
  /\ retry_idx' = 0
  /\ changed' = FALSE
  /\ pc' = "attach"
  /\ UNCHANGED <<worldVars, propertyVars, elementVars, cameraVars, caller,
                 ret>>

SelectNone ==
  /\ pc = "new"
  /\ Selected(criteria) = {}
  /\ ret' = FALSE   (* PylonInitialize, gst_pylon_new, PylonTerminate. *)
  /\ pc' = "returns"
  /\ UNCHANGED <<worldVars, propertyVars, elementVars, cameraVars, sdk,
                 localVars, changed>>

(* Seeded bug: one attempt too many. *)
AttachFails_OnceMore ==
  /\ pc = "attach"
  /\ retry_idx <= FAILED_OPEN_RETRY_COUNT + 1
  /\ device \notin present \ taken
  /\ retry_idx' = retry_idx + 1
  /\ UNCHANGED <<worldVars, propertyVars, elementVars, cameraVars, sdk, pc,
                 caller, device, ret, changed>>

(* Seeded bug: the attempts are not counted. *)
AttachFails_Uncounted ==
  /\ pc = "attach"
  /\ retry_idx <= FAILED_OPEN_RETRY_COUNT
  /\ device \notin present \ taken
  /\ UNCHANGED vars

(* The loop that tries to create the device. *)
AttachFails ==
  /\ pc = "attach"
  /\ retry_idx <= FAILED_OPEN_RETRY_COUNT
  /\ device \notin present \ taken
  /\ retry_idx' = retry_idx + 1
  /\ UNCHANGED <<worldVars, propertyVars, elementVars, cameraVars, sdk, pc,
                 caller, device, ret, changed>>

Attach ==
  /\ pc = "attach"
  /\ retry_idx <= FAILED_OPEN_RETRY_COUNT
  /\ device \in present
  /\ pc' = "open"
  /\ UNCHANGED <<worldVars, propertyVars, elementVars, cameraVars, sdk,
                 localVars, ret, changed>>

AttachGivesUp ==
  /\ pc = "attach"
  /\ retry_idx > FAILED_OPEN_RETRY_COUNT
  /\ pc' = "open"
  /\ device' = NULL   (* Nothing is attached. *)
  /\ UNCHANGED <<worldVars, propertyVars, elementVars, cameraVars, sdk, caller,
                 retry_idx, ret, changed>>

(* Open() and the rest of gst_pylon_new, with the default user set.         *)
Open ==
  /\ pc = "open"
  /\ device \in present \ (taken \cup open)
  /\ pylon' = [requested |-> criteria, device |-> device]
  /\ open' = open \cup {device}
  /\ IF UserSetsOf[device] # {}
     THEN applied' = <<[kind |-> "user set", name |-> DefaultSet]>>
     ELSE applied' = <<>>
  /\ refused' = FALSE
  /\ pc' = "user set"
  /\ UNCHANGED <<worldVars, propertyVars, alive, started, sdk, localVars, ret,
                 changed>>

(* Nothing is attached, another process was faster, the camera is gone, or  *)
(* it was opened and refuses its default user set: it is closed again.      *)
OpenFails ==
  /\ pc = "open"
  /\ Fail
  /\ UNCHANGED <<worldVars, propertyVars, elementVars, cameraVars, localVars,
                 changed>>

(* gst_pylon_set_user_config. *)
SetUserConfig ==
  /\ pc = "user set"
  /\ IF UserSetsOf[pylon.device] = {}
     THEN UNCHANGED applied
     ELSE /\ SetNamed(user_set) \in UserSetsOf[pylon.device]
          /\ Apply("user set", SetNamed(user_set))
  /\ pc' = "pfs"
  /\ ret' = TRUE
  /\ UNCHANGED <<worldVars, propertyVars, elementVars, open, refused, sdk,
                 localVars, changed>>

(* gst_pylon_set_pfs_config. *)
SetPfsConfig ==
  /\ pc = "pfs"
  /\ IF pfs_location = NULL
     THEN UNCHANGED applied
     ELSE Apply("pfs", pfs_location)
  /\ pc' = "returns"
  /\ UNCHANGED <<worldVars, propertyVars, elementVars, open, refused, sdk,
                 localVars, ret, changed>>

(* The camera does not know the user set, or can not load it any more.      *)
UserConfigFails ==
  /\ pc = "user set"
  /\ UserSetsOf[pylon.device] # {}
  /\ Fail
  /\ refused' = TRUE
  /\ UNCHANGED <<worldVars, propertyVars, elementVars, open, applied,
                 localVars, changed>>

(* The file is missing, or does not fit the camera, perhaps half way.       *)
PfsConfigFails ==
  /\ pc = "pfs"
  /\ pfs_location # NULL
  /\ UNCHANGED applied \/ Apply("pfs", pfs_location)
  /\ Fail
  /\ refused' = TRUE
  /\ UNCHANGED <<worldVars, propertyVars, elementVars, open, localVars,
                 changed>>

-----------------------------------------------------------------------------
(* The callers of start. *)

ReturnToBaseClass ==
  /\ pc = "returns"
  /\ caller = "base class"
  /\ started' = ret
  /\ pc' = "idle"
  /\ UNCHANGED <<worldVars, propertyVars, pylon, alive, cameraVars, sdk,
                 localVars, ret, changed>>

(* gst_pylon_src_child_proxy_get_child_by_name, and what the application    *)
(* does with the child: it may write a feature.                             *)
ReturnToChildProxy ==
  /\ pc = "returns"
  /\ caller = "child proxy"
  /\ \/ UNCHANGED applied
     \/ /\ ret
        /\ \A i \in DOMAIN applied : applied[i].kind # "feature"
        /\ Apply("feature", "X")
  /\ pc' = "idle"
  /\ UNCHANGED <<worldVars, propertyVars, elementVars, open, refused, sdk,
                 localVars, ret, changed>>

-----------------------------------------------------------------------------
(* The rest of the element. *)

(* The properties may change until the element has started.                 *)
SetProperty ==
  /\ alive
  /\ ~started
  /\ pc \notin Locked
  /\ \/ /\ criteria' \in Criteria
        /\ UNCHANGED <<user_set, pfs_location>>
     \/ /\ user_set' \in UserSets \cup {"Auto"}
        /\ UNCHANGED <<criteria, pfs_location>>
     \/ /\ pfs_location' \in PfsFiles \cup {NULL}
        /\ UNCHANGED <<criteria, user_set>>
  /\ changed' = TRUE
  /\ UNCHANGED <<worldVars, elementVars, cameraVars, sdk, pc, localVars, ret>>

Stop ==
  /\ started
  /\ pc = "idle"
  /\ IF pylon = NULL
     THEN UNCHANGED <<pylon, cameraVars>>
     ELSE Close
  /\ started' = FALSE
  /\ sdk' = Terminated(sdk)
  /\ UNCHANGED <<worldVars, propertyVars, alive, pc, localVars, ret, changed>>

(* The last reference is dropped in state NULL. The pointer is not freed.   *)
Finalize ==
  /\ alive
  /\ ~started
  /\ pc = "idle"
  /\ alive' = FALSE
  /\ pylon' = NULL
  /\ UNCHANGED <<worldVars, propertyVars, started, cameraVars, sdk, pc,
                 localVars, ret, changed>>

-----------------------------------------------------------------------------
(* Cameras are plugged in and out, and used by other processes.             *)

PlugOrUnplug(d) ==
  /\ present' = IF d \in present THEN present \ {d} ELSE present \cup {d}
  /\ UNCHANGED <<taken, propertyVars, elementVars, cameraVars, sdk, pc,
                 localVars, ret, changed>>

TakeOrRelease(d) ==
  /\ d \in present \ open
  /\ taken' = IF d \in taken THEN taken \ {d} ELSE taken \cup {d}
  /\ UNCHANGED <<present, propertyVars, elementVars, cameraVars, sdk, pc,
                 localVars, ret, changed>>

StartStep ==
  \/ KeepDevice \/ NoDevice \/ CloseOther
  \/ SelectDevice \/ SelectNone
  \/ AttachFails \/ Attach \/ AttachGivesUp \/ Open \/ OpenFails
  \/ SetUserConfig \/ UserConfigFails \/ SetPfsConfig \/ PfsConfigFails

Next ==
  \/ \E who \in {"base class", "child proxy"} : Start(who)
  \/ StartStep
  \/ ReturnToBaseClass \/ ReturnToChildProxy
  \/ SetProperty \/ Stop \/ Finalize
  \/ \E d \in Devices : PlugOrUnplug(d) \/ TakeOrRelease(d)

(* The thread that called start runs. *)
Spec == Init /\ [][Next]_vars /\ WF_vars(StartStep)
-----------------------------------------------------------------------------
(* Properties. *)

(* The element holds the one camera that is open and no other: whatever     *)
(* fails, a camera nobody could close any more is never left open, nor does *)
(* the element hold one that is closed (gst_pylon_src_start, gst_pylon_new  *)
(* and gst_pylon_free).  Only the finalized element may leave it behind.    *)
OneCamera ==
  alive => open = IF pylon = NULL THEN {} ELSE {pylon.device}

(* Since the camera was opened, user sets were loaded first, then the PFS   *)
(* file, then features were written: no call of start, of which every       *)
(* access to a child makes one, takes back what the application wrote.      *)
SettingsInOrder ==
  \A i, j \in DOMAIN applied : i < j =>
    /\ applied[j].kind = "user set" => applied[i].kind = "user set"
    /\ applied[i].kind = "feature" => applied[j].kind = "feature"

(* The SDK is initialised while the camera is open; the error path of start *)
(* terminates it too early only after the camera refused a user set or PFS  *)
(* file.                                                                    *)
SdkInitialised == alive /\ pylon # NULL /\ ~refused => sdk > 0

(* When start succeeds, the element holds a camera that fits the criteria,  *)
(* and they are the present ones unless they changed since start read them. *)
StartedAsRequested ==
  pc = "returns" /\ ret =>
    /\ pylon # NULL
    /\ pylon.device \in pylon.requested.filter
    /\ pylon.requested = criteria \/ changed

(* start comes to an end, although it waits for a camera another process    *)
(* has open.                                                                *)
StartReturns == pc = "check" ~> pc = "returns"
=============================================================================
