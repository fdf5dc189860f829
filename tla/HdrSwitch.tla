------------------------------ MODULE HdrSwitch ------------------------------
(***************************************************************************)
(* A request to switch the HDR profile, from the property hdr-profile of   *)
(* pylonsrc to the software signal: HdrProfileSwitcher                     *)
(* (ext/pylon/HdrProfileSwitcher.cpp) between set_property, which runs in  *)
(* the application's thread under the object lock, and create(), which     *)
(* runs in the streaming thread and does not take it.                      *)
(*                                                                         *)
(* The two fields of the switcher are plain integers that both threads     *)
(* write: a data race.  Each load and each store is a step.  A debug build *)
(* does them in the order of the source and loads a field whenever it is   *)
(* named; an optimised build does the two stores of RequestSwitch in       *)
(* either order, and may use a value that it has in a register.            *)
(***************************************************************************)
EXTENDS Integers, FiniteSets

CONSTANTS
  RetryCount,   (* What set_property gives RequestSwitch: 1.               *)
  MaxRequests,  (* Bound on the requests of the application.               *)
  MayRefuse,    (* Whether the camera may refuse a signal.                 *)
  MayStop       (* Whether the application may stop the element.           *)

ASSUME RetryCountAssumption == RetryCount \in Nat \ {0}
ASSUME MaxRequestsAssumption == MaxRequests \in Nat
ASSUME MayRefuseAssumption == MayRefuse \in BOOLEAN
ASSUME MayStopAssumption == MayStop \in BOOLEAN

Profiles == {0, 1}
None == -1
Fields == {"target_profile_", "retry_count_"}

VARIABLES
  optimised,    (* The build.                                              *)
  configured,   (* IsConfigured of the HDR plugin.                         *)
  (* HdrProfileSwitcher *)
  target_profile_, retry_count_,
  (* The application: the profile it sets, and the stores left to do. *)
  new_profile, stores,
  (* The streaming thread: where it is, and its registers. *)
  create, loaded, signal_profile,
  (* The signals the camera was sent, and what was asked for. *)
  pulses,       (* How many of them for each profile.                      *)
  requests,     (* How many times each profile was requested.              *)
  wanted,       (* The last request, if it was not signalled since.        *)
  spoiled       (* It overlapped a call of GetPendingSignal or a stop, or  *)
                (* the camera refused a signal since.                      *)

switcherVars == <<target_profile_, retry_count_>>
appVars == <<new_profile, stores>>
streamVars == <<configured, create, loaded, signal_profile>>
historyVars == <<pulses, requests, wanted, spoiled>>
switchVars == <<optimised, switcherVars, appVars, streamVars, historyVars>>

SwitcherTypeOK ==
  /\ optimised \in BOOLEAN
  /\ configured \in BOOLEAN
  /\ target_profile_ \in Profiles \cup {None}
  /\ retry_count_ \in 0 .. RetryCount
  /\ new_profile \in Profiles
  /\ stores \subseteq Fields
  /\ create \in {"entered", "testing", "decrementing", "storing", "comparing",
                 "resetting", "signalling", "capturing",
                 "stopping target", "stopping count", "stopped"}
  /\ loaded \in 0 .. RetryCount
  /\ signal_profile \in Profiles \cup {None}
  /\ pulses \in [Profiles -> Nat]
  /\ requests \in [Profiles -> Nat]
  /\ wanted \in Profiles \cup {None}
  /\ spoiled \in BOOLEAN

SwitcherInit ==
  /\ optimised \in BOOLEAN
  /\ configured = TRUE
  /\ target_profile_ = None
  /\ retry_count_ = 0
  /\ new_profile = 0
  /\ stores = {}
  /\ create = "capturing"
  /\ loaded = 0
  /\ signal_profile = None
  /\ pulses = [p \in Profiles |-> 0]
  /\ requests = [p \in Profiles |-> 0]
  /\ wanted = None
  /\ spoiled = FALSE

InGetPendingSignal ==
  create \in {"testing", "decrementing", "storing", "comparing", "resetting"}

-----------------------------------------------------------------------------
(* gst_pylon_src_set_property for hdr-profile. *)

(* The property is ignored unless the HDR plugin is configured. *)
SetHdrProfile(p) ==
  /\ configured
  /\ stores = {}
  /\ requests[0] + requests[1] < MaxRequests
  /\ new_profile' = p
  /\ stores' = Fields
  /\ requests' = [requests EXCEPT ![p] = @ + 1]
  /\ wanted' = p
  /\ spoiled' = InGetPendingSignal
  /\ UNCHANGED <<switcherVars, streamVars, pulses>>

StoreTarget ==
  /\ "target_profile_" \in stores
  /\ target_profile_' = new_profile
  /\ stores' = stores \ {"target_profile_"}
  /\ UNCHANGED <<retry_count_, new_profile, streamVars, historyVars>>

StoreRetryCount ==
  /\ "retry_count_" \in stores
  /\ optimised \/ "target_profile_" \notin stores
  /\ retry_count_' = RetryCount
  /\ stores' = stores \ {"retry_count_"}
  /\ UNCHANGED <<target_profile_, new_profile, streamVars, historyVars>>

-----------------------------------------------------------------------------
(* gst_pylon_src_create. *)

(* Seeded bug: the last retry is left out. *)
TestRetryCount_OffByOne ==
  /\ create = "entered"
  /\ loaded' = retry_count_
  /\ create' = IF retry_count_ <= 1 THEN "capturing" ELSE "testing"
  /\ spoiled' = (spoiled \/ stores # {})
  /\ UNCHANGED <<switcherVars, appVars, configured, signal_profile, pulses,
                 requests, wanted>>

(* Seeded bug: a count of zero passes the test. *)
TestRetryCount_Negative ==
  /\ create = "entered"
  /\ loaded' = retry_count_
  /\ create' = IF retry_count_ < 0 THEN "capturing" ELSE "testing"
  /\ spoiled' = (spoiled \/ stores # {})
  /\ UNCHANGED <<switcherVars, appVars, configured, signal_profile, pulses,
                 requests, wanted>>

(* GetPendingSignal tests the count. *)
TestRetryCount ==
  /\ create = "entered"
  /\ loaded' = retry_count_
  /\ create' = IF retry_count_ <= 0 THEN "capturing" ELSE "testing"
  /\ spoiled' = (spoiled \/ stores # {})
  /\ UNCHANGED <<switcherVars, appVars, configured, signal_profile, pulses,
                 requests, wanted>>

LoadTarget ==
  /\ create = "testing"
  /\ signal_profile' = target_profile_
  /\ create' = "decrementing"
  /\ UNCHANGED <<switcherVars, appVars, configured, loaded, historyVars>>

LoadRetryCount ==
  /\ create = "decrementing"
  /\ \/ loaded' = retry_count_
     \/ optimised /\ UNCHANGED loaded
  /\ create' = "storing"
  /\ UNCHANGED <<switcherVars, appVars, configured, signal_profile,
                 historyVars>>

(* Seeded bug: the count is not decremented. *)
StoreDecremented_Keeps ==
  /\ create = "storing"
  /\ retry_count_' = loaded
  /\ create' = "comparing"
  /\ UNCHANGED <<target_profile_, appVars, configured, loaded,
                 signal_profile, historyVars>>

StoreDecremented ==
  /\ create = "storing"
  /\ retry_count_' = loaded - 1
  /\ loaded' = loaded - 1
  /\ create' = "comparing"
  /\ UNCHANGED <<target_profile_, appVars, configured, signal_profile,
                 historyVars>>

Compare ==
  /\ create = "comparing"
  /\ \E count \in IF optimised THEN {loaded} ELSE {retry_count_} :
       create' = IF count = 0 THEN "resetting" ELSE "signalling"
  /\ UNCHANGED <<switcherVars, appVars, configured, loaded, signal_profile,
                 historyVars>>

ResetTarget ==
  /\ create = "resetting"
  /\ target_profile_' = None
  /\ create' = "signalling"
  /\ UNCHANGED <<retry_count_, appVars, configured, loaded, signal_profile,
                 historyVars>>

(* Pulses are counted up to one more than there may be. *)
CountPulse(p) ==
  IF pulses[p] > RetryCount * MaxRequests THEN pulses
  ELSE [pulses EXCEPT ![p] = @ + 1]

(* gst_pylon_switch_hdr_profile rejects what is not a profile.  If the     *)
(* camera can not be signalled create() at most logs it: nothing retries.  *)
SwitchHdrProfile ==
  /\ create = "signalling"
  /\ create' = "capturing"
  /\ \/ /\ signal_profile \in Profiles
        /\ pulses' = CountPulse(signal_profile)
        /\ wanted' = IF wanted = signal_profile THEN None ELSE wanted
        /\ UNCHANGED spoiled
     \/ /\ signal_profile \in Profiles
        /\ MayRefuse
        /\ spoiled' = TRUE
        /\ UNCHANGED <<pulses, wanted>>
     \/ /\ signal_profile = None
        /\ UNCHANGED <<pulses, wanted, spoiled>>
  /\ UNCHANGED <<switcherVars, appVars, configured, loaded, signal_profile,
                 requests>>

(* External.  gst_pylon_capture returns, and create() is called again.     *)
Captured ==
  /\ create = "capturing"
  /\ create' = "entered"
  /\ UNCHANGED <<switcherVars, appVars, configured, loaded, signal_profile,
                 historyVars>>

-----------------------------------------------------------------------------
(* gst_pylon_src_stop, when the streaming thread has ended: the plugin is  *)
(* reset first, then the two fields of the switcher.  The object lock is   *)
(* not taken here either.                                                  *)

ResetPlugin ==
  /\ MayStop
  /\ create = "capturing"
  /\ create' = "stopping target"
  /\ configured' = FALSE
  /\ spoiled' = TRUE
  /\ UNCHANGED <<switcherVars, appVars, loaded, signal_profile, pulses,
                 requests, wanted>>

StopResetsTarget ==
  /\ create = "stopping target"
  /\ create' = "stopping count"
  /\ target_profile_' = None
  /\ UNCHANGED <<retry_count_, appVars, configured, loaded, signal_profile,
                 historyVars>>

StopResetsRetryCount ==
  /\ create = "stopping count"
  /\ create' = "stopped"
  /\ retry_count_' = 0
  /\ UNCHANGED <<target_profile_, appVars, configured, loaded,
                 signal_profile, historyVars>>

(* The element is started again, and set_caps configures the plugin. *)
Restart ==
  /\ create = "stopped"
  /\ create' = "capturing"
  /\ configured' = TRUE
  /\ UNCHANGED <<switcherVars, appVars, loaded, signal_profile, historyVars>>

-----------------------------------------------------------------------------
Requesting == \E p \in Profiles : SetHdrProfile(p)

Storing == (StoreTarget \/ StoreRetryCount) /\ UNCHANGED optimised

Streaming ==
  /\ \/ TestRetryCount \/ LoadTarget \/ LoadRetryCount \/ StoreDecremented
     \/ Compare \/ ResetTarget \/ SwitchHdrProfile \/ Captured
     \/ StopResetsTarget \/ StopResetsRetryCount
  /\ UNCHANGED optimised

StoppingOrStarting == (ResetPlugin \/ Restart) /\ UNCHANGED optimised

SwitcherNext ==
  \/ Requesting /\ UNCHANGED optimised
  \/ Storing
  \/ Streaming
  \/ StoppingOrStarting

(* set_property returns, the camera keeps delivering images, and stop runs *)
(* to its end.  Nothing makes the application stop or start the element.   *)
Fairness == WF_switchVars(Storing) /\ WF_switchVars(Streaming)

SwitcherSpec == SwitcherInit /\ [][SwitcherNext]_switchVars /\ Fairness

-----------------------------------------------------------------------------
(* Whatever the race does, the camera is signalled no more often than it   *)
(* was asked to, and only to switch to a profile that was asked for; in an *)
(* optimised build each profile no more often than it was asked for, while *)
(* a debug build can signal one profile for the request of the other.      *)
OnlyRequestedSignals ==
  /\ pulses[0] + pulses[1] <= RetryCount * (requests[0] + requests[1])
  /\ \A p \in Profiles :
       /\ pulses[p] > 0 => requests[p] > 0
       /\ optimised => pulses[p] <= RetryCount * requests[p]

(* A request that overlaps neither a call of GetPendingSignal nor a stop   *)
(* reaches the camera, if the camera takes the signal.                     *)
SeparateRequestSignalled == wanted # None ~> wanted = None \/ spoiled
=============================================================================
