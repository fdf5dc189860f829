---------------------------- MODULE FeatureLimits ----------------------------
(***************************************************************************)
(* gst_pylon_find_limits: the search for the smallest and the largest      *)
(* value a feature can ever have. The limits of a feature depend on the    *)
(* features that control it, so the search drives these through all        *)
(* combinations of their extreme values, looks at the limits after each,   *)
(* and writes the old values back. The camera may refuse any of these      *)
(* writes; the code goes on without it.                                    *)
(***************************************************************************)
EXTENDS NodeMap, FiniteSetsExt, SequencesExt

CONSTANTS
  Value(_, _),       \* Value(s, n): the value of n on a camera with settings s
  Values(_, _),      \* Values(s, n): the values n can have there
  IsWritable(_, _, _), \* IsWritable(s, l, n): and TLParamsLocked = l: n can be written
  Settings,          \* the settings the camera can have
  PowerOn,           \* those after the default user set was loaded
  Orders,            \* the orders the nodes can have in a std::set of pointers
  MaxFailures        \* bound on the calls to the camera that fail

(* A feature always has a finite range of values, and a camera that        *)
(* accepts one of them has settings again.                                 *)
ASSUME CameraAssumption ==
  /\ IsFiniteSet(Settings) /\ Settings \subseteq [DOMAIN PowerOn -> Int]
  /\ PowerOn \in Settings /\ DOMAIN PowerOn \subseteq Nodes
  /\ \A s \in Settings, n \in Nodes :
       /\ IsFiniteSet(Values(s, n)) /\ Values(s, n) # {} /\ Values(s, n) \subseteq Int
       /\ \A l \in {0, 1} : IsWritable(s, l, n) \in BOOLEAN
  /\ \A s \in Settings, n \in DOMAIN PowerOn :
       \A v \in Values(s, n) : [s EXCEPT ![n] = v] \in Settings
  /\ MaxFailures \in Nat

VARIABLES
  settings,    \* the camera: the values of the features that are written
  locked,      \* the camera: TLParamsLocked
  order,       \* the order of the nodes' addresses in this process
  search,      \* where gst_pylon_find_limits is
  target,      \* the feature whose limits are searched
  saved,       \* reset_list: the controlling features and their values
  extremes,    \* actions_list: for each of them the values it is driven to
  step,        \* the combination being set up
  position,    \* the feature written next, in actions or in reset_list
  mins, maxs,  \* min_values, max_values
  limits,      \* minimum and maximum_under_all_settings
  failures     \* the calls to the camera that failed so far

camera == <<settings, locked>>
searching == <<order, search, target, saved, extremes, step, position, mins, maxs, limits>>

NoLimits == [min |-> 0, max |-> 0]
LimitsIn(s, n) == [min |-> Min(Values(s, n)), max |-> Max(Values(s, n))]
Accepts(n, v) == IsWritable(settings, locked, n) /\ v \in Values(settings, n)

(* A write of one feature, as the search does it: what the camera refuses, *)
(* or what does not reach it, is skipped, and the feature keeps its value. *)
Write(n, v) ==
  \/ /\ settings' = IF Accepts(n, v) THEN [settings EXCEPT ![n] = v] ELSE settings
     /\ UNCHANGED failures
  \/ /\ failures < MaxFailures
     /\ failures' = failures + 1
     /\ UNCHANGED settings

(* parent_invalidators: a std::set of pointers, in the order of the        *)
(* addresses.                                                              *)
ControlsInOrder(n) == Among(order, Controls[n])

(* GetSettableValues of an enumeration: none while it is locked.           *)
Settable(s, l, n) == IF IsWritable(s, l, n) THEN Values(s, n) ELSE {}

(* The values a feature is driven to. Those of an enumeration are the ones *)
(* that can be set now: none while it is locked. The others are taken      *)
(* whether they can be set or not.                                         *)
ExtremesIn(s, l, n) ==
  CASE Node[n].kind = "boolean" -> <<1, 0>>
    [] Node[n].kind \in {"integer", "float"} -> <<LimitsIn(s, n).min, LimitsIn(s, n).max>>
    [] Node[n].kind = "enumeration" -> SetToSeq(Settable(s, l, n))

(* Seeded bug: a number is only driven to its minimum.                   *)
ExtremesOf_LowOnly(n) ==
  IF IsNumeric(n) THEN <<LimitsIn(settings, n).min, LimitsIn(settings, n).min>>
  ELSE ExtremesIn(settings, locked, n)

ExtremesOf(n) == ExtremesIn(settings, locked, n)

(* The values the features have now, to be written back.                   *)
Saved(controls) ==
  [i \in DOMAIN controls |-> [node |-> controls[i], value |-> Value(settings, controls[i])]]

(* Seeded bug: the product of the lists is begun with nothing.           *)
Combinations_OfNothing(lists) ==
  LET Product[i \in 0..Len(lists)] == IF i = 0 THEN 0 ELSE Product[i - 1] * Len(lists[i])
  IN  Product[Len(lists)]

(* cartesian_product: the number of combinations of one value of each      *)
(* list, and the place in the i-th list for the n-th of them: n is divided *)
(* by the lengths of the lists, the last one first, and the remainders are *)
(* the places.                                                             *)
Combinations(lists) ==
  LET Product[i \in 0..Len(lists)] == IF i = 0 THEN 1 ELSE Product[i - 1] * Len(lists[i])
  IN  Product[Len(lists)]

Quotient(lists, n) ==
  LET After[k \in 0..Len(lists)] ==
        IF k = 0 THEN n ELSE After[k - 1] \div Len(lists[Len(lists) + 1 - k])
  IN  After

Place(lists, n, i) == (Quotient(lists, n)[Len(lists) - i] % Len(lists[i])) + 1

-----------------------------------------------------------------------------

InitSearch ==
  /\ order \in Orders
  /\ search = "idle"
  /\ target = NoNode
  /\ saved = <<>> /\ extremes = <<>> /\ step = 0 /\ position = 1
  /\ mins = {} /\ maxs = {} /\ limits = NoLimits

(* Nothing invalidates the limits: they are those of this moment.          *)
LimitsDirect(n) ==
  /\ Invalidators(n) = {}
  /\ limits' = LimitsIn(settings, n)
  /\ UNCHANGED <<order, search, target, saved, extremes, step, position, mins, maxs>>

(* The features whose limits are known by name: constants, or the size of  *)
(* the sensor less an increment.                                           *)
LimitsKnown(n) ==
  /\ Invalidators(n) # {}
  /\ Node[n].shortcut # NoLimits
  /\ limits' = Node[n].shortcut
  /\ UNCHANGED <<order, search, target, saved, extremes, step, position, mins, maxs>>

(* The values of the controlling features are saved, and their extremes    *)
(* collected, before anything is written.                                  *)
SaveSettings(n) ==
  /\ Invalidators(n) # {}
  /\ Node[n].shortcut = NoLimits
  /\ LET controls == ControlsInOrder(n)
     IN  /\ saved' = Saved(controls)
         /\ extremes' = [i \in DOMAIN controls |-> ExtremesOf(controls[i])]
  /\ search' = "apply"
  /\ target' = n
  /\ step' = 0 /\ position' = 1 /\ mins' = {} /\ maxs' = {}
  /\ UNCHANGED <<camera, order, limits, failures>>

(* One action of a combination. What can not be written keeps what the     *)
(* combination before left in it.                                          *)
ApplyExtreme ==
  /\ search = "apply"
  /\ step < Combinations(extremes)
  /\ position <= Len(extremes)
  /\ Write(saved[position].node, extremes[position][Place(extremes, step, position)])
  /\ position' = position + 1
  /\ UNCHANGED <<locked, order, search, target, saved, extremes, step, mins, maxs, limits>>

(* The limits of the feature under the combination.                        *)
MeasureLimits ==
  /\ search = "apply"
  /\ step < Combinations(extremes)
  /\ position > Len(extremes)
  /\ mins' = mins \union {LimitsIn(settings, target).min}
  /\ maxs' = maxs \union {LimitsIn(settings, target).max}
  /\ step' = step + 1
  /\ position' = 1
  /\ UNCHANGED <<camera, order, search, target, saved, extremes, limits, failures>>

(* Seeded bug: the two limits are exchanged.                             *)
TakeExtremes_Swapped ==
  /\ search = "apply"
  /\ step = Combinations(extremes)
  /\ mins # {}
  /\ limits' = [min |-> Max(maxs), max |-> Min(mins)]
  /\ search' = "reset"
  /\ position' = 1
  /\ UNCHANGED <<camera, order, target, saved, extremes, step, mins, maxs, failures>>

(* The smallest and the largest of all that was seen.                      *)
TakeExtremes ==
  /\ search = "apply"
  /\ step = Combinations(extremes)
  /\ mins # {}
  /\ limits' = [min |-> Min(mins), max |-> Max(maxs)]
  /\ search' = "reset"
  /\ position' = 1
  /\ UNCHANGED <<camera, order, target, saved, extremes, step, mins, maxs, failures>>

(* No combination at all, because a controlling enumeration had no value   *)
(* that could be set: std::min_element of an empty vector is its end, and  *)
(* is dereferenced.                                                        *)
NothingMeasured ==
  /\ search = "apply"
  /\ step = Combinations(extremes)
  /\ mins = {}

(* The saved values are written back, in the same order.                   *)
ResetValue ==
  /\ search = "reset"
  /\ position <= Len(saved)
  /\ Write(saved[position].node, saved[position].value)
  /\ position' = position + 1
  /\ UNCHANGED <<locked, order, search, target, saved, extremes, step, mins, maxs, limits>>

(* Seeded bug: the last value is not written back.                       *)
SearchEnds_OneEarly ==
  /\ search = "reset"
  /\ position >= Len(saved)
  /\ search' = "idle"
  /\ UNCHANGED <<camera, order, target, saved, extremes, step, position, mins, maxs, limits,
                 failures>>

SearchEnds ==
  /\ search = "reset"
  /\ position > Len(saved)
  /\ search' = "idle"
  /\ UNCHANGED <<camera, order, target, saved, extremes, step, position, mins, maxs, limits,
                 failures>>

(* Reading a limit or a value throws: the search is left where it is, and  *)
(* nothing is written back.                                                *)
SearchThrows == search' = "idle"
==============================================================================
