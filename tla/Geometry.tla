------------------------------- MODULE Geometry -------------------------------
(***************************************************************************)
(* The image geometry of pylonsrc: how the size comes from the caps and    *)
(* the offset from the properties OffsetX and OffsetY. An offset that is   *)
(* set while the camera does not grab is kept in the object's dimension    *)
(* cache and written by gst_pylon_set_configuration; later ones go to the  *)
(* camera. The caps query moves both offsets to their minimum for a while, *)
(* to see the full size, and puts them back; any thread may query.         *)
(***************************************************************************)
EXTENDS Integers, Sequences

CONSTANTS
  Sensor,       \* Sensor[a]: the pixels of axis a, 1 for x and 2 for y
  Inc,          \* Inc[a]: the increment of the size and of the offset
  Alignment,    \* byte_alignment of a Bayer width, 4 in the code
  PowerOn,      \* the geometries [size, offset] a user set can have
  Peers,        \* the threads other than the streaming thread that query caps
  Requests,     \* Requests[a]: the offsets the application asks for
  Demands,      \* Demands[a]: the sizes downstream insists on
  Any,          \* downstream accepts any size
  Modes,        \* Modes: the pairs of access and correction to look at
  MaxNegotiations, \* bound on the negotiations
  MaxEvents     \* bound on the requests and the failures of the camera

Axes == 1..2
Src == "src"
Threads == {Src} \union Peers
Structures == <<"raw", "bayer">>   \* gst_structure_formats

ASSUME GeometryAssumption ==
  /\ Sensor \in [Axes -> Nat \ {0}]
  /\ Inc \in [Axes -> Nat \ {0}]
  /\ Alignment \in Nat \ {0}
  /\ Any \notin Nat
  /\ Src \notin Peers
  /\ \A a \in Axes : Requests[a] \subseteq Nat /\ Demands[a] \subseteq Nat
  /\ {MaxNegotiations, MaxEvents} \subseteq Nat
  /\ Modes \subseteq {"always", "stopped", "never"} \X BOOLEAN

VARIABLES
  size, offset, \* the camera's geometry: size[a] and offset[a]
  access,       \* when the offsets can be written: "always", "stopped" or "never"
  grabbing,     \* IsGrabbing()
  correction,   \* enable_correction of the object
  cache,        \* dimension_cache: an offset or -1
  query,        \* query[t]: where thread t is in gst_pylon_query_configuration
  saved,        \* saved[t][a]: orig_offset_x and orig_offset_y of its query
  phase,        \* where the negotiation of the streaming thread is
  axis,         \* the axis it configures
  format,       \* the structure downstream wants
  demand,       \* the sizes downstream wants
  range,        \* the largest sizes the query has found for this structure
  chosen,       \* the sizes of the caps
  why,          \* why the negotiation failed
  app,          \* where the application is in set_property
  request,      \* history: the offset asked for that no stream has yet, or -1
  due,          \* history: the offsets a stream may have
  disturbed,    \* history: two threads got in each other's way
  before,       \* history: the size at the start of the negotiation
  count         \* history: what is bounded

camera == <<size, offset, access, grabbing>>
negotiation == <<phase, axis, format, demand, range, chosen, why, before>>
history == <<request, due, disturbed>>
vars == <<camera, correction, cache, query, saved, negotiation, app, history, count>>

Unset == -1
Idle == [stage |-> "idle", axis |-> 1, structure |-> 1]
AppIdle == [stage |-> "idle", axis |-> 1, value |-> 0]
Zero == [negotiations |-> 0, events |-> 0]

-----------------------------------------------------------------------------
(* The camera.                                                             *)

OffsetsFor(a, s) == {o \in 0..(Sensor[a] - s) : o % Inc[a] = 0}
SizesFor(a, o) == {s \in Inc[a]..(Sensor[a] - o) : s % Inc[a] = 0}
Writable == access = "always" \/ (access = "stopped" /\ ~grabbing)

Distance(v, w) == IF v < w THEN w - v ELSE v - w
(* Seeded bug: the size is not taken into account.                       *)
Nearest_Unclipped(a, s, v) ==
  {o \in OffsetsFor(a, 0) :
     \A p \in OffsetsFor(a, 0) : Distance(v, o) <= Distance(v, p)}

(* IntegerValueCorrection_Nearest: an offset next to the one asked for.    *)
Nearest(a, s, v) ==
  {o \in OffsetsFor(a, s) :
     \A p \in OffsetsFor(a, s) : Distance(v, o) <= Distance(v, p)}

(* The offsets a write of v may leave: v itself, or with enable_correction *)
(* the nearest one if v is out of range. None if the write throws.         *)
Written(a, v) ==
  IF ~Writable THEN {}
  ELSE IF v \in OffsetsFor(a, size[a]) THEN {v}
  ELSE IF correction THEN Nearest(a, size[a], v)
  ELSE {}

RoundDown(v) == v - (v % Alignment)

ASSUME PowerOnAssumption ==
  \A g \in PowerOn :
    /\ DOMAIN g.size = Axes /\ DOMAIN g.offset = Axes
    /\ \A a \in Axes : /\ g.size[a] \in SizesFor(a, g.offset[a])
                       /\ g.offset[a] \in OffsetsFor(a, g.size[a])

(* A Bayer width is rounded down to the alignment whatever the increment   *)
(* is. It then is a width of the camera where one divides the other: all   *)
(* widths are aligned, or the aligned ones are widths that it can have.    *)
ASSUME WidthsAssumption ==
  \/ Inc[1] % Alignment = 0 /\ Sensor[1] % Inc[1] = 0
  \/ /\ Alignment % Inc[1] = 0
     /\ \A g \in PowerOn : g.size[1] >= Alignment
     /\ \A w \in Demands[1] : w >= Alignment

-----------------------------------------------------------------------------
(* Whether a query of another thread has saved an offset and will restore  *)
(* it: what is written in between is lost, what is read is the minimum.    *)
InWindow(t, a) ==
  \/ query[t].stage = "save" /\ query[t].axis > a
  \/ query[t].stage \in {"minimise", "range"}
  \/ query[t].stage = "restore" /\ query[t].axis <= a
Window(a) == \E t \in Threads : InWindow(t, a)

(* The caps and sizes of a negotiation are its local variables.            *)
Forget ==
  /\ format' = "raw" /\ demand' = [a \in Axes |-> Any]
  /\ range' = Sensor /\ chosen' = Sensor /\ before' = Sensor
Fail(reason) == phase' = "failed" /\ why' = reason /\ Forget
Event == count.events < MaxEvents /\ count' = [count EXCEPT !.events = @ + 1]
CameraFails == Event

Init ==
  /\ \E g \in PowerOn : size = g.size /\ offset = g.offset
  /\ \E m \in Modes : access = m[1] /\ correction = m[2]
  /\ grabbing = FALSE
  /\ cache = [a \in Axes |-> Unset]
  /\ query = [t \in Threads |-> Idle]
  /\ saved = [t \in Threads |-> [a \in Axes |-> 0]]
  /\ phase = "open" /\ axis = 1 /\ format = "raw" /\ why = "none"
  /\ demand = [a \in Axes |-> Any]
  /\ range = Sensor /\ chosen = Sensor /\ before = Sensor
  /\ app = AppIdle
  /\ request = [a \in Axes |-> Unset]
  /\ due = [a \in Axes |-> {offset[a]}]
  /\ disturbed = [a \in Axes |-> FALSE]
  /\ count = Zero

-----------------------------------------------------------------------------
(* gst_pylon_query_configuration, in any thread.                           *)

Move(t, stage, a) == query' = [query EXCEPT ![t].stage = stage, ![t].axis = a]
NextStage(t, stage, then) ==
  IF query[t].axis = 1 THEN Move(t, stage, 2) ELSE Move(t, then, 1)

(* A pad asks for the caps.                                                *)
PeerQueries(t) ==
  /\ t \in Peers
  /\ query[t].stage = "idle"
  /\ query' = [query EXCEPT ![t] = [Idle EXCEPT !.stage = "save"]]
  /\ UNCHANGED <<camera, correction, cache, saved, negotiation, app, history, count>>

(* orig_offset_x, orig_offset_y. What another query has moved away is      *)
(* saved as it is.                                                         *)
SaveOffset(t) ==
  /\ query[t].stage = "save"
  /\ LET a == query[t].axis
     IN  /\ saved' = [saved EXCEPT ![t][a] = offset[a]]
         /\ disturbed' = [disturbed EXCEPT ![a] = @ \/ Window(a)]
  /\ NextStage(t, "save", "minimise")
  /\ UNCHANGED <<camera, correction, cache, negotiation, app, request, due, count>>

(* TrySetToMinimum.                                                        *)
MinimiseOffset(t) ==
  /\ query[t].stage = "minimise"
  /\ offset' = IF Writable THEN [offset EXCEPT ![query[t].axis] = 0] ELSE offset
  /\ NextStage(t, "minimise", "range")
  /\ UNCHANGED <<size, access, grabbing, correction, cache, saved, negotiation, app, history,
                 count>>

(* The largest sizes with the offsets as they are.                         *)
Ranges == [a \in Axes |-> Sensor[a] - offset[a]]

(* The format, the sizes and the framerates of one structure.              *)
ReadRanges(t) ==
  /\ query[t].stage = "range"
  /\ range' = IF t = Src /\ Structures[query[t].structure] = format
              THEN Ranges ELSE range
  /\ Move(t, "restore", 1)
  /\ UNCHANGED <<camera, correction, cache, saved, phase, axis, format, demand, chosen, why,
                 before, app, history, count>>

(* What follows a structure: the next one, or the end of the query. The    *)
(* next structure of a peer is its next query: it keeps nothing.           *)
AfterStructure(t) ==
  IF t = Src /\ query[t].structure < Len(Structures)
  THEN [stage |-> "save", axis |-> 1, structure |-> query[t].structure + 1]
  ELSE Idle

(* TrySetValue: not an error if the offset can not be written.             *)
RestoreOffset(t) ==
  LET a == query[t].axis
      v == saved[t][a]
  IN  /\ query[t].stage = "restore"
      /\ Writable => v \in OffsetsFor(a, size[a])
      /\ offset' = IF Writable THEN [offset EXCEPT ![a] = v] ELSE offset
      /\ query' = [query EXCEPT ![t] = IF a = 1 THEN [@ EXCEPT !.axis = 2]
                                       ELSE AfterStructure(t)]
      /\ saved' = [saved EXCEPT ![t][a] = 0]
      /\ phase' = IF t = Src /\ a = 2 /\ AfterStructure(t) = Idle THEN "fixate" ELSE phase
      /\ UNCHANGED <<size, access, grabbing, correction, cache, axis, format, demand, range,
                     chosen, why, before, app, history, count>>

(* A call of the query throws, be it the restoring of an offset that a     *)
(* configuration in between has made impossible: the offsets stay where    *)
(* they are. Without caps the streaming thread gives up.                   *)
QueryThrows(t) ==
  LET refused == /\ query[t].stage = "restore" /\ Writable
                 /\ saved[t][query[t].axis] \notin OffsetsFor(query[t].axis, size[query[t].axis])
  IN  /\ query[t].stage # "idle"
      /\ IF refused THEN UNCHANGED count ELSE CameraFails
      /\ query' = [query EXCEPT ![t] = Idle]
      /\ disturbed' = [a \in Axes |-> disturbed[a] \/ InWindow(t, a)]
      /\ saved' = [saved EXCEPT ![t] = [a \in Axes |-> 0]]
      /\ IF t = Src THEN Fail("query")
         ELSE UNCHANGED <<phase, format, demand, range, chosen, why, before>>
      /\ UNCHANGED <<camera, correction, cache, axis, app, request, due>>

-----------------------------------------------------------------------------
(* The negotiation of the streaming thread.                                *)

Negotiate ==
  /\ phase \in {"open", "streaming"}
  /\ count.negotiations < MaxNegotiations
  /\ count' = [count EXCEPT !.negotiations = @ + 1]
  /\ format' \in {"raw", "bayer"}
  /\ \E w \in Demands[1] \union {Any}, h \in Demands[2] \union {Any} : demand' = <<w, h>>
  /\ phase' = "query"
  /\ before' = size
  /\ query' = [query EXCEPT ![Src] = [Idle EXCEPT !.stage = "save"]]
  /\ UNCHANGED <<camera, correction, cache, saved, axis, range, chosen, why, app, history>>

(* gst_structure_fixate_field_nearest_int.                                 *)
Fixated(a, v) == IF v < Inc[a] THEN Inc[a] ELSE IF v > range[a] THEN range[a] ELSE v

(* Seeded bug: the largest size is taken instead of the configured one.  *)
Preferred_Largest(a) == IF format = "bayer" /\ a = 1 THEN RoundDown(range[a]) ELSE range[a]

(* gst_pylon_src_fixate: the size of the camera is preferred, for a Bayer  *)
(* width the largest aligned one.                                          *)
Preferred(a) == IF format = "bayer" /\ a = 1 THEN RoundDown(range[a]) ELSE size[a]

(* What downstream insists on has to be in the range.                      *)
Fixate ==
  /\ phase = "fixate"
  /\ \A a \in Axes : demand[a] # Any => demand[a] \in Inc[a]..range[a]
  /\ chosen' = [a \in Axes |-> IF demand[a] # Any THEN demand[a] ELSE Fixated(a, Preferred(a))]
  /\ phase' = "set_caps"
  /\ UNCHANGED <<camera, correction, cache, query, saved, axis, format, demand, range, why,
                 before, app, history, count>>

NoCommonCaps ==
  /\ phase = "fixate"
  /\ \E a \in Axes : demand[a] # Any /\ demand[a] \notin Inc[a]..range[a]
  /\ Fail("caps")
  /\ UNCHANGED <<camera, correction, cache, query, saved, axis, app, history, count>>

Aligned == format = "bayer" => chosen[1] % Alignment = 0

(* gst_pylon_src_set_caps up to gst_pylon_stop.                            *)
StopGrabbing ==
  /\ phase = "set_caps"
  /\ Aligned
  /\ grabbing' = FALSE
  /\ phase' = "size" /\ axis' = 1
  /\ UNCHANGED <<size, offset, access, correction, cache, query, saved, format, demand, range,
                 chosen, why, before, app, history, count>>

NotAligned ==
  /\ phase = "set_caps"
  /\ ~Aligned
  /\ Fail("alignment")
  /\ UNCHANGED <<camera, correction, cache, query, saved, axis, app, history, count>>

(* Width and then Height, with IntegerValueCorrection_None: the offsets in *)
(* force limit them.                                                       *)
SetSize ==
  /\ phase = "size"
  /\ chosen[axis] \in SizesFor(axis, offset[axis])
  /\ size' = [size EXCEPT ![axis] = chosen[axis]]
  /\ axis' = IF axis = 1 THEN 2 ELSE 1
  /\ phase' = IF axis = 1 THEN "size" ELSE "offset"
  /\ UNCHANGED <<offset, access, grabbing, correction, cache, query, saved, format, demand,
                 range, chosen, why, before, app, history, count>>

SizeRefused ==
  /\ phase = "size"
  /\ chosen[axis] \notin SizesFor(axis, offset[axis])
  /\ Fail("size")
  /\ UNCHANGED <<camera, correction, cache, query, saved, axis, app, history, count>>

(* A cached offset is written, exactly or with the correction.             *)
ApplyOffset ==
  /\ phase = "offset"
  /\ cache[axis] >= 0
  /\ \E o \in Written(axis, cache[axis]) : offset' = [offset EXCEPT ![axis] = o]
  /\ disturbed' = [disturbed EXCEPT ![axis] = Window(axis) \/ request[axis] # cache[axis]]
  /\ phase' = "reset"
  /\ UNCHANGED <<size, access, grabbing, correction, cache, query, saved, axis, format, demand,
                 range, chosen, why, before, app, request, due, count>>

OffsetRefused ==
  /\ phase = "offset"
  /\ cache[axis] >= 0
  /\ Written(axis, cache[axis]) = {}
  /\ Fail("offset")
  /\ UNCHANGED <<camera, correction, cache, query, saved, axis, app, history, count>>

AfterOffset ==
  /\ axis' = IF axis = 1 THEN 2 ELSE 1
  /\ phase' = IF axis = 1 THEN "offset" ELSE "start"

NoOffset ==
  /\ phase = "offset"
  /\ cache[axis] < 0
  /\ AfterOffset
  /\ UNCHANGED <<camera, correction, cache, query, saved, format, demand, range, chosen, why,
                 before, app, history, count>>

(* Seeded bug: the offset stays in the cache.                            *)
ResetCache_Forgotten ==
  /\ phase = "reset"
  /\ UNCHANGED cache
  /\ AfterOffset
  /\ UNCHANGED <<camera, correction, query, saved, format, demand, range, chosen, why, before,
                 app, history, count>>

(* offsetx_cache = -1.                                                     *)
ResetCache ==
  /\ phase = "reset"
  /\ cache' = [cache EXCEPT ![axis] = Unset]
  /\ AfterOffset
  /\ UNCHANGED <<camera, correction, query, saved, format, demand, range, chosen, why, before,
                 app, history, count>>

(* gst_pylon_start. A query that is under way can not restore an offset    *)
(* that is locked from now on.                                             *)
StartGrabbing ==
  /\ phase = "start"
  /\ grabbing' = TRUE
  /\ phase' = "streaming" /\ Forget
  /\ LET settled(a) == request[a] # Unset /\ cache[a] = Unset
     IN  /\ due' = [a \in Axes |-> IF settled(a) THEN Nearest(a, size[a], request[a]) ELSE due[a]]
         /\ request' = [a \in Axes |-> IF settled(a) THEN Unset ELSE request[a]]
  /\ disturbed' = [a \in Axes |-> disturbed[a] \/ (access = "stopped" /\ Window(a))]
  /\ UNCHANGED <<size, offset, access, correction, cache, query, saved, axis, why, app, count>>

(* A call to the camera throws, or stopping or starting it fails.          *)
ConfigurationThrows ==
  /\ phase \in {"set_caps", "size", "offset", "start"}
  /\ CameraFails
  /\ Fail("camera")
  /\ UNCHANGED <<camera, correction, cache, query, saved, axis, app, history>>

(* After a stop or a failed negotiation the element is stopped, which      *)
(* closes the camera, and started: the user set is loaded and the object   *)
(* is a new one.                                                           *)
Reopen ==
  /\ phase \in {"streaming", "failed"}
  /\ \A t \in Threads : query[t].stage = "idle"
  /\ app.stage = "idle"
  /\ phase' = "open" /\ why' = "none"
  /\ grabbing' = FALSE
  /\ \E g \in PowerOn : size' = g.size /\ offset' = g.offset
  /\ cache' = [a \in Axes |-> Unset]
  /\ request' = [a \in Axes |-> Unset]
  /\ due' = [a \in Axes |-> {offset'[a]}]
  /\ disturbed' = [a \in Axes |-> FALSE]
  /\ UNCHANGED <<access, correction, query, saved, axis, format, demand, range, chosen, before,
                 app, count>>

-----------------------------------------------------------------------------
(* gst_pylon_object_set_property of an offset, in a thread of the          *)
(* application.                                                            *)

(* IsGrabbing() is tested first.                                           *)
AppTests(a, v) ==
  /\ app.stage = "idle"
  /\ Event
  /\ app' = [stage |-> IF grabbing THEN "write" ELSE "cache", axis |-> a, value |-> v]
  /\ UNCHANGED <<camera, correction, cache, query, saved, negotiation, history>>

(* Whether a configuration has passed an axis by: what is cached now comes *)
(* too late for its stream, or is wiped out with the value before it.      *)
TooLate(a) ==
  \/ phase \in {"offset", "reset"} /\ (axis > a \/ (axis = a /\ phase = "reset"))
  \/ phase \in {"start", "streaming"}
  \/ grabbing

AppCaches ==
  /\ app.stage = "cache"
  /\ LET a == app.axis
     IN  /\ cache' = [cache EXCEPT ![a] = app.value]
         /\ request' = [request EXCEPT ![a] = app.value]
         /\ disturbed' = [disturbed EXCEPT ![a] = @ \/ TooLate(a)]
  /\ app' = AppIdle
  /\ UNCHANGED <<camera, correction, query, saved, negotiation, due, count>>

AppWrites ==
  /\ app.stage = "write"
  /\ LET a == app.axis
     IN  \E o \in Written(a, app.value) :
           /\ offset' = [offset EXCEPT ![a] = o]
           /\ due' = [due EXCEPT ![a] = Nearest(a, size[a], app.value)]
           /\ request' = [request EXCEPT ![a] = Unset]
           /\ disturbed' = [disturbed EXCEPT ![a] = Window(a) \/ cache[a] # Unset]
  /\ app' = AppIdle
  /\ UNCHANGED <<size, access, grabbing, correction, cache, query, saved, negotiation, count>>

(* "Unable to set pylon property": only the log sees it.                   *)
AppWriteIgnored ==
  /\ app.stage = "write"
  /\ \/ Written(app.axis, app.value) = {} /\ UNCHANGED count
     \/ CameraFails
  /\ app' = AppIdle
  /\ UNCHANGED <<camera, correction, cache, query, saved, negotiation, history>>

-----------------------------------------------------------------------------

Query(t) ==
  \/ PeerQueries(t) \/ SaveOffset(t) \/ MinimiseOffset(t) \/ ReadRanges(t)
  \/ RestoreOffset(t) \/ QueryThrows(t)

Configure ==
  \/ Negotiate \/ Fixate \/ NoCommonCaps \/ StopGrabbing \/ NotAligned
  \/ SetSize \/ SizeRefused \/ ApplyOffset \/ OffsetRefused \/ NoOffset \/ ResetCache
  \/ StartGrabbing \/ ConfigurationThrows \/ Reopen

Application ==
  \/ \E a \in Axes : \E v \in Requests[a] : AppTests(a, v)
  \/ AppCaches \/ AppWrites \/ AppWriteIgnored

Next == (\E t \in Threads : Query(t)) \/ Configure \/ Application

Spec == Init /\ [][Next]_vars

-----------------------------------------------------------------------------

(* The image lies on the sensor, in whole increments.                      *)
OnSensor ==
  /\ DOMAIN size = Axes /\ DOMAIN offset = Axes
  /\ \A a \in Axes : /\ size[a] \in SizesFor(a, offset[a])
                     /\ offset[a] \in OffsetsFor(a, size[a])

(* Types, and that the image always lies on the sensor, corrections and    *)
(* restored offsets included.                                              *)
TypeOK ==
  /\ OnSensor
  /\ access \in {"always", "stopped", "never"}
  /\ grabbing \in BOOLEAN /\ correction \in BOOLEAN
  /\ cache \in [Axes -> Nat \union {Unset}]
  /\ query \in [Threads -> [stage : {"idle", "save", "minimise", "range", "restore"},
                            axis : Axes, structure : 1..Len(Structures)]]
  /\ saved \in [Threads -> [Axes -> Nat]]
  /\ phase \in {"open", "query", "fixate", "set_caps", "size", "offset", "reset", "start",
                "streaming", "failed"}
  /\ axis \in Axes
  /\ format \in {"raw", "bayer"}
  /\ demand \in [Axes -> Nat \union {Any}]
  /\ range \in [Axes -> Nat] /\ chosen \in [Axes -> Nat]
  /\ why \in {"none", "query", "caps", "alignment", "size", "offset", "camera"}
  /\ app \in [stage : {"idle", "cache", "write"}, axis : Axes, value : Nat]
  /\ request \in [Axes -> Nat \union {Unset}]
  /\ due \in [Axes -> SUBSET Nat]
  /\ disturbed \in [Axes -> BOOLEAN]

(* A stream has the offset the application asked for last, before the      *)
(* stream or while it runs, or the nearest one the camera can have with    *)
(* the size of that time; or that of the user set if it asked for none.    *)
(* Caps queries, renegotiations and failed ones in between do not change   *)
(* it. The code has no lock here, so this leaves out an axis where a       *)
(* query, a configuration and set_property overlapped, and one where a     *)
(* query of another thread failed before it had restored the offset.       *)
OffsetAsAsked ==
  \A a \in Axes : grabbing /\ ~disturbed[a] /\ ~Window(a) => offset[a] \in due[a]

(* Where downstream leaves a size open, no negotiation fails for it, apart *)
(* from a Bayer width on a camera with an offset; and a raw stream keeps   *)
(* the size that user set and PFS file have given the camera.              *)
OpenSizesRefused ==
  /\ SizeRefused \/ NotAligned \/ NoCommonCaps
  /\ CASE why' = "caps" -> \A a \in Axes : demand[a] = Any
       [] why' = "alignment" -> demand[1] = Any
       [] OTHER -> demand[axis] = Any /\ ~(format = "bayer" /\ axis = 1 /\ offset[1] > 0)
OpenSizesChanged ==
  /\ StartGrabbing
  /\ \E a \in Axes : demand[a] = Any /\ (format = "raw" \/ a = 2) /\ size[a] # before[a]
OpenSizesKept == [][~OpenSizesRefused /\ ~OpenSizesChanged]_vars
==============================================================================
