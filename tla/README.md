# pylonsrc in TLA+

This directory is a verification development for the GStreamer source element
`pylonsrc` (`ext/pylon`), the camera library under it (`gst-libs/gst/pylon`)
and the HDR metadata provider (`HdrMetadataProvider`). The modules are
translated from the code, TLC checks them on small instances, and TLAPS proves
the theorems listed below for every value of the constants. Paths below are
relative to the root of the repository.

## 1. Inventory

### Threads

| thread | enters the code through |
|---|---|
| pylon grab loop | `GstPylonImageHandler::OnImageGrabbed` |
| pylon device removal | `GstPylonDisconnectHandler::OnCameraDeviceRemoved` |
| GStreamer streaming thread | `set_caps`, `create` |
| application threads | `set_property`, `get_property`, state changes (`start`, `stop`, `unlock`), the child proxy (`cam::`, `stream::`), freeing a buffer downstream |

### Components

| component | source | state | operations | hard because |
|---|---|---|---|---|
| image handler | `gstpylonimagehandler.cpp` | one pointer, one flag, mutex, condition variable | `OnImageGrabbed`, `InterruptWaitForImage`, `WaitForImage` | four threads, one flag for two things, notification after the unlock |
| disconnect handler | `gstpylondisconnecthandler.cpp` | none of its own | `OnCameraDeviceRemoved` | interrupts a capture from a fourth thread |
| capture path | `gst_pylon_capture`, `gst_pylon_src_create`, `_unlock`, `_stop`, `free_ptr_grab_result` | the grab results and who owns them, the retry counter | capture, push, free, unlock, stop, renegotiate | raw pointers to smart pointers cross three threads; a retry loop inside a blocking call; an interrupt that is never taken back |
| HDR metadata provider | `HdrMetadataProvider.cpp` | exposure map, last profile, index and frame number, frame offset | `Create`, `ProcessFrame` | images are lost at any time, windows of different sizes must fit together exactly, the offset of one switch is the base of the next |
| HDR metadata plugin | `HdrMetadataPlugin.cpp` | the provider | `Configure`, `ProcessAndAttachMetadata`, `Reset` | a renegotiation replaces the provider |
| HDR profile switcher | `HdrProfileSwitcher.cpp` | target profile, retry count | `RequestSwitch`, `GetPendingSignal`, `Reset` | two threads write plain integers |
| HDR sequences | `gst_pylon_src_set_caps` | the properties `hdr-sequence`, `hdr-sequence2` | parse, adjust, rewrite, configure | rewrites the properties it reads |
| HDR sequencer | `gst_pylon_configure_hdr_sequence`, `gst_pylon_configure_dual_hdr_sequence`, `gst_pylon_switch_hdr_profile` | the sequencer registers and sets of the camera | program, signal | every write may throw in the middle of it; selectors; sets remember old values |
| element lifecycle | `gst_pylon_src_start`, `_stop`, child proxy, `gst_pylon_new`, `gst_pylon_free` | the open camera, the SDK's initialisation count | open, configure, close | error paths that undo only a part; a child that opens the camera early |
| geometry and caps | `gst_pylon_query_*`, `gst_pylon_set_configuration` | offset cache, the camera's width, height, offsets | query, set | a query that changes the camera and changes it back |
| feature objects | `gstpylonobject.cpp` | none besides the camera | get and set a feature behind a selector | two writes that belong together |
| introspection | `gstpylonfeaturewalker.cpp`, `gstpylonintrospection.cpp`, `gstpylonparam*.cpp` | the node map being driven to its extremes | walk, find limits | changes features to find out about others and restores them |
| feature cache | `gstpyloncache.cpp` | a key file | load, get, set, create | several processes, one file |
| frame metadata | `gstpylonmeta.cpp`, `gsthdrmeta.cpp` | a buffer's metadata | add | copies values only |
| documentation, registration, bindings, buffer factories, legacy providers | see `PROJECT.json` | none, or not built | | not modelled |

### Interaction

The grab loop calls the image handler, which hands the grab result to
`gst_pylon_capture` in the streaming thread. `create` first asks the profile
switcher for a signal to send, captures, and passes the buffer through the
HDR plugin, which looks up its exposure. `set_caps` stops the camera, writes
caps, builds the exposure map, programs the sequencer and starts the camera
again. Any thread may ask the element for its caps, which moves the offsets of
the camera and moves them back. When a camera is opened for the first time its
features become properties: the walker reads the node map, drives the camera
through its settings and keeps what it finds in a file. The application reaches all of it: `unlock` and the removal of the
device interrupt the handler, `set_property` writes the switcher, `stop` waits
for the streaming thread, then resets plugin and switcher and frees the camera.

### What makes each component correct

* image handler: no lost wake-up, no pending result overwritten, a waiting
  thread is served; all of it at once: it is a one-slot mailbox.
* capture path: the camera never writes into a buffer somebody holds; images
  leave in order; the stream ends only for a reason, and does end when the
  application stops it or the device is gone.
* metadata provider: frames of a window share a number, different windows do
  not, numbers never go back, a switch begins a number; a frame is recognised
  as the step the sequencer exposed.
* profile switcher: a request leads to a signal, and nothing else does.
* sequences: profile 0 is what was asked for, a renegotiation changes nothing.
* sequencer: it runs only with every set programmed as far as its registers can
  be written, and then exposes the sequences that were asked for.
* lifecycle: `PylonInitialize` and `PylonTerminate` are paired, a started
  camera is the one, and is configured as, the properties say.
* geometry: the image never leaves the sensor; a query leaves the camera as it
  was; an offset the application asked for reaches the stream and stays there;
  what downstream leaves open stays as it was configured.
* introspection and cache: limits are those of the feature, every feature is
  restored, every feature becomes one property, a cached value is the value of
  that feature, whichever process found it.

## 2. Modules

| module | models | is |
|---|---|---|
| `Mailbox` | what the image handler promises | abstract specification |
| `ImageHandler` | `GstPylonImageHandler` | component; implements `Mailbox` |
| `ImageHandlerProofs` | | theorems about `ImageHandler` |
| `Capture` | grab loop, image handler, device removal, streaming thread, buffers downstream, application | composition; an instance of `ImageHandler` and the threads around it |
| `MCCapture` | | `Capture` with symmetry for TLC |
| `CaptureProofs` | | theorems about `Capture` |
| `HdrMetadata` | the numbering of frames by the provider, fed by a sequencer | component with its environment |
| `HdrMetadataProofs` | | theorems about `HdrMetadata` |
| `ExposureMap` | the HDR sequences on their way through `set_caps`, the provider's factory and map | component |
| `ExposureMapProofs` | | theorems about `ExposureMap` |
| `HdrSwitch` | `HdrProfileSwitcher` between two threads | component, one step per load and store |
| `ExposureCycle` | what the HDR properties promise | abstract specification |
| `HdrSequencer` | both configure functions, register by register, and the camera that runs what they programmed | component with its environment; implements `ExposureCycle` |
| `MCHdrSequencer` | | the sequences `HdrSequencer` is checked with |
| `HdrSequencerProofs` | | theorems about `HdrSequencer`, the refinement among them, and about `HdrSwitch` |
| `PylonSrc` | `gst_pylon_src_start`, `gst_pylon_new`, the child proxy, `stop`, `finalize` | component with its callers and the cameras around it |
| `MCPylonSrc` | | the cameras, criteria and user sets `PylonSrc` is checked with |
| `PylonSrcProofs` | | theorems about `PylonSrc` |
| `Geometry` | size and offset: caps queries of any thread, fixation, `gst_pylon_set_configuration`, the dimension cache, `set_property` of an offset | component with its callers and the camera |
| `MCGeometry` | | the sensor `Geometry` is checked with |
| `GeometryProofs` | | theorems about `Geometry` |
| `NodeMap` | the node map of a camera and what the introspection reads out of it | operators |
| `FeatureLimits` | `gst_pylon_find_limits`, the search for the limits of a feature | component; a part of `FeatureWalker` |
| `FeatureWalker` | `GstPylonFeatureWalker::install_properties`, access, cache and cache file, several processes | composition of `NodeMap`, `FeatureLimits` and the cache |
| `MCFeatureWalker` | | the node map `FeatureWalker` is checked with |
| `FeatureWalkerProofs` | | theorems about `FeatureWalker` with its parts `NodeMap` and `FeatureLimits` |

### How state and actions correspond to the code

`ImageHandler`. `ptr_grab_result` and `grab_result_ready` are the fields of the
class. A critical section of `grab_result_mutex` is one step, because both
fields are touched only under it. `notify_one()` runs after the unlock and is a
step of its own (`NotifyOne`); `notifier` says which thread is between the two.
The waiting thread goes through `waiter` = outside, checking (about to hold the
mutex and evaluate the predicate), asleep; `SpuriousWakeup` is allowed at any
time, as the standard library allows it.

`Capture`. The variables of the handler are `Handler`'s. A grab result is the
buffer its image is in, the image's number and `GrabSucceeded`; `refs` is the
reference count of the pylon buffers, spelled out as who holds one: the grab
loop, the handler (and then `gst_pylon_capture`), a `GstBuffer`. `content` is
the image a buffer holds, and `Expose` overwrites it only when nobody holds a
reference: that is the pylon SDK's contract, and `HeldImagesIntact` says that
the code never gives a reference up while it still uses the image. `src` is
where the streaming thread is: in the loop of `GstBaseSrc`, in `set_caps`
(`SetCapsStops`, `SetCapsStarts`; `SetCapsFails` after the camera was stopped;
`SetCapsRefused` before it, for caps or a stop it refuses, when the camera may go
on grabbing), waiting in
`gst_pylon_capture`, about to retry, pushing, or paused. The branches of
`gst_pylon_capture` after `WaitForImage` are `CaptureInterrupted` (NULL),
`CaptureSucceeds`, `CaptureSkips` and `CaptureAborts`; each contains the whole
branch. `app` follows a state change to READY: the pad flushes, the element is
unlocked, the streaming task ends, `gst_pylon_src_stop` stops the camera, which
waits for the grab loop, and frees it. `Pause` is the unlock of a live source
that is paused. The NVMM copy, timestamps and chunk metadata are left out.

`HdrMetadata`. The fields of the provider have their names. `UINT64_MAX` for
"no frame yet" is 0 here (frame numbers start at 1), and 64 bit counters do not
wrap. `GetMasterSequence` divides as C++ does and `StepsBack` is the loop of
`CalculateFrameOffset`. `windowSize` comes from `Configure`. The camera walks
through the exposures of a profile (`NextExposure`) and begins the other one on
a signal (`SwitchProfile`); an image is lost by not being followed by
`ProcessFrame`. `window` numbers the windows as the camera exposes them, and
`hidden` records that a profile came and went without any of its images being
seen; both are history and are read by properties only.

`ExposureMap`. `SetCaps` is the HDR part of `set_caps` as a whole: parsing,
`HdrMetadataProvider::Create` with `BuildExposureMap` and
`HandleDuplicateExposures`, reading the exposures back out of the unordered
map (any of several is possible: `ReadsBack`), rewriting the properties, and
what the configure functions accept. `uint32_t` wraps at `MaxExposure`. The
loop over the duplicates is a function over the places of both sequences, each
value the map after one pass (`AfterPlace`).

`HdrSwitch`. Each load and store of `target_profile_` and `retry_count_` is a
step. The two fields are accessed without synchronisation, which is undefined
behaviour, so the model has what the builds of the project produce: a debug
build does the accesses in program order and reloads a field whenever it is
named, an optimised one may reorder the two stores of `RequestSwitch` and may
use a value it already has in a register. `optimised` is chosen initially.
Its specification is `SwitcherSpec`, so that `HdrSequencerProofs` can extend both
modules.

`HdrSequencer`. `SequencerMode`, `SequencerSetSelector` and the other registers
have their GenICam names; `active` are the registers that are loaded from and
saved to a set, `sets` the sets. `pc` is the next statement that writes, `i`
the loop variable; the dual and the single configuration share the actions
where they write the same (the map names one of them) and branch on `Dual`
where they differ. `Fails` is the `catch`: any write may throw, nothing is
undone. `kind` is what cameras differ in and the code tests, `Kind` explains its
fields: the paths of a set, whether there are commands to load and save one (a
camera without them is edited in place), which trigger sources can be set,
whether there is one for all sets, what the user set says, and which registers
are always writable. Where the code asks `IsWritable` and without it logs a
warning and goes on, the action has both outcomes (`AfterWrite`; a set that
could not be selected is not loaded either, but edited and saved like any other,
wherever the selector is); what the dual configuration writes without asking is
in `MayBeSkipped`. `SetTrigger` is the one write of the trigger source in the
single configuration, with the order of preference of the code
(`ChosenTriggers`), before a set is selected or loaded; the dual configuration
writes a source into each path of each set. `Advance` is the camera after an
exposure: the first path whose trigger fired leads to the next set, and a
trigger of `EachImage` fires each time. `CanCycle` are the cameras on which a
configuration that does not fail must lead to the sequence that was asked for.

`PylonSrc`. `criteria` stands for the three `device-...` properties, as the set
of cameras they fit and the index; `pylon` is the pointer of that name, with the
criteria the camera was opened for. `pc` is where the one call of
`gst_pylon_src_start` is: it is cut where the code takes or drops the object
lock, and `gst_pylon_new` is cut in three (choosing the device, each attempt to
create it, opening it) because other processes take and release cameras
meanwhile; `SetProperty` is excluded there by the lock. `Fail` is the label
`log_gst_error`. `open` are the cameras this process has open, `sdk` the calls
of `PylonInitialize` less those of `PylonTerminate`, `taken` the cameras of
other processes. `applied` is the history of what was written to the camera
since it was opened: the power-on user set by `gst_pylon_new`, the user set and
the PFS file by `start`, a feature by the application through the child that
`ReturnToChildProxy` hands out.

`Geometry`. An axis is 1 (width and x) or 2 (height and y); `Sensor` is the
number of pixels and `Inc` the increment. `query[t]` is where thread `t` is in
`gst_pylon_query_configuration`: it saves both offsets, sets them to the
minimum, reads the ranges and restores the offsets, one call to the camera per
step, for each structure of the caps. The query of the streaming thread goes
through both structures; that of a peer is one structure, because the next one
begins like another query and nothing is kept between them. `phase` is the
negotiation in the streaming thread: the query, `gst_pylon_src_fixate`, the
test of the alignment, `gst_pylon_stop`, width and height, each offset in the
cache (`ApplyOffset` writes it and `ResetCache` clears it: two steps, because
an application may write the cache in between), the start. `SizeRefused`,
`OffsetRefused`, `NotAligned`, `NoCommonCaps` and `ConfigurationThrows` are its
ways to fail, `Reopen` the way from there through a stop to a new start.
`cache` is `dimension_cache`, where -1 is "nothing". `app` is
`gst_pylon_object_set_property` in two steps, the test of `IsGrabbing` and what
follows from it. `correction` is `enable_correction`: then a value out of range
becomes the nearest one, otherwise the camera refuses it. `access` is when a
camera lets its offsets be written. `request`, `due` and `disturbed` are
history: what was asked for and has no stream yet, the offsets a stream may
have, and that two threads overlapped on an axis.

`NodeMap`. A node is a record of what the GenICam interface says about it. A
feature that is in a list of names in the code (`propfilter_set`,
`categoryfilter_set`, `selectorfilter_set`, the transport parameters) has a flag
for it. `LimitNode`, `ParentFeatures`, `NodeCategory` and `CanLaterBeWritable`
are the recursive functions of that kind in `gstpylonintrospection.cpp`.

`FeatureLimits`. `saved` is `reset_list`, `extremes` the `actions_list`, in the
order in which a `std::set` of pointers is walked, that is, of the nodes'
addresses: `order` is chosen by each process. `step` counts the combinations:
as in `gst_pylon_cartesian_product` it is divided by the lengths of the lists,
the last one first, and the remainders are the places in them (`Place`).
`position` is the write within a combination; `ApplyExtreme` and `ResetValue` are one
write each, which the camera may refuse, and the code ignores that.

`FeatureWalker`. `worklist` is the queue of `install_properties`, `entries` the
selector entries of the current feature, `specs` the list of its specs. `phase`
follows a feature through `GetIntProps`/`GetDoubleProps` (`LookUp`), the access
in both states of `TLParamsLocked` (`QueryAccess`, `Unlock`), the search,
`SetIntProps` (`StoreProps`), the spec (`MakeSpec`) and `install_specs`.
`EntryThrows` is every `catch` between: the entry is given up and whatever the
camera was driven to stays. `dict` and `file` are the cache in memory and on
disk, `foreign` the memory of another process; `Start` is a process that opens
the camera, `Crash` its end at any step.

`Truth` is the reference definition, pairs of a name and what may be said of it.
The access is what the camera says. The limits (`TrueLimits`) are the smallest
minimum and the largest maximum the camera reports in any of the settings it
accepts, without a search and without the list of names in the code. A search
tries the extremes of the controls and nothing else, so it can not find these
limits where the camera has them with a control in between. `CornersTell` says
of each feature by itself whether it has its limits with every control at one
of its extremes, at values the controls can be driven to as soon as those that
lock them are where they are to be. Where it does, exactly the true limits are
right (`RightLimits`); where it does not, those over some set of the settings,
which is that nothing is made up. `OwnNames` are the numbers it is claimed of:
not those with limits by name in the code (`ByName`; whether
`AcquisitionBurstFrameCount` has the limits 1 and 1023 is not something the
camera is asked), and not the integers behind a selector, which share a cache
entry (`FeatureCacheKey`). `clean` records that no call failed and that `order`
was not one of those in which the search goes wrong (section 7).

## 3. Runs

All finish in seconds, except `Capture`, `Geometry` and `FeatureWalker` (about
a minute each), `PylonSrc` and `ExposureMap` (half a minute).

| run | shows | bounds and why they are enough |
|---|---|---|
| `ImageHandler` | no lost wake-up, no pending result behind a cleared flag, refinement of `Mailbox` with its liveness | two results, two interrupting threads: a result can be dropped or replaced, and all three notifiers can be between unlock and notification at once |
| `Capture` | buffer ownership, order, stale images, reasons for the end of the stream | two buffers so that one can be held while the other is written; three images: one pending, one dropped, one after a restart; one retry; all policies |
| `CaptureStop` | under keep and abort, a stop completes | one buffer, two images |
| `CaptureSkipStop` | under skip it may not: violation | the same |
| `HdrMetadata` | monotone master sequence, exact counting, separation at switches | window sizes 0 to 4 in every combination, nine frames: three switches with windows cut short at each position |
| `ExposureMap` | the map finds every step, profile 0 is kept, a renegotiation is stable | all sequences up to two steps over two exposures and two gains, seven more exposures to move to: no, one or two duplicates, the largest exposure among them, from which the search wraps around |
| `HdrSwitch` | signals only for requests, and requests apart from the race are signalled | four requests, stops and restarts, refused signals, both builds |
| `HdrSequencer` | a sequencer that is on misses nothing but what could not be written, every set delivers the caps, refinement of `ExposureCycle` | single sequences of one to three steps, dual ones from 1+1 to beyond the camera's four sets and beyond the limit of five (16 in the code), 29 kinds of cameras: with and without paths and commands, each register but one always writable, each way to have a trigger source; two formats, a failure at every write |
| `PylonSrc` | exactly the camera of the element is open, it is the requested one, settings are applied in order, the SDK stays initialised under an open camera, `start` returns | two cameras and three criteria, so that criteria can fit none, one or two cameras and change from one camera to the other; two attempts; three `PylonInitialize` more than `PylonTerminate` |
| `FeatureWalker` | limits, access and cached values are right, an empty vector has a cause, the camera is restored, every feature becomes one property, the walk ends | a node map of 24 nodes with every kind the code distinguishes: limits found along `pValue` and `pValueDefault`, controls that lock each other, a feature with its largest value not at an end of its control (`Peak`), one whose limits by name are not those of the camera (`Known`), selectors of both kinds, a feature in two categories, filtered ones; both a good and a bad order of addresses; two processes one after the other, so that the second reads what the first left, and another one writing the same file; one failure at any call, a crash at any step |
| `FeatureCacheKey` | integers behind a selector share one cache entry: violation | the same |
| `Geometry` | the image stays on the sensor, the offset is the one asked for, open sizes are kept | a sensor of 5 by 4 pixels with increments 1 and 2 and an alignment of 2: the largest width is not aligned and only fits without an offset, one requested offset is 0, the other out of range and between two steps; one peer, two negotiations, two requests or failures, the three kinds of access with and without correction |

`CHECK_DEADLOCK FALSE` is used where the system may stop: `Capture` (the
application stopped the element and freed it), `HdrMetadata`, `Geometry` and
`FeatureWalker` (the bounds on images, negotiations and processes are reached).

Each violation run is one of the findings in `PROJECT.json`:

* `CaptureSkipStop`: an interrupt that arrives while a failed image is pending
  is the same flag as the image's. The skip policy takes both and waits again;
  the stop waits for it.
* `FeatureCacheKey`: `gst_pylon_query_feature_properties_integer` makes a name
  out of the feature and its selector and then asks and fills the cache under
  the name of the feature alone. The first entry of the selector that is looked
  at determines the limits and the access of all of them; the function for
  doubles beside it does use the name.

### Fairness

* `ImageHandler`: a thread past its critical section goes on to notify, and a
  thread that can lock the mutex does. Nothing is assumed of the camera.
* `Capture`: the threads of the process run: the streaming thread, the grab
  loop while it is in the callback, a notifier, a state change that has begun.
  The camera need not expose anything, downstream need not free anything, the
  application need not stop.
* `HdrSwitch`: `set_property` returns, and the streaming thread keeps calling
  `create`, that is, the camera delivers images. A pending request waits for
  the next image, so nothing about it can be said otherwise.
* `PylonSrc`: the thread that called `start` runs. Nothing is assumed of the
  cameras, other processes or the application.
* `FeatureWalker`: the thread that makes the class runs, and it does nothing
  else meanwhile. Nothing is assumed of the application and of the other
  process.
* The other modules state safety only. In `Geometry` nothing has to happen: a
  camera may refuse any configuration, and the application asks for nothing.

## 4. Proofs

| theorem | says |
|---|---|
| `ImageHandlerProofs!TypeCorrect` | type correctness |
| `ImageHandlerProofs!NoWakeupIsLost` | a sleeping thread and a set flag imply a notification under way |
| `ImageHandlerProofs!NoResultIsOverwritten` | a pending result is behind the flag |
| `ImageHandlerProofs!HandlerImplementsMailbox` | every step of the handler is a step of `Mailbox` or a stutter |
| `CaptureProofs!TypeCorrect` | type correctness |
| `CaptureProofs!CaptureRunsTheHandler` | the capture path uses the handler by its operations only: it implements `ImageHandler` |
| `CaptureProofs!HeldImagesStayIntact` | no image that is held is overwritten |
| `CaptureProofs!EosAlwaysHasCause` | the stream ends for a reason |
| `CaptureProofs!ImagesAreTakenInOrder` | images are taken in order, none twice |
| `CaptureProofs!StaleImageComesFirst` | only the first image after a restart can be stale |
| `HdrMetadataProofs!TypeCorrect` | type correctness; the master sequence is never negative |
| `HdrMetadataProofs!MasterNeverDecreases` | the master sequence never goes back |
| `HdrMetadataProofs!MasterCountsWindows` | it counts the windows of a profile exactly |
| `HdrMetadataProofs!SwitchBeginsNumber` | a switch seen from its start begins a new number |
| `PylonSrcProofs!TypeCorrect` | type correctness |
| `PylonSrcProofs!OneCameraIsOpen` | exactly the camera of the element is open |
| `PylonSrcProofs!SettingsStayInOrder` | user sets, then the PFS file, then features |
| `PylonSrcProofs!SdkStaysInitialised` | the SDK is initialised under an open camera |
| `PylonSrcProofs!StartsAsRequested` | a start that succeeds leaves the camera asked for |
| `GeometryProofs!TypeCorrect` | type correctness; the image lies on the sensor in whole increments |
| `GeometryProofs!OffsetIsAsAsked` | a stream has the offset asked for last, or the nearest one |
| `GeometryProofs!OpenSizesAreKept` | no negotiation fails for a size that downstream leaves open, and a raw stream keeps the size of the user set |
| `ExposureMapProofs!TypeCorrect` | type correctness; an exposure that is made up is one the type has |
| `ExposureMapProofs!EveryStepIsFound` | the map finds profile and position of every step the camera cycles through |
| `ExposureMapProofs!Profile0IsKept` | `set_caps` leaves profile 0 alone and drops no step of profile 1 |
| `ExposureMapProofs!RenegotiationChangesNothing` | the rewritten properties are a fixed point of `set_caps` |
| `HdrSequencerProofs!TypeCorrect` | type correctness |
| `HdrSequencerProofs!RunsOnlyProgrammed` | a sequencer that is on has every set programmed in each register that is always writable, whatever was skipped and whatever failed |
| `HdrSequencerProofs!CapsAreDelivered` | every set the streaming camera gets to has the format of the caps |
| `HdrSequencerProofs!SequencerImplementsCycle` | the programmed camera implements `ExposureCycle`, on every camera that `CanCycle` |
| `HdrSequencerProofs!SwitcherTypeCorrect` | type correctness |
| `HdrSequencerProofs!OnlyRequestedAreSignalled` | with one try per request, no profile is signalled more often than requested |
| `FeatureWalkerProofs!TypeCorrect` | type correctness; limits are never the wrong way round |
| `FeatureWalkerProofs!TheCameraIsRestored` | between two features the controls have their values of before and the transport layer is unlocked |
| `FeatureWalkerProofs!EveryFeatureIsInstalledOnce` | a walk that ends has one property of every entry of every feature it can reach |
| `FeatureWalkerProofs!EveryCombinationIsListed` | `gst_pylon_cartesian_product` leaves no combination out |
| `FeatureWalkerProofs!OwnLimitsAreTrue` | limits and access of every number of `OwnNames` are right, wherever the process has them from, unless a call failed or the order is a bad one |
| `FeatureWalkerProofs!EmptyVectorIsExplained` | the end of an empty vector is dereferenced only where a controlling enumeration is locked |

Assumptions: only those the modules declare about their constants (`NULL` is
not an image, window sizes fit in a byte, bounds are natural numbers, a node
map refers to nodes of its own). The theorems about `ImageHandler` do not
need even the ones it declares. The
number of buffers, results, interrupting threads and images, the window sizes,
the cameras, criteria, user sets and attempts, the sensor, increments, user
sets, requests, demands and querying threads, the HDR sequences, formats and the number of
sets a camera has, the node map and what the camera says of its nodes are
arbitrary. These assumptions say more, and TLC evaluates each on the constants
of the runs:

* `RoomAssumption` of `ExposureMap`: `MaxExposure` is at least four times the
  longest sequence. The map has an entry for every step of both profiles and at
  most one more for each of them, so there is always a free exposure, and the
  search of `HandleDuplicateExposures`, which has no other end, ends. The
  code's type has 2^32 values and a camera a few dozen sets.
* `WidthsAssumption` of `Geometry`: the increment of the width is a multiple of
  the 4 bytes a Bayer width is aligned to and the sensor has a whole number of
  increments; or it divides the 4 bytes and no user set, PFS file or downstream
  asks for a width below them. `gst_pylon_src_fixate` rounds down to the
  alignment without a look at the increment, so without the one or the other
  the width it chooses need not be one the camera has. It is used for
  `OpenSizesAreKept` only.
* `CameraAssumption` of `FeatureLimits`: a feature always has a finite, not
  empty range of values, and a camera that accepts one of them has settings
  again. The code reads minimum and maximum of a feature without a test.
* `NamesAssumption` of `FeatureWalker`: the selectors accept their entries, which
  the code takes from the camera, and what another process caches is an entry of
  a number. `ControlsAssumption`: a control keeps its value, is no selector and
  behind none, and accepts the value it had at first unless one of the controls
  driven with it, and which locks it, is elsewhere. `create_reset_value_actions`
  saves one value per control and writes it back without a look at a selector or
  at the answer, so on other cameras it can not undo what it did.
  `FeaturesAssumption`: what the camera says of a feature is up to the controls
  and the feature's own selector. The walk leaves every selector at its last
  entry, so on other cameras the result would depend on the order of the walk.
* `SelectorsAssumption` of `FeatureWalker`: where the selectors are says nothing
  of where the controls can be. A search is made with the feature's own selector
  at its entry and the others wherever the walk has left them.
* `CamerasAssumption` and `TriggersAssumption` of `HdrSequencer`: a kind of camera
  has the fields of `Kind`, `ExposureActive` comes with every image and the two
  software signals do not. Which registers are writable, which sources there are
  and what the user set says is arbitrary.

Nothing is assumed about where a feature has its limits, and nothing excludes a
camera with a locked control: whether the extremes tell is part of what
`OwnLimitsAreTrue` claims of each feature (`CornersTell`), and
`EmptyVectorIsExplained` is about every state, the ones after a failure and in a
bad order included.

The theorem about signals has `RetryCount = 1` as a hypothesis, which is what `set_property` gives
`RequestSwitch`: with more tries the code sends a signal several times for one
request, and in an optimised build the tries left over from one profile may go
to the other, so that the count of one profile is exceeded.

Arguments.

* `ImageHandler`: `HandlerInv` is `NoLostWakeup` and `PendingIsReady`
  together with the type invariant; it is inductive because the flag is set in
  the same step that makes its thread a notifier.
* `Capture`: `HeldImagesIntact` is not inductive. The invariant `IInv` adds
  where the threads can be relative to each other (`ControlInv`: the handler's
  waiter is inside exactly when the streaming thread waits, a callback past its
  critical section still has its image), the order of the numbers of the
  images that are delivered, taken, pending and arriving (`OrderInv`), that
  the image being pushed is newer than every one downstream (`PushedInv`), and
  that a buffer is referenced by exactly those who hold an image in it
  (`RefsExact`). Ordered numbers make the holders' images different, references
  keep the camera out of their buffers. The facts about the handler are taken
  from `ImageHandlerProofs` through the instance.
* `HdrMetadata`: the invariant ties the numbers to the camera (`InPlace`):
  with the current offset a frame is at the place its exposure has in its
  window, so its master sequence is determined by its window. What is claimed
  of frames after a profile was missed needs less (`NumbersInv`): the number
  with the offset stays positive, and a switch never makes the master sequence
  smaller. The arithmetic is in lemmas: a window is an interval of positions
  (`WindowBounds`, `WindowUnique`), master sequences grow with positions
  (`WindowMonotone`), the loop of `CalculateFrameOffset` finds the first
  position of a window (`LoopFindsFirst`), and so a switch continues where the
  last profile stopped (`OffsetContinues`).
* `PylonSrc`: the invariant `IInv` says what each section of `start` may rely
  on: which sections hold a camera and which do not, and that the others leave
  it alone (`ControlInv`); that the device chosen under the lock fits the
  criteria (`DeviceInv`); how far the settings are (`SettingsInv`); that an
  open camera has a `PylonInitialize` that nobody took back (`SdkInv`, which is
  where a refused setting must be excluded); and that the camera held is the
  one the criteria at its opening meant (`RequestInv`).
* `Geometry`: that the image stays on the sensor is inductive together with
  the types, by arithmetic (`OffsetFits`, `SizeFits`, `NearestFits`). For
  `OffsetAsAsked` the invariant follows the offset through its detours
  (`AskedAt`): what the camera has is due, or, once the negotiation has applied
  a request, next to the request; while a query has moved the offset, the same
  holds of what the query has saved. That at most one query may be in its
  window on an undisturbed axis makes the saved value unique (the lemmas
  `...Windows` say how each step changes the windows). `Live` leaves out a
  stopped camera whose negotiation failed, because nothing of it is streamed,
  and `ControlInv` says in which phases the camera does not grab.
  For `OpenSizesKept` the invariant (`SizesInv`) follows the size through a
  negotiation: the range a query has found contains the size the camera has, in
  increments (`RangesInv`), so the size is its own nearest value; it is the one
  from before the negotiation until it is the chosen one, and these are the same
  where nobody asked for another (`BeforeInv`). A Bayer width nobody asked for
  is aligned and fits a camera without an offset (`WidthInv`), which is where
  the largest aligned width must be one the camera has (`AlignedWidth`): that
  needs the arithmetic of multiples (`MultipleOfMultiple`, `RestOfMultiple`,
  `RoundedDownFits`), and in the second case of the assumption that all sizes
  stay that wide (`WideInv`).
* `ExposureMap`: what `BuildExposureMap` returns is the last value of its loop
  over the duplicates (`BuildIsALoop`), so what each pass keeps is true of it
  (`BuildInduction`). If neither sequence repeats an exposure, the map after the
  k-th place is right for every exposure but those of duplicates still to come,
  and right for all of them after the last: `Exact`. The invariant `IInv` has to
  say more than the properties do: a sequence is looked at together with the
  other one of that moment, which may repeat an exposure and be replaced by one
  that does not while this one has been rewritten already. So `KeptApart` is
  claimed of each profile on its own, whatever the other was (`BuildKeeps0`,
  `BuildKeeps1`), `Bounded` keeps the lengths and with them the room in the map,
  and `InStep` says that camera, properties and map belong together. An exact
  map has no duplicates left (`ExactIsApart`) and is the only one
  (`ExactIsUnique`), which makes the rewritten properties a fixed point.
  Induction is over sets of numbers (`Induction`, from the well-foundedness of
  the numbers), the form of it that takes no operator as a parameter.
* `HdrSequencer`: the invariant describes the loop over the sets. The sets
  before the current one have the step, the format and the paths that were
  asked for, each as far as its register is `Sure`, that is, not one the code may
  skip (`LoopInv`), and the registers being edited as many of these as the
  loop has written; an edit touches no other set (`EditKeepsDone`) unless it is
  the trigger source of a camera that has one for all sets, where it is the same
  for all (`EditKeepsTriggers`). The mode is on only after the loop, or before it
  when all sets are still those of the last time (`ModeInv`); a camera that needs
  no saving has what is edited in the selected set, and the single configuration,
  which writes the path that happens to be selected, never leaves the first one
  (`SelectorInv`). `TriggerInv` is the single configuration's trigger source: the
  user set has one that comes with every image, in all sets, and what is loaded
  and saved keeps it; or there is one source for all sets and, once `SetTrigger`
  has written it, it stays. The arithmetic of
  the allocation is in `Allocation`: the sets of a profile follow one another
  and lead in a circle. With all sets like this, the first trigger that fires
  leads where the cycle goes (`AdvanceLeads`), the camera never leaves the sets of
  the sequences (`RunInv`), and so each step is one of
  `ExposureCycle` or a stutter; of a camera that can not cycle the abstract
  specification sees one that is not streaming. `ExposureCycle` states no fairness, so the
  theorem is the whole refinement.
* `HdrSwitch`: the invariant counts. A value the streaming thread has loaded is
  positive and at most what is there (`CountInv`), because only the streaming
  thread decreases it. The signals sent, one being decided and what the fields
  may still cause never exceed the tries of all requests (`Budget`). With one
  try a request is, in an optimised build, in one place only: about to be
  stored, stored, or being signalled (`TokensInv`); a debug build reloads the
  profile, so there the budget and the origin of each profile (`SourcesInv`)
  are used.

* `FeatureWalker`: five invariants, each on top of those before.
  For `TheCameraIsRestored` (`RestoreInv`): while a search drives the controls,
  what it has saved is what they had at first, everything else is as at first
  apart from the selectors, and while it writes back, the controls before
  `position` are back. In an order that is not among those `clean` leaves out a
  control comes after the ones that lock it, so these are back when it is its
  turn, and the camera accepts what is written.
  For `EveryFeatureIsInstalledOnce` (`OnceInv`): what has been installed or given
  up, together with what can be reached from the work list, is all that can be
  reached from the root. `Reached` is a recursive function over numbers; that it
  is closed under the children of walked categories (`ReachedIsClosed`), and the
  least such set (`ReachedIsLeast`), comes from the finiteness of the node map.
  For `OwnLimitsAreTrue` the cache, the file, the other process's memory and the
  list of specs are right as soon as each new entry is (`TruthInv`), whoever
  writes the file and whenever a process dies; and each new entry is
  (`SearchInv`): what a search has measured so far are the limits over a set of
  settings the camera can have with the other features as they are
  (`Within`); the combination being set up is in place up to
  `position` (`Driven`), if it is a corner that counts (`IsCorner`); and the
  limits under every such combination before `step` have been seen (`Seen`). At
  the end of the search `step` has counted through all combinations, so where the
  corners tell, the smallest and the largest are among what was seen
  (`TakenAtCorners`), and elsewhere what is taken are the limits over that set
  (`TakenAreRight`). That every choice of extremes
  has a number (`NumberOf`, `EveryCombinationIsListed`) is the arithmetic of
  numbers with a different base at each place.
  For `EmptyVectorIsExplained` (`EmptyInv`): nothing has been measured only before
  the first combination, and there is no combination only if one of the lists is
  empty (`NoEmptyListNoZero`), which is that of an enumeration without a settable
  value; nothing moves the camera between the making of the lists and that
  moment. It does not need `clean`.

Only model-checked:

* liveness (`StopCompletes`, `SeparateRequestSignalled`,
  `StartReturns`, `WalkEnds`, the fair part of the refinement of `Mailbox`),
  because TLAPS does not reason about fairness.

## 5. Assumptions about what is not in the repository

* pylon SDK: the grab loop calls `OnImageGrabbed` for one image at a time; a
  buffer is reused when its last `CGrabResultPtr` is gone; `StopGrabbing`
  waits for the callback; images may be lost at any time
  (`GrabStrategy_LatestImageOnly`).
* Lifecycle: calls of `start`, `stop` and the child proxy do not overlap (the
  code reads and frees the camera between its locked sections, so an
  application that accesses a child while another thread changes the state of
  the element is on its own); the device properties change only before the
  element is started; the base class does not call `stop` after a `start` that
  failed; `PylonTerminate` without a `PylonInitialize` does nothing; after the
  default user set `gst_pylon_new` throws nothing.
* Geometry: a camera has its offsets writable always, only while it does not
  grab, or never; `TrySetToMinimum` and `TrySetValue` do nothing then, and
  `SetValue` throws. `IntegerValueCorrection_Nearest` clips to the range and
  goes to a nearest step. The size is written while the camera is stopped. The
  element is closed and opened again (`Reopen`) without a pending query or
  `set_property`. Each camera call is atomic; between two calls of one thread
  any other thread may run.
* Node map: limits and access of a feature depend on the settings and on
  `TLParamsLocked` only; the default user set gives the same settings whenever
  it is loaded; a locked enumeration has no settable values; the camera refuses
  a value it does not offer. `CreateCacheFile` replaces the file as a whole
  (`g_file_set_contents` writes another file and renames it).
* GStreamer: `gst_structure_fixate_field_nearest_int` takes the value of the
  range nearest to the one given; `unlock` is called when a live source is paused and when the
  element stops; `stop` is called when the streaming task has ended; a flushing
  pad refuses a buffer; `set_caps` and `create` run in one thread; properties
  are changed only in the states their flags allow.
* Sequencer: it walks through the sets as their paths say, trying the paths in
  order, and exposes the same again if no trigger fires; loading a user set
  resets the sequencer, the selectors to 0 and every set to the step, format and
  trigger source the user set has. A register that is not always writable may be
  writable at any moment or not. A camera without the commands to load and save a
  set shows and edits the selected one; on one with a single trigger source
  (per path) a write of it is seen in all sets. A number of a set the camera does
  not have is refused. A software signal arrives during any exposure
  and affects only the transition after it.

## 6. Plan

Done, in this order: the image handler with its abstract specification, the
capture path and the metadata provider with their proofs; the HDR sequences, the
profile switcher, the sequencer with its abstract specification; the element's
lifecycle and its proofs; the walk over the features with the search for limits
and the cache; the geometry and its proofs; the proofs of the switcher and of
the sequencer with its refinement; the proofs of the exposure map and of the
sizes a negotiation chooses; the proofs of the walk, of the search for limits
and of the cache; the writes the sequencer configuration skips and its trigger
source, with the proofs; the limits of each feature as far as the extremes of
its controls tell them.

What is left, in this order:

1. `HdrPipeline`: `Capture` composed with `HdrMetadata`: the stale image after
   a renegotiation reaches the new provider.
2. `FeatureAccess`: reading and writing a feature behind a selector
   (`gstpylonobject.cpp`), two threads.
3. The connection of a camera that is unplugged and comes back, in `PylonSrc`.

## 7. Not modelled

Wording of messages, documentation strings, registration of the plugin, buffer
factories and the NVMM path (allocation and copies without state of their
own), metadata structures that only copy values, the Python bindings, and the
legacy HDR providers that are not part of the build.

Of the modelled components: the frame rate and the number of buffers in the
caps; the bulk mode around the writes of the search
(`DeviceRegistersStreaming`), whether a feature is readable, cameras without
`TLParamsLocked`, `PYLONSRC_SINGLE_FEATURE`; setting and getting a feature
behind a selector; the connection of a camera that is unplugged while the
element holds it between `stop` and `start`; the numbers of the images in front
of the metadata provider across a renegotiation (`Capture` and `HdrMetadata`
are not composed). Hazards of these parts are listed in `PROJECT.json` with a
note.

What the properties leave out, because the code has nothing against it:

* `OffsetAsAsked` is not claimed of an axis where two threads overlapped
  (`disturbed`). Two overlapping queries lose the offset: the second saves the
  minimum the first has set, and restores it. An offset that is set between the
  test of `IsGrabbing` and the clearing of the cache is lost, or is applied one
  start later. What the application writes to a running camera during a query
  is undone by the end of the query.
* Nor of an offset a query failed to restore: a peer's query that fails in the
  middle, and one that straddles a start on a camera that locks its offsets
  while grabbing, leave the offsets at their minimum.
* `LimitsAreTrue` and `SettingsRestored` are not claimed after a failure, or for
  an unfortunate order of addresses (`clean`, below). `LimitsAreTrue` is not claimed of the numbers whose limits the code has
  by name, and of the integers behind a selector (`FeatureCacheKey` shows why); of
  a feature that has its limits with a control in between only that they are
  limits of some settings.
* `WalkEnds` is checked on a node map without a category inside itself. On one
  with such a category the walk would not end.
* An entry of the cache that is lost because two processes replace the file is
  searched again; no property says that entries stay.
* `OnlyRunsProgrammed` claims nothing of a camera on which the mode, the set
  selector or the command to save a set is skipped, and nothing of a register that
  is; `ImplementsCycle` is claimed where `CanCycle`.
* `SdkInitialised` is not claimed after a user set or PFS file was refused, and
  `EosHasCause` accepts an interrupt of any time before.
* `OpenSizesKept` is not claimed of a Bayer width on a camera with an offset.
* `SeparateRequestSignalled` is not claimed of a request that overlaps
  `GetPendingSignal`, which resets a profile that was stored after it looked
  (`HdrProfileSwitcher.cpp:33`).

Seen while reading, and not the subject of a run:

* Image handler: as an interrupt is the same flag as an image, the loss of the
  device while an image is pending is consumed with it, and the next `create`
  waits for ever (`gstpylonimagehandler.cpp:66`).
* Lifecycle: naming a feature (`cam::X`) opens the camera with the settings of
  that moment; a `user-set` or `pfs-location` set afterwards is never applied,
  because `start` returns early for the same device (`gstpylonsrc.cpp:981`).
  After a user set or PFS file that the camera refuses, `start` terminates the
  SDK while the camera stays open; the comment at `gstpylonsrc.cpp:1056` only
  thinks of "no camera found". `finalize` does not close a camera that was
  opened for a child of an element that was never started, and nothing else
  does. `CloseOther` initialises the SDK once more without terminating it for
  the camera it closed. `gst_pylon_get_startup_geometry` reads the camera
  outside of any `try`.
* Sequencer: the single configuration writes the trigger source before it
  selects and loads the sets (`gstpylon.cpp:516`). On a camera that keeps the
  source in the sets, loading a set replaces it by that of the user set, and the
  write is lost; if that source does not come with the images, the sequencer is on
  and never leaves its first set. When no register of a set is writable the single
  configuration says so in warnings only, turns the sequencer on and returns
  success (`gstpylon.cpp:636`). If the set selector is the one that is not writable,
  all steps are written, one after the other, into the set that is selected.
* HDR sequences: when a duplicate exposure is adjusted, `set_caps` writes the
  whole sequence back as exposures only (`Rewritten`), so every gain of profile
  1 becomes 0 (`gstpylonsrc.cpp:893`).
* Capture: the limit of skipped frames is `G_MAXINT - 16`, so it is never
  reached; the grab strategy is "latest image only", yet while an image is
  pending the handler drops the newer one and keeps the older.
* Geometry: for a Bayer format `gst_pylon_src_fixate` takes the full aligned
  width although an offset is in force, and the camera refuses it; `README.md:97`
  and `README.md:788` promise an aligned width. A cached offset that is out of
  range without correction, or that can not be written, fails the whole
  negotiation, where `README.md:182` says that such a setting is ignored and
  logged. A renegotiation to an unaligned Bayer width fails before the stop, so
  the camera keeps grabbing. A caps query moves the offsets of a running stream
  for a moment. The branches of the cache for width and height
  (`gstpylonobject.cpp:390`) can not be reached: `propfilter_set` has both.
* Search for limits: the controls are driven, and written back, in the order of
  the addresses of their nodes. If a control comes before one that locks it,
  combinations are lost; it is refused at the end, too, while the other is still
  at its extreme, the refusal is ignored (`gstpylonintrospection.cpp:721`), and it
  stays at an extreme although no call failed and the comment says "Reset to old
  values"; the features that are walked later are measured like that. The
  extremes are determined once, at the settings of the beginning, though one
  control may change those of another, and a feature need not have its limits at
  the extremes of its controls at all. An exception leaves the controls at
  their extremes, in the test of the access also `TLParamsLocked` at 1, and the
  limits of every feature that is walked later are measured like that, and
  cached for good. A controlling enumeration that is locked leads to
  the dereferenced end of an empty vector (`SearchCrashes`).
* Features: a boolean, enumeration or string behind a selector is described
  without the selector being written, so its default and access are those of
  whichever entry is selected. `CanLaterBeWritable` returns with the first
  child. An enumeration that is locked during the introspection has no
  registered values and is refused. A comma is missing in the list of transport
  parameters (`gstpylonintrospection.cpp:296`), so neither of the two names is
  filtered.
