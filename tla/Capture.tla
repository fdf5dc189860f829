------------------------------- MODULE Capture -------------------------------
(***************************************************************************)
(* The capture path of pylonsrc: the pylon grab loop hands grab results to *)
(* the image handler, gst_pylon_src_create() takes them through            *)
(* gst_pylon_capture(), wraps them in GstBuffers and returns them to the   *)
(* base class, while the application unlocks, pauses or stops the element, *)
(* the caps are renegotiated, or the camera is unplugged.                  *)
(*                                                                         *)
(* The camera, the grab loop around OnImageGrabbed and GstBaseSrc are not  *)
(* in the repository; their steps are marked external.                     *)
(***************************************************************************)
EXTENDS Integers

CONSTANTS
  Buffers,          (* The memory the camera grabs into.                    *)
  NoImage,          (* The NULL pointer.                                    *)
  MaxImages,        (* Bound on the images the camera exposes.              *)
  CaptureErrors,    (* Values the application gives to capture-error.       *)
  MaxFramesToSkip   (* max_frames_to_skip of gst_pylon_capture.             *)

GrabLoop == "grab loop"
Application == "application"
Removal == "device removal"

(* A grab result is a smart pointer to the buffer the image is in.  id     *)
(* numbers the images in the order they are exposed, ok is GrabSucceeded.  *)
Image == [buf: Buffers, id: Nat, ok: BOOLEAN]

Policies == {"keep", "abort", "skip"}

ASSUME NoImageAssumption == NoImage \notin Image
ASSUME MaxImagesAssumption == MaxImages \in Nat
ASSUME CaptureErrorsAssumption ==
  CaptureErrors # {} /\ CaptureErrors \subseteq Policies
ASSUME MaxFramesToSkipAssumption == MaxFramesToSkip \in Nat

VARIABLES
  (* GstPylonImageHandler *)
  ptr_grab_result, grab_result_ready, notifier, waiter, result,
  (* The camera and its grab loop *)
  grabbing,         (* Between StartGrabbing and StopGrabbing.              *)
  connected,        (* The device has not been unplugged.                   *)
  exposed,          (* The id of the last image exposed.                    *)
  startedAt,        (* The value of exposed at the last StartGrabbing.      *)
  content,          (* The image each buffer holds.                         *)
  arriving,         (* The grab result the grab loop holds.                 *)
  refs,             (* The pointers: which buffer, and who holds it.        *)
  (* The streaming thread *)
  src,              (* Where it is.                                         *)
  policy,           (* capture_error as create() read it.                   *)
  retry_frame_counter,
  flow,             (* What create() or the push last returned.             *)
  taken,            (* The id of the last image taken from the handler.     *)
  fresh,            (* Nothing was taken since the last StartGrabbing.      *)
  downstream,       (* The GstBuffers downstream has not freed yet.         *)
  (* The application *)
  app,              (* How far it is with stopping the element.             *)
  interrupted,      (* It has called unlock.                                *)
  capture_error,
  leaked            (* Pointers nobody can free any more.                   *)

handlerVars ==
  <<ptr_grab_result, grab_result_ready, notifier, waiter, result>>
cameraVars == <<grabbing, connected, exposed, startedAt, content, arriving>>
streamVars == <<src, policy, retry_frame_counter, flow, taken, fresh>>
bufferVars == <<refs, downstream, leaked>>
appVars == <<app, interrupted, capture_error>>
vars == <<handlerVars, cameraVars, streamVars, bufferVars, appVars>>

Handler == INSTANCE ImageHandler WITH
  Results <- Image, NoResult <- NoImage,
  Interrupters <- {Application, Removal}

Holders == {"grab loop", "handler", "buffer"}

CameraTypeOK ==
  /\ grabbing \in BOOLEAN
  /\ connected \in BOOLEAN
  /\ exposed \in Nat
  /\ startedAt \in Nat
  /\ content \in [Buffers -> Image \cup {NoImage}]
  /\ arriving \in Image \cup {NoImage}

StreamTypeOK ==
  /\ src \in {"loop", "configuring", "negotiated", "waiting", "retry",
              "push", "paused"}
  /\ policy \in Policies
  /\ retry_frame_counter \in Nat
  /\ flow \in {"none", "ok", "eos", "error", "flushing"}
  /\ taken \in Nat
  /\ fresh \in BOOLEAN

BufferTypeOK ==
  /\ refs \subseteq Buffers \X Holders
  /\ downstream \subseteq Image
  /\ leaked \subseteq Image

AppTypeOK ==
  /\ app \in {"playing", "flushing", "unlocked", "joining", "stopped"}
  /\ interrupted \in BOOLEAN
  /\ capture_error \in Policies

TypeOK ==
  /\ Handler!TypeOK
  /\ CameraTypeOK
  /\ StreamTypeOK
  /\ BufferTypeOK
  /\ AppTypeOK

Init ==
  /\ Handler!Init
  /\ grabbing = FALSE
  /\ connected = TRUE
  /\ exposed = 0
  /\ startedAt = 0
  /\ content = [b \in Buffers |-> NoImage]
  /\ arriving = NoImage
  /\ refs = {}
  /\ src = "loop"
  /\ policy = "abort"
  /\ retry_frame_counter = 0
  /\ flow = "none"
  /\ taken = 0
  /\ fresh = TRUE
  /\ downstream = {}
  /\ app = "playing"
  /\ interrupted = FALSE
  /\ capture_error \in CaptureErrors
  /\ leaked = {}

Hold(b, holder) == refs \cup {<<b, holder>>}
Release(b, holder) == refs \ {<<b, holder>>}
PassOn(b, from, to) == Release(b, from) \cup {<<b, to>>}

-----------------------------------------------------------------------------
(* The camera and the grab loop thread. *)

(* External.  The camera exposes into a buffer nobody holds a pointer to.  *)
(* With GrabStrategy_LatestImageOnly images the grab loop was too late for *)
(* are lost: the ids that arrive may have gaps.                            *)
Expose(b, id, ok) ==
  /\ grabbing /\ connected
  /\ arriving = NoImage
  /\ \A holder \in Holders : <<b, holder>> \notin refs
  /\ id > exposed
  /\ arriving' = [buf |-> b, id |-> id, ok |-> ok]
  /\ exposed' = id
  /\ content' = [content EXCEPT ![b] = arriving']
  /\ refs' = Hold(b, "grab loop")
  /\ UNCHANGED <<handlerVars, grabbing, connected, startedAt, streamVars,
                 downstream, leaked, appVars>>

(* The handler copies the smart pointer, or drops the image: then the grab *)
(* loop's own pointer goes away when the callback returns.                 *)
OnImageGrabbed ==
  /\ arriving # NoImage
  /\ Handler!OnImageGrabbed(arriving)
  /\ IF Handler!DropsImage
     THEN /\ refs' = Release(arriving.buf, "grab loop")
          /\ arriving' = NoImage
     ELSE /\ refs' = Hold(arriving.buf, "handler")
          /\ UNCHANGED arriving
  /\ UNCHANGED <<grabbing, connected, exposed, startedAt, content,
                 streamVars, downstream, leaked, appVars>>

OnImageGrabbedReturns ==
  /\ Handler!NotifyOne(GrabLoop)
  /\ refs' = Release(arriving.buf, "grab loop")
  /\ arriving' = NoImage
  /\ UNCHANGED <<grabbing, connected, exposed, startedAt, content,
                 streamVars, downstream, leaked, appVars>>

(* StopGrabbing() returns when the grab loop has left the callback. *)
GrabLoopJoined == ~grabbing /\ arriving = NoImage

-----------------------------------------------------------------------------
(* The thread that reports a device removal. *)

OnCameraDeviceRemoved ==
  /\ connected
  /\ app # "stopped"
  /\ Handler!InterruptWaitForImage(Removal)
  /\ connected' = FALSE
  /\ UNCHANGED <<grabbing, exposed, startedAt, content, arriving,
                 streamVars, bufferVars, appVars>>

InterrupterNotifies(thread) ==
  /\ Handler!NotifyOne(thread)
  /\ UNCHANGED <<cameraVars, streamVars, bufferVars, appVars>>

-----------------------------------------------------------------------------
(* The streaming thread. *)

(* gst_pylon_src_set_caps, when the base class renegotiates: the camera is *)
(* stopped, configured and started again.  Nothing empties the handler.    *)
SetCapsStops ==
  /\ src = "loop"
  /\ src' = "configuring"
  /\ grabbing' = FALSE
  /\ UNCHANGED <<handlerVars, connected, exposed, startedAt, content,
                 arriving, policy, retry_frame_counter, flow, taken, fresh,
                 bufferVars, appVars>>

SetCapsStarts ==
  /\ src = "configuring"
  /\ GrabLoopJoined
  /\ connected
  /\ src' = "negotiated"
  /\ grabbing' = TRUE
  /\ startedAt' = exposed
  /\ fresh' = TRUE
  /\ UNCHANGED <<handlerVars, connected, exposed, content, arriving, policy,
                 retry_frame_counter, flow, taken, bufferVars, appVars>>

(* Caps it does not take, or a camera that can not be stopped: it may go   *)
(* on grabbing.                                                            *)
SetCapsRefused ==
  /\ src = "loop"
  /\ src' = "paused"
  /\ flow' = "error"
  /\ grabbing' \in {grabbing, FALSE}
  /\ UNCHANGED <<handlerVars, connected, exposed, startedAt, content,
                 arriving, policy, retry_frame_counter, taken, fresh,
                 bufferVars, appVars>>

(* The camera rejects the configuration, or it is gone. *)
SetCapsFails ==
  /\ src = "configuring"
  /\ GrabLoopJoined
  /\ src' = "paused"
  /\ flow' = "error"
  /\ UNCHANGED <<handlerVars, cameraVars, policy, retry_frame_counter, taken,
                 fresh, bufferVars, appVars>>

(* gst_pylon_src_create up to the first WaitForImage of gst_pylon_capture. *)
Create ==
  /\ src \in {"loop", "negotiated"}
  /\ grabbing
  /\ Handler!WaitForImage
  /\ src' = "waiting"
  /\ policy' = capture_error
  /\ retry_frame_counter' = 0
  /\ UNCHANGED <<cameraVars, flow, taken, fresh, bufferVars, appVars>>

CaptureSleeps ==
  /\ Handler!Sleep
  /\ UNCHANGED <<cameraVars, streamVars, bufferVars, appVars>>

CaptureWakesSpuriously ==
  /\ Handler!SpuriousWakeup
  /\ UNCHANGED <<cameraVars, streamVars, bufferVars, appVars>>

(* WaitForImage returned NULL: the base class ends the stream. *)
CaptureInterrupted ==
  /\ ptr_grab_result = NoImage
  /\ Handler!ReturnResult
  /\ src' = "paused"
  /\ flow' = "eos"
  /\ UNCHANGED <<cameraVars, policy, retry_frame_counter, taken, fresh,
                 bufferVars, appVars>>

Deliverable(image) == image.ok \/ policy = "keep"
Skippable ==
  policy = "skip" /\ retry_frame_counter # MaxFramesToSkip

(* What the capture loop does with the image it took, in every case.       *)
TakesImage ==
  /\ ptr_grab_result # NoImage
  /\ Handler!ReturnResult
  /\ taken' = ptr_grab_result.id
  /\ fresh' = FALSE
  /\ UNCHANGED <<cameraVars, policy, downstream, leaked, appVars>>

(* The grab result is wrapped: the GstBuffer owns the pointer now. *)
(* Seeded bug: the result is deleted once it is wrapped.                   *)
CaptureSucceeds_DeletesResult ==
  /\ TakesImage
  /\ Deliverable(ptr_grab_result)
  /\ src' = "push"
  /\ flow' = "ok"
  /\ refs' = Release(ptr_grab_result.buf, "handler")
  /\ UNCHANGED retry_frame_counter

CaptureSucceeds ==
  /\ TakesImage
  /\ Deliverable(ptr_grab_result)
  /\ src' = "push"
  /\ flow' = "ok"
  /\ refs' = PassOn(ptr_grab_result.buf, "handler", "buffer")
  /\ UNCHANGED retry_frame_counter

(* Seeded bug: the retries left are counted down, from zero.               *)
CaptureSkips_CountsDown ==
  /\ TakesImage
  /\ ~Deliverable(ptr_grab_result)
  /\ Skippable
  /\ src' = "retry"
  /\ retry_frame_counter' = retry_frame_counter - 1
  /\ refs' = Release(ptr_grab_result.buf, "handler")
  /\ UNCHANGED flow

CaptureSkips ==
  /\ TakesImage
  /\ ~Deliverable(ptr_grab_result)
  /\ Skippable
  /\ src' = "retry"
  /\ retry_frame_counter' = retry_frame_counter + 1
  /\ refs' = Release(ptr_grab_result.buf, "handler")
  /\ UNCHANGED flow

CaptureAborts ==
  /\ TakesImage
  /\ ~Deliverable(ptr_grab_result)
  /\ ~Skippable
  /\ src' = "paused"
  /\ flow' = "error"
  /\ refs' = Release(ptr_grab_result.buf, "handler")
  /\ UNCHANGED retry_frame_counter

(* The next turn of the capture loop. *)
CaptureRetries ==
  /\ src = "retry"
  /\ Handler!WaitForImage
  /\ src' = "waiting"
  /\ UNCHANGED <<cameraVars, policy, retry_frame_counter, flow, taken, fresh,
                 bufferVars, appVars>>

(* External.  The base class pushes the buffer; a pad that is being        *)
(* deactivated refuses it, which frees it and ends the task.               *)
Push ==
  /\ src = "push"
  /\ \/ /\ app = "playing"
        /\ downstream' = downstream \cup {result}
        /\ src' = "loop"
        /\ UNCHANGED <<flow, refs>>
     \/ /\ app # "playing"
        /\ refs' = Release(result.buf, "buffer")
        /\ src' = "paused"
        /\ flow' = "flushing"
        /\ UNCHANGED downstream
  /\ UNCHANGED <<handlerVars, cameraVars, policy, retry_frame_counter, taken,
                 fresh, leaked, appVars>>

-----------------------------------------------------------------------------
(* Downstream elements and the application. *)

(* free_ptr_grab_result, when the last reference to a GstBuffer is gone. *)
FreeBuffer(image) ==
  /\ image \in downstream
  /\ downstream' = downstream \ {image}
  /\ refs' = Release(image.buf, "buffer")
  /\ UNCHANGED <<handlerVars, cameraVars, streamVars, leaked, appVars>>

SetCaptureError(value) ==
  /\ app = "playing"
  /\ capture_error' = value
  /\ UNCHANGED <<handlerVars, cameraVars, streamVars, bufferVars, app,
                 interrupted>>

(* gst_pylon_src_unlock. *)
Unlock ==
  /\ Handler!InterruptWaitForImage(Application)
  /\ interrupted' = TRUE

(* External.  The base class also unlocks when a live source is paused. *)
Pause ==
  /\ app = "playing"
  /\ ~interrupted
  /\ Unlock
  /\ UNCHANGED <<cameraVars, streamVars, bufferVars, app, capture_error>>

(* External.  A state change to READY marks the pad as flushing, ...       *)
Flush ==
  /\ app = "playing"
  /\ app' = "flushing"
  /\ UNCHANGED <<handlerVars, cameraVars, streamVars, bufferVars,
                 interrupted, capture_error>>

(* ... unlocks the element ... *)
FlushUnlocks ==
  /\ app = "flushing"
  /\ Unlock
  /\ app' = "unlocked"
  /\ UNCHANGED <<cameraVars, streamVars, bufferVars, capture_error>>

(* ... and, when the streaming task has ended, calls gst_pylon_src_stop,   *)
(* which calls gst_pylon_stop ...                                          *)
Stop ==
  /\ app = "unlocked"
  /\ notifier[Application] = "outside"
  /\ src = "paused"
  /\ app' = "joining"
  /\ grabbing' = FALSE
  /\ UNCHANGED <<handlerVars, connected, exposed, startedAt, content,
                 arriving, streamVars, bufferVars, interrupted,
                 capture_error>>

(* ... and gst_pylon_free: the handler has no destructor, so the result    *)
(* that is pending in it is never deleted.                                 *)
Free ==
  /\ app = "joining"
  /\ GrabLoopJoined
  /\ notifier[Removal] = "outside"
  /\ app' = "stopped"
  /\ leaked' = leaked \cup ({ptr_grab_result} \ {NoImage})
  /\ UNCHANGED <<handlerVars, cameraVars, streamVars, refs, downstream,
                 interrupted, capture_error>>

-----------------------------------------------------------------------------
Streaming ==
  \/ SetCapsStops \/ SetCapsRefused \/ SetCapsStarts \/ SetCapsFails
  \/ Create \/ CaptureSleeps
  \/ CaptureInterrupted \/ CaptureSucceeds \/ CaptureSkips \/ CaptureAborts
  \/ CaptureRetries \/ Push

Next ==
  \/ \E b \in Buffers, id \in 1 .. MaxImages, ok \in BOOLEAN :
       Expose(b, id, ok)
  \/ OnImageGrabbed
  \/ OnImageGrabbedReturns
  \/ OnCameraDeviceRemoved
  \/ \E thread \in {Application, Removal} : InterrupterNotifies(thread)
  \/ Streaming
  \/ CaptureWakesSpuriously
  \/ \E image \in downstream : FreeBuffer(image)
  \/ \E value \in CaptureErrors : SetCaptureError(value)
  \/ Pause \/ Flush \/ FlushUnlocks \/ Stop \/ Free

(***************************************************************************)
(* Threads that can run do run.  Nothing makes the camera expose an image, *)
(* the application change its mind or downstream free a buffer.            *)
(***************************************************************************)
Fairness ==
  /\ WF_vars(Streaming)
  /\ WF_vars(OnImageGrabbed)
  /\ WF_vars(OnImageGrabbedReturns)
  /\ \A thread \in {Application, Removal} :
       WF_vars(InterrupterNotifies(thread))
  /\ WF_vars(FlushUnlocks)
  /\ WF_vars(Stop)
  /\ WF_vars(Free)

Spec == Init /\ [][Next]_vars /\ Fairness

-----------------------------------------------------------------------------
(* The images GstBuffers wrap: downstream's, and the one being pushed.     *)
InBuffers == IF src = "push" THEN downstream \cup {result} ELSE downstream

(* Every image somebody still holds a pointer to.                          *)
Held == ({arriving, ptr_grab_result} \ {NoImage}) \cup InBuffers \cup leaked

(* The hazard of smart pointers passed between three threads as raw        *)
(* pointers: the camera must never write into a buffer somebody still      *)
(* reads.  Whatever is pending, being wrapped, downstream or leaked still  *)
(* has in its buffer the image it was grabbed for.                         *)
HeldImagesIntact == \A image \in Held : content[image.buf] = image

(* Images leave the handler in the order they were exposed and none leaves *)
(* twice, across renegotiations, skipped images and dropped ones.          *)
TakenInOrder == [][TakesImage => taken' > taken]_vars

(* set_caps does not empty the handler, so an image of the previous        *)
(* configuration can be delivered under the new caps; but only one, and    *)
(* only as the first image after the restart.                              *)
StaleOnlyFirst ==
  [][TakesImage /\ taken' <= startedAt => fresh]_vars

(* create() ends the stream only for a reason: the flag that an interrupt  *)
(* set is never left set once its image or its NULL was consumed.          *)
EosHasCause == flow = "eos" => interrupted \/ ~connected

(* A stop request is honoured even if the camera never delivers again:     *)
(* unlock gets the streaming thread out of the capture it is in or about   *)
(* to enter, and gst_pylon_src_stop is reached.                            *)
StopCompletes == app = "flushing" ~> app = "stopped"
=============================================================================
