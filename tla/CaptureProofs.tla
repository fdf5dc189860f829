---------------------------- MODULE CaptureProofs ----------------------------
(***************************************************************************)
(* Proofs about Capture, for any set of buffers, any bound on the images   *)
(* and any limit on the skipped ones.                                      *)
(*                                                                         *)
(* A step of Capture changes few of its variables: the frame lemmas say    *)
(* which actions can change a group of variables, so that the proof about  *)
(* each part of the invariant looks at those actions only.                 *)
(***************************************************************************)
EXTENDS Capture, TLAPS

HandlerProofs == INSTANCE ImageHandlerProofs WITH
  Results <- Image, NoResult <- NoImage,
  Interrupters <- {Application, Removal}

Exposes ==
  \E b \in Buffers, id \in 1 .. MaxImages, ok \in BOOLEAN : Expose(b, id, ok)
Frees == \E image \in downstream : FreeBuffer(image)

-----------------------------------------------------------------------------
(* Frame lemmas. *)

LEMMA CameraFrame ==
  [Next]_vars => \/ Exposes \/ OnImageGrabbed \/ OnImageGrabbedReturns
                 \/ OnCameraDeviceRemoved
                 \/ SetCapsStops \/ SetCapsRefused \/ SetCapsStarts \/ Stop
                 \/ UNCHANGED cameraVars
BY DEF Next, vars, Streaming, Exposes, InterrupterNotifies, SetCapsFails,
       Create, CaptureSleeps, CaptureWakesSpuriously, CaptureInterrupted,
       CaptureSucceeds, CaptureSkips, CaptureAborts, TakesImage,
       CaptureRetries, Push, FreeBuffer, SetCaptureError, Pause, Flush,
       FlushUnlocks, Free

LEMMA StreamFrame ==
  [Next]_vars => Streaming \/ UNCHANGED streamVars
BY DEF Next, vars, Expose, OnImageGrabbed, OnImageGrabbedReturns,
       OnCameraDeviceRemoved, InterrupterNotifies, CaptureWakesSpuriously,
       FreeBuffer, SetCaptureError, Pause, Flush, FlushUnlocks, Stop, Free

LEMMA BufferFrame ==
  [Next]_vars => \/ Exposes \/ OnImageGrabbed \/ OnImageGrabbedReturns
                 \/ CaptureSucceeds \/ CaptureSkips \/ CaptureAborts
                 \/ Push \/ Frees \/ Free
                 \/ UNCHANGED bufferVars
BY DEF Next, vars, bufferVars, Streaming, Exposes, Frees,
       OnCameraDeviceRemoved, InterrupterNotifies, SetCapsStops, SetCapsRefused,
       SetCapsStarts, SetCapsFails, Create, CaptureSleeps, CaptureWakesSpuriously,
       CaptureInterrupted, CaptureRetries, SetCaptureError, Pause, Flush,
       FlushUnlocks, Stop

LEMMA AppFrame ==
  [Next]_vars => \/ \E value \in CaptureErrors : SetCaptureError(value)
                 \/ Pause \/ Flush \/ FlushUnlocks \/ Stop \/ Free
                 \/ UNCHANGED appVars
BY DEF Next, vars, Streaming, Expose, OnImageGrabbed, OnImageGrabbedReturns,
       OnCameraDeviceRemoved, InterrupterNotifies, SetCapsStops, SetCapsRefused,
       SetCapsStarts, SetCapsFails, Create, CaptureSleeps, CaptureWakesSpuriously,
       CaptureInterrupted, CaptureSucceeds, CaptureSkips, CaptureAborts,
       TakesImage, CaptureRetries, Push, FreeBuffer

-----------------------------------------------------------------------------
(* The handler inside Capture is the handler of ImageHandlerProofs.        *)

LEMMA HandlerAssumptions ==
  HandlerProofs!NoResultAssumption /\ HandlerProofs!GrabLoopAssumption
<1>1. GrabLoop \notin {Application, Removal}
  BY DEF GrabLoop, Application, Removal
<1>2. QED
  BY <1>1, NoImageAssumption DEF HandlerProofs!NoResultAssumption,
                                 HandlerProofs!GrabLoopAssumption

LEMMA SameHandler ==
  /\ Handler!Init <=> HandlerProofs!Init
  /\ Handler!Next <=> HandlerProofs!Next
  /\ Handler!TypeOK <=> HandlerProofs!TypeOK
  /\ Handler!TypeOK' <=> HandlerProofs!TypeOK'
  /\ Handler!NoLostWakeup <=> HandlerProofs!NoLostWakeup
  /\ Handler!NoLostWakeup' <=> HandlerProofs!NoLostWakeup'
  /\ Handler!PendingIsReady <=> HandlerProofs!PendingIsReady
  /\ Handler!PendingIsReady' <=> HandlerProofs!PendingIsReady'
BY DEF Handler!Init, HandlerProofs!Init,
       Handler!Next, HandlerProofs!Next,
       Handler!Notifiers, HandlerProofs!Notifiers,
       Handler!OnImageGrabbed, HandlerProofs!OnImageGrabbed,
       Handler!DropsImage, HandlerProofs!DropsImage,
       Handler!InterruptWaitForImage, HandlerProofs!InterruptWaitForImage,
       Handler!NotifyOne, HandlerProofs!NotifyOne,
       Handler!WaitForImage, HandlerProofs!WaitForImage,
       Handler!Sleep, HandlerProofs!Sleep,
       Handler!SpuriousWakeup, HandlerProofs!SpuriousWakeup,
       Handler!ReturnResult, HandlerProofs!ReturnResult,
       Handler!TypeOK, HandlerProofs!TypeOK,
       Handler!NoLostWakeup, HandlerProofs!NoLostWakeup,
       Handler!PendingIsReady, HandlerProofs!PendingIsReady

(* Every step of Capture is a step of the handler or leaves it alone.      *)
LEMMA HandlerSteps ==
  CameraTypeOK /\ [Next]_vars => [Handler!Next]_handlerVars
<1> SUFFICES ASSUME CameraTypeOK, Next
             PROVE  Handler!Next \/ UNCHANGED handlerVars
  BY DEF vars
<1>1. CASE OnImageGrabbed
  BY <1>1 DEF OnImageGrabbed, CameraTypeOK, Handler!Next
<1>2. CASE \/ OnImageGrabbedReturns
           \/ \E thread \in {Application, Removal} :
                InterrupterNotifies(thread)
  BY <1>2 DEF OnImageGrabbedReturns, InterrupterNotifies, Handler!Next,
              Handler!Notifiers
<1>3. CASE OnCameraDeviceRemoved \/ Pause \/ FlushUnlocks
  BY <1>3 DEF OnCameraDeviceRemoved, Pause, FlushUnlocks, Unlock, Handler!Next
<1>4. CASE Create \/ CaptureRetries
  BY <1>4 DEF Create, CaptureRetries, Handler!Next
<1>5. CASE CaptureSleeps \/ CaptureWakesSpuriously
  BY <1>5 DEF CaptureSleeps, CaptureWakesSpuriously, Handler!Next
<1>6. CASE CaptureInterrupted \/ TakesImage
  BY <1>6 DEF CaptureInterrupted, TakesImage, Handler!Next
<1>7. QED
  BY <1>1, <1>2, <1>3, <1>4, <1>5, <1>6
     DEF Next, Streaming, CaptureSucceeds, CaptureSkips, CaptureAborts, Expose,
         SetCapsStops, SetCapsRefused, SetCapsStarts, SetCapsFails, Push, FreeBuffer,
         SetCaptureError, Flush, Stop, Free

HandlerOK == Handler!TypeOK /\ Handler!NoLostWakeup /\ Handler!PendingIsReady

LEMMA HandlerOKInitially == Init => HandlerOK
BY SameHandler, HandlerAssumptions, HandlerProofs!TypeInitially,
   HandlerProofs!HandlerInvInitially
   DEF Init, HandlerOK, HandlerProofs!HandlerInv

LEMMA HandlerOKPreserved ==
  HandlerOK /\ CameraTypeOK /\ [Next]_vars => HandlerOK'
BY HandlerSteps, SameHandler, HandlerAssumptions, HandlerProofs!TypePreserved,
   HandlerProofs!HandlerInvPreserved
   DEF HandlerOK, handlerVars, HandlerProofs!vars, HandlerProofs!HandlerInv

-----------------------------------------------------------------------------
(* Type correctness. *)

LEMMA ExposedImageTyped ==
  ASSUME NEW b \in Buffers, NEW id \in 1 .. MaxImages, NEW ok \in BOOLEAN
  PROVE  [buf |-> b, id |-> id, ok |-> ok] \in Image
BY MaxImagesAssumption DEF Image

LEMMA CameraTypePreserved ==
  CameraTypeOK /\ [Next]_vars => CameraTypeOK'
<1> SUFFICES ASSUME CameraTypeOK, [Next]_vars
             PROVE  CameraTypeOK'
  OBVIOUS
<1> USE DEF CameraTypeOK
<1>1. ASSUME NEW b \in Buffers, NEW id \in 1 .. MaxImages,
             NEW ok \in BOOLEAN, Expose(b, id, ok)
      PROVE  CameraTypeOK'
  <2>1. arriving' \in Image
    BY <1>1, ExposedImageTyped DEF Expose
  <2>2. id \in Nat
    BY MaxImagesAssumption
  <2>3. QED
    BY <1>1, <2>1, <2>2 DEF Expose
<1>2. CASE OnImageGrabbed
  BY <1>2 DEF OnImageGrabbed
<1>3. CASE OnImageGrabbedReturns
  BY <1>3 DEF OnImageGrabbedReturns
<1>4. CASE OnCameraDeviceRemoved
  BY <1>4 DEF OnCameraDeviceRemoved
<1>5. CASE SetCapsStops \/ SetCapsRefused \/ SetCapsStarts
  BY <1>5 DEF SetCapsStops, SetCapsRefused, SetCapsStarts
<1>6. CASE Stop
  BY <1>6 DEF Stop
<1>7. CASE UNCHANGED cameraVars
  BY <1>7 DEF cameraVars
<1>8. QED
  BY <1>1, <1>2, <1>3, <1>4, <1>5, <1>6, <1>7, CameraFrame DEF Exposes

LEMMA AppTypePreserved ==
  AppTypeOK /\ [Next]_vars => AppTypeOK'
<1> SUFFICES ASSUME AppTypeOK, [Next]_vars
             PROVE  AppTypeOK'
  OBVIOUS
<1> USE DEF AppTypeOK
<1>1. ASSUME NEW value \in CaptureErrors, SetCaptureError(value)
      PROVE  AppTypeOK'
  BY <1>1, CaptureErrorsAssumption DEF SetCaptureError
<1>2. CASE Pause \/ Flush \/ FlushUnlocks
  BY <1>2 DEF Pause, Flush, FlushUnlocks, Unlock
<1>3. CASE Stop \/ Free
  BY <1>3 DEF Stop, Free
<1>4. CASE UNCHANGED appVars
  BY <1>4 DEF appVars
<1>5. QED
  BY <1>1, <1>2, <1>3, <1>4, AppFrame

LEMMA StreamTypePreserved ==
  /\ StreamTypeOK /\ AppTypeOK /\ CameraTypeOK /\ Handler!TypeOK
  /\ [Next]_vars
  => StreamTypeOK'
<1> SUFFICES ASSUME StreamTypeOK, AppTypeOK, CameraTypeOK, Handler!TypeOK,
                    [Next]_vars
             PROVE  StreamTypeOK'
  OBVIOUS
<1> USE DEF StreamTypeOK
<1>1. CASE SetCapsStops \/ SetCapsRefused \/ SetCapsFails
  BY <1>1 DEF SetCapsStops, SetCapsRefused, SetCapsFails
<1>2. CASE SetCapsStarts
  BY <1>2 DEF SetCapsStarts
<1>3. CASE Create
  BY <1>3 DEF Create, AppTypeOK
<1>4. CASE CaptureSleeps
  BY <1>4 DEF CaptureSleeps, streamVars
<1>5. CASE CaptureInterrupted \/ CaptureRetries
  BY <1>5 DEF CaptureInterrupted, CaptureRetries
<1>6. CASE CaptureSucceeds \/ CaptureSkips \/ CaptureAborts
  <2>1. TakesImage
    BY <1>6 DEF CaptureSucceeds, CaptureSkips, CaptureAborts
  <2>2. ptr_grab_result.id \in Nat
    BY <2>1 DEF TakesImage, Handler!TypeOK, Image
  <2>3. taken' \in Nat /\ fresh' \in BOOLEAN /\ policy' \in Policies
    BY <2>1, <2>2 DEF TakesImage
  <2>4. retry_frame_counter' \in Nat
    BY <1>6 DEF CaptureSucceeds, CaptureSkips, CaptureAborts
  <2>5. QED
    BY <1>6, <2>3, <2>4 DEF CaptureSucceeds, CaptureSkips, CaptureAborts
<1>7. CASE Push
  BY <1>7 DEF Push
<1>8. CASE UNCHANGED streamVars
  BY <1>8 DEF streamVars
<1>9. QED
  BY <1>1, <1>2, <1>3, <1>4, <1>5, <1>6, <1>7, <1>8, StreamFrame DEF Streaming

-----------------------------------------------------------------------------
(* The inductive invariant.                                                *)

(* Where the threads are, and what follows for the pointers they hold.     *)
ControlInv ==
  /\ src = "waiting" <=> waiter # "outside"
  /\ src = "push" => result \in Image
  /\ notifier[GrabLoop] = "unlocked" => arriving # NoImage
  /\ app \in {"joining", "stopped"} => src = "paused" /\ ~grabbing
  /\ app = "stopped" => arriving = NoImage
  /\ leaked = IF app = "stopped" THEN {ptr_grab_result} \ {NoImage} ELSE {}

LEMMA ControlPreserved ==
  HandlerOK /\ ControlInv /\ [Next]_vars => ControlInv'
<1> SUFFICES ASSUME Handler!TypeOK, ControlInv, [Next]_vars
             PROVE  ControlInv'
  BY DEF HandlerOK
<1> USE DEF ControlInv, handlerVars, cameraVars, streamVars, bufferVars,
            appVars
<1>1. CASE Exposes
  BY <1>1, NoImageAssumption, ExposedImageTyped
     DEF Exposes, Expose
<1>2. CASE OnImageGrabbed
  BY <1>2 DEF OnImageGrabbed, Handler!OnImageGrabbed, Handler!TypeOK
<1>3. CASE OnImageGrabbedReturns
  BY <1>3 DEF OnImageGrabbedReturns, Handler!NotifyOne, Handler!TypeOK,
              Handler!Notifiers
<1>4. CASE OnCameraDeviceRemoved
  BY <1>4 DEF OnCameraDeviceRemoved, Handler!InterruptWaitForImage,
              Handler!TypeOK, Handler!Notifiers, GrabLoop, Removal
<1>5. ASSUME NEW thread \in {Application, Removal}, InterrupterNotifies(thread)
      PROVE  ControlInv'
  BY <1>5 DEF InterrupterNotifies, Handler!NotifyOne, Handler!TypeOK,
              Handler!Notifiers, GrabLoop, Application, Removal
<1>6. CASE SetCapsStops \/ SetCapsRefused \/ SetCapsStarts \/ SetCapsFails
  BY <1>6 DEF SetCapsStops, SetCapsRefused, SetCapsStarts, SetCapsFails
<1>7. CASE Create \/ CaptureRetries
  BY <1>7 DEF Create, CaptureRetries, Handler!WaitForImage
<1>8. CASE CaptureSleeps \/ CaptureWakesSpuriously
  BY <1>8 DEF CaptureSleeps, CaptureWakesSpuriously, Handler!Sleep,
              Handler!SpuriousWakeup
<1>9. CASE CaptureInterrupted
  BY <1>9 DEF CaptureInterrupted, Handler!ReturnResult
<1>10. CASE CaptureSucceeds
  BY <1>10 DEF CaptureSucceeds, TakesImage, Handler!ReturnResult,
               Handler!TypeOK
<1>11. CASE CaptureSkips \/ CaptureAborts
  BY <1>11 DEF CaptureSkips, CaptureAborts, TakesImage, Handler!ReturnResult
<1>12. CASE Push
  BY <1>12 DEF Push
<1>13. CASE \/ Frees
            \/ \E value \in CaptureErrors : SetCaptureError(value)
  BY <1>13 DEF Frees, FreeBuffer, SetCaptureError
<1>14. CASE Pause \/ FlushUnlocks
  BY <1>14 DEF Pause, FlushUnlocks, Unlock, Handler!InterruptWaitForImage,
               Handler!TypeOK, Handler!Notifiers, GrabLoop, Application
<1>15. CASE Flush \/ Stop
  BY <1>15 DEF Flush, Stop
<1>16. CASE Free
  BY <1>16 DEF Free, GrabLoopJoined
<1>17. CASE UNCHANGED vars
  BY <1>17 DEF vars
<1>18. QED
  BY <1>1, <1>2, <1>3, <1>4, <1>5, <1>6, <1>7, <1>8, <1>9, <1>10, <1>11,
     <1>12, <1>13, <1>14, <1>15, <1>16, <1>17
     DEF Next, Streaming, Exposes, Frees

(* An interrupt without an image has a cause, and so has the end of the    *)
(* stream it leads to.                                                     *)
CauseInv ==
  /\ grab_result_ready /\ ptr_grab_result = NoImage =>
       interrupted \/ ~connected
  /\ EosHasCause

LEMMA CausePreserved ==
  CauseInv /\ [Next]_vars => CauseInv'
<1> SUFFICES ASSUME CauseInv, [Next]_vars
             PROVE  CauseInv'
  OBVIOUS
<1> USE DEF CauseInv, EosHasCause, handlerVars, cameraVars, streamVars,
            bufferVars, appVars
<1>1. CASE Exposes
  <2>1. UNCHANGED <<handlerVars, connected, flow, interrupted>>
    BY <1>1 DEF Exposes, Expose
  <2>2. QED
    BY <2>1
<1>2. CASE OnImageGrabbed
  BY <1>2 DEF OnImageGrabbed, Handler!OnImageGrabbed
<1>3. CASE \/ OnImageGrabbedReturns
           \/ \E thread \in {Application, Removal} :
                InterrupterNotifies(thread)
  <2>1. UNCHANGED <<ptr_grab_result, grab_result_ready, connected, flow,
                    interrupted>>
    BY <1>3 DEF OnImageGrabbedReturns, InterrupterNotifies, Handler!NotifyOne
  <2>2. QED
    BY <2>1
<1>4. CASE OnCameraDeviceRemoved
  BY <1>4 DEF OnCameraDeviceRemoved, Handler!InterruptWaitForImage
<1>5. CASE SetCapsStops \/ SetCapsRefused \/ SetCapsStarts \/ SetCapsFails
  <2>1. /\ UNCHANGED <<ptr_grab_result, grab_result_ready, waiter, connected,
                       interrupted>>
        /\ flow' = flow \/ flow' = "error"
    BY <1>5 DEF SetCapsStops, SetCapsRefused, SetCapsStarts, SetCapsFails
  <2>2. QED
    BY <2>1
<1>6. CASE Create \/ CaptureRetries
  BY <1>6 DEF Create, CaptureRetries, Handler!WaitForImage
<1>7. CASE CaptureSleeps \/ CaptureWakesSpuriously
  BY <1>7 DEF CaptureSleeps, CaptureWakesSpuriously, Handler!Sleep,
              Handler!SpuriousWakeup
<1>8. CASE CaptureInterrupted
  BY <1>8 DEF CaptureInterrupted, Handler!ReturnResult
<1>9. CASE CaptureSucceeds \/ CaptureSkips \/ CaptureAborts
  BY <1>9 DEF CaptureSucceeds, CaptureSkips, CaptureAborts, TakesImage,
              Handler!ReturnResult
<1>10. CASE Push \/ Frees
  BY <1>10 DEF Push, Frees, FreeBuffer
<1>11. CASE \E value \in CaptureErrors : SetCaptureError(value)
  BY <1>11 DEF SetCaptureError
<1>12. CASE Pause \/ FlushUnlocks
  BY <1>12 DEF Pause, FlushUnlocks, Unlock, Handler!InterruptWaitForImage
<1>13. CASE Flush \/ Stop \/ Free
  BY <1>13 DEF Flush, Stop, Free
<1>14. CASE UNCHANGED vars
  BY <1>14 DEF vars
<1>15. QED
  BY <1>1, <1>2, <1>3, <1>4, <1>5, <1>6, <1>7, <1>8, <1>9, <1>10, <1>11,
     <1>12, <1>13, <1>14
     DEF Next, Streaming, Exposes, Frees

(* An image moves from the camera to the grab loop, the handler and the    *)
(* streaming thread: each holds one that is older than the one before.     *)
OrderInv ==
  /\ taken <= exposed
  /\ startedAt <= exposed
  /\ arriving # NoImage => arriving.id = exposed /\ startedAt < exposed
  /\ arriving # NoImage /\ notifier[GrabLoop] = "outside" =>
       /\ taken < exposed
       /\ ptr_grab_result # NoImage => ptr_grab_result.id < exposed
  /\ ptr_grab_result # NoImage =>
       /\ taken < ptr_grab_result.id
       /\ ptr_grab_result.id <= exposed
       /\ ptr_grab_result.id <= startedAt => fresh
  /\ src = "push" => result.id = taken

(* What has been pushed was taken before what is being pushed.             *)
PushedInv ==
  \A image \in downstream :
    image.id <= taken /\ (src = "push" => image.id < taken)

LEMMA OrderPreserved ==
  /\ HandlerOK /\ CameraTypeOK /\ StreamTypeOK /\ ControlInv /\ OrderInv
  /\ [Next]_vars
  => OrderInv'
<1> SUFFICES ASSUME HandlerOK, CameraTypeOK, StreamTypeOK, ControlInv,
                    OrderInv, [Next]_vars
             PROVE  OrderInv'
  OBVIOUS
<1> USE DEF OrderInv, handlerVars, cameraVars, streamVars, bufferVars, appVars
<1> DEFINE ImageIds == /\ exposed \in Nat /\ taken \in Nat /\ startedAt \in Nat
                       /\ arriving # NoImage => arriving.id \in Nat
                       /\ ptr_grab_result # NoImage =>
                            ptr_grab_result.id \in Nat
<1>0. ImageIds
  BY DEF HandlerOK, Handler!TypeOK, CameraTypeOK, StreamTypeOK, Image
<1>1. ASSUME NEW b \in Buffers, NEW id \in 1 .. MaxImages,
             NEW ok \in BOOLEAN, Expose(b, id, ok)
      PROVE  OrderInv'
  <2>0. id \in Nat
    BY MaxImagesAssumption
  <2>1. id > exposed /\ exposed' = id /\ arriving'.id = id
    BY <1>1 DEF Expose
  <2>2. UNCHANGED <<ptr_grab_result, notifier, result, startedAt, src, taken,
                    fresh>>
    BY <1>1 DEF Expose
  <2>3. taken < id /\ startedAt < id
    BY <2>0, <2>1, <1>0
  <2>4. ptr_grab_result # NoImage => ptr_grab_result.id < id
    BY <2>0, <2>1, <1>0
  <2>5. QED
    BY <2>0, <2>1, <2>2, <2>3, <2>4, <1>0
<1>2. CASE OnImageGrabbed
  <2>1. UNCHANGED <<exposed, startedAt, src, taken, fresh, result>>
    BY <1>2 DEF OnImageGrabbed, Handler!OnImageGrabbed
  <2>2. CASE Handler!DropsImage
    <3>1. arriving' = NoImage /\ ptr_grab_result' = ptr_grab_result
      BY <1>2, <2>2 DEF OnImageGrabbed, Handler!OnImageGrabbed
    <3>2. QED
      BY <2>1, <3>1
  <2>3. CASE ~Handler!DropsImage
    <3>1. /\ arriving' = arriving /\ arriving # NoImage
          /\ ptr_grab_result' = arriving
          /\ notifier[GrabLoop] = "outside"
          /\ notifier'[GrabLoop] # "outside"
      BY <1>2, <2>3 DEF OnImageGrabbed, Handler!OnImageGrabbed, HandlerOK,
                        Handler!TypeOK, Handler!Notifiers
    <3>2. QED
      BY <2>1, <3>1, <1>0
  <2>4. QED
    BY <2>2, <2>3
<1>3. CASE OnImageGrabbedReturns
  BY <1>3 DEF OnImageGrabbedReturns, Handler!NotifyOne
<1>4. ASSUME \/ OnCameraDeviceRemoved \/ Pause \/ FlushUnlocks
             \/ \E thread \in {Application, Removal} :
                  InterrupterNotifies(thread)
      PROVE  OrderInv'
  <2>1. UNCHANGED <<exposed, startedAt, arriving, ptr_grab_result, src, taken,
                    fresh, result>>
    BY <1>4 DEF OnCameraDeviceRemoved, Pause, FlushUnlocks, Unlock,
                InterrupterNotifies, Handler!InterruptWaitForImage,
                Handler!NotifyOne
  <2>2. notifier'[GrabLoop] = notifier[GrabLoop]
    BY <1>4 DEF OnCameraDeviceRemoved, Pause, FlushUnlocks, Unlock,
                InterrupterNotifies, Handler!InterruptWaitForImage,
                Handler!NotifyOne, HandlerOK, Handler!TypeOK,
                Handler!Notifiers, GrabLoop, Application, Removal
  <2>3. QED
    BY <2>1, <2>2
<1>5. CASE SetCapsStops \/ SetCapsRefused \/ SetCapsFails
  BY <1>5 DEF SetCapsStops, SetCapsRefused, SetCapsFails
<1>6. CASE SetCapsStarts
  BY <1>6, <1>0 DEF SetCapsStarts, GrabLoopJoined
<1>7. CASE Create \/ CaptureRetries
  BY <1>7 DEF Create, CaptureRetries, Handler!WaitForImage
<1>8. CASE CaptureSleeps \/ CaptureWakesSpuriously
  BY <1>8 DEF CaptureSleeps, CaptureWakesSpuriously, Handler!Sleep,
              Handler!SpuriousWakeup
<1>9. CASE CaptureInterrupted
  BY <1>9 DEF CaptureInterrupted, Handler!ReturnResult
<1>10. CASE CaptureSucceeds \/ CaptureSkips \/ CaptureAborts
  <2>1. TakesImage
    BY <1>10 DEF CaptureSucceeds, CaptureSkips, CaptureAborts
  <2>2. /\ UNCHANGED <<exposed, startedAt, arriving, notifier>>
        /\ ptr_grab_result # NoImage
        /\ ptr_grab_result' = NoImage
        /\ result' = ptr_grab_result
        /\ taken' = ptr_grab_result.id
        /\ grab_result_ready
    BY <2>1 DEF TakesImage, Handler!ReturnResult
  <2>3. arriving # NoImage /\ notifier[GrabLoop] = "outside" =>
          ptr_grab_result.id < exposed
    BY <2>2
  <2>4. QED
    BY <2>2, <2>3, <1>0
<1>11. CASE Push \/ Frees
  BY <1>11 DEF Push, Frees, FreeBuffer
<1>12. CASE \/ Flush \/ Stop \/ Free
            \/ \E value \in CaptureErrors : SetCaptureError(value)
  BY <1>12 DEF Flush, Stop, Free, SetCaptureError
<1>13. CASE UNCHANGED vars
  BY <1>13 DEF vars
<1>14. QED
  BY <1>1, <1>2, <1>3, <1>4, <1>5, <1>6, <1>7, <1>8, <1>9, <1>10, <1>11,
     <1>12, <1>13
     DEF Next, Streaming, Frees

(* The table of pointers is exact, and no held image was overwritten.      *)
RefsExact ==
  \A b \in Buffers :
    /\ <<b, "grab loop">> \in refs <=> arriving # NoImage /\ arriving.buf = b
    /\ <<b, "handler">> \in refs <=>
         ptr_grab_result # NoImage /\ ptr_grab_result.buf = b
    /\ <<b, "buffer">> \in refs <=> \E image \in InBuffers : image.buf = b

PointersInv == PushedInv /\ RefsExact /\ HeldImagesIntact

(* A pointer moves within the table's type.                                *)
LEMMA RefsTyped ==
  ASSUME BufferTypeOK, NEW b \in Buffers,
         NEW from \in Holders, NEW to \in Holders
  PROVE  /\ Hold(b, to) \subseteq Buffers \X Holders
         /\ Release(b, from) \subseteq Buffers \X Holders
         /\ PassOn(b, from, to) \subseteq Buffers \X Holders
BY DEF Hold, Release, PassOn, BufferTypeOK

LEMMA HoldersKnown ==
  "grab loop" \in Holders /\ "handler" \in Holders /\ "buffer" \in Holders
BY DEF Holders

(* The types of the images that move.                                      *)
LEMMA ImageTypes ==
  HandlerOK /\ CameraTypeOK =>
    /\ arriving # NoImage => arriving \in Image /\ arriving.buf \in Buffers
    /\ ptr_grab_result # NoImage =>
         ptr_grab_result \in Image /\ ptr_grab_result.buf \in Buffers
BY DEF HandlerOK, Handler!TypeOK, CameraTypeOK, Image

LEMMA BufferTypePreserved ==
  /\ HandlerOK /\ CameraTypeOK /\ BufferTypeOK /\ ControlInv /\ [Next]_vars
  => BufferTypeOK'
<1> SUFFICES ASSUME HandlerOK, CameraTypeOK, BufferTypeOK, ControlInv,
                    [Next]_vars
             PROVE  BufferTypeOK'
  OBVIOUS
<1>1. CASE Exposes
  BY <1>1, RefsTyped, HoldersKnown DEF Exposes, Expose, BufferTypeOK
<1>2. CASE OnImageGrabbed \/ CaptureSkips \/ CaptureAborts
  BY <1>2, RefsTyped, HoldersKnown, ImageTypes
     DEF OnImageGrabbed, CaptureSkips, CaptureAborts, TakesImage, BufferTypeOK
<1>3. CASE OnImageGrabbedReturns
  BY <1>3 DEF OnImageGrabbedReturns, Release, BufferTypeOK
<1>4. CASE CaptureSucceeds
  BY <1>4, RefsTyped, HoldersKnown, ImageTypes
     DEF CaptureSucceeds, TakesImage, BufferTypeOK
<1>5. CASE Push \/ Frees
  BY <1>5 DEF Push, Frees, FreeBuffer, Release, BufferTypeOK, ControlInv
<1>6. CASE Free
  BY <1>6, ImageTypes DEF Free, BufferTypeOK
<1>7. CASE UNCHANGED bufferVars
  BY <1>7 DEF bufferVars, BufferTypeOK
<1>8. QED
  BY <1>1, <1>2, <1>3, <1>4, <1>5, <1>6, <1>7, BufferFrame

LEMMA PushedPreserved ==
  /\ HandlerOK /\ StreamTypeOK /\ BufferTypeOK /\ ControlInv /\ OrderInv
  /\ PushedInv /\ [Next]_vars
  => PushedInv'
<1> SUFFICES ASSUME HandlerOK, StreamTypeOK, BufferTypeOK, ControlInv,
                    OrderInv, PushedInv, [Next]_vars
             PROVE  PushedInv'
  OBVIOUS
<1>0. taken \in Nat /\ \A image \in downstream : image.id \in Nat
  BY DEF StreamTypeOK, BufferTypeOK, Image
<1>1. CASE TakesImage
  <2>1. /\ downstream' = downstream
        /\ taken < taken' /\ taken' \in Nat
    BY <1>1 DEF TakesImage, OrderInv, HandlerOK, Handler!TypeOK, Image
  <2>2. QED
    BY <1>0, <2>1 DEF PushedInv
<1>2. CASE Push
  BY <1>0, <1>2 DEF Push, PushedInv, OrderInv
<1>3. CASE Frees
  BY <1>3 DEF Frees, FreeBuffer, PushedInv, streamVars
<1>4. CASE UNCHANGED <<taken, downstream>> /\ (src' = "push" => src = "push")
  BY <1>4 DEF PushedInv
<1>5. QED
  <2>1. [Next]_vars => \/ TakesImage \/ Push \/ Frees
                       \/ /\ UNCHANGED <<taken, downstream>>
                          /\ src' = "push" => src = "push"
    BY DEF Next, vars, Streaming, Frees, Expose, OnImageGrabbed,
           OnImageGrabbedReturns, OnCameraDeviceRemoved, InterrupterNotifies,
           SetCapsStops, SetCapsRefused, SetCapsStarts, SetCapsFails, Create, CaptureSleeps,
           CaptureWakesSpuriously, CaptureInterrupted, CaptureSucceeds,
           CaptureSkips, CaptureAborts, CaptureRetries, SetCaptureError, Pause,
           Flush, FlushUnlocks, Stop, Free, streamVars, bufferVars
  <2>2. QED
    BY <1>1, <1>2, <1>3, <1>4, <2>1

(* The actions that move no pointer.                                       *)
LEMMA PointerFrame ==
  ControlInv /\ [Next]_vars =>
    \/ Exposes \/ OnImageGrabbed \/ OnImageGrabbedReturns
    \/ CaptureSucceeds \/ CaptureSkips \/ CaptureAborts \/ Push \/ Frees
    \/ Free
    \/ /\ UNCHANGED <<refs, content, arriving, ptr_grab_result, leaked>>
       /\ InBuffers' = InBuffers
<1> SUFFICES ASSUME ControlInv, [Next]_vars,
                    ~(\/ Exposes \/ OnImageGrabbed \/ OnImageGrabbedReturns
                      \/ CaptureSucceeds \/ CaptureSkips \/ CaptureAborts
                      \/ Push \/ Frees \/ Free)
             PROVE  /\ UNCHANGED <<refs, content, arriving, ptr_grab_result,
                                   leaked>>
                    /\ InBuffers' = InBuffers
  OBVIOUS
<1> USE DEF handlerVars, cameraVars, streamVars, bufferVars, appVars
<1>1. CASE CaptureInterrupted
  <2>1. src # "push" /\ src' # "push"
    BY <1>1 DEF CaptureInterrupted, Handler!ReturnResult, ControlInv
  <2>2. QED
    BY <1>1, <2>1 DEF CaptureInterrupted, Handler!ReturnResult, InBuffers
<1>2. CASE ~CaptureInterrupted
  <2>1. /\ UNCHANGED <<refs, content, arriving, ptr_grab_result, leaked,
                       downstream, result>>
        /\ src = "push" <=> src' = "push"
    BY <1>2
       DEF Next, vars, Streaming, Exposes, Frees, OnCameraDeviceRemoved,
           InterrupterNotifies, SetCapsStops, SetCapsRefused, SetCapsStarts, SetCapsFails,
           Create, CaptureSleeps, CaptureWakesSpuriously, CaptureRetries,
           SetCaptureError, Pause, Flush, FlushUnlocks, Unlock, Stop,
           Handler!InterruptWaitForImage, Handler!NotifyOne,
           Handler!WaitForImage, Handler!Sleep, Handler!SpuriousWakeup
  <2>2. QED
    BY <2>1 DEF InBuffers
<1>3. QED
  BY <1>1, <1>2

(* The image being pushed is not downstream yet.                           *)
LEMMA OrderedResult ==
  ASSUME OrderInv, PushedInv, HandlerOK, StreamTypeOK, BufferTypeOK,
         src = "push"
  PROVE  result \notin downstream
BY DEF OrderInv, PushedInv, StreamTypeOK, BufferTypeOK, Image

LEMMA PointersPreserved ==
  /\ HandlerOK /\ CameraTypeOK /\ StreamTypeOK /\ BufferTypeOK
  /\ ControlInv /\ RefsExact
  /\ HeldImagesIntact /\ PushedInv /\ OrderInv /\ [Next]_vars
  => RefsExact' /\ HeldImagesIntact'
<1> SUFFICES ASSUME HandlerOK, CameraTypeOK, StreamTypeOK, BufferTypeOK,
                    ControlInv, RefsExact, HeldImagesIntact, PushedInv, OrderInv,
                    [Next]_vars
             PROVE  RefsExact' /\ HeldImagesIntact'
  OBVIOUS
<1>0. InBuffers \subseteq Image
  BY DEF InBuffers, BufferTypeOK, ControlInv
<1>1. ASSUME NEW b \in Buffers, NEW id \in 1 .. MaxImages,
             NEW ok \in BOOLEAN, Expose(b, id, ok)
      PROVE  RefsExact' /\ HeldImagesIntact'
  <2>1. /\ arriving = NoImage
        /\ arriving' \in Image /\ arriving' # NoImage /\ arriving'.buf = b
        /\ content' = [content EXCEPT ![b] = arriving']
        /\ refs' = Hold(b, "grab loop")
    BY <1>1, ExposedImageTyped, NoImageAssumption DEF Expose
  <2>2. UNCHANGED <<ptr_grab_result, leaked>> /\ InBuffers' = InBuffers
    BY <1>1 DEF Expose, InBuffers, handlerVars, streamVars
  <2>3. leaked = {}
    BY <1>1 DEF Expose, ControlInv
  <2>4. /\ ptr_grab_result # NoImage => ptr_grab_result.buf # b
        /\ \A image \in InBuffers : image.buf # b
    BY <1>1, HoldersKnown DEF Expose, RefsExact
  <2>5. RefsExact'
    BY <2>1, <2>2 DEF RefsExact, Hold
  <2>6. ASSUME NEW image \in Held'
        PROVE  content'[image.buf] = image
    <3>1. CASE image = arriving'
      BY <2>1, <3>1 DEF CameraTypeOK
    <3>2. CASE image # arriving'
      <4>1. image \in Held /\ image.buf # b /\ image.buf \in Buffers
        BY <1>0, <2>1, <2>2, <2>3, <2>4, <2>6, <3>2, ImageTypes
           DEF Held, Image
      <4>2. QED
        BY <2>1, <4>1 DEF HeldImagesIntact, CameraTypeOK
    <3>3. QED
      BY <3>1, <3>2
  <2>7. QED
    BY <2>5, <2>6 DEF HeldImagesIntact
<1>2. CASE OnImageGrabbed
  <2>1. UNCHANGED <<content, leaked>> /\ InBuffers' = InBuffers
    BY <1>2 DEF OnImageGrabbed, Handler!OnImageGrabbed, InBuffers, streamVars
  <2>2. CASE Handler!DropsImage
    <3>1. /\ refs' = Release(arriving.buf, "grab loop") /\ arriving' = NoImage
          /\ arriving # NoImage /\ ptr_grab_result' = ptr_grab_result
      BY <1>2, <2>2 DEF OnImageGrabbed, Handler!OnImageGrabbed
    <3>2. QED
      BY <2>1, <3>1 DEF RefsExact, HeldImagesIntact, Held, Release
  <2>3. CASE ~Handler!DropsImage
    <3>1. /\ refs' = Hold(arriving.buf, "handler") /\ arriving' = arriving
          /\ arriving # NoImage /\ ptr_grab_result' = arriving
      BY <1>2, <2>3 DEF OnImageGrabbed, Handler!OnImageGrabbed
    <3>2. ptr_grab_result = NoImage
      BY <2>3 DEF HandlerOK, Handler!PendingIsReady, Handler!DropsImage
    <3>3. RefsExact'
      BY <2>1, <3>1, <3>2 DEF RefsExact, Hold
    <3>4. HeldImagesIntact'
      BY <2>1, <3>1, <3>2 DEF HeldImagesIntact, Held
    <3>5. QED
      BY <3>3, <3>4
  <2>4. QED
    BY <2>2, <2>3
<1>3. CASE OnImageGrabbedReturns
  <2>1. /\ UNCHANGED <<content, leaked, ptr_grab_result>>
        /\ InBuffers' = InBuffers
        /\ refs' = Release(arriving.buf, "grab loop") /\ arriving' = NoImage
        /\ arriving # NoImage
    BY <1>3 DEF OnImageGrabbedReturns, Handler!NotifyOne, InBuffers,
                streamVars, ControlInv
  <2>2. QED
    BY <2>1 DEF RefsExact, HeldImagesIntact, Held, Release
<1>4. CASE CaptureSucceeds \/ CaptureSkips \/ CaptureAborts
  <2>1. /\ UNCHANGED <<content, arriving, leaked, downstream>>
        /\ ptr_grab_result # NoImage /\ ptr_grab_result' = NoImage
        /\ result' = ptr_grab_result
        /\ src = "waiting"
    BY <1>4 DEF CaptureSucceeds, CaptureSkips, CaptureAborts, TakesImage,
                Handler!ReturnResult, cameraVars, ControlInv
  <2>2. CASE CaptureSucceeds
    <3>1. /\ refs' = PassOn(ptr_grab_result.buf, "handler", "buffer")
          /\ InBuffers' = InBuffers \cup {ptr_grab_result}
      BY <2>1, <2>2 DEF CaptureSucceeds, InBuffers
    <3>2. RefsExact'
      BY <2>1, <3>1 DEF RefsExact, PassOn, Release
    <3>3. Held' \subseteq Held
      BY <2>1, <3>1 DEF Held
    <3>4. QED
      BY <2>1, <3>2, <3>3 DEF HeldImagesIntact
  <2>3. CASE CaptureSkips \/ CaptureAborts
    <3>1. /\ refs' = Release(ptr_grab_result.buf, "handler")
          /\ InBuffers' = InBuffers
      BY <2>1, <2>3 DEF CaptureSkips, CaptureAborts, InBuffers
    <3>2. RefsExact'
      BY <2>1, <3>1 DEF RefsExact, Release
    <3>3. Held' \subseteq Held
      BY <2>1, <3>1 DEF Held
    <3>4. QED
      BY <2>1, <3>2, <3>3 DEF HeldImagesIntact
  <2>4. QED
    BY <1>4, <2>2, <2>3
<1>5. CASE Push
  <2>1. /\ UNCHANGED <<content, arriving, leaked, ptr_grab_result, result>>
        /\ src = "push" /\ src' # "push"
        /\ result \in Image /\ result \notin downstream
    BY <1>5, OrderedResult DEF Push, handlerVars, cameraVars, ControlInv
  <2>2. CASE app = "playing"
    <3>1. UNCHANGED refs /\ InBuffers' = InBuffers
      BY <1>5, <2>1, <2>2 DEF Push, InBuffers
    <3>2. QED
      BY <2>1, <3>1 DEF RefsExact, HeldImagesIntact, Held
  <2>3. CASE app # "playing"
    <3>1. /\ refs' = Release(result.buf, "buffer")
          /\ InBuffers = downstream \cup {result}
          /\ InBuffers' = downstream
      BY <1>5, <2>1, <2>3 DEF Push, InBuffers
    <3>2. \A image \in downstream : image.buf # result.buf
      BY <2>1, <3>1 DEF HeldImagesIntact, Held
    <3>3. RefsExact'
      BY <2>1, <3>1, <3>2 DEF RefsExact, Release
    <3>4. Held' \subseteq Held
      BY <2>1, <3>1 DEF Held
    <3>5. QED
      BY <2>1, <3>3, <3>4 DEF HeldImagesIntact
  <2>4. QED
    BY <2>2, <2>3
<1>6. ASSUME NEW freed \in downstream, FreeBuffer(freed)
      PROVE  RefsExact' /\ HeldImagesIntact'
  <2>1. /\ UNCHANGED <<content, arriving, leaked, ptr_grab_result, result, src>>
        /\ downstream' = downstream \ {freed}
        /\ refs' = Release(freed.buf, "buffer")
    BY <1>6 DEF FreeBuffer, handlerVars, cameraVars, streamVars
  <2>2. InBuffers' = InBuffers \ {freed} /\ freed \in InBuffers
    BY <2>1, OrderedResult DEF InBuffers, ControlInv
  <2>3. \A image \in InBuffers' : image.buf # freed.buf
    BY <2>2 DEF HeldImagesIntact, Held
  <2>4. RefsExact'
    BY <2>1, <2>2, <2>3 DEF RefsExact, Release
  <2>5. Held' \subseteq Held
    BY <2>1, <2>2 DEF Held
  <2>6. QED
    BY <2>1, <2>4, <2>5 DEF HeldImagesIntact
<1>7. CASE Free
  <2>1. /\ UNCHANGED <<content, arriving, ptr_grab_result, refs>>
        /\ InBuffers' = InBuffers
        /\ leaked' = leaked \cup ({ptr_grab_result} \ {NoImage})
    BY <1>7 DEF Free, handlerVars, cameraVars, streamVars, InBuffers
  <2>2. Held' = Held
    BY <2>1 DEF Held
  <2>3. QED
    BY <2>1, <2>2 DEF RefsExact, HeldImagesIntact
<1>8. CASE /\ UNCHANGED <<refs, content, arriving, ptr_grab_result, leaked>>
           /\ InBuffers' = InBuffers
  BY <1>8 DEF RefsExact, HeldImagesIntact, Held
<1>9. QED
  BY <1>1, <1>2, <1>3, <1>4, <1>5, <1>6, <1>7, <1>8, PointerFrame
     DEF Exposes, Frees

-----------------------------------------------------------------------------
(* The theorems. *)

IInv ==
  /\ HandlerOK /\ CameraTypeOK /\ StreamTypeOK /\ BufferTypeOK /\ AppTypeOK
  /\ ControlInv /\ CauseInv /\ OrderInv /\ PointersInv

LEMMA InvInitially == Init => IInv
<1> SUFFICES ASSUME Init
             PROVE  IInv
  OBVIOUS
<1>1. HandlerOK
  BY HandlerOKInitially
<1>2. CameraTypeOK
  BY DEF Init, CameraTypeOK
<1>3. StreamTypeOK
  BY DEF Init, StreamTypeOK, Policies
<1>4. BufferTypeOK
  BY DEF Init, BufferTypeOK
<1>5. AppTypeOK
  BY CaptureErrorsAssumption DEF Init, AppTypeOK
<1>6. ControlInv
  BY DEF Init, ControlInv, Handler!Init, Handler!Notifiers
<1>7. CauseInv
  BY DEF Init, CauseInv, EosHasCause, Handler!Init
<1>8. OrderInv
  BY DEF Init, OrderInv, Handler!Init
<1>9. PointersInv
  <2>1. InBuffers = {} /\ Held = {}
    BY DEF Init, InBuffers, Held, Handler!Init
  <2>2. QED
    BY <2>1 DEF Init, PointersInv, PushedInv, RefsExact, HeldImagesIntact,
                Handler!Init
<1>10. QED
  BY <1>1, <1>2, <1>3, <1>4, <1>5, <1>6, <1>7, <1>8, <1>9 DEF IInv

LEMMA InvPreserved == IInv /\ [Next]_vars => IInv'
BY HandlerOKPreserved, CameraTypePreserved, StreamTypePreserved,
   BufferTypePreserved, AppTypePreserved, ControlPreserved, CausePreserved,
   OrderPreserved, PushedPreserved, PointersPreserved
   DEF IInv, PointersInv, HandlerOK

LEMMA Invariance == Spec => []IInv
BY InvInitially, InvPreserved, PTL DEF Spec

(* Every variable of the capture path keeps its type.                      *)
THEOREM TypeCorrect == Spec => []TypeOK
<1>1. IInv => TypeOK
  BY DEF IInv, HandlerOK, TypeOK
<1>2. QED
  BY <1>1, Invariance, PTL

(* What the grab loop, the streaming thread, the application and the       *)
(* removal of the device do to the handler are its operations and nothing  *)
(* else: what is proved of ImageHandler holds in the capture path.         *)
THEOREM CaptureRunsTheHandler == Spec => Handler!SafeSpec
<1>1. Init => Handler!Init
  BY DEF Init
<1>2. IInv /\ [Next]_vars => [Handler!Next]_(Handler!vars)
  BY HandlerSteps DEF IInv, handlerVars, Handler!vars
<1>3. QED
  BY <1>1, <1>2, Invariance, PTL DEF Spec, Handler!SafeSpec

(* The camera never writes into a buffer that the grab loop, the handler,  *)
(* the capture loop or a GstBuffer downstream still points to.             *)
THEOREM HeldImagesStayIntact == Spec => []HeldImagesIntact
<1>1. IInv => HeldImagesIntact
  BY DEF IInv, PointersInv
<1>2. QED
  BY <1>1, Invariance, PTL

(* create() returns EOS only after an unlock or the loss of the device.    *)
THEOREM EosAlwaysHasCause == Spec => []EosHasCause
<1>1. IInv => EosHasCause
  BY DEF IInv, CauseInv
<1>2. QED
  BY <1>1, Invariance, PTL

(* Images leave the handler in the order of their exposure, none twice,    *)
(* whatever is dropped, skipped or renegotiated in between.                *)
THEOREM ImagesAreTakenInOrder == Spec => TakenInOrder
<1>1. IInv /\ [Next]_vars => [TakesImage => taken' > taken]_vars
  <2> SUFFICES ASSUME IInv, TakesImage
               PROVE  taken' > taken
    OBVIOUS
  <2>1. /\ ptr_grab_result # NoImage
        /\ taken' = ptr_grab_result.id
        /\ taken < ptr_grab_result.id
    BY DEF IInv, OrderInv, TakesImage
  <2>2. taken \in Nat /\ ptr_grab_result.id \in Nat
    BY <2>1 DEF IInv, HandlerOK, Handler!TypeOK, StreamTypeOK, Image
  <2>3. QED
    BY <2>1, <2>2
<1>2. QED
  BY <1>1, Invariance, PTL DEF Spec, TakenInOrder

(* An image of the configuration before the last set_caps is only ever     *)
(* delivered as the first image after the camera was started again.        *)
THEOREM StaleImageComesFirst == Spec => StaleOnlyFirst
<1>1. IInv /\ [Next]_vars => [TakesImage /\ taken' <= startedAt => fresh]_vars
  <2> SUFFICES ASSUME IInv, TakesImage
               PROVE  taken' <= startedAt => fresh
    OBVIOUS
  <2>1. QED
    BY DEF IInv, OrderInv, TakesImage
<1>2. QED
  BY <1>1, Invariance, PTL DEF Spec, StaleOnlyFirst
=============================================================================
