---------------------------- MODULE ImageHandler ----------------------------
(***************************************************************************)
(* GstPylonImageHandler (ext/pylon/gstpylonimagehandler.cpp): one pointer, *)
(* one flag, one mutex and one condition variable between the pylon grab   *)
(* loop thread, which hands over grab results, the threads that interrupt  *)
(* a capture, and the streaming thread, which waits.                       *)
(*                                                                         *)
(* A critical section of grab_result_mutex is one step: the two variables  *)
(* are touched nowhere else.  notify_one() is called after the unlock, so  *)
(* it is a step of its own and any thread can run in between.              *)
(***************************************************************************)

CONSTANTS
  Results,        (* The grab results the grab loop can hand over.        *)
  NoResult,       (* The NULL pointer.                                    *)
  GrabLoop,       (* The pylon thread that calls OnImageGrabbed.          *)
  Interrupters    (* The threads that call InterruptWaitForImage.         *)

ASSUME NoResultAssumption == NoResult \notin Results
ASSUME GrabLoopAssumption == GrabLoop \notin Interrupters

VARIABLES
  ptr_grab_result,    (* The pending grab result, owned by the handler.   *)
  grab_result_ready,  (* The predicate of the condition variable.         *)
  notifier,           (* Where each thread that calls notify_one() is.    *)
  waiter,             (* Where the thread that calls WaitForImage is.     *)
  result              (* What its last call returned.                     *)

vars == <<ptr_grab_result, grab_result_ready, notifier, waiter, result>>

Notifiers == {GrabLoop} \cup Interrupters

TypeOK ==
  /\ ptr_grab_result \in Results \cup {NoResult}
  /\ grab_result_ready \in BOOLEAN
  /\ notifier \in [Notifiers -> {"outside", "unlocked"}]
  /\ waiter \in {"outside", "checking", "asleep"}
  /\ result \in Results \cup {NoResult}

(* Seeded bug: the constructor forgets the pointer.                        *)
Init_PointerUninitialised ==
  /\ ptr_grab_result = "garbage"
  /\ grab_result_ready = FALSE
  /\ notifier = [t \in Notifiers |-> "outside"]
  /\ waiter = "outside"
  /\ result = NoResult

Init ==
  /\ ptr_grab_result = NoResult
  /\ grab_result_ready = FALSE
  /\ notifier = [t \in Notifiers |-> "outside"]
  /\ waiter = "outside"
  /\ result = NoResult

-----------------------------------------------------------------------------
(* The callers of notify_one(). *)

(* The early return of OnImageGrabbed: the image is dropped. *)
DropsImage == grab_result_ready

(* Seeded bug: no early return, the latest image replaces the pending one. *)
OnImageGrabbed_Overwrites(image) ==
  /\ notifier[GrabLoop] = "outside"
  /\ ptr_grab_result' = image
  /\ grab_result_ready' = TRUE
  /\ notifier' = [notifier EXCEPT ![GrabLoop] = "unlocked"]
  /\ UNCHANGED <<waiter, result>>

OnImageGrabbed(image) ==
  /\ notifier[GrabLoop] = "outside"
  /\ IF DropsImage
     THEN UNCHANGED <<ptr_grab_result, grab_result_ready, notifier>>
     ELSE /\ ptr_grab_result' = image
          /\ grab_result_ready' = TRUE
          /\ notifier' = [notifier EXCEPT ![GrabLoop] = "unlocked"]
  /\ UNCHANGED <<waiter, result>>

(* Seeded bug: the flag is set and nobody is notified.                     *)
InterruptWaitForImage_Silent(thread) ==
  /\ notifier[thread] = "outside"
  /\ grab_result_ready' = TRUE
  /\ UNCHANGED <<ptr_grab_result, notifier, waiter, result>>

(* Seeded bug: only a thread that already waits is interrupted.            *)
InterruptWaitForImage_NotSticky(thread) ==
  /\ notifier[thread] = "outside"
  /\ grab_result_ready' = (grab_result_ready \/ waiter # "outside")
  /\ notifier' = [notifier EXCEPT ![thread] = "unlocked"]
  /\ UNCHANGED <<ptr_grab_result, waiter, result>>

(* An interrupt leaves the pending result where it is. *)
InterruptWaitForImage(thread) ==
  /\ notifier[thread] = "outside"
  /\ grab_result_ready' = TRUE
  /\ notifier' = [notifier EXCEPT ![thread] = "unlocked"]
  /\ UNCHANGED <<ptr_grab_result, waiter, result>>

(* notify_one() wakes the one thread that may sleep, or nobody. *)
NotifyOne(thread) ==
  /\ notifier[thread] = "unlocked"
  /\ notifier' = [notifier EXCEPT ![thread] = "outside"]
  /\ waiter' = IF waiter = "asleep" THEN "checking" ELSE waiter
  /\ UNCHANGED <<ptr_grab_result, grab_result_ready, result>>

-----------------------------------------------------------------------------
(* The streaming thread.  "checking" is the thread that is about to hold   *)
(* the mutex and evaluate the predicate, on entry or after a wake-up.      *)

WaitForImage ==
  /\ waiter = "outside"
  /\ waiter' = "checking"
  /\ UNCHANGED <<ptr_grab_result, grab_result_ready, notifier, result>>

Sleep ==
  /\ waiter = "checking"
  /\ ~grab_result_ready
  /\ waiter' = "asleep"
  /\ UNCHANGED <<ptr_grab_result, grab_result_ready, notifier, result>>

SpuriousWakeup ==
  /\ waiter = "asleep"
  /\ waiter' = "checking"
  /\ UNCHANGED <<ptr_grab_result, grab_result_ready, notifier, result>>

(* Seeded bug: the pointer that is returned stays pending.                 *)
ReturnResult_KeepsPointer ==
  /\ waiter = "checking"
  /\ grab_result_ready
  /\ result' = ptr_grab_result
  /\ grab_result_ready' = FALSE
  /\ waiter' = "outside"
  /\ UNCHANGED <<ptr_grab_result, notifier>>

(* Seeded bug: the flag is not reset.                                      *)
ReturnResult_KeepsFlag ==
  /\ waiter = "checking"
  /\ grab_result_ready
  /\ result' = ptr_grab_result
  /\ ptr_grab_result' = NoResult
  /\ waiter' = "outside"
  /\ UNCHANGED <<grab_result_ready, notifier>>

ReturnResult ==
  /\ waiter = "checking"
  /\ grab_result_ready
  /\ result' = ptr_grab_result
  /\ ptr_grab_result' = NoResult
  /\ grab_result_ready' = FALSE
  /\ waiter' = "outside"
  /\ UNCHANGED notifier

-----------------------------------------------------------------------------
Next ==
  \/ \E image \in Results : OnImageGrabbed(image)
  \/ \E thread \in Interrupters : InterruptWaitForImage(thread)
  \/ \E thread \in Notifiers : NotifyOne(thread)
  \/ WaitForImage
  \/ Sleep
  \/ SpuriousWakeup
  \/ ReturnResult

SafeSpec == Init /\ [][Next]_vars

(***************************************************************************)
(* A thread that left its critical section runs on to notify_one(), and a  *)
(* thread that can lock the mutex does: nothing here depends on the camera *)
(* or on the application.                                                  *)
(***************************************************************************)
Fairness ==
  /\ \A thread \in Notifiers : WF_vars(NotifyOne(thread))
  /\ WF_vars(Sleep)
  /\ WF_vars(ReturnResult)

Spec == SafeSpec /\ Fairness

-----------------------------------------------------------------------------
(* The hazard of a flag that is set under the mutex and a notification     *)
(* that is sent after it: the streaming thread must never sleep on a flag  *)
(* that is already set unless somebody is still going to wake it.          *)
NoLostWakeup ==
  waiter = "asleep" /\ grab_result_ready =>
    \E thread \in Notifiers : notifier[thread] = "unlocked"

(* A result is only ever pending behind the flag: WaitForImage can not     *)
(* leave one behind, where OnImageGrabbed would overwrite and leak it.     *)
PendingIsReady == ptr_grab_result # NoResult => grab_result_ready

(* The handler implements the one-slot mailbox, wake-ups included.         *)
Box == [full |-> grab_result_ready, of |-> ptr_grab_result]

AsMailbox == INSTANCE Mailbox WITH
  box <- Box, taking <- (waiter # "outside")

ImplementsMailbox == AsMailbox!Spec
=============================================================================
