------------------------- MODULE ImageHandlerProofs -------------------------
(***************************************************************************)
(* Proofs about ImageHandler, for any set of grab results and any number   *)
(* of threads that interrupt a capture.                                    *)
(***************************************************************************)
EXTENDS ImageHandler, TLAPS

LEMMA TypeInitially == Init => TypeOK
BY DEF Init, TypeOK, Notifiers

LEMMA TypePreserved == TypeOK /\ [Next]_vars => TypeOK'
<1> SUFFICES ASSUME TypeOK, [Next]_vars
             PROVE  TypeOK'
  OBVIOUS
<1> USE DEF TypeOK, Notifiers
<1>1. ASSUME NEW image \in Results, OnImageGrabbed(image)
      PROVE  TypeOK'
  BY <1>1 DEF OnImageGrabbed
<1>2. ASSUME NEW thread \in Interrupters, InterruptWaitForImage(thread)
      PROVE  TypeOK'
  BY <1>2 DEF InterruptWaitForImage
<1>3. ASSUME NEW thread \in Notifiers, NotifyOne(thread)
      PROVE  TypeOK'
  BY <1>3 DEF NotifyOne
<1>4. CASE WaitForImage
  BY <1>4 DEF WaitForImage
<1>5. CASE Sleep
  BY <1>5 DEF Sleep
<1>6. CASE SpuriousWakeup
  BY <1>6 DEF SpuriousWakeup
<1>7. CASE ReturnResult
  BY <1>7 DEF ReturnResult
<1>8. CASE UNCHANGED vars
  BY <1>8 DEF vars
<1>9. QED
  BY <1>1, <1>2, <1>3, <1>4, <1>5, <1>6, <1>7, <1>8 DEF Next

(* Every variable of the handler keeps its type. *)
THEOREM TypeCorrect == Spec => []TypeOK
BY TypeInitially, TypePreserved, PTL DEF Spec, SafeSpec

(* The inductive invariant: it is the conjunction of the two invariants    *)
(* the run checks, which need each other's variables only through TypeOK.  *)
HandlerInv == NoLostWakeup /\ PendingIsReady

LEMMA HandlerInvInitially == Init => HandlerInv
BY DEF Init, HandlerInv, NoLostWakeup, PendingIsReady

LEMMA HandlerInvPreserved == TypeOK /\ HandlerInv /\ [Next]_vars => HandlerInv'
<1> SUFFICES ASSUME TypeOK, HandlerInv, [Next]_vars
             PROVE  HandlerInv'
  OBVIOUS
<1> USE DEF HandlerInv, NoLostWakeup, PendingIsReady, TypeOK, Notifiers
<1>1. ASSUME NEW image \in Results, OnImageGrabbed(image)
      PROVE  HandlerInv'
  BY <1>1 DEF OnImageGrabbed, DropsImage
<1>2. ASSUME NEW thread \in Interrupters, InterruptWaitForImage(thread)
      PROVE  HandlerInv'
  BY <1>2 DEF InterruptWaitForImage
<1>3. ASSUME NEW thread \in Notifiers, NotifyOne(thread)
      PROVE  HandlerInv'
  BY <1>3 DEF NotifyOne
<1>4. CASE WaitForImage
  BY <1>4 DEF WaitForImage
<1>5. CASE Sleep
  BY <1>5 DEF Sleep
<1>6. CASE SpuriousWakeup
  BY <1>6 DEF SpuriousWakeup
<1>7. CASE ReturnResult
  BY <1>7 DEF ReturnResult
<1>8. CASE UNCHANGED vars
  BY <1>8 DEF vars
<1>9. QED
  BY <1>1, <1>2, <1>3, <1>4, <1>5, <1>6, <1>7, <1>8 DEF Next

(* The streaming thread never sleeps on a flag that is set unless a thread *)
(* is still about to call notify_one(): WaitForImage misses no wake-up.    *)
THEOREM NoWakeupIsLost == Spec => []NoLostWakeup
<1>1. HandlerInv => NoLostWakeup
  BY DEF HandlerInv
<1>2. QED
  BY <1>1, HandlerInvInitially, HandlerInvPreserved, TypeCorrect, PTL
     DEF Spec, SafeSpec

(* A pending grab result is never left behind a cleared flag, where the    *)
(* next OnImageGrabbed would overwrite the only pointer to it.             *)
THEOREM NoResultIsOverwritten == Spec => []PendingIsReady
<1>1. HandlerInv => PendingIsReady
  BY DEF HandlerInv
<1>2. QED
  BY <1>1, HandlerInvInitially, HandlerInvPreserved, TypeCorrect, PTL
     DEF Spec, SafeSpec

(* Every step of the handler is a step of the one-slot mailbox or leaves   *)
(* the mailbox as it was.                                                  *)
THEOREM HandlerImplementsMailbox == Spec => AsMailbox!SafeSpec
<1> USE DEF AsMailbox!vars, Box
<1>1. Init => AsMailbox!Init
  BY DEF Init, AsMailbox!Init, AsMailbox!Empty
<1>2. TypeOK /\ HandlerInv /\ [Next]_vars => [AsMailbox!Next]_(AsMailbox!vars)
  <2> SUFFICES ASSUME TypeOK, PendingIsReady, [Next]_vars
               PROVE  [AsMailbox!Next]_(AsMailbox!vars)
    BY DEF HandlerInv
  <2> USE DEF TypeOK, Notifiers, AsMailbox!Next, AsMailbox!Empty
  <2>1. ASSUME NEW image \in Results, OnImageGrabbed(image)
        PROVE  AsMailbox!Put \/ UNCHANGED AsMailbox!vars
    BY <2>1 DEF OnImageGrabbed, DropsImage, PendingIsReady, AsMailbox!Put,
                AsMailbox!Content
  <2>2. ASSUME NEW thread \in Interrupters, InterruptWaitForImage(thread)
        PROVE  AsMailbox!Put \/ UNCHANGED AsMailbox!vars
    BY <2>2 DEF InterruptWaitForImage, PendingIsReady, AsMailbox!Put,
                AsMailbox!Content
  <2>3. ASSUME NEW thread \in Notifiers, NotifyOne(thread)
        PROVE  UNCHANGED AsMailbox!vars
    BY <2>3 DEF NotifyOne
  <2>4. ASSUME WaitForImage
        PROVE  AsMailbox!StartTaking
    BY <2>4 DEF WaitForImage, AsMailbox!StartTaking
  <2>5. ASSUME Sleep \/ SpuriousWakeup
        PROVE  UNCHANGED AsMailbox!vars
    BY <2>5 DEF Sleep, SpuriousWakeup
  <2>6. ASSUME ReturnResult
        PROVE  AsMailbox!Take
    BY <2>6 DEF ReturnResult, AsMailbox!Take
  <2>7. CASE UNCHANGED vars
    BY <2>7 DEF vars
  <2>8. QED
    BY <2>1, <2>2, <2>3, <2>4, <2>5, <2>6, <2>7 DEF Next
<1>3. QED
  BY <1>1, <1>2, HandlerInvInitially, HandlerInvPreserved, TypeCorrect, PTL
     DEF Spec, SafeSpec, AsMailbox!SafeSpec
=============================================================================
