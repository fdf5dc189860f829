------------------------------- MODULE Mailbox -------------------------------
(***************************************************************************)
(* What the image handler promises to the streaming thread, without a      *)
(* mutex, a condition variable or a flag: a box that holds at most one     *)
(* grab result or one interrupt.  Whatever is put into a full box is lost. *)
(* A taker that waits while the box is full is served.                     *)
(***************************************************************************)

CONSTANTS
  Results,      (* The grab results the camera can hand over.          *)
  NoResult      (* What the taker gets when it was interrupted: NULL.  *)

VARIABLES
  box,          (* The content of the box.                             *)
  taking,       (* A call that waits for an image is in progress.      *)
  result        (* What the last such call returned.                   *)

vars == <<box, taking, result>>

(* An interrupt is the absence of a result in a box that is full. *)
Content == [full: {TRUE}, of: Results \cup {NoResult}]
Empty == [full |-> FALSE, of |-> NoResult]

Init ==
  /\ box = Empty
  /\ taking = FALSE
  /\ result = NoResult

(* The first of two puts wins: the box is not overwritten. *)
Put ==
  /\ box = Empty
  /\ box' \in Content
  /\ UNCHANGED <<taking, result>>

StartTaking ==
  /\ ~taking
  /\ taking' = TRUE
  /\ UNCHANGED <<box, result>>

Take ==
  /\ taking
  /\ box # Empty
  /\ result' = box.of
  /\ box' = Empty
  /\ taking' = FALSE

Next == Put \/ StartTaking \/ Take

SafeSpec == Init /\ [][Next]_vars

Spec == SafeSpec /\ WF_vars(Take)
=============================================================================
