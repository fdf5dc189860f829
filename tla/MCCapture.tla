------------------------------ MODULE MCCapture ------------------------------
(* Capture for TLC.  The buffers are interchangeable, which a run without  *)
(* liveness properties may use.                                            *)
EXTENDS Capture, TLC

BufferSymmetry == Permutations(Buffers)
==============================================================================
