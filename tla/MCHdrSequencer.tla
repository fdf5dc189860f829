---------------------------- MODULE MCHdrSequencer ----------------------------
(***************************************************************************)
(* HdrSequencer for TLC: single sequences of one to three steps, and dual  *)
(* ones up to one step more than the limit and than the camera allows; and *)
(* cameras on which everything is writable, or all but one register, with  *)
(* each kind of trigger source.                                            *)
(***************************************************************************)
EXTENDS HdrSequencer

Step(e, g) == [exposure |-> e, gain |-> g]
a == Step(1, 0)
b == Step(2, 1)
c == Step(1, 1)
MCFactoryStep == Step(2, 0)

Pair(s0, s1) == [p \in {0, 1} |-> IF p = 0 THEN s0 ELSE s1]

MCRequests ==
  {Pair(<<a>>, <<>>), Pair(<<a, b>>, <<>>), Pair(<<b, a, c>>, <<>>),
   Pair(<<a>>, <<b>>), Pair(<<a, b>>, <<c>>),
   Pair(<<a, b>>, <<b, c>>), Pair(<<a, b, c>>, <<b, a>>),
   Pair(<<a, b, c>>, <<c, b, a>>)}

MCTriggers == {"ExposureActive", "FrameStart", "SoftwareSignal1",
               "SoftwareSignal2", "Line"}
MCEachImage == {"ExposureActive", "FrameStart"}

Perfect ==
  [immediate |-> FALSE, paths |-> {0, 1}, writable |-> Registers,
   triggers |-> MCTriggers, shared |-> FALSE, trigger |-> "ExposureActive",
   start |-> 0]

Lacking == {[Perfect EXCEPT !.writable = Registers \ {r}] : r \in Registers}

(* One source for all sets, which the user set has at another value.       *)
Shared == [Perfect EXCEPT !.shared = TRUE, !.trigger = "Line", !.paths = {0}]

MCCameras ==
  {[Perfect EXCEPT !.immediate = im, !.paths = p] :
     im \in BOOLEAN, p \in {{0}, {0, 1}}}
  \cup Lacking
  \cup {Shared,
        [Shared EXCEPT !.triggers = {"FrameStart", "Line"}],
        [Shared EXCEPT !.shared = FALSE],
        [Shared EXCEPT !.paths = {0, 1}],
        [Shared EXCEPT !.writable = Registers \ {"TriggerSource"}],
        [Perfect EXCEPT !.triggers = MCTriggers \ {"SoftwareSignal2"}],
        [Perfect EXCEPT !.triggers = {"Line"}],
        [Perfect EXCEPT !.shared = TRUE],
        [Perfect EXCEPT !.start = 1],
        [Perfect EXCEPT !.start = 1, !.writable = Registers \ {"SetStart"}],
        [Perfect EXCEPT !.immediate = TRUE, !.writable = Registers \ {"SetSave", "SetLoad"}],
        [Perfect EXCEPT !.immediate = TRUE, !.writable = Registers \ {"SetSelector"}],
        [Perfect EXCEPT !.writable = Registers \ {"SetLoad", "TriggerSource"}],
        [Perfect EXCEPT !.writable = Registers \ {"Gain", "ExposureTime"}]}
=============================================================================
