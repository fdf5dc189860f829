------------------------------ MODULE MCGeometry ------------------------------
(***************************************************************************)
(* A sensor of 5 by 4 pixels, the second axis in steps of 2: the largest   *)
(* width is not aligned, only fits without an offset, and is what          *)
(* downstream may insist on; the offset asked for on the second axis is    *)
(* beyond the range and between two steps.                                 *)
(***************************************************************************)
EXTENDS Geometry

MCSensor == <<5, 4>>
MCInc == <<1, 2>>
MCPowerOn == {[size |-> <<3, 2>>, offset |-> <<1, 0>>]}
MCRequests == <<{0}, {3}>>
MCDemands == <<{5}, {}>>
MCModes == {<<"always", TRUE>>, <<"stopped", FALSE>>, <<"never", TRUE>>}
==============================================================================
