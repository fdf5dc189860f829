------------------------------ MODULE MCPylonSrc ------------------------------
(* PylonSrc for TLC: two cameras, of which the second has no user sets.    *)
EXTENDS PylonSrc

CONSTANT file

MCDevices == {1, 2}

MCCriteria ==
  {[filter |-> {1, 2}, index |-> -1], [filter |-> {1, 2}, index |-> 1],
   [filter |-> {1}, index |-> 0]}

MCUserSetsOf == <<{"Default", "UserSet1"}, {}>>
=============================================================================
