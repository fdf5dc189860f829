--------------------------- MODULE MCFeatureWalker ---------------------------
(***************************************************************************)
(* A node map for FeatureWalker. The limits of Rate depend on Auto and     *)
(* Level, by way of registers that are no features, and Auto locks Level;  *)
(* those of Fine on Preset, which is locked while Level is at its end. The *)
(* largest value of Peak is not at an end of Level, and the limits the     *)
(* code has by name for Known are not those of the camera.                 *)
(* Gain, Size and Mode have a selector, Size the integer kind. Level is in *)
(* two categories. Two categories, a feature with two selectors and an     *)
(* entry beyond the limit are not to be walked.                            *)
(***************************************************************************)
EXTENDS FeatureWalker

Blank == [kind |-> "float", feature |-> TRUE, visible |-> TRUE, implemented |-> TRUE,
          unsupported |-> FALSE, gev |-> FALSE, pIsLocked |-> FALSE, selector |-> FALSE,
          selectors |-> <<>>, entries |-> <<>>, children |-> <<>>, parents |-> <<>>,
          pMin |-> "none", pMax |-> "none", pValue |-> "none", pValueDefault |-> "none",
          pInvalidator |-> {}, shortcut |-> NoLimits]

Category(children, parents) ==
  [Blank EXCEPT !.kind = "category", !.children = children, !.parents = parents]
In(parents) == [Blank EXCEPT !.parents = parents]
Register == [Blank EXCEPT !.feature = FALSE, !.kind = "register"]

MCNode ==
  [Root |-> Category(<<"Image", "Analog", "Chunks">>, <<>>),
   Image |-> Category(<<"Level", "Rate", "Peak", "Size">>, <<"Root">>),
   Analog |-> Category(<<"Gain", "Level", "Fine", "Known", "Mode", "Auto", "Multi", "Preset">>, <<"Root">>),
   Chunks |-> [Category(<<"Hidden">>, <<"Root">>) EXCEPT !.unsupported = TRUE],
   Hidden |-> In(<<"Chunks">>),
   Auto |-> [In(<<"Analog">>) EXCEPT !.kind = "enumeration"],
   Preset |-> [In(<<"Analog">>) EXCEPT !.kind = "enumeration"],
   Level |-> [In(<<"Image", "Analog">>) EXCEPT !.pIsLocked = TRUE],
   Rate |-> [In(<<"Image">>) EXCEPT !.pValue = "RateReg"],
   RateReg |-> [Register EXCEPT !.pMax = "RateMax"],
   RateMax |-> [Register EXCEPT !.pInvalidator = {"AutoReg", "Level", "Hidden"}],
   AutoReg |-> [Register EXCEPT !.parents = <<"Auto">>],
   Peak |-> [In(<<"Image">>) EXCEPT !.pMax = "PeakMax"],
   PeakMax |-> [Register EXCEPT !.pInvalidator = {"Level"}],
   Fine |-> [In(<<"Analog">>) EXCEPT !.pValueDefault = "FineReg"],
   FineReg |-> [Register EXCEPT !.pMin = "FineMin"],
   FineMin |-> [Register EXCEPT !.pInvalidator = {"Preset"}],
   Known |-> [In(<<"Analog">>) EXCEPT !.pMax = "RateMax", !.shortcut = [min |-> 0, max |-> 9]],
   GainSelector |-> [Blank EXCEPT !.kind = "enumeration", !.selector = TRUE, !.entries = <<0, 1>>],
   Gain |-> [In(<<"Analog">>) EXCEPT !.selectors = <<"GainSelector">>],
   Mode |-> [In(<<"Analog">>) EXCEPT !.kind = "boolean", !.selectors = <<"GainSelector">>],
   Multi |-> [In(<<"Analog">>) EXCEPT !.selectors = <<"GainSelector", "SizeSelector">>],
   SizeSelector |-> [Blank EXCEPT !.kind = "integer", !.selector = TRUE, !.entries = <<1, 2, 3>>],
   Size |-> [In(<<"Image">>) EXCEPT !.kind = "integer", !.selectors = <<"SizeSelector">>]]
MCNodes == DOMAIN MCNode

MCPowerOn == [Auto |-> 0, Preset |-> 1, Level |-> 1, GainSelector |-> 1, SizeSelector |-> 1]

MCSettings ==
  [Auto : 0..1, Preset : 1..2, Level : 0..2, GainSelector : 0..1, SizeSelector : 1..2]

MCValues(s, n) ==
  CASE n \in {"Auto", "GainSelector"} -> {0, 1}
    [] n \in {"Preset", "SizeSelector"} -> {1, 2}
    [] n = "Level" -> 0..2
    [] n = "Rate" -> 0..(IF s.Auto = 1 THEN 2 ELSE 1 + s.Level)
    [] n = "Peak" -> 0..(IF s.Level = 1 THEN 3 ELSE 2)
    [] n = "Fine" -> s.Preset..3
    [] n = "Gain" -> s.GainSelector..(s.GainSelector + 1)
    [] n = "Size" -> s.SizeSelector..3
    [] OTHER -> 0..1

MCValue(s, n) ==
  CASE n \in DOMAIN MCPowerOn -> s[n]
    [] n = "Fine" -> 2
    [] n \in {"Gain", "Size"} -> Min(MCValues(s, n))
    [] OTHER -> 1

MCIsWritable(s, l, n) ==
  CASE n = "Level" -> s.Auto = 0
    [] n = "Preset" -> s.Level < 2
    [] n \in {"Rate", "Size"} -> l = 0
    [] OTHER -> TRUE

MCOrders == {<<"Auto", "Level", "Hidden", "Preset">>, <<"Level", "Preset", "Hidden", "Auto">>}
MCForeignNames == {<<"Rate", NoEntry>>, <<"Gain", 1>>}
==============================================================================
