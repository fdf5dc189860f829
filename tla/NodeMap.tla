------------------------------- MODULE NodeMap -------------------------------
(***************************************************************************)
(* The GenICam node map of a camera, as far as the introspection of        *)
(* gst-libs/gst/pylon reads it, and the questions it asks of the map       *)
(* without changing the camera: which nodes become properties, behind      *)
(* which selector entries, and which features control the limits of        *)
(* another one.                                                            *)
(***************************************************************************)
EXTENDS Integers, Sequences, FiniteSets

CONSTANTS
  Nodes,        \* the nodes of the map
  Node,         \* Node[n]: what GetProperty, GetChildren and the like say of n
  Root,         \* the category the walk starts from
  NoNode,       \* "no such property", "no such node"
  NoEntry,      \* the entry of a feature that has no selector
  MaxSelectorEntries  \* MAX_INT_SELECTOR_ENTRIES, 16 in the code

ASSUME NodeMapAssumption ==
  /\ IsFiniteSet(Nodes)
  /\ Root \in Nodes
  /\ NoNode \notin Nodes
  /\ NoEntry \notin Int
  /\ MaxSelectorEntries \in Nat
  /\ \A n \in Nodes :
       /\ {"pMin", "pMax", "pValue", "pValueDefault", "pInvalidator", "parents", "children",
           "selectors", "entries", "kind", "selector", "feature", "visible",
           "implemented", "pIsLocked", "unsupported", "gev", "shortcut"} \subseteq DOMAIN Node[n]
       /\ Node[n].children \in Seq(Nodes)
       /\ Node[n].parents \in Seq(Nodes)
       /\ Node[n].selectors \in Seq(Nodes)
       /\ Node[n].entries \in Seq(Int)
       /\ Node[n].shortcut.min \in Int /\ Node[n].shortcut.max \in Int
       /\ Node[n].shortcut.min <= Node[n].shortcut.max

-----------------------------------------------------------------------------

(* The members of S in a sequence, in its order: SelectSeq as a recursive  *)
(* function, which a proof can unfold.                                     *)
Among(seq, S) ==
  LET Upto[i \in 0..Len(seq)] ==
        IF i = 0 THEN <<>>
        ELSE IF seq[i] \in S THEN Append(Upto[i - 1], seq[i]) ELSE Upto[i - 1]
  IN  Upto[Len(seq)]

-----------------------------------------------------------------------------
(* Walking over the map.                                                   *)

IsCategory(n) == Node[n].kind = "category"

(* The numbers go through the cache and the search for limits.             *)
IsNumeric(n) == Node[n].kind \in {"integer", "float"}

(* "unsupported" stands for propfilter_set, categoryfilter_set with the    *)
(* suffix EventData, and selectorfilter_set: lists of names.               *)
IsUnsupported(n) == Node[n].unsupported

(* Whether install_properties makes a property of a node.                  *)
IsInstallable(n) ==
  /\ Node[n].kind \notin {"category", "command", "register"}
  /\ Node[n].feature
  /\ Node[n].visible
  /\ Node[n].implemented
  /\ ~IsUnsupported(n)
  /\ ~Node[n].selector

(* The categories whose features the walk goes on to.                      *)
IsWalked(n) == IsCategory(n) /\ ~IsUnsupported(n)

(* process_selector_features gives a feature up with an exception: more    *)
(* than one selector, or a selector that is no enumeration and no integer. *)
SelectorsRefused(n) ==
  \/ Len(Node[n].selectors) > 1
  \/ /\ Len(Node[n].selectors) = 1
     /\ ~IsUnsupported(Node[n].selectors[1])
     /\ Node[Node[n].selectors[1]].kind \notin {"integer", "enumeration"}

(* The entries of a selector, in order: those implemented of an            *)
(* enumeration, and those of an integer up to the limit.                   *)
SelectorEntries(s) ==
  IF Node[s].kind = "integer"
  THEN Among(Node[s].entries, {e \in Int : e <= MaxSelectorEntries})
  ELSE Node[s].entries

(* The entries a feature is installed for. Without a selector, with an     *)
(* unsupported one, or with a single entry it is a direct feature.         *)
Entries(n) ==
  IF Node[n].selectors = <<>> \/ IsUnsupported(Node[n].selectors[1])
  THEN <<NoEntry>>
  ELSE LET all == SelectorEntries(Node[n].selectors[1])
       IN  IF Len(all) = 1 THEN <<NoEntry>> ELSE all

-----------------------------------------------------------------------------
(* What controls the limits of a feature.                                  *)

(* The node that holds a limit of a feature, found along pValue.           *)
LimitNode[limit \in {"pMin", "pMax"}, n \in Nodes] ==
  IF Node[n][limit] # NoNode THEN Node[n][limit]
  ELSE IF Node[n].pValue # NoNode THEN LimitNode[limit, Node[n].pValue]
  ELSE IF Node[n].pValueDefault # NoNode THEN LimitNode[limit, Node[n].pValueDefault]
  ELSE NoNode

(* The nodes whose change invalidates one of the limits.                   *)
Invalidators(n) ==
  UNION { IF LimitNode[limit, n] = NoNode THEN {} ELSE Node[LimitNode[limit, n]].pInvalidator :
          limit \in {"pMin", "pMax"} }

(* The features above a node.                                              *)
ParentFeatures[n \in Nodes] ==
  IF Node[n].feature THEN {n}
  ELSE UNION { ParentFeatures[Node[n].parents[i]] : i \in DOMAIN Node[n].parents }

(* The first category above a node.                                        *)
NodeCategory[n \in Nodes] ==
  IF Node[n].feature /\ IsCategory(n) THEN n
  ELSE IF Node[n].parents = <<>> THEN NoNode
  ELSE NodeCategory[Node[n].parents[1]]

(* The features the search drives: implemented, not in a category that is  *)
(* unsupported, and none of the transport parameters filter_gev_ctrl takes *)
(* out by name. What is no boolean, number or enumeration has no value to  *)
(* be driven to.                                                           *)
Controls == [ n \in Nodes |->
  { p \in UNION {ParentFeatures[i] : i \in Invalidators(n)} :
      /\ Node[p].implemented
      /\ NodeCategory[p] = NoNode \/ ~IsUnsupported(NodeCategory[p])
      /\ ~Node[p].gev
      /\ Node[p].kind \in {"boolean", "integer", "float", "enumeration"} } ]

(* Whether a feature that can not be written now may become writable: it   *)
(* or one of its first children has a lock. The loop over the children     *)
(* returns with the first of them.                                         *)
CanLaterBeWritable[n \in Nodes] ==
  \/ Node[n].pIsLocked
  \/ Node[n].children # <<>> /\ CanLaterBeWritable[Node[n].children[1]]
==============================================================================
