---------------------------- MODULE FeatureWalker ----------------------------
(***************************************************************************)
(* GstPylonFeatureWalker::install_properties: the walk over the node map   *)
(* that makes a GObject property of every feature, once for each entry of  *)
(* its selector. The limits and the access of a number come from the       *)
(* feature cache, or from the camera, by way of FeatureLimits, and go into *)
(* the cache. The cache is a file that outlives the process and is shared  *)
(* with other processes that use a camera of the same model.               *)
(***************************************************************************)
EXTENDS FeatureLimits

CONSTANTS
  ForeignNames, \* the entries of the cache another process works on
  MaxSessions   \* bound on the processes that walk, one after the other

VARIABLES
  phase,      \* where the walk is
  worklist,   \* the nodes to look at
  node,       \* the node being installed
  entries,    \* its entries that are left; the first is the current one
  flags,      \* the access of the entry
  specs,      \* specs_list: the GParamSpecs made of the node
  properties, \* the properties of the class
  nprop,      \* the number of the next one
  dict,       \* feature_cache_dict: the cache in memory
  modified,   \* is_modified
  file,       \* the cache file
  foreign,    \* the cache in the memory of another process
  sessions,   \* the processes so far
  clean,      \* nothing failed, and no address order was a bad one, so far
  skipped     \* the entries this walk gave up

walk == <<phase, worklist, node, entries, specs, properties, nprop>>
cache == <<dict, modified, file, foreign>>
history == <<sessions, clean, skipped>>
vars == <<camera, searching, failures, walk, flags, cache, history>>

NoAccess == [writable |-> FALSE, playing |-> FALSE]
Phases == {"off", "next", "entry", "lookup", "access", "unlock", "limits", "store", "make",
           "install", "save", "done", "crashed"}

Entry == Head(entries)
NameOf(spec) == <<spec.node, spec.entry>>
Selected == Entry # NoEntry
Selector(n) == Node[n].selectors[1]

(* The name of an entry in the cache. For an integer it is made and not    *)
(* used: the node's own name takes its place.                              *)
CacheName(n, e) == <<n, IF Node[n].kind = "integer" THEN NoEntry ELSE e>>

(* gst_pylon_query_access of a feature: writable now or later.             *)
MayBeWritten(n) == IsWritable(settings, locked, n) \/ CanLaterBeWritable[n]

(* A control that locks another one comes before it. Only then does the    *)
(* search reach every combination and restore every value.                 *)
Locks(a, b) == \E v \in Values(PowerOn, a) :
                 IsWritable(PowerOn, 0, b) # IsWritable([PowerOn EXCEPT ![a] = v], 0, b)
GoodOrders ==
  { o \in Orders :
      \A i, j \in DOMAIN o :
        /\ \E n \in Nodes : {o[i], o[j]} \subseteq Controls[n]
        /\ Locks(o[i], o[j])
        => i < j }

(* The selector is written first if the limits of a number are asked for;  *)
(* the other kinds are made without it.                                    *)
SelectEntry(n) ==
  IF IsNumeric(n) /\ Selected THEN [settings EXCEPT ![Selector(n)] = Entry] ELSE settings

(* The type of an enumeration has the values that can be set now.          *)
RegisteredValues(n) == Settable(settings, locked, n)

(* GObject refuses a number whose default is outside its limits, and an    *)
(* enumeration whose default is not one of the values registered for it.   *)
ValidDefault(n, default) ==
  /\ IsNumeric(n) => limits.min <= default /\ default <= limits.max
  /\ Node[n].kind = "enumeration" => default \in RegisteredValues(n)

(* A cache with the properties of one more feature.                        *)
Stored(map, name, props) ==
  [m \in DOMAIN map \union {name} |-> IF m = name THEN props ELSE map[m]]

(* The cache a process starts with, and what it leaves: CreateCacheFile    *)
(* replaces the whole file at once, or fails, which is only a warning.     *)
LoadCacheFile == file
SavedFile == IF modified THEN {dict, file} ELSE {file}

-----------------------------------------------------------------------------

Init ==
  /\ settings = PowerOn /\ locked = 0 /\ failures = 0
  /\ InitSearch
  /\ phase = "off" /\ worklist = <<>> /\ node = Root /\ entries = <<>> /\ specs = <<>>
  /\ properties = <<>> /\ nprop = 1
  /\ flags = NoAccess
  /\ dict = <<>> /\ modified = FALSE /\ file = <<>> /\ foreign = <<>>
  /\ sessions = 0 /\ clean = TRUE /\ skipped = {}

(* A process opens the camera and makes the class of its features: the     *)
(* default user set is loaded, the cache file is read.                     *)
Start ==
  /\ phase \in {"off", "done", "crashed"}
  /\ sessions < MaxSessions
  /\ sessions' = sessions + 1
  /\ settings' = PowerOn /\ locked' = 0
  /\ order' \in Orders
  /\ clean' = (clean /\ order' \in GoodOrders) /\ skipped' = {}
  /\ dict' = LoadCacheFile /\ modified' = FALSE
  /\ phase' = "next" /\ worklist' = <<Root>>
  /\ entries' = <<>> /\ specs' = <<>> /\ properties' = <<>> /\ nprop' = 1
  /\ search' = "idle" /\ target' = NoNode
  /\ saved' = <<>> /\ extremes' = <<>> /\ step' = 0 /\ position' = 1
  /\ mins' = {} /\ maxs' = {} /\ limits' = NoLimits
  /\ flags' = NoAccess
  /\ UNCHANGED <<failures, node, file, foreign>>

(* The next node of the worklist: a feature is handled, unless             *)
(* process_selector_features throws; the features of a category are        *)
(* appended.                                                               *)
NextNode ==
  /\ phase = "next"
  /\ worklist # <<>>
  /\ LET n == Head(worklist)
         handled == IsInstallable(n) /\ ~SelectorsRefused(n)
     IN  /\ worklist' = Tail(worklist) \o (IF IsWalked(n) THEN Node[n].children ELSE <<>>)
         /\ node' = n
         /\ phase' = IF handled THEN "entry" ELSE "next"
         /\ entries' = IF handled THEN Entries(n) ELSE <<>>
  /\ specs' = <<>>
  /\ UNCHANGED <<camera, searching, failures, flags, properties, nprop, cache, history>>

(* make_param of an entry.                                                 *)
BeginEntry ==
  /\ phase = "entry"
  /\ entries # <<>>
  /\ settings' = SelectEntry(node)
  /\ phase' = IF IsNumeric(node) THEN "lookup" ELSE "access"
  /\ UNCHANGED <<locked, searching, failures, worklist, node, entries, specs, properties,
                 nprop, flags, cache, history>>

(* GetIntProps, GetDoubleProps.                                            *)
LookUp ==
  /\ phase = "lookup"
  /\ LET name == CacheName(node, Entry)
     IN  IF name \in DOMAIN dict
         THEN /\ limits' = dict[name].limits
              /\ flags' = dict[name].flags
              /\ phase' = "make"
         ELSE /\ phase' = "access"
              /\ UNCHANGED <<limits, flags>>
  /\ UNCHANGED <<camera, order, search, target, saved, extremes, step, position, mins, maxs,
                 failures, worklist, node, entries, specs, properties, nprop, cache, history>>

AfterAccess == IF IsNumeric(node) THEN "limits" ELSE "make"

(* What can be written now is tried again with TLParamsLocked set.         *)
QueryAccess ==
  /\ phase = "access"
  /\ flags' = [writable |-> MayBeWritten(node), playing |-> FALSE]
  /\ IF IsWritable(settings, locked, node)
     THEN locked' = 1 /\ phase' = "unlock"
     ELSE UNCHANGED locked /\ phase' = AfterAccess
  /\ UNCHANGED <<settings, searching, failures, worklist, node, entries, specs, properties,
                 nprop, cache, history>>

Unlock ==
  /\ phase = "unlock"
  /\ flags' = [flags EXCEPT !.playing = IsWritable(settings, locked, node)]
  /\ locked' = 0
  /\ phase' = AfterAccess
  /\ UNCHANGED <<settings, searching, failures, worklist, node, entries, specs, properties,
                 nprop, cache, history>>

(* gst_pylon_find_limits, if no search is needed.                          *)
FindLimits ==
  /\ phase = "limits"
  /\ search = "idle"
  /\ LimitsDirect(node) \/ LimitsKnown(node)
  /\ phase' = "store"
  /\ UNCHANGED <<camera, failures, worklist, node, entries, specs, properties, nprop, flags,
                 cache, history>>

(* gst_pylon_find_limits, step by step.                                    *)
Search ==
  /\ phase = "limits"
  /\ \/ search = "idle" /\ SaveSettings(node)
     \/ ApplyExtreme
     \/ MeasureLimits
     \/ TakeExtremes
     \/ ResetValue
  /\ clean' = (clean /\ failures' = failures)
  /\ UNCHANGED <<walk, flags, cache, sessions, skipped>>

FinishSearch ==
  /\ phase = "limits"
  /\ SearchEnds
  /\ phase' = "store"
  /\ UNCHANGED <<worklist, node, entries, specs, properties, nprop, flags, cache, history>>

(* SetIntProps, SetDoubleProps.                                            *)
StoreProps ==
  /\ phase = "store"
  /\ dict' = Stored(dict, CacheName(node, Entry), [limits |-> limits, flags |-> flags])
  /\ modified' = TRUE
  /\ phase' = "make"
  /\ UNCHANGED <<camera, searching, failures, worklist, node, entries, specs, properties, nprop,
                 flags, file, foreign, history>>

(* The GParamSpec, with the present value as the default: "Property        *)
(* creation failed" without one, and the entry is skipped.                 *)
MakeSpec ==
  /\ phase = "make"
  /\ LET default == Value(settings, node)
         spec == [node |-> node, entry |-> Entry, flags |-> flags,
                  limits |-> IF IsNumeric(node) THEN limits ELSE NoLimits]
     IN  IF ValidDefault(node, default)
         THEN specs' = Append(specs, spec) /\ UNCHANGED skipped
         ELSE skipped' = skipped \union {<<node, Entry>>} /\ UNCHANGED specs
  /\ entries' = Tail(entries)
  /\ phase' = "entry"
  /\ UNCHANGED <<camera, searching, failures, worklist, node, properties, nprop, flags, cache,
                 sessions, clean>>

(* A call to the camera throws while an entry is handled: the entry is     *)
(* skipped, and the camera stays as it is.                                 *)
EntryThrows ==
  /\ phase \in {"entry", "access", "unlock", "limits", "make"}
  /\ entries # <<>>
  /\ failures < MaxFailures
  /\ failures' = failures + 1
  /\ clean' = FALSE
  /\ skipped' = skipped \union {<<node, Entry>>}
  /\ SearchThrows
  /\ entries' = Tail(entries)
  /\ phase' = "entry"
  /\ UNCHANGED <<camera, order, target, saved, extremes, step, position, mins, maxs, limits,
                 worklist, node, specs, properties, nprop, flags, cache, sessions>>

(* No specs at all is an exception that only the log sees.                 *)
FinishNode ==
  /\ phase = "entry"
  /\ entries = <<>>
  /\ phase' = IF specs = <<>> THEN "next" ELSE "install"
  /\ UNCHANGED <<camera, searching, failures, worklist, node, entries, specs, properties, nprop,
                 flags, cache, history>>

(* Seeded bug: a feature of two categories is installed twice.             *)
InstallSpec_Unchecked ==
  /\ phase = "install"
  /\ LET spec == Head(specs)
         known == FALSE
     IN  IF known
         THEN UNCHANGED <<properties, nprop>>
         ELSE /\ properties' = Append(properties, [id |-> nprop, spec |-> spec])
              /\ nprop' = nprop + 1
  /\ specs' = Tail(specs)
  /\ phase' = IF Tail(specs) = <<>> THEN "next" ELSE "install"
  /\ UNCHANGED <<camera, searching, failures, worklist, node, entries, flags, cache, history>>

(* Seeded bug: a spec that was installed stays in the list.                *)
InstallSpec_KeepsSpec ==
  /\ phase = "install"
  /\ LET spec == Head(specs)
         known == \E i \in DOMAIN properties : NameOf(properties[i].spec) = NameOf(spec)
     IN  IF known
         THEN UNCHANGED <<properties, nprop>>
         ELSE /\ properties' = Append(properties, [id |-> nprop, spec |-> spec])
              /\ nprop' = nprop + 1
  /\ UNCHANGED specs
  /\ UNCHANGED phase
  /\ UNCHANGED <<camera, searching, failures, worklist, node, entries, flags, cache, history>>

(* gst_pylon_camera_install_specs: a property that is there already, from  *)
(* another category of the feature, is dropped.                            *)
InstallSpec ==
  /\ phase = "install"
  /\ LET spec == Head(specs)
         known == \E i \in DOMAIN properties : NameOf(properties[i].spec) = NameOf(spec)
     IN  IF known
         THEN UNCHANGED <<properties, nprop>>
         ELSE /\ properties' = Append(properties, [id |-> nprop, spec |-> spec])
              /\ nprop' = nprop + 1
  /\ specs' = Tail(specs)
  /\ phase' = IF Tail(specs) = <<>> THEN "next" ELSE "install"
  /\ UNCHANGED <<camera, searching, failures, worklist, node, entries, flags, cache, history>>

(* The end of the walk: HasNewSettings.                                    *)
Finish ==
  /\ phase = "next"
  /\ worklist = <<>>
  /\ phase' = "done"
  /\ file' \in SavedFile
  /\ UNCHANGED <<camera, searching, failures, worklist, node, entries, specs, properties, nprop,
                 flags, dict, modified, foreign, history>>

(* The process ends before the walk does, for any reason.                  *)
Crash ==
  /\ phase \notin {"off", "done", "crashed"}
  /\ phase' = "crashed"
  /\ UNCHANGED <<camera, searching, failures, worklist, node, entries, specs, properties, nprop,
                 flags, cache, history>>

(* A controlling enumeration had no value to be set to: the dereferenced   *)
(* end of the empty vector is a null pointer.                              *)
SearchCrashes ==
  /\ phase = "limits"
  /\ NothingMeasured
  /\ phase' = "crashed"
  /\ UNCHANGED <<camera, searching, failures, worklist, node, entries, specs, properties, nprop,
                 flags, cache, history>>

-----------------------------------------------------------------------------
(* The reference: what the limits and the access of an entry are, with the *)
(* controlling features in any setting the camera accepts and the others   *)
(* as the default user set has them.                                       *)

SettingsFor(n, e) == IF e = NoEntry THEN PowerOn ELSE [PowerOn EXCEPT ![Selector(n)] = e]

SettingsOf(n, e) ==
  { s \in Settings :
      \A m \in DOMAIN PowerOn :
        IF m \in Controls[n] THEN s[m] \in Values(s, m) ELSE s[m] = SettingsFor(n, e)[m] }

(* The limits of a feature over some settings, and over all that count.    *)
LimitsOver(S, n) ==
  [min |-> Min({LimitsIn(s, n).min : s \in S}), max |-> Max({LimitsIn(s, n).max : s \in S})]

TrueLimits(n, e) == LimitsOver(SettingsOf(n, e), n)

TrueAccess(n, e) ==
  LET s == SettingsFor(n, e)
  IN  [writable |-> IsWritable(s, 0, n) \/ CanLaterBeWritable[n],
       playing |-> IsWritable(s, 0, n) /\ IsWritable(s, 1, n)]

Names == UNION { {n} \X ToSet(Entries(n)) :
                   n \in {m \in Nodes : IsInstallable(m) /\ ~SelectorsRefused(m)} }

NumericNames == {name \in Names : IsNumeric(name[1])}

(* The numbers whose limits the code takes from a list of names instead of *)
(* asking the camera, and those it searches.                               *)
ByName(n) == Invalidators(n) # {} /\ Node[n].shortcut # NoLimits
NeedsSearch(n) == Invalidators(n) # {} /\ Node[n].shortcut = NoLimits

(* The numbers whose limits the code asks of the camera and caches under a *)
(* name of their own: not those it has by name, and not the integers       *)
(* behind a selector, which share one name for all of its entries.         *)
OwnNames ==
  { name \in NumericNames :
      ~ByName(name[1]) /\ (Node[name[1]].kind = "integer" => name[2] = NoEntry) }

(* A setting the search can reach: each control at one of its extremes,    *)
(* and willing to go there as soon as the controls that lock it are where  *)
(* they are to be.                                                         *)
IsCorner(n, e, s) ==
  /\ s \in SettingsOf(n, e)
  /\ \A c \in Controls[n] :
       /\ s[c] \in ToSet(ExtremesIn(SettingsFor(n, e), 0, c))
       /\ \A t \in SettingsOf(n, e) :
            (\A a \in Controls[n] : Locks(a, c) => t[a] = s[a])
            => IsWritable(t, 0, c) /\ s[c] \in Values(t, c)

(* A feature that is at its smallest and at its largest with every control *)
(* at one of its extremes, as gst_pylon_find_limits takes it to be. One    *)
(* that is not searched has but one setting that counts.                   *)
CornersTell(n, e) ==
  NeedsSearch(n) =>
    \E low, high \in Settings :
      /\ IsCorner(n, e, low) /\ IsCorner(n, e, high)
      /\ LimitsIn(low, n).min = TrueLimits(n, e).min
      /\ LimitsIn(high, n).max = TrueLimits(n, e).max

(* What may be kept of a number: the limits it has over all settings, or,  *)
(* where the extremes do not tell, those it has over some of them.         *)
RightLimits(n, e) ==
  IF CornersTell(n, e) THEN {TrueLimits(n, e)}
  ELSE { LimitsOver(S, n) : S \in (SUBSET SettingsOf(n, e)) \ {{}} }

Truth ==
  UNION { { <<name, [limits |-> l, flags |-> TrueAccess(name[1], name[2])]>> :
              l \in RightLimits(name[1], name[2]) } : name \in NumericNames }

(* The features that control another one.                                  *)
Controlling == UNION {Controls[n] : n \in Nodes}

(* The entries of a selector are values it accepts; another process caches *)
(* what it found of a number.                                              *)
ASSUME NamesAssumption ==
  /\ \A name \in Names : name[2] # NoEntry =>
       \A s \in Settings : [s EXCEPT ![Selector(name[1])] = name[2]] \in Settings
  /\ ForeignNames \subseteq OwnNames
  /\ MaxSessions \in Nat

(* The cameras on which the writes of a search can be undone: a control    *)
(* is a feature whose value the camera keeps, which is one it can have, no *)
(* selector and behind none, and it accepts the value it had at first      *)
(* unless one of the controls driven with it, and which locks it, has      *)
(* another value than at first. An order is one of all nodes.              *)
ASSUME ControlsAssumption ==
  /\ Controlling \subseteq DOMAIN PowerOn
  /\ \A s \in Settings, c \in Controlling : Value(s, c) = s[c] /\ s[c] \in Values(s, c)
  /\ \A c \in Controlling : Node[c].selectors = <<>>
  /\ \A n \in Nodes : Controlling \intersect ToSet(Node[n].selectors) = {}
  /\ \A n \in Nodes, s \in Settings : \A c \in Controls[n] :
       (\A a \in Controlling : s[a] # PowerOn[a] => a \in Controls[n] /\ ~Locks(a, c))
       => IsWritable(s, 0, c) /\ PowerOn[c] \in Values(s, c)
  /\ \A o \in Orders : o \in Seq(Nodes) /\ Controlling \subseteq ToSet(o)

(* What the camera says of a feature is up to its controls and to its own  *)
(* selector, whatever the selectors of other features are at.              *)
ASSUME FeaturesAssumption ==
  \A n \in Nodes, s, t \in Settings :
    (\A m \in (Controlling \union ToSet(Node[n].selectors)) \intersect DOMAIN PowerOn : s[m] = t[m])
    => /\ Values(s, n) = Values(t, n)
       /\ \A l \in {0, 1} : IsWritable(s, l, n) = IsWritable(t, l, n)

(* Where the selectors are says nothing of where the controls can be.      *)
ASSUME SelectorsAssumption ==
  \A s, t \in Settings :
    [m \in DOMAIN PowerOn |-> IF m \in Controlling THEN s[m] ELSE t[m]] \in Settings

-----------------------------------------------------------------------------
(* Another process with a camera of the same model. Its walk is not        *)
(* followed: it read the file at some time, and writes it with an entry it *)
(* has found, over what has been written to it since.                      *)

ForeignLoads ==
  /\ foreign # file
  /\ foreign' = file
  /\ UNCHANGED <<camera, searching, failures, walk, flags, dict, modified, file, history>>

ForeignSaves ==
  \E known \in Truth :
    /\ known[1] \in ForeignNames \ DOMAIN foreign
    /\ file' = Stored(foreign, known[1], known[2])
    /\ foreign' = file'
    /\ UNCHANGED <<camera, searching, failures, walk, flags, dict, modified, history>>

-----------------------------------------------------------------------------

Walk ==
  \/ NextNode \/ BeginEntry \/ LookUp \/ QueryAccess \/ Unlock
  \/ FindLimits \/ Search \/ FinishSearch \/ SearchCrashes
  \/ StoreProps \/ MakeSpec \/ EntryThrows
  \/ FinishNode \/ InstallSpec \/ Finish

Next == Start \/ Walk \/ Crash \/ ForeignLoads \/ ForeignSaves

(* Fairness: the thread that makes the class runs. Nothing is assumed of   *)
(* the application and of the other process.                               *)
Spec == Init /\ [][Next]_vars /\ WF_vars(Walk)

-----------------------------------------------------------------------------

TypeOK ==
  /\ settings \in Settings
  /\ locked \in {0, 1}
  /\ order \in Orders
  /\ search \in {"idle", "apply", "reset"}
  /\ phase \in Phases
  /\ worklist \in Seq(Nodes) /\ node \in Nodes
  /\ step \in Nat /\ position \in Nat \ {0}
  /\ limits.min \in Int /\ limits.max \in Int /\ limits.min <= limits.max
  /\ nprop \in Nat \ {0}
  /\ DOMAIN file \subseteq {CacheName(m[1], m[2]) : m \in NumericNames}
  /\ modified \in BOOLEAN /\ clean \in BOOLEAN
  /\ skipped \subseteq Names
  /\ sessions \in 0..MaxSessions /\ failures \in 0..MaxFailures

(* A search that has seen all combinations has found the limits.           *)
SearchedLimitsAreTrue == search = "reset" => limits \in RightLimits(node, Entry)

(* Unless a call to the camera failed or the addresses put a control       *)
(* before one that locks it, a number whose limits are asked of the camera *)
(* and cached under a name of its own has the access the camera gives it,  *)
(* and exactly the limits it can ever have if it has these with its        *)
(* controls at their extremes; otherwise those it has in some of the       *)
(* settings. So it is whether they were searched, read directly or cached, *)
(* by this process, an earlier one that may have died, or another one that *)
(* writes the same file.                                                   *)
LimitsAreTrue ==
  clean =>
    /\ SearchedLimitsAreTrue
    /\ \A name \in OwnNames \intersect DOMAIN dict : <<name, dict[name]>> \in Truth
    /\ \A name \in OwnNames \intersect DOMAIN file : <<name, file[name]>> \in Truth
    /\ \A i \in DOMAIN properties :
         LET spec == properties[i].spec
         IN  NameOf(spec) \in OwnNames =>
               <<NameOf(spec), [limits |-> spec.limits, flags |-> spec.flags]>> \in Truth

(* gst_pylon_find_limits takes the smallest element of a vector without    *)
(* asking whether it has one. In whatever state the camera is, it has none *)
(* only if a controlling enumeration is locked at that very moment.        *)
EmptyVectorHasCause ==
  NothingMeasured =>
    \E c \in Controls[target] :
      Node[c].kind = "enumeration" /\ ~IsWritable(settings, locked, c)

(* Under the same condition the walk leaves no trace in the camera apart   *)
(* from the selectors: between two features every control has its value    *)
(* of before and the transport layer is unlocked, so that no feature is    *)
(* measured in a state another one was driven to.                          *)
SettingsRestored ==
  clean /\ search = "idle" /\ phase \notin {"unlock", "crashed"} =>
    /\ locked = 0
    /\ \A n \in Nodes : \A c \in Controls[n] : Value(settings, c) = Value(PowerOn, c)

(* The categories the walk reaches from the root.                          *)
Reached ==
  LET More[i \in 0..Cardinality(Nodes)] ==
        IF i = 0 THEN {Root}
        ELSE LET before == More[i - 1]
             IN  before \union UNION {ToSet(Node[c].children) : c \in {d \in before : IsWalked(d)}}
  IN  More[Cardinality(Nodes)]

(* A walk that comes to its end has made a property of every entry of      *)
(* every feature it can reach, apart from those that failed themselves,    *)
(* each once although a feature may be in several categories, with         *)
(* consecutive numbers.                                                    *)
EveryFeatureOnce ==
  phase = "done" =>
    /\ {NameOf(properties[i].spec) : i \in DOMAIN properties} \union skipped
         = {name \in Names : name[1] \in Reached}
    /\ \A i, j \in DOMAIN properties :
         NameOf(properties[i].spec) = NameOf(properties[j].spec) => i = j
    /\ \A i \in DOMAIN properties : properties[i].id = i

(* The same of the integers behind a selector too: each entry of the       *)
(* selector has limits of its own.                                         *)
EntryHasOwnLimits ==
  clean =>
    \A i \in DOMAIN properties :
      LET spec == properties[i].spec
      IN  IsNumeric(spec.node) /\ ~ByName(spec.node) =>
            \E known \in Truth : known[1] = NameOf(spec) /\ known[2].limits = spec.limits

(* The walk ends, although it keeps no list of the nodes it has seen and   *)
(* meets some of them again.                                               *)
WalkEnds == (phase = "next") ~> (phase \in {"done", "crashed"})
==============================================================================
