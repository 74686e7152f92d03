------------------------------ MODULE Selection ------------------------------
(***************************************************************************)
(* Which containers of which pods a policy watches: the overlay of the     *)
(* policy's spec on the controller's defaults (internal/config/config.go), *)
(* the choice of containers (internal/controller/selection.go) and the     *)
(* reconciler's walk over the pods of a workload, with the owner and       *)
(* revision checks of internal/restart/restart.go.                         *)
(*                                                                         *)
(* A container name is a number, ordered like the names.  The verdict of   *)
(* LeakDetector's Detect on a watched container is chosen by the           *)
(* environment; Sampling models where it comes from.                       *)
(***************************************************************************)
EXTENDS LeakDetector, SequencesExt

CONSTANTS
    Star,          \* the list element "*"
    Names,         \* container names
    Default,       \* the controller-wide Detection, from the flags
    Templates,     \* choices for the pod template
    Lists,         \* choices for spec.containers
    DetSpecs,      \* choices for spec.detection and an override's detection
    Fleets         \* choices for the pods that match the workload's selector

Container == [name : Names, limit : Nat, always : BOOLEAN]
Template  == [containers : Seq(Container), inits : Seq(Container),
              default : Names \cup {None}]

\* What a pod's owner references and status say about it.
Pod == [ready : BOOLEAN, grown : BOOLEAN, owner : {"own", "other", "none"},
        current : BOOLEAN]

\* spec.detection; an unset field (zero value or nil) is None.
DetectionSpec ==
    [mode : DetectionModes \cup {None}, percent : Nat \cup {None},
     absolute : Nat \cup {None}, window : Nat \cup {None},
     minGrowth : Nat \cup {None}]
Unset == [f \in DOMAIN Default |-> None]

\* The API server rejects a pod in which two containers share a name.
ASSUME SelectionAssumption ==
    /\ None \notin Nat
    /\ Names \subseteq Nat
    /\ Default \in Detection
    /\ Templates \subseteq Template
    /\ \A t \in Templates : \A c, d \in ToSet(t.containers) \cup ToSet(t.inits) :
            c.name = d.name => c = d
    /\ Lists \subseteq Seq(Names \cup {Star}) /\ <<>> \in Lists
    /\ DetSpecs \subseteq DetectionSpec /\ Unset \in DetSpecs
    /\ Fleets \subseteq Seq(Pod)

-----------------------------------------------------------------------------
\* The effective configuration.

\* Set fields of s replace those of base.
resolveDetection(base, s) ==
    [f \in DOMAIN base |-> IF s[f] = None THEN base[f] ELSE s[f]]

\* Variant: an override of any container applies.
ForContainerAny(spec, name) ==
    LET set == {n \in Names : spec.overrides[n] # Unset}
    IN  resolveDetection(resolveDetection(Default, spec.detection),
                         IF set = {} THEN Unset ELSE spec.overrides[Min(set)])

\* The detection of a container: its override on the policy's on the default.
ForContainer(spec, name) ==
    resolveDetection(resolveDetection(Default, spec.detection),
                     spec.overrides[name])

-----------------------------------------------------------------------------
\* The choice of containers.

\* The pod's containers; the regular ones come first.
all(t) == t.containers \o t.inits

\* Positions of the regular containers and of the native sidecars.
candidates(t) ==
    {i \in DOMAIN all(t) : i <= Len(t.containers) \/ all(t)[i].always}

\* Variant: among equal limits the first in the pod wins.
defaultContainerFirst(t, cands) ==
    LET named == {i \in cands : all(t)[i].name = t.default}
        best  == {i \in cands :
                    /\ all(t)[i].limit > 0
                    /\ \A j \in cands : all(t)[i].limit >= all(t)[j].limit}
    IN  IF named # {} THEN {Min(named)}
        ELSE IF best # {} THEN {Min(best)} ELSE {}

\* The first candidate that the annotation names, else the one of the highest
\* limit, by name among equals; none if no candidate has a limit.
defaultContainer(t, cands) ==
    LET named == {i \in cands : all(t)[i].name = t.default}
        beats(c, d) == \/ c.limit > d.limit
                       \/ c.limit = d.limit /\ c.name <= d.name
    IN  IF named # {} THEN {Min(named)}
        ELSE {i \in cands : /\ all(t)[i].limit > 0
                            /\ \A j \in cands : beats(all(t)[i], all(t)[j])}

\* The order of the selected containers is left out: a walk stops at the first
\* pod with a leak, and any of its leaking containers may be the one reported.
Selected(t, spec) ==
    LET cands  == candidates(t)
        chosen == IF spec.containers = <<>> THEN defaultContainer(t, cands)
                  ELSE IF spec.containers = <<Star>> THEN cands
                  ELSE {i \in cands : all(t)[i].name \in ToSet(spec.containers)}
    IN  {all(t)[i] : i \in chosen}

\* Variant: only a limit counts.
MonitorableByLimit(c, spec) == c.limit > 0

\* A container needs a limit or an absolute cap to be monitored.
Monitorable(c, spec) ==
    c.limit > 0 \/ ForContainer(spec, c.name).absolute # None

SelectTargets(t, spec) == {c \in Selected(t, spec) : Monitorable(c, spec)}

Dropped(t, spec) == Selected(t, spec) \ SelectTargets(t, spec)

-----------------------------------------------------------------------------

VARIABLES
    template,   \* the workload's pod template
    spec,       \* the policy's spec
    pods,       \* the pods its selector matches
    warned,     \* warnedUnmonitorable: pods that got their warning
    breach,     \* the pod and container the last scan found leaking
    scanned     \* the last step was a scan of every pod

vars == <<template, spec, pods, warned, breach, scanned>>

PolicySpec == [containers : Lists, detection : DetSpecs,
               overrides : [Names -> DetSpecs]]

Init ==
    /\ template \in Templates
    /\ spec = [containers |-> <<>>, detection |-> Unset,
               overrides |-> [n \in Names |-> Unset]]
    /\ pods \in Fleets
    /\ warned = {}
    /\ breach = None
    /\ scanned = FALSE

\* The gates before a pod's containers are looked at.
Eligible(pod) ==
    /\ pod.ready /\ pod.grown
    /\ pod.owner # "none"
    /\ pod.current

\* Variant: the last pod of the walk is missed.
UnmonitorableShort(stop) ==
    {i \in 1 .. (stop - 2) : /\ Eligible(pods[i])
                             /\ SelectTargets(template, spec) = {}
                             /\ Dropped(template, spec) # {}}

\* Pods before `stop` that are eligible but cannot be monitored.
Unmonitorable(stop) ==
    {i \in 1 .. (stop - 1) : /\ Eligible(pods[i])
                             /\ SelectTargets(template, spec) = {}
                             /\ Dropped(template, spec) # {}}

\* Every container the walk would hand to Detect.
Watched ==
    {i \in DOMAIN pods : Eligible(pods[i])}
        \X {c.name : c \in SelectTargets(template, spec)}

\* Walk the pods until one has a leaking container.
Scan ==
    /\ \E leaking \in SUBSET Watched :
        \/ /\ leaking = {}
           /\ warned' = warned \cup Unmonitorable(Len(pods) + 1)
           /\ breach' = None
           /\ scanned' = TRUE
        \/ LET first == Min({hit[1] : hit \in leaking})
           IN  /\ leaking # {}
               /\ warned' = warned \cup Unmonitorable(first)
               /\ breach' \in {hit \in leaking : hit[1] = first}
               /\ scanned' = FALSE
    /\ UNCHANGED <<template, spec, pods>>

\* The owner of a pod cannot be read: the walk ends there.
ScanFails ==
    \E i \in DOMAIN pods :
        /\ pods[i].ready /\ pods[i].grown /\ pods[i].owner # "none"
        /\ warned' = warned \cup Unmonitorable(i)
        /\ breach' = None
        /\ scanned' = FALSE
        /\ UNCHANGED <<template, spec, pods>>

Edit(new) ==
    /\ new # spec
    /\ spec' = new
    /\ breach' = None
    /\ scanned' = FALSE
    /\ UNCHANGED <<template, pods, warned>>

EditList == \E l \in Lists : Edit([spec EXCEPT !.containers = l])
EditDetection == \E d \in DetSpecs : Edit([spec EXCEPT !.detection = d])
EditOverride ==
    \E n \in Names, d \in DetSpecs : Edit([spec EXCEPT !.overrides[n] = d])

\* Other pods, with UIDs of their own.
Churn ==
    /\ pods' \in Fleets \ {pods}
    /\ warned' = {}
    /\ breach' = None
    /\ scanned' = FALSE
    /\ UNCHANGED <<template, spec>>

Next == Scan \/ ScanFails \/ EditList \/ EditDetection \/ EditOverride \/ Churn

Spec == Init /\ [][Next]_vars

-----------------------------------------------------------------------------

\* Which containers are watched does not depend on the order in which the pod
\* lists them (defaultContainer's "deterministic name-sort tiebreak").
OrderIrrelevant ==
    LET turned == [template EXCEPT !.containers = Reverse(@),
                                   !.inits = Reverse(@)]
    IN  SelectTargets(template, spec) = SelectTargets(turned, spec)

\* SelectTargets and exceeds agree: a selected container is dropped exactly if
\* no working set could exceed its threshold.
DroppedCannotTrip ==
    \A c \in Selected(template, spec) :
        LET det == ForContainer(spec, c.name)
            top == IF det.absolute = None THEN c.limit * det.percent
                   ELSE det.absolute
        IN  c \in SelectTargets(template, spec) <=>
                exceeds([time |-> 0, workingSet |-> top, limit |-> c.limit], det)

\* What is watched of a container, and how.
Watch(s, c) ==
    <<c \in SelectTargets(template, s), ForContainer(s, c.name)>>

\* Editing the override of one container leaves what is watched of the others
\* and how alone, and a default choice stays on its container.
OverrideIsLocal ==
    [][/\ spec'.containers = spec.containers
       /\ spec'.detection = spec.detection
       =>
       \A c \in ToSet(all(template)) :
            spec'.overrides[c.name] = spec.overrides[c.name]
                => Watch(spec', c) = Watch(spec, c)]_vars

\* An opt-in without effect is visible: after a walk over all pods, whatever
\* was scanned, warned about and edited before, every eligible pod of which
\* the policy selects some container has a monitored one or got its
\* PodUnmonitorable warning.
WatchedOrWarned ==
    scanned /\ Selected(template, spec) # {} =>
        \A i \in DOMAIN pods :
            Eligible(pods[i]) =>
                i \in warned \/ \E name \in Names : <<i, name>> \in Watched
=============================================================================
