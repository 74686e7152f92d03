--------------------------- MODULE SelectionProofs ---------------------------
(***************************************************************************)
(* For any pods, policies and defaults: which containers are watched does  *)
(* not depend on the order in which the pod lists them, what is dropped    *)
(* could never trip, what is selected is watched or warned about, and an   *)
(* override concerns its own container only.                               *)
(***************************************************************************)
EXTENDS Selection, WellFoundedInduction, TLAPS

-----------------------------------------------------------------------------
\* The choice of containers as a set of containers.

\* The regular containers and the native sidecars.
Candidates(t) == ToSet(t.containers) \cup {c \in ToSet(t.inits) : c.always}

Beats(c, d) == c.limit > d.limit \/ (c.limit = d.limit /\ c.name <= d.name)

\* The highest limit wins, then the lower name.
Highest(cands) ==
    {c \in cands : c.limit > 0 /\ \A d \in cands : Beats(c, d)}

\* What SelectTargets picks, said without positions.
Choice(t, s) ==
    LET cands == Candidates(t)
        named == {c \in cands : c.name = t.default}
    IN  IF s.containers = <<>>
        THEN IF named # {} THEN named ELSE Highest(cands)
        ELSE IF s.containers = <<Star>> THEN cands
        ELSE {c \in cands : c.name \in ToSet(s.containers)}

\* The least position.
LEMMA MinNat ==
    ASSUME NEW T, T \subseteq Nat, T # {}
    PROVE  Min(T) \in T
<1> DEFINE R == OpToRel(<, Nat)
<1>1. IsWellFoundedOn(R, Nat)
  BY NatLessThanWellFounded
<1>2. \A x, y \in Nat : x < y => <<x, y>> \in R
  BY DEF OpToRel
<1> HIDE DEF R
<1>3. PICK x \in T : \A y \in T : <<y, x>> \notin R
  BY <1>1, WFMin
<1>4. ASSUME NEW y \in T PROVE x <= y
  <2>1. ~ (y < x)
    BY <1>2, <1>3
  <2> QED
    BY <2>1
<1>5. \E z \in T : \A y \in T : z <= y
  BY <1>4
<1> QED
  BY <1>5 DEF Min

\* A template with the names of its containers all different.
Distinct(t) ==
    \A c, d \in ToSet(t.containers) \cup ToSet(t.inits) :
        c.name = d.name => c = d

\* The positions of the candidates hold the candidates.
LEMMA CandidatesAt ==
    ASSUME NEW t \in Template
    PROVE  /\ candidates(t) \subseteq Nat
           /\ {all(t)[i] : i \in candidates(t)} = Candidates(t)
           /\ Candidates(t) \subseteq Container
           /\ Candidates(t) \subseteq ToSet(t.containers) \cup ToSet(t.inits)
<1> DEFINE a == t.containers
           b == t.inits
<1>1. a \in Seq(Container) /\ b \in Seq(Container)
  BY DEF Template
<1> HIDE DEF a, b
<1>2. /\ DOMAIN (a \o b) = 1 .. (Len(a) + Len(b))
      /\ Len(a) \in Nat /\ Len(b) \in Nat
      /\ \A i \in 1 .. Len(a) : (a \o b)[i] = a[i]
      /\ \A i \in 1 .. Len(b) : (a \o b)[Len(a) + i] = b[i]
  BY <1>1
<1>3. /\ ToSet(a) = {a[i] : i \in 1 .. Len(a)}
      /\ ToSet(b) = {b[i] : i \in 1 .. Len(b)}
  BY <1>1 DEF ToSet
<1>4. \A i \in 1 .. (Len(a) + Len(b)) :
         i > Len(a) => /\ i - Len(a) \in 1 .. Len(b)
                       /\ (a \o b)[i] = b[i - Len(a)]
  BY <1>2
<1> DEFINE at == {i \in DOMAIN (a \o b) : i <= Len(a) \/ (a \o b)[i].always}
<1>5. \A i \in at : (a \o b)[i] \in ToSet(a) \cup {c \in ToSet(b) : c.always}
  BY <1>2, <1>3, <1>4
<1>6. ASSUME NEW c \in ToSet(a) \cup {c \in ToSet(b) : c.always}
      PROVE  \E i \in at : (a \o b)[i] = c
  <2>1. CASE c \in ToSet(a)
    BY <2>1, <1>2, <1>3
  <2>2. CASE c \in ToSet(b) /\ c.always
    <3>1. PICK j \in 1 .. Len(b) : c = b[j]
      BY <2>2, <1>3
    <3>2. Len(a) + j \in at /\ (a \o b)[Len(a) + j] = c
      BY <2>2, <3>1, <1>2
    <3> QED
      BY <3>2
  <2> QED
    BY <1>6, <2>1, <2>2
<1>7. {(a \o b)[i] : i \in at} = ToSet(a) \cup {c \in ToSet(b) : c.always}
  BY <1>5, <1>6
<1>8. at \subseteq Nat
  BY <1>2
<1>9. ToSet(a) \subseteq Container /\ ToSet(b) \subseteq Container
  BY <1>1, <1>3
<1> HIDE DEF at
<1>10. candidates(t) = at /\ all(t) = a \o b
  BY DEF candidates, all, at, a, b
<1> QED
  BY <1>7, <1>8, <1>9, <1>10 DEF Candidates, a, b

\* Selected does not need the positions.
LEMMA SelectedIsChoice ==
    ASSUME NEW t \in Template, Distinct(t), NEW s
    PROVE  Selected(t, s) = Choice(t, s)
<1> DEFINE C == candidates(t)
           f == all(t)
           named == {i \in C : f[i].name = t.default}
           best == {i \in C : f[i].limit > 0 /\ \A j \in C : Beats(f[i], f[j])}
           named2 == {c \in Candidates(t) : c.name = t.default}
           listed == {i \in C : f[i].name \in ToSet(s.containers)}
<1>1. /\ C \subseteq Nat
      /\ \A i \in C : f[i] \in Candidates(t)
      /\ \A c \in Candidates(t) : \E i \in C : f[i] = c
  BY CandidatesAt
<1>2. \A c, d \in Candidates(t) : c.name = d.name => c = d
  BY CandidatesAt DEF Distinct
<1> HIDE DEF C, f
<1>3. ASSUME named # {}
      PROVE  {f[i] : i \in {Min(named)}} = named2 /\ named2 # {}
  <2>1. Min(named) \in named
    BY <1>1, <1>3, MinNat
  <2>2. f[Min(named)] \in named2
    BY <1>1, <2>1
  <2>3. \A c \in named2 : c = f[Min(named)]
    BY <1>1, <1>2, <2>1
  <2> QED
    BY <2>2, <2>3
<1>4. named = {} => named2 = {}
  BY <1>1
<1>5. {f[i] : i \in best} = Highest(Candidates(t))
  BY <1>1 DEF Highest
<1>6. {f[i] : i \in C} = Candidates(t)
  BY <1>1
<1>7. {f[i] : i \in listed}
         = {c \in Candidates(t) : c.name \in ToSet(s.containers)}
  BY <1>1
<1>8. defaultContainer(t, C) = IF named # {} THEN {Min(named)} ELSE best
  BY DEF defaultContainer, Beats, f
<1>9. {f[i] : i \in defaultContainer(t, C)}
         = IF named2 # {} THEN named2 ELSE Highest(Candidates(t))
  BY <1>3, <1>4, <1>5, <1>8
<1> HIDE DEF named, best, named2, listed
<1>10. CASE s.containers = <<>>
  BY <1>9, <1>10 DEF Selected, Choice, C, f, named2
<1>11. CASE s.containers # <<>> /\ s.containers = <<Star>>
  BY <1>6, <1>11 DEF Selected, Choice, C, f
<1>12. CASE s.containers # <<>> /\ s.containers # <<Star>>
  BY <1>7, <1>12 DEF Selected, Choice, C, f, listed
<1> QED
  BY <1>10, <1>11, <1>12

-----------------------------------------------------------------------------
\* The pod and the policy of every reachable state.

SelectionInv ==
    /\ template \in Templates
    /\ spec \in PolicySpec
    /\ pods \in Fleets
    /\ WatchedOrWarned

\* What the assumption says of the template.
LEMMA GoodTemplate ==
    ASSUME template \in Templates
    PROVE  template \in Template /\ Distinct(template)
BY SelectionAssumption DEF Distinct

\* The effective detection of a container has every field set but the cap.
LEMMA Resolved ==
    ASSUME spec \in PolicySpec, NEW n \in Names
    PROVE  ForContainer(spec, n) \in Detection
<1>1. ASSUME NEW base \in Detection, NEW s \in DetectionSpec
      PROVE  resolveDetection(base, s) \in Detection
  <2>1. DOMAIN base = {"mode", "percent", "absolute", "window", "minGrowth"}
    BY DEF Detection
  <2> QED
    BY <2>1, SelectionAssumption
    DEF Detection, DetectionSpec, resolveDetection
<1>2. spec.detection \in DetectionSpec /\ spec.overrides[n] \in DetectionSpec
  BY SelectionAssumption DEF PolicySpec
<1> QED
  BY <1>1, <1>2, SelectionAssumption DEF ForContainer

\* What is selected are containers of the pod.
LEMMA SelectedContainers ==
    ASSUME template \in Templates
    PROVE  Selected(template, spec) \subseteq Container
BY GoodTemplate, CandidatesAt, SelectedIsChoice DEF Choice, Highest

LEMMA InitHolds == Init => SelectionInv
<1> SUFFICES ASSUME Init PROVE SelectionInv
  OBVIOUS
<1>1. <<>> \in Lists /\ Unset \in DetSpecs
  BY SelectionAssumption
<1>2. spec \in PolicySpec
  BY <1>1 DEF Init, PolicySpec
<1> QED
  BY <1>2 DEF Init, SelectionInv, WatchedOrWarned

\* A walk to the end watches or warns about every eligible pod.
LEMMA ScanHolds == SelectionInv /\ Scan => SelectionInv'
<1> SUFFICES ASSUME SelectionInv, Scan PROVE SelectionInv'
  OBVIOUS
<1>1. UNCHANGED <<template, spec, pods>>
  BY DEF Scan
<1>2. CASE scanned' = FALSE
  BY <1>1, <1>2 DEF SelectionInv, WatchedOrWarned
<1>3. CASE scanned' # FALSE
  <2>1. warned' = warned \cup Unmonitorable(Len(pods) + 1)
    BY <1>3 DEF Scan
  <2>2. pods \in Seq(Pod)
    BY SelectionAssumption DEF SelectionInv
  <2>3. DOMAIN pods = 1 .. (Len(pods) + 1 - 1)
    BY <2>2
  <2>4. ASSUME Selected(template, spec) # {}, NEW i \in DOMAIN pods,
               Eligible(pods[i])
        PROVE  i \in warned' \/ \E name \in Names : <<i, name>> \in Watched
    <3>1. CASE SelectTargets(template, spec) = {}
      <4>1. Dropped(template, spec) # {}
        BY <2>4, <3>1 DEF Dropped
      <4> QED
        BY <2>1, <2>3, <2>4, <3>1, <4>1 DEF Unmonitorable
    <3>2. CASE SelectTargets(template, spec) # {}
      <4>1. PICK c \in SelectTargets(template, spec) : TRUE
        BY <3>2
      <4>2. c.name \in Names
        BY <4>1, SelectedContainers
        DEF SelectTargets, SelectionInv, Container
      <4>3. <<i, c.name>> \in Watched
        BY <2>4, <4>1 DEF Watched
      <4> QED
        BY <4>2, <4>3
    <3> QED
      BY <3>1, <3>2
  <2>5. Watched' = Watched /\ Selected(template, spec)' = Selected(template, spec)
    BY <1>1 DEF Watched, Selected, SelectTargets
  <2>6. \A i \in DOMAIN pods : Eligible(pods[i])' <=> Eligible(pods[i])
    BY <1>1 DEF Eligible
  <2>7. WatchedOrWarned'
    BY <1>1, <2>4, <2>5, <2>6 DEF WatchedOrWarned
  <2> QED
    BY <1>1, <2>7 DEF SelectionInv
<1> QED
  BY <1>2, <1>3

\* Every other step makes the last walk one of the past.
LEMMA NextHolds == SelectionInv /\ [Next]_vars => SelectionInv'
<1> SUFFICES ASSUME SelectionInv, [Next]_vars PROVE SelectionInv'
  OBVIOUS
<1>1. CASE Scan
  BY <1>1, ScanHolds
<1>2. CASE ScanFails
  BY <1>2 DEF ScanFails, SelectionInv, WatchedOrWarned
<1>3. ASSUME NEW new \in PolicySpec, Edit(new)
      PROVE  SelectionInv'
  BY <1>3 DEF Edit, SelectionInv, WatchedOrWarned
<1>4. CASE EditList \/ EditDetection \/ EditOverride
  <2>1. \A l \in Lists : [spec EXCEPT !.containers = l] \in PolicySpec
    BY DEF SelectionInv, PolicySpec
  <2>2. \A d \in DetSpecs : [spec EXCEPT !.detection = d] \in PolicySpec
    BY DEF SelectionInv, PolicySpec
  <2>3. \A n \in Names, d \in DetSpecs :
           [spec EXCEPT !.overrides[n] = d] \in PolicySpec
    BY DEF SelectionInv, PolicySpec
  <2> QED
    BY <1>3, <1>4, <2>1, <2>2, <2>3 DEF EditList, EditDetection, EditOverride
<1>5. CASE Churn
  BY <1>5 DEF Churn, SelectionInv, WatchedOrWarned
<1>6. CASE UNCHANGED vars
  <2>1. UNCHANGED <<template, spec, pods, warned, scanned>>
    BY <1>6 DEF vars
  <2>2. Watched' = Watched /\ Selected(template, spec)' = Selected(template, spec)
    BY <2>1 DEF Watched, Selected, SelectTargets
  <2>3. \A i \in DOMAIN pods : Eligible(pods[i])' <=> Eligible(pods[i])
    BY <2>1 DEF Eligible
  <2> QED
    BY <2>1, <2>2, <2>3 DEF SelectionInv, WatchedOrWarned
<1> QED
  BY <1>1, <1>2, <1>4, <1>5, <1>6 DEF Next

LEMMA SelectionInvariance == Spec => []SelectionInv
<1>1. Init => SelectionInv
  BY InitHolds
<1>2. SelectionInv /\ [Next]_vars => SelectionInv'
  BY NextHolds
<1> QED
  BY <1>1, <1>2, PTL DEF Spec

\* After a walk over all pods, every eligible pod of which the policy selects a
\* container has a monitored one or got its PodUnmonitorable warning, whatever
\* was scanned, warned about, edited and replaced before.
THEOREM WarnedTheorem == Spec => []WatchedOrWarned
<1>1. SelectionInv => WatchedOrWarned
  BY DEF SelectionInv
<1> QED
  BY <1>1, SelectionInvariance, PTL

-----------------------------------------------------------------------------
\* The order of the containers.

\* A turned list has the same members.
LEMMA TurnedMembers ==
    ASSUME NEW s \in Seq(Container)
    PROVE  Reverse(s) \in Seq(Container) /\ ToSet(Reverse(s)) = ToSet(s)
<1> DEFINE n == Len(s)
           r == Reverse(s)
<1>1. n \in Nat /\ DOMAIN s = 1 .. n /\ s \in [1 .. n -> Container]
  BY DEF n
<1>2. r = [i \in 1 .. n |-> s[(n - i) + 1]]
  BY DEF Reverse, r, n
<1> HIDE DEF n, r
<1>3. \A i \in 1 .. n : (n - i) + 1 \in 1 .. n /\ (n - ((n - i) + 1)) + 1 = i
  BY <1>1
<1>4. r \in [1 .. n -> Container]
  BY <1>1, <1>2, <1>3
<1>5. r \in Seq(Container)
  BY <1>1, <1>4
<1>6. DOMAIN r = 1 .. n
  BY <1>4
<1>7. \A i \in 1 .. n : r[i] = s[(n - i) + 1] /\ s[i] = r[(n - i) + 1]
  BY <1>2, <1>3
<1>8. \A i \in 1 .. n : r[i] \in ToSet(s) /\ s[i] \in ToSet(r)
  BY <1>1, <1>3, <1>6, <1>7 DEF ToSet
<1>9. ToSet(r) = ToSet(s)
  BY <1>1, <1>6, <1>8 DEF ToSet
<1> QED
  BY <1>5, <1>9 DEF r

\* Which containers are watched does not depend on the order in which the pod
\* lists them (defaultContainer's "deterministic name-sort tiebreak").
THEOREM OrderTheorem == Spec => []OrderIrrelevant
<1>1. SelectionInv => OrderIrrelevant
  <2> SUFFICES ASSUME SelectionInv PROVE OrderIrrelevant
    OBVIOUS
  <2> DEFINE turned == [template EXCEPT !.containers = Reverse(@),
                                        !.inits = Reverse(@)]
  <2>1. template \in Template /\ Distinct(template)
    BY GoodTemplate DEF SelectionInv
  <2>2. /\ turned.containers = Reverse(template.containers)
        /\ turned.inits = Reverse(template.inits)
        /\ turned.default = template.default
    BY <2>1 DEF Template
  <2>3. /\ Reverse(template.containers) \in Seq(Container)
        /\ ToSet(Reverse(template.containers)) = ToSet(template.containers)
    BY <2>1, TurnedMembers DEF Template
  <2>4. /\ Reverse(template.inits) \in Seq(Container)
        /\ ToSet(Reverse(template.inits)) = ToSet(template.inits)
    BY <2>1, TurnedMembers DEF Template
  <2>5. turned \in Template
    BY <2>1, <2>3, <2>4 DEF Template
  <2> HIDE DEF turned
  <2>6. Distinct(turned)
    BY <2>1, <2>2, <2>3, <2>4 DEF Distinct
  <2>7. Choice(turned, spec) = Choice(template, spec)
    BY <2>2, <2>3, <2>4 DEF Choice, Candidates
  <2>8. Selected(turned, spec) = Selected(template, spec)
    BY <2>1, <2>5, <2>6, <2>7, SelectedIsChoice
  <2> QED
    BY <2>8 DEF OrderIrrelevant, SelectTargets, turned
<1> QED
  BY <1>1, SelectionInvariance, PTL

\* Without a list the policy watches a single container, even where limits tie
\* ("picks the single default container").
SingleDefault ==
    spec.containers = <<>> =>
        \A c, d \in Selected(template, spec) : c = d

THEOREM SingleTheorem == Spec => []SingleDefault
<1>1. SelectionInv => SingleDefault
  <2> SUFFICES ASSUME SelectionInv, spec.containers = <<>>,
                      NEW c \in Selected(template, spec),
                      NEW d \in Selected(template, spec)
               PROVE  c = d
    BY DEF SingleDefault
  <2>1. template \in Template /\ Distinct(template)
    BY GoodTemplate DEF SelectionInv
  <2>2. /\ c \in Choice(template, spec) /\ d \in Choice(template, spec)
        /\ Selected(template, spec) \subseteq Container
    BY <2>1, SelectedIsChoice, SelectedContainers DEF SelectionInv
  <2>3. /\ c \in Candidates(template) /\ d \in Candidates(template)
        /\ \/ c.name = template.default /\ d.name = template.default
           \/ Beats(c, d) /\ Beats(d, c)
    BY <2>2 DEF Choice, Highest
  <2>4. c.limit \in Nat /\ d.limit \in Nat /\ c.name \in Nat /\ d.name \in Nat
    BY <2>2, SelectionAssumption DEF Container
  <2>5. c.name = d.name
    BY <2>3, <2>4 DEF Beats
  <2> QED
    BY <2>1, <2>3, <2>5, CandidatesAt DEF Distinct
<1> QED
  BY <1>1, SelectionInvariance, PTL

-----------------------------------------------------------------------------
\* SelectTargets and exceeds agree.

\* A limit counts from the full percentage on.
LEMMA FullPercentage ==
    ASSUME NEW l \in Nat, NEW p \in Nat
    PROVE  (l * p) * 100 >= l * p
<1>1. l * p \in Nat
  OBVIOUS
<1>2. \A x \in Nat : x * 100 >= x
  OBVIOUS
<1> QED
  BY <1>1, <1>2

\* A selected container is dropped exactly if no working set could exceed its
\* threshold.
THEOREM DroppedTheorem == Spec => []DroppedCannotTrip
<1>1. SelectionInv => DroppedCannotTrip
  <2> SUFFICES ASSUME SelectionInv, NEW c \in Selected(template, spec)
               PROVE  LET det == ForContainer(spec, c.name)
                          top == IF det.absolute = None
                                 THEN c.limit * det.percent ELSE det.absolute
                      IN  c \in SelectTargets(template, spec) <=>
                             exceeds([time |-> 0, workingSet |-> top,
                                      limit |-> c.limit], det)
    BY DEF DroppedCannotTrip
  <2> DEFINE det == ForContainer(spec, c.name)
  <2>1. c.name \in Names /\ c.limit \in Nat
    BY SelectedContainers DEF SelectionInv, Container
  <2>2. det.percent \in Nat /\ det.absolute \in Nat \cup {None}
    BY <2>1, Resolved DEF SelectionInv, Detection
  <2>3. c \in SelectTargets(template, spec)
            <=> c.limit > 0 \/ det.absolute # None
    BY DEF SelectTargets, Monitorable
  <2>4. (c.limit * det.percent) * 100 >= c.limit * det.percent
    BY <2>1, <2>2, FullPercentage
  <2> HIDE DEF det
  <2>5. CASE det.absolute = None
    BY <2>3, <2>4, <2>5 DEF exceeds, det
  <2>6. CASE det.absolute # None
    BY <2>2, <2>3, <2>6 DEF exceeds, det
  <2> QED
    BY <2>5, <2>6
<1> QED
  BY <1>1, SelectionInvariance, PTL

-----------------------------------------------------------------------------
\* An override concerns its own container.

\* Editing the override of one container leaves what is watched of the others,
\* and how, alone.
THEOREM OverrideTheorem == Spec => OverrideIsLocal
<1> DEFINE Local ==
        spec'.containers = spec.containers /\ spec'.detection = spec.detection
        =>
        \A c \in ToSet(all(template)) :
            spec'.overrides[c.name] = spec.overrides[c.name]
                => Watch(spec', c) = Watch(spec, c)
<1>1. Local
  <2> SUFFICES ASSUME spec'.containers = spec.containers,
                      spec'.detection = spec.detection,
                      NEW c \in ToSet(all(template)),
                      spec'.overrides[c.name] = spec.overrides[c.name]
               PROVE  Watch(spec', c) = Watch(spec, c)
    OBVIOUS
  <2>1. ForContainer(spec', c.name) = ForContainer(spec, c.name)
    BY DEF ForContainer
  <2>2. Selected(template, spec') = Selected(template, spec)
    BY DEF Selected
  <2>3. c \in SelectTargets(template, spec')
            <=> c \in SelectTargets(template, spec)
    BY <2>1, <2>2 DEF SelectTargets, Monitorable
  <2> QED
    BY <2>1, <2>3 DEF Watch
<1>2. [Local]_vars
  BY <1>1
<1> QED
  BY <1>2, PTL DEF OverrideIsLocal, Local
=============================================================================
