-------------------------- MODULE ControllerProofs --------------------------
(***************************************************************************)
(* For every set of policies and workloads and every value of the limits:  *)
(* TypeOK, MarkerMatchesHistory, BreakerRespected and CapRespected hold in *)
(* every reachable state of Controller, by the inductive invariant IInv;   *)
(* and so does what builds on it: the order of the UIDs, whom a slot       *)
(* belongs to, and in which mode a restart is sent.                        *)
(***************************************************************************)
EXTENDS ControllerRefines, SequenceTheorems, FiniteSetTheorems, TLAPS

-----------------------------------------------------------------------------
\* What the status functions of breaker.go preserve: the type of the status, the
\* agreement of in-flight marker and history, and the bounds on the breaker's
\* count and the history.

\* Cutting the history keeps its newest record (ApplyRestart's slice).
LEMMA NewestKeepsLast ==
    ASSUME NEW h \in Seq(RestartRecord), NEW r \in RestartRecord,
           NEW g, g = Newest(Append(h, r))
    PROVE  /\ g \in Seq(RestartRecord)
           /\ Len(g) > 0
           /\ Len(g) <= HistoryLimit
           /\ g[Len(g)] = r
<1> DEFINE a == Append(h, r)
           n == Len(a)
<1>1. a \in Seq(RestartRecord) /\ n = Len(h) + 1 /\ n \in Nat /\ a[n] = r
  OBVIOUS
<1>2. HistoryLimit \in Nat /\ HistoryLimit > 0
  BY StatusAssumption
<1>3. CASE n > HistoryLimit
  <2>4. g = SubSeq(a, n - HistoryLimit + 1, n)
    BY <1>3 DEF Newest
  <2>1. n = Len(a) /\ n - HistoryLimit + 1 \in 1..n
    BY <1>1, <1>2, <1>3
  <2> HIDE DEF a, n
  <2>2. g \in Seq(RestartRecord) /\ Len(g) = HistoryLimit
    BY <1>1, <1>2, <2>1, <2>4, SubSeqProperties
  <2>3. g[HistoryLimit] = a[n]
    BY <1>1, <1>2, <2>1, <2>2, <2>4
  <2> QED
    BY <1>1, <1>2, <2>2, <2>3
<1>4. CASE ~(n > HistoryLimit)
  <2>1. g = a
    BY <1>4 DEF Newest
  <2> QED
    BY <1>1, <1>2, <1>4, <2>1
<1> QED
  BY <1>3, <1>4

\* A fresh status is well-typed and its marker agrees with its history.
LEMMA InitStatusOK ==
    /\ InitStatus \in Status
    /\ MarkerAgrees(InitStatus)
    /\ BreakerBounded(InitStatus)
  BY StatusAssumption, BasicsAssumption
  DEF InitStatus, Status, MarkerAgrees, BreakerBounded, Uid, OptTime, Version,
      Time

\* ApplyRestart makes a status whose marker names its last, open record.
LEMMA ApplyRestartOK ==
    ASSUME NEW st \in Status, NEW ver \in Version, NEW instant \in Time
    PROVE  /\ ApplyRestart(st, ver, instant) \in Status
           /\ MarkerAgrees(ApplyRestart(st, ver, instant))
<1> DEFINE r == [at |-> instant, version |-> ver, outcome |-> "InProgress"]
           g == Newest(Append(st.history, r))
           ar == ApplyRestart(st, ver, instant)
<1>1. st.history \in Seq(RestartRecord) /\ r \in RestartRecord
  BY DEF Status, RestartRecord, Outcomes
<1>2. g \in Seq(RestartRecord) /\ Len(g) > 0 /\ g[Len(g)] = r
  <2>1. g = Newest(Append(st.history, r))
    OBVIOUS
  <2> HIDE DEF g, r
  <2> QED
    BY <1>1, <2>1, NewestKeepsLast
<1>3. ar.history = g /\ ar.inFlight = [at |-> instant, version |-> ver]
  <2> DEFINE m == [at |-> instant, version |-> ver]
             c == IF sameWindow(st, ver, instant) THEN st.restartCount + 1 ELSE 1
             b == IF sameWindow(st, ver, instant) THEN st.windowStart ELSE instant
  <2>1. ar = [st EXCEPT !.restartCount = c, !.windowStart = b,
                !.lastRestartAt = instant, !.version = ver, !.history = g,
                !.inFlight = m, !.rolling = TRUE]
    BY DEF ApplyRestart
  <2> HIDE DEF ar, g, m, c, b
  <2>2. ar.history = g /\ ar.inFlight = m
    BY <2>1 DEF Status
  <2> QED
    BY <2>2 DEF m
<1>4. ar \in Status
  <2> DEFINE same == sameWindow(st, ver, instant)
             count == IF same THEN st.restartCount + 1 ELSE 1
             start == IF same THEN st.windowStart ELSE instant
  <2>1. count \in Nat /\ start \in OptTime /\ instant \in OptTime
    BY DEF Status, OptTime, Time
  <2>2. [at |-> instant, version |-> ver] \in Marker \cup {None}
    BY DEF Marker
  <2>3. ar = [st EXCEPT !.restartCount = count, !.windowStart = start,
                !.lastRestartAt = instant, !.version = ver, !.history = g,
                !.inFlight = [at |-> instant, version |-> ver], !.rolling = TRUE]
    BY DEF ApplyRestart
  <2> HIDE DEF same, count, start, ar, g
  <2> QED
    BY <1>2, <2>1, <2>2, <2>3 DEF Status
<1>5. ar.inFlight # None
  BY <1>3, StatusAssumption DEF Marker
<1> QED
  BY <1>2, <1>3, <1>4, <1>5 DEF MarkerAgrees

\* CompleteInFlight with a terminal outcome closes the record of the marker
\* it drops.
LEMMA CompleteInFlightOK ==
    ASSUME NEW st \in Status, NEW outcome \in Terminal
    PROVE  /\ CompleteInFlight(st, outcome) \in Status
           /\ MarkerAgrees(CompleteInFlight(st, outcome))
<1> DEFINE h == st.history
           n == Len(h)
           c == CompleteInFlight(st, outcome)
<1>1. h \in Seq(RestartRecord) /\ n \in Nat
  BY DEF Status
<1>2. outcome \in Outcomes /\ outcome # "InProgress"
  BY DEF Terminal
<1>3. CASE n > 0 /\ h[n].outcome = "InProgress"
  <2> DEFINE g == [h EXCEPT ![n] = [h[n] EXCEPT !.outcome = outcome]]
  <2>1. n \in 1..n /\ DOMAIN h = 1..n /\ h[n] \in RestartRecord
    BY <1>1, <1>3
  <2>2. [h[n] EXCEPT !.outcome = outcome] \in RestartRecord
    BY <2>1, <1>2 DEF RestartRecord
  <2>3. g \in Seq(RestartRecord) /\ Len(g) = n /\ g[n].outcome = outcome
    BY <1>1, <2>1, <2>2 DEF RestartRecord
  <2>4. c = [st EXCEPT !.history = g, !.inFlight = None, !.rolling = FALSE]
    BY <1>3 DEF CompleteInFlight
  <2>5. c \in Status /\ c.history = g /\ c.inFlight = None
    BY <2>3, <2>4 DEF Status
  <2> QED
    BY <1>2, <2>3, <2>5 DEF MarkerAgrees
<1>4. CASE ~(n > 0 /\ h[n].outcome = "InProgress")
  <2>1. c = [st EXCEPT !.history = h, !.inFlight = None, !.rolling = FALSE]
    BY <1>4 DEF CompleteInFlight
  <2>2. c \in Status /\ c.history = h /\ c.inFlight = None
    BY <1>1, <2>1 DEF Status
  <2> QED
    BY <1>1, <1>4, <2>2 DEF MarkerAgrees
<1> QED
  BY <1>3, <1>4

\* Refreshing the printer columns touches neither marker nor history.
LEMMA RecomputeOK ==
    ASSUME NEW st \in Status, NEW instant \in Time
    PROVE  /\ RecomputeObservability(st, instant) \in Status
           /\ MarkerAgrees(st) => MarkerAgrees(RecomputeObservability(st, instant))
<1> DEFINE ro == RecomputeObservability(st, instant)
<1>1. ro \in Status
  <2> DEFINE active == st.windowStart # None /\ instant < st.windowStart + Window
             tripped == /\ MaxRestarts > 0
                        /\ active
                        /\ st.restartCount >= MaxRestarts
             remaining == IF active
                          THEN IF MaxRestarts > st.restartCount
                               THEN MaxRestarts - st.restartCount ELSE 0
                          ELSE MaxRestarts
             eligible == IF st.lastRestartAt # None
                         THEN st.lastRestartAt + Cooldown ELSE st.nextEligible
  <2>1. tripped \in BOOLEAN
    OBVIOUS
  <2>2. remaining \in Nat
    BY StatusAssumption DEF Status
  <2>3. eligible \in OptTime
    BY StatusAssumption DEF Status, OptTime, Time
  <2>4. ro = [st EXCEPT !.tripped = tripped, !.remaining = remaining,
                        !.nextEligible = eligible]
    BY DEF RecomputeObservability
  <2> HIDE DEF active, tripped, remaining, eligible, ro
  <2> QED
    BY <2>1, <2>2, <2>3, <2>4 DEF Status
<1>2. ro.history = st.history /\ ro.inFlight = st.inFlight
  BY DEF RecomputeObservability, Status
<1> QED
  BY <1>1, <1>2 DEF MarkerAgrees

\* Adopting a UID keeps marker and history together or drops both.
LEMMA AdoptOK ==
    ASSUME NEW st \in Status, NEW uid \in Uid
    PROVE  /\ AdoptWorkload(st, uid) \in Status
           /\ MarkerAgrees(st) => MarkerAgrees(AdoptWorkload(st, uid))
<1> DEFINE ad == AdoptWorkload(st, uid)
<1>1. ad \in Status
  <2>1. CASE st.uid # 0 /\ st.uid # uid
    <3>1. ad = [st EXCEPT !.uid = uid, !.lastRestartAt = None,
                    !.restartCount = 0, !.windowStart = None,
                    !.version = None, !.inFlight = None, !.history = <<>>]
      BY <2>1 DEF AdoptWorkload
    <3>2. <<>> \in Seq(RestartRecord) /\ None \in OptTime /\ None \in Version
      BY DEF OptTime, Version
    <3> HIDE DEF ad
    <3> QED
      BY <3>1, <3>2 DEF Status
  <2>2. CASE ~(st.uid # 0 /\ st.uid # uid)
    <3>1. ad = [st EXCEPT !.uid = uid]
      BY <2>2 DEF AdoptWorkload
    <3> HIDE DEF ad
    <3> QED
      BY <3>1 DEF Status
  <2> QED
    BY <2>1, <2>2
<1>2. \/ ad.history = st.history /\ ad.inFlight = st.inFlight
      \/ ad.history = <<>> /\ ad.inFlight = None
  BY DEF AdoptWorkload, Status
<1> QED
  BY <1>1, <1>2 DEF MarkerAgrees

\* Recording the mode touches neither.
LEMMA ModeOK ==
    ASSUME NEW st \in Status, NEW mode \in BOOLEAN
    PROVE  /\ [st EXCEPT !.dryRun = mode] \in Status
           /\ MarkerAgrees(st) => MarkerAgrees([st EXCEPT !.dryRun = mode])
  BY DEF Status, MarkerAgrees

\* A restart that the breaker allows keeps its count within the maximum.
LEMMA ApplyRestartBounded ==
    ASSUME NEW st \in Status, NEW ver \in Version, NEW instant \in Time,
           BreakerBounded(st), ~BreakerTripped(st, ver, instant)
    PROVE  BreakerBounded(ApplyRestart(st, ver, instant))
<1> DEFINE r == [at |-> instant, version |-> ver, outcome |-> "InProgress"]
           g == Newest(Append(st.history, r))
           ar == ApplyRestart(st, ver, instant)
           same == sameWindow(st, ver, instant)
<1>1. st.history \in Seq(RestartRecord) /\ r \in RestartRecord
  BY DEF Status, RestartRecord, Outcomes
<1>2. Len(g) <= HistoryLimit
  BY <1>1, NewestKeepsLast
<1>3. /\ ar.history = g
      /\ ar.restartCount = IF same THEN st.restartCount + 1 ELSE 1
  BY DEF ApplyRestart, Status
<1>4. st.restartCount \in Nat /\ MaxRestarts \in Nat
  BY StatusAssumption DEF Status
<1>5. ASSUME MaxRestarts > 0 PROVE ar.restartCount <= MaxRestarts
  <2>1. CASE same
    <3>1. ~(st.restartCount >= MaxRestarts)
      BY <1>5, <2>1 DEF BreakerTripped
    <3> QED
      BY <1>3, <1>4, <2>1, <3>1
  <2>2. CASE ~same
    BY <1>3, <1>4, <1>5, <2>2
  <2> QED
    BY <2>1, <2>2
<1> QED
  BY <1>2, <1>3, <1>5 DEF BreakerBounded

\* The other updates never raise the count nor lengthen the history.
LEMMA UpdatesBounded ==
    ASSUME NEW st \in Status, BreakerBounded(st)
    PROVE  /\ \A outcome \in Terminal :
                  BreakerBounded(CompleteInFlight(st, outcome))
           /\ \A instant \in Time : BreakerBounded(RecomputeObservability(st, instant))
           /\ \A uid \in Uid : BreakerBounded(AdoptWorkload(st, uid))
           /\ \A mode \in BOOLEAN : BreakerBounded([st EXCEPT !.dryRun = mode])
<1>1. ASSUME NEW outcome \in Terminal
      PROVE  BreakerBounded(CompleteInFlight(st, outcome))
  <2> DEFINE c == CompleteInFlight(st, outcome)
  <2>1. st.history \in Seq(RestartRecord)
    BY DEF Status
  <2>2. c.restartCount = st.restartCount
    BY DEF CompleteInFlight, Status
  <2> DEFINE n == Len(st.history)
             g == [st.history EXCEPT ![n] =
                        [st.history[n] EXCEPT !.outcome = outcome]]
  <2>4. Len(g) = n
    BY <2>1
  <2>5. c.history = g \/ c.history = st.history
    BY DEF CompleteInFlight, Status
  <2>3. Len(c.history) = Len(st.history)
    BY <2>4, <2>5
  <2> QED
    BY <2>2, <2>3 DEF BreakerBounded
<1>2. ASSUME NEW instant \in Time
      PROVE  BreakerBounded(RecomputeObservability(st, instant))
  BY DEF RecomputeObservability, Status, BreakerBounded
<1>3. ASSUME NEW uid \in Uid
      PROVE  BreakerBounded(AdoptWorkload(st, uid))
  <2> DEFINE ad == AdoptWorkload(st, uid)
  <2>1. \/ ad.restartCount = st.restartCount /\ ad.history = st.history
        \/ ad.restartCount = 0 /\ ad.history = <<>>
    BY DEF AdoptWorkload, Status
  <2>2. MaxRestarts \in Nat /\ HistoryLimit \in Nat /\ Len(<<>>) = 0
    BY StatusAssumption
  <2> QED
    BY <2>1, <2>2 DEF BreakerBounded
<1>4. ASSUME NEW mode \in BOOLEAN
      PROVE  BreakerBounded([st EXCEPT !.dryRun = mode])
  BY DEF Status, BreakerBounded
<1> QED
  BY <1>1, <1>2, <1>3, <1>4

-----------------------------------------------------------------------------
\* Policies and statuses.

\* Toggling a flag gives a flag.
LEMMA NotBoolean == \A b \in BOOLEAN : (~b) \in BOOLEAN
  OBVIOUS

\* The empty policy, with any resourceVersion, is a good one.
LEMMA NoPolicyGood ==
    /\ NoPolicy \in GoodPolicy
    /\ \A rv \in Nat : [NoPolicy EXCEPT !.rv = rv] \in GoodPolicy
    /\ \A rv \in Nat, mode \in BOOLEAN : NewPolicy(mode, rv) \in GoodPolicy
<1>1. InitStatus \in GoodStatus
  BY InitStatusOK DEF GoodStatus
<1> QED
  BY <1>1, InitStatusOK DEF NoPolicy, NewPolicy, GoodPolicy, PolicyObject

\* Writing a good status, or changing the metadata, keeps a policy good.
LEMMA GoodPolicyUpdates ==
    ASSUME NEW pol \in GoodPolicy
    PROVE  /\ pol \in PolicyObject
           /\ pol.rv \in Nat /\ pol.dryRun \in BOOLEAN
           /\ pol.status \in GoodStatus /\ pol.status \in Status
           /\ \A st \in GoodStatus, rv \in Nat :
                [pol EXCEPT !.status = st, !.rv = rv] \in GoodPolicy
           /\ [pol EXCEPT !.finalizer = TRUE, !.rv = @ + 1] \in GoodPolicy
           /\ [pol EXCEPT !.dryRun = ~@, !.rv = @ + 1] \in GoodPolicy
           /\ [pol EXCEPT !.phase = "deleting", !.rv = @ + 1] \in GoodPolicy
<1>1. /\ pol \in PolicyObject /\ pol.status \in GoodStatus
      /\ pol.rv \in Nat /\ pol.dryRun \in BOOLEAN
  BY DEF GoodPolicy, PolicyObject
<1>2. pol.rv + 1 \in Nat
  BY <1>1
<1>8. (~pol.dryRun) \in BOOLEAN
  BY <1>1, NotBoolean
<1>3. ASSUME NEW st \in GoodStatus, NEW rv \in Nat
      PROVE  [pol EXCEPT !.status = st, !.rv = rv] \in GoodPolicy
  BY <1>1 DEF GoodPolicy, GoodStatus, PolicyObject
<1>4. [pol EXCEPT !.finalizer = TRUE, !.rv = @ + 1] \in GoodPolicy
  BY <1>1, <1>2 DEF GoodPolicy, PolicyObject
<1>5. ASSUME NEW mode \in BOOLEAN
      PROVE  [pol EXCEPT !.dryRun = mode, !.rv = @ + 1] \in GoodPolicy
  BY <1>1, <1>2 DEF GoodPolicy, PolicyObject
<1>6. [pol EXCEPT !.phase = "deleting", !.rv = @ + 1] \in GoodPolicy
  BY <1>1, <1>2 DEF GoodPolicy, PolicyObject
<1>7. pol.status \in Status
  BY <1>1 DEF GoodStatus
<1> QED
  BY <1>1, <1>2, <1>3, <1>4, <1>5, <1>6, <1>7, <1>8

\* Each status the controller writes is good if the one it read was.
LEMMA GoodWrites ==
    ASSUME NEW st \in GoodStatus
    PROVE  /\ \A outcome \in Terminal : CompleteInFlight(st, outcome) \in GoodStatus
           /\ \A t \in Time : RecomputeObservability(st, t) \in GoodStatus
           /\ \A uid \in Uid : AdoptWorkload(st, uid) \in GoodStatus
           /\ \A mode \in BOOLEAN : [st EXCEPT !.dryRun = mode] \in GoodStatus
           /\ \A ver \in Version, t \in Time :
                ~BreakerTripped(st, ver, t) => ApplyRestart(st, ver, t) \in GoodStatus
<1>1. st \in Status /\ MarkerAgrees(st) /\ BreakerBounded(st)
  BY DEF GoodStatus
<1> QED
  BY <1>1, CompleteInFlightOK, RecomputeOK, AdoptOK, ModeOK, ApplyRestartOK,
     ApplyRestartBounded, UpdatesBounded DEF GoodStatus

-----------------------------------------------------------------------------
\* Workloads.

\* Every step of an owner or a workload controller yields a workload object.
LEMMA WorkloadTypes ==
    /\ InitWorkload \in WorkloadObject
    /\ NoWorkload \in WorkloadObject
    /\ \A obj \in WorkloadObject :
          /\ Restarted(obj) \in WorkloadObject
          /\ NewTemplate(obj) \in WorkloadObject
          /\ Progressed(obj) \in WorkloadObject
          /\ Disturbed(obj) \in WorkloadObject
          /\ Deleted(obj) \in WorkloadObject
          /\ Recreated(obj) \in WorkloadObject
          /\ [obj EXCEPT !.onDelete = ~@] \in WorkloadObject
          /\ obj.uid \in Uid
          /\ \A w \in Workloads : TemplateVersion(w, obj) \in Version
<1>1. InitWorkload \in WorkloadObject /\ NoWorkload \in WorkloadObject
  BY DEF InitWorkload, NoWorkload, WorkloadObject, States
<1>2. ASSUME NEW obj \in WorkloadObject
      PROVE  /\ Restarted(obj) \in WorkloadObject
             /\ NewTemplate(obj) \in WorkloadObject
             /\ Disturbed(obj) \in WorkloadObject
             /\ Deleted(obj) \in WorkloadObject
             /\ Recreated(obj) \in WorkloadObject
  <2>1. obj.template + 1 \in Nat /\ obj.uid + 1 \in Nat
    BY DEF WorkloadObject
  <2>2. Restarted(obj) \in WorkloadObject
    BY DEF WorkloadObject, States, Restarted
  <2>3. NewTemplate(obj) \in WorkloadObject
    BY <2>1 DEF WorkloadObject, States, NewTemplate
  <2>4. Disturbed(obj) \in WorkloadObject
    BY DEF WorkloadObject, States, Disturbed
  <2>5. Deleted(obj) \in WorkloadObject
    BY DEF WorkloadObject, Deleted
  <2>6. Recreated(obj) \in WorkloadObject
    BY <2>1 DEF WorkloadObject, States, Recreated
  <2> QED
    BY <2>2, <2>3, <2>4, <2>5, <2>6
<1>3. ASSUME NEW obj \in WorkloadObject
      PROVE  Progressed(obj) \in WorkloadObject
  BY DEF WorkloadObject, States, Progressed
<1>4. ASSUME NEW obj \in WorkloadObject
      PROVE  [obj EXCEPT !.onDelete = ~@] \in WorkloadObject
  <2>1. (~obj.onDelete) \in BOOLEAN
    BY NotBoolean DEF WorkloadObject
  <2>2. ASSUME NEW b \in BOOLEAN
        PROVE  [obj EXCEPT !.onDelete = b] \in WorkloadObject
    BY DEF WorkloadObject
  <2> QED
    BY <2>1, <2>2
<1>5. ASSUME NEW obj \in WorkloadObject
      PROVE  /\ obj.uid \in Uid
             /\ \A w \in Workloads : TemplateVersion(w, obj) \in Version
  BY DEF WorkloadObject, Uid, Version, TemplateVersion
<1> QED
  BY <1>1, <1>2, <1>3, <1>4, <1>5

\* A write of a workload reaches the server and perhaps the cache.
LEMMA StoreWorkloadType ==
    ASSUME WlInv, NEW w \in Workloads, NEW obj \in WorkloadObject,
           StoreWorkload(w, obj)
    PROVE  WlInv'
  BY DEF WlInv, StoreWorkload

-----------------------------------------------------------------------------
\* The gate.

\* A gate within the cap: what GateInv says of one.
Capped(g) == g \in Gates /\ (Cap > 0 => Cardinality(Held(g)) <= Cap)

\* A gate with fewer slots than one within the cap is within the cap.
LEMMA SubGateCapped ==
    ASSUME NEW g, Capped(g), NEW f \in Gates, Held(f) \subseteq Held(g)
    PROVE  Capped(f)
<1>1. IsFiniteSet(Held(g))
  BY BasicsAssumption, FS_Subset DEF Held
<1>2. /\ IsFiniteSet(Held(f)) /\ Cardinality(Held(f)) <= Cardinality(Held(g))
      /\ Cardinality(Held(f)) \in Nat /\ Cardinality(Held(g)) \in Nat
  BY <1>1, FS_Subset, FS_CardinalityType
<1> QED
  BY <1>2, GateAssumption DEF Capped

\* Freeing slots, one or all the old ones, stays within the cap.
LEMMA ReleaseCapped ==
    ASSUME NEW g, Capped(g)
    PROVE  /\ \A w \in Workloads : Capped(Release(g, w))
           /\ \A t \in Time : Capped(ExpireOlderThan(g, t, Timeout))
           /\ Capped(EmptyGate)
<1> g \in Gates
  BY DEF Capped
<1>1. ASSUME NEW w \in Workloads
      PROVE  Release(g, w) \in Gates /\ Held(Release(g, w)) \subseteq Held(g)
  BY DEF Release, Gates, Held, Holds, OptTime
<1>2. ASSUME NEW t \in Time
      PROVE  /\ ExpireOlderThan(g, t, Timeout) \in Gates
             /\ Held(ExpireOlderThan(g, t, Timeout)) \subseteq Held(g)
  BY DEF ExpireOlderThan, Gates, Held, Holds, OptTime
<1>3. EmptyGate \in Gates /\ Held(EmptyGate) \subseteq Held(g)
  BY DEF EmptyGate, Gates, Held, Holds, OptTime
<1> QED
  BY <1>1, <1>2, <1>3, SubGateCapped

\* The count-check-and-insert of TryAcquire takes a slot only below the cap.
LEMMA TryAcquireCapped ==
    ASSUME NEW g, Capped(g), NEW w \in Workloads, NEW t \in Time
    PROVE  Capped(TryAcquire(g, w, t))
<1> DEFINE f == [g EXCEPT ![w] = t]
<1> g \in Gates
  BY DEF Capped
<1>1. CASE AcquireOutcome(g, w) # "acquired"
  BY <1>1 DEF TryAcquire
<1>2. CASE AcquireOutcome(g, w) = "acquired"
  <2>1. TryAcquire(g, w, t) = f
    BY <1>2 DEF TryAcquire
  <2>2. f \in Gates /\ Held(f) = Held(g) \cup {w}
    BY BasicsAssumption DEF Gates, Held, Holds, OptTime, Time
  <2>3. ~Holds(g, w) /\ ~(Cap > 0 /\ Cardinality(Held(g)) >= Cap)
    BY <1>2 DEF AcquireOutcome
  <2>4. IsFiniteSet(Held(g)) /\ w \notin Held(g)
    BY <2>3, BasicsAssumption, FS_Subset DEF Held
  <2>5. /\ Cardinality(Held(g)) \in Nat
        /\ Cardinality(Held(f)) = Cardinality(Held(g)) + 1
    BY <2>2, <2>4, FS_AddElement, FS_CardinalityType
  <2> QED
    BY <2>1, <2>2, <2>3, <2>5, GateAssumption DEF Capped
<1> QED
  BY <1>1, <1>2

\* GateInv in the shape of the lemmas above.
LEMMA GateInvCapped == (GateInv <=> Capped(gate)) /\ (GateInv' <=> Capped(gate'))
  BY DEF GateInv, CapRespected, Capped

-----------------------------------------------------------------------------
\* The API server.

\* A part of the invariant whose variables do not change still holds.
LEMMA UnchangedParts ==
    /\ ApiInv /\ UNCHANGED apiVars => ApiInv'
    /\ WlInv /\ UNCHANGED wlVars => WlInv'
    /\ GateInv /\ UNCHANGED gate => GateInv'
    /\ RecInv /\ UNCHANGED <<recVars, policyRef>> => RecInv'
    /\ ExpInv /\ UNCHANGED expVars => ExpInv'
<1>1. ApiInv /\ UNCHANGED apiVars => ApiInv'
  BY DEF ApiInv, apiVars
<1>2. WlInv /\ UNCHANGED wlVars => WlInv'
  BY DEF WlInv, wlVars
<1>3. GateInv /\ UNCHANGED gate => GateInv'
  BY GateInvCapped
<1>4. RecInv /\ UNCHANGED <<recVars, policyRef>> => RecInv'
  BY DEF RecInv, GuardsPassed, recVars, RecWorkload
<1>5. ExpInv /\ UNCHANGED expVars => ExpInv'
  BY DEF ExpInv, expVars
<1> QED
  BY <1>1, <1>2, <1>3, <1>4, <1>5

\* A write of a good policy keeps server and cache good.
LEMMA StoreGood ==
    ASSUME ApiInv, NEW p \in Policies, NEW pol \in GoodPolicy, Store(p, pol)
    PROVE  ApiInv' /\ UNCHANGED policyRef
  BY DEF ApiInv, Store

\* So does a metadata update, whether it succeeds, conflicts or is lost.
LEMMA UpdateGood ==
    ASSUME ApiInv, NEW p \in Policies, NEW copy, NEW pol \in GoodPolicy,
           NEW err, NEW fault, Update(p, copy, pol, err, fault)
    PROVE  ApiInv' /\ UNCHANGED policyRef
<1>1. Store(p, pol) \/ UNCHANGED apiVars
  BY DEF Update
<1>2. UNCHANGED apiVars => UNCHANGED policyRef
  BY DEF apiVars
<1> QED
  BY <1>1, <1>2, StoreGood, UnchangedParts

\* And so does Persist, also when it overwrites a status it never read.
LEMMA PersistGood ==
    ASSUME ApiInv, overwritten \subseteq Policies, NEW p \in Policies,
           NEW copy, NEW st \in GoodStatus, NEW err, NEW fault,
           Persist(p, copy, st, err, fault)
    PROVE  ApiInv' /\ UNCHANGED policyRef /\ overwritten' \subseteq Policies
<1> DEFINE pol == [policies[p] EXCEPT !.status = st, !.rv = @ + 1]
<1>1. policies[p] \in GoodPolicy
  BY DEF ApiInv
<1>2. pol = [policies[p] EXCEPT !.status = st, !.rv = policies[p].rv + 1]
  BY <1>1 DEF GoodPolicy, PolicyObject
<1>3. policies[p].rv + 1 \in Nat
  BY <1>1 DEF GoodPolicy, PolicyObject
<1>4. pol \in GoodPolicy
  BY <1>1, <1>2, <1>3, GoodPolicyUpdates
<1>5. Store(p, pol) \/ UNCHANGED apiVars
  BY DEF Persist
<1>6. overwritten' \subseteq Policies
  BY DEF Persist
<1>7. UNCHANGED apiVars => UNCHANGED policyRef
  BY DEF apiVars
<1> QED
  BY <1>4, <1>5, <1>6, <1>7, StoreGood, UnchangedParts

\* The caller's copy stays good after it persisted a good status.
LEMMA PersistedGood ==
    ASSUME ApiInv, NEW p \in Policies, NEW copy \in GoodPolicy,
           NEW st \in GoodStatus
    PROVE  Persisted(p, copy, st) \in GoodPolicy
<1> DEFINE rv == IF copy.rv = policies[p].rv THEN copy.rv + 1 ELSE copy.rv
<1>1. rv \in Nat
  BY DEF GoodPolicy, PolicyObject
<1>2. Persisted(p, copy, st) = [copy EXCEPT !.status = st, !.rv = rv]
  BY DEF Persisted, GoodPolicy, PolicyObject
<1>3. \A r \in Nat : [copy EXCEPT !.status = st, !.rv = r] \in GoodPolicy
  BY GoodPolicyUpdates
<1> HIDE DEF rv
<1> QED
  BY <1>1, <1>2, <1>3

\* The event of a write is about that policy.
LEMMA EventType == \A p \in Policies : Event(p) \subseteq Policies
  BY DEF Event

\* What the environment may still do stays a number per kind.
LEMMA ChanceType ==
    ASSUME budget \in [Chances -> Nat]
    PROVE  /\ \A c \in Chances : Chance(c) => budget' \in [Chances -> Nat]
           /\ \A fault : FaultIf(fault) => budget' \in [Chances -> Nat]
           /\ UNCHANGED budget => budget' \in [Chances -> Nat]
<1>1. ASSUME NEW c \in Chances, Chance(c)
      PROVE  budget' \in [Chances -> Nat]
  <2>1. budget[c] \in Nat /\ budget[c] > 0
    BY <1>1 DEF Chance
  <2>2. budget[c] - 1 \in Nat
    BY <2>1
  <2>3. budget' = [budget EXCEPT ![c] = budget[c] - 1]
    BY <1>1 DEF Chance
  <2> QED
    BY <2>2, <2>3
<1>2. "faults" \in Chances
  BY DEF Chances
<1> QED
  BY <1>1, <1>2 DEF FaultIf

-----------------------------------------------------------------------------
\* How a reconcile moves on.

\* The end of a reconcile.
LEMMA ReturnInv ==
    ASSUME queue \subseteq Policies, NEW keys \in SUBSET Policies, Return(keys)
    PROVE  RecInv' /\ queue' \subseteq Policies
  BY NoPolicyGood, WorkloadTypes
  DEF Return, ResetRec, RecInv, RecPCs, Time

\* The next step of the same reconcile.
LEMMA GotoInv ==
    ASSUME RecInv, recKey \in Policies, queue \subseteq Policies,
           NEW pc \in RecPCs, Goto(pc), UNCHANGED policyRef,
           pc \in {"guard", "persistRestart"} => GuardsPassed
    PROVE  RecInv' /\ queue' \subseteq Policies
  BY DEF Goto, RecInv, GuardsPassed, RecWorkload

\* A Persist in the middle of a reconcile.
LEMMA PersistThenInv ==
    ASSUME IInv, recPC # "idle", NEW st \in GoodStatus,
           NEW pc \in RecPCs \ {"guard", "persistRestart"},
           PersistThen(st, pc)
    PROVE  /\ ApiInv' /\ RecInv'
           /\ queue' \subseteq Policies
           /\ budget' \in [Chances -> Nat]
           /\ overwritten' \subseteq Policies
<1>0. /\ ApiInv /\ recKey \in Policies /\ recPol \in GoodPolicy
      /\ recWl \in WorkloadObject /\ recNow \in Time
      /\ queue \subseteq Policies /\ budget \in [Chances -> Nat]
      /\ overwritten \subseteq Policies
  BY DEF IInv, RecInv, EnvInv
<1>1. PICK err \in BOOLEAN, fault \in BOOLEAN :
        /\ FaultIf(fault)
        /\ Persist(recKey, recPol, st, err, fault)
        /\ \/ /\ err
              /\ Return({recKey})
           \/ /\ ~err
              /\ recPC' = pc
              /\ recPol' = Persisted(recKey, recPol, st)
              /\ queue' = queue \cup Event(recKey)
              /\ UNCHANGED <<recKey, recWl, recNow>>
  BY DEF PersistThen
<1>2. budget' \in [Chances -> Nat]
  BY <1>0, <1>1, ChanceType
<1>3. ApiInv' /\ overwritten' \subseteq Policies
  BY <1>0, <1>1, PersistGood
<1>4. CASE Return({recKey})
  BY <1>0, <1>2, <1>3, <1>4, ReturnInv
<1>5. CASE /\ recPC' = pc
           /\ recPol' = Persisted(recKey, recPol, st)
           /\ queue' = queue \cup Event(recKey)
           /\ UNCHANGED <<recKey, recWl, recNow>>
  <2>1. recPol' \in GoodPolicy
    BY <1>0, <1>5, PersistedGood
  <2>2. queue' \subseteq Policies
    BY <1>0, <1>5, EventType
  <2>3. RecInv'
    BY <1>0, <1>5, <2>1 DEF RecInv
  <2> QED
    BY <1>2, <1>3, <2>2, <2>3
<1> QED
  BY <1>1, <1>4, <1>5

-----------------------------------------------------------------------------
\* The steps of a reconcile.

\* What a reconcile that has begun may rely on.
LEMMA Reconciling ==
    ASSUME IInv, recPC # "idle"
    PROVE  /\ ApiInv /\ WlInv /\ GateInv /\ RecInv /\ ExpInv /\ EnvInv
           /\ recKey \in Policies /\ RecWorkload \in Workloads
           /\ {} \in SUBSET Policies /\ {recKey} \in SUBSET Policies
           /\ recPol \in GoodPolicy /\ recPol.status \in GoodStatus
           /\ recWl \in WorkloadObject /\ recNow \in Time
           /\ TemplateVersion(RecWorkload, recWl) \in Version
           /\ queue \subseteq Policies /\ overwritten \subseteq Policies
           /\ budget \in [Chances -> Nat]
           /\ \A w \in Workloads : Capped(gate) /\ Capped(Release(gate, w))
<1>1. /\ ApiInv /\ WlInv /\ GateInv /\ RecInv /\ ExpInv /\ EnvInv
      /\ recKey \in Policies
      /\ recPol \in GoodPolicy /\ recPol.status \in GoodStatus
      /\ recWl \in WorkloadObject /\ recNow \in Time
      /\ queue \subseteq Policies /\ overwritten \subseteq Policies
      /\ budget \in [Chances -> Nat]
  BY GoodPolicyUpdates DEF IInv, RecInv, EnvInv
<1>2. RecWorkload \in Workloads
  BY <1>1 DEF ApiInv, RecWorkload
<1>3. TemplateVersion(RecWorkload, recWl) \in Version
  BY <1>1, <1>2, WorkloadTypes
<1>4. \A w \in Workloads : Capped(gate) /\ Capped(Release(gate, w))
  BY <1>1, GateInvCapped, ReleaseCapped
<1> QED
  BY <1>1, <1>2, <1>3, <1>4

\* A key is taken from the queue and its policy read through the cache.
LEMMA GetPolicyInv ==
    ASSUME IInv, NEW p \in Policies, GetPolicy(p)
    PROVE  IInv'
<1>1. ApiInv' /\ WlInv' /\ GateInv' /\ ExpInv'
  BY UnchangedParts DEF IInv, GetPolicy
<1>2. EnvInv'
  BY DEF IInv, EnvInv, GetPolicy, sendVars
<1>3. RecInv'
  <2>1. CASE UNCHANGED recVars
    BY <2>1, UnchangedParts DEF IInv, GetPolicy, apiVars
  <2>2. CASE /\ recKey' = p
             /\ recPol' = policyCache[p]
             /\ recPC' \in {"finalize", "addFinalizer", "persistMode",
                            "getWorkload"}
             /\ UNCHANGED <<recWl, recNow>>
    BY <2>2 DEF IInv, RecInv, ApiInv, RecPCs
  <2> QED
    BY <2>1, <2>2 DEF GetPolicy
<1> QED
  BY <1>1, <1>2, <1>3 DEF IInv

\* Forgetting the restarts of a policy that is gone.
LEMMA ForgottenType ==
    ASSUME EnvInv, NEW p \in Policies, ForgottenIfGone(p)
    PROVE  /\ dispatches' \in [Policies -> Seq(Restart)]
           /\ overwritten' \subseteq Policies
<1>1. <<>> \in Seq(Restart)
  OBVIOUS
<1> QED
  BY <1>1 DEF EnvInv, ForgottenIfGone, Forgotten

\* The deletion path: the slot is freed, the finalizer removed.
LEMMA FinalizeInv ==
    ASSUME IInv, Finalize
    PROVE  IInv'
<1>0. recPC # "idle"
  BY DEF Finalize
<1>1. PICK err \in BOOLEAN, fault \in BOOLEAN :
        /\ FaultIf(fault)
        /\ Update(recKey, recPol, [NoPolicy EXCEPT !.rv = recPol.rv + 1],
                  err, fault)
        /\ Return(IF err THEN {recKey} ELSE Event(recKey))
  BY DEF Finalize
<1>2. ApiInv'
  <2>1. recPol.rv + 1 \in Nat
    BY <1>0, Reconciling DEF GoodPolicy, PolicyObject
  <2>2. [NoPolicy EXCEPT !.rv = recPol.rv + 1] \in GoodPolicy
    BY <2>1, NoPolicyGood
  <2> QED
    BY <1>0, <1>1, <2>2, Reconciling, UpdateGood
<1>3. RecInv' /\ queue' \subseteq Policies
  BY <1>0, <1>1, Reconciling, EventType, ReturnInv
<1>4. GateInv'
  BY <1>0, Reconciling, GateInvCapped DEF Finalize
<1>5. budget' \in [Chances -> Nat]
  BY <1>0, <1>1, Reconciling, ChanceType
<1>6. WlInv' /\ ExpInv'
  BY UnchangedParts DEF IInv, Finalize
<1>7. EnvInv'
  BY <1>0, <1>3, <1>5, Reconciling, ForgottenType
  DEF IInv, EnvInv, Finalize
<1> QED
  BY <1>2, <1>3, <1>4, <1>6, <1>7 DEF IInv

\* The finalizer is added before anything else.
LEMMA AddFinalizerInv ==
    ASSUME IInv, AddFinalizer
    PROVE  IInv'
<1>0. recPC # "idle"
  BY DEF AddFinalizer
<1> DEFINE pol == [policies[recKey] EXCEPT !.finalizer = TRUE, !.rv = @ + 1]
<1>1. PICK err \in BOOLEAN, fault \in BOOLEAN :
        /\ FaultIf(fault)
        /\ Update(recKey, recPol, pol, err, fault)
        /\ Return(IF err THEN {recKey} ELSE Event(recKey))
  BY DEF AddFinalizer
<1>2. ApiInv'
  <2>1. policies[recKey] \in GoodPolicy
    BY <1>0, Reconciling DEF ApiInv
  <2>2. pol \in GoodPolicy
    BY <2>1, GoodPolicyUpdates
  <2> QED
    BY <1>0, <1>1, <2>2, Reconciling, UpdateGood
<1>3. RecInv' /\ queue' \subseteq Policies
  BY <1>0, <1>1, Reconciling, EventType, ReturnInv
<1>5. budget' \in [Chances -> Nat]
  BY <1>0, <1>1, Reconciling, ChanceType
<1>6. WlInv' /\ ExpInv' /\ GateInv'
  BY UnchangedParts DEF IInv, AddFinalizer
<1>7. EnvInv'
  BY <1>3, <1>5 DEF IInv, EnvInv, AddFinalizer, sendVars
<1> QED
  BY <1>2, <1>3, <1>6, <1>7 DEF IInv

\* The two status writes that only prepare a reconcile: the effective mode
\* and the identity of the workload.
LEMMA PersistModeInv ==
    ASSUME IInv, PersistMode \/ PersistAdopt
    PROVE  IInv'
<1>0. recPC # "idle"
  BY DEF PersistMode, PersistAdopt
<1>1. PICK st \in GoodStatus, pc \in {"getWorkload", "settle"} :
        PersistThen(st, pc)
  <2>1. [recPol.status EXCEPT !.dryRun = recPol.dryRun] \in GoodStatus
    BY <1>0, Reconciling, GoodPolicyUpdates, GoodWrites
  <2>2. AdoptWorkload(recPol.status, recWl.uid) \in GoodStatus
    BY <1>0, Reconciling, WorkloadTypes, GoodWrites
  <2> QED
    BY <2>1, <2>2 DEF PersistMode, PersistAdopt
<1>2. pc \in RecPCs \ {"guard", "persistRestart"}
  BY DEF RecPCs
<1>3. /\ ApiInv' /\ RecInv' /\ queue' \subseteq Policies
      /\ budget' \in [Chances -> Nat] /\ overwritten' \subseteq Policies
  BY <1>0, <1>1, <1>2, PersistThenInv
<1>4. WlInv' /\ ExpInv' /\ GateInv'
  BY UnchangedParts DEF IInv, PersistMode, PersistAdopt
<1>5. EnvInv'
  BY <1>3 DEF IInv, EnvInv, PersistMode, PersistAdopt, sendVars
<1> QED
  BY <1>3, <1>4, <1>5 DEF IInv

\* The workload is resolved.
LEMMA GetWorkloadInv ==
    ASSUME IInv, GetWorkload
    PROVE  IInv'
<1>0. recPC # "idle"
  BY DEF GetWorkload
<1> DEFINE obj == workloadCache[RecWorkload]
<1>1. "faults" \in Chances
  BY DEF Chances
<1>2. CASE Return({recKey}) /\ (Chance("faults") \/ UNCHANGED budget)
  <2>1. RecInv' /\ queue' \subseteq Policies /\ budget' \in [Chances -> Nat]
    BY <1>0, <1>1, <1>2, Reconciling, ReturnInv, ChanceType
  <2> QED
    BY <2>1, UnchangedParts DEF IInv, EnvInv, GetWorkload, sendVars
<1>3. CASE /\ recWl' = obj
           /\ recNow' = now
           /\ recPC' \in {"persistAdopt", "settle"}
           /\ UNCHANGED <<recKey, recPol, queue, budget>>
  <2>1. obj \in WorkloadObject /\ now \in Time
    BY <1>0, Reconciling DEF WlInv, EnvInv
  <2>2. RecInv'
    BY <1>0, <1>3, <2>1, Reconciling DEF RecInv, RecPCs
  <2> QED
    BY <1>3, <2>2, UnchangedParts DEF IInv, EnvInv, GetWorkload, sendVars
<1> QED
  BY <1>2, <1>3 DEF GetWorkload

\* A rollout is polled, resumed, or its slot given back.
LEMMA SettleInv ==
    ASSUME IInv, Settle
    PROVE  IInv'
<1>0. recPC # "idle"
  BY DEF Settle
<1> DEFINE w == RecWorkload
           marker == recPol.status.inFlight
           isOurs == marker # None
                     /\ SameVersion(marker.version, TemplateVersion(w, recWl))
<1>1. GateInv'
  <2>1. CASE isOurs /\ gate' = TryAcquire(gate, w, marker.at)
    <3>1. marker.at \in Time
      BY <1>0, <2>1, Reconciling DEF GoodStatus, Status, Marker
    <3> QED
      BY <1>0, <2>1, <3>1, Reconciling, TryAcquireCapped, GateInvCapped
  <2>2. CASE gate' = Release(gate, w)
    BY <1>0, <2>2, Reconciling, GateInvCapped
  <2>3. CASE gate' = gate
    BY <2>3, UnchangedParts DEF IInv
  <2> QED
    BY <2>1, <2>2, <2>3 DEF Settle
<1>2. RecInv' /\ queue' \subseteq Policies
  <2>1. CASE Return({}) \/ Return({recKey})
    BY <1>0, <2>1, Reconciling, ReturnInv
  <2>2. CASE Goto("persistDone") \/ Goto("detect")
    <3>1. "persistDone" \in RecPCs /\ "detect" \in RecPCs
      BY DEF RecPCs
    <3> QED
      BY <1>0, <2>2, <3>1, Reconciling, GotoInv DEF Settle, apiVars
  <2> QED
    BY <2>1, <2>2 DEF Settle
<1>3. ApiInv' /\ WlInv' /\ ExpInv'
  BY UnchangedParts DEF IInv, Settle
<1>4. EnvInv'
  BY <1>2 DEF IInv, EnvInv, Settle, sendVars
<1> QED
  BY <1>1, <1>2, <1>3, <1>4 DEF IInv

\* The outcome of our rollout is recorded.
LEMMA PersistDoneInv ==
    ASSUME IInv, PersistDone
    PROVE  IInv'
<1>0. recPC # "idle"
  BY DEF PersistDone
<1>1. DoneStatus \in GoodStatus
  <2>1. "Settled" \in Terminal /\ "Superseded" \in Terminal
    BY DEF Terminal, Outcomes
  <2>2. \A o \in Terminal :
          RecomputeObservability(CompleteInFlight(recPol.status, o), recNow)
            \in GoodStatus
    BY <1>0, Reconciling, GoodWrites
  <2> QED
    BY <2>1, <2>2 DEF DoneStatus
<1>2. PICK err \in BOOLEAN, fault \in BOOLEAN :
        /\ FaultIf(fault)
        /\ Persist(recKey, recPol, DoneStatus, err, fault)
        /\ Return(IF err THEN {recKey} ELSE Event(recKey))
  BY DEF PersistDone
<1>3. ApiInv' /\ overwritten' \subseteq Policies
  BY <1>0, <1>1, <1>2, Reconciling, PersistGood
<1>4. RecInv' /\ queue' \subseteq Policies
  BY <1>0, <1>2, Reconciling, EventType, ReturnInv
<1>5. budget' \in [Chances -> Nat]
  BY <1>0, <1>2, Reconciling, ChanceType
<1>6. WlInv' /\ ExpInv' /\ GateInv'
  BY UnchangedParts DEF IInv, PersistDone
<1>7. EnvInv'
  BY <1>3, <1>4, <1>5 DEF IInv, EnvInv, PersistDone, sendVars
<1> QED
  BY <1>3, <1>4, <1>6, <1>7 DEF IInv

\* A leak passes the guards only if the breaker has not tripped: what the
\* reconcile then carries to PersistRestart.
LEMMA DetectInv ==
    ASSUME IInv, Detect
    PROVE  IInv'
<1>0. recPC # "idle"
  BY DEF Detect
<1>1. "faults" \in Chances
  BY DEF Chances
<1>2. CASE /\ Return({}) \/ Return({recKey})
           /\ UNCHANGED gate
           /\ Chance("faults") \/ UNCHANGED budget
  <2>1. RecInv' /\ queue' \subseteq Policies /\ budget' \in [Chances -> Nat]
    BY <1>0, <1>1, <1>2, Reconciling, ReturnInv, ChanceType
  <2> QED
    BY <1>2, <2>1, UnchangedParts DEF IInv, EnvInv, Detect, sendVars
<1>3. CASE /\ GuardsPassed
           /\ gate' = TryAcquire(gate, RecWorkload, recNow)
           /\ Goto("guard")
           /\ UNCHANGED budget
  <2>1. "guard" \in RecPCs
    BY DEF RecPCs
  <2>2. RecInv' /\ queue' \subseteq Policies
    BY <1>0, <1>3, <2>1, Reconciling, GotoInv DEF Detect, apiVars
  <2>3. GateInv'
    BY <1>0, <1>3, Reconciling, TryAcquireCapped, GateInvCapped
  <2> QED
    BY <1>3, <2>2, <2>3, UnchangedParts DEF IInv, EnvInv, Detect, sendVars
<1> QED
  BY <1>2, <1>3 DEF Detect, GuardsPassed

\* The workload is read again; the status and the version stay as they were.
LEMMA GuardInv ==
    ASSUME IInv, Guard
    PROVE  IInv'
<1>0. recPC # "idle"
  BY DEF Guard
<1>1. "faults" \in Chances
  BY DEF Chances
<1>2. CASE /\ Return({}) \/ Return({recKey})
           /\ gate' = Release(gate, RecWorkload)
           /\ Chance("faults") \/ UNCHANGED budget
  <2>1. RecInv' /\ queue' \subseteq Policies /\ budget' \in [Chances -> Nat]
    BY <1>0, <1>1, <1>2, Reconciling, ReturnInv, ChanceType
  <2>2. GateInv'
    BY <1>0, <1>2, Reconciling, GateInvCapped
  <2> QED
    BY <2>1, <2>2, UnchangedParts DEF IInv, EnvInv, Guard, sendVars
<1>3. CASE /\ Goto("dryRun") \/ Goto("persistRestart")
           /\ UNCHANGED <<gate, budget>>
  <2>1. "dryRun" \in RecPCs /\ "persistRestart" \in RecPCs
    BY DEF RecPCs
  <2>2. GuardsPassed
    BY DEF IInv, RecInv, Guard
  <2>3. RecInv' /\ queue' \subseteq Policies
    BY <1>0, <1>3, <2>1, <2>2, Reconciling, GotoInv DEF Guard, apiVars
  <2> QED
    BY <1>3, <2>3, UnchangedParts DEF IInv, EnvInv, Guard, sendVars
<1> QED
  BY <1>2, <1>3 DEF Guard

\* A dry run frees its slot.
LEMMA DryRunInv ==
    ASSUME IInv, DryRun
    PROVE  IInv'
<1>0. recPC # "idle"
  BY DEF DryRun
<1>1. RecInv' /\ queue' \subseteq Policies
  BY <1>0, Reconciling, ReturnInv DEF DryRun
<1>2. GateInv'
  BY <1>0, Reconciling, GateInvCapped DEF DryRun
<1>3. wouldRestart' \in Gates
  BY <1>0, Reconciling DEF DryRun, EnvInv, Gates, OptTime
<1> QED
  BY <1>1, <1>2, <1>3, UnchangedParts DEF IInv, EnvInv, DryRun, sendVars

\* The restart is counted: the breaker had room for it when it was checked,
\* and neither the status nor the version has changed since.
LEMMA PersistRestartInv ==
    ASSUME IInv, PersistRestart
    PROVE  IInv'
<1>0. recPC # "idle"
  BY DEF PersistRestart
<1>1. RestartStatus \in GoodStatus
  <2>1. ~BreakerTripped(recPol.status, TemplateVersion(RecWorkload, recWl),
                        recNow)
    BY DEF IInv, RecInv, GuardsPassed, PersistRestart
  <2>2. ApplyRestart(recPol.status, TemplateVersion(RecWorkload, recWl), recNow)
            \in GoodStatus
    BY <1>0, <2>1, Reconciling, GoodWrites
  <2> QED
    BY <1>0, <2>2, Reconciling, GoodWrites DEF RestartStatus
<1>2. "dispatch" \in RecPCs \ {"guard", "persistRestart"}
  BY DEF RecPCs
<1>3. /\ ApiInv' /\ RecInv' /\ queue' \subseteq Policies
      /\ budget' \in [Chances -> Nat] /\ overwritten' \subseteq Policies
  BY <1>0, <1>1, <1>2, PersistThenInv DEF PersistRestart
<1>4. GateInv'
  BY <1>0, Reconciling, GateInvCapped DEF PersistRestart
<1>5. WlInv' /\ ExpInv'
  BY UnchangedParts DEF IInv, PersistRestart
<1>6. EnvInv'
  BY <1>3 DEF IInv, EnvInv, PersistRestart, sendVars
<1> QED
  BY <1>3, <1>4, <1>5, <1>6 DEF IInv

\* A patch that lands changes the workload and is remembered.
LEMMA LandedInv ==
    ASSUME IInv, NEW p \in Policies, NEW restart \in Restart,
           Landed(p, restart)
    PROVE  /\ WlInv'
           /\ ours' \in [Workloads -> OptTime]
           /\ dispatches' \in [Policies -> Seq(Restart)]
<1>1. policyRef[p] \in Workloads
  BY DEF IInv, ApiInv
<1>2. Restarted(workloads[policyRef[p]]) \in WorkloadObject
  BY <1>1, WorkloadTypes DEF IInv, WlInv
<1>3. WlInv'
  BY <1>1, <1>2, StoreWorkloadType DEF IInv, Landed
<1>4. restart.at \in OptTime
  BY DEF Restart, OptTime
<1>5. ours' \in [Workloads -> OptTime]
  BY <1>1, <1>4 DEF IInv, EnvInv, Landed
<1>6. dispatches' \in [Policies -> Seq(Restart)]
  <2>1. dispatches[p] \in Seq(Restart)
    BY DEF IInv, EnvInv
  <2>2. Append(dispatches[p], restart) \in Seq(Restart)
    BY <2>1
  <2> QED
    BY <2>2 DEF IInv, EnvInv, Landed
<1> QED
  BY <1>3, <1>5, <1>6

\* The restart a reconcile is about to trigger.
LEMMA OurRestartType ==
    ASSUME IInv, recPC # "idle"
    PROVE  OurRestart \in Restart
  BY Reconciling DEF OurRestart, GoodStatus, Status, Restart

\* The patch reaches the workload or it does not.
LEMMA DispatchInv ==
    ASSUME IInv, Dispatch
    PROVE  IInv'
<1>0. recPC # "idle"
  BY DEF Dispatch
<1>1. RecInv' /\ queue' \subseteq Policies
  BY <1>0, Reconciling, ReturnInv DEF Dispatch
<1>2. PICK err \in BOOLEAN : /\ Triggered(err)
                             /\ gate' = IF err THEN Release(gate, RecWorkload)
                                               ELSE gate
  BY DEF Dispatch
<1>3. GateInv'
  BY <1>0, <1>2, Reconciling, GateInvCapped
<1>4. budget' \in [Chances -> Nat]
  BY <1>0, <1>2, Reconciling, ChanceType DEF Triggered
<1>5. /\ WlInv'
      /\ ours' \in [Workloads -> OptTime]
      /\ dispatches' \in [Policies -> Seq(Restart)]
  <2>1. CASE UNCHANGED <<wlVars, dispatches, ours>>
    BY <2>1, UnchangedParts DEF IInv, EnvInv
  <2>2. CASE Landed(recKey, OurRestart)
    BY <1>0, <2>2, Reconciling, OurRestartType, LandedInv
  <2> QED
    BY <1>2, <2>1, <2>2 DEF Triggered
<1>6. ApiInv' /\ ExpInv'
  BY UnchangedParts DEF IInv, Dispatch
<1> QED
  BY <1>1, <1>3, <1>4, <1>5, <1>6 DEF IInv, EnvInv, Dispatch

-----------------------------------------------------------------------------
\* The steps of the expirer.

\* Moving on within a pass.
LEMMA ExpGotoType ==
    ASSUME expNow \in Time, NEW todo \in SUBSET Policies,
           NEW keys \in SUBSET Workloads, ExpGoto(todo, keys)
    PROVE  /\ expPC' \in ExpPCs /\ expNow' \in Time
           /\ expTodo' \subseteq Policies /\ expKeys' \subseteq Workloads
  BY DEF ExpGoto, ExpPCs, Time

\* Old slots are freed.
LEMMA ExpireSlotsInv ==
    ASSUME IInv, ExpireSlots
    PROVE  IInv'
<1>1. GateInv'
  BY ReleaseCapped, GateInvCapped DEF IInv, EnvInv, ExpireSlots
<1>2. ExpInv'
  BY DEF IInv, EnvInv, ExpInv, ExpireSlots, ExpPCs
<1> QED
  BY <1>1, <1>2, UnchangedParts DEF IInv, EnvInv, ExpireSlots, sendVars, apiVars

\* The policies are listed through the cache.
LEMMA ListPoliciesInv ==
    ASSUME IInv, ListPolicies
    PROVE  IInv'
<1> DEFINE todo == {p \in Policies : /\ Present(policyCache[p])
                                     /\ policyCache[p].status.inFlight # None}
<1>1. ExpGoto(todo, {})
  BY DEF ListPolicies
<1>2. expList' \in [Policies -> GoodPolicy]
  BY NoPolicyGood DEF IInv, ApiInv, ListPolicies
<1>3. expNow \in Time /\ todo \in SUBSET Policies /\ {} \in SUBSET Workloads
  BY DEF IInv, ExpInv
<1> HIDE DEF todo
<1>4. ExpInv'
  BY <1>1, <1>2, <1>3, ExpGotoType DEF ExpInv
<1> QED
  BY <1>4, UnchangedParts DEF IInv, EnvInv, ListPolicies, sendVars, apiVars

\* A marker is closed on the copy the pass has listed, however old.
LEMMA SweepPolicyInv ==
    ASSUME IInv, NEW p \in Policies, SweepPolicy(p)
    PROVE  IInv'
<1>0. /\ ApiInv /\ ExpInv /\ EnvInv
      /\ expList[p] \in GoodPolicy /\ expNow \in Time
      /\ expTodo \subseteq Policies /\ expKeys \subseteq Workloads
      /\ queue \subseteq Policies /\ overwritten \subseteq Policies
      /\ budget \in [Chances -> Nat] /\ policyRef[p] \in Workloads
  BY DEF IInv, ApiInv, ExpInv, EnvInv
<1> DEFINE pol == expList[p]
           Outcome(unread) == classifyInFlight(policyRef[p], pol, unread)
<1>1. PICK unread \in BOOLEAN, err \in BOOLEAN, fault \in BOOLEAN :
        /\ FaultIf(unread \/ fault)
        /\ \/ /\ ExpGoto(expTodo \ {p}, expKeys)
              /\ UNCHANGED <<apiVars, queue, overwritten>>
           \/ /\ Outcome(unread) # None
              /\ Persist(p, pol, CompleteInFlight(pol.status, Outcome(unread)),
                         err, fault)
              /\ queue' = queue \cup Event(p)
              /\ ExpGoto(IF err THEN {} ELSE expTodo \ {p},
                         expKeys \cup {policyRef[p]})
  BY DEF SweepPolicy
<1>2. budget' \in [Chances -> Nat]
  BY <1>0, <1>1, ChanceType
<1>3. expList' \in [Policies -> GoodPolicy]
  BY <1>0, NoPolicyGood DEF SweepPolicy, ExpInv
<1>4. /\ ApiInv' /\ UNCHANGED policyRef /\ ExpInv' /\ queue' \subseteq Policies
      /\ overwritten' \subseteq Policies
  <2>1. CASE /\ ExpGoto(expTodo \ {p}, expKeys)
             /\ UNCHANGED <<apiVars, queue, overwritten>>
    <3>1. ExpInv'
      BY <1>0, <1>3, <2>1, ExpGotoType DEF ExpInv
    <3> QED
      BY <1>0, <2>1, <3>1, UnchangedParts DEF apiVars
  <2>2. CASE /\ Outcome(unread) # None
             /\ Persist(p, pol, CompleteInFlight(pol.status, Outcome(unread)),
                        err, fault)
             /\ queue' = queue \cup Event(p)
             /\ ExpGoto(IF err THEN {} ELSE expTodo \ {p},
                        expKeys \cup {policyRef[p]})
    <3>1. Outcome(unread) \in Terminal
      BY <2>2 DEF classifyInFlight, Terminal, Outcomes
    <3>2. CompleteInFlight(pol.status, Outcome(unread)) \in GoodStatus
      BY <1>0, <3>1, GoodPolicyUpdates, GoodWrites
    <3>3. ApiInv' /\ UNCHANGED policyRef /\ overwritten' \subseteq Policies
      BY <1>0, <2>2, <3>2, PersistGood
    <3>4. /\ (IF err THEN {} ELSE expTodo \ {p}) \in SUBSET Policies
          /\ expKeys \cup {policyRef[p]} \in SUBSET Workloads
      BY <1>0
    <3>5. ExpInv'
      BY <1>0, <1>3, <2>2, <3>4, ExpGotoType DEF ExpInv
    <3> QED
      BY <1>0, <2>2, <3>3, <3>5, EventType
  <2> QED
    BY <1>1, <2>1, <2>2
<1>5. WlInv' /\ GateInv' /\ RecInv'
  BY <1>4, UnchangedParts DEF IInv, SweepPolicy
<1>6. EnvInv'
  BY <1>0, <1>2, <1>4 DEF EnvInv, SweepPolicy, sendVars
<1> QED
  BY <1>4, <1>5, <1>6 DEF IInv

\* The slots of the swept policies are freed.
LEMMA ReleaseKeyInv ==
    ASSUME IInv, NEW w \in Workloads, ReleaseKey(w)
    PROVE  IInv'
<1>1. GateInv'
  BY ReleaseCapped, GateInvCapped DEF IInv, ReleaseKey
<1>2. ExpInv'
  <2>1. /\ expNow \in Time /\ {} \in SUBSET Policies
        /\ expKeys \ {w} \in SUBSET Workloads
        /\ ExpGoto({}, expKeys \ {w})
    BY DEF IInv, ExpInv, ReleaseKey
  <2>2. expList' \in [Policies -> GoodPolicy]
    BY DEF IInv, ExpInv, ReleaseKey
  <2> QED
    BY <2>1, <2>2, ExpGotoType DEF ExpInv
<1> QED
  BY <1>1, <1>2, UnchangedParts DEF IInv, EnvInv, ReleaseKey, sendVars, apiVars

-----------------------------------------------------------------------------
\* The steps of everybody else.

\* Users write policies whose status the controller has written.
LEMMA PolicyEditInv ==
    ASSUME IInv, NEW p \in Policies,
           CreatePolicy(p) \/ EditMode(p) \/ DeletePolicy(p)
    PROVE  IInv'
<1>1. PICK pol \in GoodPolicy : UserEdit(p, pol)
  <2>1. policies[p] \in GoodPolicy
    BY DEF IInv, ApiInv
  <2>2. policies[p].rv + 1 \in Nat
    BY <2>1 DEF GoodPolicy, PolicyObject
  <2>3. /\ \A mode \in Modes : NewPolicy(mode, policies[p].rv + 1) \in GoodPolicy
        /\ [NoPolicy EXCEPT !.rv = policies[p].rv + 1] \in GoodPolicy
    BY <2>2, NoPolicyGood, ControllerAssumption
  <2>4. /\ [policies[p] EXCEPT !.dryRun = ~@, !.rv = @ + 1] \in GoodPolicy
        /\ [policies[p] EXCEPT !.phase = "deleting", !.rv = @ + 1] \in GoodPolicy
    BY <2>1, GoodPolicyUpdates
  <2> QED
    BY <2>3, <2>4 DEF CreatePolicy, EditMode, DeletePolicy
<1>2. ApiInv' /\ UNCHANGED policyRef
  BY <1>1, StoreGood DEF IInv, UserEdit
<1>3. budget' \in [Chances -> Nat]
  <2>1. "edits" \in Chances
    BY DEF Chances
  <2> QED
    BY <1>1, <2>1, ChanceType DEF IInv, EnvInv, UserEdit
<1>4. queue' \subseteq Policies
  BY <1>1, EventType DEF IInv, EnvInv, UserEdit
<1>5. /\ dispatches' \in [Policies -> Seq(Restart)]
      /\ overwritten' \subseteq Policies
  BY ForgottenType DEF IInv, EnvInv, CreatePolicy, EditMode, DeletePolicy
<1> QED
  BY <1>1, <1>2, <1>3, <1>4, <1>5, UnchangedParts DEF IInv, EnvInv, UserEdit

\* Owners and workload controllers change workloads only.
LEMMA WorkloadChangeInv ==
    ASSUME IInv, NEW w \in Workloads,
           \/ ExternalRollout(w) \/ Disturb(w) \/ DeleteWorkload(w)
           \/ RecreateWorkload(w) \/ ChangeStrategy(w) \/ Progress(w)
    PROVE  IInv'
<1>1. PICK obj \in WorkloadObject : ChangeWorkload(w, obj)
  <2>1. workloads[w] \in WorkloadObject
    BY DEF IInv, WlInv
  <2> QED
    BY <2>1, WorkloadTypes
    DEF ExternalRollout, Disturb, DeleteWorkload, RecreateWorkload,
        ChangeStrategy, Progress
<1>2. WlInv'
  BY <1>1, StoreWorkloadType DEF IInv, ChangeWorkload
<1>3. budget' \in [Chances -> Nat]
  <2>1. {"rollouts", "disturbs", "recreates", "edits"} \subseteq Chances
    BY DEF Chances
  <2>2. \/ \E c \in {"rollouts", "disturbs", "recreates", "edits"} : Chance(c)
        \/ UNCHANGED budget
    BY DEF ExternalRollout, Disturb, DeleteWorkload, RecreateWorkload,
           ChangeStrategy, Progress
  <2> QED
    BY <2>1, <2>2, ChanceType DEF IInv, EnvInv
<1>4. ours' \in [Workloads -> OptTime]
  <2>1. ours' = ours \/ ours' = [ours EXCEPT ![w] = None]
    BY DEF ExternalRollout, Disturb, DeleteWorkload, RecreateWorkload,
           ChangeStrategy, Progress
  <2> QED
    BY <2>1 DEF IInv, EnvInv, OptTime
<1> QED
  BY <1>1, <1>2, <1>3, <1>4, UnchangedParts
  DEF IInv, EnvInv, ChangeWorkload, apiVars

\* The sampler's events, the watches and the late patch of a former leader.
LEMMA SyncInv ==
    ASSUME IInv,
           \/ \E p \in Policies : SampleEvent(p) \/ SyncPolicy(p) \/ LateDispatch(p)
           \/ \E w \in Workloads : SyncWorkload(w)
           \/ \E key \in Policies \cup Workloads : Stall(key)
    PROVE  IInv'
<1>1. ASSUME NEW p \in Policies, SampleEvent(p)
      PROVE  IInv'
  BY <1>1, UnchangedParts DEF IInv, EnvInv, SampleEvent, sendVars, apiVars
<1>2. ASSUME NEW p \in Policies, SyncPolicy(p)
      PROVE  IInv'
  <2>1. ApiInv'
    BY <1>2 DEF IInv, ApiInv, SyncPolicy
  <2> QED
    BY <1>2, <2>1, UnchangedParts DEF IInv, EnvInv, SyncPolicy, sendVars
<1>3. ASSUME NEW w \in Workloads, SyncWorkload(w)
      PROVE  IInv'
  <2>1. WlInv'
    BY <1>3 DEF IInv, WlInv, SyncWorkload
  <2>2. ApiInv'
    BY <1>3 DEF IInv, ApiInv, SyncWorkload
  <2> QED
    BY <1>3, <2>1, <2>2, UnchangedParts DEF IInv, EnvInv, SyncWorkload, sendVars
<1>4. ASSUME NEW key \in Policies \cup Workloads, Stall(key)
      PROVE  IInv'
  <2>1. ApiInv'
    BY <1>4 DEF IInv, ApiInv, Stall
  <2>2. budget' \in [Chances -> Nat]
    BY <1>4, ChanceType DEF IInv, EnvInv, Stall, Chances
  <2> QED
    BY <1>4, <2>1, <2>2, UnchangedParts DEF IInv, EnvInv, Stall, sendVars
<1>5. ASSUME NEW p \in Policies, LateDispatch(p)
      PROVE  IInv'
  <2>1. delayed[p] \in Restart
    BY <1>5 DEF IInv, EnvInv, LateDispatch
  <2>2. /\ WlInv' /\ ours' \in [Workloads -> OptTime]
        /\ dispatches' \in [Policies -> Seq(Restart)]
    BY <1>5, <2>1, LandedInv DEF LateDispatch
  <2> QED
    BY <1>5, <2>2, UnchangedParts DEF IInv, EnvInv, LateDispatch, apiVars
<1> QED
  BY <1>1, <1>2, <1>3, <1>4, <1>5

\* The clock.
LEMMA TickInv ==
    ASSUME IInv, Tick
    PROVE  IInv'
  BY UnchangedParts DEF IInv, EnvInv, Tick, sendVars, apiVars, Time

\* A new leader: empty gate, no reconcile, no pass, caches up to date.
LEMMA FailoverInv ==
    ASSUME IInv, Failover
    PROVE  IInv'
<1>1. ApiInv'
  BY DEF IInv, ApiInv, Failover
<1>2. WlInv'
  BY DEF IInv, WlInv, Failover
<1>3. GateInv'
  BY ReleaseCapped, GateInvCapped DEF IInv, Failover
<1>4. RecInv'
  BY NoPolicyGood, WorkloadTypes DEF Failover, ResetRec, RecInv, RecPCs, Time
<1>5. ExpInv'
  BY NoPolicyGood DEF Failover, ExpInv, ExpPCs, Time
<1>6. budget' \in [Chances -> Nat]
  <2>1. "crashes" \in Chances
    BY DEF Chances
  <2> QED
    BY <2>1, ChanceType DEF IInv, EnvInv, Failover
<1>7. EmptyGate \in Gates
  BY DEF EmptyGate, Gates, OptTime
<1>9. delayed' \in [Policies -> Restart \cup {None}]
  <2>1. CASE UNCHANGED delayed
    BY <2>1 DEF IInv, EnvInv
  <2>2. CASE recPC = "dispatch" /\ delayed' = [delayed EXCEPT ![recKey] = OurRestart]
    <3>1. OurRestart \in Restart
      BY <2>2, OurRestartType
    <3> QED
      BY <2>2, <3>1 DEF IInv, EnvInv
  <2> QED
    BY <2>1, <2>2 DEF Failover
<1>8. EnvInv'
  BY <1>6, <1>7, <1>9 DEF IInv, EnvInv, Failover
<1> QED
  BY <1>1, <1>2, <1>3, <1>4, <1>5, <1>8 DEF IInv

-----------------------------------------------------------------------------

\* A controller that has just started satisfies the invariant.
LEMMA InitInv == Init => IInv
<1> SUFFICES ASSUME Init PROVE IInv
  OBVIOUS
<1>1. ApiInv
  <2>1. PICK mode \in [Policies -> Modes] :
            policies = [p \in Policies |-> NewPolicy(mode[p], 1)]
    BY DEF Init
  <2>2. \A p \in Policies : NewPolicy(mode[p], 1) \in GoodPolicy
    BY NoPolicyGood, ControllerAssumption
  <2> QED
    BY <2>1, <2>2, ControllerAssumption DEF Init, ApiInv
<1>2. WlInv
  BY WorkloadTypes DEF Init, WlInv
<1>3. GateInv
  <2>1. EmptyGate \in Gates /\ Held(EmptyGate) = {}
    BY DEF EmptyGate, Gates, OptTime, Held, Holds
  <2>2. Cardinality(Held(gate)) = 0
    BY <2>1, FS_EmptySet DEF Init
  <2> QED
    BY <2>1, <2>2, GateAssumption DEF Init, GateInv, CapRespected
<1>4. RecInv
  BY NoPolicyGood, WorkloadTypes DEF Init, RecIdle, RecInv, RecPCs, Time
<1>5. ExpInv
  BY NoPolicyGood DEF Init, ExpIdle, ExpInv, ExpPCs, Time
<1>6. EnvInv
  BY ControllerAssumption
  DEF Init, EnvInv, EmptyGate, Gates, OptTime, Time
<1> QED
  BY <1>1, <1>2, <1>3, <1>4, <1>5, <1>6 DEF IInv

\* Every step of the reconciler, the expirer and the environment preserves
\* the invariant.
LEMMA NextInv == IInv /\ [Next]_vars => IInv'
<1> SUFFICES ASSUME IInv, [Next]_vars PROVE IInv'
  OBVIOUS
<1>1. CASE Reconcile
  BY <1>1, GetPolicyInv, FinalizeInv, AddFinalizerInv, PersistModeInv,
     GetWorkloadInv, SettleInv, PersistDoneInv, DetectInv, GuardInv, DryRunInv,
     PersistRestartInv, DispatchInv DEF Reconcile
<1>2. CASE Expirer
  BY <1>2, ExpireSlotsInv, ListPoliciesInv, SweepPolicyInv, ReleaseKeyInv
  DEF Expirer
<1>3. CASE Environment
  BY <1>3, PolicyEditInv, WorkloadChangeInv, SyncInv, TickInv, FailoverInv
  DEF Environment
<1>4. CASE UNCHANGED vars
  BY <1>4, UnchangedParts DEF IInv, EnvInv, vars, sendVars, apiVars
<1> QED
  BY <1>1, <1>2, <1>3, <1>4 DEF Next

\* The inductive invariant of the composed controller.
THEOREM Invariance == Spec => []IInv
  BY InitInv, NextInv, PTL DEF Spec

\* Every variable keeps its type, in every interleaving of the goroutines.
THEOREM TypeCorrect == Spec => []TypeOK
<1>1. IInv => TypeOK
  <2> SUFFICES ASSUME IInv PROVE TypeOK
    OBVIOUS
  <2>1. GoodPolicy \subseteq PolicyObject
    BY DEF GoodPolicy
  <2>2. /\ policies \in [Policies -> PolicyObject]
        /\ policyCache \in [Policies -> PolicyObject]
        /\ expList \in [Policies -> PolicyObject]
        /\ recPol \in PolicyObject
    BY <2>1 DEF IInv, ApiInv, ExpInv, RecInv
  <2> QED
    BY <2>2 DEF IInv, ApiInv, WlInv, GateInv, RecInv, ExpInv, EnvInv, TypeOK
<1> QED
  BY <1>1, Invariance, PTL

\* Marker and audit trail agree in every copy of a status.
THEOREM MarkerTheorem == Spec => []MarkerMatchesHistory
<1>1. IInv => MarkerMatchesHistory
  BY DEF IInv, ApiInv, RecInv, ExpInv, GoodPolicy, GoodStatus, Copies,
         MarkerMatchesHistory
<1> QED
  BY <1>1, Invariance, PTL

\* The circuit breaker holds: no copy of a status counts more restarts in its
\* window than maxRestartsPerWindow.
THEOREM BreakerTheorem == Spec => []BreakerRespected
<1>1. IInv => BreakerRespected
  BY DEF IInv, ApiInv, RecInv, ExpInv, GoodPolicy, GoodStatus, Copies,
         BreakerRespected
<1> QED
  BY <1>1, Invariance, PTL

\* The gate never holds more slots than the global cap.
THEOREM CapTheorem == Spec => []CapRespected
<1>1. IInv => CapRespected
  BY DEF IInv, GateInv
<1> QED
  BY <1>1, Invariance, PTL
-----------------------------------------------------------------------------
\* UIDs: UidInv is inductive.

\* The types of the UIDs compared.
LEMMA UidTypes ==
    ASSUME IInv
    PROVE  /\ \A p \in Policies : /\ policyRef[p] \in Workloads
                                  /\ policies[p].status.uid \in Nat
                                  /\ policyCache[p].status.uid \in Nat
                                  /\ expList[p].status.uid \in Nat
           /\ \A w \in Workloads : /\ workloads[w].uid \in Nat
                                   /\ workloadCache[w].uid \in Nat
                                   /\ workloads[w] \in WorkloadObject
                                   /\ workloadCache[w] \in WorkloadObject
           /\ recPol.status.uid \in Nat /\ recWl.uid \in Nat
<1>1. \A pol \in GoodPolicy : pol.status.uid \in Nat
  BY DEF GoodPolicy, GoodStatus, Status, Uid
<1>2. \A obj \in WorkloadObject : obj.uid \in Nat
  BY DEF WorkloadObject
<1> QED
  BY <1>1, <1>2 DEF IInv, ApiInv, WlInv, RecInv, ExpInv

\* The UIDs of what the controller writes.
LEMMA WrittenUids ==
    ASSUME NEW st \in Status
    PROVE  /\ \A o : CompleteInFlight(st, o).uid = st.uid
           /\ \A t : RecomputeObservability(st, t).uid = st.uid
           /\ \A t, ver : ApplyRestart(st, ver, t).uid = st.uid
           /\ \A uid : AdoptWorkload(st, uid).uid = uid
           /\ \A mode : [st EXCEPT !.dryRun = mode].uid = st.uid
  BY DEF Status, CompleteInFlight, RecomputeObservability, ApplyRestart,
         AdoptWorkload

\* A step that leaves workloads and references alone leaves Known alone.
LEMMA KnownSame ==
    ASSUME UNCHANGED <<wlVars, policyRef>>
    PROVE  /\ CacheUids => CacheUids'
           /\ \A p, st : Known(p, st) => Known(p, st)'
           /\ ExpUids /\ UNCHANGED expVars => ExpUids'
           /\ ApiUids /\ UNCHANGED apiVars => ApiUids'
           /\ RecUids /\ UNCHANGED recVars => RecUids'
           /\ AbsentIsNew /\ UNCHANGED apiVars => AbsentIsNew'
  BY DEF CacheUids, Known, ExpUids, ApiUids, RecUids, AbsentIsNew, wlVars,
         expVars, apiVars, recVars, RecWorkload

\* What the writes of a policy need: the status written is known, and a policy
\* that goes absent is new.
Fits(p, pol) ==
    Known(p, pol.status) /\ (~Present(pol) => pol.status = InitStatus)

\* A write of a policy object.
LEMMA StoreUids ==
    ASSUME IInv, ApiUids, AbsentIsNew, NEW p \in Policies,
           NEW pol \in GoodPolicy, Fits(p, pol), Store(p, pol), UNCHANGED wlVars
    PROVE  /\ ApiUids' /\ AbsentIsNew'
           /\ UNCHANGED policyRef
<1>1. UNCHANGED policyRef /\ UNCHANGED workloadCache
  BY DEF Store, wlVars
<1>2. /\ policies' = [policies EXCEPT ![p] = pol]
      /\ \A q \in Policies :
            policyCache'[q] = policyCache[q] \/ (q = p /\ policyCache'[q] = pol)
  BY DEF Store, IInv, ApiInv
<1>3. policies \in [Policies -> GoodPolicy]
  BY DEF IInv, ApiInv
<1> QED
  BY <1>1, <1>2, <1>3 DEF ApiUids, AbsentIsNew, Fits, Known

\* A metadata update of one.
LEMMA UpdateUids ==
    ASSUME IInv, ApiUids, AbsentIsNew, NEW p \in Policies, NEW copy,
           NEW pol \in GoodPolicy, Fits(p, pol), NEW err, NEW fault,
           Update(p, copy, pol, err, fault), UNCHANGED wlVars
    PROVE  /\ ApiUids' /\ AbsentIsNew'
           /\ UNCHANGED policyRef
<1>1. Store(p, pol) \/ UNCHANGED apiVars
  BY DEF Update
<1>2. UNCHANGED apiVars => UNCHANGED policyRef
  BY DEF apiVars
<1> QED
  BY <1>1, <1>2, StoreUids, KnownSame

\* A status write, in place or over another status.
LEMMA PersistUids ==
    ASSUME IInv, ApiUids, AbsentIsNew, NEW p \in Policies, NEW copy,
           NEW st \in GoodStatus, Known(p, st), NEW err, NEW fault,
           Persist(p, copy, st, err, fault), UNCHANGED wlVars
    PROVE  /\ ApiUids' /\ AbsentIsNew'
           /\ UNCHANGED policyRef
<1> DEFINE pol == [policies[p] EXCEPT !.status = st, !.rv = @ + 1]
<1>1. CASE UNCHANGED apiVars
  BY <1>1, KnownSame DEF apiVars
<1>2. CASE CanPersist(p, copy) /\ Store(p, pol)
  <2>1. policies[p] \in GoodPolicy
    BY DEF IInv, ApiInv
  <2>2. policies[p].rv + 1 \in Nat
    BY <2>1 DEF GoodPolicy, PolicyObject
  <2>3. pol = [policies[p] EXCEPT !.status = st, !.rv = policies[p].rv + 1]
    BY <2>1 DEF GoodPolicy, PolicyObject
  <2>4. pol \in GoodPolicy
    BY <2>1, <2>2, <2>3, GoodPolicyUpdates
  <2>5. pol.status = st /\ pol.phase = policies[p].phase
    BY <2>1 DEF GoodPolicy, PolicyObject
  <2>6. Fits(p, pol)
    BY <1>2, <2>5 DEF Fits, CanPersist, Present
  <2> QED
    BY <1>2, <2>4, <2>6, StoreUids
<1> QED
  BY <1>1, <1>2 DEF Persist

\* The end of a reconcile.
LEMMA ReturnUids == ASSUME NEW keys, Return(keys) PROVE RecUids'
  BY DEF Return, ResetRec, RecUids, Adopted

\* The next step of the same reconcile.
LEMMA GotoUids ==
    ASSUME RecUids, recPC \in Adopted, NEW pc \in Adopted, Goto(pc),
           UNCHANGED <<wlVars, policyRef>>
    PROVE  RecUids'
<1>1. pc # "idle" /\ pc # "persistAdopt" /\ recPC # "idle"
  BY DEF Adopted
<1> QED
  BY <1>1 DEF Goto, RecUids, Known, RecWorkload, wlVars

\* A Persist in the middle of a reconcile: what is written next must be known
\* and, past PersistAdopt, of the object read.
LEMMA PersistThenUids ==
    ASSUME IInv, UidInv, recPC # "idle", NEW st \in GoodStatus,
           Known(recKey, st), NEW pc \in RecPCs \ {"persistAdopt"},
           pc \in Adopted => /\ recPC \in Adopted \cup {"persistAdopt"}
                             /\ st.uid = recWl.uid,
           PersistThen(st, pc), UNCHANGED wlVars
    PROVE  ApiUids' /\ AbsentIsNew' /\ RecUids' /\ UNCHANGED policyRef
<1>0. recKey \in Policies
  BY DEF IInv, RecInv
<1>1. PICK err \in BOOLEAN, fault \in BOOLEAN :
        /\ Persist(recKey, recPol, st, err, fault)
        /\ \/ Return({recKey})
           \/ /\ recPC' = pc
              /\ recPol' = Persisted(recKey, recPol, st)
              /\ UNCHANGED <<recKey, recWl, recNow>>
  BY DEF PersistThen
<1>2. ApiUids' /\ AbsentIsNew' /\ UNCHANGED policyRef
  BY <1>0, <1>1, PersistUids DEF UidInv
<1>3. CASE Return({recKey})
  BY <1>2, <1>3, ReturnUids
<1>4. CASE /\ recPC' = pc
           /\ recPol' = Persisted(recKey, recPol, st)
           /\ UNCHANGED <<recKey, recWl, recNow>>
  <2>1. recPol'.status = st
    BY <1>4 DEF Persisted, IInv, RecInv, GoodPolicy, PolicyObject
  <2>2. UNCHANGED workloadCache
    BY DEF wlVars
  <2> QED
    BY <1>2, <1>4, <2>1, <2>2
    DEF RecUids, UidInv, Known, RecWorkload
<1> QED
  BY <1>1, <1>3, <1>4

\* A write of a workload whose UID does not fall.
LEMMA StoreWorkloadUids ==
    ASSUME IInv, UidInv, NEW w \in Workloads, NEW obj \in WorkloadObject,
           obj.uid >= workloads[w].uid, StoreWorkload(w, obj),
           UNCHANGED apiVars, UNCHANGED expVars,
           UNCHANGED recVars \/ recPC' = "idle"
    PROVE  UidInv'
<1>1. \A v \in Workloads : /\ workloadCache'[v].uid \in Nat
                           /\ workloads'[v].uid \in Nat
                           /\ workloadCache'[v].uid >= workloadCache[v].uid
                           /\ workloadCache'[v].uid # 0
                           /\ workloadCache'[v].uid <= workloads'[v].uid
  <2>1. obj.uid \in Nat
    BY DEF WorkloadObject
  <2> QED
    BY <2>1, UidTypes DEF StoreWorkload, UidInv, CacheUids, IInv, WlInv
<1>2. UNCHANGED <<policyRef, policies, policyCache>>
  BY DEF apiVars
<1>3. CacheUids' /\ AbsentIsNew'
  BY <1>1, <1>2 DEF CacheUids, UidInv, AbsentIsNew
<1>4. ApiUids' /\ ExpUids'
  BY <1>1, <1>2, UidTypes DEF ApiUids, ExpUids, UidInv, Known, expVars
<1>5. RecUids'
  <2>1. CASE recPC' = "idle"
    BY <2>1 DEF RecUids, Adopted
  <2>2. CASE UNCHANGED recVars
    <3>1. recPC # "idle" => recKey \in Policies /\ policyRef[recKey] \in Workloads
      BY UidTypes DEF IInv, RecInv
    <3>2. "idle" \notin Adopted \cup {"persistAdopt"}
      BY DEF Adopted
    <3> QED
      BY <1>1, <1>2, <2>2, <3>1, <3>2, UidTypes
      DEF RecUids, UidInv, Known, RecWorkload, recVars
  <2> QED
    BY <2>1, <2>2
<1> QED
  BY <1>3, <1>4, <1>5 DEF UidInv

-----------------------------------------------------------------------------
\* UidInv, step by step.

\* What a reconcile past its first read relies on.
LEMMA ActingOn ==
    ASSUME IInv, UidInv
    PROVE  /\ CacheUids /\ ApiUids /\ ExpUids /\ RecUids /\ AbsentIsNew
           /\ recPC # "idle" => /\ recKey \in Policies
                                /\ Known(recKey, recPol.status)
           /\ recPol.status \in Status /\ recPol.status \in GoodStatus
  BY GoodPolicyUpdates DEF UidInv, RecUids, IInv, RecInv

\* Steps that neither write an object nor move a reconcile, but for the end of
\* one or its next step past PersistAdopt.
LEMMA QuietUids ==
    ASSUME IInv, UidInv, UNCHANGED <<apiVars, wlVars>>,
           UNCHANGED expVars \/ ExpUids',
           \/ UNCHANGED recVars
           \/ \E keys : Return(keys)
           \/ recPC \in Adopted /\ \E pc \in Adopted : Goto(pc)
    PROVE  UidInv'
<1>1. UNCHANGED policyRef
  BY DEF apiVars
<1>2. CacheUids' /\ ApiUids' /\ AbsentIsNew' /\ ExpUids'
  BY <1>1, KnownSame DEF UidInv
<1>3. RecUids'
  BY <1>1, KnownSame, ReturnUids, GotoUids DEF UidInv
<1> QED
  BY <1>2, <1>3 DEF UidInv

\* A key is taken from the queue.
LEMMA GetPolicyUids ==
    ASSUME IInv, UidInv, NEW p \in Policies, GetPolicy(p)
    PROVE  UidInv'
<1>1. CASE UNCHANGED recVars
  BY <1>1, QuietUids DEF GetPolicy
<1>2. CASE /\ recKey' = p /\ recPol' = policyCache[p]
           /\ recPC' \in {"finalize", "addFinalizer", "persistMode",
                          "getWorkload"}
  <2>1. UNCHANGED <<apiVars, wlVars, expVars, policyRef>>
    BY DEF GetPolicy, apiVars
  <2>2. RecUids'
    BY <1>2, <2>1 DEF RecUids, UidInv, ApiUids, Known, Adopted, wlVars
  <2> QED
    BY <2>1, <2>2, KnownSame DEF UidInv
<1> QED
  BY <1>1, <1>2 DEF GetPolicy

\* The two writes of metadata.
LEMMA MetadataUids ==
    ASSUME IInv, UidInv, Finalize \/ AddFinalizer
    PROVE  UidInv'
<1>0. /\ recKey \in Policies /\ UNCHANGED <<wlVars, expVars>>
      /\ policies[recKey] \in GoodPolicy /\ recPol \in GoodPolicy
      /\ ApiUids /\ AbsentIsNew
  BY DEF Finalize, AddFinalizer, IInv, RecInv, ApiInv, UidInv
<1> DEFINE gone == [NoPolicy EXCEPT !.rv = recPol.rv + 1]
           final == [policies[recKey] EXCEPT !.finalizer = TRUE, !.rv = @ + 1]
<1>1. gone \in GoodPolicy /\ Fits(recKey, gone)
  <2>1. gone.status = InitStatus /\ InitStatus.uid = 0
    BY DEF NoPolicy, InitStatus
  <2>2. recPol.rv + 1 \in Nat
    BY <1>0 DEF GoodPolicy, PolicyObject
  <2>3. workloadCache[policyRef[recKey]].uid \in Nat
    BY <1>0, UidTypes
  <2> QED
    BY <2>1, <2>2, <2>3, NoPolicyGood DEF Fits, Known
<1>2. final \in GoodPolicy /\ Fits(recKey, final)
  <2>1. final.status = policies[recKey].status /\ final.phase = policies[recKey].phase
    BY <1>0 DEF GoodPolicy, PolicyObject
  <2> QED
    BY <1>0, <2>1, GoodPolicyUpdates DEF Fits, ApiUids, AbsentIsNew, Known, Present
<1>3. PICK pol, err, fault :
         /\ pol \in {gone, final}
         /\ Update(recKey, recPol, pol, err, fault)
         /\ \E keys : Return(keys)
  BY DEF Finalize, AddFinalizer
<1>4. ApiUids' /\ AbsentIsNew' /\ UNCHANGED policyRef
  BY <1>0, <1>1, <1>2, <1>3, UpdateUids
<1> QED
  BY <1>0, <1>3, <1>4, KnownSame, ReturnUids DEF UidInv

\* The status writes of the reconciler.
LEMMA RecPersistUids ==
    ASSUME IInv, UidInv,
           PersistMode \/ PersistAdopt \/ PersistDone \/ PersistRestart
    PROVE  UidInv'
<1>0. /\ recPC # "idle" /\ recKey \in Policies
      /\ recPol.status \in Status /\ recPol.status \in GoodStatus
      /\ Known(recKey, recPol.status)
      /\ UNCHANGED <<wlVars, expVars>>
  BY ActingOn DEF PersistMode, PersistAdopt, PersistDone, PersistRestart
<1>2. SUFFICES ApiUids' /\ AbsentIsNew' /\ RecUids' /\ UNCHANGED policyRef
  BY <1>0, KnownSame DEF UidInv
<1>3. CASE PersistMode
  <2>1. [recPol.status EXCEPT !.dryRun = recPol.dryRun] \in GoodStatus
    BY <1>0, GoodPolicyUpdates, GoodWrites DEF IInv, RecInv
  <2>2. [recPol.status EXCEPT !.dryRun = recPol.dryRun].uid = recPol.status.uid
    BY <1>0, WrittenUids
  <2>3. "getWorkload" \in RecPCs \ {"persistAdopt"} /\ "getWorkload" \notin Adopted
    BY DEF RecPCs, Adopted
  <2> QED
    BY <1>0, <1>3, <2>1, <2>2, <2>3, PersistThenUids DEF PersistMode, Known
<1>4. CASE PersistAdopt
  <2>1. AdoptWorkload(recPol.status, recWl.uid) \in GoodStatus
    BY <1>0, UidTypes, GoodWrites DEF Uid
  <2>2. AdoptWorkload(recPol.status, recWl.uid).uid = recWl.uid
    BY <1>0, WrittenUids
  <2>3. recWl.uid <= workloadCache[policyRef[recKey]].uid
    BY <1>4 DEF PersistAdopt, UidInv, RecUids, RecWorkload
  <2>4. "settle" \in RecPCs \ {"persistAdopt"}
    BY DEF RecPCs
  <2> QED
    BY <1>0, <1>4, <2>1, <2>2, <2>3, <2>4, PersistThenUids
    DEF PersistAdopt, Known
<1>5. CASE PersistDone
  <2>1. DoneStatus \in GoodStatus /\ DoneStatus.uid = recPol.status.uid
    <3>1. "Settled" \in Terminal /\ "Superseded" \in Terminal
      BY DEF Terminal, Outcomes
    <3>2. recNow \in Time
      BY DEF IInv, RecInv
    <3>3. ASSUME NEW o \in Terminal
          PROVE  /\ CompleteInFlight(recPol.status, o) \in GoodStatus
                 /\ CompleteInFlight(recPol.status, o) \in Status
                 /\ CompleteInFlight(recPol.status, o).uid = recPol.status.uid
      BY <1>0, GoodWrites, WrittenUids DEF GoodStatus
    <3>4. \A o \in Terminal :
            /\ RecomputeObservability(CompleteInFlight(recPol.status, o), recNow)
                   \in GoodStatus
            /\ RecomputeObservability(CompleteInFlight(recPol.status, o), recNow).uid
                   = recPol.status.uid
      BY <3>2, <3>3, GoodWrites, WrittenUids
    <3> QED
      BY <3>1, <3>4 DEF DoneStatus
  <2>2. PICK err, fault, keys : /\ Persist(recKey, recPol, DoneStatus, err, fault)
                                /\ Return(keys)
    BY <1>5 DEF PersistDone
  <2> QED
    BY <1>0, <2>1, <2>2, PersistUids, ReturnUids DEF UidInv, Known
<1>6. CASE PersistRestart
  <2>1. RestartStatus \in GoodStatus /\ RestartStatus.uid = recPol.status.uid
    <3>1. /\ recNow \in Time /\ TemplateVersion(RecWorkload, recWl) \in Version
          /\ ~BreakerTripped(recPol.status,
                             TemplateVersion(RecWorkload, recWl), recNow)
      BY <1>0, <1>6, Reconciling DEF IInv, RecInv, GuardsPassed, PersistRestart
    <3> DEFINE st == ApplyRestart(recPol.status,
                                  TemplateVersion(RecWorkload, recWl), recNow)
    <3>2. st \in GoodStatus /\ st \in Status /\ st.uid = recPol.status.uid
      BY <1>0, <3>1, GoodWrites, WrittenUids DEF GoodStatus
    <3> HIDE DEF st
    <3>3. RecomputeObservability(st, recNow) \in GoodStatus
          /\ RecomputeObservability(st, recNow).uid = recPol.status.uid
      BY <3>1, <3>2, GoodWrites, WrittenUids
    <3> QED
      BY <3>3 DEF RestartStatus, st
  <2>2. recPol.status.uid = recWl.uid
    BY <1>6 DEF PersistRestart, UidInv, RecUids, Adopted
  <2>3. "dispatch" \in RecPCs \ {"persistAdopt"} /\ recPC \in Adopted
    BY <1>6 DEF RecPCs, Adopted, PersistRestart
  <2> QED
    BY <1>0, <1>6, <2>1, <2>2, <2>3, PersistThenUids DEF PersistRestart, Known
<1> QED
  BY <1>3, <1>4, <1>5, <1>6

\* The workload is resolved.
LEMMA GetWorkloadUids ==
    ASSUME IInv, UidInv, GetWorkload
    PROVE  UidInv'
<1>1. CASE Return({recKey})
  BY <1>1, QuietUids DEF GetWorkload
<1>2. CASE /\ recWl' = workloadCache[RecWorkload]
           /\ recPC' = IF recPol.status.uid # workloadCache[RecWorkload].uid
                       THEN "persistAdopt" ELSE "settle"
           /\ UNCHANGED <<recKey, recPol>>
  <2>1. UNCHANGED <<apiVars, wlVars, expVars, policyRef, workloadCache>>
    BY DEF GetWorkload, apiVars, wlVars
  <2>2. /\ recKey \in Policies /\ Known(recKey, recPol.status)
        /\ RecWorkload \in Workloads
    BY ActingOn, UidTypes DEF GetWorkload, RecWorkload
  <2>3. /\ workloadCache[RecWorkload].uid # 0
        /\ recPol.status.uid <= workloadCache[RecWorkload].uid
        /\ workloadCache[RecWorkload].uid \in Nat /\ recPol.status.uid \in Nat
    BY <2>2, UidTypes DEF UidInv, CacheUids, Known, RecWorkload
  <2>4. RecUids'
    BY <1>2, <2>1, <2>2, <2>3 DEF RecUids, Known, RecWorkload, Adopted
  <2> QED
    BY <2>1, <2>4, KnownSame DEF UidInv
<1> QED
  BY <1>1, <1>2 DEF GetWorkload

\* The steps of a reconcile that write no object.
LEMMA DecideUids ==
    ASSUME IInv, UidInv, Settle \/ Detect \/ Guard \/ DryRun
    PROVE  UidInv'
<1>1. recPC \in Adopted /\ UNCHANGED <<apiVars, wlVars, expVars>>
  BY DEF Settle, Detect, Guard, DryRun, Adopted
<1>2. \/ \E keys : Return(keys)
      \/ \E pc \in Adopted : Goto(pc)
  BY DEF Settle, Detect, Guard, DryRun, Adopted
<1> QED
  BY <1>1, <1>2, QuietUids

\* A patch, in time or late, keeps the UID.
LEMMA PatchUids ==
    ASSUME IInv, UidInv, Dispatch \/ \E p \in Policies : LateDispatch(p)
    PROVE  UidInv'
<1>1. /\ UNCHANGED <<apiVars, expVars>>
      /\ UNCHANGED recVars \/ \E keys : Return(keys)
  BY DEF Dispatch, LateDispatch
<1>2. UNCHANGED wlVars \/ \E p \in Policies : \E restart : Landed(p, restart)
  BY DEF Dispatch, Triggered, LateDispatch, IInv, RecInv
<1>3. CASE UNCHANGED wlVars
  BY <1>1, <1>3, QuietUids
<1>4. ASSUME NEW p \in Policies, NEW restart, Landed(p, restart)
      PROVE  UidInv'
  <2> DEFINE w == policyRef[p]
  <2>1. w \in Workloads /\ workloads[w] \in WorkloadObject
    BY UidTypes
  <2>2. /\ Restarted(workloads[w]) \in WorkloadObject
        /\ Restarted(workloads[w]).uid = workloads[w].uid
    BY <2>1, WorkloadTypes DEF Restarted, WorkloadObject
  <2>3. StoreWorkload(w, Restarted(workloads[w]))
    BY <1>4 DEF Landed
  <2>4. UNCHANGED recVars \/ recPC' = "idle"
    BY <1>1 DEF Return, ResetRec
  <2>5. workloads[w].uid >= workloads[w].uid
    BY <2>1, UidTypes
  <2> QED
    BY <1>1, <2>1, <2>2, <2>3, <2>4, <2>5, StoreWorkloadUids
<1> QED
  BY <1>2, <1>3, <1>4

\* The expirer writes a status with the UID it has listed.
LEMMA ExpirerUids ==
    ASSUME IInv, UidInv, Expirer
    PROVE  UidInv'
<1>0. \A p \in Policies : /\ 0 <= workloadCache[policyRef[p]].uid
                          /\ expList[p] \in GoodPolicy
                          /\ NoPolicy.status.uid = 0
  BY UidTypes DEF IInv, ExpInv, NoPolicy, InitStatus
<1>1. CASE ExpireSlots
  BY <1>1, QuietUids DEF ExpireSlots, ExpUids, UidInv, Known, apiVars, wlVars
<1>2. CASE ListPolicies
  <2>1. UNCHANGED <<policyRef, workloadCache>>
    BY <1>2 DEF ListPolicies, apiVars, wlVars
  <2>2. ExpUids'
    BY <1>0, <1>2, <2>1 DEF ListPolicies, ExpUids, UidInv, ApiUids, Known
  <2> QED
    BY <1>2, <2>2, QuietUids DEF ListPolicies
<1>3. ASSUME NEW p \in Policies, SweepPolicy(p)
      PROVE  UidInv'
  <2>1. UNCHANGED <<wlVars, recVars, workloadCache>>
    BY <1>3 DEF SweepPolicy, wlVars
  <2>2. /\ expList[p].status \in Status /\ expList[p].status \in GoodStatus
        /\ Known(p, expList[p].status)
    BY <1>0, GoodPolicyUpdates DEF UidInv, ExpUids
  <2>3. ApiUids' /\ AbsentIsNew' /\ UNCHANGED policyRef
    <3>1. CASE UNCHANGED apiVars
      BY <2>1, <3>1, KnownSame DEF apiVars, UidInv
    <3>2. ASSUME NEW o \in Terminal, NEW err, NEW fault,
                 Persist(p, expList[p],
                         CompleteInFlight(expList[p].status, o), err, fault)
          PROVE  ApiUids' /\ AbsentIsNew' /\ UNCHANGED policyRef
      BY <2>1, <2>2, <3>2, GoodWrites, WrittenUids, PersistUids
      DEF UidInv, Known
    <3>3. \A unread \in BOOLEAN :
            LET o == classifyInFlight(policyRef[p], expList[p], unread)
            IN  o # None => o \in Terminal
      BY DEF classifyInFlight, Terminal, Outcomes
    <3> QED
      BY <1>3, <3>1, <3>2, <3>3 DEF SweepPolicy
  <2>4. ExpUids'
    BY <1>0, <1>3, <2>1, <2>3 DEF SweepPolicy, ExpUids, UidInv, Known
  <2> QED
    BY <2>1, <2>3, <2>4, KnownSame DEF UidInv
<1>4. ASSUME NEW w \in Workloads, ReleaseKey(w)
      PROVE  UidInv'
  BY <1>4, QuietUids DEF ReleaseKey, ExpUids, UidInv, Known, apiVars, wlVars
<1> QED
  BY <1>1, <1>2, <1>3, <1>4 DEF Expirer

\* Users write policies that are absent, or keep their status.
LEMMA PolicyEditUids ==
    ASSUME IInv, UidInv, NEW p \in Policies,
           CreatePolicy(p) \/ EditMode(p) \/ DeletePolicy(p)
    PROVE  UidInv'
<1>0. /\ policies[p] \in GoodPolicy /\ policies[p].rv + 1 \in Nat
      /\ Known(p, policies[p].status)
      /\ 0 <= workloadCache[policyRef[p]].uid /\ InitStatus.uid = 0
  BY UidTypes DEF IInv, ApiInv, GoodPolicy, PolicyObject, UidInv, ApiUids,
                  InitStatus
<1>1. PICK pol \in GoodPolicy : UserEdit(p, pol) /\ Fits(p, pol)
  <2>1. CASE CreatePolicy(p)
    <3>1. PICK mode \in Modes : UserEdit(p, NewPolicy(mode, policies[p].rv + 1))
      BY <2>1 DEF CreatePolicy
    <3>2. NewPolicy(mode, policies[p].rv + 1).status = InitStatus
      BY DEF NewPolicy, NoPolicy
    <3> QED
      BY <1>0, <3>1, <3>2, NoPolicyGood, ControllerAssumption DEF Fits, Known
  <2>2. CASE EditMode(p)
    <3> DEFINE pol == [policies[p] EXCEPT !.dryRun = ~@, !.rv = @ + 1]
    <3>1. pol.status = policies[p].status /\ pol.phase = policies[p].phase
      BY <1>0 DEF GoodPolicy, PolicyObject
    <3>2. pol \in GoodPolicy /\ UserEdit(p, pol)
      BY <1>0, <2>2, GoodPolicyUpdates DEF EditMode
    <3> HIDE DEF pol
    <3> QED
      BY <1>0, <2>2, <3>1, <3>2 DEF Fits, Known, Present, EditMode
  <2>3. CASE DeletePolicy(p)
    <3> DEFINE gone == [NoPolicy EXCEPT !.rv = policies[p].rv + 1]
               going == [policies[p] EXCEPT !.phase = "deleting", !.rv = @ + 1]
    <3>1. gone.status = InitStatus /\ gone \in GoodPolicy
      BY <1>0, NoPolicyGood DEF NoPolicy
    <3>2. /\ going.status = policies[p].status /\ going.phase = "deleting"
          /\ going \in GoodPolicy
      BY <1>0, GoodPolicyUpdates DEF GoodPolicy, PolicyObject
    <3>3. UserEdit(p, gone) \/ UserEdit(p, going)
      BY <2>3 DEF DeletePolicy
    <3> HIDE DEF gone, going
    <3> QED
      BY <1>0, <3>1, <3>2, <3>3 DEF Fits, Known, Present
  <2> QED
    BY <2>1, <2>2, <2>3
<1>2. ApiUids' /\ AbsentIsNew' /\ UNCHANGED policyRef
  BY <1>1, StoreUids DEF UserEdit, UidInv
<1> QED
  BY <1>1, <1>2, KnownSame DEF UserEdit, UidInv

\* Owners never lower a UID.
LEMMA WorkloadChangeUids ==
    ASSUME IInv, UidInv, NEW w \in Workloads,
           \/ ExternalRollout(w) \/ Disturb(w) \/ DeleteWorkload(w)
           \/ RecreateWorkload(w) \/ ChangeStrategy(w) \/ Progress(w)
    PROVE  UidInv'
<1>1. workloads[w] \in WorkloadObject /\ workloads[w].uid \in Nat
  BY UidTypes
<1>2. PICK obj \in WorkloadObject :
         ChangeWorkload(w, obj) /\ obj.uid >= workloads[w].uid
  <2>1. /\ NewTemplate(workloads[w]).uid >= workloads[w].uid
        /\ Disturbed(workloads[w]).uid >= workloads[w].uid
        /\ Deleted(workloads[w]).uid >= workloads[w].uid
        /\ Recreated(workloads[w]).uid >= workloads[w].uid
        /\ [workloads[w] EXCEPT !.onDelete = ~@].uid >= workloads[w].uid
        /\ Progressed(workloads[w]).uid >= workloads[w].uid
    BY <1>1 DEF NewTemplate, Disturbed, Deleted, Recreated, Progressed,
                WorkloadObject
  <2> QED
    BY <1>1, <2>1, WorkloadTypes
    DEF ExternalRollout, Disturb, DeleteWorkload, RecreateWorkload,
        ChangeStrategy, Progress
<1>3. /\ StoreWorkload(w, obj)
      /\ UNCHANGED apiVars /\ UNCHANGED expVars /\ UNCHANGED recVars
  BY <1>2 DEF ChangeWorkload
<1> QED
  BY <1>2, <1>3, StoreWorkloadUids

\* Caches that catch up, and a leader that dies with them.
LEMMA SyncUids ==
    ASSUME IInv, UidInv,
           \/ Failover
           \/ \E p \in Policies : SyncPolicy(p)
           \/ \E w \in Workloads : SyncWorkload(w)
    PROVE  UidInv'
<1>1. /\ UNCHANGED <<policyRef, policies, workloads>>
      /\ \A w \in Workloads : \/ workloadCache'[w] = workloadCache[w]
                              \/ workloadCache'[w] = workloads[w]
      /\ \A p \in Policies : \/ policyCache'[p] = policyCache[p]
                             \/ policyCache'[p] = policies[p]
      /\ \A p \in Policies : \/ expList'[p] = expList[p]
                             \/ expList'[p] = NoPolicy
      /\ UNCHANGED recVars \/ recPC' = "idle"
  BY DEF Failover, ResetRec, SyncPolicy, SyncWorkload, IInv, WlInv, ApiInv,
         wlVars, expVars
<1>2. \A w \in Workloads : /\ workloadCache'[w].uid \in Nat
                           /\ workloadCache'[w].uid >= workloadCache[w].uid
                           /\ workloadCache'[w].uid # 0
                           /\ workloadCache'[w].uid <= workloads'[w].uid
  BY <1>1, UidTypes DEF UidInv, CacheUids
<1>3. NoPolicy.status.uid = 0
  BY DEF NoPolicy, InitStatus
<1>4. CacheUids' /\ ApiUids' /\ ExpUids' /\ AbsentIsNew'
  BY <1>1, <1>2, <1>3, UidTypes
  DEF CacheUids, ApiUids, ExpUids, AbsentIsNew, UidInv, Known
<1>5. RecUids'
  <2>1. CASE recPC' = "idle"
    BY <2>1 DEF RecUids, Adopted
  <2>2. CASE UNCHANGED recVars
    <3>1. recPC # "idle" => recKey \in Policies /\ policyRef[recKey] \in Workloads
      BY UidTypes DEF IInv, RecInv
    <3>2. "idle" \notin Adopted \cup {"persistAdopt"}
      BY DEF Adopted
    <3> QED
      BY <1>1, <1>2, <2>2, <3>1, <3>2, UidTypes
      DEF RecUids, UidInv, Known, RecWorkload, recVars
  <2> QED
    BY <1>1, <2>1, <2>2
<1> QED
  BY <1>4, <1>5 DEF UidInv

\* The rest of the environment touches nothing UidInv speaks of.
LEMMA OtherUids ==
    ASSUME IInv, UidInv,
           \/ Tick
           \/ \E p \in Policies : SampleEvent(p)
           \/ \E key \in Policies \cup Workloads : Stall(key)
    PROVE  UidInv'
<1>1. /\ UNCHANGED <<policyRef, policies, policyCache, workloads, workloadCache>>
      /\ UNCHANGED recVars /\ UNCHANGED expVars
  BY DEF Tick, SampleEvent, Stall, apiVars, wlVars
<1> QED
  BY <1>1 DEF UidInv, CacheUids, ApiUids, ExpUids, RecUids, AbsentIsNew, Known,
              RecWorkload, recVars, expVars

\* A controller that has just started.
LEMMA InitUids == Init => UidInv
<1> SUFFICES ASSUME Init PROVE UidInv
  OBVIOUS
<1>1. IInv
  BY InitInv
<1>2. \A p \in Policies : /\ policies[p].status = InitStatus
                          /\ policyCache[p].status = InitStatus
                          /\ expList[p].status = InitStatus
  <2>1. PICK mode \in [Policies -> Modes] :
            policies = [p \in Policies |-> NewPolicy(mode[p], 1)]
    BY DEF Init
  <2>2. \A m, rv : NewPolicy(m, rv).status = InitStatus
    BY DEF NewPolicy, NoPolicy
  <2>3. NoPolicy.status = InitStatus
    BY DEF NoPolicy
  <2> QED
    BY <2>1, <2>2, <2>3 DEF Init, ExpIdle
<1>3. \A w \in Workloads : workloads[w].uid = 1 /\ workloadCache[w].uid = 1
  BY DEF Init, InitWorkload
<1>4. \A p \in Policies : policyRef[p] \in Workloads
  BY <1>1, UidTypes
<1>5. InitStatus.uid = 0
  BY DEF InitStatus
<1>6. recPC = "idle"
  BY DEF Init, RecIdle
<1> QED
  BY <1>2, <1>3, <1>4, <1>5, <1>6
  DEF UidInv, CacheUids, ApiUids, ExpUids, RecUids, AbsentIsNew, Known, Adopted

\* Every step keeps UidInv.
LEMMA NextUids == IInv /\ UidInv /\ [Next]_vars => UidInv'
<1> SUFFICES ASSUME IInv, UidInv, [Next]_vars PROVE UidInv'
  OBVIOUS
<1>1. CASE Reconcile
  BY <1>1, GetPolicyUids, MetadataUids, RecPersistUids, GetWorkloadUids,
     DecideUids, PatchUids DEF Reconcile
<1>2. CASE Expirer
  BY <1>2, ExpirerUids
<1>3. CASE Environment
  BY <1>3, PolicyEditUids, WorkloadChangeUids, SyncUids, OtherUids, PatchUids
  DEF Environment
<1>4. CASE UNCHANGED vars
  BY <1>4, QuietUids DEF vars
<1> QED
  BY <1>1, <1>2, <1>3, <1>4 DEF Next

\* Both invariants hold in every reachable state.
LEMMA BothInvariant == Spec => [](IInv /\ UidInv)
  BY InitInv, NextInv, InitUids, NextUids, PTL DEF Spec

-----------------------------------------------------------------------------
\* A held slot has a policy that can give it back.  What this needs: the cache
\* never shows a live policy with a finalizer that the server lacks, a
\* reconcile that acts has such a policy, and one that removes a finalizer
\* or adds one is not mistaken about the deletion.

LiveOwned(pol) == pol.phase = "live" /\ pol.finalizer

Kept(p) == Present(policies[p]) /\ policies[p].finalizer

\* The steps of a reconcile that may take a slot.
Acting == RecPCs \ {"idle", "finalize", "addFinalizer"}

CacheOwned ==
    \A p \in Policies :
        /\ LiveOwned(policyCache[p]) => Kept(p)
        /\ policyCache[p].phase = "deleting" => ~LiveOwned(policies[p])

RecOwned ==
    /\ recPC \in Acting => Kept(recKey)
    /\ recPC = "finalize" =>
          ~LiveOwned(policyCache[recKey]) /\ ~LiveOwned(policies[recKey])
    /\ recPC = "addFinalizer" /\ policyCache[recKey].phase = "deleting" =>
          policies[recKey].phase = "deleting"

SlotInv == SlotHasPolicy /\ CacheOwned /\ RecOwned

\* What CacheOwned and RecOwned see of a policy.
Marks(pol) == <<pol.phase, pol.finalizer>>

\* Phase and finalizer of no policy change.
SameMarks ==
    \A p \in Policies :
        /\ Marks(policies'[p]) = Marks(policies[p])
        /\ Marks(policyCache'[p]) \in {Marks(policyCache[p]), Marks(policies[p])}

\* A reconcile ends, stays where it is, or goes on acting.
GoesOn ==
    \/ recPC' = "idle"
    \/ /\ recKey' = recKey
       /\ recPC' = recPC \/ (recPC \in Acting /\ recPC' \in Acting)

\* Only an acting reconcile takes a slot, its own.
OwnSlot ==
    \A w \in Workloads : Holds(gate', w) =>
        Holds(gate, w) \/ (recPC \in Acting /\ w = RecWorkload)

\* A slot that is new belongs to the acting reconcile's policy.
LEMMA SlotKept ==
    ASSUME IInv, SlotInv, UNCHANGED policyRef, OwnSlot,
           \A p \in Policies : Kept(p) => Kept(p)'
    PROVE  SlotHasPolicy'
<1> SUFFICES ASSUME NEW w \in Workloads, Holds(gate', w)
             PROVE  \E p \in Policies : policyRef[p] = w /\ Kept(p)
  BY DEF SlotHasPolicy, Kept, Holds
<1>1. CASE Holds(gate, w)
  BY <1>1 DEF SlotInv, SlotHasPolicy, Kept
<1>2. CASE recPC \in Acting /\ w = RecWorkload
  <2>1. recKey \in Policies
    BY <1>2 DEF IInv, RecInv, Acting
  <2> QED
    BY <1>2, <2>1 DEF SlotInv, RecOwned, RecWorkload
<1> QED
  BY <1>1, <1>2 DEF OwnSlot

\* Steps that change no phase and no finalizer.
LEMMA SameMarksSlots ==
    ASSUME IInv, SlotInv, UNCHANGED policyRef, SameMarks, GoesOn, OwnSlot
    PROVE  SlotInv'
<1>1. \A p \in Policies :
         /\ policies'[p].phase = policies[p].phase
         /\ policies'[p].finalizer = policies[p].finalizer
         /\ \/ /\ policyCache'[p].phase = policyCache[p].phase
               /\ policyCache'[p].finalizer = policyCache[p].finalizer
            \/ /\ policyCache'[p].phase = policies[p].phase
               /\ policyCache'[p].finalizer = policies[p].finalizer
  BY DEF SameMarks, Marks
<1>2. \A p \in Policies : Kept(p)' <=> Kept(p)
  BY <1>1 DEF Kept, Present
<1>3. CacheOwned'
  BY <1>1, <1>2 DEF SlotInv, CacheOwned, LiveOwned, Kept, Present
<1>4. RecOwned'
  <2>1. CASE recPC' = "idle"
    BY <2>1 DEF RecOwned, Acting
  <2>2. CASE /\ recKey' = recKey /\ recPC # "idle"
             /\ recPC' = recPC \/ (recPC \in Acting /\ recPC' \in Acting)
    <3>1. recKey \in Policies
      BY <2>2 DEF IInv, RecInv
    <3>2. recPC' \in {"finalize", "addFinalizer"} => recPC' = recPC
      BY <2>2 DEF Acting
    <3> QED
      BY <1>1, <1>2, <2>2, <3>1, <3>2 DEF SlotInv, RecOwned, LiveOwned
  <2> QED
    BY <2>1, <2>2 DEF GoesOn, Acting
<1> QED
  BY <1>2, <1>3, <1>4, SlotKept DEF SlotInv

\* Writes that keep SameMarks.
LEMMA WritesKeepMarks ==
    ASSUME IInv
    PROVE  /\ UNCHANGED apiVars => SameMarks /\ UNCHANGED policyRef
           /\ \A p \in Policies : \A copy, st, err, fault :
                 Persist(p, copy, st, err, fault) =>
                     SameMarks /\ UNCHANGED policyRef
           /\ \A p \in Policies : \A pol \in PolicyObject :
                 Store(p, pol) /\ Marks(pol) = Marks(policies[p]) =>
                     SameMarks /\ UNCHANGED policyRef
<1>1. /\ policies \in [Policies -> GoodPolicy]
      /\ policyCache \in [Policies -> GoodPolicy]
      /\ \A p \in Policies : policies[p] \in PolicyObject
  BY DEF IInv, ApiInv, GoodPolicy
<1>2. UNCHANGED apiVars => SameMarks /\ UNCHANGED policyRef
  BY DEF apiVars, SameMarks
<1>3. ASSUME NEW p \in Policies, NEW pol, Store(p, pol),
             Marks(pol) = Marks(policies[p])
      PROVE  SameMarks /\ UNCHANGED policyRef
  BY <1>1, <1>3 DEF Store, SameMarks
<1>4. ASSUME NEW p \in Policies, NEW copy, NEW st, NEW err, NEW fault,
             Persist(p, copy, st, err, fault)
      PROVE  SameMarks /\ UNCHANGED policyRef
  <2>1. Marks([policies[p] EXCEPT !.status = st, !.rv = @ + 1])
           = Marks(policies[p])
    BY <1>1 DEF Marks, PolicyObject
  <2> QED
    BY <1>2, <1>3, <1>4, <2>1 DEF Persist
<1> QED
  BY <1>2, <1>3, <1>4

\* The gate's operations: only TryAcquire takes a slot.
LEMMA GateSlots ==
    ASSUME gate \in Gates
    PROVE  /\ gate' = gate => OwnSlot
           /\ gate' = EmptyGate => OwnSlot
           /\ \A w : gate' = Release(gate, w) => OwnSlot
           /\ \A t, age : gate' = ExpireOlderThan(gate, t, age) => OwnSlot
           /\ \A t : recPC \in Acting /\ gate' = TryAcquire(gate, RecWorkload, t)
                        => OwnSlot
<1>1. gate' = gate \/ gate' = EmptyGate => OwnSlot
  BY DEF OwnSlot, Holds, EmptyGate
<1>2. \A w : gate' = Release(gate, w) => OwnSlot
  BY DEF OwnSlot, Holds, Release, Gates
<1>3. \A t, age : gate' = ExpireOlderThan(gate, t, age) => OwnSlot
  BY DEF OwnSlot, Holds, ExpireOlderThan
<1>4. \A t : recPC \in Acting /\ gate' = TryAcquire(gate, RecWorkload, t)
                => OwnSlot
  BY DEF OwnSlot, Holds, TryAcquire, Gates
<1> QED
  BY <1>1, <1>2, <1>3, <1>4

\* Steps that write no policy.
LEMMA UnwrittenSlots ==
    ASSUME IInv, SlotInv, UNCHANGED apiVars, GoesOn, OwnSlot
    PROVE  SlotInv'
  BY SameMarksSlots, WritesKeepMarks

\* Where a reconcile goes.
LEMMA ReconcileGoesOn ==
    /\ UNCHANGED recVars => GoesOn
    /\ \A keys : Return(keys) => GoesOn
    /\ \A pc : recPC \in Acting /\ pc \in Acting /\ Goto(pc) => GoesOn
    /\ \A st, pc : recPC \in Acting /\ pc \in Acting /\ PersistThen(st, pc)
                      => GoesOn
  BY DEF GoesOn, recVars, Return, ResetRec, Goto, PersistThen

\* A key is taken from the queue.
LEMMA GetPolicySlots ==
    ASSUME IInv, SlotInv, NEW p \in Policies, GetPolicy(p)
    PROVE  SlotInv'
<1>1. gate \in Gates /\ UNCHANGED <<apiVars, gate>>
  BY DEF IInv, GateInv, GetPolicy
<1>2. CASE UNCHANGED recVars
  BY <1>1, <1>2, UnwrittenSlots, GateSlots, ReconcileGoesOn
<1>3. CASE /\ recKey' = p
           /\ \/ recPC' = "finalize" /\ policyCache[p].phase = "deleting"
              \/ recPC' = "addFinalizer" /\ policyCache[p].phase # "deleting"
              \/ /\ recPC' \in {"persistMode", "getWorkload"}
                 /\ policyCache[p].phase # "deleting"
                 /\ policyCache[p].finalizer
           /\ Present(policyCache[p])
  <2>1. UNCHANGED <<policyRef, policies, policyCache>>
    BY <1>1 DEF apiVars
  <2>2. policyCache[p].phase \in {"absent", "live", "deleting"}
    BY DEF IInv, ApiInv, GoodPolicy, PolicyObject
  <2>3. SlotHasPolicy' /\ CacheOwned'
    BY <1>1, <2>1 DEF SlotInv, SlotHasPolicy, CacheOwned, Kept, Holds
  <2>4. RecOwned'
    BY <1>3, <2>1, <2>2
    DEF SlotInv, RecOwned, CacheOwned, LiveOwned, Kept, Present, Acting
  <2> QED
    BY <2>3, <2>4 DEF SlotInv
<1>4. ~(UNCHANGED recVars) =>
         /\ recKey' = p /\ Present(policyCache[p])
         /\ recPC' = IF policyCache[p].phase = "deleting" THEN "finalize"
                     ELSE IF ~policyCache[p].finalizer THEN "addFinalizer"
                     ELSE IF policyCache[p].status.dryRun # policyCache[p].dryRun
                          THEN "persistMode" ELSE "getWorkload"
  BY DEF GetPolicy
<1> QED
  BY <1>2, <1>3, <1>4

\* The deletion path frees the policy's slot before its finalizer goes.
LEMMA FinalizeSlots ==
    ASSUME IInv, SlotInv, Finalize
    PROVE  SlotInv'
<1>1. /\ recKey \in Policies /\ recPC = "finalize"
      /\ gate \in Gates /\ gate' = Release(gate, RecWorkload)
      /\ recPC' = "idle"
  BY DEF Finalize, IInv, RecInv, GateInv, Return, ResetRec
<1> DEFINE gone == [NoPolicy EXCEPT !.rv = recPol.rv + 1]
<1>2. UNCHANGED apiVars \/ Store(recKey, gone)
  BY DEF Finalize, Update
<1>3. CASE UNCHANGED apiVars
  BY <1>1, <1>3, UnwrittenSlots, GateSlots DEF GoesOn
<1>4. CASE Store(recKey, gone)
  <2>1. gone.phase = "absent" /\ ~gone.finalizer
    BY DEF NoPolicy
  <2> HIDE DEF gone
  <2>2. /\ UNCHANGED policyRef
        /\ policies' = [policies EXCEPT ![recKey] = gone]
        /\ policies \in [Policies -> GoodPolicy]
        /\ \A q \in Policies : \/ policyCache'[q] = policyCache[q]
                               \/ (q = recKey /\ policyCache'[q] = gone)
    BY <1>4 DEF Store, IInv, ApiInv
  <2>3. \A q \in Policies : q # recKey => policies'[q] = policies[q]
    BY <2>2
  <2>4. policies'[recKey] = gone
    BY <1>1, <2>2
  <2>5. SlotHasPolicy'
    <3> SUFFICES ASSUME NEW w \in Workloads, Holds(gate', w)
                 PROVE  \E q \in Policies : policyRef[q] = w /\ Kept(q)'
      BY <2>2 DEF SlotHasPolicy, Kept, Holds
    <3>1. Holds(gate, w) /\ w # policyRef[recKey]
      BY <1>1 DEF Holds, Release, Gates, RecWorkload
    <3>2. PICK q \in Policies : policyRef[q] = w /\ Kept(q)
      BY <3>1 DEF SlotInv, SlotHasPolicy, Kept
    <3> QED
      BY <2>3, <3>1, <3>2 DEF Kept
  <2>6. CacheOwned'
    BY <1>1, <2>1, <2>2, <2>3, <2>4
    DEF SlotInv, CacheOwned, RecOwned, LiveOwned, Kept
  <2>7. RecOwned'
    BY <1>1 DEF RecOwned, Acting
  <2> QED
    BY <2>5, <2>6, <2>7 DEF SlotInv
<1> QED
  BY <1>2, <1>3, <1>4

\* A finalizer is added to a live policy, or to one that has it.
LEMMA AddFinalizerSlots ==
    ASSUME IInv, SlotInv, AddFinalizer
    PROVE  SlotInv'
<1>1. /\ recKey \in Policies /\ recPC = "addFinalizer"
      /\ gate' = gate /\ gate \in Gates
      /\ recPC' = "idle"
  BY DEF AddFinalizer, IInv, RecInv, GateInv, Return, ResetRec
<1> DEFINE pol == [policies[recKey] EXCEPT !.finalizer = TRUE, !.rv = @ + 1]
<1>2. UNCHANGED apiVars \/ (Present(policies[recKey]) /\ Store(recKey, pol))
  BY DEF AddFinalizer, Update, CanUpdate
<1>3. CASE UNCHANGED apiVars
  BY <1>1, <1>3, UnwrittenSlots, GateSlots DEF GoesOn
<1>4. CASE Present(policies[recKey]) /\ Store(recKey, pol)
  <2>1. pol.phase = policies[recKey].phase /\ pol.finalizer
    BY <1>1 DEF IInv, ApiInv, GoodPolicy, PolicyObject
  <2> HIDE DEF pol
  <2>2. /\ UNCHANGED policyRef
        /\ policies' = [policies EXCEPT ![recKey] = pol]
        /\ policies \in [Policies -> GoodPolicy]
        /\ \A q \in Policies : \/ policyCache'[q] = policyCache[q]
                               \/ (q = recKey /\ policyCache'[q] = pol)
    BY <1>4 DEF Store, IInv, ApiInv
  <2>3. /\ \A q \in Policies : q # recKey => policies'[q] = policies[q]
        /\ policies'[recKey] = pol
    BY <1>1, <2>2
  <2>4. \A q \in Policies : Kept(q) => Kept(q)'
    BY <1>4, <2>1, <2>3 DEF Kept, Present
  <2>5. SlotHasPolicy'
    BY <1>1, <2>2, <2>4, SlotKept, GateSlots
  <2>6. CacheOwned'
    BY <1>1, <1>4, <2>1, <2>2, <2>3
    DEF SlotInv, CacheOwned, RecOwned, LiveOwned, Kept, Present
  <2>7. RecOwned'
    BY <1>1 DEF RecOwned, Acting
  <2> QED
    BY <2>5, <2>6, <2>7 DEF SlotInv
<1> QED
  BY <1>2, <1>3, <1>4

\* The rest of a reconcile keeps phases and finalizers, and takes a slot only
\* past AddFinalizer.
LEMMA ActingSlots ==
    ASSUME IInv, SlotInv,
           \/ PersistMode \/ GetWorkload \/ PersistAdopt \/ Settle
           \/ PersistDone \/ Detect \/ Guard \/ DryRun \/ PersistRestart
           \/ Dispatch
    PROVE  SlotInv'
<1>1. recPC \in Acting /\ recKey \in Policies /\ gate \in Gates
  <2>1. recPC \in Acting
    BY DEF PersistMode, GetWorkload, PersistAdopt, Settle, PersistDone, Detect,
           Guard, DryRun, PersistRestart, Dispatch, Acting, RecPCs
  <2> QED
    BY <2>1 DEF Acting, IInv, RecInv, GateInv
<1>2. SameMarks /\ UNCHANGED policyRef
  <2>1. \/ UNCHANGED apiVars
        \/ \E st, err, fault : Persist(recKey, recPol, st, err, fault)
    BY DEF PersistMode, GetWorkload, PersistAdopt, Settle, PersistDone, Detect,
           Guard, DryRun, PersistRestart, Dispatch, PersistThen
  <2> QED
    BY <1>1, <2>1, WritesKeepMarks
<1>3. GoesOn
  <2>1. {"getWorkload", "settle", "persistAdopt", "persistDone", "detect",
         "guard", "dryRun", "persistRestart", "dispatch"} \subseteq Acting
    BY DEF Acting, RecPCs
  <2>2. CASE PersistMode \/ PersistAdopt \/ PersistRestart
    BY <1>1, <2>1, <2>2, ReconcileGoesOn
    DEF PersistMode, PersistAdopt, PersistRestart
  <2>3. CASE GetWorkload
    BY <1>1, <2>1, <2>3, ReconcileGoesOn DEF GetWorkload, GoesOn
  <2>4. CASE Settle \/ PersistDone \/ Detect \/ Guard \/ DryRun \/ Dispatch
    BY <1>1, <2>1, <2>4, ReconcileGoesOn
    DEF Settle, PersistDone, Detect, Guard, DryRun, Dispatch
  <2> QED
    BY <2>2, <2>3, <2>4
<1>4. OwnSlot
  <2>1. \/ gate' = gate
        \/ gate' = Release(gate, RecWorkload)
        \/ \E t : gate' = TryAcquire(gate, RecWorkload, t)
    BY DEF PersistMode, GetWorkload, PersistAdopt, Settle, PersistDone, Detect,
           Guard, DryRun, PersistRestart, Dispatch
  <2> QED
    BY <1>1, <2>1, GateSlots
<1> QED
  BY <1>2, <1>3, <1>4, SameMarksSlots

\* The expirer writes statuses and frees slots.
LEMMA ExpirerSlots ==
    ASSUME IInv, SlotInv, Expirer
    PROVE  SlotInv'
<1>1. gate \in Gates /\ UNCHANGED recVars
  BY DEF IInv, GateInv, Expirer, ExpireSlots, ListPolicies, SweepPolicy,
         ReleaseKey
<1>2. SameMarks /\ UNCHANGED policyRef
  <2>1. \/ UNCHANGED apiVars
        \/ \E p \in Policies : \E copy, st, err, fault :
              Persist(p, copy, st, err, fault)
    BY DEF Expirer, ExpireSlots, ListPolicies, SweepPolicy, ReleaseKey
  <2> QED
    BY <2>1, WritesKeepMarks
<1>3. OwnSlot
  <2>1. \/ gate' = gate
        \/ gate' = ExpireOlderThan(gate, now, Timeout)
        \/ \E w \in Workloads : gate' = Release(gate, w)
    BY DEF Expirer, ExpireSlots, ListPolicies, SweepPolicy, ReleaseKey
  <2> QED
    BY <1>1, <2>1, GateSlots
<1> QED
  BY <1>1, <1>2, <1>3, ReconcileGoesOn, SameMarksSlots

\* Users create policies without a finalizer, and delete those that have one
\* by marking them.
LEMMA PolicyEditSlots ==
    ASSUME IInv, SlotInv, NEW p \in Policies,
           CreatePolicy(p) \/ EditMode(p) \/ DeletePolicy(p)
    PROVE  SlotInv'
<1>1. /\ gate \in Gates /\ gate' = gate
      /\ recPC' = recPC /\ recKey' = recKey
      /\ policies[p] \in PolicyObject
  BY DEF IInv, GateInv, ApiInv, GoodPolicy, CreatePolicy, EditMode,
         DeletePolicy, UserEdit, recVars
<1>2. PICK pol : /\ Store(p, pol)
                 /\ \/ pol.phase = "live" /\ ~pol.finalizer
                       /\ ~Present(policies[p])
                    \/ pol.phase = policies[p].phase
                       /\ pol.finalizer = policies[p].finalizer
                    \/ pol.phase = "deleting" /\ LiveOwned(policies[p])
                       /\ pol.finalizer
                    \/ pol.phase = "absent" /\ ~pol.finalizer
                       /\ policies[p].phase = "live" /\ ~policies[p].finalizer
  <2>1. CASE CreatePolicy(p)
    <3>1. \A m, rv : /\ NewPolicy(m, rv).phase = "live"
                     /\ ~NewPolicy(m, rv).finalizer
      BY DEF NewPolicy, NoPolicy
    <3> QED
      BY <2>1, <3>1 DEF CreatePolicy, UserEdit
  <2>2. CASE EditMode(p)
    <3> DEFINE pol == [policies[p] EXCEPT !.dryRun = ~@, !.rv = @ + 1]
    <3>1. /\ pol.phase = policies[p].phase
          /\ pol.finalizer = policies[p].finalizer
      BY <1>1 DEF PolicyObject
    <3> HIDE DEF pol
    <3>2. Store(p, pol)
      BY <2>2 DEF EditMode, UserEdit, pol
    <3> QED
      BY <3>1, <3>2
  <2>3. CASE DeletePolicy(p)
    <3> DEFINE gone == [NoPolicy EXCEPT !.rv = policies[p].rv + 1]
               going == [policies[p] EXCEPT !.phase = "deleting", !.rv = @ + 1]
    <3>1. gone.phase = "absent" /\ ~gone.finalizer
      BY DEF NoPolicy
    <3>2. going.phase = "deleting" /\ going.finalizer = policies[p].finalizer
      BY <1>1 DEF PolicyObject
    <3> HIDE DEF gone, going
    <3>3. /\ policies[p].phase = "live"
          /\ Store(p, IF policies[p].finalizer THEN going ELSE gone)
      BY <2>3 DEF DeletePolicy, UserEdit, gone, going
    <3>4. CASE policies[p].finalizer
      BY <3>2, <3>3, <3>4 DEF LiveOwned
    <3>5. CASE ~policies[p].finalizer
      BY <3>1, <3>3, <3>5
    <3> QED
      BY <3>4, <3>5
  <2> QED
    BY <2>1, <2>2, <2>3
<1>3. /\ UNCHANGED policyRef
      /\ \A q \in Policies : q # p => policies'[q] = policies[q]
      /\ policies'[p] = pol
      /\ \A q \in Policies : \/ policyCache'[q] = policyCache[q]
                             \/ (q = p /\ policyCache'[q] = pol)
  BY <1>2 DEF Store, IInv, ApiInv
<1>4. \A q \in Policies : Kept(q) => Kept(q)'
  BY <1>2, <1>3 DEF Kept, Present, LiveOwned
<1>5. SlotHasPolicy'
  BY <1>1, <1>3, <1>4, SlotKept, GateSlots
<1>6. CacheOwned'
  BY <1>2, <1>3, <1>4 DEF SlotInv, CacheOwned, LiveOwned, Kept, Present
<1>7. RecOwned'
  <2>1. recPC # "idle" => recKey \in Policies
    BY DEF IInv, RecInv
  <2>2. recPC \in Acting => recPC # "idle"
    BY DEF Acting
  <2>3. recPC' \in Acting => Kept(recKey)'
    BY <1>1, <1>4, <2>1, <2>2 DEF SlotInv, RecOwned
  <2>4. recPC' = "finalize" =>
           ~LiveOwned(policyCache'[recKey']) /\ ~LiveOwned(policies'[recKey'])
    BY <1>1, <1>2, <1>3, <2>1 DEF SlotInv, RecOwned, LiveOwned
  <2>5. recPC' = "addFinalizer" /\ policyCache'[recKey'].phase = "deleting" =>
           policies'[recKey'].phase = "deleting"
    BY <1>1, <1>2, <1>3, <2>1
    DEF SlotInv, RecOwned, CacheOwned, LiveOwned, Present
  <2> QED
    BY <2>3, <2>4, <2>5 DEF RecOwned
<1> QED
  BY <1>5, <1>6, <1>7 DEF SlotInv

\* Caches that catch up, a new leader, and everybody else.
LEMMA OtherSlots ==
    ASSUME IInv, SlotInv,
           \/ Tick \/ Failover
           \/ \E p \in Policies : \/ SampleEvent(p) \/ SyncPolicy(p)
                                  \/ LateDispatch(p)
           \/ \E key \in Policies \cup Workloads : Stall(key)
           \/ \E w \in Workloads :
                 \/ SyncWorkload(w) \/ ExternalRollout(w) \/ Disturb(w)
                 \/ DeleteWorkload(w) \/ RecreateWorkload(w)
                 \/ ChangeStrategy(w) \/ Progress(w)
    PROVE  SlotInv'
<1>1. gate \in Gates /\ (gate' = gate \/ gate' = EmptyGate)
  BY DEF IInv, GateInv, Tick, Failover, SampleEvent, SyncPolicy, LateDispatch,
         Stall, SyncWorkload, ExternalRollout, Disturb, DeleteWorkload,
         RecreateWorkload, ChangeStrategy, Progress, ChangeWorkload
<1>2. UNCHANGED recVars \/ recPC' = "idle"
  BY DEF Tick, Failover, ResetRec, SampleEvent, SyncPolicy, LateDispatch,
         Stall, SyncWorkload, ExternalRollout, Disturb, DeleteWorkload,
         RecreateWorkload, ChangeStrategy, Progress, ChangeWorkload
<1>3. /\ UNCHANGED <<policyRef, policies>>
      /\ \A p \in Policies : policyCache'[p] \in {policyCache[p], policies[p]}
  BY DEF IInv, ApiInv, apiVars, Tick, Failover, SampleEvent, SyncPolicy,
         LateDispatch, Stall, SyncWorkload, ExternalRollout, Disturb,
         DeleteWorkload, RecreateWorkload, ChangeStrategy, Progress,
         ChangeWorkload
<1>4. SameMarks
  BY <1>3 DEF SameMarks
<1> QED
  BY <1>1, <1>2, <1>3, <1>4, GateSlots, ReconcileGoesOn, SameMarksSlots
  DEF GoesOn

\* A controller that has just started.
LEMMA InitSlots == Init => SlotInv
<1> SUFFICES ASSUME Init PROVE SlotInv
  OBVIOUS
<1>1. SlotHasPolicy
  BY DEF Init, SlotHasPolicy, Holds, EmptyGate
<1>2. \A p \in Policies : /\ policies[p].phase = "live"
                          /\ ~policies[p].finalizer
                          /\ policyCache[p] = policies[p]
  <2>1. \A m, rv : /\ NewPolicy(m, rv).phase = "live"
                   /\ ~NewPolicy(m, rv).finalizer
    BY DEF NewPolicy, NoPolicy
  <2> QED
    BY <2>1 DEF Init
<1>3. CacheOwned
  BY <1>2 DEF CacheOwned, LiveOwned
<1>4. RecOwned
  BY DEF Init, RecIdle, RecOwned, Acting
<1> QED
  BY <1>1, <1>3, <1>4 DEF SlotInv

\* Every step keeps SlotInv.
LEMMA NextSlots == IInv /\ SlotInv /\ [Next]_vars => SlotInv'
<1> SUFFICES ASSUME IInv, SlotInv, [Next]_vars PROVE SlotInv'
  OBVIOUS
<1>1. CASE Reconcile
  BY <1>1, GetPolicySlots, FinalizeSlots, AddFinalizerSlots, ActingSlots
  DEF Reconcile
<1>2. CASE Expirer
  BY <1>2, ExpirerSlots
<1>3. CASE Environment
  BY <1>3, PolicyEditSlots, OtherSlots DEF Environment
<1>4. CASE UNCHANGED vars
  BY <1>4, UnwrittenSlots, GateSlots, ReconcileGoesOn
  DEF vars, IInv, GateInv
<1> QED
  BY <1>1, <1>2, <1>3, <1>4 DEF Next

\* A held slot belongs to a policy that still has its finalizer, so a later
\* reconcile can give it back: whatever the caches show, no deletion, failover
\* or lost update strands a slot (PolicyFinalizer, reconciler.go:37-40).
THEOREM SlotTheorem == Spec => []SlotHasPolicy
<1>1. Init => SlotInv
  BY InitSlots
<1>2. IInv /\ SlotInv /\ [Next]_vars => SlotInv'
  BY NextSlots
<1>3. SlotInv => SlotHasPolicy
  BY DEF SlotInv
<1> QED
  BY <1>1, <1>2, <1>3, Invariance, PTL DEF Spec

-----------------------------------------------------------------------------
\* The mode announced is the mode acted in.  What this needs: past PersistMode
\* the status of a reconcile's copy has the mode of its spec, a real restart
\* is only booked under an enforcing one, and until it is sent nobody else
\* writes another mode but by overwriting the booking.

AgreedMode ==
    recPC \in Acting \ {"persistMode"} => recPol.status.dryRun = recPol.dryRun

EnforcedSpec == recPC \in {"persistRestart", "dispatch"} => ~recPol.dryRun

EnforcedStatus ==
    recPC = "dispatch" /\ recKey \notin overwritten =>
        ~policies[recKey].status.dryRun

ModeInv == AgreedMode /\ EnforcedSpec /\ EnforcedStatus

\* No status turns to dry-run but by a write over a booking it did not know.
ModesKept ==
    /\ overwritten \subseteq overwritten'
    /\ \A p \in Policies : policies'[p].status.dryRun =>
          policies[p].status.dryRun \/ p \in overwritten'
                                    \/ ~(recPC = "dispatch" /\ recKey = p)

\* Steps that leave the reconcile alone, or end it.
LEMMA KeepsMode ==
    ASSUME IInv, ModeInv, ModesKept, UNCHANGED recVars \/ recPC' = "idle"
    PROVE  ModeInv'
<1>1. CASE recPC' = "idle"
  BY <1>1 DEF ModeInv, AgreedMode, EnforcedSpec, EnforcedStatus, Acting
<1>2. CASE UNCHANGED recVars
  <2>1. recPC = "dispatch" => recKey \in Policies
    BY DEF IInv, RecInv
  <2> QED
    BY <1>2, <2>1
    DEF ModeInv, AgreedMode, EnforcedSpec, EnforcedStatus, ModesKept, recVars
<1> QED
  BY <1>1, <1>2

\* Goto keeps the copy of the policy.
LEMMA GotoMode ==
    ASSUME ModeInv, recPC \in Acting \ {"persistMode"}, NEW pc, pc # "dispatch",
           Goto(pc), pc = "persistRestart" => ~recPol.dryRun
    PROVE  ModeInv'
  BY DEF ModeInv, AgreedMode, EnforcedSpec, EnforcedStatus, Goto

\* The modes that writes leave behind.
LEMMA WritesKeepModes ==
    ASSUME IInv
    PROVE  /\ UNCHANGED <<apiVars, overwritten>> => ModesKept
           /\ \A p \in Policies : \A copy, st, err, fault :
                 /\ st \in Status /\ st.dryRun = copy.status.dryRun
                 /\ Persist(p, copy, st, err, fault)
                 => ModesKept
           /\ recPC # "dispatch" /\ overwritten \subseteq overwritten'
                 => ModesKept
<1>1. policies \in [Policies -> GoodPolicy]
  BY DEF IInv, ApiInv
<1>2. UNCHANGED <<apiVars, overwritten>> => ModesKept
  BY DEF ModesKept, apiVars
<1>3. ASSUME NEW p \in Policies, NEW copy, NEW st, NEW err, NEW fault,
             st.dryRun = copy.status.dryRun, Persist(p, copy, st, err, fault)
      PROVE  ModesKept
  <2> DEFINE pol == [policies[p] EXCEPT !.status = st, !.rv = @ + 1]
  <2>1. CASE UNCHANGED <<apiVars, overwritten>>
    BY <1>2, <2>1
  <2>2. CASE /\ Store(p, pol)
             /\ overwritten' = IF Books(policies[p].status) = Books(copy.status)
                               THEN overwritten ELSE overwritten \cup {p}
    <3>1. pol.status = st
      BY <1>1 DEF GoodPolicy, PolicyObject
    <3> HIDE DEF pol
    <3>2. /\ policies'[p] = pol
          /\ \A q \in Policies : q # p => policies'[q] = policies[q]
      BY <1>1, <2>2 DEF Store
    <3>3. p \notin overwritten' => policies[p].status.dryRun = copy.status.dryRun
      BY <2>2 DEF Books
    <3> QED
      BY <1>3, <2>2, <3>1, <3>2, <3>3 DEF ModesKept
  <2> QED
    BY <1>3, <2>1, <2>2 DEF Persist
<1>4. recPC # "dispatch" /\ overwritten \subseteq overwritten' => ModesKept
  BY DEF ModesKept
<1> QED
  BY <1>2, <1>3, <1>4

\* The modes the controller writes.
LEMMA WrittenModes ==
    ASSUME NEW st \in Status
    PROVE  /\ \A o : CompleteInFlight(st, o).dryRun = st.dryRun
           /\ \A t : RecomputeObservability(st, t).dryRun = st.dryRun
           /\ \A t, ver : ApplyRestart(st, ver, t).dryRun = st.dryRun
           /\ \A uid : AdoptWorkload(st, uid).dryRun = st.dryRun
           /\ \A mode : [st EXCEPT !.dryRun = mode].dryRun = mode
  BY DEF Status, CompleteInFlight, RecomputeObservability, ApplyRestart,
         AdoptWorkload

\* A Persist in the middle of a reconcile: the copy gets the status written.
LEMMA PersistThenMode ==
    ASSUME IInv, ModeInv, recPC \in Acting, recPC # "dispatch",
           NEW st \in Status, st.dryRun = recPol.dryRun,
           NEW pc, pc \in {"persistRestart", "dispatch"} => ~recPol.dryRun,
           PersistThen(st, pc)
    PROVE  ModeInv'
<1>1. /\ recKey \in Policies /\ recPol \in PolicyObject
      /\ policies \in [Policies -> GoodPolicy]
      /\ policies[recKey] \in PolicyObject
  BY DEF IInv, RecInv, ApiInv, GoodPolicy, Acting
<1>2. CASE recPC' = "idle"
  BY <1>2 DEF ModeInv, AgreedMode, EnforcedSpec, EnforcedStatus, Acting
<1>3. CASE recPC' # "idle"
  <2>1. /\ recPC' = pc /\ recKey' = recKey
        /\ recPol' = Persisted(recKey, recPol, st)
        /\ Store(recKey, [policies[recKey] EXCEPT !.status = st, !.rv = @ + 1])
    BY <1>3 DEF PersistThen, Return, ResetRec, Persist
  <2>2. recPol'.status = st /\ recPol'.dryRun = recPol.dryRun
    BY <1>1, <2>1 DEF Persisted, PolicyObject
  <2>3. [policies[recKey] EXCEPT !.status = st, !.rv = @ + 1].status = st
    BY <1>1 DEF PolicyObject
  <2>4. policies'[recKey].status = st
    BY <1>1, <2>1, <2>3 DEF Store
  <2> QED
    BY <2>1, <2>2, <2>4 DEF ModeInv, AgreedMode, EnforcedSpec, EnforcedStatus
<1> QED
  BY <1>2, <1>3

\* The status writes of the reconciler.
LEMMA RecWritesMode ==
    ASSUME IInv, ModeInv,
           PersistMode \/ PersistAdopt \/ PersistDone \/ PersistRestart
    PROVE  ModeInv'
<1>1. /\ recPC \in Acting /\ recPC # "dispatch" /\ recKey \in Policies
      /\ recPol \in GoodPolicy /\ recPol.status \in Status
      /\ recPol.dryRun \in BOOLEAN /\ recNow \in Time /\ recWl.uid \in Uid
      /\ recPC # "persistMode" => recPol.status.dryRun = recPol.dryRun
  <2>1. recPC \in Acting /\ recPC # "idle" /\ recPC # "dispatch"
    BY DEF PersistMode, PersistAdopt, PersistDone, PersistRestart, Acting, RecPCs
  <2>2. recWl \in WorkloadObject /\ recPol \in GoodPolicy /\ recKey \in Policies
        /\ recNow \in Time
    BY <2>1 DEF IInv, RecInv
  <2> QED
    BY <2>1, <2>2
    DEF WorkloadObject, Uid, ModeInv, AgreedMode, GoodPolicy, GoodStatus,
        PolicyObject
<1>2. CASE PersistMode
  <2> DEFINE st == [recPol.status EXCEPT !.dryRun = recPol.dryRun]
  <2>1. st \in Status /\ st.dryRun = recPol.dryRun
    BY <1>1 DEF Status
  <2> QED
    BY <1>1, <1>2, <2>1, PersistThenMode DEF PersistMode
<1>3. CASE PersistAdopt
  <2> DEFINE st == AdoptWorkload(recPol.status, recWl.uid)
  <2>1. st.dryRun = recPol.dryRun
    BY <1>1, <1>3, WrittenModes DEF PersistAdopt
  <2>2. st \in Status
    BY <1>1, GoodWrites DEF GoodPolicy, GoodStatus
  <2> QED
    BY <1>1, <1>3, <2>1, <2>2, PersistThenMode DEF PersistAdopt
<1>4. CASE PersistDone
  <2>1. recPC' = "idle"
    BY <1>4 DEF PersistDone, Return, ResetRec
  <2> QED
    BY <2>1 DEF ModeInv, AgreedMode, EnforcedSpec, EnforcedStatus, Acting
<1>5. CASE PersistRestart
  <2> DEFINE st == ApplyRestart(recPol.status,
                                TemplateVersion(RecWorkload, recWl), recNow)
  <2>1. ~recPol.dryRun
    BY <1>5 DEF PersistRestart, ModeInv, EnforcedSpec
  <2>2. /\ recNow \in Time /\ TemplateVersion(RecWorkload, recWl) \in Version
        /\ recPol.status \in GoodStatus
        /\ ~BreakerTripped(recPol.status,
                           TemplateVersion(RecWorkload, recWl), recNow)
    BY <1>1, <1>5, Reconciling DEF IInv, RecInv, GuardsPassed, PersistRestart
  <2>3. st \in Status /\ st \in GoodStatus /\ st.dryRun = recPol.dryRun
    BY <1>1, <1>5, <2>2, GoodWrites, WrittenModes
    DEF GoodStatus, PersistRestart
  <2> HIDE DEF st
  <2>4. RestartStatus = RecomputeObservability(st, recNow)
    BY DEF RestartStatus, st
  <2>5. RestartStatus \in Status /\ RestartStatus.dryRun = recPol.dryRun
    BY <2>2, <2>3, <2>4, GoodWrites, WrittenModes DEF GoodStatus
  <2> QED
    BY <1>1, <1>5, <2>1, <2>5, PersistThenMode DEF PersistRestart
<1> QED
  BY <1>2, <1>3, <1>4, <1>5

\* The steps of a reconcile that write no status.
LEMMA RecStepsMode ==
    ASSUME IInv, ModeInv,
           \/ \E p \in Policies : GetPolicy(p)
           \/ Finalize \/ AddFinalizer \/ GetWorkload \/ Settle \/ Detect
           \/ Guard \/ DryRun \/ Dispatch
    PROVE  ModeInv'
<1>1. CASE recPC' = "idle"
  BY <1>1 DEF ModeInv, AgreedMode, EnforcedSpec, EnforcedStatus, Acting
<1>2. ASSUME NEW p \in Policies, GetPolicy(p), recPC' # "idle"
      PROVE  ModeInv'
  <2>1. /\ recPol' = policyCache[p]
        /\ recPC' = IF policyCache[p].phase = "deleting" THEN "finalize"
                    ELSE IF ~policyCache[p].finalizer THEN "addFinalizer"
                    ELSE IF policyCache[p].status.dryRun # policyCache[p].dryRun
                         THEN "persistMode" ELSE "getWorkload"
    BY <1>2 DEF GetPolicy, recVars
  <2> QED
    BY <2>1 DEF ModeInv, AgreedMode, EnforcedSpec, EnforcedStatus, Acting
<1>3. CASE GetWorkload /\ recPC' # "idle"
  <2>1. /\ recPC = "getWorkload" /\ recPC' \in {"persistAdopt", "settle"}
        /\ recPol' = recPol
    BY <1>3 DEF GetWorkload, Return, ResetRec
  <2> QED
    BY <2>1 DEF ModeInv, AgreedMode, EnforcedSpec, EnforcedStatus, Acting, RecPCs
<1>4. CASE (Settle \/ Detect \/ Guard) /\ recPC' # "idle"
  <2>1. recPC \in Acting \ {"persistMode"}
    BY <1>4 DEF Settle, Detect, Guard, Acting, RecPCs
  <2>2. PICK pc : /\ Goto(pc) /\ pc # "dispatch"
                  /\ pc = "persistRestart" => ~recPol.dryRun
    <3>1. CASE Settle
      BY <1>4, <3>1 DEF Settle, Return, ResetRec
    <3>2. CASE Detect
      BY <1>4, <3>2 DEF Detect, Return, ResetRec
    <3>3. CASE Guard
      BY <1>4, <3>3 DEF Guard, Return, ResetRec
    <3> QED
      BY <1>4, <3>1, <3>2, <3>3
  <2> QED
    BY <2>1, <2>2, GotoMode
<1>5. Finalize \/ AddFinalizer \/ DryRun \/ Dispatch => recPC' = "idle"
  BY DEF Finalize, AddFinalizer, DryRun, Dispatch, Return, ResetRec
<1> QED
  BY <1>1, <1>2, <1>3, <1>4, <1>5

\* The expirer writes the mode it has read.
LEMMA ExpirerMode ==
    ASSUME IInv, ModeInv, Expirer
    PROVE  ModeInv'
<1>1. UNCHANGED recVars
  BY DEF Expirer, ExpireSlots, ListPolicies, SweepPolicy, ReleaseKey
<1>2. CASE UNCHANGED <<apiVars, overwritten>>
  BY <1>1, <1>2, WritesKeepModes, KeepsMode
<1>3. ASSUME NEW p \in Policies, SweepPolicy(p)
      PROVE  ModeInv'
  <2>1. expList[p].status \in Status
    BY DEF IInv, ExpInv, GoodPolicy, GoodStatus
  <2>2. CASE UNCHANGED <<apiVars, overwritten>>
    BY <1>1, <2>2, WritesKeepModes, KeepsMode
  <2>3. ASSUME NEW o \in Terminal, NEW err, NEW fault,
               Persist(p, expList[p],
                       CompleteInFlight(expList[p].status, o), err, fault)
        PROVE  ModeInv'
    <3> DEFINE st == CompleteInFlight(expList[p].status, o)
    <3>1. st \in Status /\ st.dryRun = expList[p].status.dryRun
      <4>1. expList[p].status \in GoodStatus
        BY DEF IInv, ExpInv, GoodPolicy
      <4> QED
        BY <2>1, <4>1, GoodWrites, WrittenModes DEF GoodStatus
    <3> HIDE DEF st
    <3>2. Persist(p, expList[p], st, err, fault)
      BY <2>3 DEF st
    <3> QED
      BY <1>1, <3>1, <3>2, WritesKeepModes, KeepsMode
  <2>4. \A unread \in BOOLEAN :
          LET o == classifyInFlight(policyRef[p], expList[p], unread)
          IN  o # None => o \in Terminal
    BY DEF classifyInFlight, Terminal, Outcomes
  <2> QED
    BY <1>3, <2>2, <2>3, <2>4 DEF SweepPolicy
<1> QED
  BY <1>2, <1>3 DEF Expirer, ExpireSlots, ListPolicies, ReleaseKey

\* Users write no status; a policy that goes is dropped with its booking.
LEMMA PolicyEditMode ==
    ASSUME IInv, ModeInv, NEW p \in Policies,
           CreatePolicy(p) \/ EditMode(p) \/ DeletePolicy(p)
    PROVE  ModeInv'
<1>1. /\ policies \in [Policies -> GoodPolicy] /\ policies[p] \in PolicyObject
      /\ UNCHANGED recVars /\ overwritten \subseteq overwritten'
  BY DEF IInv, ApiInv, GoodPolicy, CreatePolicy, EditMode, DeletePolicy,
         UserEdit, ForgottenIfGone, Forgotten
<1>2. PICK pol : /\ Store(p, pol)
                 /\ pol.status.dryRun => policies[p].status.dryRun
  <2>1. /\ \A m, rv : ~NewPolicy(m, rv).status.dryRun
        /\ \A rv : ~[NoPolicy EXCEPT !.rv = rv].status.dryRun
    BY DEF NewPolicy, NoPolicy, InitStatus
  <2>2. CASE CreatePolicy(p)
    BY <2>1, <2>2 DEF CreatePolicy, UserEdit
  <2>3. CASE EditMode(p)
    <3> DEFINE pol == [policies[p] EXCEPT !.dryRun = ~@, !.rv = @ + 1]
    <3>1. pol.status = policies[p].status
      BY <1>1 DEF PolicyObject
    <3> HIDE DEF pol
    <3>2. Store(p, pol)
      BY <2>3 DEF EditMode, UserEdit, pol
    <3> QED
      BY <3>1, <3>2
  <2>4. CASE DeletePolicy(p)
    <3> DEFINE gone == [NoPolicy EXCEPT !.rv = policies[p].rv + 1]
               going == [policies[p] EXCEPT !.phase = "deleting", !.rv = @ + 1]
    <3>1. going.status = policies[p].status /\ ~gone.status.dryRun
      BY <1>1, <2>1 DEF PolicyObject
    <3> HIDE DEF gone, going
    <3>2. Store(p, IF policies[p].finalizer THEN going ELSE gone)
      BY <2>4 DEF DeletePolicy, UserEdit, gone, going
    <3> QED
      BY <3>1, <3>2
  <2> QED
    BY <2>2, <2>3, <2>4
<1>3. /\ policies'[p] = pol
      /\ \A q \in Policies : q # p => policies'[q] = policies[q]
  BY <1>1, <1>2 DEF Store
<1>4. ModesKept
  BY <1>1, <1>2, <1>3 DEF ModesKept
<1> QED
  BY <1>1, <1>4, KeepsMode

\* Everybody else writes no policy.
LEMMA OtherMode ==
    ASSUME IInv, ModeInv,
           \/ Tick \/ Failover
           \/ \E p \in Policies : \/ SampleEvent(p) \/ SyncPolicy(p)
                                  \/ LateDispatch(p)
           \/ \E key \in Policies \cup Workloads : Stall(key)
           \/ \E w \in Workloads :
                 \/ SyncWorkload(w) \/ ExternalRollout(w) \/ Disturb(w)
                 \/ DeleteWorkload(w) \/ RecreateWorkload(w)
                 \/ ChangeStrategy(w) \/ Progress(w)
    PROVE  ModeInv'
<1>1. UNCHANGED recVars \/ recPC' = "idle"
  BY DEF Tick, Failover, ResetRec, SampleEvent, SyncPolicy, LateDispatch,
         Stall, SyncWorkload, ExternalRollout, Disturb, DeleteWorkload,
         RecreateWorkload, ChangeStrategy, Progress, ChangeWorkload
<1>2. UNCHANGED <<policies, overwritten>>
  BY DEF apiVars, Tick, Failover, SampleEvent, SyncPolicy,
         LateDispatch, Stall, SyncWorkload, ExternalRollout, Disturb,
         DeleteWorkload, RecreateWorkload, ChangeStrategy, Progress,
         ChangeWorkload
<1> QED
  BY <1>1, <1>2, KeepsMode DEF ModesKept

\* Every step keeps ModeInv.
LEMMA NextMode == IInv /\ ModeInv /\ [Next]_vars => ModeInv'
<1> SUFFICES ASSUME IInv, ModeInv, [Next]_vars PROVE ModeInv'
  OBVIOUS
<1>1. CASE Reconcile
  BY <1>1, RecWritesMode, RecStepsMode DEF Reconcile
<1>2. CASE Expirer
  BY <1>2, ExpirerMode
<1>3. CASE Environment
  BY <1>3, PolicyEditMode, OtherMode DEF Environment
<1>4. CASE UNCHANGED vars
  BY <1>4, KeepsMode, WritesKeepModes DEF vars
<1> QED
  BY <1>1, <1>2, <1>3, <1>4 DEF Next

\* A restart of the leader in office is sent by a reconcile past
\* PersistRestart.
LEMMA SentInMode ==
    ASSUME IInv, ModeInv, [Next]_vars, NEW p \in Policies \ overwritten,
           Len(dispatches'[p]) > Len(dispatches[p]), delayed'[p] = delayed[p]
    PROVE  ~policies[p].status.dryRun
<1>1. /\ dispatches \in [Policies -> Seq(Restart)]
      /\ delayed \in [Policies -> Restart \cup {None}]
      /\ Len(dispatches[p]) \in Nat
  BY DEF IInv, EnvInv
<1>2. Next
  BY <1>1 DEF vars, sendVars
<1>3. ASSUME NEW q \in Policies, ForgottenIfGone(q)
      PROVE  FALSE
  <2>1. dispatches'[p] = dispatches[p] \/ dispatches'[p] = <<>>
    BY <1>1, <1>3 DEF ForgottenIfGone, Forgotten
  <2> QED
    BY <1>1, <2>1
<1>4. ASSUME NEW q \in Policies, LateDispatch(q)
      PROVE  FALSE
  <2>1. /\ delayed[q] # None /\ delayed'[q] = None
        /\ q # p => dispatches'[p] = dispatches[p]
    BY <1>1, <1>4 DEF LateDispatch, Landed
  <2> QED
    BY <1>1, <2>1
<1>5. CASE Dispatch
  <2>1. recPC = "dispatch" /\ recKey \in Policies
    BY <1>5 DEF Dispatch, IInv, RecInv
  <2>2. recKey # p => dispatches'[p] = dispatches[p]
    BY <1>1, <1>5, <2>1 DEF Dispatch, Triggered, Landed
  <2>3. recKey = p
    BY <1>1, <2>2
  <2> QED
    BY <2>1, <2>3 DEF ModeInv, EnforcedStatus
<1>6. dispatches' # dispatches
  BY <1>1
<1>7. \/ Dispatch \/ \E q \in Policies : LateDispatch(q) \/ ForgottenIfGone(q)
  <2>1. CASE Reconcile
    <3>1. CASE Finalize
      <4>1. recKey \in Policies
        BY <3>1 DEF Finalize, IInv, RecInv
      <4> QED
        BY <3>1, <4>1 DEF Finalize
    <3> QED
      BY <1>6, <2>1, <3>1
      DEF Reconcile, GetPolicy, AddFinalizer, PersistMode, GetWorkload,
          PersistAdopt, Settle, PersistDone, Detect, Guard, DryRun,
          PersistRestart, sendVars
  <2>2. CASE Expirer
    BY <1>6, <2>2 DEF Expirer, ExpireSlots, ListPolicies, SweepPolicy,
                      ReleaseKey, sendVars
  <2>3. CASE Environment
    BY <1>6, <2>3
    DEF Environment, SampleEvent, Stall, SyncPolicy, CreatePolicy, EditMode,
        DeletePolicy, SyncWorkload, ExternalRollout, Disturb, DeleteWorkload,
        RecreateWorkload, ChangeStrategy, Progress, ChangeWorkload, Tick,
        Failover, sendVars
  <2> QED
    BY <1>2, <2>1, <2>2, <2>3 DEF Next
<1> QED
  BY <1>3, <1>4, <1>5, <1>7

\* The leader in office sends no restart while the status announces dry-run,
\* however the mode is edited between the read of the policy and the patch
\* (reconciler.go:116-128 and :300-312).
THEOREM ModeTheorem == Spec => DispatchOnlyWhenEnforcing
<1>1. Init => ModeInv
  BY DEF Init, RecIdle, ModeInv, AgreedMode, EnforcedSpec, EnforcedStatus, Acting
<1>2. IInv /\ ModeInv /\ [Next]_vars => ModeInv'
  BY NextMode
<1> DEFINE Sent == \A p \in Policies \ overwritten :
                      Len(dispatches'[p]) > Len(dispatches[p])
                         /\ UNCHANGED delayed[p]
                      => ~policies[p].status.dryRun
<1>3. IInv /\ ModeInv /\ [Next]_vars => [Sent]_vars
  BY SentInMode
<1>4. [][Sent]_vars => DispatchOnlyWhenEnforcing
  BY PTL DEF DispatchOnlyWhenEnforcing
<1> HIDE DEF Sent
<1> QED
  BY <1>1, <1>2, <1>3, <1>4, Invariance, PTL DEF Spec

=============================================================================
