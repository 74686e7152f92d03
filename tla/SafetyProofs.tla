---------------------------- MODULE SafetyProofs ----------------------------
(***************************************************************************)
(* For every set of policies and workloads and every value of the limits:  *)
(* the controller implements the restart protocol, so it keeps the         *)
(* cooldown and counts the restarts of a workload object; and a record     *)
(* that says Superseded is true.  In a calm cluster, where the leader      *)
(* stays and only the controller changes templates, no restart is stacked  *)
(* on a rollout, and a record that says Settled is true.                   *)
(***************************************************************************)
EXTENDS ControllerProofs

-----------------------------------------------------------------------------
\* The refinement mapping, policy by policy.

\* The view of p does not change.
SameView(p) ==
    /\ BookView'[p] = BookView[p]
    /\ PendingView'[p] = PendingView[p]
    /\ SentView'[p] = SentView[p]
    /\ p \in overwritten' <=> p \in overwritten

\* Nothing the view of p is made of changes.
Quiet(p) ==
    /\ Protocol!BookOf(policies'[p].status) = Protocol!BookOf(policies[p].status)
    /\ delayed'[p] = delayed[p]
    /\ dispatches'[p] = dispatches[p]
    /\ p \in overwritten' <=> p \in overwritten
    /\ \/ UNCHANGED recVars
       \/ ~Sending(p) /\ ~Sending(p)'

\* The views, spelled out.
LEMMA Views ==
    /\ \A p \in Policies \cap overwritten :
          /\ BookView[p] = Protocol!NewBook
          /\ PendingView[p] = Protocol!EmptyHanded
          /\ SentView[p] = <<>>
    /\ \A p \in Policies \ overwritten :
          /\ BookView[p] = Protocol!BookOf(policies[p].status)
          /\ PendingView[p] = [h \in {"leader", "former"} |->
                IF h = "former" THEN delayed[p]
                ELSE IF Sending(p) THEN OurRestart ELSE None]
          /\ SentView[p] = dispatches[p]
    /\ \A p \in Policies :
          PendingView[p] = [h \in {"leader", "former"} |-> PendingView[p][h]]
  BY DEF BookView, PendingView, SentView, Protocol!NewBook, Protocol!BookOf,
         Protocol!EmptyHanded, Protocol!Hands, Protocol!InitStatus, InitStatus

\* A quiet policy keeps its view.
LEMMA QuietSame ==
    ASSUME NEW p \in Policies, Quiet(p)
    PROVE  SameView(p)
<1>1. UNCHANGED recVars => /\ OurRestart' = OurRestart
                           /\ Sending(p)' <=> Sending(p)
  BY DEF recVars, OurRestart, Sending
<1>2. CASE p \in overwritten
  BY <1>2 DEF Quiet, SameView, BookView, PendingView, SentView
<1>3. CASE p \notin overwritten
  <2>1. BookView'[p] = BookView[p] /\ SentView'[p] = SentView[p]
    BY <1>3 DEF Quiet, BookView, SentView, Protocol!BookOf
  <2>2. PendingView'[p] = PendingView[p]
    BY <1>1, <1>3 DEF Quiet, PendingView
  <2> QED
    BY <2>1, <2>2 DEF Quiet, SameView
<1> QED
  BY <1>2, <1>3

\* If only p changes its view, the mapped state changes at p only.
LEMMA OnlyAt ==
    ASSUME NEW p \in Policies, \A q \in Policies \ {p} : SameView(q),
           overwritten \subseteq Policies, overwritten' \subseteq Policies
    PROVE  /\ BookView' = [BookView EXCEPT ![p] = BookView'[p]]
           /\ PendingView' = [PendingView EXCEPT ![p] = PendingView'[p]]
           /\ SentView' = [SentView EXCEPT ![p] = SentView'[p]]
           /\ BookView'[p] = BookView[p] => UNCHANGED BookView
           /\ PendingView'[p] = PendingView[p] => UNCHANGED PendingView
           /\ SentView'[p] = SentView[p] => UNCHANGED SentView
           /\ (p \in overwritten' <=> p \in overwritten) => UNCHANGED overwritten
           /\ p \in overwritten' => overwritten' = overwritten \cup {p}
<1>1. \A q \in Policies \ {p} : /\ BookView'[q] = BookView[q]
                                /\ PendingView'[q] = PendingView[q]
                                /\ SentView'[q] = SentView[q]
                                /\ q \in overwritten' <=> q \in overwritten
  BY DEF SameView
<1>2. /\ BookView = [q \in Policies |-> BookView[q]]
      /\ BookView' = [q \in Policies |-> BookView'[q]]
  BY DEF BookView
<1>3. /\ PendingView = [q \in Policies |-> PendingView[q]]
      /\ PendingView' = [q \in Policies |-> PendingView'[q]]
  BY DEF PendingView
<1>4. /\ SentView = [q \in Policies |-> SentView[q]]
      /\ SentView' = [q \in Policies |-> SentView'[q]]
  BY DEF SentView
<1>5. /\ BookView' = [BookView EXCEPT ![p] = BookView'[p]]
      /\ BookView'[p] = BookView[p] => UNCHANGED BookView
  BY <1>1, <1>2
<1>6. /\ PendingView' = [PendingView EXCEPT ![p] = PendingView'[p]]
      /\ PendingView'[p] = PendingView[p] => UNCHANGED PendingView
  BY <1>1, <1>3
<1>7. /\ SentView' = [SentView EXCEPT ![p] = SentView'[p]]
      /\ SentView'[p] = SentView[p] => UNCHANGED SentView
  BY <1>1, <1>4
<1>8. /\ (p \in overwritten' <=> p \in overwritten) => UNCHANGED overwritten
      /\ p \in overwritten' => overwritten' = overwritten \cup {p}
  BY <1>1
<1> QED
  BY <1>5, <1>6, <1>7, <1>8

-----------------------------------------------------------------------------
\* The steps, mapped.

ProtocolStep == [Protocol!ProtocolNext]_(Protocol!protocolVars)

\* A policy whose bookkeeping no longer covers its restarts lapses.
LEMMA LapseStep ==
    ASSUME NEW p \in Policies, \A q \in Policies \ {p} : SameView(q),
           overwritten \subseteq Policies, overwritten' \subseteq Policies,
           p \in overwritten'
    PROVE  ProtocolStep
<1>1. /\ BookView'[p] = Protocol!NewBook
      /\ PendingView'[p] = Protocol!EmptyHanded
      /\ SentView'[p] = <<>>
  BY DEF BookView, PendingView, SentView, Protocol!NewBook, Protocol!BookOf,
         Protocol!EmptyHanded, Protocol!Hands, Protocol!InitStatus, InitStatus
<1>2. Protocol!Lapse(p)
  BY <1>1, OnlyAt DEF Protocol!Lapse
<1> QED
  BY <1>2 DEF ProtocolStep, Protocol!ProtocolNext

\* A step that is quiet for every policy is no step of the protocol.
LEMMA StutterStep ==
    ASSUME \A p \in Policies : Quiet(p),
           overwritten \subseteq Policies, overwritten' \subseteq Policies
    PROVE  ProtocolStep
<1>1. \A p \in Policies : SameView(p)
  BY QuietSame
<1>2. /\ BookView' = BookView /\ PendingView' = PendingView
      /\ SentView' = SentView /\ overwritten' = overwritten
  BY <1>1 DEF SameView, BookView, PendingView, SentView
<1> QED
  BY <1>2 DEF ProtocolStep, Protocol!protocolVars

\* A status write that changes nothing in the book: a stutter, or a lapse.
LEMMA PersistStep ==
    ASSUME IInv, NEW p \in Policies, NEW copy, NEW st, NEW err, NEW fault,
           Persist(p, copy, st, err, fault),
           Protocol!BookOf(st) = Protocol!BookOf(copy.status),
           UNCHANGED <<delayed, dispatches>>, overwritten' \subseteq Policies,
           UNCHANGED recVars \/ (recPC # "dispatch" /\ recPC' # "dispatch")
    PROVE  ProtocolStep
<1>0. /\ overwritten \subseteq Policies
      /\ policies \in [Policies -> GoodPolicy]
  BY DEF IInv, EnvInv, ApiInv
<1>1. UNCHANGED recVars \/ \A q \in Policies : ~Sending(q) /\ ~Sending(q)'
  BY DEF Sending
<1>2. \A q \in Policies \ {p} : policies'[q] = policies[q]
                                /\ (q \in overwritten' <=> q \in overwritten)
  BY <1>0 DEF Persist, Store, apiVars
<1>3. \A q \in Policies \ {p} : Quiet(q)
  BY <1>1, <1>2 DEF Quiet
<1>4. CASE p \in overwritten'
  BY <1>0, <1>3, <1>4, QuietSame, LapseStep
<1>5. CASE p \notin overwritten'
  <2>1. /\ p \notin overwritten
        /\ Protocol!BookOf(policies'[p].status)
             = Protocol!BookOf(policies[p].status)
    <3>1. CASE UNCHANGED <<apiVars, overwritten>>
      BY <1>5, <3>1 DEF apiVars
    <3>2. CASE /\ Store(p, [policies[p] EXCEPT !.status = st, !.rv = @ + 1])
               /\ overwritten' = IF Books(policies[p].status) = Books(copy.status)
                                 THEN overwritten ELSE overwritten \cup {p}
      <4>1. policies'[p].status = st
        BY <1>0, <3>2 DEF Store, GoodPolicy, PolicyObject
      <4>2. Books(policies[p].status) = Books(copy.status) /\ p \notin overwritten
        BY <1>5, <3>2
      <4> QED
        BY <4>1, <4>2 DEF Books, Protocol!BookOf
    <3> QED
      BY <3>1, <3>2 DEF Persist
  <2>2. Quiet(p)
    BY <1>1, <1>5, <2>1 DEF Quiet
  <2> QED
    BY <1>0, <1>3, <2>2, StutterStep
<1> QED
  BY <1>4, <1>5

\* The writes that leave the book alone.
LEMMA SameBooks ==
    ASSUME NEW st \in Status
    PROVE  /\ \A o : Protocol!BookOf(CompleteInFlight(st, o)) = Protocol!BookOf(st)
           /\ \A t : Protocol!BookOf(RecomputeObservability(st, t))
                       = Protocol!BookOf(st)
           /\ \A mode : Protocol!BookOf([st EXCEPT !.dryRun = mode])
                       = Protocol!BookOf(st)
  BY DEF Status, CompleteInFlight, RecomputeObservability, Protocol!BookOf

\* Steps that write no policy, send nothing and start or end no dispatch.
LEMMA QuietStep ==
    ASSUME IInv, UNCHANGED <<policies, delayed, dispatches, overwritten>>,
           UNCHANGED recVars \/ (recPC # "dispatch" /\ recPC' # "dispatch")
    PROVE  ProtocolStep
<1>1. overwritten \subseteq Policies /\ overwritten' \subseteq Policies
  BY DEF IInv, EnvInv
<1>2. \A p \in Policies : Quiet(p)
  BY DEF Quiet, Sending
<1> QED
  BY <1>1, <1>2, StutterStep

\* The reconciler's steps but for the writes and the dispatch.
LEMMA RecQuietStep ==
    ASSUME IInv,
           \/ \E p \in Policies : GetPolicy(p)
           \/ GetWorkload \/ Settle \/ Detect \/ Guard \/ DryRun
    PROVE  ProtocolStep
<1>1. UNCHANGED <<policies, delayed, dispatches, overwritten>>
  BY DEF GetPolicy, GetWorkload, Settle, Detect, Guard, DryRun, apiVars, sendVars
<1>2. UNCHANGED recVars \/ (recPC # "dispatch" /\ recPC' # "dispatch")
  BY DEF GetPolicy, GetWorkload, Settle, Detect, Guard, DryRun, Goto, Return,
         ResetRec
<1> QED
  BY <1>1, <1>2, QuietStep

\* The expirer's.
LEMMA ExpirerStep ==
    ASSUME IInv, IInv', Expirer
    PROVE  ProtocolStep
<1>1. CASE ExpireSlots \/ ListPolicies \/ \E w \in Workloads : ReleaseKey(w)
  BY <1>1, QuietStep DEF ExpireSlots, ListPolicies, ReleaseKey, apiVars, sendVars
<1>2. ASSUME NEW p \in Policies, SweepPolicy(p)
      PROVE  ProtocolStep
  <2>1. /\ UNCHANGED <<recVars, delayed, dispatches>>
        /\ expList[p].status \in Status
        /\ overwritten' \subseteq Policies
    BY <1>2, GoodPolicyUpdates DEF SweepPolicy, sendVars, IInv, ExpInv, EnvInv
  <2>2. CASE UNCHANGED <<apiVars, overwritten>>
    BY <2>1, <2>2, QuietStep DEF apiVars
  <2>3. ASSUME NEW o, NEW err, NEW fault,
               Persist(p, expList[p], CompleteInFlight(expList[p].status, o),
                       err, fault)
        PROVE  ProtocolStep
    BY <2>1, <2>3, SameBooks, PersistStep
  <2> QED
    BY <1>2, <2>2, <2>3 DEF SweepPolicy
<1> QED
  BY <1>1, <1>2 DEF Expirer

\* The mode and the end of a rollout are no business of the book.
LEMMA NoteStep ==
    ASSUME IInv, IInv', PersistMode \/ PersistDone
    PROVE  ProtocolStep
<1>0. /\ recKey \in Policies /\ recPol.status \in Status
      /\ UNCHANGED <<delayed, dispatches>> /\ overwritten' \subseteq Policies
      /\ recPC # "dispatch"
  BY GoodPolicyUpdates
  DEF PersistMode, PersistDone, sendVars, IInv, RecInv, EnvInv
<1>1. CASE PersistMode
  <2>1. PICK err, fault :
          Persist(recKey, recPol, [recPol.status EXCEPT !.dryRun = recPol.dryRun],
                  err, fault)
    BY <1>1 DEF PersistMode, PersistThen
  <2>2. recPC' # "dispatch"
    BY <1>1 DEF PersistMode, PersistThen, Return, ResetRec
  <2> QED
    BY <1>0, <2>1, <2>2, SameBooks, PersistStep
<1>2. CASE PersistDone
  <2>1. PICK err, fault : Persist(recKey, recPol, DoneStatus, err, fault)
    BY <1>2 DEF PersistDone
  <2>2. recPC' # "dispatch"
    BY <1>2 DEF PersistDone, Return, ResetRec
  <2>3. Protocol!BookOf(DoneStatus) = Protocol!BookOf(recPol.status)
    <3>1. "Settled" \in Terminal /\ "Superseded" \in Terminal
      BY DEF Terminal, Outcomes
    <3>2. \A o \in Terminal : CompleteInFlight(recPol.status, o) \in Status
      <4>1. recPol.status \in GoodStatus
        BY GoodPolicyUpdates DEF IInv, RecInv
      <4> QED
        BY <4>1, GoodWrites DEF GoodStatus
    <3>3. \A o \in Terminal :
            Protocol!BookOf(RecomputeObservability(
                                CompleteInFlight(recPol.status, o), recNow))
              = Protocol!BookOf(recPol.status)
      BY <1>0, <3>2, SameBooks
    <3> QED
      BY <3>1, <3>3 DEF DoneStatus
  <2> QED
    BY <1>0, <2>1, <2>2, <2>3, PersistStep
<1> QED
  BY <1>1, <1>2

\* What a status write of the reconciler did, when its policy has not lapsed.
LEMMA WriteParts ==
    ASSUME IInv, UidInv, recPC \in {"persistAdopt", "persistRestart"},
           NEW st, NEW pc \in RecPCs,
           PersistThen(st, pc), UNCHANGED <<delayed, dispatches>>,
           recKey \notin overwritten'
    PROVE  /\ recKey \in Policies \ overwritten
           /\ \A q \in Policies \ {recKey} : SameView(q)
           /\ \/ UNCHANGED <<policies, overwritten>> /\ recPC' = "idle"
              \/ /\ policies'[recKey].status = st
                 /\ Protocol!BookOf(policies[recKey].status)
                      = Protocol!BookOf(recPol.status)
                 /\ \/ recPC' = "idle"
                    \/ /\ recPC' = pc /\ recPol'.status = st
                       /\ UNCHANGED <<recKey, recNow>>
<1>0. /\ recKey \in Policies
      /\ policies \in [Policies -> GoodPolicy] /\ recPol \in GoodPolicy
      /\ recPC # "dispatch"
  BY DEF IInv, RecInv, ApiInv
<1>1. PICK err \in BOOLEAN, fault \in BOOLEAN :
        /\ Persist(recKey, recPol, st, err, fault)
        /\ \/ err /\ Return({recKey})
           \/ /\ ~err
              /\ recPC' = pc
              /\ recPol' = Persisted(recKey, recPol, st)
              /\ UNCHANGED <<recKey, recNow>>
  BY DEF PersistThen
<1>2. \A q \in Policies \ {recKey} :
         policies'[q] = policies[q] /\ (q \in overwritten' <=> q \in overwritten)
  BY <1>0, <1>1 DEF Persist, Store, apiVars
<1>3. \A q \in Policies \ {recKey} : ~Sending(q) /\ ~Sending(q)'
  BY <1>0, <1>1 DEF Sending, Return, ResetRec
<1>4. \A q \in Policies \ {recKey} : SameView(q)
  BY <1>2, <1>3, QuietSame DEF Quiet
<1>5. recKey \notin overwritten
  BY <1>1 DEF Persist
<1>6. err => recPC' = "idle"
  BY <1>1 DEF Return, ResetRec
<1>7. ~err => recPol'.status = st
  BY <1>0, <1>1 DEF Persisted, GoodPolicy, PolicyObject
<1>8. CASE err /\ UNCHANGED <<apiVars, overwritten>>
  BY <1>0, <1>4, <1>5, <1>6, <1>8 DEF apiVars
<1>9. CASE /\ Store(recKey, [policies[recKey] EXCEPT !.status = st, !.rv = @ + 1])
           /\ overwritten' = IF Books(policies[recKey].status)
                                  = Books(recPol.status)
                             THEN overwritten ELSE overwritten \cup {recKey}
  <2>1. policies'[recKey].status = st
    BY <1>0, <1>9 DEF Store, GoodPolicy, PolicyObject
  <2>2. Protocol!BookOf(policies[recKey].status) = Protocol!BookOf(recPol.status)
    BY <1>9 DEF Books, Protocol!BookOf
  <2> QED
    BY <1>0, <1>1, <1>4, <1>5, <1>6, <1>7, <2>1, <2>2
<1> QED
  BY <1>1, <1>8, <1>9 DEF Persist

\* A status write by which the policy lapses.
LEMMA WriteLapses ==
    ASSUME IInv, IInv', recPC # "idle", recPC # "dispatch",
           NEW st, NEW pc, PersistThen(st, pc), UNCHANGED <<delayed, dispatches>>,
           recKey \in overwritten'
    PROVE  ProtocolStep
<1>0. /\ recKey \in Policies /\ policies \in [Policies -> GoodPolicy]
      /\ overwritten \subseteq Policies /\ overwritten' \subseteq Policies
  BY DEF IInv, RecInv, ApiInv, EnvInv
<1>1. PICK err, fault : Persist(recKey, recPol, st, err, fault)
  BY DEF PersistThen
<1>2. \A q \in Policies \ {recKey} :
         policies'[q] = policies[q] /\ (q \in overwritten' <=> q \in overwritten)
  BY <1>0, <1>1 DEF Persist, Store, apiVars
<1>3. \A q \in Policies \ {recKey} : ~Sending(q) /\ ~Sending(q)'
  BY DEF Sending, PersistThen, Return, ResetRec
<1>4. \A q \in Policies \ {recKey} : SameView(q)
  BY <1>2, <1>3, QuietSame DEF Quiet
<1> QED
  BY <1>0, <1>4, LapseStep

\* A newer object is adopted.
LEMMA AdoptStep ==
    ASSUME IInv, IInv', UidInv, PersistAdopt
    PROVE  ProtocolStep
<1> DEFINE st == AdoptWorkload(recPol.status, recWl.uid)
           p == recKey
<1>0. /\ recPC = "persistAdopt" /\ "settle" \in RecPCs
      /\ PersistThen(st, "settle")
      /\ UNCHANGED <<delayed, dispatches>>
      /\ recPol.status \in Status
      /\ recWl.uid \in Nat /\ recPol.status.uid \in Nat
      /\ recPol.status.uid < recWl.uid
      /\ overwritten \subseteq Policies /\ overwritten' \subseteq Policies
  BY UidTypes, ActingOn
  DEF PersistAdopt, sendVars, RecPCs, UidInv, RecUids, IInv, EnvInv
<1>1. CASE p \in overwritten'
  BY <1>0, <1>1, WriteLapses
<1>2. CASE p \notin overwritten'
  <2>1. /\ p \in Policies \ overwritten
        /\ \A q \in Policies \ {p} : SameView(q)
        /\ \/ UNCHANGED <<policies, overwritten>> /\ recPC' = "idle"
           \/ /\ policies'[p].status = st
              /\ Protocol!BookOf(policies[p].status)
                   = Protocol!BookOf(recPol.status)
              /\ recPC' \in {"idle", "settle"}
    BY <1>0, <1>2, WriteParts
  <2>2. CASE UNCHANGED <<policies, overwritten>> /\ recPC' = "idle"
    BY <1>0, <2>2, QuietStep
  <2>3. CASE /\ policies'[p].status = st
             /\ Protocol!BookOf(policies[p].status)
                   = Protocol!BookOf(recPol.status)
             /\ recPC' \in {"idle", "settle"}
    <3> DEFINE b == Protocol!BookOf(recPol.status)
    <3>1. BookView[p] = b /\ BookView'[p] = Protocol!BookOf(st)
      BY <1>2, <2>1, <2>3 DEF BookView, Protocol!BookOf
    <3>2. /\ b.uid = recPol.status.uid
          /\ Protocol!BookOf(st) =
                [(IF b.uid = 0 THEN b ELSE Protocol!NewBook)
                    EXCEPT !.uid = recWl.uid]
          /\ Protocol!BookOf(st).uid = recWl.uid
      BY <1>0 DEF Status, AdoptWorkload, Protocol!BookOf, Protocol!NewBook,
                  Protocol!InitStatus
    <3>3. PendingView'[p] = PendingView[p] /\ SentView'[p] = SentView[p]
      BY <1>0, <1>2, <2>1, <2>3 DEF PendingView, SentView, Sending
    <3>4. Protocol!Adopt(p)
      BY <1>0, <1>2, <2>1, <3>1, <3>2, <3>3, OnlyAt
      DEF Protocol!Adopt, Protocol!Uid
    <3> QED
      BY <2>1, <3>4 DEF ProtocolStep, Protocol!ProtocolNext
  <2> QED
    BY <2>1, <2>2, <2>3
<1> QED
  BY <1>1, <1>2

\* The guards and the entry of a restart, read from a status or its book.
LEMMA BookOfStatus ==
    ASSUME NEW st \in Status, NEW ver, NEW t
    PROVE  LET b == Protocol!BookOf(st)
               r == [at |-> t, uid |-> st.uid, version |-> ver]
           IN  /\ InCooldown(st, t) <=> Protocol!InCooldown(b, t)
               /\ BreakerTripped(st, ver, t) <=> Protocol!BreakerTripped(b, ver, t)
               /\ Protocol!BookOf(ApplyRestart(st, ver, t)) = Protocol!Booked(b, r)
<1> DEFINE b == Protocol!BookOf(st)
           r == [at |-> t, uid |-> st.uid, version |-> ver]
<1>1. /\ b.uid = st.uid /\ b.lastRestartAt = st.lastRestartAt
      /\ b.restartCount = st.restartCount /\ b.windowStart = st.windowStart
      /\ b.version = st.version
      /\ b = [uid |-> b.uid, lastRestartAt |-> b.lastRestartAt,
              restartCount |-> b.restartCount, windowStart |-> b.windowStart,
              version |-> b.version]
  BY DEF Protocol!BookOf
<1>2. r.at = t /\ r.version = ver
  OBVIOUS
<1> HIDE DEF b, r
<1>3. sameWindow(st, ver, t) <=> Protocol!sameWindow(b, ver, t)
  BY <1>1 DEF sameWindow, SameVersion, Protocol!sameWindow, Protocol!SameVersion
<1>4. InCooldown(st, t) <=> Protocol!InCooldown(b, t)
  BY <1>1 DEF InCooldown, Protocol!InCooldown
<1>5. BreakerTripped(st, ver, t) <=> Protocol!BreakerTripped(b, ver, t)
  BY <1>1, <1>3 DEF BreakerTripped, Protocol!BreakerTripped
<1>6. Protocol!BookOf(ApplyRestart(st, ver, t)) = Protocol!Booked(b, r)
  <2> DEFINE same == sameWindow(st, ver, t)
             count == IF same THEN st.restartCount + 1 ELSE 1
             start == IF same THEN st.windowStart ELSE t
  <2>1. Protocol!BookOf(ApplyRestart(st, ver, t)) =
          [uid |-> st.uid, lastRestartAt |-> t, restartCount |-> count,
           windowStart |-> start, version |-> ver]
    <3> DEFINE applied == ApplyRestart(st, ver, t)
    <3>1. applied.uid = st.uid /\ applied.lastRestartAt = t /\ applied.version = ver
      BY DEF ApplyRestart, Status
    <3>2. applied.restartCount = count /\ applied.windowStart = start
      BY DEF ApplyRestart, Status
    <3> HIDE DEF count, start, applied
    <3>3. Protocol!BookOf(applied) =
            [uid |-> st.uid, lastRestartAt |-> t, restartCount |-> count,
             windowStart |-> start, version |-> ver]
      BY <3>1, <3>2 DEF Protocol!BookOf
    <3> QED
      BY <3>3 DEF applied, count, start
  <2>2. Protocol!Booked(b, r) =
          [uid |-> st.uid, lastRestartAt |-> t, restartCount |-> count,
           windowStart |-> start, version |-> ver]
    <3>1. b = [uid |-> st.uid, lastRestartAt |-> st.lastRestartAt,
               restartCount |-> st.restartCount, windowStart |-> st.windowStart,
               version |-> st.version]
      BY DEF b, Protocol!BookOf
    <3>2. Protocol!sameWindow(b, r.version, r.at) <=> same
      BY <1>2, <1>3
    <3>3. Protocol!Booked(b, r) = [b EXCEPT !.restartCount = count,
                                            !.windowStart = start,
                                            !.lastRestartAt = r.at,
                                            !.version = r.version]
      BY <1>1, <1>2, <3>2 DEF Protocol!Booked
    <3> HIDE DEF count, start, same
    <3> QED
      BY <1>2, <3>1, <3>3
  <2> QED
    BY <2>1, <2>2
<1> QED
  BY <1>4, <1>5, <1>6 DEF b, r

\* A restart is booked: against the durable status, a cooldown after the last
\* one and within the breaker.
LEMMA RecordStep ==
    ASSUME IInv, IInv', UidInv, PersistRestart
    PROVE  ProtocolStep
<1> DEFINE ver == TemplateVersion(RecWorkload, recWl)
           applied == ApplyRestart(recPol.status, ver, recNow)
           p == recKey
           b == Protocol!BookOf(recPol.status)
           r == [at |-> recNow, uid |-> recPol.status.uid, version |-> ver]
<1>0. /\ recPC = "persistRestart" /\ "dispatch" \in RecPCs
      /\ PersistThen(RestartStatus, "dispatch")
      /\ UNCHANGED <<delayed, dispatches>>
      /\ recPol.status \in Status
      /\ recPol.status.uid # 0
      /\ GuardsPassed
      /\ recNow \in Nat /\ ver \in Version
      /\ overwritten \subseteq Policies /\ overwritten' \subseteq Policies
  BY ActingOn, Reconciling
  DEF PersistRestart, sendVars, RecPCs, UidInv, RecUids, Adopted, IInv, RecInv,
      EnvInv, Time
<1>1. CASE p \in overwritten'
  BY <1>0, <1>1, WriteLapses
<1>2. CASE p \notin overwritten'
  <2>1. /\ p \in Policies \ overwritten
        /\ \A q \in Policies \ {p} : SameView(q)
        /\ \/ UNCHANGED <<policies, overwritten>> /\ recPC' = "idle"
           \/ /\ policies'[p].status = RestartStatus
              /\ Protocol!BookOf(policies[p].status) = b
              /\ \/ recPC' = "idle"
                 \/ /\ recPC' = "dispatch" /\ recPol'.status = RestartStatus
                    /\ UNCHANGED <<recKey, recNow>>
    BY <1>0, <1>2, WriteParts
  <2>2. CASE UNCHANGED <<policies, overwritten>> /\ recPC' = "idle"
    BY <1>0, <2>2, QuietStep
  <2>3. CASE /\ policies'[p].status = RestartStatus
             /\ Protocol!BookOf(policies[p].status) = b
             /\ \/ recPC' = "idle"
                \/ /\ recPC' = "dispatch" /\ recPol'.status = RestartStatus
                   /\ UNCHANGED <<recKey, recNow>>
    <3>1. BookView[p] = b /\ BookView'[p] = Protocol!BookOf(RestartStatus)
      BY <1>2, <2>1, <2>3 DEF BookView, Protocol!BookOf
    <3>2. /\ Protocol!BookOf(RestartStatus) = Protocol!Booked(b, r)
          /\ RestartStatus.uid = r.uid
          /\ RestartStatus.version = r.version
          /\ RestartStatus.lastRestartAt = r.at
      <4>1. /\ Protocol!BookOf(applied) = Protocol!Booked(b, r)
            /\ applied.uid = r.uid /\ applied.version = r.version
            /\ applied.lastRestartAt = r.at
        <5>1. Protocol!BookOf(applied) = Protocol!Booked(b, r)
          BY <1>0, BookOfStatus
        <5>2. /\ applied.uid = r.uid /\ applied.version = r.version
              /\ applied.lastRestartAt = r.at
          BY <1>0 DEF Status, ApplyRestart
        <5> QED
          BY <5>1, <5>2
      <4>2. /\ Protocol!BookOf(RestartStatus) = Protocol!BookOf(applied)
            /\ RestartStatus.uid = applied.uid
            /\ RestartStatus.version = applied.version
            /\ RestartStatus.lastRestartAt = applied.lastRestartAt
        <5>1. applied \in Status
          <6>1. recPol.status \in GoodStatus
            BY GoodPolicyUpdates DEF IInv, RecInv
          <6>2. applied \in GoodStatus
            BY <1>0, <6>1, GoodWrites DEF GuardsPassed, Time
          <6> QED
            BY <6>2 DEF GoodStatus
        <5> HIDE DEF applied
        <5>2. RestartStatus = RecomputeObservability(applied, recNow)
          BY DEF RestartStatus, applied
        <5> QED
          BY <5>1, <5>2 DEF Status, RecomputeObservability, Protocol!BookOf
      <4> QED
        BY <4>1, <4>2
    <3>3. /\ b.uid = r.uid
          /\ BookView'[p].lastRestartAt = r.at
          /\ BookView'[p].version = r.version
      BY <3>1, <3>2 DEF Protocol!BookOf
    <3>4. /\ r \in Protocol!Restart /\ r.uid # 0
          /\ ~Protocol!InCooldown(b, r.at)
          /\ ~Protocol!BreakerTripped(b, r.version, r.at)
      <4>1. r \in Protocol!Restart
        BY <1>0 DEF Protocol!Restart, Protocol!Uid, Protocol!Version,
                    Protocol!Time, Status, Uid, Version
      <4>2. ~InCooldown(recPol.status, recNow)
            /\ ~BreakerTripped(recPol.status, ver, recNow)
        BY <1>0 DEF GuardsPassed
      <4>3. ~Protocol!InCooldown(b, recNow)
            /\ ~Protocol!BreakerTripped(b, ver, recNow)
        BY <1>0, <4>2, BookOfStatus
      <4> QED
        BY <1>0, <4>1, <4>3
    <3>5. /\ PendingView[p]["leader"] = None
          /\ \/ PendingView'[p] = PendingView[p]
             \/ PendingView'[p] = [PendingView[p] EXCEPT !["leader"] = r]
      <4>1. PendingView[p] = [h \in {"leader", "former"} |->
                                IF h = "former" THEN delayed[p] ELSE None]
        BY <1>0, <2>1 DEF PendingView, Sending
      <4>2. CASE recPC' = "idle"
        <5>1. PendingView'[p] = PendingView[p]
          BY <1>0, <1>2, <2>1, <4>2 DEF PendingView, Sending
        <5> QED
          BY <4>1, <5>1
      <4>3. CASE /\ recPC' = "dispatch" /\ recPol'.status = RestartStatus
                 /\ UNCHANGED <<recKey, recNow>>
        <5>1. OurRestart' = r
          BY <3>2, <4>3 DEF OurRestart
        <5>2. PendingView'[p] = [h \in {"leader", "former"} |->
                                   IF h = "former" THEN delayed[p] ELSE r]
          BY <1>0, <1>2, <2>1, <4>3, <5>1 DEF PendingView, Sending
        <5> QED
          BY <4>1, <5>2
      <4> QED
        BY <2>3, <4>2, <4>3
    <3>6. SentView'[p] = SentView[p]
      BY <1>0, <1>2, <2>1 DEF SentView
    <3>7. Protocol!Record(p)
      <4> HIDE DEF b, ver
      <4>1. /\ r = [at |-> BookView'[p].lastRestartAt, uid |-> BookView[p].uid,
                    version |-> BookView'[p].version]
            /\ BookView[p] = b
            /\ BookView'[p] = Protocol!Booked(b, r)
        BY <3>1, <3>2, <3>3
      <4> HIDE DEF r
      <4>2. /\ UNCHANGED <<SentView, overwritten>>
            /\ BookView' = [BookView EXCEPT ![p] = Protocol!Booked(b, r)]
            /\ \/ PendingView' = [PendingView EXCEPT ![p] =
                                    [PendingView[p] EXCEPT !["leader"] = r]]
               \/ UNCHANGED PendingView
        BY <1>0, <1>2, <2>1, <3>5, <3>6, <4>1, OnlyAt
      <4>3. PendingView[p] = [h \in {"leader", "former"} |-> PendingView[p][h]]
            /\ p \in DOMAIN PendingView
        BY <2>1, Views DEF PendingView
      <4> QED
        BY <2>1, <3>4, <3>5, <4>1, <4>2, <4>3 DEF Protocol!Record
    <3> QED
      BY <2>1, <3>7 DEF ProtocolStep, Protocol!ProtocolNext
  <2> QED
    BY <2>1, <2>2, <2>3
<1> QED
  BY <1>1, <1>2

\* Steps that leave every status, the restarts and the dispatch alone.
LEMMA StatusSameStep ==
    ASSUME IInv, \A p \in Policies : policies'[p].status = policies[p].status,
           UNCHANGED <<delayed, dispatches, overwritten>>,
           UNCHANGED recVars \/ (recPC # "dispatch" /\ recPC' # "dispatch")
    PROVE  ProtocolStep
<1>1. overwritten \subseteq Policies /\ overwritten' \subseteq Policies
  BY DEF IInv, EnvInv
<1>2. \A p \in Policies : Quiet(p)
  BY DEF Quiet, Sending
<1> QED
  BY <1>1, <1>2, StutterStep

\* A write of a policy that, where it removes the policy, forgets its restarts:
\* the book is renewed, or lapses if a restart is still on its way.
LEMMA ForgetStep ==
    ASSUME IInv, NEW p \in Policies,
           \A q \in Policies \ {p} : policies'[q] = policies[q],
           Present(policies'[p]) => policies'[p].status = policies[p].status,
           ~Present(policies'[p]) => policies'[p].status = InitStatus,
           ForgottenIfGone(p), UNCHANGED delayed,
           UNCHANGED recVars \/ (recPC # "dispatch" /\ recPC' # "dispatch")
    PROVE  ProtocolStep
<1>0. /\ overwritten \subseteq Policies /\ overwritten' \subseteq Policies
      /\ dispatches \in [Policies -> Seq(Restart)]
  BY DEF IInv, EnvInv, ForgottenIfGone, Forgotten
<1>1. CASE Present(policies'[p])
  BY <1>1, StatusSameStep DEF ForgottenIfGone
<1>2. CASE ~Present(policies'[p])
  <2>1. Forgotten(p)
    BY <1>2 DEF ForgottenIfGone
  <2>2. \A q \in Policies \ {p} : SameView(q)
    <3>1. \A q \in Policies \ {p} :
            /\ dispatches'[q] = dispatches[q]
            /\ q \in overwritten' <=> q \in overwritten
      BY <1>0, <2>1 DEF Forgotten
    <3>2. UNCHANGED recVars \/ \A q \in Policies : ~Sending(q) /\ ~Sending(q)'
      BY DEF Sending
    <3>3. ASSUME NEW q \in Policies \ {p} PROVE Quiet(q)
      <4>1. policies'[q] = policies[q] /\ delayed'[q] = delayed[q]
        OBVIOUS
      <4>2. UNCHANGED recVars \/ (~Sending(q) /\ ~Sending(q)')
        BY <3>2
      <4>3. Protocol!BookOf(policies'[q].status)
              = Protocol!BookOf(policies[q].status)
        BY <4>1
      <4> QED
        BY <3>1, <4>1, <4>2, <4>3 DEF Quiet
    <3> QED
      BY <3>3, QuietSame
  <2>3. CASE p \in overwritten'
    BY <1>0, <2>2, <2>3, LapseStep
  <2>4. CASE p \notin overwritten'
    <3>1. /\ p \notin overwritten
          /\ delayed[p] = None /\ delayed'[p] = None
          /\ ~Sending(p) /\ ~Sending(p)'
      BY <2>1, <2>4 DEF Forgotten, Sending, recVars
    <3>2. /\ PendingView[p] = Protocol!EmptyHanded
          /\ PendingView'[p] = PendingView[p]
      BY <2>4, <3>1
      DEF PendingView, Protocol!EmptyHanded, Protocol!Hands
    <3>3. BookView'[p] = Protocol!NewBook /\ SentView'[p] = <<>>
      BY <1>0, <1>2, <2>1, <2>4
      DEF BookView, SentView, Forgotten, Protocol!NewBook, Protocol!BookOf,
          Protocol!InitStatus, InitStatus
    <3>4. Protocol!Renew(p)
      BY <1>0, <2>2, <2>4, <3>1, <3>2, <3>3, OnlyAt DEF Protocol!Renew
    <3> QED
      BY <3>4 DEF ProtocolStep, Protocol!ProtocolNext
  <2> QED
    BY <2>3, <2>4
<1> QED
  BY <1>1, <1>2

\* Finalizers come and go.
LEMMA MetadataStep ==
    ASSUME IInv, UidInv, Finalize \/ AddFinalizer
    PROVE  ProtocolStep
<1>0. /\ recKey \in Policies /\ recPC # "dispatch" /\ recPC' # "dispatch"
      /\ UNCHANGED delayed
      /\ policies \in [Policies -> GoodPolicy]
      /\ \A pol \in GoodPolicy : pol \in PolicyObject
  BY DEF Finalize, AddFinalizer, IInv, RecInv, ApiInv, GoodPolicy, Return,
         ResetRec, sendVars
<1>1. CASE Finalize
  <2>1. \/ UNCHANGED policies
        \/ policies' = [policies EXCEPT ![recKey] =
                           [NoPolicy EXCEPT !.rv = recPol.rv + 1]]
    BY <1>1 DEF Finalize, Update, Store, apiVars
  <2>2. /\ [NoPolicy EXCEPT !.rv = recPol.rv + 1].status = InitStatus
        /\ ~Present([NoPolicy EXCEPT !.rv = recPol.rv + 1])
    BY DEF NoPolicy, Present
  <2>3. ~Present(policies[recKey]) => policies[recKey].status = InitStatus
    BY <1>0 DEF UidInv, AbsentIsNew
  <2>4. /\ \A q \in Policies \ {recKey} : policies'[q] = policies[q]
        /\ Present(policies'[recKey]) =>
              policies'[recKey].status = policies[recKey].status
        /\ ~Present(policies'[recKey]) => policies'[recKey].status = InitStatus
    BY <1>0, <2>1, <2>2, <2>3
  <2>5. ForgottenIfGone(recKey)
    BY <1>1 DEF Finalize
  <2>6. PICK p \in Policies : p = recKey
    BY <1>0
  <2>7. ForgottenIfGone(p)
    BY <2>5, <2>6 DEF ForgottenIfGone, Forgotten
  <2>8. /\ \A q \in Policies \ {p} : policies'[q] = policies[q]
        /\ Present(policies'[p]) => policies'[p].status = policies[p].status
        /\ ~Present(policies'[p]) => policies'[p].status = InitStatus
    BY <2>4, <2>6
  <2> QED
    BY <1>0, <2>7, <2>8, ForgetStep
<1>2. CASE AddFinalizer
  <2> DEFINE pol == [policies[recKey] EXCEPT !.finalizer = TRUE, !.rv = @ + 1]
  <2>1. \/ UNCHANGED policies
        \/ policies' = [policies EXCEPT ![recKey] = pol]
    BY <1>2 DEF AddFinalizer, Update, Store, apiVars
  <2>2. pol.status = policies[recKey].status
    BY <1>0 DEF PolicyObject
  <2>3. \A p \in Policies : policies'[p].status = policies[p].status
    BY <1>0, <2>1, <2>2
  <2> QED
    BY <1>0, <1>2, <2>3, StatusSameStep DEF AddFinalizer, sendVars
<1> QED
  BY <1>1, <1>2

\* What users do to a policy.
LEMMA PolicyEditStep ==
    ASSUME IInv, UidInv, NEW p \in Policies,
           CreatePolicy(p) \/ EditMode(p) \/ DeletePolicy(p)
    PROVE  ProtocolStep
<1>0. /\ policies \in [Policies -> GoodPolicy]
      /\ \A pol \in GoodPolicy : pol \in PolicyObject
      /\ UNCHANGED <<recVars, delayed>>
  BY DEF IInv, ApiInv, GoodPolicy, CreatePolicy, EditMode, DeletePolicy, UserEdit
<1>1. CASE CreatePolicy(p)
  <2>1. PICK mode \in Modes : Store(p, NewPolicy(mode, policies[p].rv + 1))
    BY <1>1 DEF CreatePolicy, UserEdit
  <2>2. policies[p].status = InitStatus
    BY <1>1 DEF CreatePolicy, UidInv, AbsentIsNew
  <2>3. NewPolicy(mode, policies[p].rv + 1).status = InitStatus
    BY DEF NewPolicy, NoPolicy
  <2>4. \A q \in Policies : policies'[q].status = policies[q].status
    BY <1>0, <2>1, <2>2, <2>3 DEF Store
  <2> QED
    BY <1>0, <1>1, <2>4, StatusSameStep DEF CreatePolicy
<1>2. CASE EditMode(p)
  <2>1. \A q \in Policies : policies'[q].status = policies[q].status
    BY <1>0, <1>2 DEF EditMode, UserEdit, Store, PolicyObject
  <2> QED
    BY <1>0, <1>2, <2>1, StatusSameStep DEF EditMode
<1>3. CASE DeletePolicy(p)
  <2>1. \/ policies' = [policies EXCEPT ![p] =
                          [policies[p] EXCEPT !.phase = "deleting", !.rv = @ + 1]]
        \/ policies' = [policies EXCEPT ![p] =
                          [NoPolicy EXCEPT !.rv = policies[p].rv + 1]]
    BY <1>3 DEF DeletePolicy, UserEdit, Store
  <2>2. /\ [NoPolicy EXCEPT !.rv = policies[p].rv + 1].status = InitStatus
        /\ ~Present([NoPolicy EXCEPT !.rv = policies[p].rv + 1])
    BY DEF NoPolicy, Present
  <2>3. LET pol == [policies[p] EXCEPT !.phase = "deleting", !.rv = @ + 1]
        IN  pol.status = policies[p].status /\ Present(pol)
    BY <1>0 DEF PolicyObject, Present
  <2>4. /\ \A q \in Policies \ {p} : policies'[q] = policies[q]
        /\ Present(policies'[p]) => policies'[p].status = policies[p].status
        /\ ~Present(policies'[p]) => policies'[p].status = InitStatus
    BY <1>0, <2>1, <2>2, <2>3
  <2> QED
    BY <1>0, <1>3, <2>4, ForgetStep DEF DeletePolicy
<1> QED
  BY <1>1, <1>2, <1>3

\* What a dispatch in progress holds, and what the fate of one means: the
\* restart of hand h is sent or lost, or the policy has lapsed anyway.
LEMMA FateStep ==
    ASSUME IInv, NEW p \in Policies, NEW h \in {"leader", "former"},
           \A q \in Policies \ {p} : Quiet(q),
           UNCHANGED <<policies, overwritten>>,
           p \notin overwritten => PendingView[p][h] # None,
           p \notin overwritten =>
              PendingView'[p] = [PendingView[p] EXCEPT ![h] = None],
           \/ dispatches' = [dispatches EXCEPT ![p] =
                               Append(@, PendingView[p][h])]
           \/ p \in overwritten
           \/ UNCHANGED dispatches
    PROVE  ProtocolStep
<1>0. /\ overwritten \subseteq Policies /\ overwritten' \subseteq Policies
      /\ dispatches \in [Policies -> Seq(Restart)]
  BY DEF IInv, EnvInv
<1>1. \A q \in Policies \ {p} : SameView(q)
  BY QuietSame
<1>2. CASE p \in overwritten
  BY <1>0, <1>1, <1>2, LapseStep
<1>3. CASE p \notin overwritten
  <2>1. BookView'[p] = BookView[p]
    BY <1>3 DEF BookView
  <2>2. PendingView' = [PendingView EXCEPT ![p] =
                          [PendingView[p] EXCEPT ![h] = None]]
    BY <1>0, <1>1, <1>3, OnlyAt
  <2>3. UNCHANGED <<BookView, overwritten>>
    BY <1>0, <1>1, <2>1, OnlyAt
  <2>4. p \in DOMAIN PendingView /\ p \in DOMAIN SentView
    BY DEF PendingView, SentView
  <2>5. CASE dispatches' = [dispatches EXCEPT ![p] = Append(@, PendingView[p][h])]
    <3>1. SentView'[p] = Append(SentView[p], PendingView[p][h])
      BY <1>0, <1>3, <2>5 DEF SentView
    <3>2. SentView' = [SentView EXCEPT ![p] = Append(SentView[p], PendingView[p][h])]
      BY <1>0, <1>1, <3>1, OnlyAt
    <3>3. Protocol!Send(p, h)
      BY <1>3, <2>2, <2>3, <2>4, <3>2 DEF Protocol!Send
    <3> QED
      BY <3>3 DEF ProtocolStep, Protocol!ProtocolNext, Protocol!Hands
  <2>6. CASE UNCHANGED dispatches
    <3>1. SentView'[p] = SentView[p]
      BY <1>3, <2>6 DEF SentView
    <3>2. UNCHANGED SentView
      BY <1>0, <1>1, <3>1, OnlyAt
    <3>3. Protocol!Drop(p, h)
      BY <1>3, <2>2, <2>3, <2>4, <3>2 DEF Protocol!Drop
    <3> QED
      BY <3>3 DEF ProtocolStep, Protocol!ProtocolNext, Protocol!Hands
  <2> QED
    BY <1>3, <2>5, <2>6
<1> QED
  BY <1>2, <1>3

\* A reconcile at the dispatch holds a restart.
LEMMA HeldRestart ==
    ASSUME IInv, recPC = "dispatch"
    PROVE  /\ recKey \in Policies
           /\ OurRestart \in Restart /\ OurRestart # None
<1>1. /\ recKey \in Policies
      /\ recNow \in Nat /\ recPol.status \in Status
  BY GoodPolicyUpdates DEF IInv, RecInv, Time
<1>2. OurRestart \in Restart
  BY <1>1 DEF OurRestart, Restart, Status, Time
<1> QED
  BY <1>1, <1>2, StatusAssumption

\* The dispatch: the pending restart is sent or dropped.
LEMMA DispatchStep ==
    ASSUME IInv, Dispatch
    PROVE  ProtocolStep
<1>0. /\ recPC = "dispatch" /\ recPC' = "idle" /\ recKey \in Policies
      /\ OurRestart # None
      /\ UNCHANGED <<policies, delayed, overwritten>>
      /\ delayed \in [Policies -> Restart \cup {None}]
      /\ dispatches \in [Policies -> Seq(Restart)]
  BY HeldRestart DEF Dispatch, Return, ResetRec, apiVars, IInv, EnvInv
<1>1. PICK p \in Policies : p = recKey
  BY <1>0
<1>2. \/ dispatches' = [dispatches EXCEPT ![p] = Append(@, OurRestart)]
      \/ UNCHANGED dispatches
  BY <1>1 DEF Dispatch, Triggered, Landed
<1>3. \A q \in Policies \ {p} : Quiet(q)
  <2>1. \A q \in Policies \ {p} : dispatches'[q] = dispatches[q]
    BY <1>0, <1>2
  <2>2. \A q \in Policies \ {p} : ~Sending(q) /\ ~Sending(q)'
    BY <1>0, <1>1 DEF Sending
  <2> QED
    BY <1>0, <2>1, <2>2 DEF Quiet
<1>4. ASSUME p \notin overwritten
      PROVE  /\ PendingView[p]["leader"] = OurRestart
             /\ PendingView'[p] = [PendingView[p] EXCEPT !["leader"] = None]
  <2>1. PendingView[p] = [h \in {"leader", "former"} |->
                            IF h = "former" THEN delayed[p] ELSE OurRestart]
    BY <1>0, <1>1, <1>4 DEF PendingView, Sending
  <2>2. PendingView'[p] = [h \in {"leader", "former"} |->
                             IF h = "former" THEN delayed[p] ELSE None]
    BY <1>0, <1>4 DEF PendingView, Sending
  <2> QED
    BY <2>1, <2>2
<1>5. \/ p \in overwritten
      \/ dispatches' = [dispatches EXCEPT ![p] = Append(@, PendingView[p]["leader"])]
      \/ UNCHANGED dispatches
  BY <1>2, <1>4
<1> QED
  BY <1>0, <1>3, <1>4, <1>5, FateStep

\* The patch of a former leader lands.
LEMMA LateStep ==
    ASSUME IInv, NEW p \in Policies, LateDispatch(p)
    PROVE  ProtocolStep
<1>0. /\ UNCHANGED <<policies, recVars, overwritten>>
      /\ delayed[p] # None
      /\ delayed' = [delayed EXCEPT ![p] = None]
      /\ dispatches' = [dispatches EXCEPT ![p] = Append(@, delayed[p])]
      /\ delayed \in [Policies -> Restart \cup {None}]
      /\ dispatches \in [Policies -> Seq(Restart)]
  BY DEF LateDispatch, Landed, apiVars, IInv, EnvInv
<1>1. \A q \in Policies \ {p} : Quiet(q)
  <2>1. \A q \in Policies \ {p} : /\ delayed'[q] = delayed[q]
                                   /\ dispatches'[q] = dispatches[q]
    BY <1>0
  <2> QED
    BY <1>0, <2>1 DEF Quiet
<1>2. ASSUME p \notin overwritten
      PROVE  /\ PendingView[p]["former"] = delayed[p]
             /\ PendingView'[p] = [PendingView[p] EXCEPT !["former"] = None]
  <2> DEFINE ldr == IF Sending(p) THEN OurRestart ELSE None
  <2>0. ldr' = ldr
    BY <1>0 DEF Sending, OurRestart, recVars
  <2>1. PendingView[p] = [h \in {"leader", "former"} |->
                            IF h = "former" THEN delayed[p] ELSE ldr]
    BY <1>0, <1>2, Views
  <2>2. PendingView'[p] = [h \in {"leader", "former"} |->
                             IF h = "former" THEN None ELSE ldr']
    BY <1>0, <1>2 DEF PendingView
  <2> HIDE DEF ldr
  <2> QED
    BY <2>0, <2>1, <2>2
<1>3. \/ p \in overwritten
      \/ dispatches' = [dispatches EXCEPT ![p] = Append(@, PendingView[p]["former"])]
  BY <1>0, <1>2
<1> QED
  BY <1>0, <1>1, <1>2, <1>3, FateStep

\* The leader dies: a restart it was dispatching is lost, or left on its way.
LEMMA FailoverStep ==
    ASSUME IInv, Failover
    PROVE  ProtocolStep
<1>0. /\ recPC' = "idle"
      /\ UNCHANGED <<policies, dispatches, overwritten>>
      /\ delayed \in [Policies -> Restart \cup {None}]
      /\ overwritten \subseteq Policies /\ overwritten' \subseteq Policies
      /\ \/ UNCHANGED delayed
         \/ /\ recPC = "dispatch"
            /\ delayed' = [delayed EXCEPT ![recKey] = OurRestart]
  BY DEF Failover, ResetRec, IInv, EnvInv
<1>1. CASE recPC # "dispatch"
  BY <1>0, <1>1, QuietStep
<1>2. CASE recPC = "dispatch"
  <2>1. PICK p \in Policies : p = recKey
    BY <1>2, HeldRestart
  <2>2. OurRestart # None
    BY <1>2, HeldRestart
  <2>3. \A q \in Policies \ {p} : Quiet(q)
    <3>1. \A q \in Policies \ {p} : delayed'[q] = delayed[q]
      BY <1>0, <2>1
    <3>2. \A q \in Policies \ {p} : ~Sending(q) /\ ~Sending(q)'
      BY <1>0, <2>1 DEF Sending
    <3> QED
      BY <1>0, <3>1, <3>2 DEF Quiet
  <2>4. ASSUME p \notin overwritten
        PROVE  /\ PendingView[p] = [h \in {"leader", "former"} |->
                      IF h = "former" THEN delayed[p] ELSE OurRestart]
               /\ PendingView'[p] = [h \in {"leader", "former"} |->
                      IF h = "former" THEN delayed'[p] ELSE None]
    BY <1>0, <1>2, <2>1, <2>4 DEF PendingView, Sending
  <2>5. CASE UNCHANGED delayed
    <3>1. p \notin overwritten =>
            /\ PendingView[p]["leader"] # None
            /\ PendingView'[p] = [PendingView[p] EXCEPT !["leader"] = None]
      BY <2>2, <2>4, <2>5
    <3> QED
      BY <1>0, <2>3, <3>1, FateStep
  <2>6. CASE delayed' = [delayed EXCEPT ![recKey] = OurRestart]
    <3>0. \A q \in Policies \ {p} : SameView(q)
      BY <2>3, QuietSame
    <3>1. CASE p \in overwritten
      BY <1>0, <3>0, <3>1, LapseStep
    <3>2. CASE p \notin overwritten
      <4>1. delayed'[p] = OurRestart
        BY <1>0, <2>1, <2>6
      <4>2. /\ PendingView[p]["leader"] = OurRestart
            /\ PendingView'[p] = [h \in {"leader", "former"} |->
                  IF h = "former" THEN OurRestart ELSE None]
        BY <2>4, <3>2, <4>1
      <4>3. PendingView'[p] = [Protocol!EmptyHanded EXCEPT
                                  !["former"] = PendingView[p]["leader"]]
        BY <4>2 DEF Protocol!EmptyHanded, Protocol!Hands
      <4>4. BookView'[p] = BookView[p] /\ SentView'[p] = SentView[p]
        BY <1>0, <3>2 DEF BookView, SentView
      <4>5. /\ PendingView' = [PendingView EXCEPT ![p] =
                    [Protocol!EmptyHanded EXCEPT
                        !["former"] = PendingView[p]["leader"]]]
            /\ UNCHANGED <<BookView, SentView, overwritten>>
        BY <1>0, <3>0, <4>3, <4>4, OnlyAt
      <4>6. Protocol!HandOver(p)
        BY <2>2, <4>2, <4>5 DEF Protocol!HandOver
      <4> QED
        BY <4>6 DEF ProtocolStep, Protocol!ProtocolNext
    <3> QED
      BY <3>1, <3>2
  <2> QED
    BY <1>0, <2>5, <2>6
<1> QED
  BY <1>1, <1>2

\* Everybody else.
LEMMA BystanderStep ==
    ASSUME IInv,
           \/ Tick
           \/ \E p \in Policies : SampleEvent(p) \/ SyncPolicy(p)
           \/ \E key \in Policies \cup Workloads : Stall(key)
           \/ \E w \in Workloads :
                \/ SyncWorkload(w) \/ ExternalRollout(w) \/ Disturb(w)
                \/ DeleteWorkload(w) \/ RecreateWorkload(w)
                \/ ChangeStrategy(w) \/ Progress(w)
    PROVE  ProtocolStep
<1>1. UNCHANGED <<policies, delayed, dispatches, overwritten, recVars>>
  BY DEF Tick, SampleEvent, SyncPolicy, Stall, SyncWorkload, ExternalRollout,
         Disturb, DeleteWorkload, RecreateWorkload, ChangeStrategy, Progress,
         ChangeWorkload, apiVars, sendVars
<1> QED
  BY <1>1, QuietStep

\* Every step of the controller is a step of the protocol, or none.
LEMMA NextStep == IInv /\ IInv' /\ UidInv /\ [Next]_vars => ProtocolStep
<1> SUFFICES ASSUME IInv, IInv', UidInv, [Next]_vars PROVE ProtocolStep
  OBVIOUS
<1>1. CASE Reconcile
  BY <1>1, RecQuietStep, MetadataStep, NoteStep, AdoptStep, RecordStep,
     DispatchStep DEF Reconcile
<1>2. CASE Expirer
  BY <1>2, ExpirerStep
<1>3. CASE Environment
  BY <1>3, PolicyEditStep, LateStep, FailoverStep, BystanderStep DEF Environment
<1>4. CASE UNCHANGED vars
  BY <1>4, QuietStep DEF vars, apiVars, sendVars
<1> QED
  BY <1>1, <1>2, <1>3, <1>4 DEF Next

\* A controller that has just started has promised nothing yet.
LEMMA InitStep == Init => Protocol!ProtocolInit
<1> SUFFICES ASSUME Init PROVE Protocol!ProtocolInit
  OBVIOUS
<1>1. overwritten = {} /\ recPC # "dispatch"
  BY DEF Init, RecIdle
<1>2. \A p \in Policies : policies[p].status = InitStatus
  <2>1. PICK mode \in [Policies -> Modes] :
            policies = [p \in Policies |-> NewPolicy(mode[p], 1)]
    BY DEF Init
  <2>2. \A m, rv : NewPolicy(m, rv).status = InitStatus
    BY DEF NewPolicy, NoPolicy
  <2> QED
    BY <2>1, <2>2
<1>3. BookView = [p \in Policies |-> Protocol!NewBook]
  BY <1>1, <1>2 DEF BookView, Protocol!NewBook, Protocol!BookOf,
     Protocol!InitStatus, InitStatus
<1>4. PendingView = [p \in Policies |-> Protocol!EmptyHanded]
  BY <1>1 DEF PendingView, Sending, Init, Protocol!EmptyHanded, Protocol!Hands
<1>5. SentView = [p \in Policies |-> <<>>]
  BY <1>1 DEF SentView, Init
<1> QED
  BY <1>1, <1>3, <1>4, <1>5 DEF Protocol!ProtocolInit

\* The controller implements the restart protocol.
THEOREM Refinement == Spec => KeepsProtocol
<1>1. IInv /\ UidInv /\ IInv' /\ [Next]_vars =>
        [Protocol!ProtocolNext]_(Protocol!protocolVars)
  BY NextStep DEF ProtocolStep
<1>2. Spec => Protocol!ProtocolInit
  BY InitStep DEF Spec
<1>3. Spec => [](IInv /\ UidInv)
  BY BothInvariant
<1> QED
  BY <1>1, <1>2, <1>3, PTL DEF Spec, KeepsProtocol, Protocol!ProtocolSpec

-----------------------------------------------------------------------------
\* What the protocol promises holds of the controller.

Promised == INSTANCE ProtocolProofs
              WITH book <- BookView, pending <- PendingView,
                   sent <- SentView, lapsed <- overwritten

\* The protocol of the refinement is the one its proofs are about.
LEMMA SameProtocol ==
    /\ Protocol!ProtocolInit => Promised!ProtocolInit
    /\ [Protocol!ProtocolNext]_(Protocol!protocolVars)
          => [Promised!ProtocolNext]_(Promised!protocolVars)
<1>1. Protocol!NewBook = Promised!NewBook
  BY DEF Protocol!NewBook, Protocol!BookOf, Protocol!InitStatus,
         Promised!NewBook, Promised!BookOf, Promised!InitStatus
<1>2. Protocol!EmptyHanded = Promised!EmptyHanded
  BY DEF Protocol!EmptyHanded, Protocol!Hands, Promised!EmptyHanded,
         Promised!Hands
<1>3. /\ \A st, ver, t : Protocol!sameWindow(st, ver, t)
                            <=> Promised!sameWindow(st, ver, t)
      /\ \A st, ver, t : Protocol!BreakerTripped(st, ver, t)
                            <=> Promised!BreakerTripped(st, ver, t)
      /\ \A st, t : Protocol!InCooldown(st, t) <=> Promised!InCooldown(st, t)
      /\ \A b, r : Protocol!Booked(b, r) = Promised!Booked(b, r)
  BY DEF Protocol!SameVersion, Promised!SameVersion, Protocol!sameWindow,
         Promised!sameWindow, Protocol!BreakerTripped, Promised!BreakerTripped,
         Protocol!InCooldown, Promised!InCooldown,
         Protocol!Booked, Promised!Booked
<1>4. Protocol!Restart = Promised!Restart /\ Protocol!Uid = Promised!Uid
  BY DEF Protocol!Restart, Promised!Restart, Protocol!Time, Promised!Time,
         Protocol!Uid, Promised!Uid, Protocol!Version, Promised!Version
<1>5. ASSUME NEW p \in Policies
      PROVE  /\ Protocol!Record(p) => Promised!Record(p)
             /\ Protocol!HandOver(p) => Promised!HandOver(p)
             /\ Protocol!Adopt(p) => Promised!Adopt(p)
             /\ Protocol!Renew(p) => Promised!Renew(p)
             /\ Protocol!Lapse(p) => Promised!Lapse(p)
  <2>1. Protocol!Record(p) => Promised!Record(p)
    BY <1>3, <1>4 DEF Protocol!Record, Promised!Record
  <2>2. Protocol!Adopt(p) => Promised!Adopt(p)
    BY <1>1, <1>4 DEF Protocol!Adopt, Promised!Adopt
  <2>3. /\ Protocol!HandOver(p) => Promised!HandOver(p)
        /\ Protocol!Renew(p) => Promised!Renew(p)
        /\ Protocol!Lapse(p) => Promised!Lapse(p)
    BY <1>1, <1>2
    DEF Protocol!HandOver, Promised!HandOver, Protocol!Renew, Promised!Renew,
        Protocol!Lapse, Promised!Lapse
  <2> QED
    BY <2>1, <2>2, <2>3
<1>6. ASSUME NEW p \in Policies, NEW h \in Protocol!Hands
      PROVE  /\ h \in Promised!Hands
             /\ Protocol!Send(p, h) => Promised!Send(p, h)
             /\ Protocol!Drop(p, h) => Promised!Drop(p, h)
  BY DEF Protocol!Hands, Promised!Hands, Protocol!Send, Promised!Send,
         Protocol!Drop, Promised!Drop
<1>7. Protocol!ProtocolNext => Promised!ProtocolNext
  BY <1>5, <1>6 DEF Protocol!ProtocolNext, Promised!ProtocolNext
<1>8. Protocol!protocolVars = Promised!protocolVars
      /\ (Protocol!protocolVars)' = (Promised!protocolVars)'
  BY DEF Protocol!protocolVars, Promised!protocolVars
<1>9. Protocol!ProtocolInit => Promised!ProtocolInit
  BY <1>1, <1>2 DEF Protocol!ProtocolInit, Promised!ProtocolInit
<1> QED
  BY <1>7, <1>8, <1>9

\* Two restarts that reach the cluster for one workload object of one policy
\* are at least the cooldown apart, through failed and late dispatches, lost
\* responses, recreated workloads and failovers (CooldownRespected;
\* reconciler.go:270-283 and 325-334).
THEOREM CooldownTheorem == Spec => []CooldownRespected
<1>1. Spec => Promised!ProtocolSpec
  BY Refinement, SameProtocol, PTL
  DEF KeepsProtocol, Protocol!ProtocolSpec, Promised!ProtocolSpec
<1>2. /\ Window \in Nat \ {0} /\ MaxRestarts \in Nat /\ Cooldown \in Nat
      /\ HistoryLimit \in Nat \ {0}
      /\ None \notin Promised!Marker /\ None \notin Promised!Restart
      /\ None \notin Nat
  BY BasicsAssumption, StatusAssumption
  DEF Marker, Restart, Time, Uid, Version,
      Promised!Marker, Promised!Restart, Promised!Time, Promised!Uid,
      Promised!Version
<1>3. Promised!IsFiniteSet(Workloads)
  BY BasicsAssumption DEF IsFiniteSet, Promised!IsFiniteSet
<1>4. Promised!ProtocolSpec => [](Promised!ProtocolInv /\ Promised!Spaced)
  BY <1>2, <1>3, Promised!ProtocolSpaced, Zenon
<1>5. Promised!Spaced => CooldownRespected
  <2>1. \A p \in Policies \ overwritten : SentView[p] = dispatches[p]
    BY DEF SentView
  <2> QED
    BY <2>1 DEF Promised!Spaced, Promised!Apart, CooldownRespected
<1> QED
  BY <1>1, <1>4, <1>5, PTL

\* The count is not behind the restarts that reached the cluster: whatever
\* number of dispatches failed, responses were lost and leaders died, those in
\* the status's window, at its version and UID are no more than restartCount
\* (guardrail.go:89-93, reconciler.go:325-334).  Without a cooldown two
\* windows may begin in one instant, and a restart of the first is in both.
THEOREM CountTheorem == Cooldown > 0 => (Spec => []DispatchesCounted)
<1> SUFFICES ASSUME Cooldown > 0
             PROVE  Spec => []DispatchesCounted
  OBVIOUS
<1>1. Spec => Promised!ProtocolSpec
  BY Refinement, SameProtocol, PTL
  DEF KeepsProtocol, Protocol!ProtocolSpec, Promised!ProtocolSpec
<1>2. /\ Window \in Nat \ {0} /\ MaxRestarts \in Nat /\ Cooldown \in Nat
      /\ HistoryLimit \in Nat \ {0}
      /\ None \notin Promised!Marker /\ None \notin Promised!Restart
      /\ None \notin Nat
  BY BasicsAssumption, StatusAssumption
  DEF Marker, Restart, Time, Uid, Version,
      Promised!Marker, Promised!Restart, Promised!Time, Promised!Uid,
      Promised!Version
<1>3. Promised!IsFiniteSet(Workloads)
  BY BasicsAssumption DEF IsFiniteSet, Promised!IsFiniteSet
<1>4. Promised!ProtocolSpec => []Promised!WithinCount
  BY <1>2, <1>3, Promised!ProtocolCounts, Zenon
<1>5. \A S : Promised!Cardinality(S) = Cardinality(S)
  BY DEF Cardinality, Promised!Cardinality
<1>6. Promised!Restart = Restart
  BY DEF Restart, Time, Uid, Version,
         Promised!Restart, Promised!Time, Promised!Uid, Promised!Version
<1>7. IInv /\ Promised!WithinCount => DispatchesCounted
  <2> SUFFICES ASSUME IInv, Promised!WithinCount,
                      NEW p \in Policies \ overwritten,
                      policies[p].status.windowStart # None
               PROVE  Counted(p)
    BY DEF DispatchesCounted, Counted
  <2> DEFINE st == policies[p].status
             b == BookView[p]
             hist == dispatches[p]
             counted == {i \in DOMAIN hist : /\ hist[i].uid = st.uid
                                             /\ SameVersion(hist[i].version, st.version)
                                             /\ hist[i].at >= st.windowStart}
  <2>1. /\ SentView[p] = hist
        /\ b.uid = st.uid /\ b.windowStart = st.windowStart
        /\ b.restartCount = st.restartCount
    BY DEF SentView, BookView
  <2>2. hist \in Seq(Promised!Restart) /\ st.restartCount \in Nat
    BY <1>6 DEF IInv, EnvInv, ApiInv, GoodPolicy, GoodStatus, Status
  <2>3. /\ Promised!IsFiniteSet(Promised!SentIn(b, hist))
        /\ Promised!Cardinality(Promised!SentIn(b, hist)) \in Nat
        /\ Promised!Cardinality(Promised!HeldIn(b, PendingView[p])) \in Nat
    BY <1>2, <1>3, <2>2, Promised!CountFinite, Zenon
  <2>4. Promised!Cardinality(Promised!SentIn(b, hist))
           + Promised!Cardinality(Promised!HeldIn(b, PendingView[p]))
              <= st.restartCount
    BY <2>1 DEF Promised!WithinCount
  <2>5. counted \subseteq Promised!SentIn(b, hist)
    BY <2>1 DEF Promised!SentIn, Promised!InWindow
  <2>6. IsFiniteSet(Promised!SentIn(b, hist))
    BY <2>3 DEF IsFiniteSet, Promised!IsFiniteSet
  <2> HIDE DEF counted, b, hist, st
  <2>7. /\ Cardinality(counted) \in Nat
        /\ Cardinality(counted) <= Cardinality(Promised!SentIn(b, hist))
    BY <2>5, <2>6, FS_Subset, FS_CardinalityType
  <2>8. Cardinality(counted) <= st.restartCount
    BY <1>5, <2>2, <2>3, <2>4, <2>7
  <2> QED
    BY <2>8 DEF Counted, counted, hist, st
<1> QED
  BY <1>1, <1>4, <1>7, Invariance, PTL

-----------------------------------------------------------------------------
\* What Superseded means.  Workload objects only move on: to a newer object, to
\* a deleted one, to a later deployment, which may bring an earlier template
\* back.  What this needs: a copy of a workload is never ahead of the server,
\* no marker is ahead of the copy it is compared with, and what a record that
\* says Superseded was about has been replaced since.

\* No version is the earliest: a Rollout publishes none before its first pod
\* template is hashed.
Upto(v, u) == v = None \/ (u # None /\ v <= u)

\* obj is the object of workload w after old.
Later(w, old, obj) ==
    \/ obj.uid > old.uid
    \/ /\ obj.uid = old.uid
       /\ obj.exists => old.exists
       /\ Upto(TemplateVersion(w, old), TemplateVersion(w, obj))

\* The object with this UID is gone, or its deployment v was replaced.
Left(w, uid, v, obj) ==
    \/ obj.uid > uid
    \/ /\ obj.uid = uid
       /\ ~obj.exists \/ Replaced(v, TemplateVersion(w, obj))

\* If obj is the status's object, it is at the marker's version or past it.
Reaches(w, st, obj) ==
    st.inFlight # None /\ obj.uid = st.uid =>
        Upto(st.inFlight.version, TemplateVersion(w, obj))

CopyOrd(p, st) ==
    LET w == policyRef[p]
    IN  /\ st.uid = 0 => st.inFlight = None /\ st.history = <<>>
        /\ Reaches(w, st, workloadCache[w])
        /\ \A i \in DOMAIN st.history : st.history[i].outcome = "Superseded" =>
              Left(w, st.uid, st.history[i].version, workloads[w])

WorkloadOrd ==
    \A w \in Workloads :
        /\ workloads[w].podHash # None =>
              workloads[w].podHash <= workloads[w].template
        /\ Later(w, workloadCache[w], workloads[w])

ApiOrd ==
    \A p \in Policies : /\ CopyOrd(p, policies[p].status)
                        /\ CopyOrd(p, policyCache[p].status)

ExpOrd == \A p \in Policies : CopyOrd(p, expList[p].status)

RecOrd ==
    /\ recPC # "idle" => CopyOrd(recKey, recPol.status)
    /\ recPC \in Adopted \cup {"persistAdopt"} =>
          Later(RecWorkload, recWl, workloadCache[RecWorkload])
    /\ recPC \in Adopted => Reaches(RecWorkload, recPol.status, recWl)

OrdInv == WorkloadOrd /\ ApiOrd /\ ExpOrd /\ RecOrd

\* Deployments are ordered, and what was replaced stays so.
LEMMA VersionOrder ==
    ASSUME NEW a \in Version, NEW b \in Version, NEW c \in Version
    PROVE  /\ Upto(a, a)
           /\ Upto(a, b) /\ Upto(b, c) => Upto(a, c)
           /\ Replaced(a, b) /\ Upto(b, c) => Replaced(a, c)
           /\ Upto(a, b) /\ ~SameVersion(a, b) => Replaced(a, b)
<1>1. Upto(a, a) /\ (Upto(a, b) /\ Upto(b, c) => Upto(a, c))
  BY BasicsAssumption DEF Version, Upto
<1>2. ASSUME Replaced(a, b), Upto(b, c)
      PROVE  Replaced(a, c)
  <2>1. CASE a = None
    BY <1>2, <2>1 DEF Replaced, Upto
  <2>2. CASE a # None
    <3>1. PICK r \in (a + 1) .. b : ~SameVersion(a, r)
      BY <1>2, <2>2 DEF Replaced
    <3>2. b # None /\ c # None /\ b <= c
      BY <1>2 DEF Replaced, Upto
    <3>3. r \in (a + 1) .. c
      BY <2>2, <3>1, <3>2 DEF Version
    <3> QED
      BY <2>2, <3>1, <3>2, <3>3 DEF Replaced
  <2> QED
    BY <2>1, <2>2
<1>3. ASSUME Upto(a, b), ~SameVersion(a, b)
      PROVE  Replaced(a, b)
  <2>1. CASE a = None
    BY <1>3, <2>1 DEF Replaced, Upto, SameVersion
  <2>2. CASE a # None
    <3>1. b # None /\ a # b /\ a <= b
      BY <1>3, <2>2 DEF Upto, SameVersion
    <3>2. b \in (a + 1) .. b
      BY <2>2, <3>1 DEF Version
    <3> QED
      BY <1>3, <2>2, <3>1, <3>2 DEF Replaced
  <2> QED
    BY <2>1, <2>2
<1> QED
  BY <1>1, <1>2, <1>3

\* So are the objects of a workload, and what is left behind stays so.
LEMMA ObjectOrder ==
    ASSUME NEW w \in Workloads, NEW a \in WorkloadObject,
           NEW b \in WorkloadObject, NEW c \in WorkloadObject
    PROVE  /\ Later(w, a, a)
           /\ Later(w, a, b) /\ Later(w, b, c) => Later(w, a, c)
           /\ Later(w, a, b) => b.uid >= a.uid
           /\ \A uid \in Nat, v \in Version :
                 Left(w, uid, v, a) /\ Later(w, a, b) => Left(w, uid, v, b)
           /\ \A st \in Status : Reaches(w, st, a) /\ Later(w, a, b)
                                    /\ st.uid <= a.uid => Reaches(w, st, b)
<1>1. /\ a.uid \in Nat /\ b.uid \in Nat /\ c.uid \in Nat
      /\ TemplateVersion(w, a) \in Version
      /\ TemplateVersion(w, b) \in Version
      /\ TemplateVersion(w, c) \in Version
  BY WorkloadTypes DEF WorkloadObject
<1>2. Later(w, a, a)
  BY <1>1, VersionOrder DEF Later
<1>3. Later(w, a, b) /\ Later(w, b, c) => Later(w, a, c)
  BY <1>1, VersionOrder DEF Later
<1>4. Later(w, a, b) => b.uid >= a.uid
  BY <1>1 DEF Later
<1>5. ASSUME NEW uid \in Nat, NEW v \in Version,
             Left(w, uid, v, a), Later(w, a, b)
      PROVE  Left(w, uid, v, b)
  BY <1>1, <1>5, VersionOrder DEF Left, Later
<1>6. ASSUME NEW st \in Status, Reaches(w, st, a), Later(w, a, b),
             st.uid <= a.uid
      PROVE  Reaches(w, st, b)
  <2>1. SUFFICES ASSUME st.inFlight # None, b.uid = st.uid
                 PROVE  Upto(st.inFlight.version, TemplateVersion(w, b))
    BY DEF Reaches
  <2>2. st.uid \in Nat /\ st.inFlight.version \in Version
    BY <2>1 DEF Status, Uid, Marker
  <2>3. a.uid = st.uid /\ Upto(TemplateVersion(w, a), TemplateVersion(w, b))
    BY <1>1, <1>6, <2>1, <2>2 DEF Later
  <2> QED
    BY <1>1, <1>6, <2>1, <2>2, <2>3, VersionOrder DEF Reaches
<1> QED
  BY <1>2, <1>3, <1>4, <1>5, <1>6

\* Workloads and their copies move on.
MovesOn ==
    /\ UNCHANGED policyRef
    /\ \A w \in Workloads :
          /\ workloads'[w] \in WorkloadObject
          /\ workloadCache'[w] \in WorkloadObject
          /\ Later(w, workloads[w], workloads'[w])
          /\ Later(w, workloadCache[w], workloadCache'[w])

\* The fields of a status compared.
LEMMA RecordTypes ==
    ASSUME NEW st \in Status
    PROVE  /\ st.uid \in Nat
           /\ st.inFlight # None => st.inFlight.version \in Version
           /\ st.history \in Seq(RestartRecord)
           /\ \A i \in DOMAIN st.history : /\ st.history[i] \in RestartRecord
                                           /\ st.history[i].version \in Version
<1>1. st.uid \in Nat /\ st.history \in Seq(RestartRecord)
  BY DEF Status, Uid
<1>2. st.inFlight # None => st.inFlight.version \in Version
  BY DEF Status, Marker
<1>3. \A i \in DOMAIN st.history : st.history[i] \in RestartRecord
  BY <1>1
<1>4. \A r \in RestartRecord : r.version \in Version
  BY DEF RestartRecord
<1> QED
  BY <1>1, <1>2, <1>3, <1>4

\* A copy of a status stays behind while they do.
LEMMA CopyOrdKept ==
    ASSUME IInv, MovesOn, NEW p \in Policies, NEW st \in Status, Known(p, st),
           CopyOrd(p, st)
    PROVE  CopyOrd(p, st)'
<1> DEFINE w == policyRef[p]
<1>1. /\ w \in Workloads /\ policyRef' = policyRef
      /\ workloads[w] \in WorkloadObject /\ workloadCache[w] \in WorkloadObject
      /\ workloads'[w] \in WorkloadObject /\ workloadCache'[w] \in WorkloadObject
      /\ Later(w, workloads[w], workloads'[w])
      /\ Later(w, workloadCache[w], workloadCache'[w])
      /\ st.uid <= workloadCache[w].uid
  BY UidTypes DEF MovesOn, Known
<1>2. /\ st.uid \in Nat
      /\ \A i \in DOMAIN st.history : st.history[i].version \in Version
  BY RecordTypes
<1> HIDE DEF w
<1>3. /\ st.uid = 0 => st.inFlight = None /\ st.history = <<>>
      /\ Reaches(w, st, workloadCache[w])
      /\ \A i \in DOMAIN st.history : st.history[i].outcome = "Superseded" =>
            Left(w, st.uid, st.history[i].version, workloads[w])
  BY DEF CopyOrd, w
<1>4. /\ Reaches(w, st, workloadCache'[w])
      /\ \A i \in DOMAIN st.history : st.history[i].outcome = "Superseded" =>
            Left(w, st.uid, st.history[i].version, workloads'[w])
  BY <1>1, <1>2, <1>3, ObjectOrder
<1>5. policyRef'[p] = w
  BY <1>1 DEF w
<1> QED
  BY <1>3, <1>4, <1>5 DEF CopyOrd

\* CopyOrd looks at three fields.
LEMMA SameOrd ==
    ASSUME NEW p, NEW st, NEW new, CopyOrd(p, st), new.uid = st.uid,
           new.inFlight = st.inFlight, new.history = st.history
    PROVE  CopyOrd(p, new)
  BY DEF CopyOrd, Reaches

\* A marker is closed as Superseded only when its version was left.
LEMMA CompleteOrd ==
    ASSUME IInv, NEW p \in Policies, NEW st \in GoodStatus, CopyOrd(p, st),
           NEW o,
           o = "Superseded" /\ st.inFlight # None =>
              Left(policyRef[p], st.uid, st.inFlight.version,
                   workloads[policyRef[p]])
    PROVE  CopyOrd(p, CompleteInFlight(st, o))
<1> DEFINE new == CompleteInFlight(st, o)
           n == Len(st.history)
<1>1. st \in Status /\ MarkerAgrees(st) /\ st.history \in Seq(RestartRecord)
      /\ n \in Nat
  BY RecordTypes DEF GoodStatus
<1>2. new.uid = st.uid /\ new.inFlight = None
  BY <1>1 DEF CompleteInFlight, Status
<1>3. CASE n > 0 /\ st.history[n].outcome = "InProgress"
  <2>1. /\ new.history = [st.history EXCEPT ![n] =
                             [st.history[n] EXCEPT !.outcome = o]]
        /\ n \in DOMAIN st.history
    BY <1>1, <1>3 DEF CompleteInFlight, Status
  <2>2. /\ st.inFlight # None
        /\ st.history[n] = [at |-> st.inFlight.at,
                            version |-> st.inFlight.version,
                            outcome |-> "InProgress"]
    BY <1>1, <1>3 DEF MarkerAgrees
  <2>3. /\ DOMAIN new.history = DOMAIN st.history
        /\ \A i \in DOMAIN st.history : i # n => new.history[i] = st.history[i]
        /\ new.history[n].outcome = o
        /\ new.history[n].version = st.inFlight.version
    BY <1>1, <2>1, <2>2
  <2>4. st.uid # 0
    BY <2>2 DEF CopyOrd
  <2> HIDE DEF new
  <2>5. CopyOrd(p, new)
    BY <1>2, <2>2, <2>3, <2>4 DEF CopyOrd, Reaches
  <2> QED
    BY <2>5 DEF new
<1>4. CASE ~(n > 0 /\ st.history[n].outcome = "InProgress")
  <2>1. new.history = st.history
    BY <1>1, <1>4 DEF CompleteInFlight, Status
  <2> HIDE DEF new
  <2>2. CopyOrd(p, new)
    BY <1>2, <2>1 DEF CopyOrd, Reaches
  <2> QED
    BY <2>2 DEF new
<1> QED
  BY <1>3, <1>4

\* The other writes of the controller.
LEMMA WrittenOrd ==
    ASSUME IInv, NEW p \in Policies, NEW st \in Status, CopyOrd(p, st)
    PROVE  /\ \A t : CopyOrd(p, RecomputeObservability(st, t))
           /\ \A mode : CopyOrd(p, [st EXCEPT !.dryRun = mode])
           /\ \A uid : uid # 0 => CopyOrd(p, AdoptWorkload(st, uid))
<1>1. ASSUME NEW t
      PROVE  CopyOrd(p, RecomputeObservability(st, t))
  <2> DEFINE new == RecomputeObservability(st, t)
  <2>1. /\ new.uid = st.uid /\ new.inFlight = st.inFlight
        /\ new.history = st.history
    BY DEF RecomputeObservability, Status
  <2> HIDE DEF new
  <2>2. CopyOrd(p, new)
    BY <2>1, SameOrd
  <2> QED
    BY <2>2 DEF new
<1>2. ASSUME NEW mode
      PROVE  CopyOrd(p, [st EXCEPT !.dryRun = mode])
  <2> DEFINE new == [st EXCEPT !.dryRun = mode]
  <2>1. /\ new.uid = st.uid /\ new.inFlight = st.inFlight
        /\ new.history = st.history
    BY DEF Status
  <2> HIDE DEF new
  <2>2. CopyOrd(p, new)
    BY <2>1, SameOrd
  <2> QED
    BY <2>2 DEF new
<1>3. ASSUME NEW uid, uid # 0
      PROVE  CopyOrd(p, AdoptWorkload(st, uid))
  <2> DEFINE new == AdoptWorkload(st, uid)
  <2>1. /\ new.uid = uid
        /\ \/ new.inFlight = None /\ new.history = <<>>
           \/ /\ st.uid = uid
              /\ new.inFlight = st.inFlight /\ new.history = st.history
    <3>1. CASE st.uid # 0 /\ st.uid # uid
      BY <3>1 DEF AdoptWorkload, Status
    <3>2. CASE st.uid = 0
      BY <3>2 DEF AdoptWorkload, Status, CopyOrd
    <3>3. CASE st.uid = uid
      BY <3>3 DEF AdoptWorkload, Status
    <3> QED
      BY <3>1, <3>2, <3>3
  <2> HIDE DEF new
  <2>2. CopyOrd(p, new)
    <3>1. CASE new.inFlight = None /\ new.history = <<>>
      BY <1>3, <2>1, <3>1 DEF CopyOrd, Reaches
    <3>2. CASE /\ st.uid = uid
               /\ new.inFlight = st.inFlight /\ new.history = st.history
      BY <2>1, <3>2, SameOrd
    <3> QED
      BY <2>1, <3>1, <3>2
  <2> QED
    BY <2>2 DEF new
<1> QED
  BY <1>1, <1>2, <1>3

\* A new record is open, and its marker is at the version restarted.
LEMMA ApplyOrd ==
    ASSUME IInv, NEW p \in Policies, NEW st \in Status, CopyOrd(p, st),
           st.uid # 0, NEW ver \in Version, NEW t \in Time,
           LET obj == workloadCache[policyRef[p]]
           IN  obj.uid = st.uid => Upto(ver, TemplateVersion(policyRef[p], obj))
    PROVE  CopyOrd(p, ApplyRestart(st, ver, t))
<1> DEFINE new == ApplyRestart(st, ver, t)
           r == [at |-> t, version |-> ver, outcome |-> "InProgress"]
           longer == Append(st.history, r)
<1>1. /\ new.uid = st.uid
      /\ new.inFlight = [at |-> t, version |-> ver]
      /\ new.history = Newest(longer)
  <2> HIDE DEF r
  <2>1. new.uid = st.uid
    BY DEF ApplyRestart, Status
  <2>2. new.inFlight = [at |-> t, version |-> ver]
    BY DEF ApplyRestart, Status
  <2>3. new.history = Newest(longer)
    BY DEF ApplyRestart, Status, r
  <2> QED
    BY <2>1, <2>2, <2>3
<1>2. st.history \in Seq(RestartRecord) /\ Len(st.history) \in Nat
  BY RecordTypes
<1>3. r \in RestartRecord
  BY DEF RestartRecord, Outcomes
<1> HIDE DEF r
<1>4. /\ longer \in Seq(RestartRecord) /\ Len(longer) = Len(st.history) + 1
      /\ \A j \in 1 .. Len(longer) :
            longer[j] = r \/ (j \in DOMAIN st.history /\ longer[j] = st.history[j])
  BY <1>2, <1>3
<1> HIDE DEF longer
<1>5. \A i \in DOMAIN Newest(longer) :
         \E j \in 1 .. Len(longer) : Newest(longer)[i] = longer[j]
  BY <1>2, <1>4, StatusAssumption DEF Newest
<1>6. \A i \in DOMAIN new.history :
         new.history[i].outcome = "Superseded" =>
            \E j \in DOMAIN st.history : new.history[i] = st.history[j]
  <2>1. r.outcome # "Superseded"
    BY DEF r
  <2> QED
    BY <1>1, <1>4, <1>5, <2>1
<1>7. Reaches(policyRef[p], new, workloadCache[policyRef[p]])
  BY <1>1 DEF Reaches
<1> HIDE DEF new
<1>8. CopyOrd(p, new)
  BY <1>1, <1>6, <1>7 DEF CopyOrd
<1> QED
  BY <1>8 DEF new

\* A step that leaves workloads and references alone leaves CopyOrd alone.
LEMMA OrdSame ==
    ASSUME UNCHANGED <<wlVars, policyRef>>
    PROVE  /\ WorkloadOrd => WorkloadOrd'
           /\ \A p, st : CopyOrd(p, st) => CopyOrd(p, st)'
           /\ ApiOrd /\ UNCHANGED apiVars => ApiOrd'
           /\ ExpOrd /\ UNCHANGED expVars => ExpOrd'
           /\ RecOrd /\ UNCHANGED recVars => RecOrd'
<1>1. UNCHANGED <<workloads, workloadCache, policyRef>>
  BY DEF wlVars
<1>2. WorkloadOrd => WorkloadOrd'
  BY <1>1 DEF WorkloadOrd
<1>3. \A p, st : CopyOrd(p, st) => CopyOrd(p, st)'
  BY <1>1 DEF CopyOrd
<1>4. ApiOrd /\ UNCHANGED apiVars => ApiOrd'
  BY <1>3 DEF ApiOrd, apiVars
<1>5. ExpOrd /\ UNCHANGED expVars => ExpOrd'
  BY <1>3 DEF ExpOrd, expVars
<1>6. RecOrd /\ UNCHANGED recVars => RecOrd'
  BY <1>1, <1>3 DEF RecOrd, recVars, RecWorkload
<1> QED
  BY <1>2, <1>3, <1>4, <1>5, <1>6

\* A write of a policy object whose status is in order.
LEMMA StoreOrd ==
    ASSUME IInv, ApiOrd, NEW p \in Policies, NEW pol, CopyOrd(p, pol.status),
           Store(p, pol), UNCHANGED wlVars
    PROVE  ApiOrd' /\ UNCHANGED policyRef
<1>1. UNCHANGED policyRef
  BY DEF Store
<1>2. /\ policies' = [policies EXCEPT ![p] = pol]
      /\ policies \in [Policies -> GoodPolicy]
      /\ \A q \in Policies :
            policyCache'[q] = policyCache[q] \/ (q = p /\ policyCache'[q] = pol)
  BY DEF Store, IInv, ApiInv
<1>3. \A q \in Policies : /\ CopyOrd(q, policies'[q].status)
                          /\ CopyOrd(q, policyCache'[q].status)
  BY <1>2 DEF ApiOrd
<1> QED
  BY <1>1, <1>3, OrdSame DEF ApiOrd

\* A status write, in place or over another status.
LEMMA PersistOrd ==
    ASSUME IInv, ApiOrd, NEW p \in Policies, NEW copy, NEW st, CopyOrd(p, st),
           NEW err, NEW fault, Persist(p, copy, st, err, fault),
           UNCHANGED wlVars
    PROVE  ApiOrd' /\ UNCHANGED policyRef
<1> DEFINE pol == [policies[p] EXCEPT !.status = st, !.rv = @ + 1]
<1>1. CASE UNCHANGED apiVars
  BY <1>1, OrdSame DEF apiVars
<1>2. CASE Store(p, pol)
  <2>1. pol.status = st
    BY DEF IInv, ApiInv, GoodPolicy, PolicyObject
  <2> HIDE DEF pol
  <2> QED
    BY <1>2, <2>1, StoreOrd
<1> QED
  BY <1>1, <1>2 DEF Persist

\* The end of a reconcile, and its next step past PersistAdopt.
LEMMA ReturnOrd == (\E keys : Return(keys)) => RecOrd'
  BY DEF Return, ResetRec, RecOrd, Adopted

\* A step past PersistAdopt keeps both copies.
LEMMA GotoOrd ==
    ASSUME RecOrd, recPC \in Adopted, NEW pc \in Adopted, Goto(pc),
           UNCHANGED <<wlVars, policyRef>>
    PROVE  RecOrd'
<1>1. /\ recPC # "idle" /\ recPC' \in Adopted
      /\ UNCHANGED <<recKey, recPol, recWl, workloadCache>>
  BY DEF Goto, Adopted, wlVars
<1>2. CopyOrd(recKey, recPol.status)'
  BY <1>1, OrdSame DEF RecOrd
<1> QED
  BY <1>1, <1>2 DEF RecOrd, RecWorkload

\* A Persist in the middle of a reconcile.
LEMMA PersistThenOrd ==
    ASSUME IInv, OrdInv, recPC # "idle", NEW st, CopyOrd(recKey, st),
           NEW pc \in RecPCs \ {"persistAdopt"},
           pc \in Adopted => /\ recPC \in Adopted \cup {"persistAdopt"}
                             /\ Reaches(RecWorkload, st, recWl),
           PersistThen(st, pc), UNCHANGED wlVars
    PROVE  ApiOrd' /\ RecOrd' /\ UNCHANGED policyRef
<1>0. recKey \in Policies /\ recPol \in PolicyObject
  BY DEF IInv, RecInv, GoodPolicy
<1>1. PICK err \in BOOLEAN, fault \in BOOLEAN :
        /\ Persist(recKey, recPol, st, err, fault)
        /\ \/ Return({recKey})
           \/ /\ recPC' = pc
              /\ recPol' = Persisted(recKey, recPol, st)
              /\ UNCHANGED <<recKey, recWl, recNow>>
  BY DEF PersistThen
<1>2. ApiOrd' /\ UNCHANGED policyRef
  BY <1>0, <1>1, PersistOrd DEF OrdInv
<1>3. CASE Return({recKey})
  BY <1>2, <1>3, ReturnOrd
<1>4. CASE /\ recPC' = pc
           /\ recPol' = Persisted(recKey, recPol, st)
           /\ UNCHANGED <<recKey, recWl, recNow>>
  <2>1. recPol'.status = st
    BY <1>0, <1>4 DEF Persisted, PolicyObject
  <2>2. CopyOrd(recKey, st)'
    BY <1>2, <1>4, OrdSame
  <2>3. UNCHANGED workloadCache
    BY DEF wlVars
  <2> QED
    BY <1>2, <1>4, <2>1, <2>2, <2>3 DEF RecOrd, OrdInv, RecWorkload, CopyOrd
<1> QED
  BY <1>1, <1>3, <1>4

\* Steps that neither write an object nor move a reconcile, but for the end of
\* one or its next step past PersistAdopt.
LEMMA QuietOrd ==
    ASSUME IInv, OrdInv, UNCHANGED <<apiVars, wlVars>>,
           UNCHANGED expVars \/ ExpOrd',
           \/ UNCHANGED recVars
           \/ \E keys : Return(keys)
           \/ recPC \in Adopted /\ \E pc \in Adopted : Goto(pc)
    PROVE  OrdInv'
<1>1. UNCHANGED policyRef
  BY DEF apiVars
<1>2. WorkloadOrd' /\ ApiOrd' /\ ExpOrd'
  BY <1>1, OrdSame DEF OrdInv
<1>3. RecOrd'
  BY <1>1, OrdSame, ReturnOrd, GotoOrd DEF OrdInv
<1> QED
  BY <1>2, <1>3 DEF OrdInv

\* A new status has nothing to be ahead of.
LEMMA NewOrd ==
    /\ \A p : CopyOrd(p, InitStatus)
    /\ \A p, m, rv : CopyOrd(p, NewPolicy(m, rv).status)
    /\ \A p, rv : CopyOrd(p, [NoPolicy EXCEPT !.rv = rv].status)
    /\ \A p : CopyOrd(p, NoPolicy.status)
<1>1. \A p : CopyOrd(p, InitStatus)
  BY DEF CopyOrd, Reaches, InitStatus
<1>2. /\ \A m, rv : NewPolicy(m, rv).status = InitStatus
      /\ \A rv : [NoPolicy EXCEPT !.rv = rv].status = InitStatus
      /\ NoPolicy.status = InitStatus
  BY DEF NewPolicy, NoPolicy
<1> QED
  BY <1>1, <1>2

\* What a reconcile past its first read relies on.
LEMMA ActingOrd ==
    ASSUME IInv, UidInv, OrdInv, recPC # "idle"
    PROVE  /\ recKey \in Policies /\ RecWorkload \in Workloads
           /\ RecWorkload = policyRef[recKey]
           /\ recPol.status \in Status /\ recPol.status \in GoodStatus
           /\ CopyOrd(recKey, recPol.status)
           /\ recWl \in WorkloadObject
           /\ workloads[RecWorkload] \in WorkloadObject
           /\ workloadCache[RecWorkload] \in WorkloadObject
           /\ Later(RecWorkload, workloadCache[RecWorkload],
                    workloads[RecWorkload])
           /\ TemplateVersion(RecWorkload, recWl) \in Version
           /\ recWl.uid \in Nat /\ recNow \in Time
<1>1. recKey \in Policies /\ RecWorkload \in Workloads
  BY UidTypes DEF IInv, RecInv, RecWorkload
<1>2. /\ recWl \in WorkloadObject /\ recNow \in Time
      /\ workloads[RecWorkload] \in WorkloadObject
      /\ workloadCache[RecWorkload] \in WorkloadObject
  BY <1>1, UidTypes DEF IInv, RecInv
<1> QED
  BY <1>1, <1>2, ActingOn, UidTypes, WorkloadTypes
  DEF OrdInv, RecOrd, WorkloadOrd, RecWorkload

\* A key is taken from the queue.
LEMMA GetPolicyOrd ==
    ASSUME IInv, OrdInv, NEW p \in Policies, GetPolicy(p)
    PROVE  OrdInv'
<1>1. CASE UNCHANGED recVars
  BY <1>1, QuietOrd DEF GetPolicy
<1>2. CASE /\ recKey' = p /\ recPol' = policyCache[p]
           /\ recPC' \in {"finalize", "addFinalizer", "persistMode",
                          "getWorkload"}
  <2>1. UNCHANGED <<apiVars, wlVars, expVars, policyRef>>
    BY DEF GetPolicy, apiVars
  <2>2. CopyOrd(p, policyCache[p].status)'
    BY <2>1, OrdSame DEF OrdInv, ApiOrd, apiVars
  <2>3. RecOrd'
    BY <1>2, <2>1, <2>2 DEF RecOrd, Adopted, apiVars
  <2> QED
    BY <2>1, <2>3, OrdSame DEF OrdInv
<1> QED
  BY <1>1, <1>2 DEF GetPolicy

\* The two writes of metadata.
LEMMA MetadataOrd ==
    ASSUME IInv, OrdInv, Finalize \/ AddFinalizer
    PROVE  OrdInv'
<1>1. /\ recKey \in Policies /\ UNCHANGED <<wlVars, expVars>>
      /\ policies[recKey] \in PolicyObject
      /\ \E keys : Return(keys)
  BY DEF Finalize, AddFinalizer, IInv, RecInv, ApiInv, GoodPolicy
<1>2. PICK pol : /\ Store(recKey, pol) \/ UNCHANGED apiVars
                 /\ CopyOrd(recKey, pol.status)
  <2> DEFINE gone == [NoPolicy EXCEPT !.rv = recPol.rv + 1]
             final == [policies[recKey] EXCEPT !.finalizer = TRUE, !.rv = @ + 1]
  <2>1. CopyOrd(recKey, gone.status)
    BY NewOrd
  <2>2. CopyOrd(recKey, final.status)
    <3>1. final.status = policies[recKey].status
      BY <1>1 DEF PolicyObject
    <3> QED
      BY <1>1, <3>1 DEF OrdInv, ApiOrd
  <2>3. \/ Store(recKey, gone) \/ UNCHANGED apiVars
        \/ Store(recKey, final)
    BY DEF Finalize, AddFinalizer, Update
  <2> HIDE DEF gone, final
  <2> QED
    BY <2>1, <2>2, <2>3
<1>3. ApiOrd' /\ UNCHANGED policyRef
  BY <1>1, <1>2, StoreOrd, OrdSame DEF OrdInv, apiVars
<1> QED
  BY <1>1, <1>3, OrdSame, ReturnOrd DEF OrdInv

\* The status writes of the reconciler.
LEMMA RecPersistOrd ==
    ASSUME IInv, UidInv, OrdInv,
           PersistMode \/ PersistAdopt \/ PersistDone \/ PersistRestart
    PROVE  OrdInv'
<1> DEFINE w == RecWorkload
           st == recPol.status
           ver == TemplateVersion(RecWorkload, recWl)
<1>0. /\ recPC # "idle" /\ UNCHANGED <<wlVars, expVars>>
      /\ CacheUids /\ RecUids
  BY DEF PersistMode, PersistAdopt, PersistDone, PersistRestart, UidInv
<1>1. /\ recKey \in Policies /\ w \in Workloads /\ w = policyRef[recKey]
      /\ st \in Status /\ st \in GoodStatus /\ CopyOrd(recKey, st)
      /\ recWl \in WorkloadObject /\ workloads[w] \in WorkloadObject
      /\ workloadCache[w] \in WorkloadObject
      /\ Later(w, workloadCache[w], workloads[w])
      /\ ver \in Version /\ recWl.uid \in Nat /\ recNow \in Time
  BY <1>0, ActingOrd
<1>2. SUFFICES ApiOrd' /\ RecOrd' /\ UNCHANGED policyRef
  BY <1>0, OrdSame DEF OrdInv
<1>3. CASE PersistMode
  <2>1. CopyOrd(recKey, [st EXCEPT !.dryRun = recPol.dryRun])
    BY <1>1, WrittenOrd
  <2>2. "getWorkload" \in RecPCs \ {"persistAdopt"} /\ "getWorkload" \notin Adopted
    BY DEF RecPCs, Adopted
  <2> QED
    BY <1>0, <1>3, <2>1, <2>2, PersistThenOrd DEF PersistMode
<1>4. CASE PersistAdopt
  <2> DEFINE new == AdoptWorkload(st, recWl.uid)
  <2>1. recWl.uid # 0 /\ st.uid < recWl.uid /\ recPC = "persistAdopt"
    BY <1>0, <1>4 DEF PersistAdopt, RecUids
  <2>2. CopyOrd(recKey, new)
    BY <1>1, <2>1, WrittenOrd
  <2>3. new.inFlight = None
    <3>1. CASE st.uid = 0
      BY <1>1, <3>1 DEF CopyOrd, AdoptWorkload, Status
    <3>2. CASE st.uid # 0
      BY <1>1, <2>1, <3>2, RecordTypes DEF AdoptWorkload, Status
    <3> QED
      BY <3>1, <3>2
  <2>4. PersistThen(new, "settle")
    BY <1>4 DEF PersistAdopt
  <2>5. "settle" \in RecPCs \ {"persistAdopt"}
    BY DEF RecPCs
  <2> HIDE DEF new
  <2>6. Reaches(RecWorkload, new, recWl)
    BY <2>3 DEF Reaches
  <2> QED
    BY <1>0, <2>1, <2>2, <2>4, <2>5, <2>6, PersistThenOrd
<1>5. recPC \in Adopted =>
         /\ st.uid = recWl.uid /\ st.uid # 0
         /\ Reaches(w, st, recWl) /\ Later(w, recWl, workloadCache[w])
  BY <1>0 DEF RecUids, OrdInv, RecOrd
<1>6. CASE PersistDone
  <2>1. recPC \in Adopted
    BY <1>6 DEF PersistDone, Adopted
  <2>2. st.inFlight # None /\ ~SameVersion(st.inFlight.version, ver) =>
           Left(policyRef[recKey], st.uid, st.inFlight.version,
                workloads[policyRef[recKey]])
    <3> SUFFICES ASSUME st.inFlight # None,
                        ~SameVersion(st.inFlight.version, ver)
                 PROVE  Left(w, st.uid, st.inFlight.version, workloads[w])
      BY <1>1
    <3>1. st.inFlight.version \in Version /\ st.uid \in Nat
      BY <1>1, RecordTypes
    <3>2. Replaced(st.inFlight.version, ver)
      BY <1>1, <1>5, <2>1, <3>1, VersionOrder DEF Reaches
    <3>3. Left(w, st.uid, st.inFlight.version, recWl)
      BY <1>5, <2>1, <3>2 DEF Left
    <3>4. Left(w, st.uid, st.inFlight.version, workloadCache[w])
      BY <1>1, <1>5, <2>1, <3>1, <3>3, ObjectOrder
    <3> QED
      BY <1>1, <3>1, <3>4, ObjectOrder
  <2> DEFINE o == IF ~SameVersion(st.inFlight.version, ver)
                  THEN "Superseded" ELSE "Settled"
             done == CompleteInFlight(st, o)
  <2>3. CopyOrd(recKey, done)
    BY <1>1, <2>2, CompleteOrd
  <2>4. done \in Status
    <3>1. o \in Terminal
      BY DEF Terminal, Outcomes
    <3> HIDE DEF o
    <3> QED
      BY <1>1, <3>1, GoodWrites DEF GoodStatus
  <2>5. DoneStatus = RecomputeObservability(done, recNow)
    BY DEF DoneStatus
  <2> HIDE DEF done
  <2>6. CopyOrd(recKey, DoneStatus)
    BY <1>1, <2>3, <2>4, <2>5, WrittenOrd
  <2>7. PICK err, fault, keys : /\ Persist(recKey, recPol, DoneStatus, err, fault)
                                /\ Return(keys)
    BY <1>6 DEF PersistDone
  <2> QED
    BY <1>0, <1>1, <2>6, <2>7, PersistOrd, ReturnOrd DEF OrdInv
<1>7. CASE PersistRestart
  <2>1. recPC \in Adopted
    BY <1>7 DEF PersistRestart, Adopted
  <2> DEFINE new == ApplyRestart(st, ver, recNow)
  <2>2. workloadCache[w].uid = st.uid =>
           Upto(ver, TemplateVersion(w, workloadCache[w]))
    BY <1>1, <1>5, <2>1 DEF Later
  <2>3. CopyOrd(recKey, new)
    BY <1>1, <1>5, <2>1, <2>2, ApplyOrd
  <2>4. new \in Status
    <3>1. ~BreakerTripped(st, ver, recNow)
      BY <1>7 DEF PersistRestart, IInv, RecInv, GuardsPassed
    <3> QED
      BY <1>1, <3>1, GoodWrites DEF GoodStatus
  <2>5. new.inFlight.version = ver
    BY <1>1 DEF ApplyRestart, Status
  <2>6. RestartStatus = RecomputeObservability(new, recNow)
    BY DEF RestartStatus
  <2> HIDE DEF new
  <2>7. CopyOrd(recKey, RestartStatus)
    BY <1>1, <2>3, <2>4, <2>6, WrittenOrd
  <2>8. RestartStatus.inFlight = new.inFlight
    BY <2>4, <2>6 DEF RecomputeObservability, Status
  <2>9. Reaches(w, RestartStatus, recWl)
    BY <1>1, <2>5, <2>8, VersionOrder DEF Reaches
  <2>10. "dispatch" \in RecPCs \ {"persistAdopt"}
    BY DEF RecPCs
  <2> QED
    BY <1>0, <1>7, <2>1, <2>7, <2>9, <2>10, PersistThenOrd DEF PersistRestart
<1> QED
  BY <1>3, <1>4, <1>6, <1>7

\* The workload is resolved: the copy is the cached object.
LEMMA GetWorkloadOrd ==
    ASSUME IInv, UidInv, OrdInv, GetWorkload
    PROVE  OrdInv'
<1>1. CASE Return({recKey})
  BY <1>1, QuietOrd DEF GetWorkload
<1>2. CASE /\ recWl' = workloadCache[RecWorkload]
           /\ UNCHANGED <<recKey, recPol>>
  <2>1. /\ UNCHANGED <<apiVars, wlVars, expVars, policyRef, workloadCache>>
        /\ recPC # "idle"
    BY DEF GetWorkload, apiVars, wlVars
  <2>2. /\ RecWorkload \in Workloads /\ RecWorkload = policyRef[recKey]
        /\ CopyOrd(recKey, recPol.status)
        /\ workloadCache[RecWorkload] \in WorkloadObject
    BY <2>1, ActingOrd
  <2>3. /\ Later(RecWorkload, workloadCache[RecWorkload],
                 workloadCache[RecWorkload])
        /\ Reaches(RecWorkload, recPol.status, workloadCache[RecWorkload])
    BY <2>2, ObjectOrder DEF CopyOrd
  <2>4. CopyOrd(recKey, recPol.status)'
    BY <1>2, <2>1, <2>2, OrdSame
  <2>5. RecOrd'
    BY <1>2, <2>1, <2>3, <2>4 DEF RecOrd, RecWorkload
  <2> QED
    BY <2>1, <2>5, OrdSame DEF OrdInv
<1> QED
  BY <1>1, <1>2 DEF GetWorkload

\* The steps of a reconcile that write no object.
LEMMA DecideOrd ==
    ASSUME IInv, OrdInv, Settle \/ Detect \/ Guard \/ DryRun
    PROVE  OrdInv'
<1>1. recPC \in Adopted /\ UNCHANGED <<apiVars, wlVars, expVars>>
  BY DEF Settle, Detect, Guard, DryRun, Adopted
<1>2. \/ \E keys : Return(keys)
      \/ \E pc \in Adopted : Goto(pc)
  BY DEF Settle, Detect, Guard, DryRun, Adopted
<1> QED
  BY <1>1, <1>2, QuietOrd

\* Workloads that move on leave every copy in order.
LEMMA MovedOrd ==
    ASSUME IInv, UidInv, OrdInv, MovesOn,
           \A w \in Workloads :
              /\ workloads'[w].podHash # None =>
                    workloads'[w].podHash <= workloads'[w].template
              /\ Later(w, workloadCache'[w], workloads'[w]),
           UNCHANGED policies,
           \A p \in Policies : policyCache'[p] \in {policyCache[p], policies[p]},
           \A p \in Policies : expList'[p] \in {expList[p], NoPolicy},
           UNCHANGED recVars \/ recPC' = "idle"
    PROVE  OrdInv'
<1>1. WorkloadOrd'
  BY DEF WorkloadOrd
<1>2. \A p \in Policies :
         /\ policies[p].status \in Status /\ policyCache[p].status \in Status
         /\ expList[p].status \in Status
         /\ Known(p, policies[p].status) /\ Known(p, policyCache[p].status)
         /\ Known(p, expList[p].status)
  BY DEF IInv, ApiInv, ExpInv, GoodPolicy, GoodStatus, UidInv, ApiUids, ExpUids
<1>3. \A p \in Policies : /\ CopyOrd(p, policies[p].status)'
                          /\ CopyOrd(p, policyCache[p].status)'
  <2> SUFFICES ASSUME NEW p \in Policies
               PROVE  /\ CopyOrd(p, policies[p].status)'
                      /\ CopyOrd(p, policyCache[p].status)'
    OBVIOUS
  <2>1. /\ CopyOrd(p, policies[p].status)
        /\ CopyOrd(p, policyCache[p].status)
    BY DEF OrdInv, ApiOrd
  <2>2. \A st \in Status : Known(p, st) /\ CopyOrd(p, st) => CopyOrd(p, st)'
    BY CopyOrdKept
  <2>3. policies'[p] = policies[p]
    OBVIOUS
  <2> QED
    BY <1>2, <2>1, <2>2, <2>3
<1>4. \A p \in Policies : CopyOrd(p, expList[p].status)'
  <2> SUFFICES ASSUME NEW p \in Policies
               PROVE  CopyOrd(p, expList[p].status)'
    OBVIOUS
  <2>1. CopyOrd(p, expList[p].status)
    BY DEF OrdInv, ExpOrd
  <2>2. \A st \in Status : Known(p, st) /\ CopyOrd(p, st) => CopyOrd(p, st)'
    BY CopyOrdKept
  <2>3. CopyOrd(p, NoPolicy.status)'
    BY NewOrd DEF CopyOrd, Reaches, NoPolicy, InitStatus
  <2> QED
    BY <1>2, <2>1, <2>2, <2>3
<1>5. RecOrd'
  <2>1. CASE recPC' = "idle"
    BY <2>1 DEF RecOrd, Adopted
  <2>2. CASE UNCHANGED recVars /\ recPC # "idle"
    <3>1. /\ recKey \in Policies /\ RecWorkload \in Workloads
          /\ recPol.status \in Status /\ CopyOrd(recKey, recPol.status)
          /\ Known(recKey, recPol.status) /\ recWl \in WorkloadObject
          /\ workloadCache[RecWorkload] \in WorkloadObject
      BY <2>2, ActingOrd, ActingOn
    <3>2. CopyOrd(recKey, recPol.status)'
      BY <2>2, <3>1, CopyOrdKept DEF recVars
    <3>3. recPC \in Adopted \cup {"persistAdopt"} =>
             Later(RecWorkload, recWl, workloadCache'[RecWorkload])
      BY <3>1, ObjectOrder DEF OrdInv, RecOrd, MovesOn
    <3> QED
      BY <2>2, <3>2, <3>3
      DEF OrdInv, RecOrd, recVars, RecWorkload, MovesOn
  <2> QED
    BY <2>1, <2>2 DEF recVars
<1> QED
  BY <1>1, <1>3, <1>4, <1>5 DEF OrdInv, ApiOrd, ExpOrd

HashOrder(obj) == obj.podHash # None => obj.podHash <= obj.template

\* Whoever writes a workload moves it on.
LEMMA StepsMoveOn ==
    ASSUME NEW w \in Workloads, NEW a \in WorkloadObject, HashOrder(a)
    PROVE  /\ Later(w, a, Restarted(a)) /\ HashOrder(Restarted(a))
           /\ Later(w, a, NewTemplate(a)) /\ HashOrder(NewTemplate(a))
           /\ Later(w, a, Disturbed(a)) /\ HashOrder(Disturbed(a))
           /\ Later(w, a, Progressed(a)) /\ HashOrder(Progressed(a))
           /\ Later(w, a, Deleted(a)) /\ HashOrder(Deleted(a))
           /\ Later(w, a, Recreated(a)) /\ HashOrder(Recreated(a))
           /\ Later(w, a, [a EXCEPT !.onDelete = ~@])
           /\ HashOrder([a EXCEPT !.onDelete = ~@])
<1>1. /\ a.uid \in Nat /\ a.template \in Nat /\ None \notin Nat
      /\ a.podHash \in Nat \cup {None}
      /\ TemplateVersion(w, a) \in Version
      /\ Upto(TemplateVersion(w, a), TemplateVersion(w, a))
  BY WorkloadTypes, VersionOrder, BasicsAssumption DEF WorkloadObject
<1>2. /\ Restarted(a).podHash = a.podHash /\ Restarted(a).template = a.template
      /\ Restarted(a).uid = a.uid /\ Restarted(a).exists = a.exists
  BY DEF Restarted, WorkloadObject
<1>3. /\ NewTemplate(a).podHash = a.podHash
      /\ NewTemplate(a).template = a.template + 1
      /\ NewTemplate(a).uid = a.uid /\ NewTemplate(a).exists = a.exists
  BY DEF NewTemplate, WorkloadObject
<1>4. /\ Disturbed(a).podHash = a.podHash /\ Disturbed(a).template = a.template
      /\ Disturbed(a).uid = a.uid /\ Disturbed(a).exists = a.exists
  BY DEF Disturbed, WorkloadObject
<1>5. /\ Progressed(a).podHash = a.template
      /\ Progressed(a).template = a.template
      /\ Progressed(a).uid = a.uid /\ Progressed(a).exists = a.exists
  BY DEF Progressed, WorkloadObject
<1>6. /\ Deleted(a).podHash = a.podHash /\ Deleted(a).template = a.template
      /\ Deleted(a).uid = a.uid /\ ~Deleted(a).exists
  BY DEF Deleted, WorkloadObject
<1>7. Recreated(a).podHash = None /\ Recreated(a).uid = a.uid + 1
  BY DEF Recreated, WorkloadObject
<1>8. /\ [a EXCEPT !.onDelete = ~@].podHash = a.podHash
      /\ [a EXCEPT !.onDelete = ~@].template = a.template
      /\ [a EXCEPT !.onDelete = ~@].uid = a.uid
      /\ [a EXCEPT !.onDelete = ~@].exists = a.exists
  BY DEF WorkloadObject
<1>9. ASSUME NEW b, b.uid = a.uid, b.exists => a.exists,
             b.podHash = a.podHash \/ b.podHash = a.template,
             b.template = a.template \/ b.template = a.template + 1
      PROVE  Later(w, a, b) /\ HashOrder(b)
  BY <1>1, <1>9 DEF Later, HashOrder, Upto, TemplateVersion
<1>10. ASSUME NEW b, b.uid = a.uid + 1, b.podHash = None
       PROVE  Later(w, a, b) /\ HashOrder(b)
  BY <1>1, <1>10 DEF Later, HashOrder
<1> HIDE DEF HashOrder
<1>11. /\ Later(w, a, Restarted(a)) /\ HashOrder(Restarted(a))
       /\ Later(w, a, NewTemplate(a)) /\ HashOrder(NewTemplate(a))
       /\ Later(w, a, Disturbed(a)) /\ HashOrder(Disturbed(a))
       /\ Later(w, a, Progressed(a)) /\ HashOrder(Progressed(a))
  BY <1>2, <1>3, <1>4, <1>5, <1>9
<1>12. /\ Later(w, a, Deleted(a)) /\ HashOrder(Deleted(a))
       /\ Later(w, a, Recreated(a)) /\ HashOrder(Recreated(a))
  BY <1>6, <1>7, <1>9, <1>10
<1>13. /\ Later(w, a, [a EXCEPT !.onDelete = ~@])
       /\ HashOrder([a EXCEPT !.onDelete = ~@])
  BY <1>8, <1>9
<1> QED
  BY <1>11, <1>12, <1>13

\* A write of a workload that moves it on.
LEMMA StoreWorkloadOrd ==
    ASSUME IInv, UidInv, OrdInv, NEW w \in Workloads, NEW obj \in WorkloadObject,
           Later(w, workloads[w], obj), HashOrder(obj), StoreWorkload(w, obj),
           UNCHANGED apiVars, UNCHANGED expVars,
           UNCHANGED recVars \/ recPC' = "idle"
    PROVE  OrdInv'
<1>1. /\ workloads \in [Workloads -> WorkloadObject]
      /\ workloadCache \in [Workloads -> WorkloadObject]
      /\ UNCHANGED <<policyRef, policies, policyCache, expList>>
  BY DEF IInv, WlInv, apiVars, expVars
<1>2. \A v \in Workloads :
         /\ Later(v, workloadCache[v], workloads[v])
         /\ HashOrder(workloads[v])
  BY DEF OrdInv, WorkloadOrd, HashOrder
<1>3. \A v \in Workloads :
         /\ \/ workloads'[v] = workloads[v]
            \/ v = w /\ workloads'[v] = obj
         /\ \/ workloadCache'[v] = workloadCache[v]
            \/ v = w /\ workloadCache'[v] = obj /\ workloads'[v] = obj
  BY <1>1 DEF StoreWorkload
<1>4. ASSUME NEW v \in Workloads
      PROVE  /\ workloads'[v] \in WorkloadObject
             /\ workloadCache'[v] \in WorkloadObject
             /\ Later(v, workloads[v], workloads'[v])
             /\ Later(v, workloadCache[v], workloadCache'[v])
             /\ Later(v, workloadCache'[v], workloads'[v])
             /\ HashOrder(workloads'[v])
  <2>1. workloads[v] \in WorkloadObject /\ workloadCache[v] \in WorkloadObject
    BY <1>1
  <2>2. Later(v, workloads[v], workloads'[v]) /\ workloads'[v] \in WorkloadObject
        /\ HashOrder(workloads'[v])
    BY <1>2, <1>3, <2>1, ObjectOrder
  <2>3. Later(v, workloadCache[v], workloads'[v])
    BY <1>2, <2>1, <2>2, ObjectOrder
  <2>4. CASE workloadCache'[v] = workloadCache[v]
    BY <2>1, <2>2, <2>3, <2>4, ObjectOrder
  <2>5. CASE workloadCache'[v] = workloads'[v]
    BY <2>2, <2>3, <2>5, ObjectOrder
  <2> QED
    BY <1>3, <2>2, <2>4, <2>5
<1>5. MovesOn
  BY <1>1, <1>4 DEF MovesOn
<1> QED
  BY <1>1, <1>4, <1>5, MovedOrd DEF HashOrder

\* A patch, in time or late, moves the generation on, not the template.
LEMMA PatchOrd ==
    ASSUME IInv, UidInv, OrdInv, Dispatch \/ \E p \in Policies : LateDispatch(p)
    PROVE  OrdInv'
<1>1. /\ UNCHANGED <<apiVars, expVars>>
      /\ UNCHANGED recVars \/ \E keys : Return(keys)
  BY DEF Dispatch, LateDispatch
<1>2. UNCHANGED wlVars \/ \E p \in Policies : \E restart : Landed(p, restart)
  BY DEF Dispatch, Triggered, LateDispatch, IInv, RecInv
<1>3. CASE UNCHANGED wlVars
  BY <1>1, <1>3, QuietOrd
<1>4. ASSUME NEW p \in Policies, NEW restart, Landed(p, restart)
      PROVE  OrdInv'
  <2> DEFINE w == policyRef[p]
  <2>1. w \in Workloads /\ workloads[w] \in WorkloadObject
    BY UidTypes
  <2>2. HashOrder(workloads[w])
    BY <2>1 DEF OrdInv, WorkloadOrd, HashOrder
  <2>3. StoreWorkload(w, Restarted(workloads[w]))
    BY <1>4 DEF Landed
  <2>4. UNCHANGED recVars \/ recPC' = "idle"
    BY <1>1 DEF Return, ResetRec
  <2>5. Restarted(workloads[w]) \in WorkloadObject
    BY <2>1, WorkloadTypes
  <2> QED
    BY <1>1, <2>1, <2>2, <2>3, <2>4, <2>5, StepsMoveOn, StoreWorkloadOrd
<1> QED
  BY <1>2, <1>3, <1>4

\* Owners and workload controllers move a workload on.
LEMMA WorkloadChangeOrd ==
    ASSUME IInv, UidInv, OrdInv, NEW w \in Workloads,
           \/ ExternalRollout(w) \/ Disturb(w) \/ DeleteWorkload(w)
           \/ RecreateWorkload(w) \/ ChangeStrategy(w) \/ Progress(w)
    PROVE  OrdInv'
<1>1. workloads[w] \in WorkloadObject /\ HashOrder(workloads[w])
  BY UidTypes DEF OrdInv, WorkloadOrd, HashOrder
<1>2. PICK obj \in WorkloadObject :
         /\ ChangeWorkload(w, obj)
         /\ Later(w, workloads[w], obj) /\ HashOrder(obj)
  BY <1>1, WorkloadTypes, StepsMoveOn
  DEF ExternalRollout, Disturb, DeleteWorkload, RecreateWorkload,
      ChangeStrategy, Progress
<1>3. /\ StoreWorkload(w, obj)
      /\ UNCHANGED apiVars /\ UNCHANGED expVars /\ UNCHANGED recVars
  BY <1>2 DEF ChangeWorkload
<1> QED
  BY <1>2, <1>3, StoreWorkloadOrd

\* Caches that catch up, and a leader that dies with them.
LEMMA SyncOrd ==
    ASSUME IInv, UidInv, OrdInv,
           \/ Failover
           \/ \E p \in Policies : SyncPolicy(p)
           \/ \E w \in Workloads : SyncWorkload(w)
    PROVE  OrdInv'
<1>1. /\ UNCHANGED <<policyRef, policies, workloads>>
      /\ \A w \in Workloads : \/ workloadCache'[w] = workloadCache[w]
                              \/ workloadCache'[w] = workloads[w]
      /\ \A p \in Policies : policyCache'[p] \in {policyCache[p], policies[p]}
      /\ \A p \in Policies : expList'[p] \in {expList[p], NoPolicy}
      /\ UNCHANGED recVars \/ recPC' = "idle"
  BY DEF Failover, ResetRec, SyncPolicy, SyncWorkload, IInv, WlInv, ApiInv,
         wlVars, expVars
<1>2. ASSUME NEW w \in Workloads
      PROVE  /\ workloads[w] \in WorkloadObject
             /\ workloadCache'[w] \in WorkloadObject
             /\ Later(w, workloads[w], workloads[w])
             /\ Later(w, workloadCache[w], workloadCache'[w])
             /\ Later(w, workloadCache'[w], workloads[w])
             /\ HashOrder(workloads[w])
  <2>1. /\ workloads[w] \in WorkloadObject
        /\ workloadCache[w] \in WorkloadObject
        /\ Later(w, workloadCache[w], workloads[w]) /\ HashOrder(workloads[w])
    BY UidTypes DEF OrdInv, WorkloadOrd, HashOrder
  <2> QED
    BY <1>1, <2>1, ObjectOrder
<1>3. MovesOn
  BY <1>1, <1>2 DEF MovesOn
<1> QED
  BY <1>1, <1>2, <1>3, MovedOrd DEF HashOrder

\* The sweep closes a marker as Superseded when the copy has left its version.
LEMMA ClassifyOrd ==
    ASSUME IInv, UidInv, OrdInv, NEW p \in Policies, NEW unread \in BOOLEAN,
           LET pol == expList[p]
           IN  /\ pol.status.inFlight # None
               /\ classifyInFlight(policyRef[p], pol, unread) = "Superseded",
           None # "Superseded"
    PROVE  LET st == expList[p].status
               w == policyRef[p]
           IN  Left(w, st.uid, st.inFlight.version, workloads[w])
<1> DEFINE st == expList[p].status
           w == policyRef[p]
           obj == workloadCache[w]
<1>1. /\ w \in Workloads /\ st \in Status /\ Known(p, st) /\ CopyOrd(p, st)
      /\ obj \in WorkloadObject /\ workloads[w] \in WorkloadObject
      /\ Later(w, obj, workloads[w])
      /\ TemplateVersion(w, obj) \in Version
  BY UidTypes, WorkloadTypes
  DEF IInv, ExpInv, GoodPolicy, GoodStatus, UidInv, ExpUids, OrdInv, ExpOrd,
      WorkloadOrd
<1>2. st.uid \in Nat /\ st.inFlight.version \in Version
  BY <1>1, RecordTypes
<1>3. \/ ~obj.exists
      \/ obj.uid # st.uid
      \/ ~SameVersion(st.inFlight.version, TemplateVersion(w, obj))
  <2> DEFINE out == classifyInFlight(w, expList[p], unread)
  <2>1. out = "Superseded"
    OBVIOUS
  <2> SUFFICES ASSUME obj.exists, obj.uid = st.uid,
                      SameVersion(st.inFlight.version, TemplateVersion(w, obj))
               PROVE  out # "Superseded"
    BY <2>1
  <2>2. SameVersion(TemplateVersion(w, obj), st.inFlight.version)
    BY DEF SameVersion
  <2> QED
    BY <2>2 DEF classifyInFlight
<1>4. st.uid <= obj.uid /\ obj.uid \in Nat
  BY <1>1, UidTypes DEF Known
<1>5. obj.uid = st.uid => Upto(st.inFlight.version, TemplateVersion(w, obj))
  BY <1>1 DEF CopyOrd, Reaches
<1> HIDE DEF st, w, obj
<1>6. Left(w, st.uid, st.inFlight.version, obj)
  BY <1>1, <1>2, <1>3, <1>4, <1>5, VersionOrder DEF Left
<1>7. Left(w, st.uid, st.inFlight.version, workloads[w])
  BY <1>1, <1>2, <1>6, ObjectOrder
<1> QED
  BY <1>7 DEF st, w

\* The expirer closes what it has listed.
LEMMA ExpirerOrd ==
    ASSUME IInv, UidInv, OrdInv, Expirer
    PROVE  OrdInv'
<1>0. expList \in [Policies -> GoodPolicy]
  BY DEF IInv, ExpInv
<1>1. CASE ExpireSlots
  <2>1. /\ UNCHANGED <<apiVars, wlVars, policyRef, expList>> /\ UNCHANGED recVars
    BY <1>1 DEF ExpireSlots, apiVars
  <2>2. ExpOrd'
    BY <2>1, OrdSame DEF OrdInv, ExpOrd
  <2> QED
    BY <2>1, <2>2, QuietOrd
<1>2. CASE ListPolicies
  <2>1. /\ UNCHANGED <<apiVars, wlVars, policyRef, policyCache>>
        /\ UNCHANGED recVars
        /\ \A p \in Policies : expList'[p] \in {policyCache[p], NoPolicy}
    BY <1>2 DEF ListPolicies, apiVars
  <2>2. \A p \in Policies : CopyOrd(p, expList'[p].status)
    BY <2>1, NewOrd DEF OrdInv, ApiOrd
  <2>3. ExpOrd'
    BY <2>1, <2>2, OrdSame DEF ExpOrd
  <2> QED
    BY <2>1, <2>3, QuietOrd
<1>3. ASSUME NEW p \in Policies, SweepPolicy(p)
      PROVE  OrdInv'
  <2> DEFINE st == expList[p].status
  <2>1. UNCHANGED wlVars /\ UNCHANGED recVars
    BY <1>3 DEF SweepPolicy
  <2>2. CopyOrd(p, st) /\ st \in GoodStatus
    BY <1>0 DEF OrdInv, ExpOrd, GoodPolicy
  <2>3. \/ UNCHANGED apiVars
        \/ \E unread \in BOOLEAN :
              LET o == classifyInFlight(policyRef[p], expList[p], unread)
              IN  o # None /\ \E err, fault :
                     Persist(p, expList[p], CompleteInFlight(st, o), err, fault)
    BY <1>3 DEF SweepPolicy
  <2>4. ApiOrd' /\ UNCHANGED policyRef
    <3>1. CASE UNCHANGED apiVars
      BY <2>1, <3>1, OrdSame DEF OrdInv, apiVars
    <3>2. ASSUME NEW unread \in BOOLEAN, NEW err, NEW fault,
                 classifyInFlight(policyRef[p], expList[p], unread) # None,
                 Persist(p, expList[p],
                    CompleteInFlight(st,
                       classifyInFlight(policyRef[p], expList[p], unread)),
                    err, fault)
          PROVE  ApiOrd' /\ UNCHANGED policyRef
      <4> DEFINE o == classifyInFlight(policyRef[p], expList[p], unread)
      <4>1. o = "Superseded" /\ st.inFlight # None =>
               Left(policyRef[p], st.uid, st.inFlight.version,
                    workloads[policyRef[p]])
        BY <3>2, ClassifyOrd
      <4> HIDE DEF o
      <4>2. CopyOrd(p, CompleteInFlight(st, o))
        BY <2>2, <4>1, CompleteOrd
      <4>3. Persist(p, expList[p], CompleteInFlight(st, o), err, fault)
        BY <3>2 DEF o
      <4> QED
        BY <2>1, <4>2, <4>3, PersistOrd DEF OrdInv
    <3> QED
      BY <2>3, <3>1, <3>2
  <2>5. \A q \in Policies : expList'[q] \in {expList[q], NoPolicy}
    BY <1>0, <1>3 DEF SweepPolicy
  <2>6. \A q \in Policies : CopyOrd(q, expList'[q].status)
    BY <2>5, NewOrd DEF OrdInv, ExpOrd
  <2>7. ExpOrd'
    BY <2>1, <2>4, <2>6, OrdSame DEF ExpOrd
  <2> QED
    BY <2>1, <2>4, <2>7, OrdSame DEF OrdInv
<1>4. ASSUME NEW w \in Workloads, ReleaseKey(w)
      PROVE  OrdInv'
  <2>1. /\ UNCHANGED <<apiVars, wlVars, policyRef, expList>> /\ UNCHANGED recVars
    BY <1>4 DEF ReleaseKey, apiVars
  <2>2. ExpOrd'
    BY <2>1, OrdSame DEF OrdInv, ExpOrd
  <2> QED
    BY <2>1, <2>2, QuietOrd
<1> QED
  BY <1>1, <1>2, <1>3, <1>4 DEF Expirer

\* Users never touch a status but to begin anew.
LEMMA PolicyEditOrd ==
    ASSUME IInv, OrdInv, NEW p \in Policies,
           CreatePolicy(p) \/ EditMode(p) \/ DeletePolicy(p)
    PROVE  OrdInv'
<1>0. policies[p] \in PolicyObject /\ CopyOrd(p, policies[p].status)
  BY DEF IInv, ApiInv, GoodPolicy, OrdInv, ApiOrd
<1>1. PICK pol : UserEdit(p, pol) /\ CopyOrd(p, pol.status)
  <2>1. CASE CreatePolicy(p)
    BY <2>1, NewOrd DEF CreatePolicy
  <2>2. CASE EditMode(p)
    <3> DEFINE pol == [policies[p] EXCEPT !.dryRun = ~@, !.rv = @ + 1]
    <3>1. pol.status = policies[p].status /\ UserEdit(p, pol)
      BY <1>0, <2>2 DEF EditMode, PolicyObject
    <3> HIDE DEF pol
    <3> QED
      BY <1>0, <3>1
  <2>3. CASE DeletePolicy(p)
    <3> DEFINE gone == [NoPolicy EXCEPT !.rv = policies[p].rv + 1]
               going == [policies[p] EXCEPT !.phase = "deleting", !.rv = @ + 1]
    <3>1. CopyOrd(p, gone.status)
      BY NewOrd
    <3>2. going.status = policies[p].status
      BY <1>0 DEF PolicyObject
    <3>3. UserEdit(p, gone) \/ UserEdit(p, going)
      BY <2>3 DEF DeletePolicy
    <3> HIDE DEF gone, going
    <3> QED
      BY <1>0, <3>1, <3>2, <3>3
  <2> QED
    BY <2>1, <2>2, <2>3
<1>2. Store(p, pol) /\ UNCHANGED <<wlVars, expVars>> /\ UNCHANGED recVars
  BY <1>1 DEF UserEdit
<1>3. ApiOrd' /\ UNCHANGED policyRef
  BY <1>1, <1>2, StoreOrd DEF OrdInv
<1> QED
  BY <1>2, <1>3, OrdSame DEF OrdInv

\* The rest of the environment touches nothing OrdInv speaks of.
LEMMA OtherOrd ==
    ASSUME IInv, OrdInv,
           \/ Tick
           \/ \E p \in Policies : SampleEvent(p)
           \/ \E key \in Policies \cup Workloads : Stall(key)
    PROVE  OrdInv'
<1>1. /\ UNCHANGED <<policyRef, policies, policyCache, wlVars>>
      /\ UNCHANGED recVars /\ UNCHANGED expVars
  BY DEF Tick, SampleEvent, Stall, apiVars
<1>2. ApiOrd'
  BY <1>1, OrdSame DEF ApiOrd, OrdInv
<1> QED
  BY <1>1, <1>2, OrdSame DEF OrdInv

\* A controller that has just started.
LEMMA InitOrd == Init => OrdInv
<1> SUFFICES ASSUME Init PROVE OrdInv
  OBVIOUS
<1>1. \A p \in Policies : /\ CopyOrd(p, policies[p].status)
                          /\ CopyOrd(p, policyCache[p].status)
                          /\ CopyOrd(p, expList[p].status)
  <2>1. PICK mode \in [Policies -> Modes] :
            policies = [p \in Policies |-> NewPolicy(mode[p], 1)]
    BY DEF Init
  <2>2. \A p \in Policies : /\ policies[p] = NewPolicy(mode[p], 1)
                            /\ policyCache[p] = NewPolicy(mode[p], 1)
                            /\ expList[p] = NoPolicy
    BY <2>1 DEF Init, ExpIdle
  <2> QED
    BY <2>2, NewOrd
<1>2. \A w \in Workloads : /\ workloads[w] = InitWorkload
                           /\ workloadCache[w] = InitWorkload
  BY DEF Init
<1>3. /\ InitWorkload \in WorkloadObject
      /\ InitWorkload.podHash <= InitWorkload.template
  BY DEF InitWorkload, WorkloadObject, States
<1>4. WorkloadOrd
  BY <1>2, <1>3, ObjectOrder DEF WorkloadOrd
<1>5. RecOrd
  BY DEF Init, RecIdle, RecOrd, Adopted
<1> QED
  BY <1>1, <1>4, <1>5 DEF OrdInv, ApiOrd, ExpOrd

\* Every step keeps OrdInv.
LEMMA NextOrd == IInv /\ UidInv /\ OrdInv /\ [Next]_vars => OrdInv'
<1> SUFFICES ASSUME IInv, UidInv, OrdInv, [Next]_vars PROVE OrdInv'
  OBVIOUS
<1>1. CASE Reconcile
  BY <1>1, GetPolicyOrd, MetadataOrd, RecPersistOrd, GetWorkloadOrd, DecideOrd,
     PatchOrd DEF Reconcile
<1>2. CASE Expirer
  BY <1>2, ExpirerOrd
<1>3. CASE Environment
  BY <1>3, PolicyEditOrd, WorkloadChangeOrd, SyncOrd, OtherOrd, PatchOrd
  DEF Environment
<1>4. CASE UNCHANGED vars
  BY <1>4, QuietOrd DEF vars
<1> QED
  BY <1>1, <1>2, <1>3, <1>4 DEF Next

\* A record closed as Superseded is about something that was replaced since:
\* the workload is gone, is another object, or had another template deployed,
\* whatever the fingerprints of its deployments and whichever of them undo
\* earlier ones.  The settle check and the sweep (reconciler.go:176-194,
\* store.go:80-107) decide it on copies that may be old.
THEOREM SupersededTheorem == Spec => []SupersededIsReal
<1>1. ASSUME IInv, OrdInv
      PROVE  SupersededIsReal
  <2>1. SUFFICES ASSUME NEW p \in Policies,
                        NEW i \in DOMAIN policies[p].status.history,
                        policies[p].status.history[i].outcome = "Superseded"
                 PROVE  LET st == policies[p].status
                            w == policyRef[p]
                        IN  \/ ~workloads[w].exists
                            \/ workloads[w].uid # st.uid
                            \/ Replaced(st.history[i].version,
                                        TemplateVersion(w, workloads[w]))
    BY DEF SupersededIsReal
  <2> DEFINE st == policies[p].status
             w == policyRef[p]
  <2>2. /\ w \in Workloads /\ workloads[w] \in WorkloadObject
        /\ workloads[w].uid \in Nat
        /\ TemplateVersion(w, workloads[w]) \in Version /\ st \in Status
    BY <1>1, UidTypes, WorkloadTypes DEF IInv, ApiInv, GoodPolicy, GoodStatus
  <2>3. st.uid \in Nat /\ st.history[i].version \in Version
    BY <2>2, RecordTypes
  <2>4. Left(w, st.uid, st.history[i].version, workloads[w])
    BY <1>1, <2>1 DEF OrdInv, ApiOrd, CopyOrd
  <2> HIDE DEF w, st
  <2>5. \/ ~workloads[w].exists
        \/ workloads[w].uid # st.uid
        \/ Replaced(st.history[i].version, TemplateVersion(w, workloads[w]))
    BY <2>2, <2>3, <2>4 DEF Left
  <2> QED
    BY <2>5 DEF w, st
<1>2. IInv /\ UidInv /\ OrdInv => SupersededIsReal
  BY <1>1
<1> QED
  BY <1>2, InitOrd, NextOrd, BothInvariant, PTL DEF Spec
-----------------------------------------------------------------------------
\* A calm cluster: the leader stays in office, watches are up to date, nobody
\* else touches the workloads, and every kind reports its generation.  Users
\* may edit, delete and recreate policies, and any call may fail.

\* What happens to a cluster that is not calm.
Foreign == {"crashes", "rollouts", "disturbs", "recreates", "lags"}

Calm ==
    /\ \A b \in Budgets, c \in Foreign : b[c] = 0
    /\ Rollouts = {} \/ RolloutReportsGeneration

\* The steps of a reconcile that has read the workload: before and after it
\* has found it settled.
Deciding == {"persistAdopt", "settle"}
Decided == {"persistDone", "detect", "guard", "dryRun", "persistRestart",
            "dispatch"}

\* The workload as it was at the start, but for its state and strategy.
Plain(obj) == obj.exists /\ obj.uid = 1 /\ obj.template = 1 /\ obj.podHash = 1

\* None of it will happen.
Spent == \A c \in Foreign : budget[c] = 0

\* Caches show the server's state, and no patch of a former leader is under way.
InStep ==
    /\ stalled = {}
    /\ policyCache = policies
    /\ workloadCache = workloads
    /\ \A p \in Policies : delayed[p] = None

\* Once found settled, the workload of a reconcile stays settled.
CalmRec ==
    /\ recPC \in Deciding \cup Decided => Plain(recWl)
    /\ recPC \in Deciding /\ recWl.state = "settled" =>
          workloads[RecWorkload].state = "settled"
    /\ recPC \in Decided => workloads[RecWorkload].state = "settled"

\* The inductive invariant of a calm cluster.
CalmInv ==
    /\ Spent
    /\ InStep
    /\ \A w \in Workloads : Plain(workloads[w])
    /\ CalmRec

\* What may be done to the budget.
LEMMA SpentKept ==
    ASSUME budget \in [Chances -> Nat], Spent
    PROVE  /\ \A c \in Foreign : ~Chance(c)
           /\ Chance("faults") \/ Chance("edits") => Spent'
           /\ \A f : FaultIf(f) => Spent'
           /\ UNCHANGED budget => Spent'
<1>1. \A c \in Foreign : ~Chance(c)
  BY DEF Spent, Chance
<1>2. "faults" \notin Foreign /\ "edits" \notin Foreign
  BY DEF Foreign
<1>3. Foreign \subseteq Chances
  BY DEF Foreign, Chances
<1>4. Chance("faults") \/ Chance("edits") => Spent'
  BY <1>2, <1>3 DEF Spent, Chance
<1>5. UNCHANGED budget => Spent'
  BY DEF Spent
<1> QED
  BY <1>1, <1>4, <1>5 DEF FaultIf

\* The cache follows every write.
LEMMA CacheFollows ==
    ASSUME stalled = {}, policyCache = policies
    PROVE  LET same == /\ stalled' = {} /\ policyCache' = policies'
                       /\ UNCHANGED policyRef
           IN  /\ UNCHANGED apiVars => same
               /\ \A p, pol : Store(p, pol) => same
               /\ \A p, copy, st, err, fault :
                     Persist(p, copy, st, err, fault) => same
               /\ \A p, copy, pol, err, fault :
                     Update(p, copy, pol, err, fault) => same
BY DEF apiVars, Store, Persist, Update

\* Settled means what it says.
LEMMA SettledState ==
    ASSUME Calm, NEW w \in Workloads, NEW obj
    PROVE  IsSettled(w, obj) <=> obj.state = "settled"
BY DEF Calm, IsSettled

\* The steps there are.
LEMMA CalmSteps ==
    ASSUME IInv, CalmInv, [Next]_vars
    PROVE  \/ Reconcile \/ Expirer \/ Tick \/ UNCHANGED vars
           \/ \E p \in Policies : \/ SampleEvent(p) \/ CreatePolicy(p)
                                  \/ EditMode(p) \/ DeletePolicy(p)
           \/ \E w \in Workloads : ChangeStrategy(w) \/ Progress(w)
<1>1. \A c \in Foreign : ~Chance(c)
  BY SpentKept DEF IInv, EnvInv, CalmInv
<1>2. ~Failover /\ \A key : ~Stall(key)
  BY <1>1 DEF Failover, Stall, Foreign
<1>3. \A w : ~ExternalRollout(w) /\ ~Disturb(w) /\ ~DeleteWorkload(w)
  BY <1>1 DEF ExternalRollout, Disturb, DeleteWorkload, Foreign
<1>4. \A w \in Workloads : ~RecreateWorkload(w)
  BY DEF RecreateWorkload, CalmInv, Plain
<1>5. /\ \A p \in Policies : ~SyncPolicy(p) /\ ~LateDispatch(p)
      /\ \A w \in Workloads : ~SyncWorkload(w)
  BY DEF CalmInv, InStep, SyncPolicy, SyncWorkload, LateDispatch
<1> QED
  BY <1>2, <1>3, <1>4, <1>5 DEF Next, Environment

\* A reconcile that ends, goes on, or stays where it is.
LEMMA CalmRecKept ==
    ASSUME IInv, CalmRec, UNCHANGED policyRef,
           \A w \in Workloads :
              workloads[w].state = "settled" => workloads'[w].state = "settled",
           \/ UNCHANGED recVars
           \/ recPC' \notin Deciding \cup Decided
           \/ /\ UNCHANGED <<recKey, recWl>>
              /\ \/ recPC \in Deciding /\ recPC' \in Deciding
                 \/ recPC \in Decided /\ recPC' \in Decided
    PROVE  CalmRec'
<1>1. CASE recPC' \notin Deciding \cup Decided
  BY <1>1 DEF CalmRec
<1>2. CASE /\ UNCHANGED <<recKey, recWl>>
           /\ \/ recPC \in Deciding /\ recPC' \in Deciding
              \/ recPC \in Decided /\ recPC' \in Decided
  <2>1. recKey \in Policies
    BY <1>2 DEF IInv, RecInv, Deciding, Decided
  <2>2. RecWorkload \in Workloads /\ RecWorkload' = RecWorkload
    BY <1>2, <2>1 DEF IInv, ApiInv, RecWorkload
  <2>3. Deciding \cap Decided = {}
    BY DEF Deciding, Decided
  <2> QED
    BY <1>2, <2>2, <2>3 DEF CalmRec
<1>3. CASE UNCHANGED recVars /\ recPC' \in Deciding \cup Decided
  BY <1>2, <1>3 DEF recVars
<1> QED
  BY <1>1, <1>2, <1>3

\* What CalmInv needs of the variables a step writes.
LEMMA CalmParts ==
    ASSUME IInv, CalmInv, Spent', UNCHANGED <<policyRef, delayed>>,
           stalled' = {}, policyCache' = policies', workloadCache' = workloads',
           \A w \in Workloads : Plain(workloads'[w]),
           CalmRec'
    PROVE  CalmInv'
BY DEF CalmInv, InStep

\* A controller in a calm cluster has just started.
LEMMA InitCalm == Calm => (Init => CalmInv)
<1> SUFFICES ASSUME Calm, Init PROVE CalmInv
  OBVIOUS
<1>1. Spent
  BY DEF Calm, Init, Spent
<1>2. InStep
  BY DEF Init, InStep
<1>3. \A w \in Workloads : Plain(workloads[w])
  BY DEF Init, InitWorkload, Plain
<1>4. CalmRec
  BY DEF Init, RecIdle, CalmRec, Deciding, Decided
<1> QED
  BY <1>1, <1>2, <1>3, <1>4 DEF CalmInv

\* A status write in the middle of a reconcile.
LEMMA PersistThenCalm ==
    ASSUME IInv, CalmInv, NEW st, NEW pc, PersistThen(st, pc)
    PROVE  /\ Spent' /\ UNCHANGED policyRef
           /\ stalled' = {} /\ policyCache' = policies'
           /\ \/ recPC' = "idle"
              \/ recPC' = pc /\ UNCHANGED <<recKey, recWl>>
<1>1. PICK err \in BOOLEAN, fault \in BOOLEAN :
        /\ FaultIf(fault)
        /\ Persist(recKey, recPol, st, err, fault)
        /\ \/ Return({recKey})
           \/ recPC' = pc /\ UNCHANGED <<recKey, recWl>>
  BY DEF PersistThen
<1>2. Spent'
  BY <1>1, SpentKept DEF CalmInv, IInv, EnvInv
<1>3. stalled' = {} /\ policyCache' = policies'
  BY <1>1, CacheFollows DEF CalmInv, InStep
<1>4. UNCHANGED policyRef
  BY <1>1 DEF Persist, Store, apiVars
<1> QED
  BY <1>1, <1>2, <1>3, <1>4 DEF Return, ResetRec

\* The steps of a reconcile that neither read nor patch the workload.
LEMMA ReconcileCalm ==
    ASSUME IInv, CalmInv,
           \/ \E p \in Policies : GetPolicy(p)
           \/ Finalize \/ AddFinalizer \/ PersistMode \/ PersistAdopt
           \/ PersistDone \/ Detect \/ Guard \/ DryRun \/ PersistRestart
    PROVE  CalmInv'
<1>1. UNCHANGED wlVars /\ UNCHANGED delayed
  BY DEF GetPolicy, Finalize, AddFinalizer, PersistMode, PersistAdopt,
         PersistDone, Detect, Guard, DryRun, PersistRestart, sendVars
<1>2. Spent'
  BY SpentKept, PersistThenCalm
  DEF CalmInv, IInv, EnvInv, GetPolicy, Finalize, AddFinalizer, PersistMode,
      PersistAdopt, PersistDone, Detect, Guard, DryRun, PersistRestart
<1>3. stalled' = {} /\ policyCache' = policies'
  BY CacheFollows, PersistThenCalm
  DEF CalmInv, InStep, GetPolicy, Finalize, AddFinalizer, PersistMode,
      PersistAdopt, PersistDone, Detect, Guard, DryRun, PersistRestart
<1>4. UNCHANGED policyRef
  BY PersistThenCalm
  DEF GetPolicy, Finalize, AddFinalizer, PersistMode, PersistAdopt, PersistDone,
      Detect, Guard, DryRun, PersistRestart, Update, Persist, Store, apiVars
<1>5. \/ UNCHANGED recVars
      \/ recPC' \notin Deciding \cup Decided
      \/ /\ UNCHANGED <<recKey, recWl>>
         /\ \/ recPC \in Deciding /\ recPC' \in Deciding
            \/ recPC \in Decided /\ recPC' \in Decided
  <2>1. "idle" \notin Deciding \cup Decided
    BY DEF Deciding, Decided
  <2>2. CASE \E p \in Policies : GetPolicy(p)
    BY <2>2 DEF GetPolicy, Deciding, Decided
  <2>3. CASE Finalize \/ AddFinalizer \/ PersistDone \/ DryRun
    BY <2>1, <2>3
    DEF Finalize, AddFinalizer, PersistDone, DryRun, Return, ResetRec
  <2>4. CASE PersistMode
    BY <2>1, <2>4, PersistThenCalm DEF PersistMode, Deciding, Decided
  <2>5. CASE PersistAdopt
    BY <2>1, <2>5, PersistThenCalm DEF PersistAdopt, Deciding
  <2>6. CASE PersistRestart
    BY <2>1, <2>6, PersistThenCalm DEF PersistRestart, Decided
  <2>7. CASE Detect
    BY <2>1, <2>7 DEF Detect, Return, ResetRec, Goto, Decided
  <2>8. CASE Guard
    BY <2>1, <2>8 DEF Guard, Return, ResetRec, Goto, Decided
  <2> QED
    BY <2>2, <2>3, <2>4, <2>5, <2>6, <2>7, <2>8
<1>6. CalmRec'
  BY <1>1, <1>4, <1>5, CalmRecKept DEF CalmInv, wlVars
<1> QED
  BY <1>1, <1>2, <1>3, <1>4, <1>6, CalmParts DEF CalmInv, InStep, wlVars

\* The reconcile reads the workload.
LEMMA GetWorkloadCalm == ASSUME IInv, CalmInv, GetWorkload PROVE CalmInv'
<1>0. /\ recKey \in Policies /\ RecWorkload \in Workloads
      /\ UNCHANGED <<apiVars, wlVars, delayed, policyRef>>
  BY DEF GetWorkload, IInv, RecInv, ApiInv, RecWorkload, apiVars, sendVars
<1>1. Spent'
  BY SpentKept DEF GetWorkload, CalmInv, IInv, EnvInv
<1>2. CalmRec'
  <2>1. CASE \E keys : Return(keys)
    BY <2>1 DEF Return, ResetRec, CalmRec, Deciding, Decided
  <2>2. CASE /\ recWl' = workloadCache[RecWorkload]
             /\ recPC' \in Deciding /\ UNCHANGED recKey
    <3>1. recWl' = workloads[RecWorkload] /\ Plain(recWl')
      BY <1>0, <2>2 DEF CalmInv, InStep
    <3>2. Deciding \cap Decided = {}
      BY DEF Deciding, Decided
    <3>3. RecWorkload' = RecWorkload /\ UNCHANGED workloads
      BY <1>0, <2>2 DEF RecWorkload, wlVars
    <3> QED
      BY <2>2, <3>1, <3>2, <3>3 DEF CalmRec
  <2> QED
    BY <2>1, <2>2 DEF GetWorkload, Deciding
<1> QED
  BY <1>0, <1>1, <1>2, CalmParts DEF CalmInv, InStep, apiVars, wlVars

\* The reconcile finds it settled, or stops.
LEMMA SettleCalm == ASSUME Calm, IInv, CalmInv, Settle PROVE CalmInv'
<1>0. /\ recKey \in Policies /\ RecWorkload \in Workloads
      /\ UNCHANGED <<apiVars, wlVars, delayed, policyRef, budget>>
  BY DEF Settle, IInv, RecInv, ApiInv, RecWorkload, apiVars, sendVars
<1>1. Spent'
  BY <1>0, SpentKept DEF CalmInv, IInv, EnvInv
<1>2. CalmRec'
  <2>1. CASE \E keys : Return(keys)
    BY <2>1 DEF Return, ResetRec, CalmRec, Deciding, Decided
  <2>2. CASE /\ recPC = "settle" /\ IsSettled(RecWorkload, recWl)
             /\ recPC' \in Decided /\ UNCHANGED <<recKey, recWl>>
    <3>1. recWl.state = "settled"
      BY <1>0, <2>2, SettledState
    <3>2. Plain(recWl) /\ workloads[RecWorkload].state = "settled"
      BY <2>2, <3>1 DEF CalmInv, CalmRec, Deciding
    <3>3. Deciding \cap Decided = {}
      BY DEF Deciding, Decided
    <3>4. RecWorkload' = RecWorkload /\ UNCHANGED workloads
      BY <1>0, <2>2 DEF RecWorkload, wlVars
    <3> QED
      BY <2>2, <3>2, <3>3, <3>4 DEF CalmRec
  <2> QED
    BY <2>1, <2>2 DEF Settle, Goto, Decided
<1> QED
  BY <1>0, <1>1, <1>2, CalmParts DEF CalmInv, InStep, apiVars, wlVars

\* The patch ends the reconcile, and the object stays the same.
LEMMA DispatchCalm == ASSUME IInv, CalmInv, Dispatch PROVE CalmInv'
<1>0. /\ recKey \in Policies /\ RecWorkload \in Workloads
      /\ UNCHANGED <<apiVars, delayed, policyRef>>
      /\ \E keys : Return(keys)
  BY DEF Dispatch, IInv, RecInv, ApiInv, RecWorkload, apiVars
<1>1. Spent'
  BY SpentKept DEF Dispatch, Triggered, CalmInv, IInv, EnvInv
<1>2. CalmRec'
  BY <1>0 DEF Return, ResetRec, CalmRec, Deciding, Decided
<1>3. \/ UNCHANGED wlVars
      \/ StoreWorkload(RecWorkload, Restarted(workloads[RecWorkload]))
  BY DEF Dispatch, Triggered, Landed, RecWorkload
<1>4. workloadCache' = workloads'
  BY <1>3 DEF CalmInv, InStep, StoreWorkload, wlVars
<1>5. \A w \in Workloads : Plain(workloads'[w])
  <2>1. \A obj \in WorkloadObject : Plain(obj) => Plain(Restarted(obj))
    BY DEF Plain, Restarted, WorkloadObject
  <2>2. \A w \in Workloads : workloads[w] \in WorkloadObject /\ Plain(workloads[w])
    BY UidTypes DEF CalmInv
  <2>3. workloads \in [Workloads -> WorkloadObject]
    BY DEF IInv, WlInv
  <2> QED
    BY <1>0, <1>3, <2>1, <2>2, <2>3 DEF StoreWorkload, wlVars
<1> QED
  BY <1>0, <1>1, <1>2, <1>4, <1>5, CalmParts DEF CalmInv, InStep, apiVars

\* Owners may change the strategy, and the workload controller settles what
\* has been restarted.
LEMMA ProgressCalm ==
    ASSUME IInv, CalmInv, NEW w \in Workloads, ChangeStrategy(w) \/ Progress(w)
    PROVE  CalmInv'
<1>1. workloads[w] \in WorkloadObject /\ Plain(workloads[w])
  BY UidTypes DEF CalmInv
<1>2. PICK obj : /\ ChangeWorkload(w, obj) /\ Plain(obj)
                 /\ workloads[w].state = "settled" => obj.state = "settled"
  <2>1. CASE ChangeStrategy(w)
    <3> DEFINE new == [workloads[w] EXCEPT !.onDelete = ~@]
    <3>1. /\ Plain(new) /\ new.state = workloads[w].state
          /\ ChangeWorkload(w, new)
      BY <1>1, <2>1 DEF ChangeStrategy, Plain, WorkloadObject
    <3> HIDE DEF new
    <3> QED
      BY <3>1
  <2>2. CASE Progress(w)
    <3>1. Plain(Progressed(workloads[w]))
      BY <1>1 DEF Progressed, Plain, WorkloadObject
    <3> QED
      BY <2>2, <3>1 DEF Progress
  <2> QED
    BY <2>1, <2>2
<1>3. /\ StoreWorkload(w, obj)
      /\ UNCHANGED <<apiVars, delayed, policyRef>> /\ UNCHANGED recVars
  BY <1>2 DEF ChangeWorkload, apiVars
<1>4. Spent'
  BY SpentKept DEF ChangeStrategy, Progress, CalmInv, IInv, EnvInv
<1>5. workloadCache' = workloads'
  BY <1>3 DEF CalmInv, InStep, StoreWorkload
<1>6. \A v \in Workloads :
         /\ Plain(workloads'[v])
         /\ workloads[v].state = "settled" => workloads'[v].state = "settled"
  <2>1. \A v \in Workloads : workloads'[v] = IF v = w THEN obj ELSE workloads[v]
    BY <1>3 DEF StoreWorkload, IInv, WlInv
  <2> QED
    BY <1>2, <2>1 DEF CalmInv
<1>7. CalmRec'
  BY <1>3, <1>6, CalmRecKept DEF CalmInv
<1> QED
  BY <1>3, <1>4, <1>5, <1>6, <1>7, CalmParts DEF CalmInv, InStep, apiVars

\* The expirer, the users and the clock leave the workloads alone.
LEMMA OtherCalm ==
    ASSUME IInv, CalmInv,
           \/ Expirer \/ Tick \/ UNCHANGED vars
           \/ \E p \in Policies : \/ SampleEvent(p) \/ CreatePolicy(p)
                                  \/ EditMode(p) \/ DeletePolicy(p)
    PROVE  CalmInv'
<1>1. UNCHANGED <<wlVars, delayed>> /\ UNCHANGED recVars
  BY DEF Expirer, ExpireSlots, ListPolicies, SweepPolicy, ReleaseKey, Tick,
         vars, SampleEvent, CreatePolicy, EditMode, DeletePolicy, UserEdit,
         sendVars
<1>2. Spent'
  BY SpentKept
  DEF CalmInv, IInv, EnvInv, Expirer, ExpireSlots, ListPolicies, SweepPolicy,
      ReleaseKey, Tick, vars, SampleEvent, CreatePolicy, EditMode, DeletePolicy,
      UserEdit
<1>3. stalled' = {} /\ policyCache' = policies' /\ UNCHANGED policyRef
  <2>0. stalled = {} /\ policyCache = policies
    BY DEF CalmInv, InStep
  <2>1. CASE Expirer
    BY <2>0, <2>1, CacheFollows
    DEF Expirer, ExpireSlots, ListPolicies, SweepPolicy, ReleaseKey
  <2>2. CASE Tick \/ UNCHANGED vars
    BY <2>0, <2>2, CacheFollows DEF Tick, vars
  <2>3. CASE \E p \in Policies : \/ SampleEvent(p) \/ CreatePolicy(p)
                                  \/ EditMode(p) \/ DeletePolicy(p)
    <3>1. PICK p \in Policies : \/ SampleEvent(p) \/ CreatePolicy(p)
                                \/ EditMode(p) \/ DeletePolicy(p)
      BY <2>3
    <3>2. UNCHANGED apiVars \/ \E pol : Store(p, pol)
      BY <3>1 DEF SampleEvent, CreatePolicy, EditMode, DeletePolicy, UserEdit
    <3> QED
      BY <2>0, <3>2, CacheFollows
  <2> QED
    BY <2>1, <2>2, <2>3
<1>4. CalmRec'
  BY <1>1, <1>3, CalmRecKept DEF CalmInv, wlVars
<1> QED
  BY <1>1, <1>2, <1>3, <1>4, CalmParts DEF CalmInv, InStep, wlVars

\* Every step keeps CalmInv.
LEMMA NextCalm == Calm => (IInv /\ CalmInv /\ [Next]_vars => CalmInv')
<1> SUFFICES ASSUME Calm, IInv, CalmInv, [Next]_vars PROVE CalmInv'
  OBVIOUS
<1>1. CASE Reconcile
  BY <1>1, ReconcileCalm, GetWorkloadCalm, SettleCalm, DispatchCalm DEF Reconcile
<1> QED
  BY <1>1, CalmSteps, OtherCalm, ProgressCalm

\* A restart is sent by the leader in office.
LEMMA CalmSends ==
    ASSUME IInv, CalmInv, [Next]_vars, NEW p \in Policies,
           Len(dispatches'[p]) > Len(dispatches[p])
    PROVE  Dispatch /\ recKey = p
<1>1. \A q \in Policies : dispatches[q] \in Seq(Restart)
  BY DEF IInv, EnvInv
<1>2. ~UNCHANGED dispatches
  BY <1>1
<1>3. ASSUME NEW q \in Policies, Forgotten(q)
      PROVE  FALSE
  <2>1. dispatches' = [dispatches EXCEPT ![q] = <<>>]
    BY <1>3 DEF Forgotten
  <2>2. Len(dispatches[p]) \in Nat
    BY <1>1
  <2> QED
    BY <2>1, <2>2 DEF IInv, EnvInv
<1>4. ~Finalize /\ \A q \in Policies : ~DeletePolicy(q)
  BY <1>2, <1>3 DEF Finalize, DeletePolicy, ForgottenIfGone, IInv, RecInv
<1>5. Dispatch
  BY <1>2, <1>4, CalmSteps
  DEF Reconcile, GetPolicy, AddFinalizer, PersistMode, GetWorkload, PersistAdopt,
      Settle, PersistDone, Detect, Guard, DryRun, PersistRestart, Expirer,
      ExpireSlots, ListPolicies, SweepPolicy, ReleaseKey, Tick, vars, SampleEvent,
      CreatePolicy, EditMode, ChangeStrategy, Progress, ChangeWorkload, sendVars
<1>6. recKey = p
  <2>1. \/ UNCHANGED dispatches
        \/ dispatches' = [dispatches EXCEPT ![recKey] = Append(@, OurRestart)]
    BY <1>5 DEF Dispatch, Triggered, Landed
  <2> QED
    BY <1>1, <1>2, <2>1 DEF IInv, EnvInv
<1> QED
  BY <1>5, <1>6

\* In a calm cluster no restart is stacked on a rollout in progress: between
\* the settle check (reconciler.go:176) and the patch (reconciler.go:330)
\* nothing unsettles the workload.
THEOREM StackedTheorem == Calm => (Spec => NoStackedRestart)
<1> SUFFICES ASSUME Calm PROVE Spec => NoStackedRestart
  OBVIOUS
<1>1. Spec => [](IInv /\ CalmInv)
  <2>1. Init => IInv /\ CalmInv
    BY InitInv, InitCalm
  <2>2. IInv /\ CalmInv /\ [Next]_vars => (IInv /\ CalmInv)'
    BY NextInv, NextCalm
  <2> QED
    BY <2>1, <2>2, PTL DEF Spec
<1>2. IInv /\ CalmInv /\ [Next]_vars =>
         [\A p \in Policies :
             Len(dispatches'[p]) > Len(dispatches[p])
                 => workloads[policyRef[p]].state = "settled"]_vars
  BY CalmSends DEF CalmInv, CalmRec, Decided, Dispatch, RecWorkload
<1> QED
  BY <1>1, <1>2, PTL DEF Spec, NoStackedRestart

-----------------------------------------------------------------------------
\* In a calm cluster, what a record that says Settled means.  A restart is
\* booked before it is patched in, so for a while the last one is not real; what
\* this needs is that nobody can take the old rollout, or a slot held by
\* another, for its own.

\* No two policies manage the same workload.
Separate ==
    \A ref \in PolicyRefs : \A p, q \in Policies : ref[p] = ref[q] => p = q

Alone == \A p, q \in Policies : policyRef[p] = policyRef[q] => p = q

\* The restart of p at t reached the cluster.
Real(p, t) == \E d \in DOMAIN dispatches[p] : dispatches[p][d].at = t

\* st records as Settled only restarts of p that reached the cluster.
SettledReal(p, st) ==
    \A i \in DOMAIN st.history :
        st.history[i].outcome = "Settled" => Real(p, st.history[i].at)

\* The last restart of p reached the cluster.
LastReal(p) ==
    policies[p].status.lastRestartAt # None
        => Real(p, policies[p].status.lastRestartAt)

\* A marker is that of the last restart, of the workload as it is.
Dated(st) ==
    st.inFlight # None => /\ st.lastRestartAt = st.inFlight.at
                          /\ st.inFlight.version = 1
                          /\ st.uid = 1

\* The reconcile that may be about to restart p's workload.
InCharge(p) ==
    /\ recKey = p
    /\ recPC \in {"guard", "dryRun", "persistRestart", "dispatch"}

\* p began anew after the expirer's pass did.
Renewed(p) ==
    /\ policies[p].status.lastRestartAt # None =>
          policies[p].status.lastRestartAt >= expNow
    /\ recKey = p /\ recPC \in Deciding \cup Decided => recNow >= expNow

\* The last restart is real whenever its rollout can be seen, or a slot is
\* held that no reconcile has just taken.
PolicyReal(p) ==
    p \notin overwritten =>
        /\ SettledReal(p, policies[p].status)
        /\ workloads[policyRef[p]].state # "settled" => LastReal(p)
        /\ Holds(gate, policyRef[p]) => LastReal(p) \/ InCharge(p)

\* What the expirer may still write.
ListedReal(p) ==
    p \in expTodo /\ p \notin overwritten =>
        SettledReal(p, expList[p].status) \/ Renewed(p)

\* What the reconcile may still write.
CopyReal ==
    recPC \in Acting =>
        /\ Dated(recPol.status)
        /\ recKey \notin overwritten =>
              /\ SettledReal(recKey, recPol.status)
              /\ recPol.status.lastRestartAt = policies[recKey].status.lastRestartAt
              /\ recPC \in Deciding /\ recWl.state # "settled" => LastReal(recKey)
              /\ recPC = "persistDone" =>
                    LastReal(recKey) /\ recPol.status.inFlight # None
              /\ recPC = "dispatch" => recPol.status.lastRestartAt = recNow

\* The inductive invariant behind SettledIsReal.
RealInv ==
    /\ Alone
    /\ expNow <= now
    /\ expPC # "sweep" => expTodo = {}
    /\ \A p \in expTodo : expList[p].status.inFlight # None
    /\ \A p \in Policies : /\ Dated(policies[p].status)
                           /\ Dated(expList[p].status)
                           /\ PolicyReal(p)
                           /\ ListedReal(p)
    /\ CopyReal

\* What the proof of RealInv rests on.
CalmAll == IInv /\ UidInv /\ SlotInv /\ CalmInv

-----------------------------------------------------------------------------
\* Statuses.

\* What the writes of the controller do to the records and the marker.
LEMMA CompleteReal ==
    ASSUME NEW st \in GoodStatus, NEW o, Dated(st)
    PROVE  LET new == CompleteInFlight(st, o)
           IN  /\ Dated(new)
               /\ new.lastRestartAt = st.lastRestartAt
               /\ \A p : /\ SettledReal(p, st)
                         /\ o = "Settled" /\ st.inFlight # None =>
                               Real(p, st.lastRestartAt)
                         => SettledReal(p, new)
<1> DEFINE new == CompleteInFlight(st, o)
           n == Len(st.history)
<1>1. st \in Status /\ MarkerAgrees(st) /\ st.history \in Seq(RestartRecord)
      /\ n \in Nat
  BY RecordTypes DEF GoodStatus
<1>2. new.inFlight = None /\ new.lastRestartAt = st.lastRestartAt
  BY <1>1 DEF CompleteInFlight, Status
<1>3. CASE n > 0 /\ st.history[n].outcome = "InProgress"
  <2>1. /\ new.history = [st.history EXCEPT ![n] =
                             [st.history[n] EXCEPT !.outcome = o]]
        /\ n \in DOMAIN st.history
    BY <1>1, <1>3 DEF CompleteInFlight, Status
  <2>2. /\ st.inFlight # None
        /\ st.history[n] = [at |-> st.inFlight.at,
                            version |-> st.inFlight.version,
                            outcome |-> "InProgress"]
    BY <1>1, <1>3 DEF MarkerAgrees
  <2>3. /\ DOMAIN new.history = DOMAIN st.history
        /\ \A i \in DOMAIN st.history : i # n => new.history[i] = st.history[i]
        /\ new.history[n].outcome = o
        /\ new.history[n].at = st.lastRestartAt
    BY <1>1, <2>1, <2>2 DEF Dated
  <2> HIDE DEF new
  <2>4. ASSUME NEW p, SettledReal(p, st),
               o = "Settled" /\ st.inFlight # None => Real(p, st.lastRestartAt)
        PROVE  SettledReal(p, new)
    BY <2>2, <2>3, <2>4 DEF SettledReal
  <2> QED
    BY <1>2, <2>4 DEF Dated, new
<1>4. CASE ~(n > 0 /\ st.history[n].outcome = "InProgress")
  <2>1. new.history = st.history
    BY <1>1, <1>4 DEF CompleteInFlight, Status
  <2> HIDE DEF new
  <2> QED
    BY <1>2, <2>1 DEF Dated, SettledReal, new
<1> QED
  BY <1>3, <1>4

\* A restart is entered with a marker of its own and settles no record.
LEMMA ApplyReal ==
    ASSUME NEW st \in Status, NEW t \in Time, st.uid = 1
    PROVE  LET new == ApplyRestart(st, 1, t)
           IN  /\ Dated(new)
               /\ new.lastRestartAt = t
               /\ \A p : SettledReal(p, st) => SettledReal(p, new)
<1> DEFINE new == ApplyRestart(st, 1, t)
           r == [at |-> t, version |-> 1, outcome |-> "InProgress"]
           longer == Append(st.history, r)
<1>1. /\ new.uid = st.uid
      /\ new.inFlight = [at |-> t, version |-> 1]
      /\ new.lastRestartAt = t
      /\ new.history = Newest(longer)
  BY DEF ApplyRestart, Status
<1>2. st.history \in Seq(RestartRecord) /\ Len(st.history) \in Nat
  BY RecordTypes
<1>3. r \in RestartRecord
  BY DEF RestartRecord, Outcomes, Version
<1> HIDE DEF r
<1>4. /\ longer \in Seq(RestartRecord) /\ Len(longer) = Len(st.history) + 1
      /\ \A j \in 1 .. Len(longer) :
            longer[j] = r \/ (j \in DOMAIN st.history /\ longer[j] = st.history[j])
  BY <1>2, <1>3
<1> HIDE DEF longer
<1>5. \A i \in DOMAIN Newest(longer) :
         \E j \in 1 .. Len(longer) : Newest(longer)[i] = longer[j]
  BY <1>2, <1>4, StatusAssumption DEF Newest
<1>6. \A i \in DOMAIN new.history :
         new.history[i].outcome = "Settled" =>
            \E j \in DOMAIN st.history : new.history[i] = st.history[j]
  <2>1. r.outcome # "Settled"
    BY DEF r
  <2> QED
    BY <1>1, <1>4, <1>5, <2>1
<1> HIDE DEF new
<1>7. ASSUME NEW p, SettledReal(p, st) PROVE SettledReal(p, new)
  <2> SUFFICES ASSUME NEW i \in DOMAIN new.history,
                      new.history[i].outcome = "Settled"
               PROVE  Real(p, new.history[i].at)
    BY DEF SettledReal
  <2>1. PICK j \in DOMAIN st.history : new.history[i] = st.history[j]
    BY <1>6
  <2> QED
    BY <1>7, <2>1 DEF SettledReal
<1>8. Dated(new)
  BY <1>1 DEF Dated
<1> QED
  BY <1>1, <1>7, <1>8 DEF new

\* The other functions keep marker and records, or begin anew.
LEMMA WrittenReal ==
    ASSUME NEW st \in Status, Dated(st)
    PROVE  LET Like(new) ==
                 /\ Dated(new)
                 /\ new.lastRestartAt = st.lastRestartAt
                 /\ \A p : SettledReal(p, st) => SettledReal(p, new)
           IN  /\ \A mode : Like([st EXCEPT !.dryRun = mode])
               /\ \A t : Like(RecomputeObservability(st, t))
               /\ LET new == AdoptWorkload(st, 1)
                  IN  Like(new) \/ /\ Dated(new) /\ new.lastRestartAt = None
                                   /\ \A p : SettledReal(p, new)
<1>1. ASSUME NEW new, new.lastRestartAt = st.lastRestartAt,
             new.inFlight = st.inFlight, new.history = st.history,
             new.uid = st.uid \/ new.uid = 1
      PROVE  /\ Dated(new) /\ new.lastRestartAt = st.lastRestartAt
             /\ \A p : SettledReal(p, st) => SettledReal(p, new)
  BY <1>1 DEF Dated, SettledReal
<1>2. ASSUME NEW mode
      PROVE  LET new == [st EXCEPT !.dryRun = mode]
             IN  /\ new.lastRestartAt = st.lastRestartAt
                 /\ new.inFlight = st.inFlight /\ new.history = st.history
                 /\ new.uid = st.uid
  BY DEF Status
<1>3. ASSUME NEW t
      PROVE  LET new == RecomputeObservability(st, t)
             IN  /\ new.lastRestartAt = st.lastRestartAt
                 /\ new.inFlight = st.inFlight /\ new.history = st.history
                 /\ new.uid = st.uid
  BY DEF Status, RecomputeObservability
<1>4. LET new == AdoptWorkload(st, 1)
      IN  /\ new.uid = 1
          /\ \/ /\ new.lastRestartAt = st.lastRestartAt
                /\ new.inFlight = st.inFlight /\ new.history = st.history
             \/ /\ new.lastRestartAt = None
                /\ new.inFlight = None /\ new.history = <<>>
  BY DEF Status, AdoptWorkload
<1>5. ASSUME NEW new, new.inFlight = None, new.history = <<>>
      PROVE  Dated(new) /\ \A p : SettledReal(p, new)
  BY <1>5 DEF Dated, SettledReal
<1> QED
  BY <1>1, <1>2, <1>3, <1>4, <1>5

\* A policy that begins anew.
LEMMA NewReal ==
    /\ Dated(InitStatus) /\ \A p : SettledReal(p, InitStatus)
    /\ InitStatus.lastRestartAt = None
    /\ NoPolicy.status = InitStatus
    /\ \A rv : [NoPolicy EXCEPT !.rv = rv].status = InitStatus
    /\ \A mode, rv : NewPolicy(mode, rv).status = InitStatus
  BY DEF InitStatus, Dated, SettledReal, NoPolicy, NewPolicy

-----------------------------------------------------------------------------
\* RealInv, step by step.

\* A policy whose status and restarts a step leaves alone.
LEMMA PolicyKept ==
    ASSUME NEW q \in Policies, PolicyReal(q), ListedReal(q),
           UNCHANGED policyRef, policies'[q].status = policies[q].status,
           dispatches'[q] = dispatches[q], overwritten \subseteq overwritten',
           workloads'[policyRef[q]].state # "settled" =>
              workloads[policyRef[q]].state # "settled",
           q \notin overwritten' /\ Holds(gate', policyRef[q]) =>
              \/ InCharge(q)'
              \/ LastReal(q)
              \/ Holds(gate, policyRef[q]) /\ ~InCharge(q),
           q \in expTodo' =>
              q \in expTodo /\ expList'[q] = expList[q] /\ expNow' = expNow,
           recKey' = q /\ recPC' \in Deciding \cup Decided =>
              \/ recNow' >= expNow'
              \/ /\ recKey = q /\ recPC \in Deciding \cup Decided
                 /\ recNow' = recNow
    PROVE  PolicyReal(q)' /\ ListedReal(q)'
<1>1. \A t : Real(q, t)' <=> Real(q, t)
  BY DEF Real
<1>2. \A st : SettledReal(q, st)' <=> SettledReal(q, st)
  BY <1>1 DEF SettledReal
<1>3. LastReal(q)' <=> LastReal(q)
  BY <1>1 DEF LastReal
<1>4. PolicyReal(q)'
  BY <1>2, <1>3 DEF PolicyReal
<1>5. ListedReal(q)'
  <2>1. q \in expTodo' /\ Renewed(q) => Renewed(q)'
    BY DEF Renewed
  <2> QED
    BY <1>2, <2>1 DEF ListedReal
<1> QED
  BY <1>4, <1>5

\* A reconcile that another step leaves alone.
LEMMA CopyKept ==
    ASSUME CopyReal, UNCHANGED recVars, overwritten \subseteq overwritten',
           recPC \in Acting =>
              /\ dispatches'[recKey] = dispatches[recKey]
              /\ recKey \notin overwritten' =>
                    policies'[recKey].status.lastRestartAt
                       = policies[recKey].status.lastRestartAt
    PROVE  CopyReal'
<1> SUFFICES ASSUME recPC \in Acting PROVE CopyReal'
  BY DEF CopyReal, recVars
<1>1. \A t : Real(recKey, t)' <=> Real(recKey, t)
  BY DEF Real, recVars
<1>2. SettledReal(recKey, recPol.status)' <=> SettledReal(recKey, recPol.status)
  BY <1>1 DEF SettledReal, recVars
<1>3. recKey \notin overwritten' => (LastReal(recKey)' <=> LastReal(recKey))
  BY <1>1 DEF LastReal, recVars
<1> QED
  BY <1>2, <1>3 DEF CopyReal, recVars

\* Steps that neither write a status nor move a reconcile.
LEMMA BystandReal ==
    ASSUME CalmAll, RealInv, UNCHANGED <<policyRef, dispatches, overwritten>>,
           UNCHANGED recVars,
           \A p \in Policies : policies'[p].status = policies[p].status,
           \A w \in Workloads :
              workloads[w].state = "settled" => workloads'[w].state = "settled",
           \A w \in Workloads : Holds(gate', w) => Holds(gate, w),
           \A p \in expTodo' :
              p \in expTodo /\ expList'[p] = expList[p] /\ expNow' = expNow,
           \A p \in Policies : Dated(expList'[p].status),
           expNow' <= now', expPC' # "sweep" => expTodo' = {}
    PROVE  RealInv'
<1>1. policyRef \in [Policies -> Workloads]
  BY DEF CalmAll, IInv, ApiInv
<1>2. CopyReal'
  <2>1. recPC \in Acting => recKey \in Policies
    BY DEF CalmAll, IInv, RecInv, Acting
  <2> QED
    BY <2>1, CopyKept DEF RealInv
<1>3. ASSUME NEW p \in Policies
      PROVE  PolicyReal(p)' /\ ListedReal(p)'
  <2>1. policyRef[p] \in Workloads /\ PolicyReal(p) /\ ListedReal(p)
    BY <1>1 DEF RealInv
  <2>2. /\ workloads'[policyRef[p]].state # "settled" =>
              workloads[policyRef[p]].state # "settled"
        /\ Holds(gate', policyRef[p]) => Holds(gate, policyRef[p])
        /\ InCharge(p)' <=> InCharge(p)
        /\ recKey' = p /\ recPC' \in Deciding \cup Decided =>
              /\ recKey = p /\ recPC \in Deciding \cup Decided
              /\ recNow' = recNow
    BY <2>1 DEF InCharge, recVars
  <2> QED
    BY <2>1, <2>2, PolicyKept
<1>4. \A p \in Policies : Dated(policies'[p].status)
  BY DEF RealInv
<1> QED
  BY <1>2, <1>3, <1>4 DEF RealInv, Alone

\* The clock, samples, edits of a policy's mode, and the workloads' owners.
LEMMA OtherReal ==
    ASSUME CalmAll, RealInv,
           \/ Tick \/ UNCHANGED vars
           \/ \E p \in Policies : SampleEvent(p) \/ CreatePolicy(p) \/ EditMode(p)
           \/ \E w \in Workloads : ChangeStrategy(w) \/ Progress(w)
    PROVE  RealInv'
<1>0. /\ policies \in [Policies -> PolicyObject]
      /\ \A p \in Policies : ~Present(policies[p]) => policies[p].status = InitStatus
      /\ workloads \in [Workloads -> WorkloadObject]
      /\ now \in Nat
  BY DEF CalmAll, IInv, ApiInv, WlInv, EnvInv, Time, GoodPolicy, UidInv, AbsentIsNew
<1>1. UNCHANGED <<policyRef, dispatches, overwritten, gate>>
      /\ UNCHANGED recVars /\ UNCHANGED expVars
  BY DEF Tick, vars, SampleEvent, CreatePolicy, EditMode, UserEdit, Store,
         ChangeStrategy, Progress, ChangeWorkload, apiVars, sendVars
<1>2. expNow' <= now'
  <2>1. now' = now \/ now' = now + 1
    BY DEF Tick, vars, SampleEvent, CreatePolicy, EditMode, UserEdit,
           ChangeStrategy, Progress, ChangeWorkload
  <2> QED
    BY <1>0, <1>1, <2>1 DEF RealInv, expVars, CalmAll, IInv, ExpInv, Time
<1>3. ASSUME NEW p \in Policies
      PROVE  policies'[p].status = policies[p].status
  <2>1. CASE UNCHANGED policies
    BY <2>1
  <2>2. ASSUME NEW q \in Policies, CreatePolicy(q)
        PROVE  policies'[p].status = policies[p].status
    BY <1>0, <2>2, NewReal DEF CreatePolicy, UserEdit, Store
  <2>3. ASSUME NEW q \in Policies, EditMode(q)
        PROVE  policies'[p].status = policies[p].status
    <3> DEFINE pol == [policies[q] EXCEPT !.dryRun = ~@, !.rv = @ + 1]
    <3>1. pol.status = policies[q].status /\ policies' = [policies EXCEPT ![q] = pol]
      BY <1>0, <2>3 DEF EditMode, UserEdit, Store, PolicyObject
    <3> HIDE DEF pol
    <3> QED
      BY <1>0, <3>1
  <2> QED
    BY <2>1, <2>2, <2>3
    DEF Tick, vars, SampleEvent, ChangeStrategy, Progress, ChangeWorkload, apiVars
<1>4. ASSUME NEW v \in Workloads, workloads[v].state = "settled"
      PROVE  workloads'[v].state = "settled"
  <2>1. CASE UNCHANGED workloads
    BY <1>4, <2>1
  <2>2. ASSUME NEW w \in Workloads, ChangeStrategy(w)
        PROVE  workloads'[v].state = "settled"
    <3> DEFINE obj == [workloads[w] EXCEPT !.onDelete = ~@]
    <3>1. obj.state = workloads[w].state /\ workloads' = [workloads EXCEPT ![w] = obj]
      BY <1>0, <2>2 DEF ChangeStrategy, ChangeWorkload, StoreWorkload, WorkloadObject
    <3> HIDE DEF obj
    <3> QED
      BY <1>0, <1>4, <3>1
  <2>3. ASSUME NEW w \in Workloads, Progress(w)
        PROVE  workloads'[v].state = "settled"
    BY <1>0, <1>4, <2>3 DEF Progress, ChangeWorkload, StoreWorkload
  <2> QED
    BY <2>1, <2>2, <2>3
    DEF Tick, vars, SampleEvent, CreatePolicy, EditMode, UserEdit, wlVars
<1> QED
  BY <1>1, <1>2, <1>3, <1>4, BystandReal DEF RealInv, expVars

\* The expirer's steps that write no status.
LEMMA SlotsReal ==
    ASSUME CalmAll, RealInv,
           ExpireSlots \/ \E w \in Workloads : ReleaseKey(w)
    PROVE  RealInv'
<1>0. gate \in Gates /\ now \in Nat /\ expNow \in Nat
  BY DEF CalmAll, IInv, GateInv, EnvInv, ExpInv, Time
<1>1. /\ UNCHANGED <<policyRef, policies, workloads, dispatches, overwritten, now>>
      /\ UNCHANGED recVars /\ UNCHANGED expList
  BY DEF ExpireSlots, ReleaseKey, apiVars, wlVars, sendVars
<1>2. \A w \in Workloads : Holds(gate', w) => Holds(gate, w)
  BY <1>0 DEF ExpireSlots, ReleaseKey, ExpireOlderThan, Release, Holds, Gates
<1>3. expTodo' = {} /\ expNow' <= now'
  BY <1>0, <1>1 DEF ExpireSlots, ReleaseKey, ExpGoto, RealInv
<1> QED
  BY <1>1, <1>2, <1>3, BystandReal DEF RealInv

\* The expirer lists the policies as they are.
LEMMA ListReal == ASSUME CalmAll, RealInv, ListPolicies PROVE RealInv'
<1>0. now \in Nat /\ expNow \in Nat
  BY DEF CalmAll, IInv, EnvInv, ExpInv, Time
<1>1. /\ UNCHANGED <<policyRef, policies, policyCache, workloads, gate,
                     dispatches, overwritten, now>>
      /\ UNCHANGED recVars
      /\ policyCache = policies
  BY DEF ListPolicies, apiVars, wlVars, sendVars, CalmAll, CalmInv, InStep
<1>2. /\ expNow' <= now' /\ (expPC' # "sweep" => expTodo' = {})
      /\ \A p \in Policies : /\ expList'[p] \in {policies[p], NoPolicy}
                             /\ p \in expTodo' =>
                                   /\ expList'[p] = policies[p]
                                   /\ policies[p].status.inFlight # None
  BY <1>0, <1>1 DEF ListPolicies, ExpGoto, RealInv
<1>3. CopyReal'
  BY <1>1, CopyKept DEF RealInv
<1>4. ASSUME NEW p \in Policies
      PROVE  /\ Dated(policies'[p].status) /\ Dated(expList'[p].status)
             /\ PolicyReal(p)' /\ ListedReal(p)'
  <2>1. \A st : SettledReal(p, st)' <=> SettledReal(p, st)
    BY <1>1 DEF SettledReal, Real
  <2>2. LastReal(p)' <=> LastReal(p)
    BY <1>1 DEF LastReal, Real
  <2>3. InCharge(p)' <=> InCharge(p)
    BY <1>1 DEF InCharge, recVars
  <2>4. PolicyReal(p)'
    BY <1>1, <2>1, <2>2, <2>3 DEF RealInv, PolicyReal
  <2>5. ListedReal(p)'
    BY <1>1, <1>2, <2>1 DEF RealInv, PolicyReal, ListedReal
  <2>6. Dated(NoPolicy.status)
    BY NewReal
  <2> QED
    BY <1>1, <1>2, <2>4, <2>5, <2>6 DEF RealInv
<1>5. \A p \in expTodo' : expList'[p].status.inFlight # None
  <2>1. expTodo' \subseteq Policies
    BY DEF ListPolicies, ExpGoto
  <2> QED
    BY <1>2, <2>1
<1> QED
  BY <1>1, <1>2, <1>3, <1>4, <1>5 DEF RealInv, Alone

\* What a reconcile past its first read may rely on.
LEMMA CalmFacts ==
    ASSUME CalmAll, RealInv, recPC # "idle"
    PROVE  /\ recKey \in Policies /\ RecWorkload \in Workloads
           /\ policyRef[recKey] = RecWorkload
           /\ \A q \in Policies : policyRef[q] = RecWorkload => q = recKey
           /\ \A q \in Policies : policyRef[q] \in Workloads
           /\ gate \in Gates
           /\ PolicyReal(recKey)
           /\ policies[recKey] \in PolicyObject
           /\ policies[recKey].status \in GoodStatus
           /\ recPol.status \in GoodStatus /\ recPol.status \in Status
<1>1. recKey \in Policies
  BY DEF CalmAll, IInv, RecInv
<1>2. /\ policies[recKey] \in PolicyObject
      /\ policies[recKey].status \in GoodStatus
      /\ recPol.status \in GoodStatus /\ recPol.status \in Status
  BY <1>1 DEF CalmAll, IInv, RecInv, ApiInv, GoodPolicy, GoodStatus
<1> QED
  BY <1>1, <1>2, Reconciling
  DEF CalmAll, RealInv, Alone, RecWorkload, IInv, ApiInv, GateInv

\* The gate's operations of a reconcile touch its own workload's slot.
LEMMA OwnGate ==
    ASSUME CalmAll, RealInv, recPC # "idle", NEW q \in Policies
    PROVE  /\ ~Holds(Release(gate, RecWorkload), policyRef[recKey])
           /\ Holds(Release(gate, RecWorkload), policyRef[q]) =>
                 Holds(gate, policyRef[q])
           /\ \A t : Holds(TryAcquire(gate, RecWorkload, t), policyRef[q]) =>
                 Holds(gate, policyRef[q]) \/ q = recKey
<1>1. /\ policyRef[recKey] = RecWorkload /\ RecWorkload \in Workloads
      /\ policyRef[q] \in Workloads /\ gate \in Gates
      /\ policyRef[q] = RecWorkload => q = recKey
  BY CalmFacts
<1> QED
  BY <1>1 DEF Holds, Release, TryAcquire, Gates

\* A reconcile's steps that write nothing: what is left to show is about the
\* slot and about the copy it holds.
LEMMA ReadingReal ==
    ASSUME CalmAll, RealInv, UNCHANGED <<apiVars, wlVars, expVars, now>>,
           UNCHANGED <<dispatches, overwritten>>,
           CopyReal',
           \A q \in Policies \ overwritten :
              Holds(gate', policyRef[q]) =>
                 \/ InCharge(q)'
                 \/ LastReal(q)
                 \/ Holds(gate, policyRef[q]) /\ ~InCharge(q),
           recPC' \in Deciding \cup Decided =>
              \/ recNow' >= expNow
              \/ /\ recKey' = recKey /\ recPC \in Deciding \cup Decided
                 /\ recNow' = recNow
    PROVE  RealInv'
<1>1. UNCHANGED <<policyRef, policies, workloads, expNow, expList, expTodo, expPC>>
  BY DEF apiVars, wlVars, expVars
<1>2. ASSUME NEW q \in Policies
      PROVE  PolicyReal(q)' /\ ListedReal(q)'
  BY <1>1, <1>2, PolicyKept DEF RealInv
<1> QED
  BY <1>1, <1>2 DEF RealInv, Alone

\* The policy is read as it is.
LEMMA GetPolicyReal ==
    ASSUME CalmAll, RealInv, NEW p \in Policies, GetPolicy(p)
    PROVE  RealInv'
<1>0. /\ recPC = "idle"
      /\ UNCHANGED <<apiVars, wlVars, expVars, now>> /\ UNCHANGED gate
      /\ UNCHANGED <<dispatches, overwritten>>
      /\ UNCHANGED policies
  BY DEF GetPolicy, sendVars, apiVars
<1>1. \A q : ~InCharge(q)
  BY <1>0 DEF InCharge
<1>2. CASE UNCHANGED recVars
  <2>1. CopyReal'
    BY <1>0, <1>2 DEF CopyReal, recVars, Acting
  <2>2. recPC' = "idle"
    BY <1>0, <1>2 DEF recVars
  <2> QED
    BY <1>0, <1>1, <2>1, <2>2, ReadingReal DEF Deciding, Decided
<1>3. CASE /\ recKey' = p /\ recPol' = policyCache[p]
           /\ recPC' \in {"finalize", "addFinalizer", "persistMode",
                          "getWorkload"}
  <2>1. recPol' = policies[p]
    BY <1>3 DEF CalmAll, CalmInv, InStep
  <2>2. \A st : SettledReal(p, st)' <=> SettledReal(p, st)
    BY <1>0 DEF SettledReal, Real
  <2>3. recPC' \notin Deciding \cup Decided /\ recPC' # "persistDone"
        /\ recPC' # "dispatch"
    BY <1>3 DEF Deciding, Decided
  <2>4. CopyReal'
    BY <1>0, <1>3, <2>1, <2>2, <2>3 DEF CopyReal, RealInv, PolicyReal
  <2> QED
    BY <1>0, <1>1, <2>3, <2>4, ReadingReal
<1> QED
  BY <1>2, <1>3 DEF GetPolicy

\* The workload is read as it is: if a rollout can be seen, it is of a real
\* restart.
LEMMA GetWorkloadReal ==
    ASSUME CalmAll, RealInv, GetWorkload
    PROVE  RealInv'
<1>0. /\ recPC = "getWorkload"
      /\ UNCHANGED <<apiVars, wlVars, expVars, now>> /\ UNCHANGED gate
      /\ UNCHANGED <<dispatches, overwritten, policies>>
  BY DEF GetWorkload, sendVars, apiVars
<1>1. /\ \A q : ~InCharge(q)
      /\ recPC \in Acting
  BY <1>0 DEF InCharge, Acting, RecPCs
<1>2. CASE \E keys : Return(keys)
  <2>1. recPC' = "idle"
    BY <1>2 DEF Return, ResetRec
  <2> QED
    BY <1>0, <1>1, <2>1, ReadingReal DEF CopyReal, Acting, Deciding, Decided
<1>3. CASE /\ recWl' = workloadCache[RecWorkload] /\ recNow' = now
           /\ recPC' \in Deciding /\ UNCHANGED <<recKey, recPol>>
  <2>1. recWl' = workloads[policyRef[recKey]] /\ recKey \in Policies
    BY <1>0, <1>3, CalmFacts DEF CalmAll, CalmInv, InStep
  <2>2. /\ \A st : SettledReal(recKey, st)' <=> SettledReal(recKey, st)
        /\ LastReal(recKey)' <=> LastReal(recKey)
    BY <1>0, <1>3 DEF SettledReal, LastReal, Real
  <2>3. recPC' # "persistDone" /\ recPC' # "dispatch"
    BY <1>3 DEF Deciding
  <2>4. CopyReal'
    BY <1>0, <1>1, <1>3, <2>1, <2>2, <2>3 DEF CopyReal, RealInv, PolicyReal
  <2> QED
    BY <1>0, <1>1, <1>3, <2>4, ReadingReal DEF RealInv
<1> QED
  BY <1>2, <1>3 DEF GetWorkload, Deciding

\* A rollout of ours that can be seen takes its slot again; one whose slot is
\* held when it has settled is closed.
LEMMA SettleReal ==
    ASSUME Calm, CalmAll, RealInv, Settle
    PROVE  RealInv'
<1>0. /\ recPC = "settle" /\ recPC # "idle"
      /\ UNCHANGED <<apiVars, wlVars, expVars, now>>
      /\ UNCHANGED <<dispatches, overwritten, policies>>
  BY DEF Settle, sendVars, apiVars
<1>1. /\ \A q : ~InCharge(q)
      /\ recPC \in Acting /\ recPC \in Deciding
  BY <1>0 DEF InCharge, Acting, RecPCs, Deciding
<1>2. CASE \E keys : Return(keys)
  <2>1. recPC' = "idle"
    BY <1>2 DEF Return, ResetRec
  <2>2. \/ gate' = gate
        \/ \E t : /\ gate' = TryAcquire(gate, RecWorkload, t)
                  /\ ~IsSettled(RecWorkload, recWl)
        \/ gate' = Release(gate, RecWorkload)
    BY DEF Settle
  <2>3. ~IsSettled(RecWorkload, recWl) => recKey \in overwritten \/ LastReal(recKey)
    BY <1>0, <1>1, CalmFacts, SettledState DEF RealInv, CopyReal
  <2>4. \A q \in Policies \ overwritten :
           Holds(gate', policyRef[q]) => LastReal(q) \/ Holds(gate, policyRef[q])
    BY <1>0, <2>2, <2>3, OwnGate
  <2> QED
    BY <1>0, <1>1, <2>1, <2>4, ReadingReal DEF CopyReal, Acting, Deciding, Decided
<1>3. CASE /\ \/ Goto("detect") /\ gate' = gate
              \/ /\ Goto("persistDone") /\ gate' = Release(gate, RecWorkload)
                 /\ Holds(gate, RecWorkload) /\ recPol.status.inFlight # None
  <2>1. /\ \A st : SettledReal(recKey, st)' <=> SettledReal(recKey, st)
        /\ LastReal(recKey)' <=> LastReal(recKey)
    BY <1>0, <1>3 DEF SettledReal, LastReal, Real, Goto
  <2>2. Holds(gate, RecWorkload) => recKey \in overwritten \/ LastReal(recKey)
    BY <1>0, <1>1, CalmFacts DEF PolicyReal
  <2>3. recPC' \in {"detect", "persistDone"} /\ UNCHANGED <<recKey, recPol, recWl, recNow>>
    BY <1>3 DEF Goto
  <2>4. CopyReal'
    BY <1>0, <1>1, <1>3, <2>1, <2>2, <2>3 DEF CopyReal, RealInv, Deciding, Goto
  <2>5. \A q \in Policies : Holds(gate', policyRef[q]) => Holds(gate, policyRef[q])
    BY <1>0, <1>3, OwnGate
  <2> QED
    BY <1>0, <1>1, <2>3, <2>4, <2>5, ReadingReal
<1> QED
  BY <1>2, <1>3 DEF Settle

\* On the way to the patch the slot is the reconcile's, and is given back when
\* it stops.
LEMMA DecideReal ==
    ASSUME CalmAll, RealInv, Detect \/ Guard \/ DryRun
    PROVE  RealInv'
<1>0. /\ recPC \in {"detect", "guard", "dryRun"} /\ recPC # "idle"
      /\ UNCHANGED <<apiVars, wlVars, expVars, now>>
      /\ UNCHANGED <<dispatches, overwritten, policies>>
  BY DEF Detect, Guard, DryRun, sendVars, apiVars
<1>1. /\ recPC \in Acting /\ recPC \in Decided
      /\ \A q : InCharge(q) => q = recKey /\ recPC # "detect"
  BY <1>0 DEF InCharge, Acting, RecPCs, Decided
<1>2. CASE \E keys : Return(keys)
  <2>1. recPC' = "idle"
    BY <1>2 DEF Return, ResetRec
  <2>2. CASE recPC = "detect"
    <3>1. gate' = gate
      BY <1>2, <2>1, <2>2 DEF Detect, Guard, DryRun, Goto
    <3> QED
      BY <1>0, <1>1, <2>1, <2>2, <3>1, ReadingReal
      DEF CopyReal, Acting, Deciding, Decided
  <2>3. CASE recPC # "detect"
    <3>1. gate' = Release(gate, RecWorkload)
      BY <1>2, <2>1, <2>3 DEF Detect, Guard, DryRun, Goto
    <3>2. \A q \in Policies :
             Holds(gate', policyRef[q]) => Holds(gate, policyRef[q]) /\ q # recKey
      BY <1>0, <3>1, OwnGate
    <3> QED
      BY <1>0, <1>1, <2>1, <3>2, ReadingReal
      DEF CopyReal, Acting, Deciding, Decided
  <2> QED
    BY <2>2, <2>3
<1>3. ASSUME NEW pc \in {"guard", "dryRun", "persistRestart"}, Goto(pc),
             \/ gate' = gate
             \/ \E t : gate' = TryAcquire(gate, RecWorkload, t)
      PROVE  RealInv'
  <2>1. /\ \A st : SettledReal(recKey, st)' <=> SettledReal(recKey, st)
        /\ LastReal(recKey)' <=> LastReal(recKey)
    BY <1>0, <1>3 DEF SettledReal, LastReal, Real, Goto
  <2>2. recPC' = pc /\ UNCHANGED <<recKey, recPol, recWl, recNow>>
    BY <1>3 DEF Goto
  <2>3. InCharge(recKey)'
    BY <1>3, <2>2 DEF InCharge
  <2>4. CopyReal'
    BY <1>0, <1>1, <2>1, <2>2 DEF CopyReal, RealInv, Deciding
  <2>5. \A q \in Policies :
           Holds(gate', policyRef[q]) => Holds(gate, policyRef[q]) \/ q = recKey
    BY <1>0, <1>3, OwnGate
  <2> QED
    BY <1>0, <1>1, <2>2, <2>3, <2>4, <2>5, ReadingReal
<1> QED
  BY <1>2, <1>3 DEF Detect, Guard, DryRun

\* A status write.
LEMMA PersistWrites ==
    ASSUME IInv, NEW p \in Policies, NEW copy, NEW st, NEW err, NEW fault,
           Persist(p, copy, st, err, fault)
    PROVE  /\ UNCHANGED policyRef /\ overwritten \subseteq overwritten'
           /\ \A q \in Policies : q # p => policies'[q].status = policies[q].status
           /\ \/ err /\ UNCHANGED <<policies, overwritten>>
              \/ /\ policies'[p].status = st
                 /\ p \notin overwritten' =>
                       policies[p].status.lastRestartAt = copy.status.lastRestartAt
<1> DEFINE pol == [policies[p] EXCEPT !.status = st, !.rv = @ + 1]
<1>1. CASE err /\ UNCHANGED <<apiVars, overwritten>>
  BY <1>1 DEF apiVars
<1>2. CASE /\ Store(p, pol)
           /\ overwritten' = IF Books(policies[p].status) = Books(copy.status)
                             THEN overwritten ELSE overwritten \cup {p}
  <2>1. policies \in [Policies -> PolicyObject]
    BY DEF IInv, ApiInv, GoodPolicy
  <2>2. pol.status = st
    BY <2>1 DEF PolicyObject
  <2>3. policies' = [policies EXCEPT ![p] = pol] /\ UNCHANGED policyRef
    BY <1>2 DEF Store
  <2> HIDE DEF pol
  <2>4. /\ policies'[p].status = st
        /\ \A q \in Policies : q # p => policies'[q].status = policies[q].status
    BY <2>1, <2>2, <2>3
  <2>5. Books(policies[p].status) = Books(copy.status) =>
           policies[p].status.lastRestartAt = copy.status.lastRestartAt
    BY DEF Books
  <2> QED
    BY <1>2, <2>3, <2>4, <2>5
<1> QED
  BY <1>1, <1>2 DEF Persist

\* A status write of the reconcile: it keeps or forgets the last restart, or
\* records a new one of a settled workload.
LEMMA RecWriteReal ==
    ASSUME CalmAll, RealInv, NEW p \in Policies, recKey = p, recPC \in Acting,
           UNCHANGED <<wlVars, expVars, now, dispatches>>,
           NEW st, NEW err, NEW fault,
           Persist(p, recPol, st, err, fault),
           Dated(st),
           p \notin overwritten => SettledReal(p, st),
           \/ /\ st.lastRestartAt \in {recPol.status.lastRestartAt, None}
              /\ ~InCharge(p) /\ gate' = gate
           \/ /\ st.lastRestartAt = recNow /\ recPC \in Decided
              /\ \/ gate' = gate /\ InCharge(p)'
                 \/ gate' = Release(gate, RecWorkload),
           \/ recPC' = "idle"
           \/ /\ ~err /\ recPC' \in Acting
              /\ recPol'.status = st
              /\ UNCHANGED <<recKey, recWl, recNow>>
              /\ recPC' \in Deciding \cup Decided => recPC \in Deciding \cup Decided
              /\ recPC' \in Deciding =>
                    /\ recPC \in Deciding
                    /\ st.lastRestartAt \in {recPol.status.lastRestartAt, None}
              /\ recPC' # "persistDone"
              /\ recPC' = "dispatch" => st.lastRestartAt = recNow
    PROVE  RealInv'
<1>0. /\ recPC # "idle"
      /\ policyRef[p] = RecWorkload
      /\ UNCHANGED <<workloads, expNow, expTodo, expPC, expList>>
  BY CalmFacts DEF Acting, wlVars, expVars
<1>1. /\ UNCHANGED policyRef /\ overwritten \subseteq overwritten'
      /\ \A q \in Policies : q # p => policies'[q].status = policies[q].status
      /\ \/ err /\ UNCHANGED <<policies, overwritten>>
         \/ /\ policies'[p].status = st
            /\ p \notin overwritten' =>
                  policies[p].status.lastRestartAt = recPol.status.lastRestartAt
  BY <1>0, PersistWrites DEF CalmAll
<1>2. /\ \A q, t : Real(q, t)' <=> Real(q, t)
      /\ \A q, s : SettledReal(q, s)' <=> SettledReal(q, s)
  BY DEF Real, SettledReal
<1>3. \A q \in Policies : Holds(gate', policyRef[q]) => Holds(gate, policyRef[q])
  BY <1>0, OwnGate
<1>4. /\ \A q : InCharge(q) => q = p
      /\ recPC' = "idle" \/ (recKey' = recKey /\ recNow' = recNow)
      /\ recPC' \in Deciding \cup Decided =>
            recPC \in Deciding \cup Decided /\ recKey' = recKey /\ recNow' = recNow
  BY DEF InCharge, Deciding, Decided
<1>5. ASSUME NEW q \in Policies, q # p
      PROVE  PolicyReal(q)' /\ ListedReal(q)'
  <2>1. PolicyReal(q) /\ ListedReal(q) /\ policies'[q].status = policies[q].status
    BY <1>1, <1>5 DEF RealInv
  <2>2. recKey' = q /\ recPC' \in Deciding \cup Decided => FALSE
    BY <1>4, <1>5
  <2> QED
    BY <1>0, <1>1, <1>3, <1>4, <1>5, <2>1, <2>2, PolicyKept
<1>6. p \notin overwritten' /\ policies'[p].status # st => UNCHANGED policies
  BY <1>1
<1>7. st.lastRestartAt \in {recPol.status.lastRestartAt, None} =>
         (p \notin overwritten' /\ LastReal(p) => LastReal(p)')
  BY <1>1, <1>2 DEF LastReal
<1>8. PolicyReal(p)'
  <2> SUFFICES ASSUME p \notin overwritten' PROVE PolicyReal(p)'
    BY DEF PolicyReal
  <2>1. PolicyReal(p) /\ p \notin overwritten
    BY <1>0, <1>1 DEF RealInv
  <2>2. SettledReal(p, policies'[p].status)
    BY <1>6, <2>1 DEF PolicyReal
  <2>3. CASE /\ st.lastRestartAt \in {recPol.status.lastRestartAt, None}
             /\ ~InCharge(p) /\ gate' = gate
    BY <1>0, <1>1, <1>2, <1>7, <2>1, <2>2, <2>3 DEF PolicyReal
  <2>4. CASE /\ recPC \in Decided
             /\ \/ gate' = gate /\ InCharge(p)'
                \/ gate' = Release(gate, RecWorkload)
    <3>1. workloads[policyRef[p]].state = "settled"
      BY <1>0, <2>4 DEF CalmAll, CalmInv, CalmRec
    <3>2. Holds(gate', policyRef[p]) => InCharge(p)'
      BY <1>0, <2>4, OwnGate
    <3> QED
      BY <1>0, <1>1, <1>2, <2>2, <3>1, <3>2 DEF PolicyReal
  <2> QED
    BY <2>3, <2>4
<1>9. ListedReal(p)'
  <2>1. ListedReal(p)
    BY <1>0 DEF RealInv
  <2>2. p \notin overwritten' /\ Renewed(p) => Renewed(p)'
    <3>1. recPC \in Decided /\ Renewed(p) => recNow >= expNow
      BY DEF Renewed
    <3> QED
      BY <1>0, <1>1, <1>4, <3>1 DEF Renewed
  <2> QED
    BY <1>0, <1>1, <1>2, <2>1, <2>2 DEF ListedReal
<1>10. CopyReal'
  <2>1. CASE recPC' = "idle"
    BY <2>1 DEF CopyReal, Acting
  <2>2. CASE /\ ~err /\ recPol'.status = st
             /\ UNCHANGED <<recKey, recWl, recNow>>
             /\ recPC' \in Deciding =>
                   /\ recPC \in Deciding
                   /\ st.lastRestartAt \in {recPol.status.lastRestartAt, None}
             /\ recPC' # "persistDone"
             /\ recPC' = "dispatch" => st.lastRestartAt = recNow
    <3>1. policies'[p].status = st
      BY <1>1, <2>2
    <3>2. p \notin overwritten' => SettledReal(p, st)'
      BY <1>1, <1>2
    <3>3. p \notin overwritten' /\ recPC' \in Deciding
             /\ recWl.state # "settled" => LastReal(p)'
      BY <1>1, <1>7, <2>2 DEF RealInv, CopyReal
    <3> QED
      BY <2>2, <3>1, <3>2, <3>3 DEF CopyReal
  <2> QED
    BY <2>1, <2>2
<1>11. \A q \in Policies : Dated(policies'[q].status)
  <2>1. \A q \in Policies : policies'[q].status \in {policies[q].status, st}
    BY <1>0, <1>1
  <2> QED
    BY <2>1 DEF RealInv
<1> QED
  BY <1>0, <1>1, <1>5, <1>8, <1>9, <1>10, <1>11 DEF RealInv, Alone

\* The mode, the adopted UID, the outcome of a settled rollout and a new
\* restart are written.
LEMMA RecPersistReal ==
    ASSUME CalmAll, RealInv,
           PersistMode \/ PersistAdopt \/ PersistDone \/ PersistRestart
    PROVE  RealInv'
<1> DEFINE p == recKey
           st == recPol.status
<1>0. /\ recPC # "idle" /\ recPC \in Acting /\ recKey \in Policies
      /\ st \in GoodStatus /\ st \in Status
      /\ UNCHANGED <<wlVars, expVars, now, dispatches>>
  BY CalmFacts
  DEF PersistMode, PersistAdopt, PersistDone, PersistRestart, Acting, RecPCs,
      sendVars
<1>1. /\ Dated(st)
      /\ recKey \notin overwritten => SettledReal(recKey, st)
  BY <1>0 DEF RealInv, CopyReal
<1>2. ASSUME NEW new, NEW pc \in Acting, PersistThen(new, pc),
             Dated(new), \A q : SettledReal(q, st) => SettledReal(q, new),
             new.lastRestartAt \in {st.lastRestartAt, None},
             recPC \in {"persistMode", "persistAdopt"}, gate' = gate,
             pc \in Deciding \cup Decided => recPC \in Deciding /\ pc \in Deciding,
             pc # "persistDone", pc # "dispatch"
      PROVE  RealInv'
  <2>1. PICK err \in BOOLEAN, fault \in BOOLEAN :
          /\ Persist(recKey, recPol, new, err, fault)
          /\ \/ recPC' = "idle"
             \/ /\ ~err /\ recPC' = pc /\ recPol' = Persisted(recKey, recPol, new)
                /\ UNCHANGED <<recKey, recWl, recNow>>
    BY <1>2 DEF PersistThen, Return, ResetRec
  <2>2. Persisted(recKey, recPol, new).status = new
    BY DEF Persisted, CalmAll, IInv, RecInv, GoodPolicy, PolicyObject
  <2>3. ~InCharge(recKey)
    BY <1>2 DEF InCharge
  <2> QED
    BY <1>0, <1>1, <1>2, <2>1, <2>2, <2>3, RecWriteReal
<1>3. CASE PersistMode
  <2> DEFINE new == [st EXCEPT !.dryRun = recPol.dryRun]
  <2>1. /\ Dated(new) /\ \A q : SettledReal(q, st) => SettledReal(q, new)
        /\ new.lastRestartAt = st.lastRestartAt
    BY <1>0, <1>1, WrittenReal
  <2>2. PersistThen(new, "getWorkload") /\ gate' = gate
    BY <1>3 DEF PersistMode
  <2> HIDE DEF new
  <2>3. /\ "getWorkload" \in Acting /\ recPC = "persistMode"
        /\ "getWorkload" \notin Deciding \cup Decided
    BY <1>3 DEF PersistMode, Acting, RecPCs, Deciding, Decided
  <2> QED
    BY <1>2, <2>1, <2>2, <2>3
<1>4. CASE PersistAdopt
  <2> DEFINE new == AdoptWorkload(st, recWl.uid)
  <2>1. recPC = "persistAdopt" /\ recPC \in Deciding /\ recWl.uid = 1
    BY <1>4 DEF PersistAdopt, Deciding, CalmAll, CalmInv, CalmRec, Plain
  <2>2. /\ Dated(new) /\ \A q : SettledReal(q, st) => SettledReal(q, new)
        /\ new.lastRestartAt \in {st.lastRestartAt, None}
    BY <1>0, <1>1, <2>1, WrittenReal
  <2>3. PersistThen(new, "settle") /\ gate' = gate
    BY <1>4 DEF PersistAdopt
  <2> HIDE DEF new
  <2>4. "settle" \in Acting /\ "settle" \in Deciding
    BY DEF Acting, RecPCs, Deciding
  <2> QED
    BY <1>2, <2>1, <2>2, <2>3, <2>4
<1>5. CASE PersistDone
  <2>1. /\ Dated(DoneStatus) /\ DoneStatus.lastRestartAt = st.lastRestartAt
        /\ recKey \notin overwritten => SettledReal(recKey, DoneStatus)
    <3> DEFINE closed(o) == CompleteInFlight(st, o)
    <3>1. PICK o \in Terminal : DoneStatus = RecomputeObservability(closed(o), recNow)
      BY DEF DoneStatus, Terminal, Outcomes
    <3>2. closed(o) \in Status
      BY <1>0, GoodWrites DEF GoodStatus
    <3>3. /\ Dated(closed(o)) /\ closed(o).lastRestartAt = st.lastRestartAt
          /\ recKey \notin overwritten => SettledReal(recKey, closed(o))
      <4>1. recKey \notin overwritten /\ st.inFlight # None =>
               Real(recKey, st.lastRestartAt)
        <5>1. recKey \notin overwritten =>
                 LastReal(recKey)
                 /\ st.lastRestartAt = policies[recKey].status.lastRestartAt
          BY <1>0, <1>5 DEF PersistDone, RealInv, CopyReal
        <5>2. st.inFlight # None => st.lastRestartAt # None
          <6>1. st.inFlight # None => st.inFlight.at \in Nat
            BY <1>0 DEF Status, Marker, Time
          <6> QED
            BY <1>1, <6>1, BasicsAssumption DEF Dated
        <5> QED
          BY <5>1, <5>2 DEF LastReal
      <4> QED
        BY <1>0, <1>1, <4>1, CompleteReal
    <3> HIDE DEF closed
    <3> QED
      BY <3>1, <3>2, <3>3, WrittenReal
  <2>2. PICK err, fault : /\ Persist(recKey, recPol, DoneStatus, err, fault)
                          /\ recPC' = "idle"
    BY <1>5 DEF PersistDone, Return, ResetRec
  <2>3. ~InCharge(recKey) /\ gate' = gate
    BY <1>5 DEF PersistDone, InCharge
  <2> QED
    BY <1>0, <2>1, <2>2, <2>3, RecWriteReal
<1>6. CASE PersistRestart
  <2>1. /\ recPC = "persistRestart" /\ recPC \in Decided /\ recNow \in Time
        /\ st.uid = 1 /\ TemplateVersion(RecWorkload, recWl) = 1
    <3>1. recPC = "persistRestart" /\ recPC \in Decided /\ recPC \in Adopted
      BY <1>6 DEF PersistRestart, Decided, Adopted
    <3>2. Plain(recWl)
      BY <3>1 DEF CalmAll, CalmInv, CalmRec
    <3> QED
      BY <3>1, <3>2
      DEF CalmAll, UidInv, RecUids, IInv, RecInv, Plain, TemplateVersion
  <2>2. /\ Dated(RestartStatus) /\ RestartStatus.lastRestartAt = recNow
        /\ recKey \notin overwritten => SettledReal(recKey, RestartStatus)
    <3> DEFINE new == ApplyRestart(st, 1, recNow)
    <3>1. /\ Dated(new) /\ new.lastRestartAt = recNow
          /\ recKey \notin overwritten => SettledReal(recKey, new)
      BY <1>0, <1>1, <2>1, ApplyReal
    <3>2. new \in Status
      <4>1. /\ 1 \in Version
            /\ ~BreakerTripped(st, 1, recNow)
        BY <2>1 DEF Version, CalmAll, IInv, RecInv, GuardsPassed
      <4> QED
        BY <1>0, <2>1, <4>1, GoodWrites DEF GoodStatus
    <3>3. RestartStatus = RecomputeObservability(new, recNow)
      BY <2>1 DEF RestartStatus
    <3> HIDE DEF new
    <3> QED
      BY <3>1, <3>2, <3>3, WrittenReal
  <2>3. PICK err \in BOOLEAN, fault \in BOOLEAN :
          /\ Persist(recKey, recPol, RestartStatus, err, fault)
          /\ \/ recPC' = "idle"
             \/ /\ ~err /\ recPC' = "dispatch"
                /\ recPol' = Persisted(recKey, recPol, RestartStatus)
                /\ UNCHANGED <<recKey, recWl, recNow>>
    BY <1>6 DEF PersistRestart, PersistThen, Return, ResetRec
  <2>4. Persisted(recKey, recPol, RestartStatus).status = RestartStatus
    BY DEF Persisted, CalmAll, IInv, RecInv, GoodPolicy, PolicyObject
  <2>5. gate' = IF recPC' = "idle" THEN Release(gate, RecWorkload) ELSE gate
    BY <1>6 DEF PersistRestart
  <2>6. \A q : recKey' = q /\ recPC' = "dispatch" => InCharge(q)'
    BY DEF InCharge
  <2>7. "dispatch" \in Acting /\ "dispatch" \in Decided
        /\ "dispatch" \notin Deciding
    BY DEF Acting, RecPCs, Decided, Deciding
  <2> HIDE DEF st
  <2>8. CASE recPC' = "idle"
    BY <1>0, <2>1, <2>2, <2>3, <2>5, <2>8, RecWriteReal
  <2>9. CASE /\ recPC' = "dispatch" /\ gate' = gate
             /\ recPol' = Persisted(recKey, recPol, RestartStatus)
             /\ UNCHANGED <<recKey, recWl, recNow>> /\ ~err
    BY <1>0, <2>1, <2>2, <2>3, <2>4, <2>6, <2>7, <2>9, RecWriteReal
  <2> QED
    BY <2>3, <2>5, <2>8, <2>9
<1> QED
  BY <1>3, <1>4, <1>5, <1>6

\* A policy that is gone, and comes back, has nothing to answer for.
LEMMA ForgetReal ==
    ASSUME NEW q \in Policies, policies'[q].status = InitStatus,
           recPC' \in Deciding \cup Decided => recKey' # q
    PROVE  Dated(policies'[q].status) /\ PolicyReal(q)' /\ ListedReal(q)'
<1>1. /\ Dated(policies'[q].status)
      /\ policies'[q].status.lastRestartAt = None
      /\ policies'[q].status.history = <<>>
  BY NewReal DEF InitStatus
<1> QED
  BY <1>1 DEF PolicyReal, ListedReal, LastReal, Renewed, SettledReal

\* The finalizer is added; nothing RealInv speaks of changes.
LEMMA AddFinalizerReal ==
    ASSUME CalmAll, RealInv, AddFinalizer
    PROVE  RealInv'
<1>0. /\ recPC = "addFinalizer" /\ recPC # "idle" /\ recPC' = "idle"
      /\ UNCHANGED <<wlVars, expVars, now, gate, dispatches, overwritten>>
  BY DEF AddFinalizer, Return, ResetRec, sendVars
<1>1. /\ UNCHANGED policyRef
      /\ \A q \in Policies : policies'[q].status = policies[q].status
  <2> DEFINE pol == [policies[recKey] EXCEPT !.finalizer = TRUE, !.rv = @ + 1]
  <2>1. policies \in [Policies -> PolicyObject] /\ recKey \in Policies
    BY <1>0 DEF CalmAll, IInv, ApiInv, RecInv, GoodPolicy
  <2>2. pol.status = policies[recKey].status
    BY <2>1 DEF PolicyObject
  <2>3. Store(recKey, pol) \/ UNCHANGED apiVars
    BY DEF AddFinalizer, Update
  <2> HIDE DEF pol
  <2> QED
    BY <2>1, <2>2, <2>3 DEF Store, apiVars
<1>2. \A q : ~InCharge(q)
  BY <1>0 DEF InCharge
<1>3. ASSUME NEW q \in Policies PROVE PolicyReal(q)' /\ ListedReal(q)'
  BY <1>0, <1>1, <1>2, PolicyKept DEF RealInv, wlVars, expVars, Deciding, Decided
<1>4. CopyReal'
  BY <1>0 DEF CopyReal, Acting
<1> QED
  BY <1>0, <1>1, <1>3, <1>4 DEF RealInv, Alone, expVars

\* A policy goes: with its finalizer, or at once when it had none.
LEMMA GoneReal ==
    ASSUME CalmAll, RealInv, Finalize \/ \E p \in Policies : DeletePolicy(p)
    PROVE  RealInv'
<1>0. /\ UNCHANGED <<wlVars, expVars, now>>
      /\ policies \in [Policies -> PolicyObject]
      /\ \A p \in Policies : ~Present(policies[p]) => policies[p].status = InitStatus
      /\ dispatches \in [Policies -> Seq(Restart)]
      /\ recPC \in Deciding \cup Decided => recPC \in Acting
  BY DEF Finalize, DeletePolicy, UserEdit, CalmAll, IInv, ApiInv, GoodPolicy,
         UidInv, AbsentIsNew, EnvInv, Deciding, Decided, Acting, RecPCs
<1>1. PICK p \in Policies :
         /\ ForgottenIfGone(p) /\ UNCHANGED policyRef
         /\ \A q \in Policies : q # p => policies'[q].status = policies[q].status
         /\ \/ policies'[p].status = policies[p].status
            \/ policies'[p].status = InitStatus /\ ~Present(policies'[p])
         /\ ~Present(policies'[p]) => policies'[p].status = InitStatus
         /\ \/ /\ recPC = "finalize" /\ recPC' = "idle"
               /\ gate' = Release(gate, RecWorkload)
            \/ /\ UNCHANGED recVars /\ gate' = gate
               /\ recPC \in Acting /\ recKey = p => Present(policies'[p])
  <2>1. CASE Finalize
    <3> DEFINE gone == [NoPolicy EXCEPT !.rv = recPol.rv + 1]
    <3>1. /\ gone.status = InitStatus /\ ~Present(gone)
          /\ recKey \in Policies
      BY <2>1, NewReal DEF NoPolicy, Present, Finalize, CalmAll, IInv, RecInv
    <3>2. Store(recKey, gone) \/ UNCHANGED apiVars
      BY <2>1 DEF Finalize, Update
    <3>3. /\ recPC' = "idle" /\ gate' = Release(gate, RecWorkload)
          /\ recPC = "finalize" /\ ForgottenIfGone(recKey)
      BY <2>1 DEF Finalize, Return, ResetRec
    <3> HIDE DEF gone
    <3>4. CASE UNCHANGED apiVars
      <4>1. UNCHANGED <<policies, policyRef>>
        BY <3>4 DEF apiVars
      <4> QED
        BY <1>0, <3>1, <3>3, <4>1
    <3>5. CASE Store(recKey, gone)
      <4>1. policies' = [policies EXCEPT ![recKey] = gone] /\ UNCHANGED policyRef
        BY <3>5 DEF Store
      <4>2. policies'[recKey] = gone
        BY <1>0, <3>1, <4>1
      <4>3. \A q \in Policies : q # recKey => policies'[q] = policies[q]
        BY <1>0, <3>1, <4>1
      <4> QED
        BY <3>1, <3>3, <4>1, <4>2, <4>3
    <3> QED
      BY <3>2, <3>4, <3>5
  <2>2. ASSUME NEW p \in Policies, DeletePolicy(p)
        PROVE  /\ ForgottenIfGone(p) /\ UNCHANGED policyRef
               /\ \A q \in Policies :
                     q # p => policies'[q].status = policies[q].status
               /\ \/ policies'[p].status = policies[p].status
                  \/ policies'[p].status = InitStatus /\ ~Present(policies'[p])
               /\ ~Present(policies'[p]) => policies'[p].status = InitStatus
               /\ UNCHANGED recVars /\ gate' = gate
               /\ recPC \in Acting /\ recKey = p => Present(policies'[p])
    <3> DEFINE gone == [NoPolicy EXCEPT !.rv = policies[p].rv + 1]
               going == [policies[p] EXCEPT !.phase = "deleting", !.rv = @ + 1]
    <3>1. gone.status = InitStatus /\ ~Present(gone)
      BY NewReal DEF NoPolicy, Present
    <3>2. going.status = policies[p].status /\ Present(going)
      BY <1>0 DEF PolicyObject, Present
    <3>3. /\ ForgottenIfGone(p) /\ UNCHANGED recVars /\ gate' = gate
          /\ Store(p, IF policies[p].finalizer THEN going ELSE gone)
      BY <2>2 DEF DeletePolicy, UserEdit
    <3>4. recPC \in Acting /\ recKey = p => policies[p].finalizer
      BY DEF CalmAll, SlotInv, RecOwned, Kept
    <3> HIDE DEF gone, going
    <3> DEFINE pol == IF policies[p].finalizer THEN going ELSE gone
    <3>5. /\ policies'[p] = pol /\ UNCHANGED policyRef
          /\ \A q \in Policies : q # p => policies'[q] = policies[q]
      BY <1>0, <3>3 DEF Store
    <3> QED
      BY <3>1, <3>2, <3>3, <3>4, <3>5
  <2> QED
    BY <2>1, <2>2
<1>2. /\ overwritten \subseteq overwritten'
      /\ \A q \in Policies : q # p => dispatches'[q] = dispatches[q]
      /\ Present(policies'[p]) => UNCHANGED dispatches
  BY <1>0, <1>1 DEF ForgottenIfGone, Forgotten
<1>3. recPC' = "idle" \/ UNCHANGED recVars
  BY <1>1
<1>4. \A q \in Policies : Holds(gate', policyRef[q]) => Holds(gate, policyRef[q])
  BY <1>1, OwnGate
<1>5. recPC' \in Deciding \cup Decided => UNCHANGED recVars /\ recPC \in Acting
  BY <1>0, <1>3 DEF Deciding, Decided, recVars
<1>6. ASSUME NEW q \in Policies, q # p \/ Present(policies'[p])
      PROVE  PolicyReal(q)' /\ ListedReal(q)'
  <2>1. /\ policies'[q].status = policies[q].status
        /\ dispatches'[q] = dispatches[q]
        /\ PolicyReal(q) /\ ListedReal(q)
    BY <1>1, <1>2, <1>6 DEF RealInv
  <2>2. InCharge(q) => InCharge(q)'
    BY <1>1 DEF InCharge, recVars
  <2> QED
    BY <1>0, <1>1, <1>2, <1>4, <1>5, <2>1, <2>2, PolicyKept
    DEF wlVars, expVars, recVars
<1>7. CopyReal'
  <2>1. CASE recPC' = "idle"
    BY <2>1 DEF CopyReal, Acting
  <2>2. CASE /\ UNCHANGED recVars
             /\ recPC \in Acting /\ recKey = p => Present(policies'[p])
    <3>1. recPC \in Acting => recKey \in Policies
      BY DEF CalmAll, IInv, RecInv, Acting
    <3> QED
      BY <1>1, <1>2, <2>2, <3>1, CopyKept DEF RealInv
  <2> QED
    BY <1>1, <2>1, <2>2
<1>8. ASSUME NEW q \in Policies
      PROVE  Dated(policies'[q].status) /\ PolicyReal(q)' /\ ListedReal(q)'
  <2>1. CASE q = p /\ ~Present(policies'[p])
    BY <1>1, <1>5, <2>1, ForgetReal DEF recVars
  <2>2. CASE q # p \/ Present(policies'[p])
    BY <1>1, <1>6, <2>2 DEF RealInv
  <2> QED
    BY <2>1, <2>2
<1> QED
  BY <1>0, <1>1, <1>7, <1>8 DEF RealInv, Alone, expVars

\* The patch makes the last restart real, or gives the slot back.
LEMMA DispatchReal ==
    ASSUME CalmAll, RealInv, Dispatch
    PROVE  RealInv'
<1> DEFINE w == RecWorkload
<1>0. /\ recPC = "dispatch" /\ recPC # "idle" /\ recPC \in Acting
      /\ recPC' = "idle"
      /\ UNCHANGED <<apiVars, expVars, now, overwritten>>
      /\ UNCHANGED <<policies, policyRef, expNow, expTodo, expPC, expList>>
      /\ dispatches \in [Policies -> Seq(Restart)]
      /\ workloads \in [Workloads -> WorkloadObject]
  BY DEF Dispatch, Return, ResetRec, Acting, RecPCs, apiVars, expVars, CalmAll,
         IInv, EnvInv, WlInv
<1>1. PICK p \in Policies : /\ p = recKey /\ policyRef[p] = w
                            /\ \A q \in Policies : policyRef[q] = w => q = p
  BY <1>0, CalmFacts
<1>2. \/ /\ workloads' = [workloads EXCEPT ![w] = Restarted(workloads[w])]
         /\ dispatches' = [dispatches EXCEPT ![p] = Append(@, OurRestart)]
         /\ gate' \in {gate, Release(gate, w)}
      \/ /\ UNCHANGED <<workloads, dispatches>>
         /\ gate' = Release(gate, w)
  BY <1>1 DEF Dispatch, Triggered, Landed, StoreWorkload, wlVars
<1>3. /\ \A q \in Policies : Holds(gate', policyRef[q]) => Holds(gate, policyRef[q])
      /\ gate' = Release(gate, w) => ~Holds(gate', policyRef[p])
  BY <1>0, <1>1, <1>2, OwnGate
<1>4. ASSUME NEW q \in Policies, q # p
      PROVE  PolicyReal(q)' /\ ListedReal(q)'
  <2>1. /\ workloads'[policyRef[q]] = workloads[policyRef[q]]
        /\ dispatches'[q] = dispatches[q]
    <3>1. policyRef[q] # w /\ policyRef[q] \in Workloads
      BY <1>0, <1>1, <1>4, CalmFacts
    <3> HIDE DEF w
    <3> QED
      BY <1>0, <1>2, <1>4, <3>1
  <2>2. ~InCharge(q)
    BY <1>1, <1>4 DEF InCharge
  <2> QED
    BY <1>0, <1>3, <2>1, <2>2, PolicyKept DEF RealInv, Deciding, Decided
<1>5. \A t : Real(p, t) => Real(p, t)'
  <2>1. dispatches[p] \in Seq(Restart)
    BY <1>0
  <2>2. \A d \in DOMAIN dispatches[p] : /\ d \in DOMAIN dispatches'[p]
                                        /\ dispatches'[p][d] = dispatches[p][d]
    BY <1>0, <1>2, <2>1
  <2> QED
    BY <2>2 DEF Real
<1>6. /\ \A st : SettledReal(p, st) => SettledReal(p, st)'
      /\ LastReal(p) => LastReal(p)'
  BY <1>0, <1>5 DEF SettledReal, LastReal
<1> DEFINE sent == dispatches' = [dispatches EXCEPT ![p] = Append(@, OurRestart)]
<1>7. p \notin overwritten /\ sent => LastReal(p)'
  <2> SUFFICES ASSUME p \notin overwritten, sent PROVE LastReal(p)'
    OBVIOUS
  <2>1. dispatches'[p] = Append(dispatches[p], OurRestart)
    BY <1>0
  <2>2. dispatches[p] \in Seq(Restart)
    BY <1>0
  <2>3. \E d \in DOMAIN dispatches'[p] : dispatches'[p][d] = OurRestart
    BY <2>1, <2>2
  <2>4. OurRestart.at = policies[p].status.lastRestartAt
    BY <1>0, <1>1 DEF OurRestart, RealInv, CopyReal
  <2> QED
    BY <1>0, <2>3, <2>4 DEF LastReal, Real
<1>8. PolicyReal(p)'
  <2> SUFFICES ASSUME p \notin overwritten PROVE PolicyReal(p)'
    BY <1>0 DEF PolicyReal
  <2>1. PolicyReal(p)
    BY DEF RealInv
  <2>2. SettledReal(p, policies[p].status)'
    BY <1>0, <1>6, <2>1 DEF PolicyReal
  <2>3. LastReal(p)' \/ /\ UNCHANGED <<workloads, dispatches>>
                        /\ ~Holds(gate', policyRef[p])
    BY <1>2, <1>3, <1>7
  <2> QED
    BY <1>0, <1>6, <2>1, <2>2, <2>3 DEF PolicyReal
<1>9. ListedReal(p)'
  <2>1. Renewed(p) => Renewed(p)'
    BY <1>0 DEF Renewed, Deciding, Decided
  <2> QED
    BY <1>0, <1>6, <2>1 DEF RealInv, ListedReal
<1>10. CopyReal'
  BY <1>0 DEF CopyReal, Acting
<1> QED
  BY <1>0, <1>4, <1>8, <1>9, <1>10 DEF RealInv, Alone

\* In a calm cluster a marker the sweep closes has timed out.
LEMMA ClassifyReal ==
    ASSUME CalmAll, NEW p \in Policies, NEW unread \in BOOLEAN,
           LET pol == expList[p]
           IN  /\ pol.status.inFlight # None /\ Dated(pol.status)
               /\ classifyInFlight(policyRef[p], pol, unread) # None
    PROVE  /\ classifyInFlight(policyRef[p], expList[p], unread) # "Settled"
           /\ expList[p].status.lastRestartAt \in Nat
           /\ expList[p].status.lastRestartAt < expNow
<1> DEFINE st == expList[p].status
           w == policyRef[p]
<1>1. /\ w \in Workloads /\ st \in Status /\ expNow \in Nat /\ Timeout \in Nat \ {0}
  BY ControllerAssumption
  DEF CalmAll, IInv, ApiInv, ExpInv, GoodPolicy, GoodStatus, Time
<1>2. st.inFlight.at \in Nat /\ st.lastRestartAt = st.inFlight.at
      /\ st.inFlight.version = 1 /\ st.uid = 1
  BY <1>1 DEF Status, Marker, Time, Dated
<1>3. /\ workloadCache[w].exists /\ workloadCache[w].uid = 1
      /\ TemplateVersion(w, workloadCache[w]) = 1
  BY <1>1 DEF CalmAll, CalmInv, InStep, Plain, TemplateVersion
<1>4. classifyInFlight(w, expList[p], unread)
         = IF expNow >= st.inFlight.at + Timeout THEN "TimedOut" ELSE None
  BY <1>2, <1>3 DEF classifyInFlight, SameVersion
<1>5. expNow >= st.inFlight.at + Timeout
  BY <1>4
<1>6. st.inFlight.at < expNow
  BY <1>1, <1>2, <1>5
<1> HIDE DEF st, w
<1>7. classifyInFlight(w, expList[p], unread) = "TimedOut"
  BY <1>4, <1>5
<1> QED
  BY <1>2, <1>6, <1>7 DEF st, w

\* The sweep adds no Settled record.
LEMMA SweepReal ==
    ASSUME CalmAll, RealInv, NEW p \in Policies, SweepPolicy(p)
    PROVE  RealInv'
<1> DEFINE st == expList[p].status
<1>0. /\ UNCHANGED <<workloads, gate, now, dispatches>> /\ UNCHANGED recVars
      /\ p \in expTodo /\ expPC = "sweep"
      /\ expList \in [Policies -> GoodPolicy] /\ st \in GoodStatus
      /\ expNow \in Nat /\ now \in Nat
      /\ expList' = [expList EXCEPT ![p] = NoPolicy]
  BY DEF SweepPolicy, wlVars, sendVars, CalmAll, IInv, ExpInv, EnvInv, Time,
         GoodPolicy
<1>1. \/ UNCHANGED apiVars /\ UNCHANGED overwritten
      \/ \E unread \in BOOLEAN :
            LET o == classifyInFlight(policyRef[p], expList[p], unread)
            IN  o # None /\ \E err, fault :
                   Persist(p, expList[p], CompleteInFlight(st, o), err, fault)
  BY DEF SweepPolicy
<1>2. /\ expTodo' \subseteq expTodo \ {p}
      /\ expPC' # "sweep" => expTodo' = {}
      /\ expNow' = expNow \/ (expNow' = 0 /\ expTodo' = {})
  BY DEF SweepPolicy, ExpGoto
<1>3. /\ UNCHANGED policyRef /\ overwritten \subseteq overwritten'
      /\ \A q \in Policies : q # p => policies'[q].status = policies[q].status
      /\ \/ policies'[p].status = policies[p].status
         \/ /\ Dated(policies'[p].status)
            /\ p \notin overwritten' =>
                  /\ policies'[p].status.lastRestartAt
                        = policies[p].status.lastRestartAt
                  /\ SettledReal(p, policies'[p].status)
  <2>1. CASE UNCHANGED apiVars /\ UNCHANGED overwritten
    BY <2>1 DEF apiVars
  <2>2. ASSUME NEW unread \in BOOLEAN, NEW o, NEW err, NEW fault,
               o = classifyInFlight(policyRef[p], expList[p], unread), o # None,
               Persist(p, expList[p], CompleteInFlight(st, o), err, fault)
        PROVE  /\ UNCHANGED policyRef /\ overwritten \subseteq overwritten'
               /\ \A q \in Policies :
                     q # p => policies'[q].status = policies[q].status
               /\ \/ policies'[p].status = policies[p].status
                  \/ /\ Dated(policies'[p].status)
                     /\ p \notin overwritten' =>
                           /\ policies'[p].status.lastRestartAt
                                 = policies[p].status.lastRestartAt
                           /\ SettledReal(p, policies'[p].status)
    <3> DEFINE new == CompleteInFlight(st, o)
    <3>1. /\ UNCHANGED policyRef /\ overwritten \subseteq overwritten'
          /\ \A q \in Policies :
                q # p => policies'[q].status = policies[q].status
          /\ \/ UNCHANGED policies
             \/ /\ policies'[p].status = new
                /\ p \notin overwritten' =>
                      policies[p].status.lastRestartAt = st.lastRestartAt
      BY <2>2, PersistWrites DEF CalmAll
    <3>2. /\ o # "Settled" /\ st.lastRestartAt \in Nat
          /\ st.lastRestartAt < expNow
      BY <1>0, <2>2, ClassifyReal DEF RealInv
    <3>3. /\ Dated(new) /\ new.lastRestartAt = st.lastRestartAt
          /\ SettledReal(p, st) => SettledReal(p, new)
      BY <1>0, <3>2, CompleteReal DEF RealInv
    <3>4. p \notin overwritten' /\ policies[p].status.lastRestartAt = st.lastRestartAt
             => SettledReal(p, st)
      <4>1. policies[p].status.lastRestartAt = st.lastRestartAt => ~Renewed(p)
        BY <1>0, <3>2, BasicsAssumption DEF Renewed
      <4> QED
        BY <1>0, <3>1, <4>1 DEF RealInv, ListedReal
    <3> HIDE DEF new, st
    <3> QED
      BY <3>1, <3>3, <3>4
  <2> HIDE DEF st
  <2> QED
    BY <1>1, <2>1, <2>2
<1>4. ASSUME NEW q \in Policies, q # p
      PROVE  PolicyReal(q)' /\ ListedReal(q)'
  <2>1. /\ q \in expTodo' =>
              q \in expTodo /\ expList'[q] = expList[q] /\ expNow' = expNow
        /\ InCharge(q)' <=> InCharge(q)
        /\ recKey' = q /\ recPC' \in Deciding \cup Decided =>
              /\ recKey = q /\ recPC \in Deciding \cup Decided
              /\ recNow' = recNow
    BY <1>0, <1>2, <1>4 DEF InCharge, recVars
  <2> QED
    BY <1>0, <1>3, <1>4, <2>1, PolicyKept DEF RealInv
<1>5. PolicyReal(p)' /\ ListedReal(p)'
  <2>1. /\ \A s : SettledReal(p, s)' <=> SettledReal(p, s)
        /\ \A t : Real(p, t)' <=> Real(p, t)
        /\ InCharge(p)' <=> InCharge(p)
    BY <1>0 DEF SettledReal, Real, InCharge, recVars
  <2>2. PolicyReal(p) /\ p \notin expTodo'
    BY <1>2 DEF RealInv
  <2>3. p \notin overwritten' =>
           /\ policies'[p].status.lastRestartAt = policies[p].status.lastRestartAt
           /\ SettledReal(p, policies[p].status) =>
                 SettledReal(p, policies'[p].status)
    BY <1>3
  <2>4. p \notin overwritten' => (LastReal(p)' <=> LastReal(p))
    BY <2>1, <2>3 DEF LastReal
  <2> QED
    BY <1>0, <1>3, <2>1, <2>2, <2>3, <2>4 DEF PolicyReal, ListedReal
<1>6. CopyReal'
  <2>1. recPC \in Acting => recKey \in Policies
    BY DEF CalmAll, IInv, RecInv, Acting
  <2>2. recKey \in Policies \ overwritten' =>
           policies'[recKey].status.lastRestartAt
              = policies[recKey].status.lastRestartAt
    BY <1>3
  <2> QED
    BY <1>0, <1>3, <2>1, <2>2, CopyKept DEF RealInv
<1>7. \A q \in Policies : /\ Dated(policies'[q].status)
                          /\ Dated(expList'[q].status)
  <2>1. \A q \in Policies : expList'[q] \in {expList[q], NoPolicy}
    BY <1>0
  <2> QED
    BY <1>3, <2>1, NewReal DEF RealInv
<1>8. expNow' <= now' /\ \A q \in expTodo' : expList'[q].status.inFlight # None
  <2>1. expTodo \subseteq Policies
    BY DEF CalmAll, IInv, ExpInv
  <2> QED
    BY <1>0, <1>2, <2>1 DEF RealInv
<1> QED
  BY <1>2, <1>3, <1>4, <1>5, <1>6, <1>7, <1>8 DEF RealInv, Alone

\* A controller that has just started has written nothing.
LEMMA InitReal == Separate => (Init => RealInv)
<1> SUFFICES ASSUME Separate, Init PROVE RealInv
  OBVIOUS
<1>1. Alone
  BY DEF Init, Alone, Separate
<1>2. /\ expNow <= now /\ expTodo = {}
      /\ CopyReal
  BY DEF Init, ExpIdle, RecIdle, CopyReal, Acting
<1>3. ASSUME NEW p \in Policies
      PROVE  /\ Dated(policies[p].status) /\ Dated(expList[p].status)
             /\ PolicyReal(p) /\ ListedReal(p)
  <2>1. policies[p].status = InitStatus /\ expList[p].status = InitStatus
    <3>1. PICK mode \in [Policies -> Modes] :
              policies = [q \in Policies |-> NewPolicy(mode[q], 1)]
      BY DEF Init
    <3> QED
      BY <3>1, NewReal DEF Init, ExpIdle
  <2> QED
    BY <1>2, <2>1, NewReal DEF PolicyReal, ListedReal, LastReal
<1> QED
  BY <1>1, <1>2, <1>3 DEF RealInv

\* Every step keeps RealInv.
LEMMA NextReal == Calm => (CalmAll /\ RealInv /\ [Next]_vars => RealInv')
<1> SUFFICES ASSUME Calm, CalmAll, RealInv, [Next]_vars PROVE RealInv'
  OBVIOUS
<1>1. CASE Reconcile
  BY <1>1, GetPolicyReal, GoneReal, AddFinalizerReal, RecPersistReal,
     GetWorkloadReal, SettleReal, DecideReal, DispatchReal DEF Reconcile
<1>2. CASE Expirer
  BY <1>2, SlotsReal, ListReal, SweepReal DEF Expirer
<1>3. CASE \/ Tick \/ UNCHANGED vars
           \/ \E p \in Policies : \/ SampleEvent(p) \/ CreatePolicy(p)
                                  \/ EditMode(p) \/ DeletePolicy(p)
           \/ \E w \in Workloads : ChangeStrategy(w) \/ Progress(w)
  BY <1>3, OtherReal, GoneReal
<1> QED
  BY <1>1, <1>2, <1>3, CalmSteps DEF CalmAll

\* In a calm cluster whose policies do not share a workload, a record says
\* Settled only if its restart reached the cluster, whatever writes and patches
\* fail or lose their answer (reconciler.go:188-204 closes a record without
\* asking whether the patch of reconciler.go:330 was accepted).
THEOREM SettledTheorem == Calm /\ Separate => (Spec => []SettledIsReal)
<1> SUFFICES ASSUME Calm, Separate PROVE Spec => []SettledIsReal
  OBVIOUS
<1>1. Init => CalmAll /\ RealInv
  BY InitInv, InitUids, InitSlots, InitCalm, InitReal DEF CalmAll
<1>2. CalmAll /\ RealInv /\ [Next]_vars => (CalmAll /\ RealInv)'
  BY NextInv, NextUids, NextSlots, NextCalm, NextReal DEF CalmAll
<1>3. RealInv => SettledIsReal
  BY DEF RealInv, PolicyReal, SettledReal, Real, SettledIsReal
<1> QED
  BY <1>1, <1>2, <1>3, PTL DEF Spec
=============================================================================
