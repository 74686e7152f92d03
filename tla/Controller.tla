----------------------------- MODULE Controller -----------------------------
(***************************************************************************)
(* The leader of memory-leak-reloader at work: the policy reconciler       *)
(* (internal/controller/reconciler.go, one worker), the in-flight expirer  *)
(* (cmd/expirer.go with Store.SweepInFlight), the gate both share, the     *)
(* policy and workload objects on the API server, and the informer caches  *)
(* through which both goroutines read them.                                *)
(*                                                                         *)
(* Every API call is a step of its own, so the two goroutines, the users   *)
(* and the workload controllers interleave between any two calls.  Whether *)
(* a pod leaks is decided by the environment; see the README for what else *)
(* is abstracted.                                                          *)
(***************************************************************************)
EXTENDS PolicyStatus, Gate, Workload

CONSTANTS
    Policies,    \* the MemoryLeakPolicy names
    PolicyRefs,  \* the possible choices of spec.workloadRef, by policy
    Timeout,     \* inflightTimeout
    Closed,      \* times at which the maintenance windows forbid a restart
    Modes,       \* the spec.dryRun values a policy may be created with
    Horizon,     \* bound: no leak is detected after this time
    MaxTime,     \* bound: the last time
    Budgets      \* bound: how often the environment may do each of Chances

Chances == {"faults", "crashes", "rollouts", "disturbs", "recreates", "edits",
            "lags"}

ASSUME ControllerAssumption ==
    /\ PolicyRefs \subseteq [Policies -> Workloads]
    /\ Timeout \in Nat \ {0}
    /\ Closed \subseteq Nat
    /\ Modes \subseteq BOOLEAN
    /\ Horizon \in Nat
    /\ MaxTime \in Nat
    /\ Budgets \subseteq [Chances -> Nat]

VARIABLES
    now,            \* the wall clock
    policyRef,      \* spec.workloadRef of each policy, immutable
    policies,       \* the policy objects on the API server
    policyCache,    \* the controller's informer cache of them
    workloads,      \* the workload objects on the API server
    workloadCache,  \* the informer cache; Rollouts are read uncached
    stalled,        \* the policies and workloads whose watch is behind
    gate,           \* the leader's slots
    wouldRestart,   \* lastWouldRestart: the dry-run throttle
    queue,          \* keys in the reconciler's workqueue
    recPC, recKey, recPol, recWl, recNow,    \* the reconcile in progress
    expPC, expNow, expList, expTodo, expKeys, \* the expirer pass in progress
    budget,         \* what the environment may still do
    delayed,        \* a former leader's patch still on its way, by policy
    dispatches,     \* ghost: the restarts that reached the cluster, by policy
    ours,           \* ghost: start of our unfinished rollout of a workload
    overwritten     \* ghost: policies whose bookkeeping no longer covers all
                    \* their restarts, after a conflict retry or a recreation

apiVars   == <<policyRef, policies, policyCache, stalled>>
wlVars    == <<workloads, workloadCache>>
recVars   == <<recPC, recKey, recPol, recWl, recNow>>
expVars   == <<expPC, expNow, expList, expTodo, expKeys>>
sendVars  == <<delayed, dispatches, ours>>
vars == <<now, apiVars, wlVars, gate, wouldRestart, queue, recVars, expVars,
          budget, sendVars, overwritten>>

-----------------------------------------------------------------------------
\* Policy objects.

PolicyObject ==
    [phase     : {"absent", "live", "deleting"},
     finalizer : BOOLEAN,
     dryRun    : BOOLEAN,        \* spec.dryRun
     rv        : Nat,            \* resourceVersion
     status    : Status]

NoPolicy == [phase |-> "absent", finalizer |-> FALSE, dryRun |-> FALSE,
             rv |-> 0, status |-> InitStatus]

Present(pol) == pol.phase # "absent"

NewPolicy(dryRun, rv) ==
    [NoPolicy EXCEPT !.phase = "live", !.dryRun = dryRun, !.rv = rv]

NoWorkload == [InitWorkload EXCEPT !.exists = FALSE]

RecPCs == {"idle", "finalize", "addFinalizer", "persistMode", "getWorkload",
           "persistAdopt", "settle", "persistDone", "detect", "guard",
           "dryRun", "persistRestart", "dispatch"}
ExpPCs == {"idle", "list", "sweep", "release"}

TypeOK ==
    /\ now \in Time
    /\ policyRef \in [Policies -> Workloads]
    /\ policies \in [Policies -> PolicyObject]
    /\ policyCache \in [Policies -> PolicyObject]
    /\ workloads \in [Workloads -> WorkloadObject]
    /\ workloadCache \in [Workloads -> WorkloadObject]
    /\ stalled \subseteq Policies \cup Workloads
    /\ gate \in Gates
    /\ wouldRestart \in Gates
    /\ queue \subseteq Policies
    /\ recPC \in RecPCs
    /\ recKey \in Policies \cup {None}
    /\ recPC # "idle" => recKey \in Policies
    /\ recPol \in PolicyObject
    /\ recWl \in WorkloadObject
    /\ recNow \in Time
    /\ expPC \in ExpPCs
    /\ expNow \in Time
    /\ expList \in [Policies -> PolicyObject]
    /\ expTodo \subseteq Policies
    /\ expKeys \subseteq Workloads
    /\ budget \in [Chances -> Nat]
    /\ delayed \in [Policies -> Restart \cup {None}]
    /\ dispatches \in [Policies -> Seq(Restart)]
    /\ ours \in [Workloads -> OptTime]
    /\ overwritten \subseteq Policies

RecIdle ==
    /\ recPC = "idle" /\ recKey = None /\ recPol = NoPolicy
    /\ recWl = NoWorkload /\ recNow = 0
ExpIdle ==
    /\ expPC = "idle" /\ expNow = 0 /\ expTodo = {} /\ expKeys = {}
    /\ expList = [p \in Policies |-> NoPolicy]

\* A controller starts in a cluster with policies nobody has reconciled yet.
Init ==
    /\ now = 0
    /\ policyRef \in PolicyRefs
    /\ \E mode \in [Policies -> Modes] :
            policies = [p \in Policies |-> NewPolicy(mode[p], 1)]
    /\ policyCache = policies
    /\ workloads = [w \in Workloads |-> InitWorkload]
    /\ workloadCache = workloads
    /\ stalled = {}
    /\ gate = EmptyGate
    /\ wouldRestart = EmptyGate
    /\ queue = Policies
    /\ RecIdle
    /\ ExpIdle
    /\ budget \in Budgets
    /\ delayed = [p \in Policies |-> None]
    /\ dispatches = [p \in Policies |-> <<>>]
    /\ ours = EmptyGate
    /\ overwritten = {}

-----------------------------------------------------------------------------
\* The API server and the informer caches.

Store(p, pol) ==
    /\ policies' = [policies EXCEPT ![p] = pol]
    /\ policyCache' = IF p \in stalled THEN policyCache
                      ELSE [policyCache EXCEPT ![p] = pol]
    /\ UNCHANGED <<policyRef, stalled>>

\* The key a write of p puts in the workqueue: the watch has no predicate, so
\* the controller's own status writes count too.  A watch that is behind
\* delivers the event when it catches up (SyncPolicy).
Event(p) == IF p \in stalled \/ policies'[p] = policies[p] THEN {} ELSE {p}

StoreWorkload(w, obj) ==
    /\ workloads' = [workloads EXCEPT ![w] = obj]
    /\ workloadCache' = IF w \in stalled THEN workloadCache
                        ELSE [workloadCache EXCEPT ![w] = obj]

Chance(c) ==
    /\ budget[c] > 0
    /\ budget' = [budget EXCEPT ![c] = @ - 1]

FaultIf(fault) == IF fault THEN Chance("faults") ELSE UNCHANGED budget

\* A metadata update of the object read as copy: refused on a conflict.
CanUpdate(p, copy) == Present(policies[p]) /\ copy.rv = policies[p].rv

Update(p, copy, pol, err, fault) ==
    \/ /\ CanUpdate(p, copy) /\ err = fault    \* a fault loses the response
       /\ Store(p, pol)
    \/ /\ err /\ (fault \/ ~CanUpdate(p, copy))
       /\ UNCHANGED apiVars

\* What a lost update could take from the breaker or the mode.
Books(st) == <<st.uid, st.lastRestartAt, st.restartCount, st.windowStart,
               st.version, st.dryRun>>

\* Store.Persist: write st as the status of the object read as copy.  On a
\* conflict the object is re-read through the cache and st is written over
\* whatever status it has.
CanPersist(p, copy) ==
    /\ Present(policies[p])
    /\ policies[p].rv \in {copy.rv, policyCache[p].rv}

Persist(p, copy, st, err, fault) ==
    \/ /\ CanPersist(p, copy) /\ err = fault
       /\ Store(p, [policies[p] EXCEPT !.status = st, !.rv = @ + 1])
       /\ overwritten' = IF Books(policies[p].status) = Books(copy.status)
                         THEN overwritten ELSE overwritten \cup {p}
    \/ /\ err /\ (fault \/ ~CanPersist(p, copy))
       /\ UNCHANGED <<apiVars, overwritten>>

\* The caller's object after a successful Persist: the response refreshes its
\* resourceVersion, the retry path works on another object.
Persisted(p, copy, st) ==
    [copy EXCEPT !.status = st,
                 !.rv = IF @ = policies[p].rv THEN @ + 1 ELSE @]

-----------------------------------------------------------------------------
\* The reconciler.  Return(keys) ends a reconcile and requeues keys; an error
\* and RequeueAfter both put the key back (delays are not modelled).

RecWorkload == policyRef[recKey]

ResetRec ==
    /\ recPC' = "idle" /\ recKey' = None /\ recPol' = NoPolicy
    /\ recWl' = NoWorkload /\ recNow' = 0

Return(keys) ==
    /\ ResetRec
    /\ queue' = queue \cup keys

Goto(pc) ==
    /\ recPC' = pc
    /\ UNCHANGED <<recKey, recPol, recWl, recNow, queue>>

\* Persist st; on success continue at pc with the refreshed object.
PersistThen(st, pc) ==
    \E err, fault \in BOOLEAN :
        /\ FaultIf(fault)
        /\ Persist(recKey, recPol, st, err, fault)
        /\ \/ /\ err
              /\ Return({recKey})
           \/ /\ ~err
              /\ recPC' = pc
              /\ recPol' = Persisted(recKey, recPol, st)
              /\ queue' = queue \cup Event(recKey)
              /\ UNCHANGED <<recKey, recWl, recNow>>

\* Take a key from the queue and read the policy through the cache.
GetPolicy(p) ==
    /\ recPC = "idle"
    /\ p \in queue
    /\ queue' = queue \ {p}
    /\ LET pol == policyCache[p]
           gone == \/ ~Present(pol)
                   \/ pol.phase = "deleting" /\ ~pol.finalizer
       IN  \/ /\ gone
              /\ UNCHANGED recVars
           \/ /\ ~gone
              /\ recKey' = p
              /\ recPol' = pol
              /\ recPC' = IF pol.phase = "deleting" THEN "finalize"
                          ELSE IF ~pol.finalizer THEN "addFinalizer"
                          ELSE IF pol.status.dryRun # pol.dryRun
                               THEN "persistMode" ELSE "getWorkload"
              /\ UNCHANGED <<recWl, recNow>>
    /\ UNCHANGED <<now, apiVars, wlVars, gate, wouldRestart, expVars, budget,
                   sendVars, overwritten>>

\* The bookkeeping of a deleted policy is gone: a policy recreated under the
\* name has a fresh restart budget (docs/configuration.md), so its restarts
\* are counted from here, unless one of the old policy is still on its way.
Forgotten(p) ==
    /\ dispatches' = [dispatches EXCEPT ![p] = <<>>]
    /\ overwritten' = IF delayed[p] # None \/ (recPC = "dispatch" /\ recKey = p)
                      THEN overwritten \cup {p} ELSE overwritten

ForgottenIfGone(p) ==
    IF Present(policies'[p]) THEN UNCHANGED <<dispatches, overwritten>>
    ELSE Forgotten(p)

\* Variant: the slot is forgotten.
FinalizeKeepsSlot ==
    /\ recPC = "finalize"
    /\ \E err, fault \in BOOLEAN :
        /\ FaultIf(fault)
        /\ Update(recKey, recPol, [NoPolicy EXCEPT !.rv = recPol.rv + 1],
                  err, fault)
        /\ Return(IF err THEN {recKey} ELSE Event(recKey))
    /\ ForgottenIfGone(recKey)
    /\ UNCHANGED <<now, wlVars, gate, wouldRestart, expVars, delayed, ours>>

\* Variant: a failed update is not retried.
FinalizeOnce ==
    /\ recPC = "finalize"
    /\ gate' = Release(gate, RecWorkload)
    /\ \E err, fault \in BOOLEAN :
        /\ FaultIf(fault)
        /\ Update(recKey, recPol, [NoPolicy EXCEPT !.rv = recPol.rv + 1],
                  err, fault)
        /\ Return(Event(recKey))
    /\ ForgottenIfGone(recKey)
    /\ UNCHANGED <<now, wlVars, wouldRestart, expVars, delayed, ours>>

\* A deleted policy gives its slot back, then loses its finalizer.
Finalize ==
    /\ recPC = "finalize"
    /\ gate' = Release(gate, RecWorkload)
    /\ \E err, fault \in BOOLEAN :
        /\ FaultIf(fault)
        /\ Update(recKey, recPol, [NoPolicy EXCEPT !.rv = recPol.rv + 1],
                  err, fault)
        /\ Return(IF err THEN {recKey} ELSE Event(recKey))
    /\ ForgottenIfGone(recKey)
    /\ UNCHANGED <<now, wlVars, wouldRestart, expVars, delayed, ours>>

AddFinalizer ==
    /\ recPC = "addFinalizer"
    /\ \E err, fault \in BOOLEAN :
        /\ FaultIf(fault)
        /\ Update(recKey, recPol,
                  [policies[recKey] EXCEPT !.finalizer = TRUE, !.rv = @ + 1],
                  err, fault)
        /\ Return(IF err THEN {recKey} ELSE Event(recKey))
    /\ UNCHANGED <<now, wlVars, gate, wouldRestart, expVars, sendVars,
                   overwritten>>

\* Variant: dry-run is announced but never taken back.
PersistDryRunOnly ==
    /\ recPC = "persistMode"
    /\ PersistThen([recPol.status EXCEPT !.dryRun = TRUE], "getWorkload")
    /\ UNCHANGED <<now, wlVars, gate, wouldRestart, expVars, sendVars>>

\* Surface the effective mode when it drifted.
PersistMode ==
    /\ recPC = "persistMode"
    /\ PersistThen([recPol.status EXCEPT !.dryRun = recPol.dryRun],
                   "getWorkload")
    /\ UNCHANGED <<now, wlVars, gate, wouldRestart, expVars, sendVars>>

\* Resolve the workload and fix `now` and the identity to act on.
GetWorkload ==
    /\ recPC = "getWorkload"
    /\ LET obj == workloadCache[RecWorkload]
       IN  \/ /\ Chance("faults")
              /\ Return({recKey})
           \/ /\ ~obj.exists
              /\ Return({recKey})
              /\ UNCHANGED budget
           \/ /\ obj.exists
              /\ recWl' = obj
              /\ recNow' = now
              /\ recPC' = IF recPol.status.uid # obj.uid
                          THEN "persistAdopt" ELSE "settle"
              /\ UNCHANGED <<recKey, recPol, queue, budget>>
    /\ UNCHANGED <<now, apiVars, wlVars, gate, wouldRestart, expVars,
                   sendVars, overwritten>>

PersistAdopt ==
    /\ recPC = "persistAdopt"
    /\ PersistThen(AdoptWorkload(recPol.status, recWl.uid), "settle")
    /\ UNCHANGED <<now, wlVars, gate, wouldRestart, expVars, sendVars>>

\* An unsettled rollout is polled (resumed, if the status says it is ours) or
\* left alone; a settled one that holds a slot gives it back.
Settle ==
    /\ recPC = "settle"
    /\ LET w == RecWorkload
           marker == recPol.status.inFlight
           isOurs == marker # None
                     /\ SameVersion(marker.version, TemplateVersion(w, recWl))
       IN  \/ /\ NotAutoRestartable(w, recWl)
              /\ Return({})
              /\ UNCHANGED gate
           \/ /\ ~NotAutoRestartable(w, recWl) /\ ~IsSettled(w, recWl)
              /\ IF isOurs \/ Holds(gate, w) THEN Return({recKey}) ELSE Return({})
              /\ gate' = IF isOurs THEN TryAcquire(gate, w, marker.at) ELSE gate
           \/ /\ ~NotAutoRestartable(w, recWl) /\ IsSettled(w, recWl)
              /\ Holds(gate, w)
              /\ gate' = Release(gate, w)
              /\ IF marker = None
                 THEN Return({})
                 ELSE Goto("persistDone")
           \/ /\ ~NotAutoRestartable(w, recWl) /\ IsSettled(w, recWl)
              /\ ~Holds(gate, w)
              /\ Goto("detect")
              /\ UNCHANGED gate
    /\ UNCHANGED <<now, apiVars, wlVars, wouldRestart, expVars, budget,
                   sendVars, overwritten>>

\* Variant: the two outcomes are swapped.
DoneStatusSwapped ==
    LET st == recPol.status
        moved == ~SameVersion(st.inFlight.version,
                              TemplateVersion(RecWorkload, recWl))
    IN  RecomputeObservability(
            CompleteInFlight(st, IF moved THEN "Settled" ELSE "Superseded"),
            recNow)

\* Record how our rollout ended.
DoneStatus ==
    LET st == recPol.status
        moved == ~SameVersion(st.inFlight.version,
                              TemplateVersion(RecWorkload, recWl))
    IN  RecomputeObservability(
            CompleteInFlight(st, IF moved THEN "Superseded" ELSE "Settled"),
            recNow)

PersistDone ==
    /\ recPC = "persistDone"
    /\ \E err, fault \in BOOLEAN :
        /\ FaultIf(fault)
        /\ Persist(recKey, recPol, DoneStatus, err, fault)
        /\ Return(IF err THEN {recKey} ELSE Event(recKey))
    /\ UNCHANGED <<now, wlVars, gate, wouldRestart, expVars, sendVars>>

\* Scan the pods; a leak then has to pass cooldown, breaker, maintenance
\* window and gate.
Detect ==
    /\ recPC = "detect"
    /\ LET w == RecWorkload
           mayRestart == /\ recNow <= Horizon
                         /\ ~InCooldown(recPol.status, recNow)
                         /\ ~BreakerTripped(recPol.status,
                                TemplateVersion(w, recWl), recNow)
       IN  \/ /\ Return({})                    \* no leak, cooldown or breaker
              /\ UNCHANGED <<gate, budget>>
           \/ /\ Chance("faults")              \* a pod or owner read failed
              /\ Return({recKey})
              /\ UNCHANGED gate
           \/ /\ mayRestart /\ recNow \in Closed
              /\ Return({recKey})
              /\ UNCHANGED <<gate, budget>>
           \/ /\ mayRestart /\ recNow \notin Closed
              /\ AcquireOutcome(gate, w) # "acquired"
              /\ Return(IF AcquireOutcome(gate, w) = "cap" THEN {recKey} ELSE {})
              /\ UNCHANGED <<gate, budget>>
           \/ /\ mayRestart /\ recNow \notin Closed
              /\ AcquireOutcome(gate, w) = "acquired"
              /\ gate' = TryAcquire(gate, w, recNow)
              /\ Goto("guard")
              /\ UNCHANGED budget
    /\ UNCHANGED <<now, apiVars, wlVars, wouldRestart, expVars, sendVars,
                   overwritten>>

\* Re-read the workload: give up if its template moved.  The UID is not
\* compared.
Guard ==
    /\ recPC = "guard"
    /\ LET w == RecWorkload
           fresh == workloadCache[w]
           moved == ~SameVersion(TemplateVersion(w, fresh),
                                 TemplateVersion(w, recWl))
       IN  \/ /\ IF fresh.exists THEN Chance("faults") ELSE UNCHANGED budget
              /\ gate' = Release(gate, w)
              /\ Return({recKey})
           \/ /\ fresh.exists /\ moved
              /\ gate' = Release(gate, w)
              /\ Return({})
              /\ UNCHANGED budget
           \/ /\ fresh.exists /\ ~moved
              /\ Goto(IF recPol.dryRun THEN "dryRun" ELSE "persistRestart")
              /\ UNCHANGED <<gate, budget>>
    /\ UNCHANGED <<now, apiVars, wlVars, wouldRestart, expVars, sendVars,
                   overwritten>>

\* A dry run frees the slot and announces at most one restart per cooldown.
DryRun ==
    /\ recPC = "dryRun"
    /\ gate' = Release(gate, RecWorkload)
    /\ LET last == wouldRestart[RecWorkload]
       IN  wouldRestart' =
             IF last # None /\ recNow < last + Cooldown THEN wouldRestart
             ELSE [wouldRestart EXCEPT ![RecWorkload] = recNow]
    /\ Return({})
    /\ UNCHANGED <<now, apiVars, wlVars, expVars, budget, sendVars,
                   overwritten>>

\* Record the restart before triggering it.
RestartStatus ==
    RecomputeObservability(
        ApplyRestart(recPol.status, TemplateVersion(RecWorkload, recWl),
                     recNow),
        recNow)

PersistRestart ==
    /\ recPC = "persistRestart"
    /\ PersistThen(RestartStatus, "dispatch")
    /\ gate' = IF recPC' = "idle" THEN Release(gate, RecWorkload) ELSE gate
    /\ UNCHANGED <<now, wlVars, wouldRestart, expVars, sendVars>>

\* The restart the reconcile has recorded and is about to trigger.
OurRestart == [at |-> recNow, uid |-> recPol.status.uid,
               version |-> recPol.status.version]

\* The patch reaches the object of that name, whatever its UID or template.
Landed(p, restart) ==
    LET w == policyRef[p]
    IN  /\ workloads[w].exists
        /\ StoreWorkload(w, Restarted(workloads[w]))
        /\ ours' = [ours EXCEPT ![w] = restart.at]
        /\ dispatches' = [dispatches EXCEPT ![p] = Append(@, restart)]

\* One try of the patch: it lands, or fails, or only its response is lost.
Triggered(err) ==
    \E fault \in BOOLEAN :
        /\ FaultIf(fault)
        /\ \/ /\ err = fault
              /\ Landed(recKey, OurRestart)
           \/ /\ err /\ (fault \/ ~workloads[RecWorkload].exists)
              /\ UNCHANGED <<wlVars, dispatches, ours>>

\* Variant: a failed dispatch keeps its slot.
DispatchKeepsSlot ==
    /\ recPC = "dispatch"
    /\ \E err \in BOOLEAN : Triggered(err)
    /\ Return({recKey})
    /\ UNCHANGED <<now, apiVars, gate, wouldRestart, expVars, delayed,
                   overwritten>>

\* Variant: a failed dispatch is tried again at once.
DispatchRetried ==
    /\ recPC = "dispatch"
    /\ \E err \in BOOLEAN :
        /\ Triggered(err)
        /\ IF err THEN Goto("dispatch") ELSE Return({recKey})
    /\ UNCHANGED <<now, apiVars, gate, wouldRestart, expVars, delayed,
                   overwritten>>

\* Trigger the restart; a failed trigger gives the slot back but leaves the
\* marker and the count behind.
Dispatch ==
    /\ recPC = "dispatch"
    /\ \E err \in BOOLEAN :
        /\ Triggered(err)
        /\ gate' = IF err THEN Release(gate, RecWorkload) ELSE gate
    /\ Return({recKey})
    /\ UNCHANGED <<now, apiVars, wouldRestart, expVars, delayed, overwritten>>

Reconcile ==
    \/ \E p \in Policies : GetPolicy(p)
    \/ Finalize \/ AddFinalizer \/ PersistMode \/ GetWorkload \/ PersistAdopt
    \/ Settle \/ PersistDone \/ Detect \/ Guard \/ DryRun \/ PersistRestart
    \/ Dispatch

-----------------------------------------------------------------------------
\* The expirer: free old slots, then sweep the policies with a marker and
\* free the slots of those it closed.

ExpireSlots ==
    /\ expPC = "idle"
    /\ expPC' = "list"
    /\ expNow' = now
    /\ gate' = ExpireOlderThan(gate, now, Timeout)
    /\ UNCHANGED <<now, apiVars, wlVars, wouldRestart, queue, recVars,
                   expList, expTodo, expKeys, budget, sendVars, overwritten>>

\* The pass goes on at a sweep, a release, or ends.
ExpGoto(todo, keys) ==
    /\ expTodo' = todo
    /\ expKeys' = keys
    /\ \/ /\ todo # {}
          /\ expPC' = "sweep"
          /\ UNCHANGED expNow
       \/ /\ todo = {} /\ keys # {}
          /\ expPC' = "release"
          /\ UNCHANGED expNow
       \/ /\ todo = {} /\ keys = {}
          /\ expPC' = "idle"
          /\ expNow' = 0

ListPolicies ==
    /\ expPC = "list"
    /\ LET todo == {p \in Policies : /\ Present(policyCache[p])
                                     /\ policyCache[p].status.inFlight # None}
       IN  /\ expList' = [p \in Policies |->
                            IF p \in todo THEN policyCache[p] ELSE NoPolicy]
           /\ ExpGoto(todo, {})
    /\ UNCHANGED <<now, apiVars, wlVars, gate, wouldRestart, queue, recVars,
                   budget, sendVars, overwritten>>

\* Variant: age alone never closes a marker.
classifyWithoutTimeout(w, pol, unread) ==
    LET obj == workloadCache[w]
    IN  IF ~unread /\ (~obj.exists \/ obj.uid # pol.status.uid)
        THEN "Superseded" ELSE None

\* How to close the marker of pol, or None to keep it.  `unread` is a failed
\* read other than NotFound: only the age counts then.
classifyInFlight(w, pol, unread) ==
    LET obj == workloadCache[w]
        dispatched == pol.status.inFlight.version
        live == TemplateVersion(w, obj)
        superseded == \/ ~obj.exists
                      \/ obj.uid # pol.status.uid
                      \/ /\ dispatched # None /\ live # None
                         /\ ~SameVersion(live, dispatched)
    IN  IF ~unread /\ superseded THEN "Superseded"
        ELSE IF expNow >= pol.status.inFlight.at + Timeout THEN "TimedOut"
        ELSE None

\* One iteration of SweepInFlight's loop; an error ends the loop.
SweepPolicy(p) ==
    /\ expPC = "sweep"
    /\ p \in expTodo
    /\ expList' = [expList EXCEPT ![p] = NoPolicy]
    /\ \E unread, err, fault \in BOOLEAN :
        /\ ~(unread /\ fault)
        /\ FaultIf(unread \/ fault)
        /\ LET pol == expList[p]
               outcome == classifyInFlight(policyRef[p], pol, unread)
           IN  \/ /\ outcome = None /\ ~err /\ ~fault
                  /\ ExpGoto(expTodo \ {p}, expKeys)
                  /\ UNCHANGED <<apiVars, queue, overwritten>>
               \/ /\ outcome # None
                  /\ Persist(p, pol, CompleteInFlight(pol.status, outcome),
                             err, fault)
                  /\ queue' = queue \cup Event(p)
                  /\ ExpGoto(IF err THEN {} ELSE expTodo \ {p},
                             expKeys \cup {policyRef[p]})
    /\ UNCHANGED <<now, wlVars, gate, wouldRestart, recVars, sendVars>>

ReleaseKey(w) ==
    /\ expPC = "release"
    /\ w \in expKeys
    /\ gate' = Release(gate, w)
    /\ ExpGoto({}, expKeys \ {w})
    /\ UNCHANGED <<now, apiVars, wlVars, wouldRestart, queue, recVars,
                   expList, budget, sendVars, overwritten>>

Expirer ==
    \/ ExpireSlots
    \/ ListPolicies
    \/ \E p \in Policies : SweepPolicy(p)
    \/ \E w \in Workloads : ReleaseKey(w)

-----------------------------------------------------------------------------
\* Everybody else: the sampler, the caches, users, workload controllers, the
\* clock, and the failure of the leader.

\* A sampling pass found the window covered and sent the policy's event.
SampleEvent(p) ==
    /\ p \notin queue
    /\ Present(policyCache[p])
    /\ queue' = queue \cup {p}
    /\ UNCHANGED <<now, apiVars, wlVars, gate, wouldRestart, recVars, expVars,
                   budget, sendVars, overwritten>>

\* A watch falls behind: the cache keeps the object as it is until the watch
\* catches up.  Rollouts are read uncached.
Stall(key) ==
    /\ key \notin stalled
    /\ Chance("lags")
    /\ stalled' = stalled \cup {key}
    /\ UNCHANGED <<now, policyRef, policies, policyCache, wlVars, gate,
                   wouldRestart, queue, recVars, expVars, sendVars, overwritten>>

SyncPolicy(p) ==
    /\ p \in stalled
    /\ stalled' = stalled \ {p}
    /\ policyCache' = [policyCache EXCEPT ![p] = policies[p]]
    /\ queue' = IF policyCache[p] = policies[p] THEN queue ELSE queue \cup {p}
    /\ UNCHANGED <<now, policyRef, policies, wlVars, gate, wouldRestart,
                   recVars, expVars, budget, sendVars, overwritten>>

SyncWorkload(w) ==
    /\ w \in stalled
    /\ stalled' = stalled \ {w}
    /\ workloadCache' = [workloadCache EXCEPT ![w] = workloads[w]]
    /\ UNCHANGED <<now, policyRef, policies, policyCache, workloads, gate,
                   wouldRestart, queue, recVars, expVars, budget, sendVars,
                   overwritten>>

UserEdit(p, pol) ==
    /\ Chance("edits")
    /\ Store(p, pol)
    /\ queue' = queue \cup Event(p)
    /\ UNCHANGED <<now, wlVars, gate, wouldRestart, recVars, expVars, delayed,
                   ours>>

CreatePolicy(p) ==
    /\ ~Present(policies[p])
    /\ \E mode \in Modes : UserEdit(p, NewPolicy(mode, policies[p].rv + 1))
    /\ UNCHANGED <<dispatches, overwritten>>

EditMode(p) ==
    /\ Present(policies[p])
    /\ UserEdit(p, [policies[p] EXCEPT !.dryRun = ~@, !.rv = @ + 1])
    /\ UNCHANGED <<dispatches, overwritten>>

\* Deletion waits for the finalizer.
DeletePolicy(p) ==
    /\ policies[p].phase = "live"
    /\ UserEdit(p, IF policies[p].finalizer
                   THEN [policies[p] EXCEPT !.phase = "deleting", !.rv = @ + 1]
                   ELSE [NoPolicy EXCEPT !.rv = policies[p].rv + 1])
    /\ ForgottenIfGone(p)

ChangeWorkload(w, obj) ==
    /\ StoreWorkload(w, obj)
    /\ UNCHANGED <<now, apiVars, gate, wouldRestart, queue, recVars, expVars,
                   delayed, dispatches, overwritten>>

ExternalRollout(w) ==
    /\ workloads[w].exists
    /\ Chance("rollouts")
    /\ ChangeWorkload(w, NewTemplate(workloads[w]))
    /\ ours' = [ours EXCEPT ![w] = None]

Disturb(w) ==
    /\ workloads[w].exists /\ workloads[w].state = "settled"
    /\ Chance("disturbs")
    /\ ChangeWorkload(w, Disturbed(workloads[w]))
    /\ UNCHANGED ours

DeleteWorkload(w) ==
    /\ workloads[w].exists
    /\ Chance("recreates")
    /\ ChangeWorkload(w, Deleted(workloads[w]))
    /\ ours' = [ours EXCEPT ![w] = None]

RecreateWorkload(w) ==
    /\ ~workloads[w].exists
    /\ ChangeWorkload(w, Recreated(workloads[w]))
    /\ UNCHANGED <<ours, budget>>

ChangeStrategy(w) ==
    /\ w \in StatefulSets
    /\ workloads[w].exists
    /\ Chance("edits")
    /\ ChangeWorkload(w, [workloads[w] EXCEPT !.onDelete = ~@])
    /\ UNCHANGED ours

Progress(w) ==
    /\ workloads[w].exists /\ workloads[w].state # "settled"
    /\ ChangeWorkload(w, Progressed(workloads[w]))
    /\ ours' = IF workloads[w].state = "rolling"
               THEN [ours EXCEPT ![w] = None] ELSE ours
    /\ UNCHANGED budget

Tick ==
    /\ now < MaxTime
    /\ now' = now + 1
    /\ UNCHANGED <<apiVars, wlVars, gate, wouldRestart, queue, recVars,
                   expVars, budget, sendVars, overwritten>>

\* The leader dies; another replica, with empty memory and caches that have
\* caught up, reconciles every policy.  The patch the old leader was sending
\* may reach the cluster later (the last such patch of a policy is kept).
Failover ==
    /\ Chance("crashes")
    /\ gate' = EmptyGate
    /\ wouldRestart' = EmptyGate
    /\ ResetRec
    /\ expPC' = "idle" /\ expNow' = 0 /\ expTodo' = {} /\ expKeys' = {}
    /\ expList' = [p \in Policies |-> NoPolicy]
    /\ queue' = {p \in Policies : Present(policies[p])}
    /\ policyCache' = policies
    /\ workloadCache' = workloads
    /\ stalled' = {}
    /\ \/ UNCHANGED delayed
       \/ /\ recPC = "dispatch"
          /\ delayed' = [delayed EXCEPT ![recKey] = OurRestart]
    /\ UNCHANGED <<now, policyRef, policies, workloads, dispatches, ours,
                   overwritten>>

\* The patch of a former leader lands.
LateDispatch(p) ==
    /\ delayed[p] # None
    /\ Landed(p, delayed[p])
    /\ delayed' = [delayed EXCEPT ![p] = None]
    /\ UNCHANGED <<now, apiVars, gate, wouldRestart, queue, recVars, expVars,
                   budget, overwritten>>

Environment ==
    \/ \E p \in Policies : \/ SampleEvent(p) \/ Stall(p) \/ SyncPolicy(p)
                           \/ CreatePolicy(p) \/ EditMode(p) \/ DeletePolicy(p)
                           \/ LateDispatch(p)
    \/ \E w \in Workloads : \/ SyncWorkload(w) \/ ExternalRollout(w)
                            \/ Disturb(w) \/ DeleteWorkload(w)
                            \/ RecreateWorkload(w) \/ ChangeStrategy(w)
                            \/ Progress(w)
    \/ \E w \in Workloads \ Rollouts : Stall(w)
    \/ Tick
    \/ Failover

Next == Reconcile \/ Expirer \/ Environment

Spec == Init /\ [][Next]_vars
=============================================================================
