------------------------ MODULE ControllerProperties ------------------------
(***************************************************************************)
(* What the composed controller promises: invariants, action properties    *)
(* and liveness of the module Controller.                                  *)
(***************************************************************************)
EXTENDS Controller

\* Every copy of a policy status that some goroutine may act on or write back.
Copies ==
    {policies[p].status : p \in Policies}
        \cup {policyCache[p].status : p \in Policies}
        \cup {expList[p].status : p \in Policies}
        \cup {recPol.status}

\* In every copy of a status the in-flight marker names the last history
\* record and that record is open, and without a marker the last record is
\* closed: CompleteInFlight, called by two goroutines on copies of different
\* age, always stamps the record of the rollout it closes.
MarkerMatchesHistory == \A st \in Copies : MarkerAgrees(st)

\* No copy counts more than maxRestartsPerWindow restarts in a window, and the
\* history keeps to its limit, whatever is retried, overwritten or lost
\* between BreakerTripped and ApplyRestart.
BreakerRespected == \A st \in Copies : BreakerBounded(st)

\* The gate never hands out more slots than the global cap, although it is
\* filled from two places of Reconcile and emptied by two goroutines.
CapRespected == Cap > 0 => Cardinality(Held(gate)) <= Cap

\* A held slot belongs to a policy that still has its finalizer, so that some
\* later reconcile can give it back (PolicyFinalizer's purpose: "without it a
\* policy deleted mid-rollout would strand its slot").
SlotHasPolicy ==
    \A w \in Workloads : Holds(gate, w) =>
        \E p \in Policies : /\ policyRef[p] = w
                            /\ Present(policies[p])
                            /\ policies[p].finalizer

\* The breaker over-counts rather than under-counts: of the restarts that
\* reached the cluster, those in the status's window, at its version and UID
\* are no more than restartCount says (unless a conflict retry overwrote the
\* bookkeeping).
Counted(p) ==
    LET st == policies[p].status
    IN  st.windowStart # None =>
            Cardinality({i \in DOMAIN dispatches[p] :
                            /\ dispatches[p][i].uid = st.uid
                            /\ SameVersion(dispatches[p][i].version, st.version)
                            /\ dispatches[p][i].at >= st.windowStart})
                <= st.restartCount

DispatchesCounted == \A p \in Policies \ overwritten : Counted(p)

\* Two restarts of the same workload object for one policy are at least the
\* cooldown apart, across failed dispatches, lost responses and failovers.
CooldownRespected ==
    \A p \in Policies \ overwritten : \A i, j \in DOMAIN dispatches[p] :
        i # j /\ dispatches[p][i].uid = dispatches[p][j].uid =>
            \/ dispatches[p][j].at >= dispatches[p][i].at + Cooldown
            \/ dispatches[p][i].at >= dispatches[p][j].at + Cooldown

\* A template other than the one deployed as v was deployed after it, u being
\* the last deployment.  A rollback may have brought the template of v back.
Replaced(v, u) ==
    u # None /\ (v = None \/ \E r \in (v + 1) .. u : ~SameVersion(v, r))

\* A record says Superseded only if the workload did move on from what was
\* restarted: it is gone, it is another object, or another template was
\* deployed since, even if that one has been undone by now.  Reconciler and
\* expirer decide so on caches and copies of different age, and may both close
\* the same marker.  (A Rollout that had published no hash when it was
\* restarted has moved on once it has one.)
SupersededIsReal ==
    \A p \in Policies :
        LET st == policies[p].status
            w == policyRef[p]
        IN  \A i \in DOMAIN st.history :
                st.history[i].outcome = "Superseded" =>
                    \/ ~workloads[w].exists
                    \/ workloads[w].uid # st.uid
                    \/ Replaced(st.history[i].version,
                                TemplateVersion(w, workloads[w]))

\* A record says Settled only if its restart reached the cluster: a failed
\* dispatch leaves a marker behind but is never reported as a success.
SettledIsReal ==
    \A p \in Policies \ overwritten : \A i \in DOMAIN policies[p].status.history :
        LET r == policies[p].status.history[i]
        IN  r.outcome = "Settled" =>
                \E d \in DOMAIN dispatches[p] : dispatches[p][d].at = r.at

\* While a rollout we dispatched is unfinished and younger than the timeout,
\* its workload holds a slot, so the cap bounds the rollouts and not just the
\* slots.  Not so once its policy is being deleted, nor for a workload that
\* two policies share: a stale marker of one, timing out, frees the slot that
\* the other's rollout holds.
Managers(w) == {p \in Policies : policyRef[p] = w}

RolloutHoldsSlot ==
    \A w \in Workloads :
        /\ ours[w] # None
        /\ now < ours[w] + Timeout
        /\ \E p \in Policies : Managers(w) = {p} /\ policies[p].phase = "live"
        => Holds(gate, w)

\* The leader in office sends no real restart while the policy's status
\* announces dry-run mode.  (The patch of a leader that died, which leaves
\* `delayed` when it lands, may be overtaken by a change of mode.)
DispatchOnlyWhenEnforcing ==
    [][\A p \in Policies \ overwritten :
          Len(dispatches'[p]) > Len(dispatches[p]) /\ UNCHANGED delayed[p]
              => ~policies[p].status.dryRun]_vars

\* A restart is never stacked on a rollout in progress: at the moment of the
\* patch the workload is fully rolled out.
NoStackedRestart ==
    [][\A p \in Policies :
          Len(dispatches'[p]) > Len(dispatches[p])
              => workloads[policyRef[p]].state = "settled"]_vars

-----------------------------------------------------------------------------
\* The inductive invariant behind TypeOK, MarkerMatchesHistory,
\* BreakerRespected and CapRespected.  Each copy of a policy carries a status
\* that is consistent by itself, so a copy may be arbitrarily old; the only
\* fact that spans two steps is that a reconcile past Detect holds a status
\* that allows a restart at the version and time it acts on.

GoodStatus == {st \in Status : MarkerAgrees(st) /\ BreakerBounded(st)}
GoodPolicy == {pol \in PolicyObject : pol.status \in GoodStatus}

ApiInv ==
    /\ policyRef \in [Policies -> Workloads]
    /\ policies \in [Policies -> GoodPolicy]
    /\ policyCache \in [Policies -> GoodPolicy]
    /\ stalled \subseteq Policies \cup Workloads

WlInv ==
    /\ workloads \in [Workloads -> WorkloadObject]
    /\ workloadCache \in [Workloads -> WorkloadObject]

GateInv ==
    /\ gate \in Gates
    /\ CapRespected

GuardsPassed ==
    /\ ~InCooldown(recPol.status, recNow)
    /\ ~BreakerTripped(recPol.status, TemplateVersion(RecWorkload, recWl), recNow)

RecInv ==
    /\ recPC \in RecPCs
    /\ recKey \in Policies \cup {None}
    /\ recPC # "idle" => recKey \in Policies
    /\ recPol \in GoodPolicy
    /\ recWl \in WorkloadObject
    /\ recNow \in Time
    /\ recPC \in {"guard", "persistRestart"} => GuardsPassed

ExpInv ==
    /\ expPC \in ExpPCs
    /\ expNow \in Time
    /\ expList \in [Policies -> GoodPolicy]
    /\ expTodo \subseteq Policies
    /\ expKeys \subseteq Workloads

EnvInv ==
    /\ now \in Time
    /\ wouldRestart \in Gates
    /\ queue \subseteq Policies
    /\ budget \in [Chances -> Nat]
    /\ delayed \in [Policies -> Restart \cup {None}]
    /\ dispatches \in [Policies -> Seq(Restart)]
    /\ ours \in [Workloads -> OptTime]
    /\ overwritten \subseteq Policies

\* The conjunction: it holds initially and every step preserves it.
IInv == ApiInv /\ WlInv /\ GateInv /\ RecInv /\ ExpInv /\ EnvInv

-----------------------------------------------------------------------------
\* Statements of the repository's comments and documents that some run refutes.

\* gate.go:4-5, the cap is "reconciled from cluster state on leader start": at
\* most Cap of the controller's own rollouts, younger than the timeout, are
\* unfinished at the same time.
InFlightWithinCap ==
    Cap > 0 => Cardinality({w \in Workloads : /\ ours[w] # None
                                              /\ now < ours[w] + Timeout}) <= Cap

\* reconciler.go:325-327, "we have over-counted (safe) rather than
\* under-counted": DispatchesCounted without its exception.
NeverUnderCounted == \A p \in Policies : Counted(p)

-----------------------------------------------------------------------------
\* Fairness.  The worker and the expirer goroutine keep running; the
\* workqueue is FIFO, so a queued key is taken although others are queued
\* again and again; the clock advances; informers catch up.  Users and
\* workload controllers owe nothing: a rollout may be stuck for ever.
Working ==
    \/ Finalize \/ AddFinalizer \/ PersistMode \/ GetWorkload \/ PersistAdopt
    \/ Settle \/ PersistDone \/ Detect \/ Guard \/ DryRun \/ PersistRestart
    \/ Dispatch

Fairness ==
    /\ WF_vars(Working)
    /\ \A p \in Policies : SF_vars(GetPolicy(p)) /\ WF_vars(SyncPolicy(p))
    /\ \A w \in Workloads : WF_vars(SyncWorkload(w))
    /\ WF_vars(Expirer)
    /\ WF_vars(Tick)

FairSpec == Spec /\ Fairness

\* A slot is given back, however stuck the rollout: it cannot consume global
\* capacity for ever.
SlotReleased ==
    \A w \in Workloads : Holds(gate, w) ~> ~Holds(gate, w)

\* A recorded rollout is eventually closed.
MarkerCleared ==
    \A p \in Policies :
        policies[p].status.inFlight # None ~> policies[p].status.inFlight = None

\* A deleted policy is eventually gone: the finalizer does not block it.
DeletionCompletes ==
    \A p \in Policies :
        policies[p].phase = "deleting" ~> policies[p].phase # "deleting"
=============================================================================
