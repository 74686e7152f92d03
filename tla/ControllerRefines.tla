------------------------- MODULE ControllerRefines -------------------------
(***************************************************************************)
(* The controller implements the restart protocol: every step of every     *)
(* goroutine, user and failure is a step of RestartProtocol or leaves the  *)
(* mapped state alone.                                                     *)
(***************************************************************************)
EXTENDS ControllerProperties

BookView ==
    [p \in Policies |->
        LET st == IF p \in overwritten THEN InitStatus ELSE policies[p].status
        IN  [uid |-> st.uid, lastRestartAt |-> st.lastRestartAt,
             restartCount |-> st.restartCount,
             windowStart |-> st.windowStart, version |-> st.version]]

\* A reconcile past PersistRestart holds the leader's pending restart.
Sending(p) == recPC = "dispatch" /\ recKey = p

PendingView ==
    [p \in Policies |->
        [h \in {"leader", "former"} |->
            CASE p \in overwritten                   -> None
              [] p \notin overwritten /\ h = "former" -> delayed[p]
              [] p \notin overwritten /\ h = "leader" ->
                     IF Sending(p) THEN OurRestart ELSE None]]

SentView ==
    [p \in Policies |-> IF p \in overwritten THEN <<>> ELSE dispatches[p]]

Protocol == INSTANCE RestartProtocol
              WITH book <- BookView, pending <- PendingView,
                   sent <- SentView, lapsed <- overwritten

\* The controller keeps the restart protocol: a restart is booked against the
\* durable status before it is sent and sent at most once per booking, through
\* lost responses, retries, conflicting writes, recreated workloads, failovers
\* and the late patch of a leader that is gone (reconciler.go:325-334).
KeepsProtocol == Protocol!ProtocolSpec

-----------------------------------------------------------------------------
\* The inductive invariant the refinement needs besides IInv.  UIDs are never
\* reused and no status or read is ahead of the cache, so a reconcile only
\* ever adopts a newer object; past PersistAdopt it acts for the adopted one.
Adopted == {"settle", "persistDone", "detect", "guard", "dryRun",
            "persistRestart", "dispatch"}

Known(p, st) == st.uid <= workloadCache[policyRef[p]].uid

CacheUids ==
    \A w \in Workloads : /\ workloadCache[w].uid # 0
                         /\ workloadCache[w].uid <= workloads[w].uid

ApiUids ==
    \A p \in Policies : /\ Known(p, policies[p].status)
                        /\ Known(p, policyCache[p].status)

ExpUids == \A p \in Policies : Known(p, expList[p].status)

RecUids ==
    /\ recPC # "idle" => Known(recKey, recPol.status)
    /\ recPC \in Adopted \cup {"persistAdopt"} =>
          recWl.uid # 0 /\ recWl.uid <= workloadCache[RecWorkload].uid
    /\ recPC = "persistAdopt" => recPol.status.uid < recWl.uid
    /\ recPC \in Adopted => recPol.status.uid = recWl.uid

\* A policy that does not exist has no bookkeeping.
AbsentIsNew ==
    \A p \in Policies : ~Present(policies[p]) => policies[p].status = InitStatus

UidInv == CacheUids /\ ApiUids /\ ExpUids /\ RecUids /\ AbsentIsNew
=============================================================================
