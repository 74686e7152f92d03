------------------------------ MODULE Workload ------------------------------
(***************************************************************************)
(* The workload objects the controller reads and patches (Deployment,      *)
(* StatefulSet, Argo Rollout), as internal/restart/restart.go and          *)
(* TemplateVersion of breaker.go see them, and the steps by which their    *)
(* owners and the workload controllers change them.                        *)
(*                                                                         *)
(* A template is the number of its deployment; Fingerprint says which of   *)
(* them fingerprintTemplate, or currentPodHash, cannot tell apart (the     *)
(* restartedAt annotation is no part of either).  `state` abstracts the    *)
(* spec generation and the status counters:                                *)
(*   "requested"  the spec changed and no controller has observed it       *)
(*   "rolling"    observed, not every replica updated and available        *)
(*   "settled"    fully rolled out                                         *)
(***************************************************************************)
EXTENDS Basics

CONSTANTS
    StatefulSets, Rollouts,   \* the keys of these kinds; others: Deployment
    RolloutReportsGeneration  \* Argo reports an integer observedGeneration

ASSUME WorkloadAssumption ==
    /\ StatefulSets \subseteq Workloads
    /\ Rollouts \subseteq Workloads
    /\ StatefulSets \cap Rollouts = {}
    /\ RolloutReportsGeneration \in BOOLEAN

States == {"requested", "rolling", "settled"}

WorkloadObject ==
    [exists   : BOOLEAN,
     uid      : Nat,            \* kept when deleted, so that UIDs are not reused
     template : Nat,            \* the number of its deployment
     podHash  : Nat \cup {None},  \* Rollout status.currentPodHash
     state    : States,
     onDelete : BOOLEAN]        \* StatefulSet updateStrategy OnDelete

InitWorkload ==
    [exists |-> TRUE, uid |-> 1, template |-> 1, podHash |-> 1,
     state |-> "settled", onDelete |-> FALSE]

-----------------------------------------------------------------------------

\* A Deployment or StatefulSet is identified by its template's fingerprint, a
\* Rollout by the pod hash its controller last published.
TemplateVersion(w, obj) ==
    IF w \in Rollouts THEN obj.podHash ELSE obj.template

\* IsSettled would return ErrNotAutoRestartable.
NotAutoRestartable(w, obj) == w \in StatefulSets /\ obj.onDelete

\* Variant: the generation is not compared.
IsSettledUnobserved(w, obj) == obj.state # "rolling"

\* Deployments and StatefulSets compare observedGeneration with generation.
\* For a Rollout the comparison is skipped when observedGeneration is absent
\* or not an integer, and then a phase Healthy from before the spec change
\* still counts.
IsSettled(w, obj) ==
    IF w \in Rollouts /\ ~RolloutReportsGeneration
    THEN obj.state # "rolling"
    ELSE obj.state = "settled"

\* Dispatch's merge patch: restartedAt on the template, or spec.restartAt on
\* a Rollout.  The generation moves, the template's fingerprint does not.
Restarted(obj) == [obj EXCEPT !.state = "requested"]

-----------------------------------------------------------------------------
\* What others do to a workload (external to this repository).

\* Another template is deployed; with the Fingerprint of an earlier one it is
\* a rollback (kubectl rollout undo, a revert in Git).
NewTemplate(obj) ==
    [obj EXCEPT !.template = @ + 1, !.state = "requested"]

\* The workload controller observes the spec, then finishes the rollout.
Progressed(obj) ==
    [obj EXCEPT !.podHash = obj.template,
                !.state = IF obj.state = "requested" THEN "rolling"
                          ELSE "settled"]

\* A scale or an eviction: unsettled again at an unchanged template.
Disturbed(obj) == [obj EXCEPT !.state = "rolling"]

Deleted(obj) == [obj EXCEPT !.exists = FALSE]

Recreated(obj) ==
    [obj EXCEPT !.exists = TRUE, !.uid = @ + 1, !.podHash = None,
                !.state = "rolling"]
=============================================================================
