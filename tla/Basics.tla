------------------------------- MODULE Basics -------------------------------
(***************************************************************************)
(* What the modules of the project share: times, absent values and the     *)
(* workload keys (WorkloadKey: kind/namespace/name).                       *)
(***************************************************************************)
EXTENDS Naturals, FiniteSets

CONSTANTS
    None,        \* Go's nil pointer, empty string or missing map entry
    Workloads    \* the keys of the workloads in the cluster

ASSUME BasicsAssumption ==
    /\ None \notin Nat
    /\ IsFiniteSet(Workloads)

Time    == Nat
OptTime == Time \cup {None}
=============================================================================
