-------------------------------- MODULE Gate --------------------------------
(***************************************************************************)
(* internal/gate/gate.go: the leader's in-memory concurrency control.  A   *)
(* gate maps every workload key to the time its slot was taken, or to None *)
(* when it holds no slot.  Every operation runs under the gate's mutex, so *)
(* each operator below is one atomic step of its caller.                   *)
(***************************************************************************)
EXTENDS Basics

CONSTANT
    Cap   \* global cap; 0 (or less in the code) means unlimited

ASSUME GateAssumption == Cap \in Nat

Gates == [Workloads -> OptTime]

EmptyGate == [w \in Workloads |-> None]

Holds(g, w) == g[w] # None

Held(g) == {w \in Workloads : Holds(g, w)}

\* Variant: the cap is compared one too late.
AcquireOutcomeLate(g, w) ==
    IF Holds(g, w) THEN "in_progress"
    ELSE IF Cap > 0 /\ Cardinality(Held(g)) > Cap THEN "cap"
    ELSE "acquired"

\* TryAcquire's result: a key that holds a slot is refused before the cap.
AcquireOutcome(g, w) ==
    IF Holds(g, w) THEN "in_progress"
    ELSE IF Cap > 0 /\ Cardinality(Held(g)) >= Cap THEN "cap"
    ELSE "acquired"

\* The gate after TryAcquire(w, t), whatever its result.
TryAcquire(g, w, t) ==
    IF AcquireOutcome(g, w) = "acquired" THEN [g EXCEPT ![w] = t] ELSE g

Release(g, w) == [g EXCEPT ![w] = None]

\* Variant: the age is not compared with the timeout.
ExpireEverySlot(g, now, timeout) == [w \in Workloads |-> None]

\* Variant: nothing ever expires.
ExpireNoSlot(g, now, timeout) == g

\* Free the slots taken at least `timeout` ago.
ExpireOlderThan(g, now, timeout) ==
    [w \in Workloads |->
        IF Holds(g, w) /\ now >= g[w] + timeout THEN None ELSE g[w]]
=============================================================================
