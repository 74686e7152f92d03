---------------------------- MODULE MCController ----------------------------
(***************************************************************************)
(* Small instances of Controller for TLC.                                  *)
(***************************************************************************)
EXTENDS ControllerRefines

CONSTANTS p1, p2, w1, w2

\* Each policy manages a workload of its own, or both manage the same.
Own    == [p \in Policies |-> IF p = p1 THEN w1 ELSE w2]
Shared == [p \in Policies |-> w1]

MCOwn      == {Own}
MCPolicyRefs == {Own, Shared}

\* The third deployment undoes the second.
Undone == <<1, 2, 1>>

\* What the environment may do in each run.
Allow(f) == [c \in Chances |-> IF c \in DOMAIN f THEN f[c] ELSE 0]

MCQuiet    == {Allow(<<>>)}
MCCrash    == {Allow([crashes |-> 1])}
MCFaults   == {Allow([faults |-> 1]), Allow([edits |-> 2])}
MCFailover == {Allow([crashes |-> 1, rollouts |-> 1]),
               Allow([rollouts |-> 2]), Allow([recreates |-> 1]),
               Allow([faults |-> 1, disturbs |-> 1])}
MCLive     == {Allow([edits |-> 1, faults |-> 1]), Allow([lags |-> 1])}
=============================================================================
