----------------------------- MODULE MCSampling -----------------------------
(***************************************************************************)
(* Small instances of Sampling for TLC.                                    *)
(***************************************************************************)
EXTENDS Sampling

CONSTANTS p1, k1, DetectionWindow

\* One policy that watches one container with an absolute threshold.
MCTargets == [p \in Policies |-> {k1}]
MCDet == [p \in Policies |-> [mode |-> "sustained", percent |-> 0,
                              absolute |-> 1, window |-> DetectionWindow,
                              minGrowth |-> 0]]

Allow(f) == [c \in Chances |-> IF c \in DOMAIN f THEN f[c] ELSE 0]

MCQuiet == {Allow(<<>>)}
MCAll   == {Allow([faults |-> 1, restarts |-> 1]),
            Allow([restarts |-> 1, replaces |-> 1]),
            Allow([faults |-> 1, crashes |-> 1])}
=============================================================================
