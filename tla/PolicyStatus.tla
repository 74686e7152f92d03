---------------------------- MODULE PolicyStatus ----------------------------
(***************************************************************************)
(* The durable state the controller folds into MemoryLeakPolicy.status and *)
(* the pure functions of internal/restart/breaker.go that read and update  *)
(* it: cooldown, circuit breaker, in-flight marker, bounded history.       *)
(*                                                                         *)
(* Times are natural numbers of one unit (the API stores whole seconds).   *)
(* A pod-template version is the number of the template's deployment, and  *)
(* two deployments of one Fingerprint are the same version to the code     *)
(* (SameVersion); None stands for Go's nil pointer and for the empty       *)
(* string.  CompletedAt is set exactly when Outcome      *)
(* leaves "InProgress", so a history record keeps only its outcome.  The   *)
(* write-only links are left out: lastProfile is in Reporting, and nothing *)
(* reads lastNotification.                                                 *)
(***************************************************************************)
EXTENDS Basics, Sequences

CONSTANTS
    Window,        \* restartWindow, the breaker's window
    MaxRestarts,   \* maxRestartsPerWindow; 0 disables the breaker
    Cooldown,      \* minimum distance of two restarts
    HistoryLimit,  \* RestartHistoryLimit (10 in the code)
    Fingerprint    \* what the code compares of the n-th deployed template

Outcomes == {"InProgress", "Settled", "Superseded", "TimedOut"}
Terminal == Outcomes \ {"InProgress"}

Version == Nat \cup {None}
Uid     == Nat                       \* 0 is the empty UID

RestartRecord == [at : Time, version : Version, outcome : Outcomes]
Marker        == [at : Time, version : Version]

Status ==
    [uid           : Uid,
     lastRestartAt : OptTime,
     restartCount  : Nat,
     windowStart   : OptTime,
     version       : Version,
     inFlight      : Marker \cup {None},
     history       : Seq(RestartRecord),
     dryRun        : BOOLEAN,
     tripped       : BOOLEAN,
     remaining     : Nat,
     nextEligible  : OptTime,
     rolling       : BOOLEAN]         \* condition RolloutInProgress = True

\* A restart of one workload object, as lastRestartAt, workloadUID and version
\* of the status record it.
Restart == [at : Time, uid : Uid, version : Version]

ASSUME StatusAssumption ==
    /\ Window \in Nat \ {0}        \* CRD: restartWindow must be positive
    /\ MaxRestarts \in Nat
    /\ Cooldown \in Nat
    /\ HistoryLimit \in Nat \ {0}
    /\ None \notin Marker
    /\ None \notin Restart

\* The status of a freshly created policy: every field has Go's zero value.
InitStatus ==
    [uid |-> 0, lastRestartAt |-> None, restartCount |-> 0,
     windowStart |-> None, version |-> None, inFlight |-> None,
     history |-> <<>>, dryRun |-> FALSE, tripped |-> FALSE, remaining |-> 0,
     nextEligible |-> None, rolling |-> FALSE]

-----------------------------------------------------------------------------

\* The equality of fingerprints, or of pod hashes.  Only the code's versions
\* are compared with it: an undone rollout restores the earlier version.
SameVersion(v, u) ==
    v = u \/ (None \notin {v, u} /\ Fingerprint[v] = Fingerprint[u])

\* The stored breaker window is still the active one at `now`.
sameWindow(st, ver, now) ==
    /\ st.windowStart # None
    /\ now < st.windowStart + Window
    /\ st.version = None \/ SameVersion(st.version, ver)

\* Variant: one restart too many.
BreakerTrippedLate(st, ver, now) ==
    /\ MaxRestarts > 0
    /\ sameWindow(st, ver, now)
    /\ st.restartCount > MaxRestarts

\* Another restart at `now` would exceed the maximum of the active window.
BreakerTripped(st, ver, now) ==
    /\ MaxRestarts > 0
    /\ sameWindow(st, ver, now)
    /\ st.restartCount >= MaxRestarts

\* Variant: the cooldown is only observed while a rollout is in flight.
InCooldownWhileRolling(st, now) ==
    /\ st.inFlight # None
    /\ now < st.lastRestartAt + Cooldown

\* The workload was restarted less than the cooldown ago.
InCooldown(st, now) ==
    /\ st.lastRestartAt # None
    /\ now < st.lastRestartAt + Cooldown

\* Variant: the wrong end is cut off.
OldestKept(h) ==
    IF Len(h) > HistoryLimit THEN SubSeq(h, 1, HistoryLimit) ELSE h

\* The newest HistoryLimit records.
Newest(h) ==
    IF Len(h) > HistoryLimit
    THEN SubSeq(h, Len(h) - HistoryLimit + 1, Len(h))
    ELSE h

\* Variant: an active window is extended but not counted.
ApplyRestartUncounted(st, ver, now) ==
    LET same == sameWindow(st, ver, now)
    IN  [st EXCEPT
            !.restartCount  = IF same THEN st.restartCount ELSE 1,
            !.windowStart   = IF same THEN st.windowStart ELSE now,
            !.lastRestartAt = now,
            !.version       = ver,
            !.history       = Newest(Append(st.history,
                                [at |-> now, version |-> ver,
                                 outcome |-> "InProgress"])),
            !.inFlight      = [at |-> now, version |-> ver],
            !.rolling       = TRUE]

\* Record a restart at `now` of a workload whose template is at `ver`.
ApplyRestart(st, ver, now) ==
    LET same == sameWindow(st, ver, now)
    IN  [st EXCEPT
            !.restartCount  = IF same THEN st.restartCount + 1 ELSE 1,
            !.windowStart   = IF same THEN st.windowStart ELSE now,
            !.lastRestartAt = now,
            !.version       = ver,
            !.history       = Newest(Append(st.history,
                                [at |-> now, version |-> ver,
                                 outcome |-> "InProgress"])),
            !.inFlight      = [at |-> now, version |-> ver],
            !.rolling       = TRUE]

\* Variant: the record gets the marker's phase instead of the outcome.
CompleteWithPhase(st, outcome) ==
    LET n == Len(st.history)
    IN  [st EXCEPT
            !.history = IF n > 0
                        THEN [st.history EXCEPT ![n].outcome = "Dispatched"]
                        ELSE st.history,
            !.inFlight = None,
            !.rolling  = FALSE]

\* Close the last record if it is still open and drop the marker.
CompleteInFlight(st, outcome) ==
    LET n == Len(st.history)
    IN  [st EXCEPT
            !.history = IF n > 0 /\ st.history[n].outcome = "InProgress"
                        THEN [st.history EXCEPT ![n] =
                                [st.history[n] EXCEPT !.outcome = outcome]]
                        ELSE st.history,
            !.inFlight = None,
            !.rolling  = FALSE]

\* Refresh the printer columns.  The version is not consulted here.
RecomputeObservability(st, now) ==
    LET active == st.windowStart # None /\ now < st.windowStart + Window
    IN  [st EXCEPT
            !.tripped   = /\ MaxRestarts > 0
                          /\ active
                          /\ st.restartCount >= MaxRestarts,
            !.remaining = IF active
                          THEN IF MaxRestarts > st.restartCount
                               THEN MaxRestarts - st.restartCount ELSE 0
                          ELSE MaxRestarts,
            !.nextEligible = IF st.lastRestartAt # None
                             THEN st.lastRestartAt + Cooldown
                             ELSE st.nextEligible]

\* Variant: the audit trail of the previous workload is kept.
AdoptKeepsHistory(st, uid) ==
    IF st.uid # 0 /\ st.uid # uid
    THEN [st EXCEPT !.uid = uid, !.lastRestartAt = None, !.restartCount = 0,
                    !.windowStart = None, !.version = None, !.inFlight = None]
    ELSE [st EXCEPT !.uid = uid]

\* Adopt the UID of the live workload; a changed UID drops the bookkeeping
\* (but neither the condition nor the printer columns).
AdoptWorkload(st, uid) ==
    IF st.uid # 0 /\ st.uid # uid
    THEN [st EXCEPT !.uid = uid, !.lastRestartAt = None, !.restartCount = 0,
                    !.windowStart = None, !.version = None,
                    !.inFlight = None, !.history = <<>>]
    ELSE [st EXCEPT !.uid = uid]

-----------------------------------------------------------------------------

\* The in-flight marker and the audit trail agree: a marker belongs to the
\* last history record, which is open, and without a marker the last record
\* is closed (CompleteInFlight relies on this to stamp the right record).
MarkerAgrees(st) ==
    LET n == Len(st.history)
    IN  IF st.inFlight = None
        THEN n = 0 \/ st.history[n].outcome # "InProgress"
        ELSE /\ n > 0
             /\ st.history[n] = [at |-> st.inFlight.at,
                                 version |-> st.inFlight.version,
                                 outcome |-> "InProgress"]

\* The breaker never lets a window count more restarts than its maximum, and
\* the audit trail never outgrows its limit.
BreakerBounded(st) ==
    /\ MaxRestarts > 0 => st.restartCount <= MaxRestarts
    /\ Len(st.history) <= HistoryLimit
=============================================================================
