----------------------------- MODULE SampleStore -----------------------------
(***************************************************************************)
(* internal/sampling/buffer.go: the bounded series of samples per          *)
(* container.  A store maps every key to its series, or to None.  Every    *)
(* operation holds the store's mutex, so each operator is one atomic step. *)
(***************************************************************************)
EXTENDS LeakDetector

CONSTANTS
    Keys,         \* the monitored containers: namespace, pod, container
    WindowFlag,   \* --window
    SampleEvery   \* --sample-interval

ASSUME StoreAssumption ==
    /\ WindowFlag \in Nat
    /\ SampleEvery \in Nat \ {0}

EmptyStore == [k \in Keys |-> None]

retention == 2 * WindowFlag + SampleEvery

\* Variant: no room beyond the default window.
maxLenTight == WindowFlag \div SampleEvery

\* main.go's cap; NewStore would raise it to 2.
maxLen == WindowFlag \div SampleEvery + 8

\* Samples at the front that are older than the retention.
TooOld(samples, now) ==
    Cardinality({i \in DOMAIN samples :
                    \A j \in 1 .. i : samples[j].time + retention < now})

\* Variant: a restart of the container goes unnoticed.
ObserveNoReset(ser, sample, restarts) ==
    LET kept == IF ser = None THEN <<>> ELSE ser.samples
        all  == Append(kept, sample)
        drop == Max({TooOld(all, sample.time), Len(all) - maxLen})
    IN  [samples |-> SubSeq(all, drop + 1, Len(all)), lastRestarts |-> restarts]

\* Variant: samples are trimmed by the cap only.
ObserveNoTrim(ser, sample, restarts) ==
    LET kept == IF ser = None \/ restarts > ser.lastRestarts THEN <<>>
                ELSE ser.samples
        all  == Append(kept, sample)
        drop == Max({0, Len(all) - maxLen})
    IN  [samples |-> SubSeq(all, drop + 1, Len(all)), lastRestarts |-> restarts]

\* The series after Observe: reset when the restart count went up, then
\* trimmed at the front by age and by the cap.
Observe(ser, sample, restarts) ==
    LET kept == IF ser = None \/ restarts > ser.lastRestarts THEN <<>>
                ELSE ser.samples
        all  == Append(kept, sample)
        drop == Max({TooOld(all, sample.time), Len(all) - maxLen})
    IN  [samples |-> SubSeq(all, drop + 1, Len(all)), lastRestarts |-> restarts]

\* Store.WindowCovered
Covered(ser, window, now) ==
    ser # None /\ WindowCovered(ser.samples, window, now)

Samples(ser) == IF ser = None THEN <<>> ELSE ser.samples

Prune(store, live) == [k \in Keys |-> IF k \in live THEN store[k] ELSE None]
=============================================================================
