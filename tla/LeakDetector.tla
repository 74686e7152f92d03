---------------------------- MODULE LeakDetector ----------------------------
(***************************************************************************)
(* internal/sampling/detect.go: the pure functions that decide whether a   *)
(* series of memory samples, oldest first, is a leak.                      *)
(*                                                                         *)
(* Times and bytes are numbers.  The regression is done with integers: the *)
(* slope is a fraction Numerator/Denominator, and the truncation of the    *)
(* projected growth does not matter against an integer minimum.  The texts *)
(* of Result (Reason, Observed, Threshold) are left out.                   *)
(***************************************************************************)
EXTENDS Integers, Sequences, FiniteSetsExt, Functions

CONSTANT None   \* an unset quantity

Sample == [time : Nat, workingSet : Nat, limit : Nat]   \* limit 0: unset

DetectionModes == {"sustained", "trend", "combined"}

Detection ==
    [mode : DetectionModes, percent : Nat, absolute : Nat \cup {None},
     window : Nat, minGrowth : Nat]

-----------------------------------------------------------------------------

\* An absolute cap takes precedence over the percentage of the limit.
exceeds(s, d) ==
    IF d.absolute # None
    THEN s.workingSet >= d.absolute
    ELSE s.limit > 0 /\ s.workingSet * 100 >= s.limit * d.percent

\* Variant: the whole series is evaluated.
WindowSamplesWhole(samples, window, now) == DOMAIN samples

\* The indices of the samples in [now - window, now].
WindowSamples(samples, window, now) ==
    {i \in DOMAIN samples : samples[i].time + window >= now}

\* Variant: two samples are enough.
WindowCoveredByTwo(samples, window, now) == Len(samples) >= 2

\* The warm-up guard: the oldest sample is at least a window old.
WindowCovered(samples, window, now) ==
    Len(samples) >= 2 /\ samples[1].time + window <= now

allExceed(samples, win, d) == \A i \in win : exceeds(samples[i], d)

\* The least-squares fit over the samples win; x is the time since the first of
\* them.
Elapsed(samples, win) ==
    [i \in win |-> samples[i].time - samples[Min(win)].time]

UsedBytes(samples, win) == [i \in win |-> samples[i].workingSet]

\* The sum of the products f[i] * g[i].
SumOfProducts(f, g) == SumFunction([i \in DOMAIN f |-> f[i] * g[i]])

\* Variant: the product of the sums is not subtracted.
NumeratorUncentred(samples, win) ==
    LET x == Elapsed(samples, win)
        y == UsedBytes(samples, win)
    IN  Cardinality(win) * SumOfProducts(x, y)

Numerator(samples, win) ==
    LET x == Elapsed(samples, win)
        y == UsedBytes(samples, win)
    IN  Cardinality(win) * SumOfProducts(x, y) - SumFunction(x) * SumFunction(y)

Denominator(samples, win) ==
    LET x == Elapsed(samples, win)
    IN  Cardinality(win) * SumOfProducts(x, x) - SumFunction(x) * SumFunction(x)

\* Variant: a falling series counts as well.
trendLeakingAbsolute(samples, win, d) ==
    LET num == IF Numerator(samples, win) < 0 THEN 0 - Numerator(samples, win)
               ELSE Numerator(samples, win)
    IN  /\ Denominator(samples, win) # 0
        /\ num > 0
        /\ num * d.window >= d.minGrowth * Denominator(samples, win)

\* The fitted line rises by at least minGrowth over one window.
trendLeaking(samples, win, d) ==
    /\ Denominator(samples, win) # 0
    /\ Numerator(samples, win) > 0
    /\ Numerator(samples, win) * d.window >= d.minGrowth * Denominator(samples, win)

Detect(samples, d, now) ==
    LET win == WindowSamples(samples, d.window, now)
    IN  /\ WindowCovered(samples, d.window, now)
        /\ Cardinality(win) >= 2
        /\ d.mode # "trend" => allExceed(samples, win, d)
        /\ d.mode # "sustained" => trendLeaking(samples, win, d)
=============================================================================
