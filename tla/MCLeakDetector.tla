--------------------------- MODULE MCLeakDetector ---------------------------
(***************************************************************************)
(* The detectors checked against reference definitions on every series of  *)
(* up to MaxLen samples with small gaps and values.                        *)
(***************************************************************************)
EXTENDS LeakDetector

CONSTANTS
    MaxLen,                     \* bound on the length of a series
    Gaps, Values, Limit,        \* gaps between samples, their bytes, their limit
    WindowLengths, Growths,     \* of the configurations
    Percents, Absolutes

ASSUME DetectorAssumption ==
    /\ Gaps \subseteq Nat /\ Values \subseteq Nat /\ Limit \in Nat
    /\ WindowLengths \subseteq Nat /\ Growths \subseteq Nat
    /\ Percents \subseteq Nat /\ Absolutes \subseteq Nat \cup {None}

VARIABLES samples, now

vars == <<samples, now>>

\* A series grows at its end; `now` may be later than the last sample.
Init == samples = <<>> /\ now = 0

Observe ==
    /\ Len(samples) < MaxLen
    /\ \E gap \in Gaps, v \in Values :
        /\ now' = now + gap
        /\ samples' = Append(samples, [time |-> now + gap, workingSet |-> v,
                                       limit |-> Limit])

Wait ==
    /\ samples # <<>>
    /\ now = samples[Len(samples)].time
    /\ now' = now + 1
    /\ UNCHANGED samples

Next == Observe \/ Wait

Spec == Init /\ [][Next]_vars

\* The sum over all pairs of samples.
PairSum(f) == SumFunction([i \in DOMAIN f |-> SumFunction(f[i])])

\* The reference: growth per window, weighted over all pairs of samples.
Rises(win, window, growth) ==
    LET dt(i, j) == win[i].time - win[j].time
        dw(i, j) == win[i].workingSet - win[j].workingSet
        tw == [i \in DOMAIN win |-> [j \in DOMAIN win |-> dt(i, j) * dw(i, j)]]
        tt == [i \in DOMAIN win |-> [j \in DOMAIN win |-> dt(i, j) * dt(i, j)]]
    IN  /\ PairSum(tw) > 0
        /\ PairSum(tw) * window >= growth * PairSum(tt)

\* olsSlope and trendLeaking agree with the pairwise form of least squares on
\* every series, also with equal timestamps (a zero denominator).
TrendMatchesReference ==
    \A w \in WindowLengths, g \in Growths :
        trendLeaking(samples, DOMAIN samples, [window |-> w, minGrowth |-> g])
            <=> Rises(samples, w, g)

Configs ==
    [mode : DetectionModes, percent : Percents, absolute : Absolutes,
     window : WindowLengths, minGrowth : Growths]

\* A leak is never reported on less than a full window of evidence, in any
\* mode: the samples reach back to now - window, at least two lie inside, and
\* no sample inside the window contradicts the mode (a sustained one is over
\* its threshold throughout, a trend ends above some earlier sample).
LeakHasEvidence ==
    \A d \in Configs :
        Detect(samples, d, now) =>
            LET inside == {i \in DOMAIN samples :
                            samples[i].time \in (now - d.window) .. now}
            IN  /\ \E i \in DOMAIN samples : now - samples[i].time >= d.window
                /\ Cardinality(inside) >= 2
                /\ d.mode # "trend" =>
                     \A i \in inside :
                        IF d.absolute = None
                        THEN 100 * samples[i].workingSet >= d.percent * Limit
                        ELSE samples[i].workingSet >= d.absolute
                /\ d.mode # "sustained" =>
                     \E i, j \in inside :
                        /\ samples[i].time < samples[j].time
                        /\ samples[i].workingSet < samples[j].workingSet

\* Old evidence does not count: what lies before the window never changes the
\* answer as long as the window stays covered (Observe trims old samples).
OldSamplesIgnored ==
    \A d \in Configs :
        \A cut \in 1 .. Len(samples) :
            LET rest == SubSeq(samples, cut, Len(samples))
            IN  /\ cut > 1 => samples[cut - 1].time + d.window < now
                /\ WindowCovered(rest, d.window, now)
                =>
                    (Detect(rest, d, now) <=> Detect(samples, d, now))
=============================================================================
