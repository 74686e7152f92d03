----------------------------- MODULE Maintenance -----------------------------
(***************************************************************************)
(* internal/maintenance/window.go and the part of Reconcile that defers a  *)
(* restart to the next opening of a window.                                *)
(*                                                                         *)
(* Time counts minutes (coarser in a model: DayLength per day) and day 0   *)
(* is a Sunday.  A time zone is a fixed offset, or None when its name does *)
(* not resolve; daylight saving is not modelled.  The texts of a spec are  *)
(* abstracted to day ranges and minutes of the day.                        *)
(***************************************************************************)
EXTENDS Integers, FiniteSetsExt

CONSTANTS
    None,
    DayLength,        \* minutes per day, 1440 in the code
    ControllerSpecs,  \* choices for the --maintenance-window flag
    PolicySpecs,      \* choices for spec.maintenanceWindows
    RequeueAfter,     \* the fallback delay
    FirstTimes,       \* when the leak may be found first
    MaxTime           \* bound: the last time

Days == 0 .. 6

\* A window as written: ranges of days (a single day is a range of one).
\* "15:04" has no time past the end of the day.
WindowSpec == [ranges : SUBSET (Days \X Days),
               start : 0 .. (DayLength - 1), end : 0 .. (DayLength - 1),
               zone : Int \cup {None}]

\* What the schema lets into a policy.
SchemaValid(spec) == spec.ranges # {} /\ spec.start < spec.end

ASSUME MaintenanceAssumption ==
    /\ None \notin Int
    /\ DayLength \in Nat \ {0}
    /\ ControllerSpecs \subseteq SUBSET WindowSpec
    /\ PolicySpecs \subseteq SUBSET {s \in WindowSpec : SchemaValid(s)}
    /\ RequeueAfter \in Nat \ {0}
    /\ FirstTimes \subseteq Nat
    /\ MaxTime \in Nat

-----------------------------------------------------------------------------
\* Parsing.

\* The weekdays from `from` to `to`, wrapping the week.
expandRange(from, to) ==
    {(from + i) % 7 : i \in {i \in Days : \A j \in 0 .. (i - 1) :
                                              (from + j) % 7 # to}}

parseDays(ranges) == UNION {expandRange(r[1], r[2]) : r \in ranges}

Valid(spec) ==
    /\ parseDays(spec.ranges) # {}
    /\ spec.start < spec.end
    /\ spec.zone # None

parseWindow(spec) ==
    [days |-> parseDays(spec.ranges), start |-> spec.start, end |-> spec.end,
     zone |-> spec.zone]

\* One bad window makes the whole set an error.
Parses(specs) == \A s \in specs : Valid(s)

ParseSpecs(specs) == {parseWindow(s) : s \in specs}

-----------------------------------------------------------------------------
\* Evaluation.

Weekday(t, zone) == ((t + zone) \div DayLength) % 7
MinuteOfDay(t, zone) == (t + zone) % DayLength

\* Variant: the end is inclusive.
containsEnd(w, t) ==
    /\ Weekday(t, w.zone) \in w.days
    /\ MinuteOfDay(t, w.zone) \in w.start .. w.end

contains(w, t) ==
    /\ Weekday(t, w.zone) \in w.days
    /\ MinuteOfDay(t, w.zone) >= w.start
    /\ MinuteOfDay(t, w.zone) < w.end

IsAllowed(ws, t) == ws = {} \/ \E w \in ws : contains(w, t)

\* The start of w on the day `off` days after that of t.
Opening(w, t, off) ==
    ((t + w.zone) \div DayLength + off) * DayLength + w.start - w.zone

\* Variant: the same weekday of the next week is not considered.
nextOpeningThisWeek(w, t) ==
    LET later == {off \in 0 .. 6 :
                    /\ Weekday(t + off * DayLength, w.zone) \in w.days
                    /\ Opening(w, t, off) > t}
    IN  IF later = {} THEN None ELSE Opening(w, t, Min(later))

nextOpening(w, t) ==
    LET later == {off \in 0 .. 7 :
                    /\ Weekday(t + off * DayLength, w.zone) \in w.days
                    /\ Opening(w, t, off) > t}
    IN  IF later = {} THEN None ELSE Opening(w, t, Min(later))

NextOpening(ws, t) ==
    LET openings == {nextOpening(w, t) : w \in ws} \ {None}
    IN  IF openings = {} THEN None ELSE Min(openings)

-----------------------------------------------------------------------------
\* A reconcile that has found a leak of a container that keeps leaking.

VARIABLES
    now,
    flag,     \* the controller's windows, as written
    policy,   \* the policy's windows, as written
    wake,     \* when the workqueue delivers the key again
    acted     \* when the restart passed the gate, or None

vars == <<now, flag, policy, wake, acted>>

\* main.go refuses to start with a flag that does not parse.
Init ==
    /\ now \in FirstTimes
    /\ flag \in {specs \in ControllerSpecs : Parses(specs)}
    /\ policy \in PolicySpecs
    /\ wake = now
    /\ acted = None

\* Variant: a policy with a bad window has no windows.
WindowsOpen ==
    IF policy = {} THEN ParseSpecs(flag)
    ELSE IF Parses(policy) THEN ParseSpecs(policy) ELSE {}

\* The policy's windows override the flag's, unless they do not parse.
Windows ==
    IF policy # {} /\ Parses(policy)
    THEN ParseSpecs(policy) ELSE ParseSpecs(flag)

\* Variant: the opening itself is taken for the delay.
DelayAbsolute ==
    LET next == NextOpening(Windows, now)
    IN  IF next = None THEN RequeueAfter ELSE next

Delay ==
    LET next == NextOpening(Windows, now)
    IN  IF next = None \/ next <= now THEN RequeueAfter ELSE next - now

\* A restart is let through or deferred; a policy event may come early.
Reconcile ==
    /\ acted = None
    /\ \/ /\ IsAllowed(Windows, now)
          /\ acted' = now
          /\ UNCHANGED wake
       \/ /\ ~IsAllowed(Windows, now)
          /\ wake' = now + Delay
          /\ UNCHANGED acted
    /\ UNCHANGED <<now, flag, policy>>

\* The workqueue delivers a due key before the next minute.
Tick ==
    /\ now < MaxTime
    /\ acted = None
    /\ now < wake
    /\ now' = now + 1
    /\ UNCHANGED <<flag, policy, wake, acted>>

Next == Reconcile \/ Tick

\* The clock advances, and the worker takes a key that is due.
Spec ==
    /\ Init /\ [][Next]_vars
    /\ WF_vars(Tick)
    /\ WF_vars(now >= wake /\ Reconcile)

-----------------------------------------------------------------------------

\* Outside every window NextOpening is the first later time that is allowed:
\* the deferral neither oversleeps an opening nor wakes before one.
NextIsEarliest ==
    ~IsAllowed(Windows, now) =>
        LET next == NextOpening(Windows, now)
        IN  /\ next # None
            /\ next > now
            /\ IsAllowed(Windows, next)
            /\ \A t \in (now + 1) .. (next - 1) : ~IsAllowed(Windows, t)

\* t lies in the declared window s, read directly off its text: some day range
\* and the time range.
Declared(s, t) ==
    /\ \E r \in s.ranges :
        (Weekday(t, s.zone) - r[1]) % 7 <= (r[2] - r[1]) % 7
    /\ MinuteOfDay(t, s.zone) \in s.start .. (s.end - 1)

\* docs/maintenance-windows.md:28-29, "A policy's windows override the
\* controller-wide configuration for that workload": a restart happens in a
\* window declared by the policy, if it declares any and each of their zones
\* resolves, else in one declared by the controller.
ActsInsideDeclared ==
    LET specs == IF policy = {} \/ \E s \in policy : s.zone = None THEN flag
                 ELSE policy
    IN  acted # None /\ specs # {} => \E s \in specs : Declared(s, acted)

\* A deferred restart is not dropped: it goes through at a later opening.
DeferredIsNotDropped ==
    (acted = None /\ now < MaxTime - 8 * DayLength) ~> (acted # None)
=============================================================================
