-------------------------- MODULE MaintenanceProofs --------------------------
(***************************************************************************)
(* For any windows, time zones and length of the day: a deferred restart   *)
(* waits for the first opening there is, and a restart that passes the     *)
(* gate lies in a window that somebody declared.                           *)
(***************************************************************************)
EXTENDS Maintenance, WellFoundedInduction, TLAPS

-----------------------------------------------------------------------------
\* Numbers.

\* Every set of naturals that is not empty has a least member.
LEMMA LeastNat ==
    ASSUME NEW T, T \subseteq Nat, T # {}
    PROVE  \E x \in T : \A y \in T : x <= y
<1> DEFINE R == OpToRel(<, Nat)
<1>1. IsWellFoundedOn(R, Nat)
  BY NatLessThanWellFounded
<1>2. \A x, y \in Nat : x < y => <<x, y>> \in R
  BY DEF OpToRel
<1> HIDE DEF R
<1>3. PICK x \in T : \A y \in T : <<y, x>> \notin R
  BY <1>1, WFMin
<1>4. ASSUME NEW y \in T PROVE x <= y
  <2>1. ~ (y < x)
    BY <1>2, <1>3
  <2> QED
    BY <2>1
<1> QED
  BY <1>4

LEMMA MinNat ==
    ASSUME NEW T, T \subseteq Nat, T # {}
    PROVE  Min(T) \in T /\ \A y \in T : Min(T) <= y
BY LeastNat DEF Min

\* The day and the minute of a time determine it.
LEMMA Divided ==
    ASSUME NEW x \in Int
    PROVE  /\ x \div DayLength \in Int
           /\ x % DayLength \in 0 .. (DayLength - 1)
           /\ x = (x \div DayLength) * DayLength + (x % DayLength)
<1>1. DayLength \in Int /\ DayLength > 0
  BY MaintenanceAssumption
<1>2. x \div DayLength \in Int
  BY <1>1
<1>3. x % DayLength \in 0 .. (DayLength - 1)
  BY <1>1
<1>4. x = DayLength * (x \div DayLength) + (x % DayLength)
  BY <1>1
<1> QED
  BY <1>1, <1>2, <1>3, <1>4

\* A multiple of the day length is a day or more, or none at all.
LEMMA WholeDays ==
    ASSUME NEW D \in Nat, NEW k \in Int, k >= 1
    PROVE  k * D \in Int /\ k * D >= D
<1>1. PICK j \in Nat : k = j + 1
  <2>1. k - 1 \in Nat /\ k = (k - 1) + 1
    OBVIOUS
  <2> QED
    BY <2>1
<1>2. k * D = j * D + D /\ j * D \in Nat
  BY <1>1
<1> QED
  BY <1>2

\* Of two times the one of the later day is later.
LEMMA DaysInOrder ==
    ASSUME NEW d \in Int, NEW e \in Int,
           NEW m \in 0 .. (DayLength - 1), NEW n \in 0 .. (DayLength - 1)
    PROVE  /\ d * DayLength \in Int /\ e * DayLength \in Int
           /\ d < e => d * DayLength + m < e * DayLength + n
           /\ d * DayLength + m < e * DayLength + n => d <= e
<1>1. DayLength \in Nat /\ d * DayLength \in Int /\ e * DayLength \in Int
  BY MaintenanceAssumption
<1>2. ASSUME NEW a \in Int, NEW b \in Int, NEW i \in 0 .. (DayLength - 1),
             NEW j \in 0 .. (DayLength - 1), a < b
      PROVE  a * DayLength + i < b * DayLength + j
  <2>1. b - a \in Int /\ b - a >= 1
    BY <1>2
  <2>2. (b - a) * DayLength >= DayLength
    BY <1>1, <2>1, WholeDays
  <2>3. (b - a) * DayLength = b * DayLength - a * DayLength
    BY <1>1
  <2>4. a * DayLength \in Int /\ b * DayLength \in Int
    BY <1>1
  <2> QED
    BY <1>1, <2>2, <2>3, <2>4
<1>3. d < e => d * DayLength + m < e * DayLength + n
  BY <1>2
<1>4. e < d => e * DayLength + n < d * DayLength + m
  BY <1>2
<1>5. e * DayLength + n \in Int /\ d * DayLength + m \in Int
  BY <1>1
<1> QED
  BY <1>1, <1>3, <1>4, <1>5

\* The day and the minute of a time given by them.
LEMMA DividedBack ==
    ASSUME NEW d \in Int, NEW m \in 0 .. (DayLength - 1), NEW x \in Int,
           x = d * DayLength + m
    PROVE  x \div DayLength = d /\ x % DayLength = m
<1> DEFINE e == x \div DayLength
           n == x % DayLength
<1>1. e \in Int /\ n \in 0 .. (DayLength - 1) /\ x = e * DayLength + n
  BY Divided
<1>2. DayLength \in Nat
  BY MaintenanceAssumption
<1> HIDE DEF e, n
<1>3. ~(d < e) /\ ~(e < d)
  <2>1. d < e => d * DayLength + m < e * DayLength + n
    BY <1>1, DaysInOrder
  <2>2. e < d => e * DayLength + n < d * DayLength + m
    BY <1>1, DaysInOrder
  <2> QED
    BY <1>1, <2>1, <2>2
<1>4. d = e
  BY <1>1, <1>3
<1>5. m = n
  BY <1>1, <1>2, <1>4
<1> QED
  BY <1>4, <1>5 DEF e, n

-----------------------------------------------------------------------------
\* The calendar.

\* What parseWindow makes of a valid spec.
Window ==
    {w \in [days : SUBSET Days, start : 0 .. (DayLength - 1),
            end : 0 .. (DayLength - 1), zone : Int] :
        w.days # {} /\ w.start < w.end}

\* The weekdays of a range of days lie in the week and between its ends.
LEMMA RangeExpanded ==
    ASSUME NEW from \in Days, NEW to \in Days
    PROVE  /\ expandRange(from, to) \subseteq Days
           /\ from \in expandRange(from, to)
           /\ \A day \in expandRange(from, to) :
                (day - from) % 7 <= (to - from) % 7
<1>1. ASSUME NEW i \in Days
      PROVE  (from + i) % 7 \in Days /\ (((from + i) % 7) - from) % 7 = i
  BY DEF Days
<1>2. (from + 0) % 7 = from /\ 0 \in Days /\ 0 .. (0 - 1) = {}
  BY DEF Days
<1>3. (to - from) % 7 \in Days /\ (from + ((to - from) % 7)) % 7 = to
  BY DEF Days
<1>4. ASSUME NEW i \in Days, \A j \in 0 .. (i - 1) : (from + j) % 7 # to
      PROVE  (((from + i) % 7) - from) % 7 <= (to - from) % 7
  <2>1. (to - from) % 7 \notin 0 .. (i - 1)
    <3> DEFINE k == (to - from) % 7
    <3>1. (from + k) % 7 = to
      BY <1>3
    <3> HIDE DEF k
    <3>2. k \notin 0 .. (i - 1)
      BY <1>4, <3>1
    <3> QED
      BY <3>2 DEF k
  <2> QED
    BY <1>1, <1>3, <2>1 DEF Days
<1>5. from \in expandRange(from, to)
  BY <1>2 DEF expandRange
<1> QED
  BY <1>1, <1>4, <1>5 DEF expandRange

\* parseWindow yields a window, of which every day is in a declared range.
LEMMA WindowParsed ==
    ASSUME NEW s \in WindowSpec, Valid(s)
    PROVE  /\ parseWindow(s) \in Window
           /\ \A t \in Int : contains(parseWindow(s), t) => Declared(s, t)
<1> DEFINE w == parseWindow(s)
<1>1. /\ s.ranges \in SUBSET (Days \X Days)
      /\ s.start \in 0 .. (DayLength - 1) /\ s.end \in 0 .. (DayLength - 1)
      /\ s.start < s.end /\ s.zone \in Int /\ parseDays(s.ranges) # {}
  BY DEF WindowSpec, Valid
<1>2. \A r \in s.ranges : r[1] \in Days /\ r[2] \in Days
  BY <1>1
<1>3. parseDays(s.ranges) \subseteq Days
  BY <1>2, RangeExpanded DEF parseDays
<1>4. ASSUME NEW t \in Int, contains(w, t) PROVE Declared(s, t)
  <2>1. /\ Weekday(t, s.zone) \in parseDays(s.ranges)
        /\ MinuteOfDay(t, s.zone) >= s.start /\ MinuteOfDay(t, s.zone) < s.end
    BY <1>4 DEF contains, parseWindow
  <2>2. PICK r \in s.ranges : Weekday(t, s.zone) \in expandRange(r[1], r[2])
    BY <2>1 DEF parseDays
  <2>3. (Weekday(t, s.zone) - r[1]) % 7 <= (r[2] - r[1]) % 7
    BY <1>2, <2>2, RangeExpanded
  <2>4. t + s.zone \in Int /\ DayLength \in Int
    BY <1>1, MaintenanceAssumption
  <2>5. MinuteOfDay(t, s.zone) \in 0 .. (DayLength - 1)
    BY <2>4, Divided DEF MinuteOfDay
  <2>6. MinuteOfDay(t, s.zone) \in s.start .. (s.end - 1)
    BY <1>1, <2>1, <2>4, <2>5
  <2> QED
    BY <2>3, <2>6 DEF Declared
<1>5. w \in Window
  BY <1>1, <1>3 DEF Window, parseWindow
<1> QED
  BY <1>4, <1>5

\* A window in terms of the day and the minute of a time in its zone.
LEMMA Calendar ==
    ASSUME NEW w \in Window, NEW t \in Int, NEW d \in Int,
           NEW m \in 0 .. (DayLength - 1), t + w.zone = d * DayLength + m
    PROVE  /\ contains(w, t) <=> d % 7 \in w.days /\ w.start <= m /\ m < w.end
           /\ \A off \in Int :
                /\ Weekday(t + off * DayLength, w.zone) = (d + off) % 7
                /\ Opening(w, t, off) = (d + off) * DayLength + w.start - w.zone
<1>1. /\ DayLength \in Nat /\ w.zone \in Int /\ w.start \in 0 .. (DayLength - 1)
      /\ w.end \in 0 .. (DayLength - 1)
  BY MaintenanceAssumption DEF Window
<1>2. t + w.zone \in Int
  BY <1>1
<1>3. (t + w.zone) \div DayLength = d /\ (t + w.zone) % DayLength = m
  BY <1>2, DividedBack
<1>4. ASSUME NEW off \in Int
      PROVE  /\ Weekday(t + off * DayLength, w.zone) = (d + off) % 7
             /\ Opening(w, t, off) = (d + off) * DayLength + w.start - w.zone
  <2>1. off * DayLength \in Int /\ d + off \in Int /\ d * DayLength \in Int
    BY <1>1
  <2>2. (d + off) * DayLength = d * DayLength + off * DayLength
    BY <1>1
  <2>3. t + off * DayLength + w.zone = (d + off) * DayLength + m
    BY <1>1, <2>1, <2>2
  <2>4. (t + off * DayLength + w.zone) \div DayLength = d + off
    <3>1. t + off * DayLength + w.zone \in Int
      BY <1>1, <2>1
    <3> QED
      BY <2>1, <2>3, <3>1, DividedBack
  <2> QED
    BY <1>3, <2>4 DEF Weekday, Opening
<1>5. contains(w, t) <=> d % 7 \in w.days /\ w.start <= m /\ m < w.end
  <2>1. Weekday(t, w.zone) = d % 7 /\ MinuteOfDay(t, w.zone) = m
    BY <1>3 DEF Weekday, MinuteOfDay
  <2>2. m >= w.start <=> w.start <= m
    BY <1>1
  <2> QED
    BY <2>1, <2>2 DEF contains
<1> QED
  BY <1>4, <1>5

-----------------------------------------------------------------------------
\* Openings.

\* n is the first time after t at which some window of ws contains the time.
FirstAllowed(ws, t, n) ==
    /\ n \in Int /\ n > t
    /\ \E w \in ws : contains(w, n)
    /\ \A u \in (t + 1) .. (n - 1) : \A w \in ws : ~contains(w, u)

\* The day after a weekday of the window comes within a week.
LEMMA WithinAWeek ==
    ASSUME NEW d \in Int, NEW day \in Days
    PROVE  \E off \in 1 .. 7 : (d + off) % 7 = day
<1>1. PICK c \in Days : d % 7 = c
  BY DEF Days
<1>2. \A off \in 1 .. 7 : (d + off) % 7 = (c + off) % 7
  BY <1>1
<1>3. \E off \in 1 .. 7 : (c + off) % 7 = day
  <2>1. CASE day > c
    <3>1. day - c \in 1 .. 7 /\ (c + (day - c)) % 7 = day
      BY <2>1 DEF Days
    <3> QED
      BY <3>1
  <2>2. CASE day <= c
    <3>1. 7 + day - c \in 1 .. 7 /\ (c + (7 + day - c)) % 7 = day
      BY <2>2 DEF Days
    <3> QED
      BY <3>1
  <2> QED
    BY <2>1, <2>2 DEF Days
<1> QED
  BY <1>2, <1>3

\* Outside a window, nextOpening is the first later time inside it.
LEMMA OpeningIsFirst ==
    ASSUME NEW w \in Window, NEW t \in Nat, ~contains(w, t)
    PROVE  FirstAllowed({w}, t, nextOpening(w, t))
<1> DEFINE d == (t + w.zone) \div DayLength
           m == (t + w.zone) % DayLength
           later == {off \in 0 .. 7 :
                        /\ Weekday(t + off * DayLength, w.zone) \in w.days
                        /\ Opening(w, t, off) > t}
           first == Min(later)
<1>1. /\ DayLength \in Nat /\ DayLength > 0
      /\ w.zone \in Int /\ w.days \in SUBSET Days /\ w.days # {}
      /\ w.start \in 0 .. (DayLength - 1) /\ w.end \in 0 .. (DayLength - 1)
      /\ w.start < w.end
  BY MaintenanceAssumption DEF Window
<1>2. /\ d \in Int /\ m \in 0 .. (DayLength - 1)
      /\ t + w.zone \in Int /\ t + w.zone = d * DayLength + m
  <2>1. t + w.zone \in Int
    BY <1>1
  <2> QED
    BY <2>1, Divided
<1> HIDE DEF d, m
<1>3. /\ ~(d % 7 \in w.days /\ w.start <= m /\ m < w.end)
      /\ \A off \in Int :
            /\ Weekday(t + off * DayLength, w.zone) = (d + off) % 7
            /\ Opening(w, t, off) = (d + off) * DayLength + w.start - w.zone
  BY <1>2, Calendar
<1>4. ASSUME NEW off \in Int
      PROVE  /\ Opening(w, t, off) \in Int
             /\ off > 0 => Opening(w, t, off) > t
  <2>1. d + off \in Int /\ (d + off) * DayLength \in Int /\ d * DayLength \in Int
    BY <1>1, <1>2
  <2>2. off > 0 => d < d + off
    BY <1>2
  <2>3. off > 0 => d * DayLength + m < (d + off) * DayLength + w.start
    BY <1>1, <1>2, <2>1, <2>2, DaysInOrder
  <2>4. Opening(w, t, off) = (d + off) * DayLength + w.start - w.zone
    BY <1>3
  <2> QED
    BY <1>1, <1>2, <2>1, <2>3, <2>4
<1>5. later # {} /\ later \subseteq Nat
  <2>1. PICK day \in w.days : day \in Days
    BY <1>1
  <2>2. PICK off \in 1 .. 7 : (d + off) % 7 = day
    BY <1>2, <2>1, WithinAWeek
  <2>3. off \in 0 .. 7 /\ off \in Int /\ off > 0
    OBVIOUS
  <2>4. off \in later
    BY <1>3, <1>4, <2>2, <2>3
  <2> QED
    BY <2>4
<1>6. first \in later /\ \A off \in later : first <= off
  BY <1>5, MinNat
<1> DEFINE n == Opening(w, t, first)
           e == d + first
<1>7. nextOpening(w, t) = n
  BY <1>5 DEF nextOpening
<1> HIDE DEF later, first
<1>8. /\ first \in 0 .. 7 /\ e \in Int /\ e % 7 \in w.days
      /\ n \in Int /\ n > t /\ n = e * DayLength + w.start - w.zone
      /\ e * DayLength \in Int
  BY <1>1, <1>2, <1>3, <1>4, <1>6 DEF later
<1> HIDE DEF n, e
<1>9. contains(w, n)
  <2>1. n + w.zone = e * DayLength + w.start
    BY <1>1, <1>8
  <2>2. contains(w, n) <=> e % 7 \in w.days /\ w.start <= w.start
                              /\ w.start < w.end
    <3>1. w.start \in 0 .. (DayLength - 1) /\ n \in Int /\ e \in Int
      BY <1>1, <1>8
    <3> QED
      BY <2>1, <3>1, Calendar
  <2>3. w.start <= w.start
    BY <1>1
  <2> QED
    BY <1>1, <1>8, <2>2, <2>3
<1>10. ASSUME NEW u \in (t + 1) .. (n - 1) PROVE ~contains(w, u)
  <2> SUFFICES ASSUME contains(w, u) PROVE FALSE
    OBVIOUS
  <2> DEFINE c == (u + w.zone) \div DayLength
             r == (u + w.zone) % DayLength
             off == c - d
  <2>1. u \in Int /\ u > t /\ u < n /\ u + w.zone \in Int
    BY <1>1, <1>8
  <2>2. c \in Int /\ r \in 0 .. (DayLength - 1) /\ u + w.zone = c * DayLength + r
    BY <2>1, Divided
  <2> HIDE DEF c, r
  <2>3. c % 7 \in w.days /\ w.start <= r /\ r < w.end
    BY <2>1, <2>2, Calendar
  <2>4. c * DayLength \in Int /\ d * DayLength \in Int
    BY <1>1, <1>2, <2>2
  <2>5. d <= c
    <3>1. d * DayLength + m < c * DayLength + r
      BY <1>1, <1>2, <2>1, <2>2, <2>4
    <3> QED
      BY <1>2, <2>2, <3>1, DaysInOrder
  <2>6. c < e
    <3>1. c * DayLength + r < e * DayLength + w.start
      BY <1>1, <1>8, <2>1, <2>2, <2>4
    <3>2. c <= e
      BY <1>1, <1>8, <2>2, <3>1, DaysInOrder
    <3>3. c # e
      BY <1>1, <1>8, <2>2, <2>3, <2>4, <3>1
    <3> QED
      BY <1>8, <2>2, <3>2, <3>3
  <2>7. off \in 0 .. 7 /\ off < first /\ d + off = c /\ off \in Int
    BY <1>2, <1>8, <2>2, <2>5, <2>6 DEF e
  <2>8. off \notin later
    BY <1>5, <1>6, <2>7
  <2>9. ~(Opening(w, t, off) > t)
    BY <1>3, <2>3, <2>7, <2>8 DEF later
  <2>10. off = 0
    BY <1>4, <2>7, <2>9
  <2>11. c = d
    BY <1>2, <2>7, <2>10
  <2>12. Opening(w, t, off) = c * DayLength + w.start - w.zone
    BY <1>3, <2>7
  <2>13. w.start <= m
    BY <1>1, <1>2, <2>4, <2>9, <2>11, <2>12
  <2>14. m < w.end
    BY <1>1, <1>2, <2>1, <2>2, <2>3, <2>4, <2>11
  <2> QED
    BY <1>3, <2>3, <2>11, <2>13, <2>14
<1> QED
  BY <1>7, <1>8, <1>9, <1>10 DEF FirstAllowed

\* The same of a set of windows and NextOpening.
LEMMA NextOpeningIsFirst ==
    ASSUME NEW ws \in SUBSET Window, NEW t \in Nat, ~IsAllowed(ws, t)
    PROVE  NextOpening(ws, t) # None /\ FirstAllowed(ws, t, NextOpening(ws, t))
<1> DEFINE openings == {nextOpening(w, t) : w \in ws} \ {None}
           n == Min(openings)
<1>1. ws # {} /\ \A w \in ws : ~contains(w, t)
  BY DEF IsAllowed
<1>2. ASSUME NEW w \in ws
      PROVE  /\ nextOpening(w, t) \in Int /\ nextOpening(w, t) > t
             /\ contains(w, nextOpening(w, t))
             /\ \A u \in (t + 1) .. (nextOpening(w, t) - 1) : ~contains(w, u)
  BY <1>1, OpeningIsFirst DEF FirstAllowed
<1>3. openings = {nextOpening(w, t) : w \in ws}
  BY <1>2, MaintenanceAssumption
<1>4. openings # {} /\ openings \subseteq Nat
  BY <1>1, <1>2, <1>3
<1>5. n \in openings /\ \A o \in openings : n <= o
  BY <1>4, MinNat
<1>6. NextOpening(ws, t) = n
  BY <1>4 DEF NextOpening
<1> HIDE DEF openings, n
<1>7. PICK w \in ws : n = nextOpening(w, t)
  BY <1>3, <1>5
<1>8. n \in Int /\ n > t /\ contains(w, n) /\ n # None
  BY <1>2, <1>7, MaintenanceAssumption
<1>9. ASSUME NEW u \in (t + 1) .. (n - 1), NEW v \in ws PROVE ~contains(v, u)
  <2>1. n <= nextOpening(v, t) /\ nextOpening(v, t) \in Int
    BY <1>2, <1>3, <1>5
  <2>2. u \in (t + 1) .. (nextOpening(v, t) - 1)
    BY <1>8, <2>1
  <2> QED
    BY <1>2, <2>2
<1> QED
  BY <1>6, <1>8, <1>9 DEF FirstAllowed

-----------------------------------------------------------------------------
\* The deferral.

\* The flag parses, the policy has passed the schema, and a restart was let
\* through by the windows in force.
MaintenanceInv ==
    /\ now \in Nat
    /\ flag \in ControllerSpecs /\ Parses(flag)
    /\ policy \in PolicySpecs
    /\ acted # None => acted \in Nat /\ IsAllowed(Windows, acted)

LEMMA InitMaintenance == Init => MaintenanceInv
BY MaintenanceAssumption DEF Init, MaintenanceInv

LEMMA NextMaintenance == MaintenanceInv /\ [Next]_vars => MaintenanceInv'
<1> SUFFICES ASSUME MaintenanceInv, [Next]_vars PROVE MaintenanceInv'
  OBVIOUS
<1>1. CASE Reconcile
  <2>1. UNCHANGED <<now, flag, policy>>
    BY <1>1 DEF Reconcile
  <2>2. Windows' = Windows
    BY <2>1 DEF Windows, Parses, ParseSpecs
  <2>3. \/ acted' = now /\ IsAllowed(Windows, now)
        \/ acted' = acted
    BY <1>1 DEF Reconcile
  <2> QED
    BY <2>1, <2>2, <2>3 DEF MaintenanceInv, IsAllowed, Parses
<1>2. CASE Tick
  BY <1>2, MaintenanceAssumption DEF Tick, MaintenanceInv, Windows, Parses,
     ParseSpecs, IsAllowed
<1>3. CASE UNCHANGED vars
  BY <1>3 DEF vars, MaintenanceInv, Windows, Parses, ParseSpecs, IsAllowed
<1> QED
  BY <1>1, <1>2, <1>3 DEF Next

LEMMA MaintenanceInvariance == Spec => []MaintenanceInv
BY InitMaintenance, NextMaintenance, PTL DEF Spec

\* The windows in force are windows.
LEMMA WindowsAreSound == MaintenanceInv => Windows \in SUBSET Window
<1> SUFFICES ASSUME MaintenanceInv PROVE Windows \in SUBSET Window
  OBVIOUS
<1>1. ASSUME NEW specs \in SUBSET WindowSpec, Parses(specs)
      PROVE  ParseSpecs(specs) \in SUBSET Window
  BY <1>1, WindowParsed DEF Parses, ParseSpecs
<1>2. flag \in SUBSET WindowSpec /\ policy \in SUBSET WindowSpec
  BY MaintenanceAssumption DEF MaintenanceInv
<1> QED
  BY <1>1, <1>2 DEF MaintenanceInv, Windows

\* Outside every window NextOpening is the first later time that is allowed:
\* nextOpening of window.go searches far enough and skips nothing, whatever
\* the days, the times and the zone.
THEOREM EarliestTheorem == Spec => []NextIsEarliest
<1>1. MaintenanceInv => NextIsEarliest
  <2> SUFFICES ASSUME MaintenanceInv, ~IsAllowed(Windows, now)
               PROVE  NextIsEarliest
    BY DEF NextIsEarliest
  <2> DEFINE next == NextOpening(Windows, now)
  <2>1. next # None /\ FirstAllowed(Windows, now, next)
    BY WindowsAreSound, NextOpeningIsFirst DEF MaintenanceInv
  <2>2. Windows # {}
    BY DEF IsAllowed
  <2> QED
    BY <2>1, <2>2 DEF NextIsEarliest, FirstAllowed, IsAllowed
<1> QED
  BY <1>1, MaintenanceInvariance, PTL

\* A policy that has passed the schema parses if its zones resolve.
LEMMA PolicyParses ==
    ASSUME policy \in PolicySpecs
    PROVE  Parses(policy) <=> \A s \in policy : s.zone # None
<1>1. ASSUME NEW s \in policy PROVE parseDays(s.ranges) # {} /\ s.start < s.end
  <2>1. s \in WindowSpec /\ s.ranges # {} /\ s.start < s.end
    BY MaintenanceAssumption DEF SchemaValid
  <2>2. PICK r \in s.ranges : r[1] \in Days /\ r[2] \in Days
    BY <2>1 DEF WindowSpec
  <2>3. r[1] \in parseDays(s.ranges)
    BY <2>2, RangeExpanded DEF parseDays
  <2> QED
    BY <2>1, <2>3
<1> QED
  BY <1>1 DEF Parses, Valid

\* A restart happens in a window that the policy declares, if it declares any
\* and their zones resolve, else in one of the controller's (the override in
\* Reconcile, with its fallback when FromWindows fails).
THEOREM DeclaredTheorem == Spec => []ActsInsideDeclared
<1>1. MaintenanceInv => ActsInsideDeclared
  <2> SUFFICES ASSUME MaintenanceInv PROVE ActsInsideDeclared
    OBVIOUS
  <2> DEFINE specs == IF policy = {} \/ \E s \in policy : s.zone = None THEN flag
                      ELSE policy
  <2> SUFFICES ASSUME acted # None, specs # {}
               PROVE  \E s \in specs : Declared(s, acted)
    BY DEF ActsInsideDeclared
  <2>1. /\ Windows = ParseSpecs(specs) /\ Parses(specs)
        /\ specs \in SUBSET WindowSpec
    BY PolicyParses, MaintenanceAssumption DEF MaintenanceInv, Windows
  <2> HIDE DEF specs
  <2>2. PICK w \in ParseSpecs(specs) : contains(w, acted)
    BY <2>1 DEF MaintenanceInv, IsAllowed, ParseSpecs
  <2>3. PICK s \in specs : w = parseWindow(s)
    BY <2>2 DEF ParseSpecs
  <2>4. acted \in Int /\ s \in WindowSpec /\ Valid(s)
    BY <2>1 DEF MaintenanceInv, Parses
  <2> QED
    BY <2>2, <2>3, <2>4, WindowParsed
<1> QED
  BY <1>1, MaintenanceInvariance, PTL
=============================================================================
