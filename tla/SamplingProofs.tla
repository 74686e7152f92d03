--------------------------- MODULE SamplingProofs ---------------------------
(***************************************************************************)
(* For any number of policies and containers, any windows and intervals:   *)
(* the series of samples stay sane and mix no two instances of a container *)
(* for longer than the pass that began them, a sustained leak is reported  *)
(* on a full window of samples over the threshold only, and the limits of  *)
(* main.go leave room for the warm-up.                                     *)
(***************************************************************************)
EXTENDS Sampling, FiniteSetTheorems, SequenceTheorems, WellFoundedInduction, TLAPS

\* The numbers main.go derives.
LEMMA Limits == /\ retention \in Nat
                /\ maxLen \in Nat /\ maxLen >= 1
<1>1. WindowFlag \div SampleEvery \in Nat
  BY StoreAssumption
<1> QED
  BY <1>1, StoreAssumption DEF retention, maxLen

\* The larger of two numbers.
LEMMA MaxOfTwo ==
    ASSUME NEW a \in Int, NEW b \in Int
    PROVE  /\ Max({a, b}) \in {a, b}
           /\ Max({a, b}) >= a /\ Max({a, b}) >= b
<1>1. \E x \in {a, b} : \A y \in {a, b} : x >= y
  <2>1. CASE a >= b
    BY <2>1
  <2>2. CASE b >= a
    BY <2>2
  <2> QED
    BY <2>1, <2>2
<1> QED
  BY <1>1 DEF Max

\* How many samples Observe drops for their age: never the newest one, and all
\* that are too old.
LEMMA TooOldBounds ==
    ASSUME NEW S, NEW s \in Seq(S), Len(s) >= 1,
           \A i \in DOMAIN s : s[i].time \in Nat,
           \A i, j \in DOMAIN s : i < j => s[i].time <= s[j].time
    PROVE  LET n == TooOld(s, s[Len(s)].time)
           IN  /\ n \in 0 .. (Len(s) - 1)
               /\ s[n + 1].time + retention >= s[Len(s)].time
<1> DEFINE last == s[Len(s)].time
           old == {i \in DOMAIN s : \A j \in 1 .. i : s[j].time + retention < last}
           n == TooOld(s, last)
           top == Len(s) - 1
<1>1. /\ Len(s) \in Nat /\ DOMAIN s = 1 .. Len(s) /\ Len(s) \in 1 .. Len(s)
      /\ last \in Nat /\ retention \in Nat /\ top \in Nat
  BY Limits
<1>2. Len(s) \notin old
  BY <1>1
<1>3. old \subseteq 1 .. top
  BY <1>1, <1>2
<1>5. n = Cardinality(old)
  BY DEF TooOld
<1> HIDE DEF last, old, n
<1>4. IsFiniteSet(1 .. top) /\ Cardinality(1 .. top) = top
  <2> HIDE DEF top
  <2> QED
    BY <1>1, FS_Interval
<1>6. n \in Nat /\ n <= top /\ IsFiniteSet(old)
  <2> HIDE DEF top
  <2>1. IsFiniteSet(old) /\ Cardinality(old) <= Cardinality(1 .. top)
    BY <1>3, <1>4, FS_Subset
  <2> QED
    BY <1>4, <1>5, <2>1, FS_CardinalityType
<1>7. s[n + 1].time + retention >= last
  <2> SUFFICES ASSUME ~(s[n + 1].time + retention >= last)
               PROVE  FALSE
    OBVIOUS
  <2>1. n + 1 \in DOMAIN s
    BY <1>1, <1>6
  <2>2. s[n + 1].time + retention < last
    BY <1>1, <2>1
  <2>3. \A j \in 1 .. (n + 1) : s[j].time + retention < last
    <3> TAKE j \in 1 .. (n + 1)
    <3>1. j \in DOMAIN s /\ (j = n + 1 \/ j < n + 1)
      BY <1>1, <2>1, <1>6
    <3>2. s[j].time <= s[n + 1].time
      BY <2>1, <3>1
    <3>3. s[j].time \in Nat /\ s[n + 1].time \in Nat
      BY <2>1, <3>1
    <3> QED
      BY <1>1, <2>2, <3>2, <3>3
  <2>4. 1 .. (n + 1) \subseteq old
    BY <1>1, <1>6, <2>1, <2>3 DEF old
  <2>5. Cardinality(1 .. (n + 1)) = n + 1
    BY <1>6, FS_Interval
  <2>6. Cardinality(1 .. (n + 1)) <= Cardinality(old)
    BY <1>6, <2>4, FS_Subset
  <2> QED
    BY <1>5, <1>6, <2>5, <2>6
<1> QED
  BY <1>1, <1>6, <1>7 DEF last, n

\* A series in order by time, whose samples have times.
Ordered(s) ==
    /\ \A i \in DOMAIN s : s[i].time \in Nat
    /\ \A i, j \in DOMAIN s : i < j => s[i].time <= s[j].time

\* The trimming of Observe: a suffix remains, which holds the new sample, is
\* not longer than the cap and not older than the retention.
LEMMA TrimFacts ==
    ASSUME NEW S, NEW kept \in Seq(S), NEW x \in S, Ordered(Append(kept, x))
    PROVE  LET all  == Append(kept, x)
               drop == Max({TooOld(all, x.time), Len(all) - maxLen})
               new  == SubSeq(all, drop + 1, Len(all))
           IN  /\ drop \in 0 .. Len(kept)
               /\ new \in Seq(S)
               /\ Len(new) = Len(all) - drop
               /\ Len(new) \in 1 .. maxLen
               /\ \A i \in 1 .. Len(new) : new[i] = all[i + drop]
               /\ all[drop + 1].time + retention >= x.time
<1> DEFINE all  == Append(kept, x)
           n    == TooOld(all, x.time)
           over == Len(all) - maxLen
           drop == Max({n, over})
           new  == SubSeq(all, drop + 1, Len(all))
<1>1. /\ all \in Seq(S) /\ Len(all) = Len(kept) + 1 /\ all[Len(all)] = x
      /\ Len(kept) \in Nat /\ DOMAIN all = 1 .. Len(all)
  OBVIOUS
<1>2. Ordered(all)
  OBVIOUS
<1> HIDE DEF all
<1>3. n \in 0 .. Len(kept) /\ all[n + 1].time + retention >= x.time
  <2>1. /\ TooOld(all, all[Len(all)].time) \in 0 .. (Len(all) - 1)
        /\ all[TooOld(all, all[Len(all)].time) + 1].time + retention
              >= all[Len(all)].time
    <3>1. Len(all) >= 1
      BY <1>1
    <3>2. /\ \A i \in DOMAIN all : all[i].time \in Nat
          /\ \A i, j \in DOMAIN all : i < j => all[i].time <= all[j].time
      BY <1>2 DEF Ordered
    <3> QED
      BY <1>1, <3>1, <3>2, TooOldBounds
  <2> QED
    BY <1>1, <2>1
<1> HIDE DEF n
<1>4. over \in Int /\ over <= Len(kept)
  BY <1>1, Limits
<1> HIDE DEF over
<1>5. drop \in {n, over} /\ drop >= n /\ drop >= over
  <2>1. n \in Int
    BY <1>1, <1>3
  <2> QED
    BY <1>4, <2>1, MaxOfTwo
<1>6. drop \in 0 .. Len(kept)
  BY <1>1, <1>3, <1>4, <1>5
<1> HIDE DEF drop
<1>7. /\ new \in Seq(S)
      /\ Len(new) = Len(all) - drop
      /\ \A i \in 1 .. Len(new) : new[i] = all[i + drop]
  <2>1. \A i \in (drop + 1) .. Len(all) : all[i] \in S
    BY <1>1, <1>6
  <2>2. drop + 1 \in Int /\ Len(all) \in Int /\ drop + 1 <= Len(all)
    BY <1>1, <1>6
  <2>3. /\ new \in Seq(S)
        /\ Len(new) = Len(all) - (drop + 1) + 1
        /\ \A i \in 1 .. Len(all) - (drop + 1) + 1 : new[i] = all[(drop + 1) + i - 1]
    BY <2>1, <2>2, SubSeqProperties
  <2> QED
    BY <1>1, <1>6, <2>3
<1>8. Len(new) \in 1 .. maxLen
  BY <1>1, <1>5, <1>6, <1>7, Limits DEF over
<1>9. all[drop + 1].time + retention >= x.time
  <2>1. n + 1 \in DOMAIN all /\ drop + 1 \in DOMAIN all
    BY <1>1, <1>3, <1>6
  <2>2. all[n + 1].time <= all[drop + 1].time
    <3>1. CASE n = drop
      BY <1>2, <2>1, <3>1 DEF Ordered
    <3>2. CASE n < drop
      BY <1>2, <1>3, <1>6, <2>1, <3>2 DEF Ordered
    <3> QED
      BY <1>3, <1>5, <1>6, <3>1, <3>2
  <2>3. /\ all[n + 1].time \in Nat /\ all[drop + 1].time \in Nat
        /\ x.time \in Nat
    BY <1>1, <1>2, <2>1 DEF Ordered
  <2> QED
    BY <1>3, <2>2, <2>3, Limits
<1> QED
  BY <1>6, <1>7, <1>8, <1>9 DEF all, n, over, drop

\* Sane depends on the elements only, whatever set they are drawn from.
LEMMA SaneFromSeq ==
    ASSUME NEW S, NEW s \in Seq(S), NEW t \in Nat,
           Len(s) \in 1 .. maxLen, Ordered(s), s[Len(s)].time <= t,
           s[Len(s)].time <= s[1].time + retention
    PROVE  Sane(s, t)
<1>1. s \in Seq({s[i] : i \in DOMAIN s})
  BY SeqOfRange, RangeEquality DEF Range
<1> QED
  BY <1>1 DEF Sane, Ordered

\* Observe keeps a series sane, files the new sample at its end, and drops only
\* samples that are no newer than the first one it keeps.
LEMMA ObserveFacts ==
    ASSUME NEW ser, NEW x, NEW r, x.time \in Nat,
           ser # None => Sane(ser.samples, x.time)
    PROVE  LET new == Observe(ser, x, r).samples
           IN  /\ Sane(new, x.time)
               /\ new[Len(new)] = x
               /\ ser = None => new[1].time = x.time
               /\ ser # None =>
                    /\ ser.samples[1].time <= new[1].time
                    /\ \A i \in DOMAIN ser.samples :
                        \/ ser.samples[i].time <= new[1].time
                        \/ \E j \in DOMAIN new : new[j] = ser.samples[i]
<1> DEFINE kept == IF ser = None \/ r > ser.lastRestarts THEN <<>>
                   ELSE ser.samples
           all  == Append(kept, x)
           drop == Max({TooOld(all, x.time), Len(all) - maxLen})
           new  == SubSeq(all, drop + 1, Len(all))
           S    == {kept[i] : i \in DOMAIN kept} \cup {x}
<1>0. Observe(ser, x, r).samples = new
  BY DEF Observe
<1>1. kept = <<>> \/ (ser # None /\ kept = ser.samples)
  OBVIOUS
<1>2. kept \in Seq(S) /\ x \in S
  <2>1. kept \in Seq({kept[i] : i \in DOMAIN kept})
    <3> HIDE DEF kept
    <3>1. CASE kept = <<>>
      BY <3>1
    <3>2. CASE ser # None /\ kept = ser.samples
      <4>1. Sane(kept, x.time)
        BY <3>2
      <4> QED
        BY <4>1 DEF Sane
    <3> QED
      BY <1>1, <3>1, <3>2
  <2> HIDE DEF kept
  <2> QED
    BY <2>1, SeqMonotonic
<1>3. /\ \A i \in DOMAIN kept : kept[i].time \in Nat /\ kept[i].time <= x.time
      /\ \A i, j \in DOMAIN kept : i < j => kept[i].time <= kept[j].time
  <2>1. CASE kept = <<>>
    BY <2>1
  <2>2. CASE ser # None /\ kept = ser.samples
    <3> HIDE DEF kept
    <3>1. Sane(kept, x.time)
      BY <2>2
    <3>2. DOMAIN kept = 1 .. Len(kept) /\ Len(kept) \in Nat /\ Len(kept) >= 1
      BY <1>2, <3>1 DEF Sane
    <3>3. \A i \in DOMAIN kept : kept[i].time <= kept[Len(kept)].time
      <4> TAKE i \in DOMAIN kept
      <4>1. i = Len(kept) \/ (i < Len(kept) /\ Len(kept) \in DOMAIN kept)
        BY <3>2
      <4>2. /\ \A j \in DOMAIN kept : kept[j].time \in Nat
            /\ \A j, k \in DOMAIN kept : j < k => kept[j].time <= kept[k].time
        BY <3>1 DEF Sane
      <4>3. CASE i = Len(kept)
        <5>1. kept[i].time \in Nat
          BY <4>2
        <5> QED
          BY <4>3, <5>1
      <4>4. CASE i < Len(kept) /\ Len(kept) \in DOMAIN kept
        BY <4>2, <4>4
      <4> QED
        BY <4>1, <4>3, <4>4
    <3> QED
      BY <3>1, <3>2, <3>3 DEF Sane
  <2> HIDE DEF kept
  <2> QED
    BY <1>1, <2>1, <2>2
<1> HIDE DEF kept, S
<1>4. /\ all \in Seq(S) /\ Len(all) = Len(kept) + 1 /\ Len(kept) \in Nat
      /\ DOMAIN all = 1 .. Len(all) /\ DOMAIN kept = 1 .. Len(kept)
      /\ \A i \in DOMAIN kept : all[i] = kept[i]
      /\ all[Len(all)] = x
  BY <1>2
<1>5. Ordered(all)
  BY <1>3, <1>4 DEF Ordered
<1>6. /\ drop \in 0 .. Len(kept)
      /\ new \in Seq(S)
      /\ Len(new) = Len(all) - drop
      /\ Len(new) \in 1 .. maxLen
      /\ \A i \in 1 .. Len(new) : new[i] = all[i + drop]
      /\ all[drop + 1].time + retention >= x.time
  BY <1>2, <1>5, TrimFacts
<1> HIDE DEF all, drop, new
<1>7. /\ new[1] = all[drop + 1]
      /\ new[Len(new)] = x
      /\ DOMAIN new = 1 .. Len(new)
  BY <1>4, <1>6
<1>8. Ordered(new)
  <2>1. \A i \in DOMAIN new : i + drop \in DOMAIN all /\ new[i] = all[i + drop]
    BY <1>4, <1>6, <1>7
  <2>2. \A i, j \in DOMAIN new : i < j => i + drop < j + drop
    BY <1>4, <1>6, <1>7
  <2> QED
    BY <1>5, <2>1, <2>2 DEF Ordered
<1>9. Sane(new, x.time)
  BY <1>6, <1>7, <1>8, SaneFromSeq
<1>10. kept = <<>> => new[1].time = x.time
  BY <1>4, <1>6, <1>7
<1>11. ASSUME kept = ser.samples, ser # None
       PROVE  /\ kept # <<>> => kept[1].time <= new[1].time
              /\ \A i \in DOMAIN kept : \/ kept[i].time <= new[1].time
                                        \/ \E j \in DOMAIN new : new[j] = kept[i]
  <2>1. \A i \in DOMAIN kept : i <= drop + 1 => kept[i].time <= new[1].time
    <3> SUFFICES ASSUME NEW i \in DOMAIN kept, i <= drop + 1
                 PROVE  kept[i].time <= new[1].time
      OBVIOUS
    <3>1. /\ i \in DOMAIN all /\ drop + 1 \in DOMAIN all
          /\ all[i] = kept[i]
      BY <1>4, <1>6
    <3>2. i = drop + 1 \/ i < drop + 1
      BY <1>4, <1>6
    <3>3. all[i].time <= all[drop + 1].time
      BY <1>5, <3>1, <3>2 DEF Ordered
    <3> QED
      BY <1>7, <3>1, <3>3
  <2>2. \A i \in DOMAIN kept : i > drop + 1 => \E j \in DOMAIN new : new[j] = kept[i]
    <3> SUFFICES ASSUME NEW i \in DOMAIN kept, i > drop + 1
                 PROVE  \E j \in DOMAIN new : new[j] = kept[i]
      OBVIOUS
    <3>1. i - drop \in DOMAIN new /\ new[i - drop] = all[(i - drop) + drop]
      BY <1>4, <1>6, <1>7
    <3>2. (i - drop) + drop = i
      BY <1>4, <1>6
    <3> QED
      BY <1>4, <3>1, <3>2
  <2>3. kept # <<>> => 1 \in DOMAIN kept /\ 1 <= drop + 1
    BY <1>2, <1>4, <1>6
  <2>4. \A i \in DOMAIN kept : i <= drop + 1 \/ i > drop + 1
    BY <1>4, <1>6
  <2> QED
    BY <2>1, <2>2, <2>3, <2>4
<1>12. ser # None =>
         /\ ser.samples[1].time <= new[1].time
         /\ \A i \in DOMAIN ser.samples :
              \/ ser.samples[i].time <= new[1].time
              \/ \E j \in DOMAIN new : new[j] = ser.samples[i]
  <2> SUFFICES ASSUME ser # None
               PROVE  /\ ser.samples[1].time <= new[1].time
                      /\ \A i \in DOMAIN ser.samples :
                           \/ ser.samples[i].time <= new[1].time
                           \/ \E j \in DOMAIN new : new[j] = ser.samples[i]
    OBVIOUS
  <2>1. /\ 1 \in DOMAIN ser.samples
        /\ \A i \in DOMAIN ser.samples : ser.samples[i].time <= x.time
    <3> DEFINE old == ser.samples
    <3>1. Sane(old, x.time)
      OBVIOUS
    <3> HIDE DEF old
    <3>2. DOMAIN old = 1 .. Len(old) /\ Len(old) \in Nat /\ Len(old) >= 1
      BY <3>1 DEF Sane
    <3>3. \A i \in DOMAIN old : old[i].time <= old[Len(old)].time
      <4> TAKE i \in DOMAIN old
      <4>1. i = Len(old) \/ (i < Len(old) /\ Len(old) \in DOMAIN old)
        BY <3>2
      <4> QED
        BY <3>1, <4>1, <3>2 DEF Sane
    <3>4. \A i \in DOMAIN old : old[i].time <= x.time
      <4> TAKE i \in DOMAIN old
      <4>1. Len(old) \in DOMAIN old
        BY <3>2
      <4>2. old[i].time \in Nat /\ old[Len(old)].time \in Nat
        BY <3>1, <4>1 DEF Sane
      <4>3. old[Len(old)].time <= x.time
        BY <3>1 DEF Sane
      <4>4. old[i].time <= old[Len(old)].time
        BY <3>3
      <4> QED
        BY <4>2, <4>3, <4>4
    <3> QED
      BY <3>2, <3>4 DEF old
  <2>2. CASE kept = <<>>
    BY <1>10, <2>1, <2>2
  <2>3. CASE kept = ser.samples
    <3>1. kept # <<>>
      BY <2>1, <2>3
    <3> QED
      BY <1>11, <2>3, <3>1
  <2> QED
    BY <1>1, <2>2, <2>3
<1>13. ser = None => kept = <<>>
  BY DEF kept
<1> QED
  BY <1>0, <1>7, <1>9, <1>10, <1>12, <1>13

-----------------------------------------------------------------------------
\* The inductive invariant.

\* A series that was sane at t is sane later.
LEMMA SaneLater ==
    ASSUME NEW s, NEW t \in Int, NEW u \in Int, t <= u, Sane(s, t)
    PROVE  Sane(s, u)
<1>1. Len(s) \in DOMAIN s
  BY DEF Sane
<1> QED
  BY <1>1 DEF Sane

\* A step that files nothing, and at most evicts series, keeps the invariant if
\* it does not set the horizon back.
LEMMA NothingFiled ==
    ASSUME SamplesInv, now' \in Nat, passNow' \in Nat,
           Horizon <= Horizon', Horizon' <= now',
           store' = [k \in Keys |-> store'[k]],
           \A k \in Keys : store'[k] \in {store[k], None},
           seen' = seen, low' = low
    PROVE  SamplesInv'
<1>1. Horizon \in Int /\ Horizon' \in Int
  BY DEF SamplesInv, Horizon
<1>2. ASSUME NEW k \in Keys
      PROVE  KeyInv(k)'
  <2>1. KeyInv(k)
    BY DEF SamplesInv
  <2>2. \A p \in Policies : low[p][k] \in Nat => low[p][k] <= Horizon'
    BY <1>1, <2>1 DEF KeyInv
  <2>3. seen[k] \in Nat => seen[k] <= Horizon'
    BY <1>1, <2>1 DEF KeyInv
  <2>4. store'[k] # None =>
          /\ store'[k] = store[k] /\ store[k] # None
          /\ Sane(store[k].samples, Horizon')
    BY <1>1, <2>1, SaneLater DEF KeyInv
  <2> HIDE DEF Horizon
  <2> QED
    BY <2>1, <2>2, <2>3, <2>4 DEF KeyInv
<1> QED
  BY <1>2 DEF SamplesInv

\* One policy's filing keeps what is known of a key it feeds.
LEMMA FiledKey ==
    ASSUME SamplesInv, NEW k \in Keys, NEW r,
           smpPC # "idle", Horizon' = passNow,
           store'[k] = Observe(store[k], TakenOf(k), r),
           seen'[k] = IF seen[k] = None THEN passNow ELSE seen[k],
           \A q \in Policies :
              low'[q][k] = IF ~exceeds(TakenOf(k), Det[q]) THEN passNow
                           ELSE low[q][k]
    PROVE  KeyInv(k)'
<1> DEFINE x   == TakenOf(k)
           old == store[k].samples
           new == store'[k].samples
<1>1. /\ KeyInv(k) /\ Horizon = passNow /\ passNow \in Nat
      /\ x.time = passNow /\ None \notin Nat
  BY SamplingAssumption DEF SamplesInv, Horizon, TakenOf
<1> HIDE DEF x
<1>2. /\ Sane(new, passNow)
      /\ new[Len(new)] = x
      /\ store[k] = None => new[1].time = passNow
      /\ store[k] # None =>
            /\ old[1].time <= new[1].time
            /\ \A i \in DOMAIN old : \/ old[i].time <= new[1].time
                                     \/ \E j \in DOMAIN new : new[j] = old[i]
  <2>1. store[k] # None => Sane(old, x.time)
    BY <1>1 DEF KeyInv
  <2>2. x.time \in Nat /\ store'[k] = Observe(store[k], x, r)
    BY <1>1 DEF x
  <2> QED
    BY <1>1, <2>1, <2>2, ObserveFacts
<1>3. /\ Len(new) \in DOMAIN new /\ 1 \in DOMAIN new
      /\ new[1].time \in Nat
      /\ store[k] # None => old[1].time \in Nat
  <2>1. Len(new) \in DOMAIN new /\ 1 \in DOMAIN new
    BY <1>2 DEF Sane
  <2>2. store[k] # None => 1 \in DOMAIN old
    BY <1>1 DEF KeyInv, Sane
  <2> QED
    BY <1>1, <1>2, <2>1, <2>2 DEF KeyInv, Sane
<1>4. /\ seen'[k] \in Nat /\ seen'[k] <= passNow /\ seen'[k] <= new[1].time
  <2>1. CASE store[k] = None
    BY <1>1, <1>2, <1>3, <2>1 DEF KeyInv
  <2>2. CASE store[k] # None
    <3>1. seen[k] \in Nat /\ seen[k] <= old[1].time /\ seen[k] <= passNow
      BY <1>1, <2>2 DEF KeyInv
    <3>2. seen'[k] = seen[k]
      BY <1>1, <3>1
    <3> QED
      BY <1>2, <1>3, <2>2, <3>1, <3>2
  <2> QED
    BY <2>1, <2>2
<1>5. ASSUME NEW q \in Policies, low'[q][k] \in Nat
      PROVE  /\ low'[q][k] <= passNow
             /\ \/ low'[q][k] <= new[1].time
                \/ \E j \in DOMAIN new : /\ new[j].time = low'[q][k]
                                         /\ ~exceeds(new[j], Det[q])
  <2>1. CASE ~exceeds(x, Det[q])
    <3>1. low'[q][k] = passNow
      BY <2>1 DEF x
    <3> QED
      BY <1>1, <1>2, <1>3, <2>1, <3>1
  <2>2. CASE exceeds(x, Det[q])
    <3>1. low'[q][k] = low[q][k]
      BY <2>2 DEF x
    <3>2. low[q][k] <= passNow
      BY <1>1, <1>5, <3>1 DEF KeyInv
    <3>3. CASE store[k] = None
      BY <1>2, <3>1, <3>2, <3>3
    <3>4. CASE store[k] # None /\ low[q][k] <= old[1].time
      BY <1>2, <1>3, <1>5, <3>1, <3>2, <3>4
    <3>5. CASE /\ store[k] # None
               /\ \E i \in DOMAIN old : /\ old[i].time = low[q][k]
                                        /\ ~exceeds(old[i], Det[q])
      <4>1. PICK i \in DOMAIN old : /\ old[i].time = low[q][k]
                                    /\ ~exceeds(old[i], Det[q])
        BY <3>5
      <4>2. \/ old[i].time <= new[1].time
            \/ \E j \in DOMAIN new : new[j] = old[i]
        BY <1>2, <3>5
      <4> QED
        BY <3>1, <3>2, <4>1, <4>2
    <3> QED
      BY <1>1, <1>5, <3>1, <3>3, <3>4, <3>5 DEF KeyInv
  <2> QED
    BY <2>1, <2>2
<1> QED
  BY <1>2, <1>4, <1>5 DEF KeyInv

LEMMA InvInit == Init => SamplesInv
  BY SamplingAssumption
  DEF Init, PassIdle, EmptyStore, SamplesInv, KeyInv, Horizon

\* A step that does not touch the store, its ghosts or the pass.
LEMMA Untouched ==
    ASSUME SamplesInv, UNCHANGED <<now, store, smpPC, passNow, seen, low>>
    PROVE  SamplesInv'
  BY DEF SamplesInv, KeyInv, Horizon

LEMMA StartPassStep == SamplesInv /\ StartPass => SamplesInv'
<1> SUFFICES ASSUME SamplesInv, StartPass
             PROVE  SamplesInv'
  OBVIOUS
<1>1. /\ UNCHANGED <<now, store, seen, low>> /\ smpPC = "idle"
      /\ \/ UNCHANGED <<smpPC, passNow>>
         \/ passNow' = now /\ smpPC' = "policy"
  BY DEF StartPass, smpVars, ghostVars
<1> QED
  BY <1>1, NothingFiled DEF SamplesInv, Horizon

LEMMA SamplePolicyStep ==
    ASSUME NEW p \in Policies, SamplesInv, SamplePolicy(p)
    PROVE  SamplesInv'
<1>1. /\ UNCHANGED <<now, passNow>> /\ smpPC = "policy" /\ smpPC' \in {"policy", "send"}
      /\ UNCHANGED <<store, ghostVars>> \/ File(p)
  BY DEF SamplePolicy
<1>2. CASE UNCHANGED <<store, ghostVars>>
  <2>1. Horizon' = Horizon
    BY <1>1 DEF Horizon
  <2> QED
    BY <1>1, <1>2, <2>1 DEF SamplesInv, KeyInv, ghostVars
<1>3. CASE File(p)
  <2>1. Horizon' = passNow /\ Horizon = passNow
    BY <1>1 DEF Horizon
  <2> DEFINE hit == {k \in Targets[p] : pods[k].exists /\ usage[k] # None}
  <2>2. /\ store' = [k \in Keys |->
                        IF k \in hit
                        THEN Observe(store[k], TakenOf(k), pods[k].restarts)
                        ELSE store[k]]
        /\ seen' = [k \in Keys |-> IF k \in hit /\ seen[k] = None THEN passNow
                                   ELSE seen[k]]
        /\ low' = [q \in Policies |-> [k \in Keys |->
                      IF k \in hit /\ ~exceeds(TakenOf(k), Det[q]) THEN passNow
                      ELSE low[q][k]]]
    BY <1>3 DEF File
  <2> HIDE DEF hit
  <2>3. ASSUME NEW k \in Keys
        PROVE  KeyInv(k)'
    <3>1. CASE k \in hit
      <4>1. /\ store'[k] = Observe(store[k], TakenOf(k), pods[k].restarts)
            /\ seen'[k] = IF seen[k] = None THEN passNow ELSE seen[k]
            /\ \A q \in Policies :
                 low'[q][k] = IF ~exceeds(TakenOf(k), Det[q]) THEN passNow
                              ELSE low[q][k]
        BY <2>2, <3>1
      <4>2. smpPC # "idle"
        BY <1>1
      <4> QED
        BY <2>1, <4>1, <4>2, FiledKey
    <3>2. CASE k \notin hit
      <4>1. /\ store'[k] = store[k] /\ seen'[k] = seen[k]
            /\ \A q \in Policies : low'[q][k] = low[q][k]
        BY <2>2, <3>2
      <4>2. KeyInv(k)
        BY DEF SamplesInv
      <4> QED
        BY <2>1, <4>1, <4>2 DEF KeyInv
    <3> QED
      BY <3>1, <3>2
  <2>4. /\ store' = [k \in Keys |-> store'[k]]
        /\ seen' = [k \in Keys |-> seen'[k]]
        /\ low' = [q \in Policies |-> [k \in Keys |-> low'[q][k]]]
    BY <2>2
  <2> QED
    BY <1>1, <2>1, <2>3, <2>4 DEF SamplesInv
<1> QED
  BY <1>1, <1>2, <1>3

LEMMA EndPassStep == SamplesInv /\ EndPass => SamplesInv'
<1> SUFFICES ASSUME SamplesInv, EndPass
             PROVE  SamplesInv'
  OBVIOUS
<1>1. /\ UNCHANGED <<now, seen, low>> /\ smpPC = "policy" /\ smpPC' = "idle"
      /\ passNow' = 0
      /\ store' = [k \in Keys |-> IF k \in live THEN store[k] ELSE None]
  BY DEF EndPass, ResetPass, Prune
<1>2. /\ \A k \in Keys : store'[k] \in {store[k], None}
      /\ store' = [k \in Keys |-> store'[k]]
  BY <1>1
<1> QED
  BY <1>1, <1>2, NothingFiled DEF SamplesInv, Horizon

LEMMA TickStep == SamplesInv /\ Tick => SamplesInv'
<1> SUFFICES ASSUME SamplesInv, Tick
             PROVE  SamplesInv'
  OBVIOUS
<1>1. now' = now + 1 /\ UNCHANGED <<store, smpPC, passNow, seen, low>>
  BY DEF Tick, smpVars, ghostVars
<1> QED
  BY <1>1, NothingFiled DEF SamplesInv, Horizon

LEMMA FailoverStep == SamplesInv /\ Failover => SamplesInv'
<1> SUFFICES ASSUME SamplesInv, Failover
             PROVE  SamplesInv'
  OBVIOUS
<1>1. /\ UNCHANGED <<now, seen, low>> /\ smpPC' = "idle" /\ passNow' = 0
      /\ store' = [k \in Keys |-> None]
  BY DEF Failover, ResetPass, EmptyStore
<1> QED
  BY <1>1, NothingFiled DEF SamplesInv, Horizon

LEMMA InvStep == SamplesInv /\ [Next]_vars => SamplesInv'
<1> SUFFICES ASSUME SamplesInv, [Next]_vars
             PROVE  SamplesInv'
  OBVIOUS
<1>1. CASE StartPass
  BY <1>1, StartPassStep
<1>2. ASSUME NEW p \in Policies, SamplePolicy(p)
      PROVE  SamplesInv'
  BY <1>2, SamplePolicyStep
<1>3. CASE SendEvent
  <2>1. UNCHANGED <<now, store, passNow, seen, low>> /\ Horizon' = Horizon
    BY <1>3 DEF SendEvent, ghostVars, Horizon
  <2> QED
    BY <2>1 DEF SamplesInv, KeyInv
<1>4. CASE EndPass
  BY <1>4, EndPassStep
<1>5. CASE Deliver
  BY <1>5, Untouched DEF Deliver, smpVars, ghostVars
<1>6. ASSUME NEW p \in Policies, Scan(p) \/ Requeue(p)
      PROVE  SamplesInv'
  BY <1>6, Untouched DEF Scan, Requeue, smpVars, ghostVars
<1>7. ASSUME NEW k \in Keys, RestartContainer(k) \/ DeletePod(k) \/ CreatePod(k)
      PROVE  SamplesInv'
  BY <1>7, Untouched
  DEF RestartContainer, DeletePod, CreatePod, ChangePod, smpVars, ghostVars
<1>8. CASE Tick
  BY <1>8, TickStep
<1>9. CASE Failover
  BY <1>9, FailoverStep
<1>10. CASE UNCHANGED vars
  BY <1>10, Untouched DEF vars, smpVars, ghostVars
<1> QED
  BY <1>1, <1>2, <1>3, <1>4, <1>5, <1>6, <1>7, <1>8, <1>9, <1>10
  DEF Next, Step, Sampler

\* The conjunction is an invariant of every instance.
THEOREM SamplesInvariance == Spec => []SamplesInv
<1> QED
  BY InvInit, InvStep, PTL DEF Spec

-----------------------------------------------------------------------------
\* What follows from it.

LEMMA SaneSeries == SamplesInv => SeriesSane
<1> SUFFICES ASSUME SamplesInv, NEW k \in Keys, store[k] # None
             PROVE  Sane(store[k].samples, now)
  BY DEF SeriesSane, Sane
<1>1. /\ Sane(store[k].samples, Horizon)
      /\ Horizon \in Int /\ now \in Int /\ Horizon <= now
  BY DEF SamplesInv, KeyInv, Horizon
<1> QED
  BY <1>1, SaneLater

\* SampleStore's promise to the detectors, for any cap and retention that
\* main.go derives: sampler.go and buffer.go keep every series in order,
\* bounded, and behind the clock.
THEOREM SeriesTheorem == Spec => []SeriesSane
<1> QED
  BY SamplesInvariance, SaneSeries, PTL

\* A series on which Detect finds a sustained leak begins a window ago, and
\* every sample in the window is over the threshold.
LEMMA SustainedFacts ==
    ASSUME NEW s, NEW d, NEW t, Detect(s, d, t), d.mode # "trend"
    PROVE  /\ Len(s) >= 2 /\ s[1].time + d.window <= t
           /\ \A i \in DOMAIN s : s[i].time + d.window >= t => exceeds(s[i], d)
  BY DEF Detect, WindowCovered, WindowSamples, allExceed

LEMMA ScanSustained ==
    ASSUME SamplesInv, NEW p \in Policies, NEW k \in Targets[p], now \in Nat,
           Detect(Samples(store[k]), Det[p], now), Det[p].mode # "trend"
    PROVE  /\ seen[k] <= now - Det[p].window
           /\ low[p][k] \in Nat => low[p][k] <= now - Det[p].window
<1> DEFINE s == store[k].samples
           w == Det[p].window
<1>1. k \in Keys /\ w \in Nat
  BY SamplingAssumption DEF Detection
<1>2. store[k] # None /\ Samples(store[k]) = s
  <2>1. store[k] = None => Samples(store[k]) = <<>>
    BY DEF Samples
  <2>2. Len(<<>>) = 0
    OBVIOUS
  <2> QED
    BY <2>1, <2>2, SustainedFacts DEF Samples
<1>3. /\ s[1].time + w <= now
      /\ \A i \in DOMAIN s : s[i].time + w >= now => exceeds(s[i], Det[p])
  BY <1>2, SustainedFacts
<1>4. /\ Sane(s, Horizon)
      /\ seen[k] \in Nat /\ seen[k] <= s[1].time
      /\ low[p][k] \in Nat =>
            \/ low[p][k] <= s[1].time
            \/ \E i \in DOMAIN s : /\ s[i].time = low[p][k]
                                   /\ ~exceeds(s[i], Det[p])
  BY <1>1, <1>2 DEF SamplesInv, KeyInv
<1>5. \A i \in DOMAIN s : s[i].time \in Nat
  BY <1>4 DEF Sane
<1>6. 1 \in DOMAIN s
  BY <1>4 DEF Sane
<1> HIDE DEF s, w
<1>7. seen[k] <= now - w
  BY <1>1, <1>3, <1>4, <1>5, <1>6
<1>8. low[p][k] \in Nat => low[p][k] <= now - w
  BY <1>1, <1>3, <1>4, <1>5, <1>6
<1> QED
  BY <1>7, <1>8 DEF w

LEMMA AlarmStep ==
    ASSUME SamplesInv, [Next]_vars, alarm' \notin {alarm, None},
           Det[alarm'.policy].mode # "trend"
    PROVE  LET begin == now - Det[alarm'.policy].window
           IN  /\ seen[alarm'.key] <= begin
               /\ low[alarm'.policy][alarm'.key] \in Nat =>
                    low[alarm'.policy][alarm'.key] <= begin
<1>1. \E p \in Policies : Scan(p)
  BY DEF Next, Step, Sampler, StartPass, SamplePolicy, SendEvent, EndPass, Deliver,
         Requeue, RestartContainer, DeletePod, CreatePod, ChangePod, Tick,
         Failover, vars
<1>2. PICK p \in Policies : Scan(p)
  BY <1>1
<1>3. PICK k \in Targets[p] : /\ Detect(Samples(store[k]), Det[p], now)
                              /\ alarm' = [policy |-> p, key |-> k, at |-> now]
  BY <1>2 DEF Scan
<1>4. now \in Nat
  BY DEF SamplesInv
<1> QED
  BY <1>3, <1>4, ScanSustained

\* The reconciler's sustained (and combined) leaks: whatever the passes, reads,
\* restarts, evictions and leaders, one is reported only on a container first
\* sampled a window ago and with no later sample under the threshold.
THEOREM AlarmTheorem == Spec => AlarmIsSustained
<1>1. SamplesInv /\ [Next]_vars =>
        [alarm' \notin {alarm, None} /\ Det[alarm'.policy].mode # "trend" =>
            LET begin == now - Det[alarm'.policy].window
            IN  /\ seen[alarm'.key] <= begin
                /\ low[alarm'.policy][alarm'.key] \in Nat =>
                        low[alarm'.policy][alarm'.key] <= begin]_vars
  BY AlarmStep
<1> QED
  BY <1>1, SamplesInvariance, PTL DEF Spec, AlarmIsSustained

-----------------------------------------------------------------------------
\* Warm-up: what trimming leaves of an uninterrupted series.

\* The tick that a time belongs to.
Slot(t) == t \div SampleEvery

\* A detection window that the limits of main.go can cover.
reach == WindowFlag + SampleEvery

LEMMA SlotFacts ==
    ASSUME NEW t \in Nat
    PROVE  /\ SampleEvery \in Nat /\ SampleEvery >= 1
           /\ Slot(t) \in Nat
           /\ Slot(t) * SampleEvery \in Nat
           /\ Slot(t) * SampleEvery <= t
           /\ t < Slot(t) * SampleEvery + SampleEvery
<1>1. SampleEvery \in Nat /\ SampleEvery >= 1
  BY StoreAssumption
<1>2. t \div SampleEvery \in Nat
  BY <1>1
<1>3. t % SampleEvery \in 0 .. (SampleEvery - 1)
  BY <1>1
<1>4. t = SampleEvery * (t \div SampleEvery) + (t % SampleEvery)
  BY <1>1
<1>5. SampleEvery * (t \div SampleEvery) = (t \div SampleEvery) * SampleEvery
  BY <1>1, <1>2
<1>6. (t \div SampleEvery) * SampleEvery \in Nat
  BY <1>1, <1>2
<1> QED
  BY <1>1, <1>2, <1>3, <1>4, <1>5, <1>6 DEF Slot

\* More slots are more time.
LEMMA SlotsApart ==
    ASSUME NEW a \in Nat, NEW b \in Nat, NEW k \in Nat, a + k <= b
    PROVE  a * SampleEvery + k * SampleEvery <= b * SampleEvery
<1>1. SampleEvery \in Nat
  BY StoreAssumption
<1>2. PICK d \in Nat : b = a + k + d
  <2>1. b - a - k \in Nat /\ b = a + k + (b - a - k)
    OBVIOUS
  <2> QED
    BY <2>1
<1>3. b * SampleEvery = a * SampleEvery + k * SampleEvery + d * SampleEvery
  BY <1>1, <1>2
<1>4. /\ d * SampleEvery \in Nat /\ a * SampleEvery \in Nat
      /\ k * SampleEvery \in Nat
  BY <1>1
<1> QED
  BY <1>3, <1>4

LEMMA SlotsInOrder ==
    ASSUME NEW t \in Nat, NEW u \in Nat
    PROVE  /\ t <= u => Slot(t) <= Slot(u)
           /\ Slot(t) < Slot(u) => t < u
           /\ t < u /\ u % SampleEvery = 0 => Slot(t) < Slot(u)
<1>1. /\ SampleEvery \in Nat /\ Slot(t) \in Nat /\ Slot(u) \in Nat
      /\ Slot(t) * SampleEvery \in Nat /\ Slot(u) * SampleEvery \in Nat
      /\ Slot(t) * SampleEvery <= t /\ t < Slot(t) * SampleEvery + SampleEvery
      /\ Slot(u) * SampleEvery <= u /\ u < Slot(u) * SampleEvery + SampleEvery
  BY SlotFacts
<1>2. 1 * SampleEvery = SampleEvery /\ 0 * SampleEvery = 0
  BY <1>1
<1>3. Slot(u) < Slot(t) => Slot(u) * SampleEvery + SampleEvery <= Slot(t) * SampleEvery
  <2> SUFFICES ASSUME Slot(u) < Slot(t)
               PROVE  Slot(u) * SampleEvery + SampleEvery <= Slot(t) * SampleEvery
    OBVIOUS
  <2>1. Slot(u) + 1 <= Slot(t)
    BY <1>1
  <2> QED
    BY <1>1, <1>2, <2>1, SlotsApart
<1>4. Slot(t) < Slot(u) => Slot(t) * SampleEvery + SampleEvery <= Slot(u) * SampleEvery
  <2> SUFFICES ASSUME Slot(t) < Slot(u)
               PROVE  Slot(t) * SampleEvery + SampleEvery <= Slot(u) * SampleEvery
    OBVIOUS
  <2>1. Slot(t) + 1 <= Slot(u)
    BY <1>1
  <2> QED
    BY <1>1, <1>2, <2>1, SlotsApart
<1>5. u % SampleEvery = 0 => u = Slot(u) * SampleEvery
  <2>1. u = SampleEvery * (u \div SampleEvery) + (u % SampleEvery)
    BY StoreAssumption
  <2>2. SampleEvery * (u \div SampleEvery) = Slot(u) * SampleEvery
    BY <1>1 DEF Slot
  <2> QED
    BY <1>1, <2>1, <2>2
<1>6. Slot(t) = Slot(u) => Slot(t) * SampleEvery = Slot(u) * SampleEvery
  OBVIOUS
<1> QED
  BY <1>1, <1>3, <1>4, <1>5, <1>6

\* maxLen samples of different ticks reach back far enough.
LEMMA CapReaches ==
    ASSUME NEW t \in Nat, NEW u \in Nat, Slot(t) + (maxLen - 1) <= Slot(u)
    PROVE  t + reach <= u
<1> DEFINE q == WindowFlag \div SampleEvery
<1>1. /\ SampleEvery \in Nat /\ SampleEvery >= 1 /\ WindowFlag \in Nat
      /\ q \in Nat /\ q * SampleEvery \in Nat
      /\ WindowFlag < q * SampleEvery + SampleEvery
  BY SlotFacts, StoreAssumption DEF Slot
<1>2. /\ Slot(t) \in Nat /\ Slot(u) \in Nat
      /\ Slot(t) * SampleEvery \in Nat /\ Slot(u) * SampleEvery \in Nat
      /\ t < Slot(t) * SampleEvery + SampleEvery
      /\ Slot(u) * SampleEvery <= u
  BY SlotFacts
<1> HIDE DEF q
<1>3. maxLen - 1 = q + 7
  BY <1>1 DEF maxLen, q
<1>4. Slot(t) * SampleEvery + (q + 7) * SampleEvery <= Slot(u) * SampleEvery
  <2>1. q + 7 \in Nat /\ Slot(t) + (q + 7) <= Slot(u)
    BY <1>1, <1>3
  <2> QED
    BY <1>2, <2>1, SlotsApart
<1>5. (q + 7) * SampleEvery = q * SampleEvery + 7 * SampleEvery
  BY <1>1
<1> QED
  BY <1>1, <1>2, <1>4, <1>5 DEF reach

\* What TooOld counts is too old, the last of it included.
LEMMA TooOldDropped ==
    ASSUME NEW S, NEW s \in Seq(S), NEW t, TooOld(s, t) \in 1 .. Len(s)
    PROVE  s[TooOld(s, t)].time + retention < t
<1> DEFINE old == {i \in DOMAIN s : \A j \in 1 .. i : s[j].time + retention < t}
           n == TooOld(s, t)
<1>1. n = Cardinality(old) /\ n \in 1 .. Len(s) /\ Len(s) \in Nat
  BY DEF TooOld
<1>2. DOMAIN s = 1 .. Len(s)
  OBVIOUS
<1> HIDE DEF n
<1>3. n \in old
  <2> SUFFICES ASSUME n \notin old PROVE FALSE
    OBVIOUS
  <2> DEFINE top == n - 1
  <2>1. old \subseteq 1 .. top
    <3> SUFFICES ASSUME NEW i \in old PROVE i \in 1 .. top
      OBVIOUS
    <3>1. i \in 1 .. Len(s) /\ \A j \in 1 .. i : s[j].time + retention < t
      BY <1>2
    <3>2. ASSUME n <= i PROVE FALSE
      <4>1. n \in DOMAIN s /\ \A j \in 1 .. n : j \in 1 .. i
        <5> HIDE DEF old
        <5> QED
          BY <1>1, <1>2, <3>1, <3>2
      <4>2. \A j \in 1 .. n : s[j].time + retention < t
        BY <3>1, <4>1
      <4> QED
        BY <4>1, <4>2
    <3> HIDE DEF old
    <3> QED
      BY <1>1, <3>1, <3>2
  <2> HIDE DEF old
  <2>2. top \in Nat
    BY <1>1
  <2>3. IsFiniteSet(1 .. top) /\ Cardinality(1 .. top) = top
    <3> HIDE DEF top
    <3> QED
      BY <2>2, FS_Interval
  <2>4. Cardinality(old) <= top
    <3> HIDE DEF top
    <3> QED
      BY <2>1, <2>3, FS_Subset
  <2> QED
    BY <1>1, <2>4
<1>4. s[n].time + retention < t
  BY <1>1, <1>3
<1> QED
  BY <1>4 DEF n

\* The series that Observe makes of one it does not reset: a suffix of the old
\* one with the new sample.  What was dropped is too old, or the cap is reached.
LEMMA ObserveContinues ==
    ASSUME NEW ser, NEW x, NEW r, x.time \in Nat, ser # None,
           ~(r > ser.lastRestarts), Sane(ser.samples, x.time)
    PROVE  LET all == Append(ser.samples, x)
               new == Observe(ser, x, r).samples
           IN  \E drop \in 0 .. Len(ser.samples) :
                  /\ Len(new) = Len(all) - drop
                  /\ \A i \in 1 .. Len(new) : new[i] = all[i + drop]
                  /\ drop > 0 => \/ all[drop].time + retention < x.time
                                 \/ Len(new) = maxLen
<1> DEFINE kept == ser.samples
           all  == Append(kept, x)
           n    == TooOld(all, x.time)
           over == Len(all) - maxLen
           drop == Max({n, over})
           new  == SubSeq(all, drop + 1, Len(all))
           S    == {kept[i] : i \in DOMAIN kept} \cup {x}
<1>0. Observe(ser, x, r).samples = new
  BY DEF Observe
<1>1. /\ Sane(kept, x.time) /\ kept \in Seq({kept[i] : i \in DOMAIN kept})
      /\ Len(kept) \in 1 .. maxLen
  BY DEF Sane
<1> HIDE DEF kept
<1>2. kept \in Seq(S) /\ x \in S
  BY <1>1, SeqMonotonic
<1> HIDE DEF S
<1>3. /\ all \in Seq(S) /\ Len(all) = Len(kept) + 1 /\ Len(kept) \in Nat
      /\ DOMAIN all = 1 .. Len(all) /\ DOMAIN kept = 1 .. Len(kept)
      /\ \A i \in DOMAIN kept : all[i] = kept[i]
      /\ all[Len(all)] = x
  BY <1>2
<1>4. \A i \in DOMAIN kept : kept[i].time \in Nat /\ kept[i].time <= x.time
  <2>1. Len(kept) \in DOMAIN kept
    BY <1>1, <1>3
  <2> TAKE i \in DOMAIN kept
  <2>2. kept[i].time \in Nat /\ kept[Len(kept)].time \in Nat
    BY <1>1, <2>1 DEF Sane
  <2>3. i = Len(kept) \/ i < Len(kept)
    BY <1>3
  <2>4. kept[i].time <= kept[Len(kept)].time
    BY <1>1, <2>1, <2>2, <2>3 DEF Sane
  <2> QED
    BY <1>1, <2>2, <2>4 DEF Sane
<1>5. Ordered(all)
  <2>1. \A i \in DOMAIN all : all[i].time \in Nat
    BY <1>3, <1>4
  <2>2. ASSUME NEW i \in DOMAIN all, NEW j \in DOMAIN all, i < j
        PROVE  all[i].time <= all[j].time
    <3>1. i \in DOMAIN kept
      BY <1>3, <2>2
    <3>2. CASE j \in DOMAIN kept
      BY <1>1, <1>3, <2>2, <3>1, <3>2 DEF Sane
    <3>3. CASE j = Len(all)
      BY <1>3, <1>4, <3>1, <3>3
    <3> QED
      BY <1>3, <3>2, <3>3
  <2> QED
    BY <2>1, <2>2 DEF Ordered
<1>6. /\ drop \in 0 .. Len(kept)
      /\ Len(new) = Len(all) - drop
      /\ \A i \in 1 .. Len(new) : new[i] = all[i + drop]
  BY <1>2, <1>5, TrimFacts
<1>7. n \in 0 .. Len(kept)
  <2>1. Len(all) >= 1
    BY <1>3
  <2>2. /\ \A i \in DOMAIN all : all[i].time \in Nat
        /\ \A i, j \in DOMAIN all : i < j => all[i].time <= all[j].time
    BY <1>5 DEF Ordered
  <2> HIDE DEF all
  <2>3. TooOld(all, all[Len(all)].time) \in 0 .. (Len(all) - 1)
    BY <1>3, <2>1, <2>2, TooOldBounds
  <2> QED
    BY <1>3, <2>3
<1>8. n > 0 => all[n].time + retention < x.time
  <2> HIDE DEF all
  <2>1. n > 0 => n \in 1 .. Len(all)
    BY <1>3, <1>7
  <2> QED
    BY <1>3, <2>1, TooOldDropped
<1> HIDE DEF n, all
<1>9. over \in Int /\ over = Len(all) - maxLen
  BY <1>3, Limits
<1> HIDE DEF over
<1>10. drop \in {n, over}
  <2>1. n \in Int
    BY <1>7
  <2> QED
    BY <1>9, <2>1, MaxOfTwo
<1> HIDE DEF drop, new
<1>11. drop > 0 => all[drop].time + retention < x.time \/ Len(new) = maxLen
  <2>1. CASE drop = n
    BY <1>8, <2>1
  <2>2. CASE drop = over
    BY <1>3, <1>6, <1>9, <2>2, Limits
  <2> QED
    BY <1>10, <2>1, <2>2
<1> QED
  BY <1>0, <1>6, <1>11 DEF all, kept

\* The series that Observe begins.
LEMMA ObserveBegins ==
    ASSUME NEW ser, NEW x, NEW r, x.time \in Nat,
           ser = None \/ r > ser.lastRestarts
    PROVE  LET new == Observe(ser, x, r).samples
           IN  Len(new) = 1 /\ new[1] = x
<1> DEFINE all  == Append(<<>>, x)
           drop == Max({TooOld(all, x.time), Len(all) - maxLen})
           new  == SubSeq(all, drop + 1, Len(all))
<1>1. Observe(ser, x, r).samples = new
  BY DEF Observe
<1>2. <<>> \in Seq({x}) /\ x \in {x} /\ Len(<<>>) = 0
  OBVIOUS
<1>3. all = <<x>>
  OBVIOUS
<1>4. Ordered(all)
  BY <1>3 DEF Ordered
<1>5. /\ drop \in 0 .. Len(<<>>)
      /\ Len(new) = Len(all) - drop
      /\ \A i \in 1 .. Len(new) : new[i] = all[i + drop]
  BY <1>2, <1>4, TrimFacts
<1> HIDE DEF drop, new
<1>6. drop = 0 /\ Len(all) = 1 /\ all[1] = x
  BY <1>2, <1>3, <1>5
<1> HIDE DEF all
<1> QED
  BY <1>1, <1>5, <1>6

\* What an uninterrupted series keeps: its samples are of different ticks; it
\* goes back to the start of the run of samples, or far enough for a window;
\* and within the run no gap is longer than the default window.
WarmSeries(s, start) ==
    /\ start \in Nat /\ start <= s[Len(s)].time
    /\ \A i, j \in DOMAIN s :
         i < j => Slot(s[i].time) + (j - i) <= Slot(s[j].time)
    /\ s[1].time <= start \/ s[1].time + reach <= s[Len(s)].time
    /\ \A i \in 1 .. (Len(s) - 1) :
         s[i + 1].time > start =>
            s[i].time >= start /\ s[i + 1].time <= s[i].time + WindowFlag

\* The last sample of k is of an earlier tick than t.
LastSlotBefore(k, t) ==
    store[k] # None =>
        Slot(store[k].samples[Len(store[k].samples)].time) < Slot(t)

\* The inductive invariant behind WarmsUp: besides the series, a tick in the
\* channel is later than what has been filed, and so is the pass in progress,
\* for the containers of the policies it has yet to visit.
WarmInv ==
    /\ todo \subseteq Policies
    /\ \A k \in Keys : store[k] # None => WarmSeries(store[k].samples, since[k])
    /\ ticked =>
        /\ \A k \in Keys : LastSlotBefore(k, now)
        /\ smpPC # "idle" => Slot(passNow) < Slot(now)
    /\ smpPC # "idle" =>
        \A p \in todo : \A k \in Targets[p] : LastSlotBefore(k, passNow)

\* What is known of the members of a sane series.
LEMMA SaneFacts ==
    ASSUME NEW s, NEW t \in Nat, Sane(s, t)
    PROVE  /\ s \in Seq({s[i] : i \in DOMAIN s})
           /\ Len(s) \in Nat /\ Len(s) >= 1 /\ DOMAIN s = 1 .. Len(s)
           /\ 1 \in 1 .. Len(s) /\ Len(s) \in 1 .. Len(s)
           /\ \A i \in 1 .. Len(s) : /\ s[i].time \in Nat /\ s[i].time <= t
                                     /\ s[1].time <= s[i].time
                                     /\ s[i].time <= s[Len(s)].time
<1>1. /\ s \in Seq({s[i] : i \in DOMAIN s})
      /\ Len(s) \in Nat /\ Len(s) >= 1
      /\ \A i \in DOMAIN s : s[i].time \in Nat
      /\ \A i, j \in DOMAIN s : i < j => s[i].time <= s[j].time
      /\ s[Len(s)].time <= t
  BY Limits DEF Sane
<1>2. DOMAIN s = 1 .. Len(s) /\ Len(s) \in Nat /\ Len(s) >= 1
  BY <1>1
<1>3. ASSUME NEW i \in 1 .. Len(s)
      PROVE  /\ s[i].time \in Nat /\ s[i].time <= t
             /\ s[1].time <= s[i].time /\ s[i].time <= s[Len(s)].time
  <2>1. /\ i \in DOMAIN s /\ 1 \in DOMAIN s /\ Len(s) \in DOMAIN s
        /\ i = 1 \/ 1 < i
        /\ i = Len(s) \/ i < Len(s)
    <3> DEFINE l == Len(s)
    <3>1. l \in Nat /\ l >= 1 /\ i \in 1 .. l /\ DOMAIN s = 1 .. l
      BY <1>2
    <3> HIDE DEF l
    <3>2. /\ i \in DOMAIN s /\ 1 \in DOMAIN s /\ l \in DOMAIN s
          /\ i = 1 \/ 1 < i
          /\ i = l \/ i < l
      BY <3>1
    <3> QED
      BY <3>2 DEF l
  <2>2. s[i].time \in Nat /\ s[1].time \in Nat /\ s[Len(s)].time \in Nat
    BY <1>1, <2>1
  <2>3. s[1].time <= s[i].time
    BY <1>1, <2>1, <2>2
  <2>4. s[i].time <= s[Len(s)].time
    BY <1>1, <2>1, <2>2
  <2> QED
    BY <1>1, <2>2, <2>3, <2>4
<1>4. 1 \in 1 .. Len(s) /\ Len(s) \in 1 .. Len(s)
  <2> DEFINE l == Len(s)
  <2>1. l \in Nat /\ l >= 1
    BY <1>2
  <2> HIDE DEF l
  <2>2. 1 \in 1 .. l /\ l \in 1 .. l
    BY <2>1
  <2> QED
    BY <2>2 DEF l
<1> QED
  BY <1>1, <1>2, <1>3, <1>4

\* A new sample of a later tick keeps that of a series that is not reset.
LEMMA WarmContinues ==
    ASSUME NEW ser, NEW x, NEW r, NEW start, x.time \in Nat, ser # None,
           ~(r > ser.lastRestarts), Sane(ser.samples, x.time),
           WarmSeries(ser.samples, start),
           Slot(ser.samples[Len(ser.samples)].time) < Slot(x.time)
    PROVE  WarmSeries(Observe(ser, x, r).samples,
                      IF x.time > ser.samples[Len(ser.samples)].time + WindowFlag
                      THEN x.time ELSE start)
<1> DEFINE old  == ser.samples
           n    == Len(old)
           all  == Append(old, x)
           new  == Observe(ser, x, r).samples
           len  == Len(new)
           gap  == x.time > old[n].time + WindowFlag
           from == IF gap THEN x.time ELSE start
<1>1. /\ Sane(new, x.time) /\ new[len] = x
  BY ObserveFacts
<1>2. PICK drop \in 0 .. n :
         /\ len = Len(all) - drop
         /\ \A i \in 1 .. len : new[i] = all[i + drop]
         /\ drop > 0 => all[drop].time + retention < x.time \/ len = maxLen
  BY ObserveContinues
<1> HIDE DEF new
<1>3. /\ n \in Nat /\ n >= 1 /\ DOMAIN old = 1 .. n
      /\ old \in Seq({old[i] : i \in DOMAIN old})
      /\ \A i \in 1 .. n : old[i].time \in Nat /\ old[i].time <= x.time
  BY SaneFacts
<1>4. /\ Len(all) = n + 1 /\ all[n + 1] = x
      /\ \A i \in 1 .. n : all[i] = old[i]
  BY <1>3
<1>5. /\ start \in Nat /\ start <= old[n].time
      /\ \A i, j \in 1 .. n :
            i < j => Slot(old[i].time) + (j - i) <= Slot(old[j].time)
      /\ old[1].time <= start \/ old[1].time + reach <= old[n].time
      /\ \A i \in 1 .. (n - 1) :
            old[i + 1].time > start =>
               old[i].time >= start /\ old[i + 1].time <= old[i].time + WindowFlag
  BY <1>3 DEF WarmSeries
<1>6. Slot(old[n].time) < Slot(x.time)
  OBVIOUS
<1> HIDE DEF old, n, all
<1>7. /\ WindowFlag \in Nat /\ retention \in Nat /\ maxLen \in Nat /\ reach \in Nat
      /\ retention = 2 * WindowFlag + SampleEvery /\ reach = WindowFlag + SampleEvery
      /\ SampleEvery \in Nat /\ SampleEvery >= 1
  BY Limits, StoreAssumption DEF reach, retention
<1>8. \A i \in 1 .. (n + 1) : all[i].time \in Nat /\ all[i].time <= x.time
  BY <1>3, <1>4
<1>9. ASSUME NEW i \in 1 .. (n + 1), NEW j \in 1 .. (n + 1), i < j
      PROVE  Slot(all[i].time) + (j - i) <= Slot(all[j].time)
  <2>0. i \in 1 .. n /\ n \in Nat /\ n \in 1 .. n
    <3>1. n \in Nat /\ n >= 1
      BY <1>3
    <3> QED
      BY <1>9, <3>1
  <2>1. i \in 1 .. n /\ all[i] = old[i] /\ Slot(old[i].time) \in Nat
    BY <1>3, <1>4, <2>0, SlotFacts
  <2>2. CASE j \in 1 .. n
    BY <1>4, <1>5, <1>9, <2>1, <2>2
  <2>3. CASE j = n + 1
    <3>1. /\ all[j] = x /\ Slot(x.time) \in Nat /\ Slot(old[n].time) \in Nat
      <4>1. all[j] = x /\ old[n].time \in Nat
        BY <1>3, <1>4, <2>0, <2>3
      <4> QED
        BY <4>1, SlotFacts
    <3>2. Slot(old[i].time) + (n - i) <= Slot(old[n].time)
      <4>1. CASE i = n
        BY <2>1, <3>1, <4>1
      <4>2. CASE i < n
        <5>1. n \in 1 .. n
          BY <1>3
        <5> QED
          BY <1>5, <2>1, <4>2, <5>1
      <4> QED
        BY <2>1, <1>3, <4>1, <4>2
    <3> QED
      BY <1>3, <1>6, <2>1, <2>3, <3>1, <3>2
  <2> QED
    BY <1>3, <2>2, <2>3
<1>10. ASSUME ~gap, NEW i \in 1 .. n, all[i + 1].time > start
       PROVE  all[i].time >= start /\ all[i + 1].time <= all[i].time + WindowFlag
  <2>1. CASE i = n
    <3>1. all[i] = old[n] /\ all[i + 1] = x
      BY <1>4, <2>1
    <3> QED
      BY <1>3, <1>5, <1>7, <1>10, <3>1
  <2>2. CASE i < n
    <3>1. i \in 1 .. (n - 1) /\ i + 1 \in 1 .. n
      BY <1>3, <2>2
    <3>2. all[i] = old[i] /\ all[i + 1] = old[i + 1]
      BY <1>4, <3>1
    <3> QED
      BY <1>5, <1>10, <3>1, <3>2
  <2> QED
    BY <1>3, <2>1, <2>2
<1>11. /\ len \in Nat /\ len >= 1 /\ len = n + 1 - drop /\ DOMAIN new = 1 .. len
  BY <1>1, <1>2, <1>3, <1>4, SaneFacts
<1> HIDE DEF len
<1>20. drop \in Nat /\ drop <= n /\ n \in Nat /\ len \in Nat /\ len = n + 1 - drop
  BY <1>3, <1>11
<1>12. \A i \in 1 .. len : i + drop \in 1 .. (n + 1) /\ new[i] = all[i + drop]
  BY <1>2, <1>20
<1>13. \A i, j \in 1 .. len :
          i < j => Slot(new[i].time) + (j - i) <= Slot(new[j].time)
  <2> TAKE i, j \in 1 .. len
  <2> HAVE i < j
  <2>1. Slot(all[i + drop].time) + ((j + drop) - (i + drop)) <= Slot(all[j + drop].time)
    <3>1. i + drop \in 1 .. (n + 1) /\ j + drop \in 1 .. (n + 1) /\ i + drop < j + drop
      BY <1>20
    <3> QED
      BY <1>9, <3>1
  <2>2. (j + drop) - (i + drop) = j - i
    BY <1>20
  <2> QED
    BY <1>12, <2>1, <2>2
<1>14. new[1] = all[1 + drop] /\ 1 \in 1 .. len /\ new[len] = x
       /\ new[1].time \in Nat /\ new[1].time <= x.time
  BY <1>1, <1>8, <1>11, <1>12 DEF len
<1>15. CASE gap
  <2>1. from = x.time
    BY <1>15
  <2>2. \A i \in 1 .. (len - 1) : ~(new[i + 1].time > from)
    <3> TAKE i \in 1 .. (len - 1)
    <3>1. i + 1 \in 1 .. len
      BY <1>11
    <3>2. new[i + 1].time \in Nat /\ new[i + 1].time <= x.time
      BY <1>8, <1>12, <3>1
    <3> QED
      BY <2>1, <3>2
  <2>3. WarmSeries(new, from)
    <3> HIDE DEF from, gap
    <3>1. Len(new) = len /\ DOMAIN new = 1 .. len
      BY <1>11 DEF len
    <3>2. from \in Nat /\ from <= new[len].time /\ new[1].time <= from
      BY <1>14, <2>1
    <3> QED
      BY <1>13, <2>2, <3>1, <3>2 DEF WarmSeries
  <2> QED
    BY <2>3 DEF new, gap, old, n
<1>16. CASE ~gap
  <2>1. from = start
    BY <1>16
  <2>2. \A i \in 1 .. (len - 1) :
           new[i + 1].time > start =>
              new[i].time >= start /\ new[i + 1].time <= new[i].time + WindowFlag
    <3> TAKE i \in 1 .. (len - 1)
    <3>1. /\ i + drop \in 1 .. n /\ i \in 1 .. len /\ i + 1 \in 1 .. len
          /\ (i + 1) + drop = (i + drop) + 1
      BY <1>20
    <3>2. new[i] = all[i + drop] /\ new[i + 1] = all[(i + drop) + 1]
      BY <1>12, <3>1
    <3> QED
      BY <1>10, <1>16, <3>1, <3>2
  <2>3. new[1].time <= start \/ new[1].time + reach <= x.time
    <3> SUFFICES ASSUME new[1].time > start PROVE new[1].time + reach <= x.time
      BY <1>5, <1>14
    <3>1. CASE drop = 0
      <4>1. new[1] = old[1] /\ old[n].time <= x.time
        BY <1>3, <1>4, <1>14, <3>1
      <4>2. old[n].time \in Nat /\ old[1].time \in Nat
        BY <1>3
      <4> QED
        BY <1>5, <1>7, <4>1, <4>2
    <3>2. CASE drop > 0 /\ len = maxLen
      <4>1. Slot(new[1].time) + (maxLen - 1) <= Slot(x.time)
        <5>1. CASE len = 1
          <6>1. new[1] = x /\ maxLen - 1 = 0
            BY <1>14, <3>2, <5>1
          <6>2. Slot(x.time) \in Nat
            BY SlotFacts
          <6> QED
            BY <6>1, <6>2
        <5>2. CASE 1 < len
          <6>1. len \in 1 .. len
            BY <1>11
          <6> QED
            BY <1>13, <1>14, <3>2, <5>2, <6>1
        <5> QED
          BY <1>11, <5>1, <5>2
      <4> QED
        BY <1>14, <4>1, CapReaches
    <3>3. CASE drop > 0 /\ all[drop].time + retention < x.time
      <4>1. drop \in 1 .. n /\ all[drop].time \in Nat /\ 1 + drop = drop + 1
        BY <1>2, <1>3, <1>8, <3>3
      <4>2. new[1].time <= all[drop].time + WindowFlag
        BY <1>10, <1>14, <1>16, <4>1
      <4> QED
        BY <1>7, <1>14, <3>3, <4>1, <4>2
    <3> QED
      BY <1>2, <3>1, <3>2, <3>3
  <2>4. start <= x.time
    BY <1>3, <1>5
  <2>5. WarmSeries(new, from)
    BY <1>5, <1>11, <1>13, <1>14, <2>1, <2>2, <2>3, <2>4 DEF WarmSeries, len
  <2> QED
    BY <2>5 DEF new, gap, old, n
<1> QED
  BY <1>15, <1>16

\* No container is watched by two policies: each pass files it at most once.
OneWatcher == \A p, q \in Policies : p # q => Targets[p] \cap Targets[q] = {}

\* The detection windows that the limits can cover.
WithinReach == \A p \in Policies : Det[p].window \in 1 .. reach

LEMMA WarmInit == Init => WarmInv
BY DEF Init, PassIdle, EmptyStore, WarmInv, LastSlotBefore

LEMMA WarmStartPass ==
    ASSUME WarmInv, StartPass
    PROVE  WarmInv'
<1>1. /\ UNCHANGED <<now, store, since>> /\ ~ticked' /\ ticked /\ smpPC = "idle"
      /\ \/ UNCHANGED <<smpPC, passNow, todo>>
         \/ passNow' = now
  BY DEF StartPass, smpVars, ghostVars
<1>2. \A p \in Policies : Targets[p] \subseteq Keys
  BY SamplingAssumption
<1>3. smpPC' = "idle" \/ (passNow' = now /\ todo' = Policies)
  BY DEF StartPass, smpVars
<1>5. /\ todo' \subseteq Policies
      /\ \A k \in Keys : store'[k] # None => WarmSeries(store'[k].samples, since'[k])
  <2>1. todo' = todo \/ todo' = Policies
    BY DEF StartPass, smpVars
  <2> QED
    BY <1>1, <2>1 DEF WarmInv
<1>4. ASSUME smpPC' # "idle", NEW p \in todo', NEW k \in Targets[p]
      PROVE  LastSlotBefore(k, passNow)'
  <2>1. k \in Keys /\ passNow' = now
    BY <1>2, <1>3, <1>4
  <2>2. LastSlotBefore(k, now)
    BY <1>1, <2>1 DEF WarmInv
  <2> QED
    BY <1>1, <2>1, <2>2 DEF LastSlotBefore
<1> QED
  BY <1>1, <1>4, <1>5 DEF WarmInv

\* Filing a sample of a container that is due keeps its series warm.
LEMMA WarmFiledKey ==
    ASSUME SamplesInv, WarmInv, smpPC # "idle", NEW k \in Keys, NEW r,
           LastSlotBefore(k, passNow),
           store'[k] = Observe(store[k], TakenOf(k), r),
           since'[k] = IF \/ store[k] = None
                          \/ r > store[k].lastRestarts
                          \/ passNow > store[k].samples[Len(store[k].samples)].time
                                        + WindowFlag
                       THEN passNow ELSE since[k]
    PROVE  /\ WarmSeries(store'[k].samples, since'[k])
           /\ store'[k].samples[Len(store'[k].samples)].time = passNow
<1> DEFINE x == TakenOf(k)
<1>1. x.time = passNow /\ passNow \in Nat
  BY DEF TakenOf, SamplesInv
<1>2. store[k] # None => Sane(store[k].samples, passNow)
  BY DEF SamplesInv, KeyInv, Horizon
<1> HIDE DEF x
<1>3. /\ store'[k].samples[Len(store'[k].samples)] = x
      /\ store'[k] = Observe(store[k], x, r)
  <2>1. store[k] # None => Sane(store[k].samples, x.time)
    BY <1>1, <1>2
  <2>2. store'[k] = Observe(store[k], x, r)
    BY DEF x
  <2> QED
    BY <1>1, <2>1, <2>2, ObserveFacts
<1>4. CASE store[k] = None \/ r > store[k].lastRestarts
  <2>1. since'[k] = passNow
    BY <1>4
  <2>2. Len(store'[k].samples) = 1 /\ store'[k].samples[1] = x
    BY <1>1, <1>3, <1>4, ObserveBegins
  <2> DEFINE new == store'[k].samples
  <2>3. new \in Seq({new[i] : i \in DOMAIN new})
    <3>1. Sane(new, x.time)
      BY <1>1, <1>2, <1>3, ObserveFacts
    <3> QED
      BY <3>1 DEF Sane
  <2>4. Len(new) = 1 /\ new[1].time = passNow /\ DOMAIN new = 1 .. 1
    BY <1>1, <2>2, <2>3
  <2> HIDE DEF new
  <2>5. WarmSeries(new, passNow)
    BY <1>1, <2>4 DEF WarmSeries
  <2> QED
    BY <1>1, <1>3, <2>1, <2>5 DEF new
<1>5. CASE store[k] # None /\ ~(r > store[k].lastRestarts)
  <2> DEFINE last == store[k].samples[Len(store[k].samples)].time
             gap  == x.time > last + WindowFlag
  <2>1. since'[k] = IF gap THEN x.time ELSE since[k]
    BY <1>1, <1>5
  <2>2. WarmSeries(store[k].samples, since[k]) /\ Slot(last) < Slot(x.time)
    BY <1>1, <1>5 DEF WarmInv, LastSlotBefore
  <2>3. Sane(store[k].samples, x.time) /\ x.time \in Nat
    BY <1>1, <1>2, <1>5
  <2>4. WarmSeries(Observe(store[k], x, r).samples,
                   IF x.time > store[k].samples[Len(store[k].samples)].time + WindowFlag
                   THEN x.time ELSE since[k])
    BY <1>5, <2>2, <2>3, WarmContinues
  <2> QED
    BY <1>1, <1>3, <2>1, <2>4
<1> QED
  BY <1>4, <1>5

LEMMA WarmSamplePolicy ==
    ASSUME OneWatcher, SamplesInv, WarmInv, NEW p \in Policies, SamplePolicy(p)
    PROVE  WarmInv'
<1> DEFINE hit  == {k \in Targets[p] : pods[k].exists /\ usage[k] # None}
           last(k) == store[k].samples[Len(store[k].samples)].time
           fresh(k) == \/ store[k] = None
                       \/ pods[k].restarts > store[k].lastRestarts
                       \/ passNow > last(k) + WindowFlag
<1>1. /\ UNCHANGED <<now, ticked, passNow>> /\ todo' = todo \ {p} /\ p \in todo
      /\ smpPC = "policy" /\ smpPC' \in {"policy", "send"}
      /\ UNCHANGED <<store, since>> \/ File(p)
  BY DEF SamplePolicy, ghostVars
<1>2. CASE UNCHANGED <<store, since>>
  BY <1>1, <1>2 DEF WarmInv, LastSlotBefore
<1>3. CASE File(p)
  <2>1. /\ store' = [k \in Keys |->
                        IF k \in hit
                        THEN Observe(store[k], TakenOf(k), pods[k].restarts)
                        ELSE store[k]]
        /\ since' = [k \in Keys |-> IF k \in hit /\ fresh(k) THEN passNow
                                     ELSE since[k]]
    BY <1>3 DEF File
  <2>2. hit \subseteq Targets[p] /\ \A q \in Policies : Targets[q] \subseteq Keys
    BY SamplingAssumption
  <2> HIDE DEF hit
  <2>3. ASSUME NEW k \in Keys, k \in hit
        PROVE  /\ WarmSeries(store'[k].samples, since'[k])
               /\ store'[k].samples[Len(store'[k].samples)].time = passNow
    <3>1. LastSlotBefore(k, passNow)
      BY <1>1, <2>2, <2>3 DEF WarmInv
    <3>2. /\ store'[k] = Observe(store[k], TakenOf(k), pods[k].restarts)
          /\ since'[k] = IF fresh(k) THEN passNow ELSE since[k]
      BY <2>1, <2>3
    <3>3. smpPC # "idle"
      BY <1>1
    <3> QED
      BY <3>1, <3>2, <3>3, WarmFiledKey
  <2>4. ASSUME NEW k \in Keys, k \notin hit
        PROVE  store'[k] = store[k] /\ since'[k] = since[k]
    BY <2>1, <2>4
  <2> HIDE DEF fresh
  <2>5. \A k \in Keys : store'[k] # None => WarmSeries(store'[k].samples, since'[k])
    BY <2>3, <2>4 DEF WarmInv
  <2>6. ASSUME ticked'
        PROVE  /\ \A k \in Keys : LastSlotBefore(k, now)'
               /\ Slot(passNow') < Slot(now')
    <3>1. /\ Slot(passNow) < Slot(now)
          /\ \A k \in Keys : LastSlotBefore(k, now)
      BY <1>1, <2>6 DEF WarmInv
    <3>2. ASSUME NEW k \in Keys PROVE LastSlotBefore(k, now)'
      <4>1. CASE k \in hit
        BY <1>1, <2>3, <3>1, <4>1 DEF LastSlotBefore
      <4>2. CASE k \notin hit
        BY <1>1, <2>4, <3>1, <4>2 DEF LastSlotBefore
      <4> QED
        BY <4>1, <4>2
    <3> QED
      BY <1>1, <3>1, <3>2
  <2>7. ASSUME NEW q \in todo', NEW k \in Targets[q]
        PROVE  LastSlotBefore(k, passNow)'
    <3>1. /\ q \in todo /\ q # p
      BY <1>1
    <3>2. q \in Policies => k \in Keys /\ k \notin hit
      BY <2>2, <3>1 DEF OneWatcher
    <3>3. LastSlotBefore(k, passNow)
      BY <1>1, <3>1 DEF WarmInv
    <3>4. q \in Policies
      BY <3>1 DEF WarmInv
    <3> QED
      BY <1>1, <2>4, <3>2, <3>3, <3>4 DEF LastSlotBefore
  <2> QED
    BY <1>1, <2>5, <2>6, <2>7 DEF WarmInv
<1> QED
  BY <1>1, <1>2, <1>3

LEMMA WarmTick ==
    ASSUME SamplesInv, WarmInv, Tick
    PROVE  WarmInv'
<1>1. /\ UNCHANGED <<store, since, smpPC, passNow, todo>> /\ now' = now + 1
      /\ ticked' = (ticked \/ (now + 1) % SampleEvery = 0)
      /\ now \in Nat /\ passNow \in Nat
  BY DEF Tick, smpVars, ghostVars, SamplesInv
<1>2. ASSUME ticked', NEW t \in Nat, t <= now, ticked => Slot(t) < Slot(now)
      PROVE  Slot(t) < Slot(now')
  <2>1. Slot(t) \in Nat /\ Slot(now) \in Nat /\ Slot(now') \in Nat
    <3>1. now + 1 \in Nat
      BY <1>1
    <3>2. Slot(now + 1) \in Nat /\ Slot(now) \in Nat /\ Slot(t) \in Nat
      BY <1>1, <3>1, SlotFacts
    <3> QED
      BY <1>1, <3>2
  <2>2. CASE ticked
    <3>1. now + 1 \in Nat /\ now <= now + 1
      BY <1>1
    <3>2. Slot(now) <= Slot(now')
      BY <1>1, <3>1, SlotsInOrder
    <3> QED
      BY <1>2, <2>1, <2>2, <3>2
  <2>3. CASE (now + 1) % SampleEvery = 0
    <3>1. now + 1 \in Nat /\ t < now + 1
      BY <1>1, <1>2
    <3> QED
      BY <1>1, <2>3, <3>1, SlotsInOrder
  <2> QED
    BY <1>1, <1>2, <2>2, <2>3
<1>3. ASSUME ticked', NEW k \in Keys PROVE LastSlotBefore(k, now)'
  <2> DEFINE s == store[k].samples
             t == s[Len(s)].time
  <2> SUFFICES ASSUME store[k] # None PROVE Slot(t) < Slot(now')
    BY <1>1 DEF LastSlotBefore
  <2>1. Horizon \in Nat /\ Horizon <= now /\ Sane(s, Horizon)
    BY <1>1 DEF SamplesInv, KeyInv, Horizon
  <2> HIDE DEF s
  <2>2. t \in Nat /\ t <= Horizon
    <3>1. Len(s) \in 1 .. Len(s)
      BY <2>1, SaneFacts
    <3> QED
      BY <2>1, <3>1, SaneFacts
  <2>3. ticked => Slot(t) < Slot(now)
    BY DEF WarmInv, LastSlotBefore, s
  <2> HIDE DEF t
  <2> QED
    BY <1>1, <1>2, <1>3, <2>1, <2>2, <2>3
<1>4. ASSUME ticked', smpPC # "idle" PROVE Slot(passNow) < Slot(now')
  <2>1. passNow <= now
    BY <1>4 DEF SamplesInv, Horizon
  <2>2. ticked => Slot(passNow) < Slot(now)
    BY <1>4 DEF WarmInv
  <2> QED
    BY <1>1, <1>2, <1>4, <2>1, <2>2
<1> QED
  BY <1>1, <1>3, <1>4 DEF WarmInv, LastSlotBefore

\* A step that leaves the store, the clock and the pass alone.
LEMMA WarmUntouched ==
    ASSUME WarmInv, UNCHANGED <<now, store, since, ticked, smpPC, passNow, todo>>
    PROVE  WarmInv'
BY DEF WarmInv, LastSlotBefore

LEMMA WarmStep ==
    ASSUME OneWatcher, SamplesInv, WarmInv, [Next]_vars
    PROVE  WarmInv'
<1>1. CASE StartPass
  BY <1>1, WarmStartPass
<1>2. ASSUME NEW p \in Policies, SamplePolicy(p)
      PROVE  WarmInv'
  BY <1>2, WarmSamplePolicy
<1>3. CASE SendEvent
  BY <1>3 DEF SendEvent, ghostVars, WarmInv, LastSlotBefore
<1>4. CASE EndPass
  <2>1. /\ UNCHANGED <<now, ticked>> /\ smpPC' = "idle" /\ todo' = {}
        /\ store' = [k \in Keys |-> IF k \in live THEN store[k] ELSE None]
        /\ since' = [k \in Keys |-> IF k \in live THEN since[k] ELSE None]
    BY <1>4 DEF EndPass, ResetPass, Prune
  <2> QED
    BY <2>1 DEF WarmInv, LastSlotBefore
<1>5. CASE Deliver
  BY <1>5, WarmUntouched DEF Deliver, smpVars, ghostVars
<1>6. ASSUME NEW p \in Policies, Scan(p) \/ Requeue(p)
      PROVE  WarmInv'
  BY <1>6, WarmUntouched DEF Scan, Requeue, smpVars, ghostVars
<1>7. ASSUME NEW k \in Keys, RestartContainer(k) \/ DeletePod(k) \/ CreatePod(k)
      PROVE  WarmInv'
  BY <1>7, WarmUntouched
  DEF RestartContainer, DeletePod, CreatePod, ChangePod, smpVars, ghostVars
<1>8. CASE Tick
  BY <1>8, WarmTick
<1>9. CASE Failover
  BY <1>9 DEF Failover, ResetPass, EmptyStore, WarmInv, LastSlotBefore
<1>10. CASE UNCHANGED vars
  BY <1>10, WarmUntouched DEF vars, smpVars, ghostVars
<1> QED
  BY <1>1, <1>2, <1>3, <1>4, <1>5, <1>6, <1>7, <1>8, <1>9, <1>10
  DEF Next, Step, Sampler

LEMMA WarmSamples ==
    ASSUME WithinReach, SamplesInv, WarmInv
    PROVE  WarmsUp
<1> SUFFICES ASSUME NEW p \in Policies, NEW k \in Targets[p], store[k] # None,
                    since[k] + Det[p].window
                        <= store[k].samples[Len(store[k].samples)].time
             PROVE  Covered(store[k], Det[p].window,
                            store[k].samples[Len(store[k].samples)].time)
  BY DEF WarmsUp
<1> DEFINE s == store[k].samples
           n == Len(s)
           w == Det[p].window
<1>1. k \in Keys /\ w \in Nat /\ w >= 1 /\ reach \in Nat /\ w <= reach
  <2>1. reach \in Nat
    BY StoreAssumption DEF reach
  <2> QED
    BY <2>1, SamplingAssumption DEF WithinReach
<1>2. Sane(s, Horizon) /\ Horizon \in Nat /\ WarmSeries(s, since[k])
  BY <1>1 DEF SamplesInv, KeyInv, WarmInv, Horizon
<1> HIDE DEF s
<1>3. since[k] + w <= s[n].time
  BY DEF s
<1> HIDE DEF w
<1>4. n \in Nat /\ n >= 1 /\ s[1].time \in Nat /\ s[n].time \in Nat
  <2>1. 1 \in 1 .. Len(s) /\ Len(s) \in 1 .. Len(s)
    BY <1>2, SaneFacts
  <2> QED
    BY <1>2, <2>1, SaneFacts
<1>5. /\ since[k] \in Nat
      /\ s[1].time <= since[k] \/ s[1].time + reach <= s[n].time
  BY <1>2 DEF WarmSeries
<1> HIDE DEF n
<1>6. s[1].time + w <= s[n].time
  BY <1>1, <1>3, <1>4, <1>5
<1>7. n # 1
  BY <1>1, <1>4, <1>6
<1>8. n >= 2
  BY <1>4, <1>7
<1> QED
  BY <1>6, <1>8 DEF Covered, WindowCovered, s, n, w

\* The cap and the retention that main.go derives are enough: a container
\* sampled without interruption for the detection window of its policy is
\* covered, however late the passes are and whatever was trimmed, if the policy
\* is the only one to watch it and its window is not longer than the default
\* one and a sample interval.
THEOREM WarmTheorem == OneWatcher /\ WithinReach => (Spec => []WarmsUp)
<1> SUFFICES ASSUME OneWatcher, WithinReach
             PROVE  Spec => []WarmsUp
  OBVIOUS
<1>1. Init => WarmInv
  BY WarmInit
<1>2. SamplesInv /\ WarmInv /\ [Next]_vars => WarmInv'
  BY WarmStep
<1>3. SamplesInv /\ WarmInv => WarmsUp
  BY WarmSamples
<1> QED
  BY <1>1, <1>2, <1>3, SamplesInvariance, PTL DEF Spec

-----------------------------------------------------------------------------
\* The values that reach the sampler.

LEMMA MaxUpTo ==
    ASSUME NEW n \in Nat, NEW T, T \subseteq 1 .. n, T # {}
    PROVE  Max(T) \in T
<1> DEFINE R   == OpToRel(<, Nat)
           U   == {n - x : x \in T}
<1>1. IsWellFoundedOn(R, Nat)
  BY NatLessThanWellFounded
<1>2. \A x, y \in Nat : x < y => <<x, y>> \in R
  BY DEF OpToRel
<1> HIDE DEF R
<1>3. U \subseteq Nat /\ U # {}
  <2>1. \A x \in T : x \in 1 .. n
    OBVIOUS
  <2>2. \A x \in T : n - x \in Nat
    BY <2>1
  <2> QED
    BY <2>2
<1>4. PICK u \in U : \A y \in U : <<y, u>> \notin R
  <2> HIDE DEF U
  <2> QED
    BY <1>1, <1>3, WFMin
<1>5. PICK x \in T : u = n - x
  OBVIOUS
<1>6. ASSUME NEW y \in T PROVE x >= y
  <2>1. n - y \in U /\ n - y \in Nat /\ u \in Nat
    BY <1>3
  <2>2. ~ (n - y < u)
    BY <1>2, <1>4, <2>1
  <2> QED
    BY <1>5, <2>2
<1> QED
  BY <1>6 DEF Max

\* What a source reads from a series of points is one of them, or 0 where
\* Datadog's last point has no number.
LEMMA SeriesRead ==
    ASSUME NEW life, NEW s,
           LET point == [workingSet : Values \cup (IF source = "metrics-server"
                                                   THEN {} ELSE {None}),
                         life : life]
           IN  \/ \E p \in point : s = <<p>>
               \/ /\ source = "datadog"
                  /\ \/ s = <<>>
                     \/ \E p \in point, q \in point : s = <<p, q>>,
           UsageOf(source, s) # None
    PROVE  UsageOf(source, s) \in [workingSet : Values \cup {0}, life : life]
<1> DEFINE point == [workingSet : Values \cup (IF source = "metrics-server"
                                               THEN {} ELSE {None}),
                     life : life]
           read  == [workingSet : Values \cup {0}, life : life]
<1>1. s = <<>> \/ (s # <<>> /\ Last(s) \in point)
  BY DEF Last
<1>2. s = <<>> => source = "datadog"
  OBVIOUS
<1>3. ASSUME NEW p \in point, p.workingSet # None
      PROVE  p \in read
  BY <1>3
<1>4. ASSUME NEW p \in point
      PROVE  [p EXCEPT !.workingSet = 0] \in read
  OBVIOUS
<1>5. CASE source = "metrics-server"
  <2>1. \A p \in point : p \in read
    BY <1>5
  <2>2. UsageOf(source, s) = Last(s)
    BY <1>5 DEF UsageOf
  <2> QED
    BY <1>1, <1>2, <1>5, <2>1, <2>2
<1>6. CASE source = "prometheus"
  <2>1. UsageOf(source, s) = Last(s) /\ Last(s).workingSet # None
    BY <1>6 DEF UsageOf, promSampleValue
  <2> HIDE DEF point, read
  <2>2. UsageOf(source, s) \in read
    BY <1>1, <1>2, <1>3, <1>6, <2>1
  <2> QED
    BY <2>2 DEF read
<1>7. CASE source \notin {"metrics-server", "prometheus"}
  <2>1. UsageOf(source, s) = lastPoint(s)
    BY <1>7 DEF UsageOf
  <2>2. s # <<>> /\ Last(s) \in point
    BY <1>1, <2>1 DEF lastPoint
  <2>3. UsageOf(source, s) = IF Last(s).workingSet = None
                             THEN [Last(s) EXCEPT !.workingSet = 0]
                             ELSE Last(s)
    BY <2>1, <2>2 DEF lastPoint
  <2> HIDE DEF point, read
  <2>4. Last(s).workingSet # None => UsageOf(source, s) \in read
    BY <1>3, <2>2, <2>3
  <2>5. Last(s).workingSet = None =>
            UsageOf(source, s) = [Last(s) EXCEPT !.workingSet = 0]
    BY <2>3
  <2>6. [Last(s) EXCEPT !.workingSet = 0] \in read
    BY <1>4, <2>2
  <2>7. UsageOf(source, s) \in read
    BY <2>4, <2>5, <2>6
  <2> QED
    BY <2>7 DEF read
<1> QED
  BY <1>5, <1>6, <1>7

LEMMA UsageReported ==
    ASSUME NEW answer \in Answers, ListUsage(source, answer) # None,
           NEW k \in Keys, ByKey(ListUsage(source, answer))[k] # None
    PROVE  ByKey(ListUsage(source, answer))[k]
               \in [workingSet : Values \cup {0}, life : Reported(k)]
<1> DEFINE list == ListUsage(source, answer)
           read == {i \in DOMAIN list[k] : list[k][i] # None}
<1>1. None \notin Keys
  BY SamplingAssumption
<1>2. answer # None
  BY DEF ListUsage
<1>3. /\ DOMAIN answer = Keys \cup {None}
      /\ answer[k] \in Reports(k)
  BY <1>1, <1>2 DEF Answers
<1>4. list[k] = [i \in DOMAIN answer[k] |-> UsageOf(source, answer[k][i])]
  BY <1>1, <1>2, <1>3 DEF ListUsage
<1> HIDE DEF list
<1>5. ByKey(list)[k] = IF read = {} THEN None ELSE list[k][Max(read)]
  BY DEF ByKey
<1> DEFINE point  == [workingSet : Values \cup (IF source = "metrics-server" THEN {}
                                                ELSE {None}),
                      life : Reported(k)]
           series == {<<p>> : p \in point}
                     \cup IF source = "datadog"
                          THEN {<<>>} \cup {<<p, q>> : p \in point, q \in point}
                          ELSE {}
<1>6. \/ answer[k] = <<>>
      \/ \E x \in series : answer[k] = <<x>>
      \/ \E x, y \in series : answer[k] = <<x, y>>
  BY <1>3 DEF Reports
<1>8. ASSUME NEW x \in series, UsageOf(source, x) # None
      PROVE  UsageOf(source, x) \in [workingSet : Values \cup {0}, life : Reported(k)]
  BY <1>8, SeriesRead
<1> HIDE DEF series
<1>7. /\ DOMAIN answer[k] \subseteq 1 .. 2
      /\ \A i \in DOMAIN answer[k] : answer[k][i] \in series
  BY <1>6
<1>9. read # {} /\ read \subseteq 1 .. 2
  BY <1>4, <1>5, <1>7 DEF list
<1>10. Max(read) \in read
  <2> HIDE DEF read
  <2> QED
    BY <1>9, MaxUpTo
<1> QED
  <2> DEFINE m == Max(read)
  <2>1. /\ m \in DOMAIN answer[k] /\ list[k][m] # None
        /\ list[k][m] = UsageOf(source, answer[k][m])
    BY <1>4, <1>10
  <2>2. ByKey(list)[k] = list[k][m]
    BY <1>5, <1>9
  <2> HIDE DEF m
  <2> QED
    BY <1>7, <1>8, <2>1, <2>2 DEF list

-----------------------------------------------------------------------------
\* Type correctness.

\* Where the samples of a series that Observe returns come from.
LEMMA ObserveFrom ==
    ASSUME NEW ser, NEW x, NEW r, x.time \in Nat,
           ser # None => Sane(ser.samples, x.time)
    PROVE  LET new == Observe(ser, x, r).samples
           IN  \A i \in DOMAIN new :
                  \/ new[i] = x
                  \/ /\ ser # None /\ ~(r > ser.lastRestarts)
                     /\ \E j \in DOMAIN ser.samples : new[i] = ser.samples[j]
<1> DEFINE new == Observe(ser, x, r).samples
<1>1. DOMAIN new = 1 .. Len(new) /\ Len(new) \in Nat
  <2>1. Sane(new, x.time)
    BY ObserveFacts
  <2> HIDE DEF new
  <2> QED
    BY <2>1, SaneFacts
<1>2. CASE ser = None \/ r > ser.lastRestarts
  <2>1. Len(new) = 1 /\ new[1] = x
    BY <1>2, ObserveBegins
  <2> HIDE DEF new
  <2>2. \A i \in DOMAIN new : new[i] = x
    BY <1>1, <2>1
  <2> QED
    BY <2>2 DEF new
<1>3. CASE ser # None /\ ~(r > ser.lastRestarts)
  <2> DEFINE old == ser.samples
             all == Append(old, x)
  <2>1. PICK drop \in 0 .. Len(old) :
           /\ Len(new) = Len(all) - drop
           /\ \A i \in 1 .. Len(new) : new[i] = all[i + drop]
           /\ drop > 0 => all[drop].time + retention < x.time \/ Len(new) = maxLen
    BY <1>3, ObserveContinues
  <2>2. Sane(old, x.time)
    BY <1>3
  <2> HIDE DEF new, old
  <2>3. /\ Len(old) \in Nat /\ DOMAIN old = 1 .. Len(old)
        /\ old \in Seq({old[i] : i \in DOMAIN old})
    BY <2>2, SaneFacts
  <2>4. /\ Len(all) = Len(old) + 1
        /\ \A j \in 1 .. Len(all) : all[j] = IF j = Len(old) + 1 THEN x ELSE old[j]
    <3> DEFINE S == {old[i] : i \in DOMAIN old} \cup {x}
    <3>1. {old[i] : i \in DOMAIN old} \subseteq S /\ x \in S
      OBVIOUS
    <3>2. old \in Seq(S)
      BY <2>3, <3>1, SeqMonotonic
    <3> HIDE DEF S
    <3> QED
      BY <2>3, <3>1, <3>2
  <2> HIDE DEF all
  <2>5. ASSUME NEW i \in DOMAIN new
        PROVE  new[i] = x \/ \E j \in DOMAIN old : new[i] = old[j]
    <3>1. i \in 1 .. Len(new) /\ Len(new) \in Nat
      BY <1>1
    <3>2. new[i] = all[i + drop]
      BY <2>1, <3>1
    <3> DEFINE n == Len(old)
    <3>3. n \in Nat /\ drop \in 0 .. n /\ i \in 1 .. (n + 1) - drop
      <4>1. drop \in 0 .. n
        OBVIOUS
      <4>2. Len(new) = n + 1 - drop
        BY <2>1, <2>4
      <4> QED
        BY <2>3, <3>1, <4>1, <4>2
    <3>4. DOMAIN old = 1 .. n
      BY <2>3
    <3>5. all[i + drop] = IF i + drop = n + 1 THEN x ELSE old[i + drop]
      <4> HIDE DEF n
      <4>1. i + drop \in 1 .. n + 1
        BY <3>3
      <4> QED
        BY <2>4, <4>1 DEF n
    <3> HIDE DEF n
    <3>6. i + drop = n + 1 \/ i + drop \in 1 .. n
      BY <3>3
    <3>7. CASE i + drop = n + 1
      BY <3>2, <3>5, <3>7
    <3>8. CASE i + drop # n + 1
      BY <3>2, <3>4, <3>5, <3>6, <3>8
    <3> QED
      BY <3>7, <3>8
  <2> QED
    BY <1>3, <2>5 DEF new, old
<1> QED
  BY <1>2, <1>3

\* A sample of a measured container makes a series of samples.
LEMMA ObserveTyped ==
    ASSUME NEW ser \in Series \cup {None}, NEW x \in Taken, NEW r \in Nat,
           ser # None => Sane(ser.samples, x.time)
    PROVE  Observe(ser, x, r) \in Series
<1> DEFINE new == Observe(ser, x, r).samples
<1>1. x.time \in Nat
  BY DEF Taken
<1>2. Sane(new, x.time)
  BY <1>1, ObserveFacts
<1>3. \A i \in DOMAIN new : new[i] \in Taken
  <2>1. ASSUME NEW i \in DOMAIN new PROVE new[i] \in Taken
    <3>1. \/ new[i] = x
          \/ ser # None /\ \E j \in DOMAIN ser.samples : new[i] = ser.samples[j]
      BY <1>1, ObserveFrom
    <3>2. CASE ser # None /\ \E j \in DOMAIN ser.samples : new[i] = ser.samples[j]
      <4>1. ser.samples \in Seq(Taken)
        BY <3>2 DEF Series
      <4>2. \A j \in DOMAIN ser.samples : ser.samples[j] \in Taken
        BY <4>1
      <4> QED
        BY <3>2, <4>2
    <3> QED
      BY <3>1, <3>2
  <2> QED
    BY <2>1
<1>4. new \in Seq({new[i] : i \in DOMAIN new})
  BY <1>2 DEF Sane
<1>5. Observe(ser, x, r) = [samples |-> new, lastRestarts |-> r]
  BY DEF Observe
<1> HIDE DEF new
<1>6. new \in Seq(Taken)
  <2>1. {new[i] : i \in DOMAIN new} \subseteq Taken
    BY <1>3
  <2> QED
    BY <1>4, <2>1, SeqMonotonic
<1> QED
  BY <1>5, <1>6 DEF Series

\* TypeOK in parts, and that a pass that sends has a policy to send.
PodsOK  == pods \in [Keys -> Container]
StoreOK == store \in [Keys -> Series \cup {None}]
PassOK  ==
    /\ smpPC \in {"idle", "policy", "send"}
    /\ usage \in [Keys -> Measured \cup {None}]
    /\ passNow \in Nat
    /\ todo \subseteq Policies /\ live \subseteq Keys
    /\ sending \in Policies \cup {None}
    /\ smpPC = "send" => sending \in Policies
EventsOK == events \in Seq(Policies) /\ Len(events) <= ChanCap
RestOK ==
    /\ source \in Sources
    /\ now \in Nat
    /\ ticked \in BOOLEAN
    /\ queue \subseteq Policies
    /\ alarm \in Alarm \cup {None}
    /\ budget \in [Chances -> Nat]
GhostsOK ==
    /\ since \in [Keys -> OptTime]
    /\ seen \in [Keys -> OptTime]
    /\ low \in [Policies -> [Keys -> OptTime]]

TypeInv == PodsOK /\ StoreOK /\ PassOK /\ EventsOK /\ RestOK /\ GhostsOK

LEMMA TypeParts == TypeInv => TypeOK
BY DEF TypeInv, PodsOK, StoreOK, PassOK, EventsOK, RestOK, GhostsOK, TypeOK

LEMMA TypeInvInit == Init => TypeInv
BY SamplingAssumption
DEF Init, PassIdle, EmptyStore, TypeInv, PodsOK, StoreOK, PassOK, EventsOK, RestOK,
    GhostsOK, Container, OptTime

LEMMA ChanceOK ==
    ASSUME NEW c \in Chances, budget \in [Chances -> Nat], Chance(c)
    PROVE  budget' \in [Chances -> Nat]
<1>1. budget[c] \in Nat /\ budget[c] - 1 \in Nat
  BY DEF Chance
<1> QED
  BY <1>1 DEF Chance

LEMMA TypeStartPass ==
    ASSUME TypeInv, StartPass, UNCHANGED source
    PROVE  TypeInv'
<1>1. /\ UNCHANGED <<now, pods, store, events, queue, alarm, since, seen, low>>
      /\ ticked' = FALSE
      /\ UNCHANGED budget \/ Chance("faults")
  BY DEF StartPass, ghostVars
<1>2. PassOK'
  <2>1. CASE UNCHANGED smpVars
    BY <2>1 DEF TypeInv, PassOK, smpVars
  <2>2. ASSUME NEW answer \in Answers, ListUsage(source, answer) # None,
               usage' = ByKey(ListUsage(source, answer)),
               passNow' = now, todo' = Policies, smpPC' = "policy",
               UNCHANGED <<live, sending>>
        PROVE  PassOK'
    <3>1. ASSUME NEW k \in Keys
          PROVE  usage'[k] \in Measured \cup {None}
      <4>1. Reported(k) \subseteq Nat
        <5>1. pods[k] \in Container
          BY DEF TypeInv, PodsOK
        <5>2. pods[k].life \in Nat
          BY <5>1 DEF Container
        <5> QED
          BY <5>2 DEF Reported
      <4>2. usage'[k] # None =>
               usage'[k] \in [workingSet : Values \cup {0}, life : Reported(k)]
        BY <2>2, UsageReported
      <4> QED
        BY <4>1, <4>2 DEF Measured
    <3>2. usage' = [k \in Keys |-> usage'[k]]
      BY <2>2 DEF ByKey
    <3>3. usage' \in [Keys -> Measured \cup {None}]
      BY <3>1, <3>2
    <3> QED
      BY <2>2, <3>3 DEF TypeInv, PassOK, RestOK
  <2> QED
    BY <2>1, <2>2 DEF StartPass
<1>3. budget' \in [Chances -> Nat]
  BY <1>1, ChanceOK DEF TypeInv, RestOK, Chances
<1> QED
  BY <1>1, <1>2, <1>3
  DEF TypeInv, PodsOK, StoreOK, EventsOK, RestOK, GhostsOK

LEMMA TypeFile ==
    ASSUME TypeInv, SamplesInv, NEW p \in Policies, File(p), smpPC # "idle"
    PROVE  StoreOK' /\ GhostsOK' /\ live' \subseteq Keys
<1> DEFINE hit  == {k \in Targets[p] : pods[k].exists /\ usage[k] # None}
           last(k) == store[k].samples[Len(store[k].samples)].time
           fresh(k) == \/ store[k] = None
                       \/ pods[k].restarts > store[k].lastRestarts
                       \/ passNow > last(k) + WindowFlag
<1>1. /\ store' = [k \in Keys |->
                        IF k \in hit
                        THEN Observe(store[k], TakenOf(k), pods[k].restarts)
                        ELSE store[k]]
      /\ live' = live \cup hit
      /\ since' = [k \in Keys |-> IF k \in hit /\ fresh(k) THEN passNow
                                  ELSE since[k]]
      /\ seen' = [k \in Keys |-> IF k \in hit /\ seen[k] = None THEN passNow
                                 ELSE seen[k]]
      /\ low' = [q \in Policies |-> [k \in Keys |->
                    IF k \in hit /\ ~exceeds(TakenOf(k), Det[q]) THEN passNow
                    ELSE low[q][k]]]
  BY DEF File
<1>2. \A k \in hit : usage[k] # None
  OBVIOUS
<1>3. hit \subseteq Keys
  BY SamplingAssumption
<1> HIDE DEF hit, fresh
<1>4. ASSUME NEW k \in Keys, k \in hit
      PROVE  Observe(store[k], TakenOf(k), pods[k].restarts) \in Series
  <2>1. usage[k] \in Measured /\ pods[k] \in Container
        /\ store[k] \in Series \cup {None} /\ passNow \in Nat
    BY <1>2, <1>4 DEF TypeInv, PassOK, PodsOK, StoreOK
  <2>2. TakenOf(k) \in Taken /\ TakenOf(k).time = passNow
    BY <2>1 DEF TakenOf, Taken, Measured
  <2>3. store[k] # None => Sane(store[k].samples, passNow)
    BY DEF SamplesInv, KeyInv, Horizon
  <2>4. pods[k].restarts \in Nat
    BY <2>1 DEF Container
  <2> QED
    BY <2>1, <2>2, <2>3, <2>4, ObserveTyped
<1>5. StoreOK'
  <2>1. \A k \in Keys : store[k] \in Series \cup {None}
    BY DEF TypeInv, StoreOK
  <2> QED
    BY <1>1, <1>4, <2>1 DEF StoreOK
<1>6. passNow \in OptTime
  BY DEF TypeInv, PassOK, OptTime
<1>7. GhostsOK'
  BY <1>1, <1>6 DEF TypeInv, GhostsOK
<1> QED
  BY <1>1, <1>3, <1>5, <1>7 DEF TypeInv, PassOK

LEMMA TypeSamplePolicy ==
    ASSUME TypeInv, SamplesInv, NEW p \in Policies, SamplePolicy(p),
           UNCHANGED source
    PROVE  TypeInv'
<1>1. /\ UNCHANGED <<now, pods, ticked, usage, passNow, events, queue, alarm>>
      /\ smpPC = "policy" /\ todo' = todo \ {p}
      /\ \/ UNCHANGED <<smpPC, sending>>
         \/ smpPC' = "send" /\ sending' = p
      /\ \/ Chance("faults") /\ UNCHANGED <<store, live, since, seen, low>>
         \/ File(p) /\ UNCHANGED budget
  BY DEF SamplePolicy, ghostVars
<1>2. StoreOK' /\ GhostsOK' /\ live' \subseteq Keys
  <2>1. CASE UNCHANGED <<store, live, since, seen, low>>
    BY <2>1 DEF TypeInv, StoreOK, GhostsOK, PassOK
  <2>2. CASE File(p)
    BY <1>1, <2>2, TypeFile
  <2> QED
    BY <1>1, <2>1, <2>2
<1>3. PassOK'
  BY <1>1, <1>2 DEF TypeInv, PassOK
<1>4. budget' \in [Chances -> Nat]
  BY <1>1, ChanceOK DEF TypeInv, RestOK, Chances
<1> QED
  BY <1>1, <1>2, <1>3, <1>4 DEF TypeInv, PodsOK, EventsOK, RestOK

LEMMA TypeEvents ==
    ASSUME TypeInv, SendEvent \/ Deliver, UNCHANGED source
    PROVE  TypeInv'
<1>1. /\ UNCHANGED <<now, pods, store, ticked, usage, passNow, todo, live, alarm,
                     budget, since, seen, low>>
      /\ \/ /\ smpPC = "send" /\ Len(events) < ChanCap
            /\ events' = Append(events, sending)
            /\ smpPC' = "policy" /\ sending' = None /\ UNCHANGED queue
         \/ /\ events # <<>> /\ events' = Tail(events)
            /\ queue' = queue \cup {Head(events)}
            /\ UNCHANGED <<smpPC, sending>>
  BY DEF SendEvent, Deliver, smpVars, ghostVars
<1>2. EventsOK' /\ queue' \subseteq Policies
  <2>1. /\ events \in Seq(Policies) /\ Len(events) \in Nat
        /\ Len(events) <= ChanCap /\ ChanCap \in Nat /\ queue \subseteq Policies
    BY SamplingAssumption DEF TypeInv, EventsOK, RestOK
  <2>2. CASE /\ smpPC = "send" /\ Len(events) < ChanCap
             /\ events' = Append(events, sending) /\ UNCHANGED queue
    <3>1. sending \in Policies
      BY <2>2 DEF TypeInv, PassOK
    <3>2. events' \in Seq(Policies) /\ Len(events') = Len(events) + 1
      BY <2>1, <2>2, <3>1
    <3> QED
      BY <2>1, <2>2, <3>2 DEF EventsOK
  <2>3. CASE /\ events # <<>> /\ events' = Tail(events)
             /\ queue' = queue \cup {Head(events)}
    <3>1. /\ events' \in Seq(Policies) /\ Len(events') = Len(events) - 1
          /\ Head(events) \in Policies
      BY <2>1, <2>3
    <3> QED
      BY <2>1, <2>3, <3>1 DEF EventsOK
  <2> QED
    BY <1>1, <2>2, <2>3
<1>3. PassOK'
  BY <1>1 DEF TypeInv, PassOK
<1> QED
  BY <1>1, <1>2, <1>3 DEF TypeInv, PodsOK, StoreOK, RestOK, GhostsOK

LEMMA TypeEndPass ==
    ASSUME TypeInv, EndPass, UNCHANGED source
    PROVE  TypeInv'
<1>1. /\ UNCHANGED <<now, pods, ticked, events, queue, alarm, budget, seen, low>>
      /\ store' = [k \in Keys |-> IF k \in live THEN store[k] ELSE None]
      /\ since' = [k \in Keys |-> IF k \in live THEN since[k] ELSE None]
      /\ ResetPass
  BY DEF EndPass, Prune
<1>2. StoreOK' /\ GhostsOK'
  BY <1>1 DEF TypeInv, StoreOK, GhostsOK, OptTime
<1>3. PassOK'
  BY <1>1 DEF ResetPass, PassOK
<1> QED
  BY <1>1, <1>2, <1>3 DEF TypeInv, PodsOK, EventsOK, RestOK

LEMMA TypeChangePod ==
    ASSUME TypeInv, NEW k \in Keys, UNCHANGED source,
           RestartContainer(k) \/ DeletePod(k) \/ CreatePod(k)
    PROVE  TypeInv'
<1>1. /\ UNCHANGED <<now, store, ticked, smpVars, events, queue, alarm, since, seen,
                     low>>
      /\ UNCHANGED budget \/ Chance("restarts") \/ Chance("replaces")
      /\ \E pod : /\ pods' = [pods EXCEPT ![k] = pod]
                  /\ \/ pod = [pods[k] EXCEPT !.life = @ + 1, !.restarts = @ + 1,
                                              !.changed = now]
                     \/ pod = [pods[k] EXCEPT !.exists = FALSE, !.changed = now]
                     \/ pod = [exists |-> TRUE, life |-> pods[k].life + 1,
                               restarts |-> 0, start |-> now, changed |-> now]
  BY DEF RestartContainer, DeletePod, CreatePod, ChangePod, ghostVars
<1>2. pods[k] \in Container /\ now \in Nat
  BY DEF TypeInv, PodsOK, RestOK
<1>3. PodsOK'
  <2>1. PICK pod : /\ pods' = [pods EXCEPT ![k] = pod]
                   /\ \/ pod = [pods[k] EXCEPT !.life = @ + 1, !.restarts = @ + 1,
                                               !.changed = now]
                      \/ pod = [pods[k] EXCEPT !.exists = FALSE, !.changed = now]
                      \/ pod = [exists |-> TRUE, life |-> pods[k].life + 1,
                                restarts |-> 0, start |-> now, changed |-> now]
    BY <1>1
  <2>2. pod \in Container
    <3>1. CASE pod = [pods[k] EXCEPT !.life = @ + 1, !.restarts = @ + 1,
                                     !.changed = now]
      <4>1. pod.life = pods[k].life + 1 /\ pods[k].life \in Nat
        BY <1>2, <3>1 DEF Container
      <4>2. pod.restarts = pods[k].restarts + 1 /\ pods[k].restarts \in Nat
        BY <1>2, <3>1 DEF Container
      <4>3. pod = [exists |-> pods[k].exists, life |-> pod.life,
                   restarts |-> pod.restarts, start |-> pods[k].start,
                   changed |-> now]
        BY <1>2, <3>1, <4>1, <4>2 DEF Container
      <4>4. pod.life \in Nat /\ pod.restarts \in Nat
        BY <4>1, <4>2
      <4> QED
        BY <1>2, <4>3, <4>4 DEF Container
    <3>2. CASE pod = [pods[k] EXCEPT !.exists = FALSE, !.changed = now]
      BY <1>2, <3>2 DEF Container
    <3>3. CASE pod = [exists |-> TRUE, life |-> pods[k].life + 1,
                      restarts |-> 0, start |-> now, changed |-> now]
      BY <1>2, <3>3 DEF Container
    <3> QED
      BY <2>1, <3>1, <3>2, <3>3
  <2> QED
    BY <2>1, <2>2 DEF TypeInv, PodsOK
<1>4. budget' \in [Chances -> Nat]
  BY <1>1, ChanceOK DEF TypeInv, RestOK, Chances
<1> QED
  BY <1>1, <1>3, <1>4
  DEF TypeInv, StoreOK, PassOK, EventsOK, RestOK, GhostsOK, smpVars

LEMMA TypeStep ==
    ASSUME TypeInv, SamplesInv, [Next]_vars
    PROVE  TypeInv'
<1>1. CASE StartPass /\ UNCHANGED source
  BY <1>1, TypeStartPass
<1>2. ASSUME NEW p \in Policies, SamplePolicy(p), UNCHANGED source
      PROVE  TypeInv'
  BY <1>2, TypeSamplePolicy
<1>3. CASE (SendEvent \/ Deliver) /\ UNCHANGED source
  BY <1>3, TypeEvents
<1>4. CASE EndPass /\ UNCHANGED source
  BY <1>4, TypeEndPass
<1>5. ASSUME NEW p \in Policies, Scan(p) \/ Requeue(p), UNCHANGED source
      PROVE  TypeInv'
  <2>1. /\ UNCHANGED <<now, pods, store, ticked, smpVars, events, budget, since,
                       seen, low>>
        /\ queue' = queue \ {p} \/ queue' = queue \cup {p}
        /\ \/ alarm' \in {alarm, None}
           \/ \E k \in Targets[p] : alarm' = [policy |-> p, key |-> k, at |-> now]
    BY <1>5 DEF Scan, Requeue, ghostVars
  <2>2. Targets[p] \subseteq Keys
    BY SamplingAssumption
  <2>3. alarm' \in Alarm \cup {None}
    BY <2>1, <2>2 DEF TypeInv, RestOK, Alarm
  <2> QED
    BY <1>5, <2>1, <2>3
    DEF TypeInv, PodsOK, StoreOK, PassOK, EventsOK, RestOK, GhostsOK, smpVars
<1>6. ASSUME NEW k \in Keys, UNCHANGED source,
             RestartContainer(k) \/ DeletePod(k) \/ CreatePod(k)
      PROVE  TypeInv'
  BY <1>6, TypeChangePod
<1>7. CASE Tick /\ UNCHANGED source
  <2>1. /\ UNCHANGED <<pods, store, smpVars, events, queue, alarm, budget, since,
                       seen, low>>
        /\ now' = now + 1
        /\ ticked' \in BOOLEAN
    BY <1>7 DEF Tick, ghostVars
  <2> QED
    BY <1>7, <2>1
    DEF TypeInv, PodsOK, StoreOK, PassOK, EventsOK, RestOK, GhostsOK, smpVars
<1>8. CASE Failover /\ UNCHANGED source
  <2>1. /\ UNCHANGED <<now, pods, seen, low>>
        /\ Chance("crashes") /\ ResetPass
        /\ store' = [k \in Keys |-> None] /\ since' = [k \in Keys |-> None]
        /\ ticked' = TRUE /\ events' = <<>> /\ queue' = Policies /\ alarm' = None
    BY <1>8 DEF Failover, EmptyStore
  <2>2. budget' \in [Chances -> Nat]
    BY <2>1, ChanceOK DEF TypeInv, RestOK, Chances
  <2>3. PassOK'
    BY <2>1 DEF ResetPass, PassOK
  <2>4. EventsOK'
    BY <2>1, SamplingAssumption DEF EventsOK
  <2>5. StoreOK' /\ GhostsOK'
    BY <2>1 DEF TypeInv, StoreOK, GhostsOK, OptTime
  <2> QED
    BY <1>8, <2>1, <2>2, <2>3, <2>4, <2>5 DEF TypeInv, PodsOK, RestOK
<1>9. CASE UNCHANGED vars
  BY <1>9
  DEF vars, smpVars, ghostVars, TypeInv, PodsOK, StoreOK, PassOK, EventsOK,
      RestOK, GhostsOK
<1> QED
  BY <1>1, <1>2, <1>3, <1>4, <1>5, <1>6, <1>7, <1>8, <1>9
  DEF Next, Step, Sampler

LEMMA TypeInvariance == Spec => []TypeInv
BY TypeInvInit, TypeStep, SamplesInvariance, PTL DEF Spec

\* Every reachable state is well typed, whatever the backend answers: no missing
\* or foreign point becomes a sample (datasource, sampler.go:66-150).
THEOREM SamplingTypeCorrect == Spec => []TypeOK
BY TypeInvariance, TypeParts, PTL

-----------------------------------------------------------------------------
\* Which instance a sample is from.

\* The inductive invariant behind OnlyFirstStale.  Besides the property, for a
\* pod that was never replaced: a measured value that has yet to be filed is at
\* most as new as the container; if it is not one the backend reports late, it
\* is older than the restart count it is filed under only if the count went up
\* during the pass, and then this pass began the series; and the restart count
\* of a pod that was never replaced is the number of its instance.
StaleKey(k) ==
    LET pod == pods[k]
    IN  /\ pod.life \in Nat /\ pod.restarts \in Nat /\ pod.changed \in Nat
        /\ pod.restarts <= pod.life /\ pod.changed <= now
        /\ pod.life = pod.restarts =>
            /\ store[k] # None =>
                /\ store[k].lastRestarts \in Nat
                /\ store[k].lastRestarts <= pod.restarts
                /\ LET s == store[k].samples
                   IN  \A i \in DOMAIN s : s[1].time < s[i].time =>
                          s[i].life = store[k].lastRestarts \/ OldValue(k, s[i].time)
            /\ smpPC # "idle" /\ usage[k] # None =>
                /\ usage[k].life \in Nat
                /\ usage[k].life <= pod.life
                /\ \/ OldValue(k, passNow)
                   \/ store[k] # None /\ store[k].lastRestarts > usage[k].life =>
                          store[k].samples[1].time = passNow

StaleInv == \A k \in Keys : StaleKey(k)

LEMMA StaleInit == Init => StaleInv
BY DEF Init, PassIdle, EmptyStore, StaleInv, StaleKey

\* A step that files nothing, measures nothing and changes no pod.
LEMMA StaleUntouched ==
    ASSUME SamplesInv, StaleInv, UNCHANGED <<source, pods>>,
           now <= now', now' \in Nat,
           \A k \in Keys : store'[k] \in {store[k], None},
           smpPC' = "idle" \/ (UNCHANGED <<usage, passNow>> /\ smpPC # "idle")
    PROVE  StaleInv'
<1> SUFFICES ASSUME NEW k \in Keys PROVE StaleKey(k)'
  BY DEF StaleInv
<1>1. StaleKey(k)
  BY DEF StaleInv
<1>2. store'[k] = None \/ store'[k] = store[k]
  OBVIOUS
<1>3. pods'[k] = pods[k] /\ (\A t : OldValue(k, t)' <=> OldValue(k, t))
  BY DEF OldValue
<1>4. now \in Nat
  BY DEF SamplesInv
<1>5. pods[k].changed \in Nat /\ pods[k].changed <= now'
  BY <1>1, <1>4 DEF StaleKey
<1>6. ASSUME pods[k].life = pods[k].restarts, store'[k] # None
      PROVE  /\ store'[k].lastRestarts \in Nat
             /\ store'[k].lastRestarts <= pods[k].restarts
             /\ LET s == store'[k].samples
                IN  \A i \in DOMAIN s : s[1].time < s[i].time =>
                       \/ s[i].life = store'[k].lastRestarts
                       \/ OldValue(k, s[i].time)
  BY <1>1, <1>2, <1>6 DEF StaleKey
<1>7. ASSUME pods[k].life = pods[k].restarts, smpPC' # "idle", usage'[k] # None
      PROVE  /\ usage'[k].life \in Nat
             /\ usage'[k].life <= pods[k].life
             /\ \/ OldValue(k, passNow')
                \/ store'[k] # None /\ store'[k].lastRestarts > usage'[k].life =>
                       store'[k].samples[1].time = passNow'
  BY <1>1, <1>2, <1>7 DEF StaleKey
<1> QED
  BY <1>1, <1>3, <1>5, <1>6, <1>7 DEF StaleKey

LEMMA StaleStartPass ==
    ASSUME SamplesInv, StaleInv, StartPass, UNCHANGED source
    PROVE  StaleInv'
<1>1. /\ UNCHANGED <<now, pods, store>> /\ smpPC = "idle"
      /\ \/ UNCHANGED smpVars
         \/ \E answer \in Answers :
               /\ ListUsage(source, answer) # None
               /\ usage' = ByKey(ListUsage(source, answer))
               /\ passNow' = now
  BY DEF StartPass
<1>2. now \in Nat
  BY DEF SamplesInv
<1>3. CASE UNCHANGED smpVars
  BY <1>1, <1>2, <1>3, StaleUntouched DEF smpVars
<1>4. ASSUME NEW answer \in Answers, ListUsage(source, answer) # None,
             usage' = ByKey(ListUsage(source, answer)), passNow' = now
      PROVE  StaleInv'
  <2> SUFFICES ASSUME NEW k \in Keys PROVE StaleKey(k)'
    BY DEF StaleInv
  <2>1. StaleKey(k)
    BY DEF StaleInv
  <2>2. pods'[k] = pods[k] /\ (\A t : OldValue(k, t)' <=> OldValue(k, t))
    BY <1>1 DEF OldValue
  <2>3. ASSUME usage'[k] # None
        PROVE  /\ usage'[k].life \in Nat
               /\ usage'[k].life <= pods[k].life
               /\ OldValue(k, now) \/ usage'[k].life = pods[k].life
    <3>1. usage'[k].life \in Reported(k)
      BY <1>4, <2>3, UsageReported
    <3>2. /\ pods[k].life \in Nat /\ pods[k].changed \in Nat
          /\ Lookback \in Nat
      BY <2>1, SamplingAssumption DEF StaleKey
    <3>3. CASE OldValue(k, now)
      BY <3>1, <3>2, <3>3 DEF Reported
    <3>4. CASE ~OldValue(k, now)
      <4>1. source = "metrics-server" \/ now >= pods[k].changed + Lookback
        BY <1>2, <3>2, <3>4 DEF OldValue
      <4>2. usage'[k].life = pods[k].life
        BY <3>1, <4>1 DEF Reported
      <4> QED
        BY <3>2, <4>2
    <3> QED
      BY <3>3, <3>4
  <2>4. ASSUME pods[k].life = pods[k].restarts, usage'[k] # None
        PROVE  \/ OldValue(k, now)
               \/ store[k] # None /\ store[k].lastRestarts > usage'[k].life =>
                      store[k].samples[1].time = now
    <3>1. CASE usage'[k].life = pods[k].life
      <4>1. store[k] # None => /\ store[k].lastRestarts \in Nat
                               /\ store[k].lastRestarts <= usage'[k].life
        BY <2>1, <2>4, <3>1 DEF StaleKey
      <4>2. usage'[k].life \in Nat
        BY <2>3, <2>4
      <4> QED
        BY <4>1, <4>2
    <3> QED
      BY <2>3, <2>4, <3>1
  <2> QED
    BY <1>1, <1>4, <2>1, <2>2, <2>3, <2>4 DEF StaleKey
<1> QED
  BY <1>1, <1>3, <1>4

\* A key whose sample this pass files.
LEMMA StaleFiledKey ==
    ASSUME SamplesInv, StaleInv, NEW k \in Keys, smpPC # "idle", usage[k] # None,
           UNCHANGED <<source, now, pods, usage, passNow>>,
           store'[k] = Observe(store[k], TakenOf(k), pods[k].restarts)
    PROVE  StaleKey(k)'
<1> DEFINE ser == store[k]
           x   == TakenOf(k)
           r   == pods[k].restarts
           new == Observe(ser, x, r).samples
<1>1. StaleKey(k)
  BY DEF StaleInv
<1>2. pods'[k] = pods[k] /\ (\A t : OldValue(k, t)' <=> OldValue(k, t))
  BY DEF OldValue
<1>3. passNow \in Nat /\ (ser # None => Sane(ser.samples, passNow))
  BY DEF SamplesInv, KeyInv, Horizon
<1>4. x.time = passNow /\ x.life = usage[k].life
  BY DEF TakenOf
<1>5. store'[k].samples = new /\ store'[k].lastRestarts = r =>
        StaleKey(k)'
  <2> SUFFICES ASSUME store'[k].samples = new, store'[k].lastRestarts = r,
                      pods[k].life = pods[k].restarts
               PROVE  /\ \A i \in DOMAIN new : new[1].time < new[i].time =>
                             new[i].life = r \/ OldValue(k, new[i].time)
                      /\ \/ OldValue(k, passNow)
                         \/ r > usage[k].life => new[1].time = passNow
    BY <1>1, <1>2 DEF StaleKey
  <2>1. /\ r \in Nat /\ usage[k].life \in Nat /\ usage[k].life <= r
        /\ \/ OldValue(k, passNow)
           \/ ser # None /\ ser.lastRestarts > usage[k].life =>
                  ser.samples[1].time = passNow
        /\ ser # None =>
              /\ ser.lastRestarts \in Nat /\ ser.lastRestarts <= r
              /\ \A j \in DOMAIN ser.samples :
                    ser.samples[1].time < ser.samples[j].time =>
                        \/ ser.samples[j].life = ser.lastRestarts
                        \/ OldValue(k, ser.samples[j].time)
    BY <1>1 DEF StaleKey
  <2>2. Sane(new, passNow)
    BY <1>3, <1>4, ObserveFacts
  <2>3. \A i \in DOMAIN new :
            \/ new[i] = x
            \/ /\ ser # None /\ ~(r > ser.lastRestarts)
               /\ \E j \in DOMAIN ser.samples : new[i] = ser.samples[j]
    BY <1>3, <1>4, ObserveFrom
  <2>4. ser = None \/ r > ser.lastRestarts => new[1] = x
    BY <1>3, <1>4, ObserveBegins
  <2> HIDE DEF new, x, r
  <2>5. /\ 1 \in DOMAIN new
        /\ \A i \in DOMAIN new : new[i].time \in Nat /\ new[i].time <= passNow
    BY <1>3, <2>2, SaneFacts
  <2>6. ASSUME ser # None
        PROVE  \A j \in DOMAIN ser.samples :
                  /\ ser.samples[j].time \in Nat /\ ser.samples[1].time \in Nat
                  /\ ser.samples[j].time <= passNow
                  /\ ser.samples[1].time <= ser.samples[j].time
    <3> DEFINE s == ser.samples
    <3>1. Sane(s, passNow)
      BY <1>3, <2>6
    <3> HIDE DEF s
    <3>2. \A j \in DOMAIN s :
             /\ s[j].time \in Nat /\ s[1].time \in Nat
             /\ s[j].time <= passNow /\ s[1].time <= s[j].time
      BY <1>3, <3>1, SaneFacts
    <3> QED
      BY <3>2 DEF s
  <2>7. OldValue(k, passNow) \/ (r > usage[k].life => new[1].time = passNow)
    <3> SUFFICES ASSUME ~OldValue(k, passNow), r > usage[k].life, new[1] # x
                 PROVE  new[1].time = passNow
      BY <1>4
    <3>1. /\ ser # None /\ ~(r > ser.lastRestarts)
          /\ \E j \in DOMAIN ser.samples : new[1] = ser.samples[j]
      BY <2>3, <2>5
    <3>2. ser.lastRestarts = r
      BY <2>1, <3>1
    <3>3. ser.samples[1].time = passNow
      BY <2>1, <3>1, <3>2
    <3>4. PICK j \in DOMAIN ser.samples : new[1] = ser.samples[j]
      BY <3>1
    <3> QED
      BY <1>3, <2>6, <3>1, <3>3, <3>4
  <2>8. ASSUME NEW i \in DOMAIN new, new[1].time < new[i].time
        PROVE  new[i].life = r \/ OldValue(k, new[i].time)
    <3>1. CASE new[i] = x
      <4>1. new[1].time # passNow
        BY <1>3, <1>4, <2>5, <2>8, <3>1
      <4> QED
        BY <1>4, <2>1, <2>7, <3>1, <4>1
    <3>2. ASSUME NEW j \in DOMAIN ser.samples, new[i] = ser.samples[j],
                 ser # None, ~(r > ser.lastRestarts)
          PROVE  new[i].life = r \/ OldValue(k, new[i].time)
      <4>1. ser.lastRestarts = r
        BY <2>1, <3>2
      <4>2. new[1] # x
        BY <1>3, <1>4, <2>5, <2>8
      <4>3. PICK l \in DOMAIN ser.samples : new[1] = ser.samples[l]
        BY <2>3, <2>5, <4>2
      <4>4. ser.samples[1].time < ser.samples[j].time
        BY <2>6, <2>8, <3>2, <4>3
      <4> QED
        BY <2>1, <3>2, <4>1, <4>4
    <3> QED
      BY <2>3, <3>1, <3>2
  <2> QED
    BY <2>7, <2>8
<1>6. store'[k] = [samples |-> new, lastRestarts |-> r]
  BY DEF Observe
<1> HIDE DEF new, r
<1>7. store'[k].samples = new /\ store'[k].lastRestarts = r
  BY <1>6
<1> QED
  BY <1>5, <1>7

LEMMA StaleSamplePolicy ==
    ASSUME SamplesInv, StaleInv, NEW p \in Policies, SamplePolicy(p),
           UNCHANGED source
    PROVE  StaleInv'
<1> DEFINE hit == {k \in Targets[p] : pods[k].exists /\ usage[k] # None}
<1>1. /\ UNCHANGED <<now, pods, usage, passNow>> /\ smpPC = "policy"
      /\ UNCHANGED store \/ File(p)
  BY DEF SamplePolicy
<1>2. ASSUME NEW k \in Keys PROVE StaleKey(k)'
  <2>1. StaleKey(k)
    BY DEF StaleInv
  <2>2. pods'[k] = pods[k] /\ (\A t : OldValue(k, t)' <=> OldValue(k, t))
    BY <1>1 DEF OldValue
  <2>3. CASE store'[k] = store[k]
    BY <1>1, <2>1, <2>2, <2>3 DEF StaleKey
  <2>4. CASE File(p) /\ k \in hit
    <3>1. store'[k] = Observe(store[k], TakenOf(k), pods[k].restarts)
      BY <2>4 DEF File
    <3>2. smpPC # "idle" /\ usage[k] # None
      BY <1>1, <2>4
    <3> QED
      BY <1>1, <3>1, <3>2, StaleFiledKey
  <2>5. CASE File(p) /\ k \notin hit
    <3>1. store'[k] = store[k]
      BY <2>5 DEF File
    <3> QED
      BY <2>3, <3>1
  <2> QED
    BY <1>1, <2>3, <2>4, <2>5
<1> QED
  BY <1>2 DEF StaleInv

\* What the backend reports late stays so when the container changes again.
LEMMA StaleChangePod ==
    ASSUME TypeInv, SamplesInv, StaleInv, NEW c \in Keys, UNCHANGED source,
           RestartContainer(c) \/ DeletePod(c) \/ CreatePod(c)
    PROVE  StaleInv'
<1> SUFFICES ASSUME NEW k \in Keys PROVE StaleKey(k)'
  BY DEF StaleInv
<1>1. /\ UNCHANGED <<now, store, smpPC, usage, passNow>>
      /\ \E pod : /\ pods' = [pods EXCEPT ![c] = pod]
                  /\ \/ pod = [pods[c] EXCEPT !.life = @ + 1, !.restarts = @ + 1,
                                              !.changed = now]
                     \/ pod = [pods[c] EXCEPT !.exists = FALSE, !.changed = now]
                     \/ pod = [exists |-> TRUE, life |-> pods[c].life + 1,
                               restarts |-> 0, start |-> now, changed |-> now]
  BY DEF RestartContainer, DeletePod, CreatePod, ChangePod, smpVars
<1>2. StaleKey(k) /\ pods \in [Keys -> Container]
  BY DEF StaleInv, TypeInv, PodsOK
<1>3. now \in Nat /\ passNow \in Nat /\ Lookback \in Nat
  BY SamplingAssumption DEF SamplesInv
<1>4. CASE k # c
  <2>1. pods'[k] = pods[k]
    BY <1>1, <1>4
  <2>2. \A t : OldValue(k, t)' <=> OldValue(k, t)
    BY <2>1 DEF OldValue
  <2> QED
    BY <1>1, <1>2, <2>1, <2>2 DEF StaleKey
<1>5. CASE k = c
  <2> DEFINE old == pods[k]
             pod == pods'[k]
             Late(t) == source # "metrics-server" /\ t < pod.changed + Lookback
  <2>1. /\ old \in Container
        /\ \/ pod = [old EXCEPT !.life = @ + 1, !.restarts = @ + 1, !.changed = now]
           \/ pod = [old EXCEPT !.exists = FALSE, !.changed = now]
           \/ pod = [exists |-> TRUE, life |-> old.life + 1,
                     restarts |-> 0, start |-> now, changed |-> now]
    BY <1>1, <1>2, <1>5
  <2>2. /\ old.life \in Nat /\ old.restarts \in Nat /\ old.changed \in Nat
        /\ old.restarts <= old.life /\ old.changed <= now
    BY <1>2 DEF StaleKey
  <2> HIDE DEF pod
  <2>3. /\ pod.changed = now
        /\ \/ pod.life = old.life + 1 /\ pod.restarts = old.restarts + 1
           \/ pod.life = old.life /\ pod.restarts = old.restarts
           \/ pod.life = old.life + 1 /\ pod.restarts = 0
    <3>1. CASE pod = [old EXCEPT !.life = @ + 1, !.restarts = @ + 1, !.changed = now]
      BY <2>1, <3>1 DEF Container
    <3>2. CASE pod = [old EXCEPT !.exists = FALSE, !.changed = now]
      BY <2>1, <3>2 DEF Container
    <3>3. CASE pod = [exists |-> TRUE, life |-> old.life + 1,
                      restarts |-> 0, start |-> now, changed |-> now]
      BY <3>3
    <3> QED
      BY <2>1, <3>1, <3>2, <3>3
  <2> HIDE DEF old
  <2>4. /\ pod.life \in Nat /\ pod.restarts \in Nat /\ pod.changed \in Nat
        /\ pod.restarts <= pod.life /\ pod.changed <= now
        /\ old.life <= pod.life
        /\ pod.life = pod.restarts => /\ old.life = old.restarts
                                      /\ old.restarts <= pod.restarts
    BY <1>3, <2>2, <2>3
  <2>5. ASSUME NEW t \in Nat, OldValue(k, t)
        PROVE  Late(t)
    <3>1. source # "metrics-server" /\ t < old.changed + Lookback
      BY <2>5 DEF OldValue, old
    <3>2. t < pod.changed + Lookback
      BY <1>3, <2>2, <2>3, <3>1
    <3> QED
      BY <3>1, <3>2
  <2>6. ASSUME pod.life = pod.restarts, store[k] # None
        PROVE  /\ store[k].lastRestarts \in Nat
               /\ store[k].lastRestarts <= pod.restarts
               /\ LET s == store[k].samples
                  IN  \A i \in DOMAIN s : s[1].time < s[i].time =>
                        s[i].life = store[k].lastRestarts \/ Late(s[i].time)
    <3>1. /\ store[k].lastRestarts \in Nat
          /\ store[k].lastRestarts <= old.restarts
          /\ LET s == store[k].samples
             IN  \A i \in DOMAIN s : s[1].time < s[i].time =>
                   s[i].life = store[k].lastRestarts \/ OldValue(k, s[i].time)
      BY <1>2, <2>4, <2>6 DEF StaleKey, old
    <3>2. \A i \in DOMAIN store[k].samples : store[k].samples[i].time \in Nat
      BY <2>6 DEF SamplesInv, KeyInv, Sane
    <3> HIDE DEF Late
    <3> QED
      BY <2>2, <2>4, <2>5, <2>6, <3>1, <3>2
  <2>7. ASSUME pod.life = pod.restarts, smpPC # "idle", usage[k] # None
        PROVE  /\ usage[k].life \in Nat
               /\ usage[k].life <= pod.life
               /\ \/ Late(passNow)
                  \/ store[k] # None /\ store[k].lastRestarts > usage[k].life =>
                         store[k].samples[1].time = passNow
    <3>1. /\ usage[k].life \in Nat
          /\ usage[k].life <= old.life
          /\ \/ OldValue(k, passNow)
             \/ store[k] # None /\ store[k].lastRestarts > usage[k].life =>
                    store[k].samples[1].time = passNow
      BY <1>2, <2>4, <2>7 DEF StaleKey, old
    <3>2. OldValue(k, passNow) => Late(passNow)
      BY <1>3, <2>5
    <3> HIDE DEF Late
    <3> QED
      BY <2>2, <2>4, <3>1, <3>2
  <2>8. \A t : OldValue(k, t)' <=> Late(t)
    BY DEF OldValue, pod
  <2> QED
    BY <1>1, <2>4, <2>6, <2>7, <2>8 DEF StaleKey, pod
<1> QED
  BY <1>4, <1>5

LEMMA StaleStep ==
    ASSUME TypeInv, SamplesInv, StaleInv, [Next]_vars
    PROVE  StaleInv'
<1>0. now \in Nat
  BY DEF SamplesInv
<1>1. CASE StartPass /\ UNCHANGED source
  BY <1>1, StaleStartPass
<1>2. ASSUME NEW p \in Policies, SamplePolicy(p), UNCHANGED source
      PROVE  StaleInv'
  BY <1>2, StaleSamplePolicy
<1>3. CASE SendEvent /\ UNCHANGED source
  BY <1>0, <1>3, StaleUntouched DEF SendEvent
<1>4. CASE EndPass /\ UNCHANGED source
  BY <1>0, <1>4, StaleUntouched DEF EndPass, ResetPass, Prune
<1>5. ASSUME NEW p \in Policies, Scan(p) \/ Requeue(p), UNCHANGED source
      PROVE  StaleInv'
  BY <1>0, <1>5, StaleUntouched DEF Scan, Requeue, smpVars
<1>6. ASSUME NEW k \in Keys, UNCHANGED source,
             RestartContainer(k) \/ DeletePod(k) \/ CreatePod(k)
      PROVE  StaleInv'
  BY <1>6, StaleChangePod
<1>7. CASE Tick /\ UNCHANGED source
  BY <1>0, <1>7, StaleUntouched DEF Tick, smpVars
<1>8. CASE Failover /\ UNCHANGED source
  BY <1>0, <1>8, StaleUntouched DEF Failover, ResetPass, EmptyStore
<1>9. CASE Deliver /\ UNCHANGED source
  BY <1>0, <1>9, StaleUntouched DEF Deliver, smpVars
<1>10. CASE UNCHANGED vars
  BY <1>0, <1>10, StaleUntouched DEF vars, smpVars
<1> QED
  BY <1>1, <1>2, <1>3, <1>4, <1>5, <1>6, <1>7, <1>8, <1>9, <1>10
  DEF Next, Step, Sampler

\* Whatever the backend reports late, and whenever containers restart between
\* the measurement and the filing, only the samples of the pass that began a
\* series are from another instance than the one it is filed under, once old
\* values have run out (buffer.go:57-63, sampler.go:73-121).
THEOREM StaleTheorem == Spec => []OnlyFirstStale
<1>1. StaleInv /\ TypeInv => OnlyFirstStale
  BY DEF StaleInv, StaleKey, OnlyFirstStale
<1> QED
  BY <1>1, StaleInit, StaleStep, TypeInvariance, SamplesInvariance, PTL DEF Spec
=============================================================================
