--------------------------- MODULE ProtocolProofs ---------------------------
(***************************************************************************)
(* The restart protocol keeps the cooldown: whatever is lost, handed over, *)
(* delayed or adopted, two restarts of one workload object that reach the  *)
(* cluster are at least the cooldown apart; and the book counts every      *)
(* restart of the object since the window began, unless cooldowns are      *)
(* switched off.                                                           *)
(***************************************************************************)
EXTENDS RestartProtocol, FiniteSetTheorems, TLAPS

-----------------------------------------------------------------------------
\* Books, restarts and their order.

\* An empty book and empty hands are well typed.
LEMMA EmptyTypes ==
    /\ NewBook \in Book
    /\ EmptyHanded \in [Hands -> Restart \cup {None}]
    /\ <<>> \in Seq(Restart)
  BY DEF NewBook, BookOf, InitStatus, Book, EmptyHanded, Uid, OptTime, Version

\* Entering a restart in a book gives a book whose last restart it is.
LEMMA BookedType ==
    ASSUME NEW b \in Book, NEW r \in Restart
    PROVE  /\ Booked(b, r) \in Book
           /\ Booked(b, r).uid = b.uid
           /\ Booked(b, r).lastRestartAt = r.at
<1>1. b.restartCount + 1 \in Nat
  BY DEF Book
<1> QED
  BY <1>1 DEF Booked, Book, Restart, OptTime, Time

\* A restart that waited for the cooldown of a book is a cooldown away from
\* every restart the book covers, and the new book covers all of them.
LEMMA CoveredApart ==
    ASSUME NEW b \in Book, NEW r \in Restart, NEW s \in Restart,
           r.uid = b.uid, ~InCooldown(b, r.at), Covers(b, s)
    PROVE  Apart(s, r) /\ Covers(Booked(b, r), s)
<1>1. /\ r.at \in Nat /\ s.at \in Nat /\ b.uid \in Nat /\ s.uid \in Nat
      /\ b.lastRestartAt # None => b.lastRestartAt \in Nat
      /\ Cooldown \in Nat
  BY StatusAssumption DEF Restart, Book, OptTime, Time, Uid
<1>2. s.uid = b.uid => /\ s.at <= r.at
                       /\ r.at >= s.at + Cooldown
  BY <1>1 DEF Covers, InCooldown
<1>3. r.at # None
  BY <1>1, BasicsAssumption
<1> QED
  BY <1>1, <1>2, <1>3, BookedType DEF Apart, Covers

\* The new book also covers the restart it enters.
LEMMA BookedCovers ==
    ASSUME NEW b \in Book, NEW r \in Restart, r.uid = b.uid
    PROVE  Covers(Booked(b, r), r)
  BY BookedType, BasicsAssumption DEF Covers, Restart, Time, Uid

\* Apart does not depend on the order.
LEMMA ApartSymmetric == \A r, s : Apart(r, s) => Apart(s, r)
  BY DEF Apart

-----------------------------------------------------------------------------
\* The invariant, policy by policy.

\* ProtocolInv for one policy with this book, these hands and this history.
PolicyInv(b, hands, hist) ==
    /\ b \in Book
    /\ hands \in [Hands -> Restart \cup {None}]
    /\ hist \in Seq(Restart)
    /\ \A i \in DOMAIN hist : Covers(b, hist[i])
    /\ \A h \in Hands : hands[h] # None => Covers(b, hands[h])
    /\ \A h \in Hands : hands[h] # None =>
          \A i \in DOMAIN hist : Apart(hist[i], hands[h])
    /\ hands["leader"] # None /\ hands["former"] # None =>
          Apart(hands["former"], hands["leader"])
    /\ \A i, j \in DOMAIN hist : i # j => Apart(hist[i], hist[j])

\* ProtocolInv is PolicyInv of every policy.
LEMMA ByPolicy ==
    ASSUME ProtocolInv
    PROVE  \A p \in Policies : PolicyInv(book[p], pending[p], sent[p])
  BY DEF ProtocolInv, ProtocolTypeOK, AllCovered, PendingSpaced, Spaced,
         PolicyInv

\* A step that changes one policy and keeps its PolicyInv keeps ProtocolInv.
LEMMA OnePolicy ==
    ASSUME ProtocolInv, NEW p \in Policies, NEW b, NEW hands, NEW hist,
           PolicyInv(b, hands, hist),
           book' = [book EXCEPT ![p] = b],
           pending' = [pending EXCEPT ![p] = hands],
           sent' = [sent EXCEPT ![p] = hist],
           lapsed' \subseteq Policies
    PROVE  ProtocolInv'
<1>1. b \in Book /\ hands \in [Hands -> Restart \cup {None}]
      /\ hist \in Seq(Restart)
  BY DEF PolicyInv
<1>2. ProtocolTypeOK'
  BY <1>1 DEF ProtocolInv, ProtocolTypeOK
<1>3. \A q \in Policies : PolicyInv(book'[q], pending'[q], sent'[q])
  <2>1. /\ book'[p] = b /\ pending'[p] = hands /\ sent'[p] = hist
        /\ \A q \in Policies \ {p} : /\ book'[q] = book[q]
                                     /\ pending'[q] = pending[q]
                                     /\ sent'[q] = sent[q]
    BY DEF ProtocolInv, ProtocolTypeOK
  <2> QED
    BY <2>1, ByPolicy
<1> QED
  BY <1>2, <1>3 DEF ProtocolInv, AllCovered, PendingSpaced, Spaced, PolicyInv

\* An EXCEPT that writes back the old value changes nothing.
LEMMA SameAt == \A f, S, T : f \in [S -> T] =>
                    \A x \in S : f = [f EXCEPT ![x] = f[x]]
  OBVIOUS

-----------------------------------------------------------------------------
\* The steps.

\* A booked restart.
LEMMA RecordInv ==
    ASSUME ProtocolInv, NEW p \in Policies, Record(p)
    PROVE  ProtocolInv'
<1> DEFINE r == [at |-> book'[p].lastRestartAt, uid |-> book[p].uid,
                 version |-> book'[p].version]
           b == book[p]
           hands == pending[p]
           hist == sent[p]
           held == [hands EXCEPT !["leader"] = r]
<1>1. PolicyInv(b, hands, hist)
  BY ByPolicy
<1>2. /\ r \in Restart /\ r.uid = b.uid /\ ~InCooldown(b, r.at)
      /\ hands["leader"] = None
      /\ book' = [book EXCEPT ![p] = Booked(b, r)]
      /\ pending' = [pending EXCEPT ![p] = held] \/ UNCHANGED pending
      /\ UNCHANGED <<sent, lapsed>>
  BY DEF Record
<1> HIDE DEF r, b, hands, hist
<1>3. b \in Book /\ Booked(b, r) \in Book
  BY <1>1, <1>2, BookedType DEF PolicyInv
<1>4. /\ \A i \in DOMAIN hist : hist[i] \in Restart
      /\ \A h \in Hands : hands[h] # None => hands[h] \in Restart
  BY <1>1 DEF PolicyInv
<1>5. /\ \A i \in DOMAIN hist :
            Apart(hist[i], r) /\ Covers(Booked(b, r), hist[i])
      /\ \A h \in Hands : hands[h] # None =>
            Apart(hands[h], r) /\ Covers(Booked(b, r), hands[h])
  BY <1>1, <1>2, <1>3, <1>4, CoveredApart DEF PolicyInv
<1>6. Covers(Booked(b, r), r)
  BY <1>2, <1>3, BookedCovers
<1>7. PolicyInv(Booked(b, r), hands, hist)
  BY <1>1, <1>3, <1>5 DEF PolicyInv
<1>8. PolicyInv(Booked(b, r), held, hist)
  <2>1. /\ held \in [Hands -> Restart \cup {None}]
        /\ held["leader"] = r
        /\ held["former"] = hands["former"]
        /\ Hands = {"leader", "former"}
    BY <1>1, <1>2 DEF PolicyInv, Hands
  <2> QED
    BY <1>1, <1>3, <1>5, <1>6, <2>1 DEF PolicyInv
<1>9. sent' = [sent EXCEPT ![p] = hist] /\ lapsed' \subseteq Policies
  BY <1>2, SameAt DEF ProtocolInv, ProtocolTypeOK, hist
<1>10. CASE pending' = [pending EXCEPT ![p] = held]
  BY <1>2, <1>8, <1>9, <1>10, OnePolicy
<1>11. CASE UNCHANGED pending
  <2>1. pending' = [pending EXCEPT ![p] = hands]
    BY <1>11, SameAt DEF ProtocolInv, ProtocolTypeOK, hands
  <2> QED
    BY <1>2, <1>7, <1>9, <2>1, OnePolicy
<1> QED
  BY <1>2, <1>10, <1>11

\* A pending restart leaves its hand; if it is sent, it was apart from all the
\* others already.
LEMMA SendInv ==
    ASSUME ProtocolInv, NEW p \in Policies, NEW h \in Hands,
           Send(p, h) \/ Drop(p, h)
    PROVE  ProtocolInv'
<1> DEFINE b == book[p]
           hands == pending[p]
           hist == sent[p]
           rest == [hands EXCEPT ![h] = None]
           longer == Append(hist, hands[h])
<1>1. PolicyInv(b, hands, hist)
  BY ByPolicy
<1>2. /\ hands[h] # None
      /\ pending' = [pending EXCEPT ![p] = rest]
      /\ UNCHANGED <<book, lapsed>>
      /\ sent' = [sent EXCEPT ![p] = longer] \/ UNCHANGED sent
  BY DEF Send, Drop
<1>3. book' = [book EXCEPT ![p] = b] /\ lapsed' \subseteq Policies
  BY <1>2, SameAt DEF ProtocolInv, ProtocolTypeOK
<1>3a. UNCHANGED sent => sent' = [sent EXCEPT ![p] = hist]
  BY SameAt DEF ProtocolInv, ProtocolTypeOK
<1> HIDE DEF b, hands, hist
<1>4. /\ rest \in [Hands -> Restart \cup {None}]
      /\ rest[h] = None
      /\ \A g \in Hands \ {h} : rest[g] = hands[g]
  BY <1>1 DEF PolicyInv
<1>5. PolicyInv(b, rest, hist)
  BY <1>1, <1>4 DEF PolicyInv, Hands
<1>6. PolicyInv(b, rest, longer)
  <2>1. hands[h] \in Restart /\ hist \in Seq(Restart)
    BY <1>1, <1>2 DEF PolicyInv
  <2>2. /\ longer \in Seq(Restart)
        /\ DOMAIN longer = DOMAIN hist \cup {Len(hist) + 1}
        /\ longer[Len(hist) + 1] = hands[h]
        /\ \A i \in DOMAIN hist : longer[i] = hist[i] /\ i # Len(hist) + 1
    BY <2>1
  <2> HIDE DEF longer
  <2>3. \A i \in DOMAIN longer : Covers(b, longer[i])
    BY <1>1, <1>2, <2>2 DEF PolicyInv
  <2>4. \A i, j \in DOMAIN longer : i # j => Apart(longer[i], longer[j])
    BY <1>1, <1>2, <2>2, ApartSymmetric DEF PolicyInv
  <2>5. ASSUME NEW g \in Hands, rest[g] # None, NEW i \in DOMAIN longer
        PROVE  Apart(longer[i], rest[g])
    <3>1. g # h /\ hands[g] # None /\ rest[g] = hands[g]
      BY <1>4, <2>5
    <3>2. Apart(hands[h], hands[g])
      BY <1>1, <1>2, <3>1, ApartSymmetric DEF PolicyInv, Hands
    <3> QED
      BY <1>1, <2>2, <3>1, <3>2 DEF PolicyInv
  <2> QED
    BY <1>5, <2>2, <2>3, <2>4, <2>5 DEF PolicyInv
<1> QED
  BY <1>2, <1>3, <1>3a, <1>5, <1>6, OnePolicy

\* A restart goes over to the former leader's hand.
LEMMA HandOverInv ==
    ASSUME ProtocolInv, NEW p \in Policies, HandOver(p)
    PROVE  ProtocolInv'
<1> DEFINE hands == [EmptyHanded EXCEPT !["former"] = pending[p]["leader"]]
<1>1. PolicyInv(book[p], pending[p], sent[p])
  BY ByPolicy
<1>2. /\ hands \in [Hands -> Restart \cup {None}]
      /\ hands["leader"] = None
      /\ hands["former"] = pending[p]["leader"]
      /\ Hands = {"leader", "former"}
  BY <1>1 DEF PolicyInv, EmptyHanded, Hands
<1>3. pending' = [pending EXCEPT ![p] = hands]
  BY DEF HandOver
<1> HIDE DEF hands
<1>4. PolicyInv(book[p], hands, sent[p])
  BY <1>1, <1>2 DEF PolicyInv
<1>5. /\ book' = [book EXCEPT ![p] = book[p]]
      /\ sent' = [sent EXCEPT ![p] = sent[p]]
      /\ lapsed' \subseteq Policies
  BY SameAt DEF ProtocolInv, ProtocolTypeOK, HandOver
<1> QED
  BY <1>3, <1>4, <1>5, OnePolicy

\* A newer object: no restart sent or pending is of it.
LEMMA AdoptInv ==
    ASSUME ProtocolInv, NEW p \in Policies, Adopt(p)
    PROVE  ProtocolInv'
<1>1. PolicyInv(book[p], pending[p], sent[p])
  BY ByPolicy
<1>2. PICK uid \in Nat : uid = book'[p].uid
  BY DEF Adopt, Uid
<1> DEFINE b == [(IF book[p].uid = 0 THEN book[p] ELSE NewBook)
                    EXCEPT !.uid = uid]
<1>3. /\ uid > book[p].uid
      /\ book' = [book EXCEPT ![p] = b]
      /\ UNCHANGED <<pending, sent, lapsed>>
  BY <1>2 DEF Adopt
<1>4. b \in Book /\ b.uid = uid
  BY <1>1, <1>2, EmptyTypes DEF PolicyInv, Book, Uid
<1> HIDE DEF b
<1>5. \A r \in Restart : Covers(book[p], r) => Covers(b, r)
  BY <1>1, <1>3, <1>4 DEF PolicyInv, Covers, Book, Restart, Uid
<1>6. PolicyInv(b, pending[p], sent[p])
  <2>1. /\ \A i \in DOMAIN sent[p] : sent[p][i] \in Restart
        /\ \A h \in Hands : pending[p][h] # None => pending[p][h] \in Restart
    BY <1>1 DEF PolicyInv
  <2> QED
    BY <1>1, <1>4, <1>5, <2>1 DEF PolicyInv
<1>7. /\ pending' = [pending EXCEPT ![p] = pending[p]]
      /\ sent' = [sent EXCEPT ![p] = sent[p]]
      /\ lapsed' \subseteq Policies
  BY <1>3, SameAt DEF ProtocolInv, ProtocolTypeOK
<1>8. book' = [book EXCEPT ![p] = b]
  BY <1>3
<1> QED
  BY <1>6, <1>7, <1>8, OnePolicy

\* A policy that starts afresh, or about which nothing is promised any more.
LEMMA RenewInv ==
    ASSUME ProtocolInv, NEW p \in Policies, Renew(p) \/ Lapse(p)
    PROVE  ProtocolInv'
<1>1. PolicyInv(NewBook, EmptyHanded, <<>>)
  <2>1. /\ \A h \in Hands : EmptyHanded[h] = None
        /\ EmptyHanded["leader"] = None
        /\ DOMAIN <<>> = {}
    BY DEF EmptyHanded, Hands
  <2> QED
    BY <2>1, EmptyTypes DEF PolicyInv
<1>2. pending' = [pending EXCEPT ![p] = EmptyHanded]
  BY SameAt DEF ProtocolInv, ProtocolTypeOK, Renew, Lapse
<1>3. /\ book' = [book EXCEPT ![p] = NewBook]
      /\ sent' = [sent EXCEPT ![p] = <<>>]
      /\ lapsed' \subseteq Policies
  BY DEF ProtocolInv, ProtocolTypeOK, Renew, Lapse
<1> QED
  BY <1>1, <1>2, <1>3, OnePolicy

-----------------------------------------------------------------------------
\* The count of the book.  It needs a cooldown: without one, two windows can
\* begin at the same time, and the restarts of the first fall in the second.

\* WithinCount for one policy with this book, these hands and this history.
CountInv(b, hands, hist) ==
    b.windowStart # None =>
        Cardinality(SentIn(b, hist)) + Cardinality(HeldIn(b, hands))
            <= b.restartCount

\* One more element makes a finite set at most one larger.
LEMMA AddOne ==
    ASSUME NEW S, IsFiniteSet(S), NEW x
    PROVE  /\ IsFiniteSet(S \cup {x})
           /\ Cardinality(S \cup {x}) <= Cardinality(S) + 1
<1>1. Cardinality(S) \in Nat
  BY FS_CardinalityType
<1>2. CASE x \in S
  <2> DEFINE more == S \cup {x}
  <2>1. more = S
    BY <1>2
  <2> HIDE DEF more
  <2>2. IsFiniteSet(more) /\ Cardinality(more) <= Cardinality(S) + 1
    BY <1>1, <2>1
  <2> QED
    BY <2>2 DEF more
<1>3. CASE x \notin S
  <2>1. /\ IsFiniteSet(S \cup {x})
        /\ Cardinality(S \cup {x}) = Cardinality(S) + 1
    BY <1>3, FS_AddElement
  <2> QED
    BY <1>1, <2>1
<1> QED
  BY <1>2, <1>3

\* The restarts counted are finitely many.
LEMMA CountFinite ==
    ASSUME NEW b, NEW hands, NEW hist \in Seq(Restart)
    PROVE  /\ IsFiniteSet(SentIn(b, hist)) /\ IsFiniteSet(HeldIn(b, hands))
           /\ Cardinality(SentIn(b, hist)) \in Nat
           /\ Cardinality(HeldIn(b, hands)) \in Nat
<1>1. IsFiniteSet(DOMAIN hist)
  <2>1. DOMAIN hist = 1 .. Len(hist) /\ Len(hist) \in Nat
    OBVIOUS
  <2> QED
    BY <2>1, FS_Interval
<1>2. IsFiniteSet(Hands)
  <2>1. Hands = ({} \cup {"leader"}) \cup {"former"}
    BY DEF Hands
  <2> QED
    BY <2>1, FS_EmptySet, FS_AddElement
<1>3. SentIn(b, hist) \subseteq DOMAIN hist /\ HeldIn(b, hands) \subseteq Hands
  BY DEF SentIn, HeldIn
<1> QED
  BY <1>1, <1>2, <1>3, FS_Subset, FS_CardinalityType

\* Fewer or the same restarts under the same or a higher count.
LEMMA CountFewer ==
    ASSUME NEW b, NEW hands, NEW hist \in Seq(Restart),
           NEW c, NEW held, NEW hist2 \in Seq(Restart),
           b.restartCount \in Nat, c.restartCount \in Nat,
           b.windowStart # None, CountInv(b, hands, hist),
           SentIn(c, hist2) \subseteq SentIn(b, hist),
           HeldIn(c, held) \subseteq HeldIn(b, hands),
           b.restartCount <= c.restartCount
    PROVE  CountInv(c, held, hist2)
<1>1. /\ Cardinality(SentIn(c, hist2)) <= Cardinality(SentIn(b, hist))
      /\ Cardinality(HeldIn(c, held)) <= Cardinality(HeldIn(b, hands))
  BY CountFinite, FS_Subset
<1>2. /\ Cardinality(SentIn(c, hist2)) \in Nat
      /\ Cardinality(SentIn(b, hist)) \in Nat
      /\ Cardinality(HeldIn(c, held)) \in Nat
      /\ Cardinality(HeldIn(b, hands)) \in Nat
  BY CountFinite
<1> QED
  BY <1>1, <1>2 DEF CountInv

\* No restart is counted.
LEMMA CountNone ==
    ASSUME NEW b, NEW hands, NEW hist, b.restartCount \in Nat,
           SentIn(b, hist) = {}, HeldIn(b, hands) = {}
    PROVE  CountInv(b, hands, hist)
  BY FS_EmptySet DEF CountInv

\* WithinCount is CountInv of every policy.
LEMMA CountByPolicy ==
    WithinCount <=> \A p \in Policies : CountInv(book[p], pending[p], sent[p])
  BY DEF WithinCount, CountInv

\* A step at one policy that keeps its CountInv keeps WithinCount.
LEMMA CountOnePolicy ==
    ASSUME ProtocolInv, WithinCount, NEW p \in Policies,
           NEW b, NEW hands, NEW hist, CountInv(b, hands, hist),
           book' = [book EXCEPT ![p] = b],
           pending' = [pending EXCEPT ![p] = hands],
           sent' = [sent EXCEPT ![p] = hist]
    PROVE  WithinCount'
<1>1. /\ book'[p] = b /\ pending'[p] = hands /\ sent'[p] = hist
      /\ \A q \in Policies \ {p} : /\ book'[q] = book[q]
                                   /\ pending'[q] = pending[q]
                                   /\ sent'[q] = sent[q]
  BY DEF ProtocolInv, ProtocolTypeOK
<1> QED
  BY <1>1 DEF WithinCount, CountInv

\* Booking opens a window that holds no other restart, or counts one more in
\* the window it is in.
LEMMA BookedCounts ==
    ASSUME Cooldown > 0, NEW b, NEW hands, NEW hist, NEW r \in Restart,
           PolicyInv(b, hands, hist), CountInv(b, hands, hist),
           r.uid = b.uid, ~InCooldown(b, r.at), hands["leader"] = None
    PROVE  /\ CountInv(Booked(b, r), hands, hist)
           /\ CountInv(Booked(b, r), [hands EXCEPT !["leader"] = r], hist)
<1> DEFINE c == Booked(b, r)
           held == [hands EXCEPT !["leader"] = r]
<1>0. /\ b \in Book /\ hist \in Seq(Restart)
      /\ hands \in [Hands -> Restart \cup {None}]
      /\ r.at \in Nat /\ b.uid \in Nat /\ b.restartCount \in Nat
      /\ Cooldown \in Nat
      /\ b.lastRestartAt # None => b.lastRestartAt \in Nat
  BY StatusAssumption DEF PolicyInv, Book, Uid, Restart, Time, OptTime
<1>1. /\ c.uid = b.uid
      /\ \/ /\ b.windowStart # None /\ c.windowStart = b.windowStart
            /\ c.restartCount = b.restartCount + 1
         \/ c.windowStart = r.at /\ c.restartCount = 1
  BY <1>0 DEF Booked, Book, sameWindow
<1>2. \A g \in Hands \ {"leader"} : held[g] = hands[g]
  BY <1>0
<1>3. HeldIn(c, hands) \subseteq HeldIn(c, held)
  BY <1>0, <1>2 DEF HeldIn
<1> HIDE DEF c, held
<1>4. CountInv(c, held, hist)
  <2>1. CASE /\ b.windowStart # None /\ c.windowStart = b.windowStart
             /\ c.restartCount = b.restartCount + 1
    <3>1. SentIn(c, hist) = SentIn(b, hist)
      BY <1>1, <2>1 DEF SentIn, InWindow
    <3>2. HeldIn(c, held) \subseteq HeldIn(b, hands) \cup {"leader"}
      BY <1>1, <1>2, <2>1 DEF HeldIn, InWindow
    <3>3. /\ IsFiniteSet(HeldIn(b, hands) \cup {"leader"})
          /\ Cardinality(HeldIn(b, hands) \cup {"leader"})
                <= Cardinality(HeldIn(b, hands)) + 1
      BY <1>0, CountFinite, AddOne
    <3>4. Cardinality(HeldIn(c, held)) <= Cardinality(HeldIn(b, hands)) + 1
      <4>1. Cardinality(HeldIn(c, held))
               <= Cardinality(HeldIn(b, hands) \cup {"leader"})
        BY <3>2, <3>3, FS_Subset
      <4>2. /\ Cardinality(HeldIn(b, hands) \cup {"leader"}) \in Nat
            /\ Cardinality(HeldIn(b, hands)) \in Nat
            /\ Cardinality(HeldIn(c, held)) \in Nat
        BY <1>0, <3>3, CountFinite, FS_CardinalityType
      <4> QED
        BY <3>3, <4>1, <4>2
    <3>5. Cardinality(SentIn(b, hist)) + Cardinality(HeldIn(b, hands))
             <= b.restartCount
      BY <2>1 DEF CountInv
    <3>6. /\ Cardinality(HeldIn(c, held)) \in Nat
          /\ Cardinality(HeldIn(b, hands)) \in Nat
          /\ Cardinality(SentIn(b, hist)) \in Nat
      BY <1>0, CountFinite
    <3>7. Cardinality(SentIn(b, hist)) + Cardinality(HeldIn(c, held))
             <= c.restartCount
      BY <1>0, <2>1, <3>4, <3>5, <3>6
    <3> QED
      BY <3>1, <3>7 DEF CountInv
  <2>2. CASE c.windowStart = r.at /\ c.restartCount = 1
    <3>1. ASSUME NEW s \in Restart, Covers(b, s)
          PROVE  ~InWindow(c, s)
      <4>1. s.at \in Nat
        BY DEF Restart, Time
      <4>2. s.uid = b.uid => s.at < r.at
        BY <1>0, <3>1, <4>1 DEF Covers, InCooldown
      <4> QED
        BY <1>0, <1>1, <2>2, <4>1, <4>2 DEF InWindow
    <3>2. SentIn(c, hist) = {}
      BY <1>0, <3>1 DEF SentIn, PolicyInv
    <3>3. HeldIn(c, held) \subseteq {"leader"}
      BY <1>0, <1>2, <3>1 DEF HeldIn, PolicyInv
    <3>4. IsFiniteSet({"leader"}) /\ Cardinality({"leader"}) = 1
      BY FS_Singleton
    <3>5. Cardinality(HeldIn(c, held)) <= 1
      BY <3>3, <3>4, FS_Subset
    <3>6. Cardinality(HeldIn(c, held)) \in Nat
      BY <1>0, CountFinite
    <3> QED
      BY <2>2, <3>2, <3>5, <3>6, FS_EmptySet DEF CountInv
  <2> QED
    BY <1>1, <2>1, <2>2
<1>5. CountInv(c, hands, hist)
  <2>1. c.restartCount \in Nat
    BY <1>0, <1>1
  <2>2. CASE c.windowStart = None
    BY <2>2 DEF CountInv
  <2>3. CASE c.windowStart # None
    BY <1>0, <1>3, <1>4, <2>1, <2>3, CountFewer
  <2> QED
    BY <2>2, <2>3
<1> QED
  BY <1>4, <1>5 DEF c, held

\* Record keeps WithinCount, whether its restart is pending or lost.
LEMMA RecordCounts ==
    ASSUME Cooldown > 0, ProtocolInv, WithinCount, NEW p \in Policies, Record(p)
    PROVE  WithinCount'
<1> DEFINE r == [at |-> book'[p].lastRestartAt, uid |-> book[p].uid,
                 version |-> book'[p].version]
           held == [pending[p] EXCEPT !["leader"] = r]
<1>1. /\ PolicyInv(book[p], pending[p], sent[p])
      /\ CountInv(book[p], pending[p], sent[p])
  BY ByPolicy, CountByPolicy
<1>2. /\ r \in Restart /\ r.uid = book[p].uid /\ ~InCooldown(book[p], r.at)
      /\ pending[p]["leader"] = None
      /\ book' = [book EXCEPT ![p] = Booked(book[p], r)]
      /\ pending' = [pending EXCEPT ![p] = held] \/ UNCHANGED pending
      /\ UNCHANGED sent
  BY DEF Record
<1> HIDE DEF r
<1>3. /\ CountInv(Booked(book[p], r), pending[p], sent[p])
      /\ CountInv(Booked(book[p], r), held, sent[p])
  BY <1>1, <1>2, BookedCounts
<1>4. /\ sent' = [sent EXCEPT ![p] = sent[p]]
      /\ UNCHANGED pending => pending' = [pending EXCEPT ![p] = pending[p]]
  BY <1>2, SameAt DEF ProtocolInv, ProtocolTypeOK
<1> DEFINE b == Booked(book[p], r)
<1> HIDE DEF held, b
<1>5. book' = [book EXCEPT ![p] = b]
  BY <1>2 DEF b
<1>6. CASE pending' = [pending EXCEPT ![p] = held]
  <2>1. CountInv(b, held, sent[p])
    BY <1>3 DEF b
  <2> QED
    BY <1>4, <1>5, <1>6, <2>1, CountOnePolicy
<1>7. CASE UNCHANGED pending
  <2>1. CountInv(b, pending[p], sent[p])
    BY <1>3 DEF b
  <2> QED
    BY <1>4, <1>5, <1>7, <2>1, CountOnePolicy
<1> QED
  BY <1>2, <1>6, <1>7

\* A restart moves from a hand to the history, or is dropped.
LEMMA SendCounts ==
    ASSUME ProtocolInv, WithinCount, NEW p \in Policies, NEW h \in Hands,
           Send(p, h) \/ Drop(p, h)
    PROVE  WithinCount'
<1> DEFINE b == book[p]
           hands == pending[p]
           hist == sent[p]
           rest == [hands EXCEPT ![h] = None]
           longer == Append(hist, hands[h])
<1>1. PolicyInv(b, hands, hist) /\ CountInv(b, hands, hist)
  BY ByPolicy, CountByPolicy
<1>2. /\ hands[h] # None
      /\ pending' = [pending EXCEPT ![p] = rest]
      /\ UNCHANGED book
      /\ sent' = [sent EXCEPT ![p] = longer] \/ UNCHANGED sent
  BY DEF Send, Drop
<1>3. book' = [book EXCEPT ![p] = b]
  BY <1>2, SameAt DEF ProtocolInv, ProtocolTypeOK
<1>4. UNCHANGED sent => sent' = [sent EXCEPT ![p] = hist]
  BY SameAt DEF ProtocolInv, ProtocolTypeOK
<1> HIDE DEF b, hands, hist
<1>5. /\ b.restartCount \in Nat /\ hist \in Seq(Restart)
      /\ hands \in [Hands -> Restart \cup {None}]
  BY <1>1 DEF PolicyInv, Book
<1>6. /\ rest[h] = None
      /\ \A g \in Hands \ {h} : rest[g] = hands[g]
  BY <1>5
<1>7. /\ longer \in Seq(Restart)
      /\ DOMAIN longer = DOMAIN hist \cup {Len(hist) + 1}
      /\ longer[Len(hist) + 1] = hands[h]
      /\ \A i \in DOMAIN hist : longer[i] = hist[i]
  BY <1>2, <1>5
<1> HIDE DEF rest, longer
<1>8. HeldIn(b, rest) = HeldIn(b, hands) \ {h}
  BY <1>6 DEF HeldIn
<1>9. CountInv(b, rest, hist)
  <2>1. HeldIn(b, rest) \subseteq HeldIn(b, hands)
    BY <1>8
  <2>2. CASE b.windowStart # None
    BY <1>1, <1>5, <2>1, <2>2, CountFewer
  <2>3. CASE b.windowStart = None
    BY <2>3 DEF CountInv
  <2> QED
    BY <2>2, <2>3
<1>10. CountInv(b, rest, longer)
  <2>1. CASE InWindow(b, hands[h])
    <3>1. SentIn(b, longer) \subseteq SentIn(b, hist) \cup {Len(hist) + 1}
      BY <1>7 DEF SentIn
    <3>2. h \in HeldIn(b, hands)
      BY <1>2, <2>1 DEF HeldIn
    <3>3. /\ IsFiniteSet(SentIn(b, hist)) /\ IsFiniteSet(HeldIn(b, hands))
          /\ Cardinality(SentIn(b, hist)) \in Nat
          /\ Cardinality(HeldIn(b, hands)) \in Nat
      BY <1>5, CountFinite
    <3>4. Cardinality(HeldIn(b, rest)) = Cardinality(HeldIn(b, hands)) - 1
      BY <1>8, <3>2, <3>3, FS_RemoveElement
    <3>5. /\ IsFiniteSet(SentIn(b, hist) \cup {Len(hist) + 1})
          /\ Cardinality(SentIn(b, hist) \cup {Len(hist) + 1})
                <= Cardinality(SentIn(b, hist)) + 1
      BY <3>3, AddOne
    <3>6. Cardinality(SentIn(b, longer))
             <= Cardinality(SentIn(b, hist) \cup {Len(hist) + 1})
      BY <3>1, <3>5, FS_Subset
    <3>7. /\ Cardinality(SentIn(b, longer)) \in Nat
          /\ Cardinality(SentIn(b, hist) \cup {Len(hist) + 1}) \in Nat
      BY <1>7, <3>5, CountFinite, FS_CardinalityType
    <3>8. b.windowStart # None =>
             Cardinality(SentIn(b, hist)) + Cardinality(HeldIn(b, hands))
                <= b.restartCount
      BY <1>1 DEF CountInv
    <3>9. b.windowStart # None =>
             Cardinality(SentIn(b, longer)) + Cardinality(HeldIn(b, rest))
                <= b.restartCount
      BY <1>5, <3>3, <3>4, <3>5, <3>6, <3>7, <3>8
    <3> QED
      BY <3>9 DEF CountInv
  <2>2. CASE ~InWindow(b, hands[h])
    <3>1. SentIn(b, longer) = SentIn(b, hist)
      <4>1. ASSUME NEW i \in DOMAIN longer
            PROVE  i \in SentIn(b, longer) <=> i \in SentIn(b, hist)
        <5>1. CASE i \in DOMAIN hist
          BY <1>7, <5>1 DEF SentIn
        <5>2. CASE i = Len(hist) + 1
          <6>1. i \notin DOMAIN hist
            BY <1>5, <5>2
          <6> QED
            BY <1>7, <2>2, <5>2, <6>1 DEF SentIn
        <5> QED
          BY <1>7, <5>1, <5>2
      <4>2. SentIn(b, longer) \subseteq DOMAIN longer
        BY DEF SentIn
      <4>3. SentIn(b, hist) \subseteq DOMAIN longer
        BY <1>7 DEF SentIn
      <4> QED
        BY <4>1, <4>2, <4>3
    <3> QED
      BY <1>9, <3>1 DEF CountInv
  <2> QED
    BY <2>1, <2>2
<1> QED
  BY <1>2, <1>3, <1>4, <1>9, <1>10, CountOnePolicy

\* A restart changes hands.
LEMMA HandOverCounts ==
    ASSUME ProtocolInv, WithinCount, NEW p \in Policies, HandOver(p)
    PROVE  WithinCount'
<1> DEFINE b == book[p]
           hands == pending[p]
           hist == sent[p]
           over == [EmptyHanded EXCEPT !["former"] = hands["leader"]]
<1>1. PolicyInv(b, hands, hist) /\ CountInv(b, hands, hist)
  BY ByPolicy, CountByPolicy
<1>2. /\ pending' = [pending EXCEPT ![p] = over]
      /\ book' = [book EXCEPT ![p] = b]
      /\ sent' = [sent EXCEPT ![p] = hist]
      /\ hands["leader"] # None
  BY SameAt DEF HandOver, ProtocolInv, ProtocolTypeOK
<1>3. over["leader"] = None /\ over["former"] = hands["leader"]
  BY DEF EmptyHanded, Hands
<1> HIDE DEF b, hands, hist, over
<1>4. b.restartCount \in Nat /\ hist \in Seq(Restart)
  BY <1>1 DEF PolicyInv, Book
<1>5. CASE b.windowStart # None /\ InWindow(b, hands["leader"])
  <2>1. HeldIn(b, over) \subseteq {"former"} /\ {"leader"} \subseteq HeldIn(b, hands)
    BY <1>2, <1>3, <1>5 DEF HeldIn, Hands
  <2>2. /\ IsFiniteSet({"former"}) /\ Cardinality({"former"}) = 1
        /\ Cardinality({"leader"}) = 1
    BY FS_Singleton
  <2>3. /\ Cardinality(HeldIn(b, over)) <= 1
        /\ 1 <= Cardinality(HeldIn(b, hands))
    BY <1>4, <2>1, <2>2, CountFinite, FS_Subset
  <2>4. /\ Cardinality(HeldIn(b, over)) \in Nat
        /\ Cardinality(HeldIn(b, hands)) \in Nat
        /\ Cardinality(SentIn(b, hist)) \in Nat
    BY <1>4, CountFinite
  <2>5. Cardinality(SentIn(b, hist)) + Cardinality(HeldIn(b, hands))
           <= b.restartCount
    BY <1>1, <1>5 DEF CountInv
  <2>6. Cardinality(SentIn(b, hist)) + Cardinality(HeldIn(b, over))
           <= b.restartCount
    BY <1>4, <2>3, <2>4, <2>5
  <2>7. CountInv(b, over, hist)
    BY <2>6 DEF CountInv
  <2> QED
    BY <1>2, <2>7, CountOnePolicy
<1>6. CASE b.windowStart # None /\ ~InWindow(b, hands["leader"])
  <2>1. HeldIn(b, over) \subseteq HeldIn(b, hands)
    BY <1>3, <1>6 DEF HeldIn, Hands
  <2>2. CountInv(b, over, hist)
    BY <1>1, <1>4, <1>6, <2>1, CountFewer
  <2> QED
    BY <1>2, <2>2, CountOnePolicy
<1>7. CASE b.windowStart = None
  <2>1. CountInv(b, over, hist)
    BY <1>7 DEF CountInv
  <2> QED
    BY <1>2, <2>1, CountOnePolicy
<1> QED
  BY <1>5, <1>6, <1>7

\* No restart is of the newer object.
LEMMA AdoptCounts ==
    ASSUME ProtocolInv, WithinCount, NEW p \in Policies, Adopt(p)
    PROVE  WithinCount'
<1>1. PolicyInv(book[p], pending[p], sent[p])
  BY ByPolicy
<1>2. PICK uid \in Nat : uid = book'[p].uid
  BY DEF Adopt, Uid
<1> DEFINE b == [(IF book[p].uid = 0 THEN book[p] ELSE NewBook)
                    EXCEPT !.uid = uid]
<1>3. /\ uid > book[p].uid
      /\ book' = [book EXCEPT ![p] = b]
      /\ pending' = [pending EXCEPT ![p] = pending[p]]
      /\ sent' = [sent EXCEPT ![p] = sent[p]]
  BY <1>2, SameAt DEF Adopt, ProtocolInv, ProtocolTypeOK
<1>4. b \in Book /\ b.uid = uid /\ book[p].uid \in Nat /\ b.restartCount \in Nat
  BY <1>1, <1>2, EmptyTypes DEF PolicyInv, Book, Uid
<1> HIDE DEF b
<1>5. ASSUME NEW r \in Restart, Covers(book[p], r)
      PROVE  ~InWindow(b, r)
  <2>1. r.uid \in Nat
    BY DEF Restart, Uid
  <2> QED
    BY <1>3, <1>4, <1>5, <2>1 DEF Covers, InWindow
<1>6. SentIn(b, sent[p]) = {} /\ HeldIn(b, pending[p]) = {}
  BY <1>1, <1>5 DEF SentIn, HeldIn, PolicyInv
<1>7. CountInv(b, pending[p], sent[p])
  BY <1>4, <1>6, CountNone
<1> QED
  BY <1>3, <1>7, CountOnePolicy

\* A new book has no window.
LEMMA RenewCounts ==
    ASSUME ProtocolInv, WithinCount, NEW p \in Policies, Renew(p) \/ Lapse(p)
    PROVE  WithinCount'
<1>1. NewBook.windowStart = None
  BY DEF NewBook, BookOf, InitStatus
<1>2. CountInv(NewBook, EmptyHanded, <<>>)
  BY <1>1 DEF CountInv
<1>3. /\ pending' = [pending EXCEPT ![p] = EmptyHanded]
      /\ book' = [book EXCEPT ![p] = NewBook]
      /\ sent' = [sent EXCEPT ![p] = <<>>]
  BY SameAt DEF ProtocolInv, ProtocolTypeOK, Renew, Lapse
<1> QED
  BY <1>2, <1>3, CountOnePolicy

\* Every step of the protocol keeps WithinCount.
LEMMA NextCounts ==
    ASSUME Cooldown > 0, ProtocolInv, WithinCount, [ProtocolNext]_protocolVars
    PROVE  WithinCount'
<1>1. CASE ProtocolNext
  BY <1>1, RecordCounts, SendCounts, HandOverCounts, AdoptCounts, RenewCounts
  DEF ProtocolNext
<1>2. CASE UNCHANGED protocolVars
  BY <1>2 DEF protocolVars, WithinCount
<1> QED
  BY <1>1, <1>2

-----------------------------------------------------------------------------

\* The initial state.
LEMMA ProtocolInitInv == ProtocolInit => ProtocolInv
<1> SUFFICES ASSUME ProtocolInit PROVE ProtocolInv
  OBVIOUS
<1>1. ProtocolTypeOK
  BY EmptyTypes DEF ProtocolInit, ProtocolTypeOK
<1>2. \A p \in Policies : /\ sent[p] = <<>>
                          /\ \A h \in Hands : pending[p][h] = None
  BY DEF ProtocolInit, EmptyHanded
<1>3. "leader" \in Hands /\ DOMAIN <<>> = {}
  BY DEF Hands
<1> QED
  BY <1>1, <1>2, <1>3
  DEF ProtocolInv, AllCovered, PendingSpaced, Spaced

\* Every step of the protocol.
LEMMA ProtocolNextInv ==
    ProtocolInv /\ [ProtocolNext]_protocolVars => ProtocolInv'
<1> SUFFICES ASSUME ProtocolInv, [ProtocolNext]_protocolVars
             PROVE  ProtocolInv'
  OBVIOUS
<1>1. CASE ProtocolNext
  BY <1>1, RecordInv, SendInv, HandOverInv, AdoptInv, RenewInv
  DEF ProtocolNext
<1>2. CASE UNCHANGED protocolVars
  BY <1>2 DEF protocolVars, ProtocolInv, ProtocolTypeOK, AllCovered,
              PendingSpaced, Spaced
<1> QED
  BY <1>1, <1>2

\* The protocol keeps the cooldown between the restarts of an object, for any
\* number of leaders, lost answers and late patches.
THEOREM ProtocolSpaced == ProtocolSpec => [](ProtocolInv /\ Spaced)
<1>1. ProtocolInv => Spaced
  BY DEF ProtocolInv
<1> QED
  BY <1>1, ProtocolInitInv, ProtocolNextInv, PTL DEF ProtocolSpec

\* If there is a cooldown at all, the book never counts fewer restarts than
\* those of its window, sent or still to be sent: a restart is booked before it
\* is sent, and a booking that is not counted on opens a window of its own.
THEOREM ProtocolCounts == Cooldown > 0 => (ProtocolSpec => []WithinCount)
<1> SUFFICES ASSUME Cooldown > 0
             PROVE  ProtocolSpec => []WithinCount
  OBVIOUS
<1>1. ProtocolInit => WithinCount
  <2>1. NewBook.windowStart = None
    BY DEF NewBook, BookOf, InitStatus
  <2> QED
    BY <2>1 DEF ProtocolInit, WithinCount
<1>2. ProtocolInv /\ WithinCount /\ [ProtocolNext]_protocolVars => WithinCount'
  BY NextCounts
<1> QED
  BY <1>1, <1>2, ProtocolInitInv, ProtocolNextInv, PTL DEF ProtocolSpec
=============================================================================
