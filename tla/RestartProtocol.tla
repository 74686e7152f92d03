-------------------------- MODULE RestartProtocol --------------------------
(***************************************************************************)
(* What the controller promises about the restarts of one policy, without  *)
(* queue, caches, API calls, gate or expirer: a durable book that outlives *)
(* every leader, and restarts that are booked before they are sent, sent   *)
(* at most once, and lost at worst (reconciler.go, "persist THEN trigger").*)
(*                                                                         *)
(* A booked restart waits in the hands of the leader; a leader that dies   *)
(* may leave it on the wire, to arrive long after.  Nothing is promised    *)
(* about a policy that has lapsed: one whose status a conflict retry       *)
(* overwrote, or that was deleted with a restart still on its way.         *)
(***************************************************************************)
EXTENDS PolicyStatus

CONSTANT Policies

VARIABLES
    book,      \* the part of each policy's status that limits its restarts
    pending,   \* booked restarts not sent yet: the leader's, a former leader's
    sent,      \* the restarts that reached the cluster, in order
    lapsed     \* the policies without a promise

protocolVars == <<book, pending, sent, lapsed>>

Book == [uid : Uid, lastRestartAt : OptTime, restartCount : Nat,
         windowStart : OptTime, version : Version]
Hands == {"leader", "former"}

BookOf(st) == [uid |-> st.uid, lastRestartAt |-> st.lastRestartAt,
               restartCount |-> st.restartCount,
               windowStart |-> st.windowStart, version |-> st.version]
NewBook     == BookOf(InitStatus)
EmptyHanded == [h \in Hands |-> None]

ProtocolTypeOK ==
    /\ book \in [Policies -> Book]
    /\ pending \in [Policies -> [Hands -> Restart \cup {None}]]
    /\ sent \in [Policies -> Seq(Restart)]
    /\ lapsed \subseteq Policies

ProtocolInit ==
    /\ book = [p \in Policies |-> NewBook]
    /\ pending = [p \in Policies |-> EmptyHanded]
    /\ sent = [p \in Policies |-> <<>>]
    /\ lapsed = {}

-----------------------------------------------------------------------------

\* The book with restart r entered.
Booked(b, r) ==
    LET same == sameWindow(b, r.version, r.at)
    IN  [b EXCEPT !.restartCount  = IF same THEN b.restartCount + 1 ELSE 1,
                  !.windowStart   = IF same THEN b.windowStart ELSE r.at,
                  !.lastRestartAt = r.at,
                  !.version       = r.version]

\* Book a restart of the adopted workload that cooldown and breaker allow.
\* When the answer to the write is lost it is booked and never sent.
Record(p) ==
    LET r == [at |-> book'[p].lastRestartAt, uid |-> book[p].uid,
              version |-> book'[p].version]
    IN  /\ p \notin lapsed
        /\ pending[p]["leader"] = None
        /\ r \in Restart /\ r.uid # 0
        /\ ~InCooldown(book[p], r.at)
        /\ ~BreakerTripped(book[p], r.version, r.at)
        /\ book' = [book EXCEPT ![p] = Booked(book[p], r)]
        /\ \/ pending' = [pending EXCEPT ![p] = [@ EXCEPT !["leader"] = r]]
           \/ UNCHANGED pending
        /\ UNCHANGED <<sent, lapsed>>

\* A pending restart reaches the cluster, or never will.
Send(p, h) ==
    /\ pending[p][h] # None
    /\ sent' = [sent EXCEPT ![p] = Append(@, pending[p][h])]
    /\ pending' = [pending EXCEPT ![p] = [@ EXCEPT ![h] = None]]
    /\ UNCHANGED <<book, lapsed>>

Drop(p, h) ==
    /\ pending[p][h] # None
    /\ pending' = [pending EXCEPT ![p] = [@ EXCEPT ![h] = None]]
    /\ UNCHANGED <<book, sent, lapsed>>

\* The leader dies with its restart on the wire.
HandOver(p) ==
    /\ pending[p]["leader"] # None
    /\ pending' = [pending EXCEPT ![p] =
                      [EmptyHanded EXCEPT !["former"] = pending[p]["leader"]]]
    /\ UNCHANGED <<book, sent, lapsed>>

\* The first workload object is adopted, or a newer one, which starts a book
\* of its own.
Adopt(p) ==
    LET uid == book'[p].uid
    IN  /\ uid \in Uid /\ uid > book[p].uid
        /\ book' = [book EXCEPT ![p] =
                       [(IF @.uid = 0 THEN @ ELSE NewBook) EXCEPT !.uid = uid]]
        /\ UNCHANGED <<pending, sent, lapsed>>

\* The policy is deleted with nothing on its way: its successor starts afresh.
Renew(p) ==
    /\ pending[p] = EmptyHanded
    /\ book' = [book EXCEPT ![p] = NewBook]
    /\ sent' = [sent EXCEPT ![p] = <<>>]
    /\ UNCHANGED <<pending, lapsed>>

Lapse(p) ==
    /\ book' = [book EXCEPT ![p] = NewBook]
    /\ pending' = [pending EXCEPT ![p] = EmptyHanded]
    /\ sent' = [sent EXCEPT ![p] = <<>>]
    /\ lapsed' = lapsed \cup {p}

ProtocolNext ==
    \E p \in Policies :
        \/ Record(p) \/ HandOver(p) \/ Adopt(p) \/ Renew(p) \/ Lapse(p)
        \/ \E h \in Hands : Send(p, h) \/ Drop(p, h)

ProtocolSpec == ProtocolInit /\ [][ProtocolNext]_protocolVars

-----------------------------------------------------------------------------

\* Two restarts of one workload object are at least the cooldown apart,
\* whichever leader sent them and whenever they arrived.
Apart(r, s) ==
    r.uid = s.uid => r.at >= s.at + Cooldown \/ s.at >= r.at + Cooldown

Spaced == \A p \in Policies : \A i, j \in DOMAIN sent[p] :
              i # j => Apart(sent[p][i], sent[p][j])

\* Why: the book's last restart is the latest of all the restarts of the
\* current object, sent or pending, so one that waits for the cooldown of the
\* last waits for that of every other.
Covers(b, r) ==
    /\ r.uid <= b.uid
    /\ r.uid = b.uid => b.lastRestartAt # None /\ r.at <= b.lastRestartAt

AllCovered ==
    \A p \in Policies :
        /\ \A i \in DOMAIN sent[p] : Covers(book[p], sent[p][i])
        /\ \A h \in Hands : pending[p][h] # None => Covers(book[p], pending[p][h])

PendingSpaced ==
    \A p \in Policies :
        /\ \A h \in Hands : pending[p][h] # None =>
              \A i \in DOMAIN sent[p] : Apart(sent[p][i], pending[p][h])
        /\ pending[p]["leader"] # None /\ pending[p]["former"] # None =>
              Apart(pending[p]["former"], pending[p]["leader"])

ProtocolInv == ProtocolTypeOK /\ AllCovered /\ PendingSpaced /\ Spaced

\* The book counts every restart of the current object since its window began,
\* sent or still pending, at whichever template version.
InWindow(b, r) == r.uid = b.uid /\ r.at >= b.windowStart

SentIn(b, hist)  == {i \in DOMAIN hist : InWindow(b, hist[i])}
HeldIn(b, hands) == {h \in Hands : hands[h] # None /\ InWindow(b, hands[h])}

WithinCount ==
    \A p \in Policies : book[p].windowStart # None =>
        Cardinality(SentIn(book[p], sent[p]))
            + Cardinality(HeldIn(book[p], pending[p])) <= book[p].restartCount
=============================================================================
