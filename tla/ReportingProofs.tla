--------------------------- MODULE ReportingProofs ---------------------------
(***************************************************************************)
(* The proofs about Reporting: what the outside world is told did happen,  *)
(* it is told at most once per cooldown, and every sink that is addressed  *)
(* is tried.                                                               *)
(***************************************************************************)
EXTENDS Reporting, SequenceTheorems, FiniteSetTheorems, TLAPS

\* The restart the worker is carrying out: profile first, then the record,
\* then the trigger.
Pursuing == {"capture", "record", "trigger"}

Job == [workload : Workloads, at : Time, profile : BOOLEAN]

Event == [type : EventTypes, workload : Workloads, at : Time, leader : Nat]

\* A status with the fields of a status, which says when its workload was last
\* restarted.
Dated(st) ==
    DOMAIN st = DOMAIN InitStatus /\ st.lastRestartAt \in OptTime

\* A report of which nothing is said about the tries.
Report(T) == [event : Event, tried : T, cut : BOOLEAN]

ReportSeq == \E T : reports \in Seq(Report(T))

TypeInv ==
    /\ now \in Time /\ leader \in Nat
    /\ DOMAIN status = Workloads /\ \A w \in Workloads : Dated(status[w])
    /\ lastProfile \in [Workloads -> OptTime]
    /\ wouldRestart \in [Workloads -> OptTime]
    /\ pc \in Pursuing \cup {"idle", "deliver"}
    /\ pc # "idle" => job \in Job
    /\ ReportSeq

\* Report i announces a restart of w.
Announces(i, w) ==
    /\ i \in DOMAIN reports
    /\ reports[i].event.type = "RestartTriggered"
    /\ reports[i].event.workload = w

-----------------------------------------------------------------------------
\* Reports are only added, and their events never change.

SameEvents ==
    /\ DOMAIN reports' = DOMAIN reports
    /\ \A i \in DOMAIN reports : reports'[i].event = reports[i].event

NewEvent(e) ==
    LET n == Len(reports) + 1
    IN  /\ n \in Nat /\ DOMAIN reports = 1 .. n - 1
        /\ DOMAIN reports' = 1 .. n
        /\ \A i \in DOMAIN reports : reports'[i].event = reports[i].event
        /\ reports'[n].event = e

\* A report may have further tries.
LEMMA ReportWidens ==
    ASSUME NEW T, NEW U, T \subseteq U, NEW s \in Seq(Report(T))
    PROVE  s \in Seq(Report(U))
<1>1. Report(T) \subseteq Report(U)
  BY DEF Report
<1> QED
  BY <1>1, SeqMonotonic

\* A report is added to the others.
LEMMA ReportAdded ==
    ASSUME ReportSeq, NEW e \in Event,
           reports' = Append(reports, [event |-> e, tried |-> <<>>, cut |-> FALSE])
    PROVE  ReportSeq' /\ NewEvent(e)
<1>1. PICK T : reports \in Seq(Report(T))
  BY DEF ReportSeq
<1> DEFINE U == T \cup {<<>>}
           r == [event |-> e, tried |-> <<>>, cut |-> FALSE]
<1>2. T \subseteq U
  OBVIOUS
<1>3. r \in Report(U) /\ r.event = e
  BY DEF Report
<1> HIDE DEF r, U
<1>4. reports \in Seq(Report(U))
  BY <1>1, <1>2, ReportWidens
<1>5. reports' = Append(reports, r)
  BY DEF r
<1>6. reports' \in Seq(Report(U))
  BY <1>3, <1>4, <1>5
<1>7. NewEvent(e)
  BY <1>3, <1>4, <1>5 DEF NewEvent
<1> QED
  BY <1>6, <1>7 DEF ReportSeq

\* A report is replaced by one of the same event.
LEMMA ReportReplaced ==
    ASSUME NEW T, reports \in Seq(Report(T)), NEW n, NEW r,
           n \in DOMAIN reports =>
              r \in Report(T) /\ r.event = reports[n].event,
           reports' = [reports EXCEPT ![n] = r]
    PROVE  ReportSeq' /\ SameEvents
<1>1. DOMAIN reports = 1 .. Len(reports) /\ DOMAIN reports' = DOMAIN reports
  BY LenProperties
<1>2. CASE n \in DOMAIN reports
  <2>1. /\ reports' \in Seq(Report(T))
        /\ \A j \in DOMAIN reports :
              reports'[j] = IF j = n THEN r ELSE reports[j]
    BY <1>1, <1>2, ExceptSeq
  <2> QED
    BY <1>1, <1>2, <2>1 DEF ReportSeq, SameEvents
<1>3. CASE n \notin DOMAIN reports
  <2>1. reports' = reports
    BY <1>3
  <2> QED
    BY <2>1 DEF ReportSeq, SameEvents
<1> QED
  BY <1>2, <1>3

\* A report gains a try, or is cut off.
LEMMA ReportTouched ==
    ASSUME ReportSeq, NEW n,
           \/ UNCHANGED reports
           \/ \E x : reports' = [reports EXCEPT ![n].tried = Append(@, x)]
           \/ reports' = [reports EXCEPT ![n].cut = TRUE]
    PROVE  ReportSeq' /\ SameEvents
<1>1. PICK T : reports \in Seq(Report(T))
  BY DEF ReportSeq
<1>2. CASE UNCHANGED reports
  BY <1>2 DEF ReportSeq, SameEvents
<1>3. ASSUME NEW x, reports' = [reports EXCEPT ![n].tried = Append(@, x)]
      PROVE  ReportSeq' /\ SameEvents
  <2> DEFINE U == T \cup {Append(reports[n].tried, x)}
             r == [reports[n] EXCEPT !.tried = Append(reports[n].tried, x)]
  <2>1. T \subseteq U
    OBVIOUS
  <2>2. n \in DOMAIN reports => reports[n] \in Report(T)
    BY <1>1, LenProperties, ElementOfSeq
  <2>3. n \in DOMAIN reports => r \in Report(U) /\ r.event = reports[n].event
    BY <2>2 DEF Report
  <2>4. reports' = [reports EXCEPT ![n] = r]
    BY <1>3
  <2> HIDE DEF U, r
  <2>5. reports \in Seq(Report(U))
    BY <1>1, <2>1, ReportWidens
  <2> QED
    BY <2>3, <2>4, <2>5, ReportReplaced
<1>4. CASE reports' = [reports EXCEPT ![n].cut = TRUE]
  <2> DEFINE r == [reports[n] EXCEPT !.cut = TRUE]
  <2>1. n \in DOMAIN reports => reports[n] \in Report(T)
    BY <1>1, LenProperties, ElementOfSeq
  <2>2. n \in DOMAIN reports => r \in Report(T) /\ r.event = reports[n].event
    BY <2>1 DEF Report
  <2>3. reports' = [reports EXCEPT ![n] = r]
    BY <1>4
  <2> HIDE DEF r
  <2> QED
    BY <1>1, <2>2, <2>3, ReportReplaced
<1> QED
  BY <1>2, <1>3, <1>4

\* What a call of Notify does: the report is made, or the event is dropped.
LEMMA NotifyDoes ==
    ASSUME TypeInv, NEW type \in EventTypes, NEW w \in Workloads, NEW at \in Time,
           Notify(type, w, at)
    PROVE  LET e == [type |-> type, workload |-> w, at |-> at,
                     leader |-> leader]
           IN  /\ ReportSeq' /\ (SameEvents \/ NewEvent(e))
               /\ \/ pc' = "idle"
                  \/ pc' = "deliver" /\ job' \in Job
<1> DEFINE e == [type |-> type, workload |-> w, at |-> at, leader |-> leader]
<1>1. e \in Event
  BY DEF TypeInv, Event
<1>2. CASE Return /\ UNCHANGED reports
  BY <1>2, ReportTouched DEF Return, TypeInv
<1>3. CASE /\ pc' = "deliver"
           /\ job' = [workload |-> w, at |-> at, profile |-> FALSE]
           /\ reports' = Append(reports,
                             [event |-> e, tried |-> <<>>, cut |-> FALSE])
  <2>1. job' \in Job
    BY <1>3 DEF Job
  <2> HIDE DEF e
  <2>2. ReportSeq' /\ NewEvent(e)
    BY <1>1, <1>3, ReportAdded DEF TypeInv
  <2> QED
    BY <1>3, <2>1, <2>2 DEF e
<1> QED
  BY <1>2, <1>3 DEF Notify

-----------------------------------------------------------------------------
\* Types.

\* Nothing but the worker changes what the worker is at.
LEMMA LeakTypes ==
    ASSUME TypeInv, NEW w \in Workloads, Leak(w)
    PROVE  TypeInv'
<1>1. now \in Time /\ UNCHANGED <<now, status, lastProfile, leader>>
  BY DEF Leak, TypeInv
<1>2. wouldRestart' \in [Workloads -> OptTime]
  BY DEF Leak, DryRun, TypeInv, OptTime
<1>3. ReportSeq' /\ (pc' = "idle" \/ (pc' \in Pursuing \cup {"deliver"} /\ job' \in Job))
  <2>1. CASE Return /\ UNCHANGED reports
    BY <2>1, ReportTouched DEF Return, TypeInv
  <2>2. CASE \E type \in EventTypes : Notify(type, w, now)
    BY <1>1, <2>2, NotifyDoes
  <2>3. CASE /\ pc' \in {"capture", "record"}
             /\ job' = [workload |-> w, at |-> now, profile |-> FALSE]
             /\ UNCHANGED reports
    BY <1>1, <2>3, ReportTouched DEF Job, Pursuing, TypeInv
  <2> QED
    BY <2>1, <2>2, <2>3 DEF Leak, DryRun, EventTypes
<1> QED
  BY <1>1, <1>2, <1>3 DEF TypeInv

\* The status after a restart says when that was.
LEMMA RestartDated ==
    ASSUME NEW st, Dated(st), NEW ver, NEW at \in OptTime
    PROVE  LET new == RecomputeObservability(ApplyRestart(st, ver, at), at)
           IN  Dated(new) /\ new.lastRestartAt = at
<1> DEFINE ar == ApplyRestart(st, ver, at)
           new == RecomputeObservability(ar, at)
<1>1. DOMAIN ar = DOMAIN st /\ ar.lastRestartAt = at
  BY DEF ApplyRestart, Dated, InitStatus
<1> HIDE DEF ar
<1>2. DOMAIN new = DOMAIN ar /\ new.lastRestartAt = ar.lastRestartAt
  BY <1>1 DEF RecomputeObservability, Dated, InitStatus
<1> QED
  BY <1>1, <1>2 DEF Dated, ar

\* The other steps of the worker.
LEMMA WorkTypes ==
    ASSUME TypeInv,
           \/ \E ok \in BOOLEAN : Captured(ok) \/ Deliver(ok)
           \/ Record \/ Trigger
    PROVE  TypeInv'
<1>0. /\ job \in Job /\ job.workload \in Workloads /\ job.at \in Time
      /\ job.profile \in BOOLEAN /\ "RestartTriggered" \in EventTypes
  BY DEF TypeInv, Captured, Deliver, Record, Trigger, Job, EventTypes
<1>1. ASSUME NEW ok \in BOOLEAN, Captured(ok)
      PROVE  TypeInv'
  <2>1. job' \in Job
    BY <1>0, <1>1 DEF Captured, Job
  <2>2. ReportSeq'
    BY <1>1, ReportTouched DEF Captured, TypeInv
  <2> QED
    BY <1>1, <2>1, <2>2 DEF Captured, TypeInv, Pursuing
<1>2. ASSUME NEW ok \in BOOLEAN, Deliver(ok)
      PROVE  TypeInv'
  <2>1. ReportSeq'
    BY <1>2, ReportTouched DEF Deliver, TypeInv
  <2>2. pc' = "idle" \/ UNCHANGED <<pc, job>>
    BY <1>2 DEF Deliver, Return
  <2> QED
    BY <1>2, <2>1, <2>2 DEF Deliver, TypeInv
<1>3. CASE Record
  <2> DEFINE w == job.workload
             st == ApplyRestart(status[w], Version1, job.at)
  <2>1. Dated(status[w]) /\ job.at \in OptTime
    BY <1>0 DEF TypeInv, OptTime
  <2>2. Dated(RecomputeObservability(st, job.at))
    BY <2>1, RestartDated
  <2> HIDE DEF st
  <2>3. /\ \/ UNCHANGED <<status, lastProfile>>
           \/ /\ status' = [status EXCEPT ![w] =
                               RecomputeObservability(st, job.at)]
              /\ \/ lastProfile' = lastProfile
                 \/ lastProfile' = [lastProfile EXCEPT ![w] = job.at]
        /\ \/ pc' = "idle"
           \/ pc' = "trigger" /\ UNCHANGED job
        /\ UNCHANGED <<now, leader, wouldRestart, reports>>
    BY <1>3 DEF Record, Return, st, TypeInv
  <2>4. DOMAIN status' = Workloads /\ \A v \in Workloads : Dated(status'[v])
    BY <2>2, <2>3 DEF TypeInv
  <2>5. lastProfile' \in [Workloads -> OptTime]
    BY <1>0, <2>3 DEF TypeInv, OptTime
  <2>6. ReportSeq'
    BY <2>3, ReportTouched DEF TypeInv
  <2> QED
    BY <1>0, <2>3, <2>4, <2>5, <2>6 DEF TypeInv, Pursuing
<1>4. CASE Trigger
  <2>1. \/ Return /\ UNCHANGED reports
        \/ Notify("RestartTriggered", job.workload, job.at)
    BY <1>4 DEF Trigger
  <2>2. ReportSeq' /\ (pc' = "idle" \/ (pc' = "deliver" /\ job' \in Job))
    BY <1>0, <2>1, NotifyDoes, ReportTouched DEF Return, TypeInv
  <2> QED
    BY <1>4, <2>2 DEF Trigger, TypeInv
<1> QED
  BY <1>1, <1>2, <1>3, <1>4

\* The clock and the death of a leader.
LEMMA OtherTypes ==
    ASSUME TypeInv, Tick \/ Failover \/ UNCHANGED vars
    PROVE  TypeInv'
<1>1. CASE Tick
  BY <1>1, ReportTouched DEF Tick, TypeInv, Time
<1>2. CASE Failover
  <2>1. ReportSeq'
    BY <1>2, ReportTouched DEF Failover, TypeInv
  <2>2. [w \in Workloads |-> None] \in [Workloads -> OptTime]
    BY DEF OptTime
  <2> QED
    BY <1>2, <2>1, <2>2 DEF Failover, Return, TypeInv
<1>3. CASE UNCHANGED vars
  BY <1>3, ReportTouched DEF vars, TypeInv
<1> QED
  BY <1>1, <1>2, <1>3

\* Every step keeps TypeInv.
LEMMA NextTypes == TypeInv /\ [Next]_vars => TypeInv'
  BY LeakTypes, WorkTypes, OtherTypes DEF Next, Answer, Expire

\* A controller that has just started.
LEMMA InitTypes == Init => TypeInv
<1> SUFFICES ASSUME Init PROVE TypeInv
  OBVIOUS
<1>1. Dated([InitStatus EXCEPT !.uid = 1])
  BY DEF InitStatus, Dated, OptTime
<1>2. <<>> \in Seq(Report({}))
  OBVIOUS
<1> QED
  BY <1>1, <1>2 DEF Init, TypeInv, ReportSeq, Time, OptTime

-----------------------------------------------------------------------------
\* What is told is true: a worker past its decision works for a policy that is
\* not a dry run, and triggers only what it has recorded.

ToldInv ==
    /\ pc \in Pursuing => ~settings[job.workload].dryRun
    /\ pc = "trigger" => OurRestart \in recorded
    /\ ToldIsTrue

\* An announcement that is true of the restarts done.
Backed(e, done) ==
    e.type = "RestartTriggered" /\ ~settings[e.workload].dryRun =>
        [workload |-> e.workload, at |-> e.at] \in done

Done == recorded \cap triggered

\* Steps that add a true report, or none, leave the reports true.
LEMMA BackedKept ==
    ASSUME ToldIsTrue, UNCHANGED settings,
           recorded \subseteq recorded', triggered \subseteq triggered',
           SameEvents \/ \E e : NewEvent(e) /\ Backed(e, Done')
    PROVE  \A i \in DOMAIN reports' : Backed(reports'[i].event, Done')
<1>1. \A i \in DOMAIN reports : Backed(reports[i].event, Done)
  BY DEF ToldIsTrue, Backed, Done
<1>2. \A e : Backed(e, Done) => Backed(e, Done')
  BY DEF Backed, Done
<1>3. CASE SameEvents
  BY <1>1, <1>2, <1>3 DEF SameEvents
<1>4. ASSUME NEW e, NewEvent(e), Backed(e, Done')
      PROVE  \A i \in DOMAIN reports' : Backed(reports'[i].event, Done')
  <2> DEFINE n == Len(reports) + 1
  <2>1. /\ n \in Nat /\ DOMAIN reports = 1 .. n - 1 /\ DOMAIN reports' = 1 .. n
        /\ \A i \in DOMAIN reports : reports'[i].event = reports[i].event
        /\ reports'[n].event = e
    BY <1>4 DEF NewEvent
  <2> HIDE DEF n
  <2>2. ASSUME NEW i \in DOMAIN reports'
        PROVE  i \in DOMAIN reports \/ i = n
    BY <2>1, <2>2
  <2>3. ASSUME NEW i \in DOMAIN reports
        PROVE  Backed(reports'[i].event, Done')
    BY <1>1, <1>2, <2>1, <2>3
  <2>4. Backed(reports'[n].event, Done')
    BY <1>4, <2>1
  <2> QED
    BY <2>2, <2>3, <2>4
<1> QED
  BY <1>3, <1>4

\* Every step keeps ToldInv.
LEMMA NextTold == TypeInv /\ ToldInv /\ [Next]_vars => ToldInv'
<1> SUFFICES ASSUME TypeInv, ToldInv, [Next]_vars PROVE ToldInv'
  OBVIOUS
<1>0. /\ ToldIsTrue
      /\ \A r \in recorded \cup triggered : ~settings[r.workload].dryRun
      /\ \A w \in Workloads : lastProfile[w] # None =>
            [workload |-> w, at |-> lastProfile[w]] \in recorded
  BY DEF ToldInv, ToldIsTrue
<1>1. ASSUME SameEvents \/ \E e : NewEvent(e) /\ Backed(e, Done'),
             UNCHANGED <<settings, lastProfile, recorded, triggered>>,
             \/ pc' \in {"idle", "deliver"}
             \/ pc' \in Pursuing \ {"trigger"} /\ ~settings[job'.workload].dryRun
             \/ UNCHANGED <<pc, job>>
      PROVE  ToldInv'
  <2>1. \A i \in DOMAIN reports' : Backed(reports'[i].event, Done')
    BY <1>0, <1>1, BackedKept
  <2>2. ToldIsTrue'
    BY <1>0, <1>1, <2>1 DEF ToldIsTrue, Backed, Done
  <2> QED
    BY <1>1, <2>2 DEF ToldInv, Pursuing, OurRestart
<1>2. ASSUME NEW w \in Workloads, Leak(w)
      PROVE  ToldInv'
  <2>1. /\ UNCHANGED <<settings, lastProfile, recorded, triggered, leader>>
        /\ now \in Time
    BY <1>2 DEF Leak, configVars, TypeInv
  <2>2. CASE Return /\ UNCHANGED reports
    BY <1>1, <2>1, <2>2, ReportTouched DEF Return, TypeInv
  <2>3. ASSUME NEW type \in EventTypes, Notify(type, w, now),
               type = "RestartTriggered" => settings[w].dryRun
        PROVE  ToldInv'
    <3> DEFINE e == [type |-> type, workload |-> w, at |-> now,
                     leader |-> leader]
    <3>1. /\ SameEvents \/ NewEvent(e)
          /\ pc' \in {"idle", "deliver"}
      BY <2>1, <2>3, NotifyDoes
    <3>2. Backed(e, Done')
      BY <2>1, <2>3 DEF Backed
    <3> HIDE DEF e
    <3> QED
      BY <1>1, <2>1, <3>1, <3>2
  <2>4. CASE /\ pc' \in {"capture", "record"}
             /\ job' = [workload |-> w, at |-> now, profile |-> FALSE]
             /\ UNCHANGED reports /\ ~settings[w].dryRun
    BY <1>1, <2>1, <2>4, ReportTouched DEF Pursuing, TypeInv
  <2> QED
    BY <1>2, <2>2, <2>3, <2>4 DEF Leak, DryRun, EventTypes
<1>3. ASSUME NEW ok \in BOOLEAN, Captured(ok)
      PROVE  ToldInv'
  <2>1. job \in Job /\ job'.workload = job.workload
    BY <1>3 DEF Captured, TypeInv, Job
  <2>2. /\ SameEvents /\ UNCHANGED <<settings, lastProfile, recorded, triggered>>
        /\ pc' \in Pursuing \ {"trigger"} /\ ~settings[job.workload].dryRun
    BY <1>3, ReportTouched DEF Captured, TypeInv, ToldInv, Pursuing, configVars
  <2> QED
    BY <1>1, <2>1, <2>2
<1>4. ASSUME NEW ok \in BOOLEAN, Deliver(ok)
      PROVE  ToldInv'
  <2>1. /\ SameEvents /\ UNCHANGED <<settings, lastProfile, recorded, triggered>>
        /\ pc' = "idle" \/ UNCHANGED <<pc, job>>
    BY <1>4, ReportTouched DEF Deliver, Return, TypeInv, configVars
  <2> QED
    BY <1>1, <2>1
<1>5. CASE Record
  <2>1. /\ pc = "record" /\ job \in Job /\ job.workload \in Workloads
        /\ ~settings[job.workload].dryRun
        /\ UNCHANGED <<settings, triggered, reports>>
    BY <1>5 DEF Record, TypeInv, Job, ToldInv, Pursuing, configVars
  <2>2. /\ recorded \subseteq recorded'
        /\ recorded' \subseteq recorded \cup {OurRestart}
        /\ \/ pc' = "idle"
           \/ pc' = "trigger" /\ UNCHANGED job /\ OurRestart \in recorded'
    BY <1>5 DEF Record, Return, Call
  <2>3. \A w \in Workloads :
           \/ lastProfile'[w] = lastProfile[w]
           \/ /\ w = job.workload /\ lastProfile'[w] = job.at
              /\ OurRestart \in recorded'
    BY <1>5, <2>1 DEF Record, TypeInv
  <2>4. \A i \in DOMAIN reports' : Backed(reports'[i].event, Done')
    BY <1>0, <2>1, <2>2, BackedKept, ReportTouched DEF TypeInv
  <2>5. \A w \in Workloads : lastProfile'[w] # None =>
           [workload |-> w, at |-> lastProfile'[w]] \in recorded'
    BY <1>0, <2>2, <2>3 DEF OurRestart
  <2>6. \A r \in recorded' \cup triggered' : ~settings'[r.workload].dryRun
    <3>1. OurRestart.workload = job.workload
      BY DEF OurRestart
    <3> QED
      BY <1>0, <2>1, <2>2, <3>1
  <2>7. ToldIsTrue'
    BY <2>1, <2>4, <2>5, <2>6 DEF ToldIsTrue, Backed, Done
  <2> QED
    BY <2>1, <2>2, <2>7 DEF ToldInv, Pursuing, OurRestart
<1>6. CASE Trigger
  <2>1. /\ pc = "trigger" /\ job \in Job /\ job.workload \in Workloads
        /\ job.at \in Time /\ ~settings[job.workload].dryRun
        /\ OurRestart \in recorded
        /\ UNCHANGED <<settings, recorded, lastProfile, leader>>
        /\ "RestartTriggered" \in EventTypes
    BY <1>6 DEF Trigger, TypeInv, Job, ToldInv, Pursuing, configVars, EventTypes
  <2>2. /\ triggered \subseteq triggered'
        /\ triggered' \subseteq triggered \cup {OurRestart}
        /\ \/ Return /\ UNCHANGED reports
           \/ /\ Notify("RestartTriggered", job.workload, job.at)
              /\ OurRestart \in triggered'
    BY <1>6 DEF Trigger, Call
  <2> DEFINE e == [type |-> "RestartTriggered", workload |-> job.workload,
                   at |-> job.at, leader |-> leader]
  <2>3. /\ SameEvents \/ (NewEvent(e) /\ OurRestart \in triggered')
        /\ pc' \in {"idle", "deliver"}
    BY <2>1, <2>2, NotifyDoes, ReportTouched DEF Return, TypeInv
  <2>4. OurRestart \in triggered' => Backed(e, Done')
    BY <2>1 DEF Backed, OurRestart, Done
  <2> HIDE DEF e
  <2>5. \A i \in DOMAIN reports' : Backed(reports'[i].event, Done')
    BY <1>0, <2>1, <2>2, <2>3, <2>4, BackedKept
  <2>6. \A r \in recorded' \cup triggered' : ~settings'[r.workload].dryRun
    <3>1. OurRestart.workload = job.workload
      BY DEF OurRestart
    <3> QED
      BY <1>0, <2>1, <2>2, <3>1
  <2>7. ToldIsTrue'
    BY <1>0, <2>1, <2>5, <2>6 DEF ToldIsTrue, Backed, Done
  <2> QED
    BY <2>3, <2>7 DEF ToldInv, Pursuing
<1>7. CASE Tick \/ Failover \/ UNCHANGED vars
  <2>1. SameEvents
    BY <1>7, ReportTouched DEF Tick, Failover, vars, TypeInv
  <2>2. /\ UNCHANGED <<settings, lastProfile, recorded, triggered>>
        /\ pc' = "idle" \/ UNCHANGED <<pc, job>>
    BY <1>7 DEF Tick, Failover, Return, vars, configVars
  <2> QED
    BY <1>1, <2>1, <2>2
<1> QED
  BY <1>2, <1>3, <1>4, <1>5, <1>6, <1>7 DEF Next, Answer, Expire

\* Whatever calls fail and whenever the leader dies, a restart announced as
\* triggered was recorded and reached the cluster, a dry run records and
\* restarts nothing, and a linked profile belongs to a recorded restart
\* (reconciler.go:300-352).
THEOREM ToldTheorem == Spec => []ToldIsTrue
<1>1. Init => ToldInv
  BY DEF Init, ToldInv, ToldIsTrue, Pursuing
<1>2. ToldInv => ToldIsTrue
  BY DEF ToldInv
<1> QED
  BY <1>1, <1>2, InitTypes, NextTypes, NextTold, PTL DEF Spec

-----------------------------------------------------------------------------
\* Announcements keep their distance: an enforcing policy's last restart is no
\* earlier than what was announced, a dry run's throttle no earlier than what
\* this leader announced, and both are a cooldown away from the next one.

AnnouncedLast ==
    \A w \in Workloads : \A i \in DOMAIN reports : Announces(i, w) =>
        LET e == reports[i].event
        IN  /\ e.leader <= leader
            /\ ~settings[w].dryRun =>
                  /\ status[w].lastRestartAt # None
                  /\ e.at <= status[w].lastRestartAt
            /\ settings[w].dryRun /\ e.leader = leader =>
                  wouldRestart[w] # None /\ e.at <= wouldRestart[w]

\* The restart under way is due, as recorded or about to be.
NextDue ==
    /\ pc \in {"capture", "record"} => ~InCooldown(status[job.workload], job.at)
    /\ pc = "trigger" =>
          /\ status[job.workload].lastRestartAt = job.at
          /\ \A i \in DOMAIN reports : Announces(i, job.workload) =>
                job.at >= reports[i].event.at + Cooldown

SpacedInv ==
    /\ pc \in Pursuing => ~settings[job.workload].dryRun
    /\ AnnouncedLast /\ NextDue /\ NoticesSpaced

\* The events of the reports.
LEMMA EventTyped ==
    ASSUME TypeInv, NEW i \in DOMAIN reports
    PROVE  /\ reports[i].event \in Event
           /\ reports[i].event.at \in Nat /\ reports[i].event.leader \in Nat
           /\ reports[i].event.workload \in Workloads
<1>1. PICK T : reports \in Seq(Report(T))
  BY DEF TypeInv, ReportSeq
<1>2. reports[i] \in Report(T)
  BY <1>1, LenProperties, ElementOfSeq
<1> QED
  BY <1>2 DEF Report, Event, Time

\* A report e that is due keeps the distance of all.
Due(e) ==
    \A i \in DOMAIN reports :
        /\ Announces(i, e.workload)
        /\ settings[e.workload].dryRun => reports[i].event.leader = e.leader
        => e.at >= reports[i].event.at + Cooldown

\* Reports keep their distance when the new one is due.
LEMMA SpacedKept ==
    ASSUME TypeInv, NoticesSpaced, UNCHANGED settings,
           \/ SameEvents
           \/ \E e \in Event :
                 NewEvent(e) /\ (e.type = "RestartTriggered" => Due(e))
    PROVE  NoticesSpaced'
<1>1. CASE SameEvents
  BY <1>1 DEF SameEvents, NoticesSpaced
<1>2. ASSUME NEW e \in Event, NewEvent(e), e.type = "RestartTriggered" => Due(e)
      PROVE  NoticesSpaced'
  <2> DEFINE n == Len(reports) + 1
  <2>1. /\ n \in Nat /\ DOMAIN reports = 1 .. n - 1 /\ DOMAIN reports' = 1 .. n
        /\ \A i \in DOMAIN reports : reports'[i].event = reports[i].event
        /\ reports'[n].event = e
    BY <1>2 DEF NewEvent
  <2> HIDE DEF n
  <2> SUFFICES ASSUME NEW i \in DOMAIN reports', NEW j \in DOMAIN reports',
                      i < j,
                      reports'[i].event.workload = reports'[j].event.workload,
                      reports'[i].event.type = "RestartTriggered",
                      reports'[j].event.type = "RestartTriggered",
                      settings[reports'[i].event.workload].dryRun =>
                         reports'[i].event.leader = reports'[j].event.leader
               PROVE  reports'[j].event.at >= reports'[i].event.at + Cooldown
    BY DEF NoticesSpaced
  <2>2. i \in DOMAIN reports /\ (j \in DOMAIN reports \/ j = n)
    BY <2>1
  <2>3. CASE j \in DOMAIN reports
    BY <2>1, <2>2, <2>3 DEF NoticesSpaced
  <2>4. CASE j = n
    BY <1>2, <2>1, <2>2, <2>4 DEF Due, Announces
  <2> QED
    BY <2>2, <2>3, <2>4
<1> QED
  BY <1>1, <1>2

\* What was announced is not later than the last restart, or the throttle,
\* when neither falls back and a new report is no later than they are.
LEMMA LastKept ==
    ASSUME TypeInv, AnnouncedLast, UNCHANGED settings, leader' >= leader,
           leader' \in Nat,
           \A w \in Workloads :
              /\ Dated(status'[w])
              /\ ~settings[w].dryRun /\ status[w].lastRestartAt # None =>
                    /\ status'[w].lastRestartAt # None
                    /\ status[w].lastRestartAt <= status'[w].lastRestartAt
              /\ settings[w].dryRun /\ wouldRestart[w] # None
                    /\ leader' = leader =>
                    /\ wouldRestart'[w] \in Time
                    /\ wouldRestart[w] <= wouldRestart'[w],
           \/ SameEvents
           \/ \E e \in Event :
                 /\ NewEvent(e) /\ e.leader = leader
                 /\ e.type = "RestartTriggered" =>
                      IF settings[e.workload].dryRun
                      THEN wouldRestart'[e.workload] = e.at
                      ELSE status'[e.workload].lastRestartAt = e.at
    PROVE  AnnouncedLast'
<1> DEFINE Known(e, w) ==
        /\ e.leader <= leader'
        /\ ~settings[w].dryRun =>
              /\ status'[w].lastRestartAt # None
              /\ e.at <= status'[w].lastRestartAt
        /\ settings[w].dryRun /\ e.leader = leader' =>
              wouldRestart'[w] # None /\ e.at <= wouldRestart'[w]
<1>0. None \notin Nat
  BY BasicsAssumption
<1>1. ASSUME NEW w \in Workloads, NEW i \in DOMAIN reports, Announces(i, w)
      PROVE  Known(reports[i].event, w)
  <2> DEFINE e == reports[i].event
  <2>1. e.at \in Nat /\ e.leader \in Nat /\ leader \in Nat
    BY EventTyped DEF TypeInv
  <2>2. /\ e.leader <= leader
        /\ ~settings[w].dryRun =>
              /\ status[w].lastRestartAt # None
              /\ e.at <= status[w].lastRestartAt
        /\ settings[w].dryRun /\ e.leader = leader =>
              wouldRestart[w] # None /\ e.at <= wouldRestart[w]
    BY <1>1 DEF AnnouncedLast
  <2>3. /\ status[w].lastRestartAt # None => status[w].lastRestartAt \in Nat
        /\ status'[w].lastRestartAt # None => status'[w].lastRestartAt \in Nat
        /\ wouldRestart[w] # None => wouldRestart[w] \in Nat
    BY DEF TypeInv, Dated, OptTime, Time
  <2> HIDE DEF e
  <2>4. ~settings[w].dryRun => /\ status'[w].lastRestartAt # None
                               /\ e.at <= status'[w].lastRestartAt
    BY <2>1, <2>2, <2>3
  <2>5. settings[w].dryRun /\ e.leader = leader' =>
           wouldRestart'[w] # None /\ e.at <= wouldRestart'[w]
    BY <1>0, <2>1, <2>2, <2>3 DEF Time
  <2>6. Known(e, w)
    BY <2>1, <2>2, <2>4, <2>5
  <2> QED
    BY <2>6 DEF e
<1>2. CASE SameEvents
  <2>1. ASSUME NEW w \in Workloads, NEW i \in DOMAIN reports', Announces(i, w)'
        PROVE  Known(reports'[i].event, w)
    BY <1>1, <1>2, <2>1 DEF SameEvents, Announces
  <2> QED
    BY <2>1 DEF AnnouncedLast
<1>3. ASSUME NEW e \in Event, NewEvent(e), e.leader = leader,
             e.type = "RestartTriggered" =>
                IF settings[e.workload].dryRun
                THEN wouldRestart'[e.workload] = e.at
                ELSE status'[e.workload].lastRestartAt = e.at
      PROVE  AnnouncedLast'
  <2>1. ASSUME NEW w \in Workloads, NEW i \in DOMAIN reports', Announces(i, w)'
        PROVE  Known(reports'[i].event, w)
    <3> DEFINE n == Len(reports) + 1
    <3>1. /\ n \in Nat /\ DOMAIN reports = 1 .. n - 1 /\ DOMAIN reports' = 1 .. n
          /\ \A k \in DOMAIN reports : reports'[k].event = reports[k].event
          /\ reports'[n].event = e
      BY <1>3 DEF NewEvent
    <3> HIDE DEF n
    <3>2. CASE i \in DOMAIN reports
      BY <1>1, <2>1, <3>1, <3>2 DEF Announces
    <3>3. CASE i = n
      <4>1. e.workload = w /\ e.type = "RestartTriggered"
        BY <2>1, <3>1, <3>3 DEF Announces
      <4>2. e.at \in Nat /\ leader \in Nat
        BY DEF Event, Time, TypeInv
      <4> QED
        BY <1>0, <1>3, <3>1, <3>3, <4>1, <4>2
    <3> QED
      BY <3>1, <3>2, <3>3
  <2> QED
    BY <2>1 DEF AnnouncedLast
<1> QED
  BY <1>2, <1>3

\* A leak is found: what is announced or pursued is due.
LEMMA LeakSpaced ==
    ASSUME TypeInv, SpacedInv, NEW w \in Workloads, Leak(w)
    PROVE  SpacedInv'
<1>1. /\ UNCHANGED <<settings, status, leader>>
      /\ now \in Time /\ leader \in Nat /\ leader' >= leader
      /\ AnnouncedLast /\ NoticesSpaced
      /\ TypeInv'
      /\ None \notin Nat /\ Cooldown \in Nat
  BY LeakTypes, BasicsAssumption, StatusAssumption
  DEF Leak, configVars, TypeInv, SpacedInv
<1>2. \A v \in Workloads : /\ Dated(status'[v])
                           /\ status[v].lastRestartAt \in OptTime
                           /\ wouldRestart[v] \in OptTime
                           /\ wouldRestart'[v] \in OptTime
  BY <1>1 DEF TypeInv, Dated
<1>3. ASSUME UNCHANGED wouldRestart,
             \/ SameEvents
             \/ \E e \in Event : /\ NewEvent(e) /\ e.leader = leader
                                 /\ e.type # "RestartTriggered"
      PROVE  AnnouncedLast' /\ NoticesSpaced'
  <2>1. AnnouncedLast'
    BY <1>1, <1>2, <1>3, LastKept DEF OptTime, Time
  <2>2. NoticesSpaced'
    BY <1>1, <1>3, SpacedKept
  <2> QED
    BY <2>1, <2>2
<1>4. CASE Return /\ UNCHANGED <<reports, wouldRestart>>
  <2>1. SameEvents
    BY <1>4, ReportTouched DEF TypeInv
  <2> QED
    BY <1>3, <1>4, <2>1 DEF Return, SpacedInv, NextDue, Pursuing
<1>5. ASSUME NEW type \in EventTypes \ {"RestartTriggered"},
             Notify(type, w, now), UNCHANGED wouldRestart
      PROVE  SpacedInv'
  <2> DEFINE e == [type |-> type, workload |-> w, at |-> now, leader |-> leader]
  <2>1. /\ SameEvents \/ NewEvent(e)
        /\ pc' \in {"idle", "deliver"}
    BY <1>1, <1>5, NotifyDoes
  <2>2. e \in Event /\ e.leader = leader /\ e.type # "RestartTriggered"
    BY <1>1 DEF Event
  <2> HIDE DEF e
  <2> QED
    BY <1>3, <1>5, <2>1, <2>2 DEF SpacedInv, NextDue, Pursuing
<1>6. CASE /\ settings[w].dryRun
           /\ ~(wouldRestart[w] # None /\ now < wouldRestart[w] + Cooldown)
           /\ wouldRestart' = [wouldRestart EXCEPT ![w] = now]
           /\ Notify("RestartTriggered", w, now)
  <2> DEFINE e == [type |-> "RestartTriggered", workload |-> w, at |-> now,
                   leader |-> leader]
  <2>1. /\ SameEvents \/ NewEvent(e)
        /\ pc' \in {"idle", "deliver"}
    BY <1>1, <1>6, NotifyDoes DEF EventTypes
  <2>2. /\ e \in Event /\ e.leader = leader /\ e.type = "RestartTriggered"
        /\ e.workload = w /\ e.at = now
    BY <1>1 DEF Event, EventTypes
  <2> HIDE DEF e
  <2>3. /\ wouldRestart'[w] = now
        /\ wouldRestart[w] # None => wouldRestart[w] <= now
        /\ \A v \in Workloads : v # w => wouldRestart'[v] = wouldRestart[v]
    BY <1>1, <1>2, <1>6 DEF TypeInv, OptTime, Time
  <2>4. AnnouncedLast'
    <3>1. \A v \in Workloads :
             wouldRestart[v] # None => /\ wouldRestart'[v] \in Time
                                       /\ wouldRestart[v] <= wouldRestart'[v]
      BY <1>1, <1>2, <2>3 DEF OptTime, Time
    <3>2. \A v \in Workloads :
             status[v].lastRestartAt # None =>
                status[v].lastRestartAt <= status'[v].lastRestartAt
      BY <1>1, <1>2 DEF OptTime, Time
    <3> QED
      BY <1>1, <1>2, <1>6, <2>1, <2>2, <2>3, <3>1, <3>2, LastKept
  <2>5. Due(e)
    <3> SUFFICES ASSUME NEW i \in DOMAIN reports, Announces(i, w),
                        reports[i].event.leader = leader
                 PROVE  now >= reports[i].event.at + Cooldown
      BY <1>6, <2>2 DEF Due
    <3>1. wouldRestart[w] # None /\ reports[i].event.at <= wouldRestart[w]
      BY <1>1, <1>6 DEF AnnouncedLast
    <3>2. reports[i].event.at \in Nat /\ wouldRestart[w] \in Nat /\ now \in Nat
      BY <1>1, <1>2, <3>1, EventTyped DEF OptTime, Time
    <3> QED
      BY <1>1, <1>6, <3>1, <3>2
  <2>6. NoticesSpaced'
    BY <1>1, <2>1, <2>2, <2>5, SpacedKept
  <2> QED
    BY <2>1, <2>4, <2>6 DEF SpacedInv, NextDue, Pursuing
<1>7. CASE /\ pc' \in {"capture", "record"}
           /\ job' = [workload |-> w, at |-> now, profile |-> FALSE]
           /\ UNCHANGED <<reports, wouldRestart>>
           /\ ~settings[w].dryRun /\ ~InCooldown(status[w], now)
  <2>1. SameEvents
    BY <1>7, ReportTouched DEF TypeInv
  <2> QED
    BY <1>1, <1>3, <1>7, <2>1 DEF SpacedInv, NextDue, Pursuing
<1> QED
  BY <1>4, <1>5, <1>6, <1>7 DEF Leak, DryRun, EventTypes

\* The calls the worker makes: the restart it records is the last one, and the
\* one it announces is due.
LEMMA WorkSpaced ==
    ASSUME TypeInv, SpacedInv,
           \/ \E ok \in BOOLEAN : Captured(ok) \/ Deliver(ok)
           \/ Record \/ Trigger
    PROVE  SpacedInv'
<1>1. /\ UNCHANGED <<settings, leader, wouldRestart>>
      /\ leader \in Nat /\ leader' >= leader
      /\ AnnouncedLast /\ NoticesSpaced
      /\ TypeInv'
      /\ None \notin Nat /\ Cooldown \in Nat
      /\ job \in Job /\ job.workload \in Workloads /\ job.at \in Nat
  <2>1. TypeInv'
    BY WorkTypes
  <2>2. None \notin Nat /\ Cooldown \in Nat
    BY BasicsAssumption, StatusAssumption
  <2>3. leader \in Nat /\ AnnouncedLast /\ NoticesSpaced
    BY DEF TypeInv, SpacedInv
  <2>4. UNCHANGED <<settings, leader, wouldRestart>> /\ pc # "idle"
    BY DEF Captured, Deliver, Record, Trigger, configVars
  <2>5. job \in Job
    BY <2>4 DEF TypeInv
  <2> QED
    BY <2>1, <2>2, <2>3, <2>4, <2>5 DEF Job, Time
<1>2. \A v \in Workloads : /\ Dated(status'[v])
                           /\ status[v].lastRestartAt \in OptTime
                           /\ wouldRestart[v] \in OptTime
                           /\ wouldRestart'[v] \in OptTime
  BY <1>1 DEF TypeInv, Dated
<1>3. ASSUME SameEvents,
             \A v \in Workloads : status[v].lastRestartAt # None =>
                /\ status'[v].lastRestartAt # None
                /\ status[v].lastRestartAt <= status'[v].lastRestartAt
      PROVE  AnnouncedLast' /\ NoticesSpaced'
  <2>1. \A v \in Workloads :
           wouldRestart[v] # None => /\ wouldRestart'[v] \in Time
                                     /\ wouldRestart[v] <= wouldRestart'[v]
    BY <1>1, <1>2 DEF OptTime, Time
  <2>2. AnnouncedLast'
    BY <1>1, <1>2, <1>3, <2>1, LastKept
  <2> QED
    BY <1>1, <1>3, <2>2, SpacedKept
<1>4. ASSUME UNCHANGED <<status, reports>>
      PROVE  /\ AnnouncedLast' /\ NoticesSpaced'
             /\ \A v \in Workloads : status'[v] = status[v]
  <2>1. SameEvents
    BY <1>4, ReportTouched DEF TypeInv
  <2>2. \A v \in Workloads : status[v].lastRestartAt # None =>
           /\ status'[v].lastRestartAt # None
           /\ status[v].lastRestartAt <= status'[v].lastRestartAt
    BY <1>2, <1>4 DEF OptTime, Time
  <2> QED
    BY <1>3, <1>4, <2>1, <2>2
<1>5. ASSUME NEW ok \in BOOLEAN, Captured(ok)
      PROVE  SpacedInv'
  <2>1. job'.workload = job.workload /\ job'.at = job.at
    BY <1>1, <1>5 DEF Captured, Job
  <2>2. UNCHANGED <<status, reports>> /\ pc = "capture" /\ pc' = "record"
    BY <1>5 DEF Captured
  <2> QED
    BY <1>1, <1>4, <2>1, <2>2 DEF SpacedInv, NextDue, Pursuing
<1>6. ASSUME NEW ok \in BOOLEAN, Deliver(ok)
      PROVE  SpacedInv'
  <2>1. /\ UNCHANGED status /\ SameEvents /\ pc' \in {"idle", "deliver"}
    BY <1>6, ReportTouched DEF Deliver, Return, TypeInv
  <2>2. \A v \in Workloads : status[v].lastRestartAt # None =>
           /\ status'[v].lastRestartAt # None
           /\ status[v].lastRestartAt <= status'[v].lastRestartAt
    BY <1>2, <2>1 DEF OptTime, Time
  <2> QED
    BY <1>3, <2>1, <2>2 DEF SpacedInv, NextDue, Pursuing
<1>7. CASE Record
  <2> DEFINE w == job.workload
             st == ApplyRestart(status[w], Version1, job.at)
             new == RecomputeObservability(st, job.at)
  <2>1. /\ ~settings[w].dryRun
        /\ ~InCooldown(status[w], job.at)
    BY <1>7 DEF Record, SpacedInv, NextDue, Pursuing
  <2>2. status[w].lastRestartAt # None =>
           /\ status[w].lastRestartAt \in Nat
           /\ job.at >= status[w].lastRestartAt + Cooldown
    BY <1>1, <1>2, <2>1 DEF InCooldown, OptTime, Time
  <2>3. new.lastRestartAt = job.at
    BY <1>1, RestartDated DEF TypeInv, OptTime, Time
  <2> HIDE DEF st, new
  <2>4. /\ UNCHANGED reports
        /\ UNCHANGED status \/ status' = [status EXCEPT ![w] = new]
        /\ \/ pc' = "idle"
           \/ /\ pc' = "trigger" /\ UNCHANGED job
              /\ status' = [status EXCEPT ![w] = new]
    BY <1>7 DEF Record, Call, Return, st, new
  <2>5. \A v \in Workloads :
           /\ \/ status'[v] = status[v]
              \/ v = w /\ status'[v].lastRestartAt = job.at
           /\ pc' = "trigger" => status'[w].lastRestartAt = job.at
    BY <1>1, <2>3, <2>4 DEF TypeInv
  <2>6. SameEvents
    BY <2>4, ReportTouched DEF TypeInv
  <2>7. \A v \in Workloads : status[v].lastRestartAt # None =>
           /\ status'[v].lastRestartAt # None
           /\ status[v].lastRestartAt <= status'[v].lastRestartAt
    BY <1>1, <1>2, <2>2, <2>5 DEF OptTime, Time
  <2>8. ASSUME NEW i \in DOMAIN reports, Announces(i, w)
        PROVE  job.at >= reports[i].event.at + Cooldown
    <3>1. /\ status[w].lastRestartAt # None
          /\ reports[i].event.at <= status[w].lastRestartAt
      BY <1>1, <2>1, <2>8 DEF AnnouncedLast
    <3>2. reports[i].event.at \in Nat
      BY EventTyped
    <3> QED
      BY <1>1, <2>2, <3>1, <3>2
  <2>9. NextDue'
    <3>1. CASE pc' = "idle"
      BY <3>1 DEF NextDue
    <3>2. CASE pc' = "trigger" /\ UNCHANGED job
      BY <1>1, <2>4, <2>5, <2>8, <3>2 DEF NextDue, Announces
    <3> QED
      BY <2>4, <3>1, <3>2
  <2> QED
    BY <1>1, <1>3, <2>1, <2>4, <2>6, <2>7, <2>9 DEF SpacedInv, Pursuing
<1>8. CASE Trigger
  <2> DEFINE w == job.workload
             e == [type |-> "RestartTriggered", workload |-> w,
                   at |-> job.at, leader |-> leader]
  <2>1. /\ ~settings[w].dryRun /\ UNCHANGED status
        /\ status[w].lastRestartAt = job.at
        /\ \A i \in DOMAIN reports : Announces(i, w) =>
              job.at >= reports[i].event.at + Cooldown
    BY <1>8 DEF Trigger, SpacedInv, NextDue, Pursuing
  <2>2. /\ e \in Event /\ e.type = "RestartTriggered" /\ e.leader = leader
        /\ e.workload = w /\ e.at = job.at
    BY <1>1 DEF Event, EventTypes, Time
  <2>3. /\ SameEvents \/ NewEvent(e)
        /\ pc' \in {"idle", "deliver"}
    BY <1>1, <1>8, NotifyDoes, ReportTouched
    DEF Trigger, Return, TypeInv, EventTypes, Time
  <2> HIDE DEF e
  <2>4. Due(e)
    BY <2>1, <2>2 DEF Due
  <2>5. \A v \in Workloads :
           /\ wouldRestart[v] # None => /\ wouldRestart'[v] \in Time
                                        /\ wouldRestart[v] <= wouldRestart'[v]
           /\ status[v].lastRestartAt # None =>
                status[v].lastRestartAt <= status'[v].lastRestartAt
    BY <1>1, <1>2, <2>1 DEF OptTime, Time
  <2>6. AnnouncedLast'
    BY <1>1, <1>2, <2>1, <2>2, <2>3, <2>5, LastKept
  <2>7. NoticesSpaced'
    BY <1>1, <2>2, <2>3, <2>4, SpacedKept
  <2> QED
    BY <2>3, <2>6, <2>7 DEF SpacedInv, NextDue, Pursuing
<1> QED
  BY <1>5, <1>6, <1>7, <1>8

\* The clock and the death of a leader: the next one has announced nothing.
LEMMA OtherSpaced ==
    ASSUME TypeInv, SpacedInv, Tick \/ Failover \/ UNCHANGED vars
    PROVE  SpacedInv'
<1>1. /\ UNCHANGED <<settings, status>> /\ SameEvents
      /\ \/ pc' = "idle" \/ UNCHANGED <<pc, job>>
      /\ AnnouncedLast /\ NoticesSpaced
  BY ReportTouched DEF Tick, Failover, Return, vars, configVars, TypeInv, SpacedInv
<1>2. /\ leader' \in Nat /\ leader' >= leader
      /\ leader' = leader => UNCHANGED wouldRestart
  BY DEF Tick, Failover, vars, TypeInv
<1>3. \A v \in Workloads : /\ Dated(status'[v])
                           /\ status[v].lastRestartAt \in OptTime
                           /\ wouldRestart[v] \in OptTime
  BY <1>1 DEF TypeInv, Dated
<1>4. AnnouncedLast'
  <2>1. \A v \in Workloads :
           /\ wouldRestart[v] # None /\ leader' = leader =>
                /\ wouldRestart'[v] \in Time
                /\ wouldRestart[v] <= wouldRestart'[v]
           /\ status[v].lastRestartAt # None =>
                status[v].lastRestartAt <= status'[v].lastRestartAt
    BY <1>1, <1>2, <1>3 DEF OptTime, Time
  <2> QED
    BY <1>1, <1>2, <1>3, <2>1, LastKept
<1>5. NoticesSpaced'
  BY <1>1, SpacedKept
<1>6. NextDue'
  BY <1>1 DEF SpacedInv, NextDue, SameEvents, Announces
<1> QED
  BY <1>1, <1>4, <1>5, <1>6 DEF SpacedInv, Pursuing

\* A workload's restarts are announced a cooldown apart, whatever fails in
\* between: the status is written before the restart is triggered, and its
\* lastRestartAt is what the next leak is held against (reconciler.go:328-349);
\* a dry run is held against the leader's own memory (reconciler.go:312-324).
THEOREM SpacedTheorem == Spec => []NoticesSpaced
<1>1. Init => SpacedInv
  BY DEF Init, SpacedInv, AnnouncedLast, NextDue, NoticesSpaced, Pursuing
<1>2. TypeInv /\ SpacedInv /\ [Next]_vars => SpacedInv'
  BY LeakSpaced, WorkSpaced, OtherSpaced DEF Next, Answer, Expire
<1>3. SpacedInv => NoticesSpaced
  BY DEF SpacedInv
<1> QED
  BY <1>1, <1>2, <1>3, InitTypes, NextTypes, PTL DEF Spec

-----------------------------------------------------------------------------
\* Every sink that is addressed is tried: what has been tried and what is left
\* make up the targets.

\* x is an entry for the sink: one of its route, or the default of its kind.
Like(x, sink) ==
    x.route = sink.route /\ (sink.route = None => x.kind = sink.kind)

\* How often f lists the sink.
Times(f, sink) == Cardinality({k \in DOMAIN f : Like(f[k], sink)})

Placed(f) == IsFiniteSet(DOMAIN f) /\ DOMAIN f \subseteq Nat

\* The last report waits for the targets that are left.
Balance ==
    /\ Len(reports) \in DOMAIN reports
    /\ reports[Len(reports)].event.workload = job.workload
    /\ Placed(targets) /\ DOMAIN targets # {}
    /\ \A sink \in Sink :
          Times(reports[Len(reports)].tried, sink) + Times(targets, sink)
              = Addressed(job.workload, sink)

\* A report that is under way has at most what is due, any other all of it.
Owed(r, underWay) ==
    /\ \E S : r.tried \in Seq(S)
    /\ \A sink \in Sink :
          LET due == Addressed(r.event.workload, sink)
          IN  /\ Times(r.tried, sink) <= due
              /\ ~underWay => Times(r.tried, sink) = due

UnderWay(i) == reports[i].cut \/ (pc = "deliver" /\ i = Len(reports))

TriedInv ==
    /\ settings \in [Workloads -> Settings]
    /\ pc = "deliver" => Balance
    /\ \A i \in DOMAIN reports : Owed(reports[i], UnderWay(i))

\* A count is a number.
LEMMA TimesNat ==
    ASSUME NEW f, IsFiniteSet(DOMAIN f), NEW sink
    PROVE  /\ IsFiniteSet({k \in DOMAIN f : Like(f[k], sink)})
           /\ Times(f, sink) \in Nat
<1>1. {k \in DOMAIN f : Like(f[k], sink)} \subseteq DOMAIN f
  OBVIOUS
<1> QED
  BY <1>1, FS_Subset, FS_CardinalityType DEF Times

\* A list has finitely many positions.
LEMMA ListFinite ==
    ASSUME NEW S, NEW s \in Seq(S)
    PROVE  IsFiniteSet(DOMAIN s)
<1>1. DOMAIN s = 1 .. Len(s) /\ Len(s) \in Nat
  BY LenProperties
<1> QED
  BY <1>1, FS_Interval

\* Nothing is counted in the empty list.
LEMMA TimesEmpty ==
    ASSUME NEW f, DOMAIN f = {}, NEW sink
    PROVE  Times(f, sink) = 0
<1>1. {k \in DOMAIN f : Like(f[k], sink)} = {}
  OBVIOUS
<1> QED
  BY <1>1, FS_EmptySet DEF Times

\* One more entry counts once, if it is for the sink.
LEMMA TimesAppend ==
    ASSUME NEW S, NEW s \in Seq(S), NEW x, NEW sink
    PROVE  /\ \E T : Append(s, x) \in Seq(T)
           /\ Times(Append(s, x), sink)
                 = Times(s, sink) + (IF Like(x, sink) THEN 1 ELSE 0)
<1> DEFINE T == S \cup {x}
           n == Len(s)
           a == Append(s, x)
           A == {k \in DOMAIN s : Like(s[k], sink)}
           B == {k \in DOMAIN a : Like(a[k], sink)}
<1>1. s \in Seq(T) /\ x \in T
  BY SeqMonotonic
<1> HIDE DEF T
<1>2. /\ a \in Seq(T) /\ n \in Nat /\ Len(a) = n + 1
      /\ DOMAIN s = 1 .. n /\ DOMAIN a = 1 .. n + 1
      /\ \A k \in 1 .. n : a[k] = s[k]
      /\ a[n + 1] = x
  BY <1>1
<1> HIDE DEF n, a
<1>3. IsFiniteSet(DOMAIN s)
  BY <1>2, FS_Interval
<1>4. IsFiniteSet(A) /\ Cardinality(A) \in Nat
  BY <1>3, TimesNat, FS_CardinalityType
<1>5. n + 1 \notin A /\ B = IF Like(x, sink) THEN A \cup {n + 1} ELSE A
  BY <1>2
<1>6. Cardinality(B) = Cardinality(A) + (IF Like(x, sink) THEN 1 ELSE 0)
  <2> HIDE DEF A, B
  <2>1. Cardinality(A \cup {n + 1}) = Cardinality(A) + 1
    BY <1>4, <1>5, FS_AddElement
  <2>2. CASE Like(x, sink)
    BY <1>5, <2>1, <2>2
  <2>3. CASE ~Like(x, sink)
    BY <1>4, <1>5, <2>3
  <2> QED
    BY <2>2, <2>3
<1> QED
  BY <1>2, <1>6 DEF Times, a

\* Positions taken off a list are no longer counted.
LEMMA TimesRest ==
    ASSUME NEW f, IsFiniteSet(DOMAIN f), NEW i \in DOMAIN f, NEW sink
    PROVE  LET g == Restrict(f, DOMAIN f \ {i})
           IN  /\ DOMAIN g = DOMAIN f \ {i}
               /\ Times(g, sink) + (IF Like(f[i], sink) THEN 1 ELSE 0)
                     = Times(f, sink)
<1> DEFINE g == Restrict(f, DOMAIN f \ {i})
           A == {k \in DOMAIN f : Like(f[k], sink)}
           B == {k \in DOMAIN g : Like(g[k], sink)}
<1>1. DOMAIN g = DOMAIN f \ {i} /\ \A k \in DOMAIN g : g[k] = f[k]
  BY DEF Restrict
<1> HIDE DEF g
<1>2. IsFiniteSet(A) /\ Cardinality(A) \in Nat
  BY TimesNat, FS_CardinalityType
<1>3. B = A \ {i} /\ (i \in A <=> Like(f[i], sink))
  BY <1>1
<1>4. Cardinality(B) + (IF Like(f[i], sink) THEN 1 ELSE 0) = Cardinality(A)
  <2> HIDE DEF A, B
  <2>2. Cardinality(A \ {i}) = IF i \in A THEN Cardinality(A) - 1
                                          ELSE Cardinality(A)
    BY <1>2, FS_RemoveElement
  <2>3. CASE Like(f[i], sink)
    <3>1. Cardinality(B) = Cardinality(A) - 1
      BY <1>3, <2>2, <2>3
    <3> QED
      BY <1>2, <2>3, <3>1
  <2>4. CASE ~Like(f[i], sink)
    <3>1. Cardinality(B) = Cardinality(A)
      BY <1>3, <2>2, <2>4
    <3> QED
      BY <1>2, <2>4, <3>1
  <2> QED
    BY <2>3, <2>4
<1> QED
  BY <1>1, <1>4 DEF Times, g

\* The first of several positions is one of them.
LEMMA FirstThere ==
    ASSUME DOMAIN targets \subseteq Nat, DOMAIN targets # {}
    PROVE  First \in DOMAIN targets
<1> DEFINE R == OpToRel(<, Nat)
           T == DOMAIN targets
<1>1. IsWellFoundedOn(R, Nat)
  BY NatLessThanWellFounded
<1>2. \A x, y \in Nat : x < y => <<x, y>> \in R
  BY DEF OpToRel
<1> HIDE DEF R
<1>3. PICK x \in T : \A y \in T : <<y, x>> \notin R
  BY <1>1, WFMin
<1>4. \A y \in T : x =< y
  <2> SUFFICES ASSUME NEW y \in T PROVE x =< y
    OBVIOUS
  <2>1. ~ (y < x) /\ x \in Nat /\ y \in Nat
    BY <1>2, <1>3
  <2> QED
    BY <2>1
<1> QED
  BY <1>3, <1>4 DEF First, Min

-----------------------------------------------------------------------------
\* The targets are sinks at positions, and they are what the policy addresses.

\* d lists defaults of kinds K, each at most once.
Defaults(d, K) ==
    /\ d \in Seq({Default(k) : k \in K})
    /\ \A i, j \in DOMAIN d : d[i] = d[j] => i = j

\* One default, if it is configured.
LEMMA DefaultIf ==
    ASSUME NEW k, NEW b, NEW d, d = IF b THEN <<Default(k)>> ELSE <<>>
    PROVE  Defaults(d, {k})
<1>1. CASE b
  <2>1. d = <<Default(k)>>
    BY <1>1
  <2>2. Default(k) \in {Default(m) : m \in {k}}
    OBVIOUS
  <2>3. /\ d \in Seq({Default(m) : m \in {k}})
        /\ \A i, j \in DOMAIN d : i = j
    <3> DEFINE x == Default(k)
               S == {Default(m) : m \in {k}}
    <3>1. d = <<x>> /\ x \in S
      BY <2>1, <2>2
    <3> HIDE DEF x, S
    <3>2. d \in Seq(S) /\ \A i, j \in DOMAIN d : i = j
      BY <3>1
    <3> QED
      BY <3>2 DEF S
  <2> QED
    BY <2>3 DEF Defaults
<1>2. CASE ~b
  <2>1. d = <<>>
    BY <1>2
  <2> QED
    BY <2>1 DEF Defaults
<1> QED
  BY <1>1, <1>2

\* Defaults of other kinds follow.
LEMMA DefaultsThen ==
    ASSUME NEW c, NEW K, Defaults(c, K), NEW d, NEW M, Defaults(d, M),
           K \cap M = {}
    PROVE  Defaults(c \o d, K \cup M)
<1> DEFINE U(J) == {Default(k) : k \in J}
           e == c \o d
<1>1. \A k, m : Default(k) = Default(m) => k = m
  BY DEF Default
<1>2. U(K) \cap U(M) = {}
  BY <1>1
<1>3. /\ U(K) \subseteq U(K \cup M) /\ U(M) \subseteq U(K \cup M)
      /\ c \in Seq(U(K)) /\ d \in Seq(U(M))
  BY DEF Defaults
<1> HIDE DEF U
<1>4. c \in Seq(U(K \cup M)) /\ d \in Seq(U(K \cup M))
  BY <1>3, SeqMonotonic
<1>5. /\ e \in Seq(U(K \cup M)) /\ Len(e) = Len(c) + Len(d)
      /\ Len(c) \in Nat /\ Len(d) \in Nat
      /\ DOMAIN c = 1 .. Len(c) /\ DOMAIN d = 1 .. Len(d)
      /\ DOMAIN e = 1 .. Len(c) + Len(d)
      /\ \A i \in DOMAIN c : c[i] \in U(K)
      /\ \A i \in DOMAIN d : d[i] \in U(M)
      /\ \A i \in DOMAIN e : e[i] = IF i <= Len(c) THEN c[i] ELSE d[i - Len(c)]
  BY <1>3, <1>4, ConcatProperties, LenProperties, ElementOfSeq
<1> HIDE DEF e
<1>6. ASSUME NEW i \in DOMAIN e, NEW j \in DOMAIN e, e[i] = e[j]
      PROVE  i = j
  <2>1. CASE i <= Len(c) /\ j <= Len(c)
    BY <1>5, <1>6, <2>1 DEF Defaults
  <2>2. CASE ~(i <= Len(c)) /\ ~(j <= Len(c))
    <3>1. /\ i - Len(c) \in DOMAIN d /\ j - Len(c) \in DOMAIN d
          /\ d[i - Len(c)] = d[j - Len(c)]
      BY <1>5, <1>6, <2>2
    <3>2. i - Len(c) = j - Len(c)
      BY <3>1 DEF Defaults
    <3> QED
      BY <1>5, <3>2
  <2>3. CASE (i <= Len(c)) # (j <= Len(c))
    BY <1>2, <1>5, <1>6, <2>3
  <2> QED
    BY <2>1, <2>2, <2>3
<1> QED
  BY <1>5, <1>6 DEF Defaults, U, e

\* The default sinks are of different kinds, and a bot comes first.
LEMMA DefaultsApart ==
    ASSUME NEW env
    PROVE  /\ Defaults(defaultSinks(env), SinkKinds)
           /\ env.botToken => \E i \in DOMAIN defaultSinks(env) :
                                  defaultSinks(env)[i] = Default("bot")
<1> DEFINE chat == IF env.botToken THEN <<Default("bot")>>
                   ELSE IF env.slackURL THEN <<Default("slack")>> ELSE <<>>
           hook == IF env.webhookURL THEN <<Default("webhook")>> ELSE <<>>
           dog == IF env.datadog THEN <<Default("datadog")>> ELSE <<>>
<1>1. Defaults(chat, {"bot", "slack"})
  <2>1. \E k \in {"bot", "slack"}, b \in BOOLEAN :
           chat = IF b THEN <<Default(k)>> ELSE <<>>
    OBVIOUS
  <2>2. PICK k \in {"bot", "slack"} : Defaults(chat, {k})
    BY <2>1, DefaultIf
  <2> HIDE DEF chat
  <2>3. {Default(m) : m \in {k}} \subseteq {Default(m) : m \in {"bot", "slack"}}
    OBVIOUS
  <2> QED
    BY <2>2, <2>3, SeqMonotonic DEF Defaults
<1>2. Defaults(hook, {"webhook"}) /\ Defaults(dog, {"datadog"})
  BY DefaultIf
<1>3. env.botToken => chat = <<Default("bot")>>
  OBVIOUS
<1>4. defaultSinks(env) = (chat \o hook) \o dog
  BY DEF defaultSinks
<1> HIDE DEF chat, hook, dog
<1>5. Defaults(chat \o hook, {"bot", "slack", "webhook"})
  <2>1. {"bot", "slack"} \cup {"webhook"} = {"bot", "slack", "webhook"}
    OBVIOUS
  <2> QED
    BY <1>1, <1>2, <2>1, DefaultsThen
<1>6. Defaults(defaultSinks(env), SinkKinds)
  <2>1. {"bot", "slack", "webhook"} \cup {"datadog"} = SinkKinds
    BY DEF SinkKinds
  <2> QED
    BY <1>2, <1>4, <1>5, <2>1, DefaultsThen
<1>7. ASSUME env.botToken
      PROVE  \E i \in DOMAIN defaultSinks(env) :
                defaultSinks(env)[i] = Default("bot")
  <2> DEFINE S == {Default(k) : k \in SinkKinds}
  <2>1. chat \in Seq(S) /\ hook \in Seq(S) /\ dog \in Seq(S)
    <3>1. \A K \in SUBSET SinkKinds : {Default(k) : k \in K} \subseteq S
      OBVIOUS
    <3>2. \A K \in SUBSET SinkKinds : \A d : Defaults(d, K) => d \in Seq(S)
      BY <3>1, SeqMonotonic DEF Defaults
    <3> QED
      BY <1>1, <1>2, <3>2 DEF SinkKinds
  <2> HIDE DEF S
  <2>2. Len(chat) = 1 /\ chat[1] = Default("bot")
    BY <1>3, <1>7
  <2> DEFINE e == chat \o hook
  <2>3. e \in Seq(S) /\ Len(e) >= 1 /\ e[1] = chat[1]
    <3>1. Len(hook) \in Nat
      BY <2>1, LenProperties
    <3>2. e \in Seq(S) /\ Len(e) = Len(chat) + Len(hook)
      BY <2>1, ConcatProperties
    <3>3. \A i \in 1 .. Len(chat) + Len(hook) :
             e[i] = IF i <= Len(chat) THEN chat[i] ELSE hook[i - Len(chat)]
      BY <2>1, ConcatProperties
    <3> HIDE DEF e
    <3>4. 1 \in 1 .. Len(chat) + Len(hook) /\ 1 <= Len(chat)
      BY <2>2, <3>1
    <3> QED
      BY <2>2, <3>1, <3>2, <3>3, <3>4
  <2>4. /\ 1 \in DOMAIN defaultSinks(env)
        /\ defaultSinks(env)[1] = chat[1]
    BY <1>4, <2>1, <2>2, <2>3, ConcatProperties, LenProperties
  <2> QED
    BY <2>2, <2>4
<1> QED
  BY <1>6, <1>7

\* A sink is among the defaults or not, and its default counts once.
LEMMA DefaultsTimes ==
    ASSUME NEW d, Defaults(d, SinkKinds), NEW sink \in Sink
    PROVE  /\ Placed(d)
           /\ Times(d, sink) = IF \E i \in DOMAIN d : d[i] = sink THEN 1 ELSE 0
<1> DEFINE U == {Default(k) : k \in SinkKinds}
           A == {k \in DOMAIN d : Like(d[k], sink)}
<1>1. /\ Len(d) \in Nat /\ DOMAIN d = 1 .. Len(d)
      /\ \A i \in DOMAIN d : d[i] \in U
  BY LenProperties, ElementOfSeq DEF Defaults
<1>2. \A x \in U : Like(x, sink) <=> x = sink
  BY DEF Like, Default, Sink
<1> HIDE DEF U
<1>3. A = {k \in DOMAIN d : d[k] = sink}
  BY <1>1, <1>2
<1>4. Placed(d)
  BY <1>1, FS_Interval DEF Placed
<1>5. CASE \E i \in DOMAIN d : d[i] = sink
  <2>1. PICK i \in DOMAIN d : d[i] = sink
    BY <1>5
  <2>2. A = {i}
    BY <1>3, <2>1 DEF Defaults
  <2> QED
    BY <1>4, <1>5, <2>2, FS_Singleton DEF Times
<1>6. CASE ~\E i \in DOMAIN d : d[i] = sink
  <2>1. A = {}
    BY <1>3, <1>6
  <2> QED
    BY <1>4, <1>6, <2>1, FS_EmptySet DEF Times
<1> QED
  BY <1>5, <1>6

\* resolveTargets lists what the policy addresses.
LEMMA Resolved ==
    ASSUME settings \in [Workloads -> Settings], NEW w \in Workloads
    PROVE  LET all == resolveTargets(w)
           IN  /\ Placed(all)
               /\ all # <<>> => DOMAIN all # {}
               /\ \A sink \in Sink : Times(all, sink) = Addressed(w, sink)
<1> DEFINE names == settings[w].routes
           entries == setup.routesFile
           d == defaultSinks(setup.env)
           bot == <<Default("bot")>>
           all == resolveTargets(w)
           registered == {i \in DOMAIN names : \E k \in DOMAIN entries :
                                                   entries[k].name = names[i]}
           posts == settings[w].channel /\ setup.env.botToken
<1>1. /\ names \in Seq(RouteNames) /\ Len(names) \in Nat
      /\ DOMAIN names = 1 .. Len(names)
      /\ \A i \in DOMAIN names : names[i] # None
  BY ReportingAssumption, LenProperties, ElementOfSeq
<1>2. registered = {i \in DOMAIN names : KnownRoute(names[i])}
  BY DEF KnownRoute, BuildRoutes
<1>3. Defaults(d, SinkKinds)
  BY DefaultsApart
<1>4. CASE registered # {}
  <2>1. all = [i \in registered |-> BuildRoutes(entries)[names[i]]]
    BY <1>2, <1>4 DEF resolveTargets
  <2>2. DOMAIN all = registered /\ \A i \in registered : all[i].route = names[i]
    <3> DEFINE known == DOMAIN BuildRoutes(entries)
    <3>1. \A name \in known : BuildRoutes(entries)[name].route = name
      BY DEF BuildRoutes
    <3>2. \A i \in registered : names[i] \in known
      BY <1>2 DEF KnownRoute
    <3> HIDE DEF known, entries, registered, names, all
    <3>3. \A i \in registered : all[i] = BuildRoutes(entries)[names[i]]
      BY <2>1
    <3>4. DOMAIN all = registered
      BY <2>1
    <3> QED
      BY <3>1, <3>2, <3>3, <3>4
  <2>3. Placed(all)
    <3>1. registered \subseteq DOMAIN names
      OBVIOUS
    <3> HIDE DEF all, registered
    <3>2. IsFiniteSet(DOMAIN names) /\ DOMAIN names \subseteq Nat
      BY <1>1, FS_Interval
    <3>3. IsFiniteSet(registered) /\ registered \subseteq Nat
      BY <3>1, <3>2, FS_Subset
    <3> QED
      BY <2>2, <3>3 DEF Placed
  <2>4. ASSUME NEW sink \in Sink
        PROVE  Times(all, sink) = Addressed(w, sink)
    <3> HIDE DEF all
    <3>1. {k \in DOMAIN all : Like(all[k], sink)}
            = {i \in registered : sink.route = names[i]}
      BY <1>1, <2>2 DEF Like
    <3> QED
      BY <1>4, <3>1 DEF Times, Addressed
  <2> QED
    BY <1>4, <2>2, <2>3, <2>4
<1>5. CASE registered = {} /\ posts
  <2>1. all = bot
    BY <1>2, <1>5 DEF resolveTargets
  <2>2. Defaults(bot, {"bot"})
    <3>1. bot = IF TRUE THEN bot ELSE <<>>
      OBVIOUS
    <3> QED
      BY <3>1, DefaultIf
  <2>3. Defaults(bot, SinkKinds)
    <3>1. {Default(m) : m \in {"bot"}} \subseteq {Default(m) : m \in SinkKinds}
      BY DEF SinkKinds
    <3> HIDE DEF bot
    <3> QED
      BY <2>2, <3>1, SeqMonotonic DEF Defaults
  <2>4. ASSUME NEW sink \in Sink
        PROVE  (\E i \in DOMAIN bot : bot[i] = sink)
                  <=> sink.kind = "bot" /\ \E i \in DOMAIN d : d[i] = sink
    <3>1. (\E i \in DOMAIN bot : bot[i] = sink) <=> sink = Default("bot")
      OBVIOUS
    <3>2. \E i \in DOMAIN d : d[i] = Default("bot")
      BY <1>5, DefaultsApart
    <3>3. \A i \in DOMAIN d : d[i] \in {Default(k) : k \in SinkKinds}
      BY <1>3, ElementOfSeq, LenProperties DEF Defaults
    <3> HIDE DEF bot, d
    <3>4. \A k : Default(k).kind = k
      BY DEF Default
    <3>5. \A i \in DOMAIN d : d[i].kind = "bot" => d[i] = Default("bot")
      BY <3>3, <3>4
    <3> QED
      BY <3>1, <3>2, <3>4, <3>5
  <2>5. DOMAIN bot # {}
    OBVIOUS
  <2> HIDE DEF bot
  <2>6. ASSUME NEW sink \in Sink
        PROVE  Times(all, sink) = Addressed(w, sink)
    BY <1>5, <2>1, <2>3, <2>4, DefaultsTimes DEF Addressed
  <2>7. Default("bot") \in Sink
    BY DEF Sink, SinkKinds, Default
  <2>8. Placed(bot)
    BY <2>3, <2>7, DefaultsTimes
  <2> QED
    BY <2>1, <2>5, <2>6, <2>8
<1>6. CASE registered = {} /\ ~posts
  <2>1. all = d
    BY <1>2, <1>6 DEF resolveTargets
  <2>2. ASSUME NEW sink \in Sink
        PROVE  Times(all, sink) = Addressed(w, sink)
    BY <1>3, <1>6, <2>1, DefaultsTimes DEF Addressed
  <2>3. d # <<>> => DOMAIN d # {}
    BY <1>3, EmptySeq, LenProperties DEF Defaults
  <2>4. Default("bot") \in Sink
    BY DEF Sink, SinkKinds, Default
  <2> HIDE DEF d
  <2> QED
    BY <1>3, <2>1, <2>2, <2>3, <2>4, DefaultsTimes
<1> QED
  BY <1>4, <1>5, <1>6
-----------------------------------------------------------------------------
\* TriedInv, step by step.

\* Who is addressed does not change.
LEMMA OwedKept ==
    ASSUME UNCHANGED configVars
    PROVE  /\ \A w, sink : Addressed(w, sink)' = Addressed(w, sink)
           /\ \A r, o : Owed(r, o)' <=> Owed(r, o)
  BY DEF configVars, Addressed, Owed

\* Steps that make and touch no report.
LEMMA TriedKept ==
    ASSUME TriedInv, UNCHANGED configVars, UNCHANGED reports,
           \/ UNCHANGED <<pc, job, targets>>
           \/ pc # "deliver" /\ pc' # "deliver"
    PROVE  TriedInv'
<1>1. settings' \in [Workloads -> Settings]
  BY DEF TriedInv, configVars
<1>2. \A i \in DOMAIN reports : UnderWay(i)' <=> UnderWay(i)
  BY DEF UnderWay
<1>3. \A i \in DOMAIN reports' : Owed(reports[i], UnderWay(i))'
  <2> SUFFICES ASSUME NEW i \in DOMAIN reports
               PROVE  Owed(reports[i], UnderWay(i))'
    OBVIOUS
  <2>1. Owed(reports[i], UnderWay(i))
    BY DEF TriedInv
  <2>2. (\A w, sink : Addressed(w, sink)' = Addressed(w, sink))
    BY OwedKept
  <2> QED
    BY <1>2, <2>1, <2>2 DEF Owed
<1>4. pc' = "deliver" => Balance'
  BY OwedKept DEF TriedInv, Balance
<1> QED
  BY <1>1, <1>3, <1>4 DEF TriedInv

\* A new report owes everything.
LEMMA NotifyTried ==
    ASSUME TypeInv, TriedInv, pc # "deliver", UNCHANGED configVars,
           NEW type \in EventTypes, NEW w \in Workloads, NEW at \in Time,
           Notify(type, w, at)
    PROVE  TriedInv'
<1> DEFINE e == [type |-> type, workload |-> w, at |-> at, leader |-> leader]
           all == resolveTargets(w)
           new == [event |-> e, tried |-> <<>>, cut |-> FALSE]
<1>1. CASE Return /\ UNCHANGED reports
  BY <1>1, TriedKept DEF Return
<1>2. CASE /\ all # <<>>
           /\ pc' = "deliver" /\ job'.workload = w /\ targets' = all
           /\ reports' = Append(reports, new)
  <2>1. PICK T : reports \in Seq(Report(T))
    BY DEF TypeInv, ReportSeq
  <2>2. new.tried = <<>> /\ new.event.workload = w /\ new.cut = FALSE
    OBVIOUS
  <2> HIDE DEF new
  <2>3. /\ Len(reports) \in Nat /\ DOMAIN reports = 1 .. Len(reports)
        /\ Len(reports') = Len(reports) + 1
        /\ DOMAIN reports' = 1 .. Len(reports) + 1
        /\ reports'[Len(reports) + 1] = new
        /\ \A i \in DOMAIN reports : reports'[i] = reports[i]
    BY <1>2, <2>1
  <2>4. settings \in [Workloads -> Settings] /\ settings' = settings
    BY DEF TriedInv, configVars
  <2> HIDE DEF all
  <2>5. /\ Placed(all) /\ DOMAIN all # {}
        /\ \A sink \in Sink : Times(all, sink) = Addressed(w, sink)
    BY <1>2, <2>4, Resolved DEF all
  <2>6. \A sink \in Sink : /\ Times(all, sink) \in Nat
                           /\ Times(<<>>, sink) = 0
    <3>1. DOMAIN <<>> = {}
      OBVIOUS
    <3> QED
      BY <2>5, <3>1, TimesNat, TimesEmpty DEF Placed
  <2>7. \A v, sink : Addressed(v, sink)' = Addressed(v, sink)
    BY OwedKept
  <2>8. Balance'
    BY <1>2, <2>2, <2>3, <2>5, <2>6, <2>7 DEF Balance
  <2>9. ASSUME NEW i \in DOMAIN reports'
        PROVE  Owed(reports[i], UnderWay(i))'
    <3>1. CASE i = Len(reports) + 1
      <4>1. UnderWay(i)'
        BY <1>2, <2>3, <3>1 DEF UnderWay
      <4>2. <<>> \in Seq({})
        OBVIOUS
      <4>3. reports'[i].tried = <<>> /\ reports'[i].event.workload = w
        BY <2>2, <2>3, <3>1
      <4>4. \A sink \in Sink : Times(<<>>, sink) <= Addressed(w, sink)
        BY <2>5, <2>6
      <4> QED
        BY <2>7, <4>1, <4>2, <4>3, <4>4 DEF Owed
    <3>2. CASE i \in DOMAIN reports
      <4>1. Owed(reports[i], UnderWay(i)) /\ reports'[i] = reports[i]
        BY <2>3, <3>2 DEF TriedInv
      <4>2. UnderWay(i) => UnderWay(i)'
        BY <4>1 DEF UnderWay
      <4> QED
        BY <2>7, <4>1, <4>2 DEF Owed
    <3> QED
      BY <2>3, <2>9, <3>1, <3>2
  <2> QED
    BY <2>4, <2>8, <2>9 DEF TriedInv
<1> QED
  BY <1>1, <1>2 DEF Notify

\* A delivery moves one sink from those left to those tried.
LEMMA DeliverTried ==
    ASSUME TypeInv, TriedInv, NEW ok \in BOOLEAN, Deliver(ok)
    PROVE  TriedInv'
<1> DEFINE n == Len(reports)
           x == targets[First]
           r == reports[n]
<1>1. PICK T : reports \in Seq(Report(T))
  BY DEF TypeInv, ReportSeq
<1>2. /\ pc = "deliver" /\ Balance /\ UNCHANGED configVars
      /\ n \in Nat /\ DOMAIN reports = 1 .. n /\ n \in DOMAIN reports
      /\ First \in DOMAIN targets /\ IsFiniteSet(DOMAIN targets)
  BY <1>1, LenProperties, FirstThere DEF Deliver, TriedInv, Balance, Placed
<1>3. /\ DOMAIN reports' = DOMAIN reports /\ Len(reports') = n
      /\ \A i \in DOMAIN reports : i # n => reports'[i] = reports[i]
      /\ reports'[n].event = r.event
      /\ reports'[n].cut = r.cut
      /\ reports'[n].tried = Append(r.tried, x)
  <2>1. reports' = [reports EXCEPT ![n].tried = Append(@, x)]
    BY DEF Deliver
  <2>2. r \in Report(T)
    BY <1>1, <1>2
  <2> DEFINE a == Append(r.tried, x)
             q == [r EXCEPT !.tried = a]
  <2>3. DOMAIN r = {"event", "tried", "cut"}
    <3> HIDE DEF r
    <3> QED
      BY <2>2 DEF Report
  <2>4. q.event = r.event /\ q.tried = a /\ q.cut = r.cut
    <3> HIDE DEF r, a
    <3> QED
      BY <2>3
  <2>5. reports' = [reports EXCEPT ![n] = q]
    BY <2>1
  <2> HIDE DEF n, q
  <2>6. /\ DOMAIN reports' = DOMAIN reports /\ Len(reports') = Len(reports)
        /\ \A i \in DOMAIN reports : i # n => reports'[i] = reports[i]
        /\ reports'[n] = q
    BY <1>1, <1>2, <2>5
  <2> HIDE DEF r, x
  <2> QED
    BY <2>4, <2>6 DEF n
<1> HIDE DEF x
<1>4. /\ \E S : reports'[n].tried \in Seq(S)
      /\ \A sink \in Sink :
            Times(reports'[n].tried, sink)
               = Times(r.tried, sink) + (IF Like(x, sink) THEN 1 ELSE 0)
  <2>1. \E S : r.tried \in Seq(S)
    BY <1>2 DEF TriedInv, Owed
  <2> QED
    BY <1>3, <2>1, TimesAppend
<1>5. /\ DOMAIN Rest = DOMAIN targets \ {First}
      /\ \A sink \in Sink : Times(Rest, sink) + (IF Like(x, sink) THEN 1 ELSE 0)
                               = Times(targets, sink)
  BY <1>2, TimesRest DEF Rest, x
<1>6. /\ Placed(Rest)
      /\ \A sink \in Sink : /\ Times(Rest, sink) \in Nat
                            /\ Times(targets, sink) \in Nat
                            /\ Times(r.tried, sink) \in Nat
  <2>1. IsFiniteSet(DOMAIN Rest) /\ DOMAIN Rest \subseteq Nat
    BY <1>2, <1>5, FS_RemoveElement DEF Balance, Placed
  <2>2. IsFiniteSet(DOMAIN r.tried)
    <3>1. PICK S : r.tried \in Seq(S)
      BY <1>2 DEF TriedInv, Owed
    <3> QED
      BY <3>1, ListFinite
  <2> QED
    BY <1>2, <2>1, <2>2, TimesNat DEF Placed
<1>7. \A sink \in Sink :
         Times(reports'[n].tried, sink) + Times(Rest, sink)
            = Addressed(job.workload, sink)
  <2> SUFFICES ASSUME NEW sink \in Sink
               PROVE  Times(reports'[n].tried, sink) + Times(Rest, sink)
                         = Addressed(job.workload, sink)
    OBVIOUS
  <2>1. Times(r.tried, sink) + Times(targets, sink)
           = Addressed(job.workload, sink)
    BY <1>2 DEF Balance
  <2> DEFINE one == IF Like(x, sink) THEN 1 ELSE 0
  <2>2. one \in Nat
    OBVIOUS
  <2>3. /\ Times(reports'[n].tried, sink) = Times(r.tried, sink) + one
        /\ Times(Rest, sink) + one = Times(targets, sink)
    BY <1>4, <1>5
  <2> HIDE DEF one
  <2> QED
    BY <1>6, <2>1, <2>2, <2>3
<1>8. /\ r.event.workload = job.workload
      /\ \A v, sink : Addressed(v, sink)' = Addressed(v, sink)
  BY <1>2, OwedKept DEF Balance
<1>9. \/ pc' = "deliver" /\ job' = job /\ targets' = Rest /\ DOMAIN Rest # {}
      \/ pc' = "idle" /\ DOMAIN Rest = {}
  BY <1>2 DEF Deliver, Return
<1>10. pc' = "deliver" => Balance'
  <2> HIDE DEF n, r
  <2> QED
    BY <1>2, <1>3, <1>6, <1>7, <1>8, <1>9 DEF Balance, n
<1>11. ASSUME NEW i \in DOMAIN reports'
       PROVE  Owed(reports[i], UnderWay(i))'
  <2>1. CASE i # n
    <3>1. Owed(reports[i], UnderWay(i)) /\ reports'[i] = reports[i]
      BY <1>3, <2>1 DEF TriedInv
    <3>2. UnderWay(i) => UnderWay(i)'
      BY <2>1, <3>1 DEF UnderWay
    <3> QED
      BY <1>8, <3>1, <3>2 DEF Owed
  <2>2. CASE i = n
    <3>1. \A sink \in Sink :
             /\ Times(reports'[n].tried, sink) <= Addressed(job.workload, sink)
             /\ pc' = "idle" => Times(reports'[n].tried, sink)
                                   = Addressed(job.workload, sink)
      <4> SUFFICES ASSUME NEW sink \in Sink
                   PROVE  /\ Times(reports'[n].tried, sink)
                                 <= Addressed(job.workload, sink)
                          /\ pc' = "idle" => Times(reports'[n].tried, sink)
                                                = Addressed(job.workload, sink)
        OBVIOUS
      <4>1. Times(reports'[n].tried, sink) \in Nat
        <5>1. (IF Like(x, sink) THEN 1 ELSE 0) \in Nat
          OBVIOUS
        <5> QED
          BY <1>4, <1>6, <5>1
      <4>2. pc' = "idle" => Times(Rest, sink) = 0
        BY <1>9, TimesEmpty
      <4> QED
        BY <1>6, <1>7, <4>1, <4>2
    <3>2. UnderWay(i)' \/ pc' = "idle"
      BY <1>3, <1>9, <2>2 DEF UnderWay
    <3> QED
      BY <1>3, <1>4, <1>8, <2>2, <3>1, <3>2 DEF Owed
  <2> QED
    BY <2>1, <2>2
<1>12. settings' \in [Workloads -> Settings]
  BY <1>2 DEF TriedInv, configVars
<1> QED
  BY <1>10, <1>11, <1>12 DEF TriedInv

\* The death of a leader cuts the last report off.
LEMMA FailoverTried == ASSUME TypeInv, TriedInv, Failover PROVE TriedInv'
<1> DEFINE n == Len(reports)
<1>1. PICK T : reports \in Seq(Report(T))
  BY DEF TypeInv, ReportSeq
<1>2. CASE pc = "deliver"
  <2>1. n \in DOMAIN reports /\ reports[n] \in Report(T)
    BY <1>1, <1>2 DEF TriedInv, Balance
  <2>2. /\ pc' = "idle" /\ UNCHANGED configVars
        /\ reports' = [reports EXCEPT ![n].cut = TRUE]
    BY <1>2 DEF Failover, Return
  <2>3. /\ DOMAIN reports' = DOMAIN reports /\ Len(reports') = n
        /\ \A i \in DOMAIN reports : i # n => reports'[i] = reports[i]
        /\ reports'[n].event = reports[n].event
        /\ reports'[n].tried = reports[n].tried
        /\ reports'[n].cut = TRUE
    BY <1>1, <2>1, <2>2 DEF Report
  <2>4. \A v, sink : Addressed(v, sink)' = Addressed(v, sink)
    BY <2>2, OwedKept
  <2>5. ASSUME NEW i \in DOMAIN reports'
        PROVE  Owed(reports[i], UnderWay(i))'
    <3>1. /\ Owed(reports[i], UnderWay(i))
          /\ reports'[i].event = reports[i].event
          /\ reports'[i].tried = reports[i].tried
      BY <2>3 DEF TriedInv
    <3>2. UnderWay(i) => UnderWay(i)'
      BY <2>3 DEF UnderWay
    <3> QED
      BY <2>4, <3>1, <3>2 DEF Owed
  <2>6. settings' \in [Workloads -> Settings]
    BY <2>2 DEF TriedInv, configVars
  <2> QED
    BY <2>2, <2>5, <2>6 DEF TriedInv
<1>3. CASE pc # "deliver"
  BY <1>3, TriedKept DEF Failover, Return
<1> QED
  BY <1>2, <1>3

\* Every step keeps TriedInv.
LEMMA NextTried == TypeInv /\ TriedInv /\ [Next]_vars => TriedInv'
<1> SUFFICES ASSUME TypeInv, TriedInv, [Next]_vars PROVE TriedInv'
  OBVIOUS
<1>1. ASSUME NEW w \in Workloads, Leak(w)
      PROVE  TriedInv'
  <2>1. pc = "idle" /\ pc # "deliver" /\ UNCHANGED configVars /\ now \in Time
    BY <1>1 DEF Leak, TypeInv
  <2>2. CASE \E type \in EventTypes : Notify(type, w, now)
    BY <2>1, <2>2, NotifyTried
  <2>3. CASE pc' # "deliver" /\ UNCHANGED reports
    BY <2>1, <2>3, TriedKept
  <2> QED
    BY <1>1, <2>2, <2>3 DEF Leak, DryRun, Return, EventTypes
<1>2. CASE Trigger
  <2>1. /\ pc = "trigger" /\ pc # "deliver" /\ UNCHANGED configVars
        /\ job.workload \in Workloads /\ job.at \in Time
        /\ "RestartTriggered" \in EventTypes
    BY <1>2 DEF Trigger, TypeInv, Job, EventTypes
  <2>2. CASE Notify("RestartTriggered", job.workload, job.at)
    BY <2>1, <2>2, NotifyTried
  <2>3. CASE pc' # "deliver" /\ UNCHANGED reports
    BY <2>1, <2>3, TriedKept
  <2> QED
    BY <1>2, <2>2, <2>3 DEF Trigger, Return
<1>3. CASE \/ \E ok \in BOOLEAN : Captured(ok)
           \/ Record \/ Tick \/ UNCHANGED vars
  <2>1. /\ UNCHANGED configVars /\ UNCHANGED reports
        /\ \/ UNCHANGED <<pc, job, targets>>
           \/ pc # "deliver" /\ pc' # "deliver"
    BY <1>3 DEF Captured, Record, Tick, vars, Return
  <2> QED
    BY <2>1, TriedKept
<1>4. CASE (\E ok \in BOOLEAN : Deliver(ok)) \/ Failover
  BY <1>4, DeliverTried, FailoverTried
<1> QED
  BY <1>1, <1>2, <1>3, <1>4 DEF Next, Answer, Expire

\* A notification is tried at every sink that its policy addresses, as often
\* as it is addressed and nowhere else, whichever sinks fail or hang; only the
\* death of the leader stops half-way (notify.go:118-165).
THEOREM TriedTheorem == Spec => []AllSinksTried
<1>1. Init => TriedInv
  BY DEF Init, TriedInv
<1>2. TypeInv /\ TriedInv => AllSinksTried
  BY DEF TriedInv, Owed, UnderWay, Times, Like, AllSinksTried
<1> QED
  BY <1>1, <1>2, InitTypes, NextTypes, NextTried, PTL DEF Spec
=============================================================================
