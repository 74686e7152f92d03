------------------------------ MODULE Sampling ------------------------------
(***************************************************************************)
(* The sampler goroutine (internal/controller/sampler.go), the store of    *)
(* samples it shares with the reconciler, the channel that carries its     *)
(* events, and the reconciler's scan of a policy's pods.                   *)
(*                                                                         *)
(* A pass measures first and lists the pods afterwards, so a container may *)
(* restart between the measurement and the restart count it is filed       *)
(* under.  Each key stands for one selected container of a pod; which      *)
(* containers SelectTargets picks is the constant Targets.                 *)
(***************************************************************************)
EXTENDS Datasource

CONSTANTS
    Sources,        \* the types of datasource the program may be started with
    Lookback,       \* Prometheus and Datadog may report a value that is up to
                    \* this old (five minutes)
    Policies,
    Targets,        \* policy -> the containers SelectTargets picks
    Det,            \* policy -> its resolved Detection
    StableNames,    \* containers whose pod comes back under its name
    Values,         \* the working sets a container may have
    Limit,          \* the memory limit of every container; 0: none
    StartupGrace,   \* pods younger than this are not scanned
    ChanCap,        \* capacity of the event channel (1024 in the code)
    Prompt,         \* bound: TRUE when the clock waits for a due pass
    MaxTime,        \* bound: the last time
    Budgets         \* bound: how often the environment may do each of Chances

Chances == {"faults", "crashes", "restarts", "replaces"}

ASSUME SamplingAssumption ==
    /\ None \notin Nat /\ None \notin Keys
    /\ Sources \subseteq SourceTypes
    /\ Lookback \in Nat
    /\ Targets \in [Policies -> SUBSET Keys]
    /\ Det \in [Policies -> Detection]
    /\ StableNames \subseteq Keys
    /\ Values \subseteq Nat
    /\ Limit \in Nat
    /\ StartupGrace \in Nat
    /\ ChanCap \in Nat
    /\ Prompt \in BOOLEAN
    /\ MaxTime \in Nat
    /\ Budgets \subseteq [Chances -> Nat]

VARIABLES
    source,    \* --datasource
    now,       \* the wall clock
    pods,      \* the containers in the cluster
    store,     \* the shared sample store
    ticked,    \* the ticker's channel holds a tick
    smpPC, usage, passNow, todo, live, sending,   \* the pass in progress
    events,    \* the channel of policy events
    queue,     \* keys in the reconciler's workqueue
    alarm,     \* the last leak the reconciler reported
    budget,    \* what the environment may still do
    since,     \* ghost: start of the samples of a key without a restart,
               \* an eviction or a gap longer than the default window
    seen,      \* ghost: the first sample ever taken of a key
    low        \* ghost: policy -> the last sample of a key that was under
               \* the policy's threshold

smpVars   == <<smpPC, usage, passNow, todo, live, sending>>
ghostVars == <<since, seen, low>>
vars == <<source, now, pods, store, ticked, smpVars, events, queue, alarm, budget,
          ghostVars>>

OptTime   == Nat \cup {None}
Container == [exists : BOOLEAN, life : Nat, restarts : Nat, start : Nat,
              changed : Nat]
Measured  == [workingSet : Values \cup {0}, life : Nat]
Taken     == [time : Nat, workingSet : Values \cup {0}, limit : {Limit}, life : Nat]
Series    == [samples : Seq(Taken), lastRestarts : Nat]
Alarm     == [policy : Policies, key : Keys, at : Nat]

TypeOK ==
    /\ source \in Sources
    /\ now \in Nat
    /\ pods \in [Keys -> Container]
    /\ store \in [Keys -> Series \cup {None}]
    /\ ticked \in BOOLEAN
    /\ smpPC \in {"idle", "policy", "send"}
    /\ usage \in [Keys -> Measured \cup {None}]
    /\ passNow \in Nat
    /\ todo \subseteq Policies /\ live \subseteq Keys
    /\ sending \in Policies \cup {None}
    /\ events \in Seq(Policies) /\ Len(events) <= ChanCap
    /\ queue \subseteq Policies
    /\ alarm \in Alarm \cup {None}
    /\ budget \in [Chances -> Nat]
    /\ since \in [Keys -> OptTime]
    /\ seen \in [Keys -> OptTime]
    /\ low \in [Policies -> [Keys -> OptTime]]

PassIdle ==
    /\ smpPC = "idle" /\ passNow = 0 /\ todo = {} /\ live = {}
    /\ sending = None /\ usage = [k \in Keys |-> None]

Init ==
    /\ source \in Sources
    /\ now = 0
    /\ pods = [k \in Keys |-> [exists |-> TRUE, life |-> 0, restarts |-> 0,
                               start |-> 0, changed |-> 0]]
    /\ store = EmptyStore
    /\ ticked = TRUE          \* Start samples once before it waits
    /\ PassIdle
    /\ events = <<>>
    /\ queue = Policies
    /\ alarm = None
    /\ budget \in Budgets
    /\ since = EmptyStore
    /\ seen = EmptyStore
    /\ low = [p \in Policies |-> EmptyStore]

Chance(c) ==
    /\ budget[c] > 0
    /\ budget' = [budget EXCEPT ![c] = @ - 1]

-----------------------------------------------------------------------------
\* The sampler.

\* The instances of k whose memory the backend may still report.
Reported(k) ==
    LET pod == pods[k]
    IN  (IF pod.exists THEN {pod.life} ELSE {})
        \cup IF source = "metrics-server" \/ now >= pod.changed + Lookback THEN {}
             ELSE IF pod.exists THEN {pod.life - 1} \cap Nat ELSE {pod.life}

\* What the backend may send for k: nothing, one series, or in Prometheus one
\* for each of two instances; in Datadog a series has older points too.
Reports(k) ==
    LET point  == [workingSet : Values \cup (IF source = "metrics-server" THEN {}
                                             ELSE {None}),
                   life : Reported(k)]
        series == {<<p>> : p \in point}
                  \cup IF source = "datadog"
                       THEN {<<>>} \cup {<<p, q>> : p \in point, q \in point}
                       ELSE {}
    IN  {<<>>} \cup {<<x>> : x \in series}
        \cup IF source = "prometheus" THEN {<<x, y>> : x \in series, y \in series}
             ELSE {}

\* A series that names no container in scope comes with every answer.
Stray == <<[workingSet |-> None, life |-> 0]>>

Answers ==
    {None} \cup {[k \in Keys \cup {None} |-> IF k = None THEN <<Stray>> ELSE f[k]] :
                    f \in {f \in [Keys -> UNION {Reports(k) : k \in Keys}] :
                             \A k \in Keys : f[k] \in Reports(k)}}

\* List the policies and measure; a failed read ends the pass at once.
StartPass ==
    /\ smpPC = "idle" /\ ticked
    /\ ticked' = FALSE
    /\ \E answer \in Answers :
        LET list == ListUsage(source, answer)
        IN  \/ /\ list = None
               /\ Chance("faults")
               /\ UNCHANGED smpVars
            \/ /\ list # None
               /\ usage' = ByKey(list)
               /\ IF \E k \in Keys : pods[k].exists /\ usage'[k] = None
                  THEN Chance("faults") ELSE UNCHANGED budget
               /\ passNow' = now
               /\ todo' = Policies
               /\ smpPC' = "policy"
               /\ UNCHANGED <<live, sending>>
    /\ UNCHANGED <<now, pods, store, events, queue, alarm, ghostVars>>

\* Variant: every sample is stamped when it is filed.
TakenOfLate(k) == [time |-> now, workingSet |-> usage[k].workingSet,
                   limit |-> Limit, life |-> usage[k].life]

\* The sample of k that this pass files.
TakenOf(k) == [time |-> passNow, workingSet |-> usage[k].workingSet,
               limit |-> Limit, life |-> usage[k].life]

\* Observe every selected container of p that was measured and still exists.
File(p) ==
    LET hit == {k \in Targets[p] : pods[k].exists /\ usage[k] # None}
        last(k) == store[k].samples[Len(store[k].samples)].time
        fresh(k) == \/ store[k] = None
                    \/ pods[k].restarts > store[k].lastRestarts
                    \/ passNow > last(k) + WindowFlag
    IN  /\ store' = [k \in Keys |->
                        IF k \in hit
                        THEN Observe(store[k], TakenOf(k), pods[k].restarts)
                        ELSE store[k]]
        /\ live' = live \cup hit
        /\ since' = [k \in Keys |-> IF k \in hit /\ fresh(k) THEN passNow
                                    ELSE since[k]]
        /\ seen' = [k \in Keys |-> IF k \in hit /\ seen[k] = None THEN passNow
                                   ELSE seen[k]]
        /\ low' = [q \in Policies |-> [k \in Keys |->
                      IF k \in hit /\ ~exceeds(TakenOf(k), Det[q]) THEN passNow
                      ELSE low[q][k]]]

\* One policy of the pass.  A failed read of its workload or pods skips it.
SamplePolicy(p) ==
    /\ smpPC = "policy" /\ p \in todo
    /\ todo' = todo \ {p}
    /\ \/ /\ Chance("faults")
          /\ UNCHANGED <<store, smpPC, live, sending, ghostVars>>
       \/ /\ File(p)
          /\ IF \E k \in live' \cap Targets[p] :
                    /\ pods[k].exists /\ usage[k] # None
                    /\ Covered(store'[k], Det[p].window, passNow)
             THEN smpPC' = "send" /\ sending' = p
             ELSE UNCHANGED <<smpPC, sending>>
          /\ UNCHANGED budget
    /\ UNCHANGED <<now, pods, ticked, usage, passNow, events, queue, alarm>>

\* Variant: the send does not wait.
SendEventAnyway ==
    /\ smpPC = "send"
    /\ events' = Append(events, sending)
    /\ smpPC' = "policy"
    /\ sending' = None
    /\ UNCHANGED <<now, pods, store, ticked, usage, passNow, todo, live,
                   queue, alarm, budget, ghostVars>>

\* The send blocks while the channel is full.
SendEvent ==
    /\ smpPC = "send"
    /\ Len(events) < ChanCap
    /\ events' = Append(events, sending)
    /\ smpPC' = "policy"
    /\ sending' = None
    /\ UNCHANGED <<now, pods, store, ticked, usage, passNow, todo, live,
                   queue, alarm, budget, ghostVars>>

ResetPass ==
    /\ smpPC' = "idle" /\ passNow' = 0 /\ todo' = {} /\ live' = {}
    /\ sending' = None /\ usage' = [k \in Keys |-> None]

\* Evict the series that this pass has not fed.
EndPass ==
    /\ smpPC = "policy" /\ todo = {}
    /\ store' = Prune(store, live)
    /\ since' = [k \in Keys |-> IF k \in live THEN since[k] ELSE None]
    /\ ResetPass
    /\ UNCHANGED <<now, pods, ticked, events, queue, alarm, budget, seen, low>>

Sampler ==
    \/ StartPass
    \/ \E p \in Policies : SamplePolicy(p)
    \/ SendEvent
    \/ EndPass

-----------------------------------------------------------------------------
\* The reconciler, as far as it reads the store.

\* The channel's event reaches the workqueue.
Deliver ==
    /\ events # <<>>
    /\ queue' = queue \cup {Head(events)}
    /\ events' = Tail(events)
    /\ UNCHANGED <<now, pods, store, ticked, smpVars, alarm, budget, ghostVars>>

\* Look for a leak among the pods that are Ready, of the current revision and
\* old enough; the first found is reported.
Scan(p) ==
    /\ p \in queue
    /\ queue' = queue \ {p}
    /\ \E ready \in SUBSET {k \in Targets[p] :
                                /\ pods[k].exists
                                /\ now >= pods[k].start + StartupGrace} :
        LET leaking == {k \in ready : Detect(Samples(store[k]), Det[p], now)}
        IN  \/ /\ leaking = {}
               /\ alarm' = None
            \/ \E k \in leaking :
                 alarm' = [policy |-> p, key |-> k, at |-> now]
    /\ UNCHANGED <<now, pods, store, ticked, smpVars, events, budget, ghostVars>>

\* A watch event or an earlier requeue.
Requeue(p) ==
    /\ p \notin queue
    /\ queue' = queue \cup {p}
    /\ UNCHANGED <<now, pods, store, ticked, smpVars, events, alarm, budget,
                   ghostVars>>

-----------------------------------------------------------------------------
\* The cluster.

ChangePod(k, pod) ==
    /\ pods' = [pods EXCEPT ![k] = pod]
    /\ UNCHANGED <<now, store, ticked, smpVars, events, queue, alarm, ghostVars>>

\* The kubelet restarts a container in place, e.g. after an OOM kill.
RestartContainer(k) ==
    /\ pods[k].exists
    /\ Chance("restarts")
    /\ ChangePod(k, [pods[k] EXCEPT !.life = @ + 1, !.restarts = @ + 1,
                                !.changed = now])

DeletePod(k) ==
    /\ pods[k].exists
    /\ Chance("replaces")
    /\ ChangePod(k, [pods[k] EXCEPT !.exists = FALSE, !.changed = now])

\* A StatefulSet gives the new pod the name of the old one.
CreatePod(k) ==
    /\ k \in StableNames /\ ~pods[k].exists
    /\ ChangePod(k, [exists |-> TRUE, life |-> pods[k].life + 1,
                     restarts |-> 0, start |-> now, changed |-> now])
    /\ UNCHANGED budget

\* The ticker drops a tick nobody waits for.
Tick ==
    /\ now < MaxTime
    /\ Prompt => smpPC = "idle" /\ ~ticked
    /\ now' = now + 1
    /\ ticked' = (ticked \/ (now + 1) % SampleEvery = 0)
    /\ UNCHANGED <<pods, store, smpVars, events, queue, alarm, budget, ghostVars>>

\* A new leader starts with an empty store.
Failover ==
    /\ Chance("crashes")
    /\ store' = EmptyStore
    /\ since' = EmptyStore
    /\ ticked' = TRUE
    /\ ResetPass
    /\ events' = <<>>
    /\ queue' = Policies
    /\ alarm' = None
    /\ UNCHANGED <<now, pods, seen, low>>

Step ==
    \/ Sampler
    \/ Deliver
    \/ \E p \in Policies : Scan(p) \/ Requeue(p)
    \/ \E k \in Keys : RestartContainer(k) \/ DeletePod(k) \/ CreatePod(k)
    \/ Tick
    \/ Failover

Next == Step /\ UNCHANGED source

Spec == Init /\ [][Next]_vars

-----------------------------------------------------------------------------

\* A sequence of samples that the sampler may have filed by time t: bounded by
\* the cap and by the retention, and in order.
Sane(s, t) ==
    /\ s \in Seq({s[i] : i \in DOMAIN s})
    /\ Len(s) \in 1 .. maxLen
    /\ \A i \in DOMAIN s : s[i].time \in Nat
    /\ \A i, j \in DOMAIN s : i < j => s[i].time <= s[j].time
    /\ s[Len(s)].time <= t
    /\ s[Len(s)].time <= s[1].time + retention

\* The time no sample is ahead of: that of the pass in progress, if any.
Horizon == IF smpPC = "idle" THEN now ELSE passNow

\* What is known of a key: its series is sane, no older than the first sample
\* ever taken, and still holds the last sample under a policy's threshold, or
\* begins after it.
KeyInv(k) ==
    /\ seen[k] \in Nat \cup {None}
    /\ seen[k] \in Nat => seen[k] <= Horizon
    /\ \A p \in Policies : low[p][k] \in Nat => low[p][k] <= Horizon
    /\ store[k] # None =>
        LET s == store[k].samples
        IN  /\ Sane(s, Horizon)
            /\ seen[k] \in Nat /\ seen[k] <= s[1].time
            /\ \A p \in Policies : low[p][k] \in Nat =>
                \/ low[p][k] <= s[1].time
                \/ \E i \in DOMAIN s : /\ s[i].time = low[p][k]
                                       /\ ~exceeds(s[i], Det[p])

\* The inductive invariant behind SeriesSane and AlarmIsSustained.
SamplesInv ==
    /\ now \in Nat /\ passNow \in Nat
    /\ Horizon <= now
    /\ store = [k \in Keys |-> store[k]]
    /\ seen = [k \in Keys |-> seen[k]]
    /\ low = [p \in Policies |-> [k \in Keys |-> low[p][k]]]
    /\ \A k \in Keys : KeyInv(k)

\* A series stays what Detect assumes: ordered by time, bounded by the cap and
\* by the retention, and never ahead of the clock, although passes are late,
\* containers restart and reads fail.
SeriesSane ==
    \A k \in Keys : store[k] # None =>
        LET s == store[k].samples
        IN  /\ Len(s) \in 1 .. maxLen
            /\ \A i, j \in DOMAIN s : i < j => s[i].time <= s[j].time
            /\ s[Len(s)].time <= now
            /\ s[Len(s)].time <= s[1].time + retention

\* A restart of the container cuts its series: every sample later than the
\* oldest was taken in the life the series is filed under, once the backend no
\* longer reports values from before the restart.  (The pass that filed the
\* oldest may have measured just before the restart that it then saw; a pod
\* replaced under its name starts with restart count 0 and is excepted.)
OldValue(k, t) == source # "metrics-server" /\ t < pods[k].changed + Lookback

OnlyFirstStale ==
    \A k \in Keys : store[k] # None /\ pods[k].life = pods[k].restarts =>
        LET s == store[k].samples
        IN  \A i \in DOMAIN s : s[1].time < s[i].time =>
                s[i].life = store[k].lastRestarts \/ OldValue(k, s[i].time)

\* A leak reported for a sustained (or combined) policy rests on a full window:
\* the container was first sampled at least a window ago, and none of the
\* samples filed in the window was under the threshold, across evictions,
\* restarts and changes of leader.
AlarmIsSustained ==
    [][alarm' \notin {alarm, None} /\ Det[alarm'.policy].mode # "trend" =>
        LET begin == now - Det[alarm'.policy].window
        IN  /\ seen[alarm'.key] <= begin
            /\ low[alarm'.policy][alarm'.key] \in Nat =>
                    low[alarm'.policy][alarm'.key] <= begin]_vars

\* Trimming never undoes the warm-up: a container sampled without interruption
\* for its detection window is covered, so its policy is enqueued.
WarmsUp ==
    \A p \in Policies : \A k \in Targets[p] : store[k] # None =>
        LET last == store[k].samples[Len(store[k].samples)].time
        IN  since[k] + Det[p].window <= last =>
                Covered(store[k], Det[p].window, last)
=============================================================================
