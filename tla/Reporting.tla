------------------------------ MODULE Reporting ------------------------------
(***************************************************************************)
(* What the reconcile worker does once a leak was found, as the outside    *)
(* world sees it: profile capture, restart, and the notifications of       *)
(* internal/notify (reconciler.go:251-455, notify.go, routes.go,           *)
(* profile/capture.go, buildNotifier in cmd/main.go).                      *)
(*                                                                         *)
(* The worker captures and delivers itself, one call after the other.  An  *)
(* endpoint answers, fails, or stays silent until the call's deadline.     *)
(* The gate, conflicting writes, the settling of rollouts and recreated    *)
(* workloads are the business of Controller: here nothing else writes a    *)
(* status and the template stays the same.                                 *)
(***************************************************************************)
EXTENDS PolicyStatus, SequencesExt

CONSTANTS
    RouteNames,   \* names a route may have or a policy may mention
    Setups,       \* the controller configurations
    Settings,     \* the settings a policy may have
    Closed,       \* times outside the maintenance windows
    MaxLeaks,     \* bound: leaks found
    MaxCrashes,   \* bound: failovers
    MaxTime       \* bound: the last time

\* A policy mentions routes by name, and no name is empty.
ASSUME ReportingAssumption ==
    /\ None \notin RouteNames
    /\ \A policy \in Settings : policy.routes \in Seq(RouteNames)

VARIABLES
    now,            \* the wall clock
    setup,          \* the controller's flags, environment and routes file
    settings,       \* the policy of each workload
    status,         \* its stored status
    lastProfile,    \* status.lastProfile, as the time it gives
    wouldRestart,   \* lastWouldRestart: the leader's dry-run throttle
    pc,             \* the worker: idle, capture, record, trigger or deliver
    job,            \* the leak it acts on: workload, time, profile captured
    targets,        \* the sinks it has still to try, by position
    leader, leaks,  \* how many leaders and leaks there have been
    recorded,       \* ghost: the restarts written to a status
    triggered,      \* ghost: the restarts that reached the cluster
    reports         \* ghost: the notifications, in order: the event, the
                    \* sinks tried so far, whether a crash cut it off

configVars == <<setup, settings>>
vars == <<now, configVars, status, lastProfile, wouldRestart, pc, job, targets,
          leader, leaks, recorded, triggered, reports>>

-----------------------------------------------------------------------------
\* Sinks and routes.

SinkKinds == {"bot", "slack", "webhook", "datadog"}
Sink == [kind : SinkKinds, route : RouteNames \cup {None}]
Default(kind) == [kind |-> kind, route |-> None]

\* The type of a route entry; None is an error.
RouteKind(entry) ==
    CASE entry.type \in {"", "auto"} -> IF entry.slackHost THEN "slack"
                                        ELSE "webhook"
      [] entry.type = "webhook" -> "webhook"
      [] entry.type \in {"slack-webhook", "slack"} -> "slack"
      [] OTHER -> None

\* Every entry is named, no name comes twice, every type is known.
BuildsRoutes(entries) ==
    /\ \A i \in DOMAIN entries :
          entries[i].name # None /\ RouteKind(entries[i]) # None
    /\ \A i, j \in DOMAIN entries : entries[i].name = entries[j].name => i = j

\* The registry: route names to sinks.
BuildRoutes(entries) ==
    [name \in {entries[i].name : i \in DOMAIN entries} |->
        LET i == CHOOSE k \in DOMAIN entries : entries[k].name = name
        IN  [kind |-> RouteKind(entries[i]), route |-> name]]

\* Slack by bot token or else by webhook, then webhook, then Datadog.
defaultSinks(env) ==
    (IF env.botToken THEN <<Default("bot")>>
     ELSE IF env.slackURL THEN <<Default("slack")>> ELSE <<>>)
    \o (IF env.webhookURL THEN <<Default("webhook")>> ELSE <<>>)
    \o (IF env.datadog THEN <<Default("datadog")>> ELSE <<>>)

\* The controller refuses to start on a malformed routes file; without sinks
\* and routes there is no notifier.
Starts(cfg) == BuildsRoutes(cfg.routesFile)
Notifies(cfg) == defaultSinks(cfg.env) # <<>> \/ cfg.routesFile # <<>>

KnownRoute(name) == name \in DOMAIN BuildRoutes(setup.routesFile)

\* Replace with fallback: the known routes of the policy win, else a channel
\* override targets the bot, else the default sinks.  Targets are sinks by
\* position; there are gaps where a name is unknown.
resolveTargets(w) ==
    LET names == settings[w].routes
        known == {i \in DOMAIN names : KnownRoute(names[i])}
    IN  IF known # {}
        THEN [i \in known |-> BuildRoutes(setup.routesFile)[names[i]]]
        ELSE IF settings[w].channel /\ setup.env.botToken
        THEN <<Default("bot")>>
        ELSE defaultSinks(setup.env)

\* A bot has nowhere to post without the policy's or a default channel.
Sendable(w, sink) ==
    sink.kind = "bot" => settings[w].channel \/ setup.env.botChannel

-----------------------------------------------------------------------------

EventTypes == {"RestartTriggered", "CircuitBreakerTripped", "RestartDeferred"}

Init ==
    /\ now = 0
    /\ setup \in {cfg \in Setups : Starts(cfg)}
    /\ settings \in [Workloads -> Settings]
    /\ status = [w \in Workloads |-> [InitStatus EXCEPT !.uid = 1]]
    /\ lastProfile = [w \in Workloads |-> None]
    /\ wouldRestart = [w \in Workloads |-> None]
    /\ pc = "idle" /\ job = None /\ targets = <<>>
    /\ leader = 1 /\ leaks = 0
    /\ recorded = {} /\ triggered = {} /\ reports = <<>>

Version1 == 1     \* the template version; it never moves here

Return == pc' = "idle" /\ job' = None /\ targets' = <<>>

\* Notifier.Notify, up to the first call: disabled types are dropped.
Notify(type, w, at) ==
    LET sinks == resolveTargets(w)
    IN  IF Notifies(setup) /\ type \in setup.events /\ sinks # <<>>
        THEN /\ pc' = "deliver"
             /\ job' = [workload |-> w, at |-> at, profile |-> FALSE]
             /\ targets' = sinks
             /\ reports' = Append(reports,
                    [event |-> [type |-> type, workload |-> w, at |-> at,
                                leader |-> leader],
                     tried |-> <<>>, cut |-> FALSE])
        ELSE /\ Return
             /\ UNCHANGED reports

\* Captures need a capturer; the policy may opt out.
Captures(w) == setup.capturer /\ settings[w].profileCapture # FALSE

\* Variant: the throttle is read but never set.
DryRunUnthrottled(w) ==
    /\ \/ /\ wouldRestart[w] # None /\ now < wouldRestart[w] + Cooldown
          /\ Return
          /\ UNCHANGED reports
       \/ /\ ~(wouldRestart[w] # None /\ now < wouldRestart[w] + Cooldown)
          /\ Notify("RestartTriggered", w, now)
    /\ UNCHANGED wouldRestart

\* A dry run announces at most one restart per cooldown and leader.
DryRun(w) ==
    \/ /\ wouldRestart[w] # None /\ now < wouldRestart[w] + Cooldown
       /\ Return
       /\ UNCHANGED <<reports, wouldRestart>>
    \/ /\ ~(wouldRestart[w] # None /\ now < wouldRestart[w] + Cooldown)
       /\ wouldRestart' = [wouldRestart EXCEPT ![w] = now]
       /\ Notify("RestartTriggered", w, now)

\* A leak of w was found at `now`: it is skipped, announced as tripped or
\* deferred, or acted on.
Leak(w) ==
    /\ pc = "idle"
    /\ leaks < MaxLeaks
    /\ leaks' = leaks + 1
    /\ LET cooling == InCooldown(status[w], now)
           tripped == BreakerTripped(status[w], Version1, now)
       IN  \/ /\ cooling
              /\ Return
              /\ UNCHANGED <<reports, wouldRestart>>
           \/ /\ ~cooling /\ tripped
              /\ Notify("CircuitBreakerTripped", w, now)
              /\ UNCHANGED wouldRestart
           \/ /\ ~cooling /\ ~tripped /\ now \in Closed
              /\ Notify("RestartDeferred", w, now)
              /\ UNCHANGED wouldRestart
           \/ /\ ~cooling /\ ~tripped /\ now \notin Closed
              /\ settings[w].dryRun
              /\ DryRun(w)
           \/ /\ ~cooling /\ ~tripped /\ now \notin Closed
              /\ ~settings[w].dryRun
              /\ pc' = IF Captures(w) THEN "capture" ELSE "record"
              /\ job' = [workload |-> w, at |-> now, profile |-> FALSE]
              /\ UNCHANGED <<targets, reports, wouldRestart>>
    /\ UNCHANGED <<now, configVars, status, lastProfile, leader, recorded,
                   triggered>>

\* Variant: deliveries have no deadline.
CapturesTimeBoxed == {"capture"}

\* The calls to endpoints outside the cluster, each under a deadline.
TimeBoxed == {"capture", "deliver"}

\* The capture ends; a failure is not fatal.
Captured(ok) ==
    /\ pc = "capture"
    /\ pc' = "record"
    /\ job' = [job EXCEPT !.profile = ok]
    /\ UNCHANGED <<now, configVars, status, lastProfile, wouldRestart, targets,
                   leader, leaks, recorded, triggered, reports>>

\* The targets after the first of them.
First == Min(DOMAIN targets)
Rest == Restrict(targets, DOMAIN targets \ {First})

\* Variant: the first failure ends the delivery.
DeliverUntilFailure(ok) ==
    /\ pc = "deliver"
    /\ ok => Sendable(job.workload, targets[First])
    /\ reports' = [reports EXCEPT ![Len(reports)].tried =
                      Append(@, targets[First])]
    /\ IF DOMAIN Rest = {} \/ ~ok THEN Return
       ELSE /\ targets' = Rest
            /\ UNCHANGED <<pc, job>>
    /\ UNCHANGED <<now, configVars, status, lastProfile, wouldRestart, leader,
                   leaks, recorded, triggered>>

\* One delivery ends and the next begins, whatever came of it.
Deliver(ok) ==
    /\ pc = "deliver"
    /\ ok => Sendable(job.workload, targets[First])
    /\ reports' = [reports EXCEPT ![Len(reports)].tried =
                      Append(@, targets[First])]
    /\ IF DOMAIN Rest = {} THEN Return
       ELSE /\ targets' = Rest
            /\ UNCHANGED <<pc, job>>
    /\ UNCHANGED <<now, configVars, status, lastProfile, wouldRestart, leader,
                   leaks, recorded, triggered>>

\* The endpoint answers, or the call fails at once.
Answer == \E ok \in BOOLEAN : Captured(ok) \/ Deliver(ok)

\* The endpoint is silent until the deadline.
Expire ==
    /\ pc \in TimeBoxed
    /\ Captured(FALSE) \/ Deliver(FALSE)

\* An API call: it fails before or after the server acted, or succeeds.
Call(acted, err) == acted \/ err

OurRestart == [workload |-> job.workload, at |-> job.at]

\* The restart and the link to its profile enter the status together.
Record ==
    /\ pc = "record"
    /\ \E acted, err \in BOOLEAN :
        /\ Call(acted, err)
        /\ IF acted
           THEN LET w == job.workload
                    st == ApplyRestart(status[w], Version1, job.at)
                IN  /\ status' = [status EXCEPT ![w] =
                                    RecomputeObservability(st, job.at)]
                    /\ lastProfile' = [lastProfile EXCEPT ![w] =
                                        IF job.profile THEN job.at ELSE @]
                    /\ recorded' = recorded \cup {OurRestart}
           ELSE UNCHANGED <<status, lastProfile, recorded>>
        /\ IF err THEN Return
           ELSE /\ pc' = "trigger"
                /\ UNCHANGED <<job, targets>>
    /\ UNCHANGED <<now, configVars, wouldRestart, leader, leaks, triggered,
                   reports>>

\* Variant: the restart is announced whether or not it was triggered.
TriggerAnnounced ==
    /\ pc = "trigger"
    /\ \E acted, err \in BOOLEAN :
        /\ Call(acted, err)
        /\ triggered' = IF acted THEN triggered \cup {OurRestart} ELSE triggered
        /\ Notify("RestartTriggered", job.workload, job.at)
    /\ UNCHANGED <<now, configVars, status, lastProfile, wouldRestart, leader,
                   leaks, recorded>>

\* A restart that is triggered, and known to be, is announced.
Trigger ==
    /\ pc = "trigger"
    /\ \E acted, err \in BOOLEAN :
        /\ Call(acted, err)
        /\ triggered' = IF acted THEN triggered \cup {OurRestart} ELSE triggered
        /\ IF err
           THEN Return /\ UNCHANGED reports
           ELSE Notify("RestartTriggered", job.workload, job.at)
    /\ UNCHANGED <<now, configVars, status, lastProfile, wouldRestart, leader,
                   leaks, recorded>>

Tick ==
    /\ now < MaxTime
    /\ now' = now + 1
    /\ UNCHANGED <<configVars, status, lastProfile, wouldRestart, pc, job,
                   targets, leader, leaks, recorded, triggered, reports>>

\* The leader dies; the next one has an empty throttle and knows nothing of
\* the deliveries that were still to be made.
Failover ==
    /\ leader <= MaxCrashes
    /\ leader' = leader + 1
    /\ wouldRestart' = [w \in Workloads |-> None]
    /\ Return
    /\ reports' = IF pc = "deliver"
                  THEN [reports EXCEPT ![Len(reports)].cut = TRUE] ELSE reports
    /\ UNCHANGED <<now, configVars, status, lastProfile, leaks, recorded,
                   triggered>>

Next ==
    \/ \E w \in Workloads : Leak(w)
    \/ Answer \/ Expire \/ Record \/ Trigger
    \/ Tick \/ Failover

Spec == Init /\ [][Next]_vars

\* Timers fire and the API server answers; endpoints owe nobody an answer.
FairSpec == Spec /\ WF_vars(Expire) /\ WF_vars(Record) /\ WF_vars(Trigger)

-----------------------------------------------------------------------------

\* What the outside world is told happened: a restart that is announced as
\* triggered was recorded and did reach the cluster, unless the policy is a
\* dry run, which records and restarts nothing; and the profile a status links
\* to was taken for a restart that status recorded (reconciler.go:305-352).
ToldIsTrue ==
    /\ \A i \in DOMAIN reports :
        LET e == reports[i].event
        IN  e.type = "RestartTriggered" /\ ~settings[e.workload].dryRun =>
              [workload |-> e.workload, at |-> e.at] \in recorded \cap triggered
    /\ \A r \in recorded \cup triggered : ~settings[r.workload].dryRun
    /\ \A w \in Workloads : lastProfile[w] # None =>
          [workload |-> w, at |-> lastProfile[w]] \in recorded

\* A workload's restarts are announced at most once per cooldown, whatever
\* fails in between; in dry-run mode by each leader (reconciler.go:312-324).
NoticesSpaced ==
    \A i, j \in DOMAIN reports :
        LET e == reports[i].event
            f == reports[j].event
        IN  /\ i < j /\ e.workload = f.workload
            /\ e.type = "RestartTriggered" /\ f.type = "RestartTriggered"
            /\ settings[e.workload].dryRun => e.leader = f.leader
            => f.at >= e.at + Cooldown

\* How often a policy addresses a sink (docs/notifications.md,
\* "replace-with-fallback").
Addressed(w, sink) ==
    LET names == settings[w].routes
        entries == setup.routesFile
        registered == {i \in DOMAIN names : \E k \in DOMAIN entries :
                                                entries[k].name = names[i]}
        isDefault == \E i \in DOMAIN defaultSinks(setup.env) :
                        defaultSinks(setup.env)[i] = sink
    IN  IF registered # {}
        THEN Cardinality({i \in registered : sink.route = names[i]})
        ELSE IF /\ isDefault
                /\ settings[w].channel /\ setup.env.botToken => sink.kind = "bot"
        THEN 1 ELSE 0

\* A notification is tried at every sink its policy addresses, as often as it
\* is addressed and nowhere else, whichever sinks fail or hang; only a leader
\* that dies stops half-way (notify.go:118-165).
AllSinksTried ==
    \A i \in DOMAIN reports : \A sink \in Sink :
        LET r == reports[i]
            tries == Cardinality({k \in DOMAIN r.tried :
                        /\ r.tried[k].route = sink.route
                        /\ sink.route = None => r.tried[k].kind = sink.kind})
            underWay == r.cut \/ (pc = "deliver" /\ i = Len(reports))
        IN  /\ tries <= Addressed(r.event.workload, sink)
            /\ ~underWay => tries = Addressed(r.event.workload, sink)

\* A silent endpoint does not keep the worker from the next reconcile
\* (docs/notifications.md: "time-boxed; failures never block remediation").
WorkerReturns == pc # "idle" ~> pc = "idle"
=============================================================================
