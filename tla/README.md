# A verification project for memory-leak-reloader

TLA+ models of the controller in `src/`, TLC runs that check them on small
instances, and TLAPS proofs of most safety properties for every instance.
Module, run and property names below are those of the `.tla` and `.cfg` files;
`PROJECT.json` maps every definition to the source lines it models.

## 1. The system

memory-leak-reloader is a leader-elected Kubernetes controller. A user creates a
`MemoryLeakPolicy` for a workload (Deployment, StatefulSet or Argo Rollout). The
leader samples the memory of the workload's containers, and when a container
leaks it restarts the workload's rollout, at most as often as a cooldown, a
circuit breaker, maintenance windows and a global concurrency cap allow. All
durable state is in the policy's `status`.

| Component | State | Operations | Talks to | What makes it correct |
|---|---|---|---|---|
| Reconciler `internal/controller/reconciler.go` | one reconcile in progress (local copies of policy and workload, `now`), `lastWouldRestart` | one pass: finalizer, mode, adopt, settle, scan, gates, guard, record, dispatch | API server through caches, gate, status functions, sample store | no double restart, no restart outside the gates, every recorded rollout is resolved |
| Policy status `internal/restart/breaker.go` | breaker window and count, cooldown, in-flight marker, bounded history, condition, printer columns | `ApplyRestart`, `CompleteInFlight`, `AdoptWorkload`, `RecomputeObservability`, `BreakerTripped`, `InCooldown` | pure | marker and history agree; the count never exceeds the maximum |
| Status store and expirer `internal/restart/store.go`, `cmd/expirer.go` | the list of a sweep, the keys to release | `Persist` with a conflict retry, `SweepInFlight`, expiry of slots | API server through caches, gate | stuck rollouts are closed; nothing newer is overwritten or released |
| Gate `internal/gate/gate.go` | slots: workload key to time | `TryAcquire`, `Release`, `Holds`, `ExpireOlderThan` | reconciler and expirer, under a mutex | cap, no stranded slot |
| Workload `internal/restart/restart.go` | (reads the cluster) | resolve, template version, settle check, dispatch patch | API server | a restart is not stacked on a rollout |
| Sampler `internal/controller/sampler.go` | a pass: measurements, live set | list, measure, observe, enqueue, prune | datasource, API server, sample store, event channel | no gaps or evictions that blind detection |
| Sample store `internal/sampling/buffer.go` | a bounded series per container | `Observe`, `WindowCovered`, `Samples`, `Prune` | sampler writes, reconciler reads | ordered, bounded, cut at a container restart |
| Detectors `internal/sampling/detect.go` | none | sustained, trend, combined | pure | a leak needs a full window of evidence |
| Maintenance windows `internal/maintenance/window.go` | none | parse, `IsAllowed`, `NextOpening` | called by the reconciler | restarts inside declared windows only, deferred ones not lost |
| Configuration and selection `internal/config`, `internal/controller/selection.go` | none | overlay, choice of containers | sampler and reconciler | watches what the policy says |
| Leader election and wiring `cmd/main.go` | who leads; derived limits | start, failover | all | memory is rebuilt from the status |
| Datasources `internal/datasource` | none | `ListUsage` of metrics-server, Prometheus and Datadog | sampler, backends | one failed answer fails the pass; nothing foreign or missing becomes a sample |
| Notifications `internal/notify` | route registry, enabled events | `BuildRoutes`, `Notify`, `resolveTargets` | reconciler, endpoints | what is announced happened; every addressed sink is tried; the worker comes back |
| Profile capture `internal/profile` | none | `Capture` under a deadline | reconciler, pods, object store | never fatal; the link in the status belongs to a recorded restart |
| Metrics, logging, clock | none that a decision reads | I/O | all | (not modelled) |

What is hard here: two goroutines (reconciler, expirer) share the gate and the
policy status without a common lock; both read through informer caches that lag
behind their own writes; every API call may fail, or fail after it took effect;
users, other deployers and workload controllers act between any two calls; the
leader may die at any point, and its gate and samples with it; several limits
(breaker, history, samples per series, event channel) are reached only after
long runs. The list `hazards` in `PROJECT.json` has each of these at its line
with the properties that would catch it.

## 2. The modules

    Basics            times, absent values, workload keys
    PolicyStatus      breaker.go: the status record and its functions
    Gate              gate.go
    Workload          restart.go, TemplateVersion: workload objects
    Controller        the leader: reconciler + expirer + gate + API server +
                      caches + users + workload controllers + failover
                      (extends PolicyStatus, Gate, Workload)
    ControllerProperties  its invariants, action properties, fairness, liveness
    RestartProtocol   the abstract specification: what the controller promises
                      about the restarts of one policy
    ControllerRefines the refinement mapping from Controller to RestartProtocol
    MCController      instances for TLC
    LeakDetector      detect.go;  MCLeakDetector: checks against references
    SampleStore       buffer.go and the limits main.go derives
    Datasource        what each source makes of a backend's answer
    Sampling          sampler + datasource + store + channel + the reconciler's
                      scan (extends LeakDetector, SampleStore, Datasource);
                      MCSampling
    Maintenance       window.go and the deferral in Reconcile;  MCMaintenance
    Selection         config.go, selection.go, the walk over the pods
                      (extends LeakDetector);  MCSelection
    Reporting         captures and notifications around a restart: notify.go,
                      routes.go, capture.go, buildNotifier (extends
                      PolicyStatus);  MCReporting
    ControllerProofs  lemmas on the functions of PolicyStatus and Gate; the
                      inductive invariant of Controller and its theorems;
                      the order of UIDs, slots and their policies, the mode of a
                      restart
    ProtocolProofs    the restart protocol keeps cooldown and count
    SafetyProofs      Controller implements it, so it keeps them too; records that
                      say Superseded; a calm cluster: no stacked restart, records
                      that say Settled
    SamplingProofs    the inductive invariants of Sampling and their theorems
    ReportingProofs   announcements are true, a cooldown apart and complete
    DetectorProofs    sums; the regression, evidence and trimming of a series
    MaintenanceProofs lemmas on days, windows and openings; deferral
    SelectionProofs   the choice of containers, warnings and overrides

### Controller

State of the program: `gate`, `wouldRestart`, `queue` (the workqueue), the
reconcile in progress (`recPC`, `recKey`, `recPol`, `recWl`, `recNow` are the
locals of `Reconcile`), the expirer's pass (`expPC`, `expNow`, `expList`,
`expTodo`, `expKeys`). State of the cluster: `policies`, `workloads`, their
caches, which policy names which workload (`policyRef`), the watches that are
behind (`stalled`: the cached object stays as it is until `SyncPolicy` or
`SyncWorkload`) and a patch that a former leader is still sending (`delayed`).
Ghosts, which no action reads: `dispatches` (restarts that reached the cluster),
`ours` (our unfinished rollout of a workload) and `overwritten` (the bookkeeping
does not cover all restarts: a conflict retry replaced it by an older copy, or
the policy was recreated with a patch still on its way).

An action is the code from one API call up to the next, so anything may happen
between two calls; gate operations in between run under the gate's mutex and no
other goroutine can see a difference. `GetPolicy`, `Finalize`, `AddFinalizer`,
`PersistMode`, `GetWorkload`, `PersistAdopt`, `Settle`, `PersistDone`, `Detect`,
`Guard`, `DryRun`, `PersistRestart` and `Dispatch` follow `Reconcile` from top to
bottom; `ExpireSlots`, `ListPolicies`, `SweepPolicy`, `ReleaseKey` follow the
expirer. `Persist` is the status write with its conflict retry: it succeeds if
the caller's or the cached resource version is current, and on the retry path
writes the caller's whole status. A fault is a call that fails with or without
effect.

Abstractions, each chosen so that the model has at least the behaviours of the
code: requeue delays are zero; a failed list ends a pass as if it had not
started; a cache jumps to the latest object; the retry's read and write are one
step (a second conflict is a fault); a workload's generation and counters are
three rollout states; the version of a template is the number of its deployment,
with `None` for a Rollout that has no pod hash yet, and the constant `Fingerprint`
says which deployments the code cannot tell apart, so that a rollback is a later
deployment with an earlier fingerprint (`SameVersion`; the order of the numbers is
used by properties only); whether a pod leaks, and whether maintenance allows it
(`Closed`), come from outside, since `Sampling`, `Selection` and `Maintenance`
model those. Of a leader that dies, only the restart patch may land late
(`LateDispatch`); a late status write is not modelled. A new leader starts with caches that have
synced. Captures and notifications, which nothing in the pipeline reads, are in
`Reporting`.

### RestartProtocol

The abstract specification has no queue, caches, API calls, gate or expirer. Per
policy it has a durable `book` (UID, cooldown and breaker fields of the status),
the booked restarts in the hands of the leader or of a former leader (`pending`)
and the restarts that reached the cluster (`sent`). `Record` books a restart that
cooldown and breaker allow, *before* `Send`; a booked restart is sent at most
once, or lost (`Drop`), or left on the wire by a dying leader (`HandOver`); a
newer workload object starts a fresh book (`Adopt`), a deleted policy leaves
nothing behind (`Renew`). A policy in `lapsed` has no promise: its status was
overwritten by an older copy, or it was recreated under a pending restart.

`ControllerRefines` maps the stored status to `book`, a reconcile between
`PersistRestart` and `Dispatch` to the leader's pending restart, `delayed` to the
former leader's, `dispatches` to `sent`, `overwritten` to `lapsed`. `KeepsProtocol`
says that every step of `Controller` is then a protocol step or a stutter.

### Sampling, Datasource, LeakDetector, SampleStore

A pass measures (`StartPass`), files each policy's containers (`SamplePolicy`),
sends the event (`SendEvent`, which blocks on a full channel) and prunes
(`EndPass`). `source` is the `--datasource` flag. `Answers` is what a backend may
send: an error, or the series it has for each container (`Reports`; those of other
containers are under `None`): none or, in Prometheus, two, a point without a number,
a value of the previous instance for up to `Lookback` after a restart
(metrics-server reports current values only). Series of different containers never
meet in the code's map, so their order among each other is left out. `Datasource`
has what the three clients make of it, from `ListUsage` to the map the sampler
joins by container. `life` tags a sample with
the container instance it was measured in; `since`, `seen`, `low` are ghosts. The
detectors work on the indices of the samples in the window. The regression is
done in integers (float rounding is out), and the scan reads pods and store in
one step.

### Maintenance

Windows as written, parsed, evaluated, and a reconcile that keeps finding a leak.
A zone is a fixed offset, or does not resolve; daylight saving is out. With a
window that does not parse (`Parses`) the policy's whole set is refused and the
controller's windows apply, as in `reconciler.go:263-271`. A policy's windows are
those the schema admits (`SchemaValid`: some day, start before end,
`memoryleakpolicy_types.go:88-94`), so only their zones can fail to parse; a window
of the `--maintenance-window` flag that does not parse stops the program at startup.

### Selection

The overlay of override on policy on default, the choice of containers, and the
walk over the pods with the health, owner and revision gates. Candidates are
positions in the pod, so that the first match and the tiebreak are the code's; what is
selected is a set, because any of the leaking containers of a pod may be the one
that is reported. The names of a pod's containers differ (`SelectionAssumption`),
which the API server checks.

### Reporting

The worker after a leak was found: `Leak` passes cooldown, breaker and window (or
announces `CircuitBreakerTripped` or `RestartDeferred`), then `Captured`, `Record`,
`Trigger` and one `Deliver` per sink. An endpoint answers (`Answer`) or stays silent
until the deadline (`Expire`). `setup` is the controller's configuration: the
environment variables from which `buildNotifier` derives the default sinks, the
routes file, the enabled events and whether captures are on; `settings` are the
policy's routes, channel, mode and capture switch. `Failover` empties the dry-run
throttle and cuts off a delivery. Slot, conflicting writes and recreation are left
to `Controller`.

## 3. The runs

Passing runs:

| Run | Bounds | Shows |
|---|---|---|
| `faults` | one StatefulSet; one fault, or two user edits; both modes; breaker maximum 2 and window 3, so the third restart is refused inside the window and made at its end; history limit 1 | `TypeOK`, `IInv`, `MarkerMatchesHistory`, `BreakerRespected`, `DispatchesCounted`, `CooldownRespected`, `SettledIsReal`, `NoStackedRestart` when any one call fails or loses its answer; `SlotHasPolicy`, `DispatchOnlyWhenEnforcing` when users delete, recreate, flip the mode or the update strategy |
| `failover` | one Argo Rollout without an observed generation; one crash (the patch may land late) and one external rollout, or an external rollout and its undo, or one deletion and recreation, or one fault and one disturbance; timeout 1 | `KeepsProtocol`: the status carries breaker and cooldown across leaders; `DispatchesCounted`, `SupersededIsReal`, also after a rollback to the recorded version |
| `pair` | two policies on two workloads or on the same one, cap 1, maintenance closed at time 1 | `CapRespected`, `RolloutHoldsSlot`, `NoStackedRestart` |
| `liveness` | one StatefulSet; one edit (delete or flip the policy, or switch the update strategy to `OnDelete` while the slot is held) and one fault, or one watch that falls behind; fair | `SlotReleased`, `MarkerCleared`, `DeletionCompletes`, `CooldownRespected` |
| `detector` | all series of up to 4 samples | the detectors equal their references |
| `sampling` | the three datasources; one container; passes delayed at will; a fault and a container restart, a fault and a crash, or a restart and a pod replaced under its name; retention 3, time 4; a policy window longer than the flag's | `SamplesInv`, `OnlyFirstStale`, `WarmsUp`, `SeriesSane`, `AlarmIsSustained` |
| `maintenance` | three units a day, 12 kinds of window, two zones and one that does not resolve, two weeks | `NextIsEarliest`, `ActsInsideDeclared`, `DeferredIsNotDropped` |
| `selection` | two containers and an init container in both orders, three fleets, all edits | `OrderIrrelevant`, `DroppedCannotTrip`, `WatchedOrWarned`, `OverrideIsLocal` |
| `reporting` | six configurations, five policies, four leaks, one failover, breaker maximum 1, window closed at time 2; every API call and endpoint may fail | `ToldIsTrue`, `NoticesSpaced`, `AllSinksTried`, `WorkerReturns` |

`Budgets` is the set of things the environment may do in a behaviour: a run
with two or three members checks each combination from its own initial states,
so one run covers, say, faults and edits without their product.

The bounds are small because the interesting cases are: one fault, one crash or
one foreign rollout is placed at every point of a restart, and a history limit of
one makes every further restart cut the history. In `faults`, `failover` and
`liveness` time runs beyond the cooldown, so that a second restart follows the
first; in `faults` and `reporting` it runs beyond the breaker window too, while in the
other runs no policy restarts anything after its first window. All workloads of a run are deployed with the fingerprints
`Undone`: the third deployment restores the first template. Each property
has a mutant, a plausible bug in a mapped definition (the operators marked
*Variant*), that breaks it under the same configuration. `Horizon` bounds the
time up to which leaks are found, so that in `liveness` the system comes to rest
before `MaxTime` for a reason other than the bound of the clock.

Violation runs show where the code does other than its comments or documents say
(`findings` has the quotes):

| Run | What happens |
|---|---|
| `cap_after_failover` | `Gate.Reconcile` is never called: a new leader may exceed the cap |
| `under_count` | a conflict retry writes an older status over a recorded restart |
| `long_window` | with the default flags a 15-minute window is never covered |

### Where the properties stop

The passing properties exclude cases in which the code does not keep them. Each
was found by dropping the exclusion; the counterexamples are short.

- *Late release* (`expirer.go:55`). `SweepInFlight` returns keys that the expirer
  releases after the whole sweep. A reconcile that closes the old rollout and
  dispatches the next one in between loses its fresh slot. `pair` uses a cooldown
  longer than its horizon, so no second restart meets a late release.
- *Late patch* (`reconciler.go:339`). The patch of a leader that died may land after
  the policy was switched to dry-run; `DispatchOnlyWhenEnforcing` is about the leader
  in office (the patch that leaves `delayed` unchanged).
- *No cooldown* (`breaker.go`, `BreakerTripped`). The cooldown may be configured as 0.
  A template changed and changed back within one instant then opens two breaker
  windows at the same time, and a restart of the first is in the second, which does
  not count it; `CountTheorem` assumes a positive cooldown.
- *Overwritten books* (`store.go:35`, run `under_count`). `DispatchesCounted`,
  `CooldownRespected`, `SettledIsReal` and `DispatchOnlyWhenEnforcing` except the
  policies in `overwritten`.
- *Stale settle* (`reconciler.go:179`). With a lagging watch the reconcile after a
  dispatch sees the workload from before the patch, finds it settled and releases
  the slot. `RolloutHoldsSlot` is checked with current caches; `liveness` has
  lagging watches and checks that the cooldown still holds.
- *Shared workload* (`reconciler.go:98`). Of two policies of one workload, the stale
  marker of one frees the slot under the other's rollout, so `RolloutHoldsSlot` is
  about workloads with one policy.
- *Unresolved marker* (`reconciler.go:179`). A rollout that settles while no leader
  holds its slot is not completed by `Reconcile`; it waits for the expirer.
- *Open record* (`reconciler.go:340`). A failed dispatch leaves marker and record;
  the next restart's marker replaces it, and the record stays `InProgress`.
- *Foreign rollout counted* (`reconciler.go:169`). After a failed dispatch, a
  disturbance of the unchanged template is resumed as ours and recorded as
  `Settled`; `faults` has no disturbance.
- *Stacked on an unchanged template* (`reconciler.go:296`). The dispatch-time guard
  compares template versions only, so a rollout of the same template that began
  after the settle check is not seen; `NoStackedRestart` is checked against the
  controller's own rollouts.
- *Undone in between* (`reconciler.go:184`, `:300`, `store.go:99`). The code compares
  the template at two moments. One that was changed and changed back between them is
  not noticed: the record says `Settled`, and the dispatch-time guard lets the restart
  pass. After an undo the recorded version is the current one again although the
  record says `Superseded`; `SupersededIsReal` therefore asks whether another template
  was deployed since, not which is deployed now.
- *Condition after adoption* (`breaker.go:206`). `AdoptWorkload` drops the marker
  but leaves `RolloutInProgress` True.
- *Mixed series* (`sampler.go:73`). Usage is read before the pods, so the first
  sample of a new series may be from before the restart, and with it those that
  other policies file in the same pass; hence the "later than the oldest" of
  `OnlyFirstStale`.
- *Old values* (`sampler.go:84`). Prometheus (staleness) and Datadog (last point of
  five minutes) report values from before a restart for a while, filed under the
  time of the pass; `OnlyFirstStale` excepts samples within `Lookback` of it.
- *Null points* (`datadog.go:136-141`). The comment says "most recent non-null
  value", but null decodes to 0 in a `[]float64`, so a missing point is a sample
  of 0 bytes. It delays a sustained alarm by a window (and is a sample "under the
  threshold" for `AlarmIsSustained`); in trend mode a null followed by real
  values rises like a leak.
- *Two policies, one container* (`sampler.go:121`, `main.go:241`). Each pass files
  the container once per policy. With the defaults the cap of 28 samples then
  spans 6.5 minutes and the 10-minute window is never covered. `WarmsUp` is
  checked with one policy.
- *Eviction* (`sampler.go:148`). A failed read of one policy's pods, or a container
  missing from one answer, lets the prune evict the series.
- *Unresolvable zone* (`reconciler.go:266`). One window that does not parse discards
  the policy's other windows too, and the controller's apply; without any, every
  time is allowed. `ActsInsideDeclared` says so.
- *Notices without a throttle* (`reconciler.go:259`, `:276`). A tripped breaker and
  a deferred restart are announced on every reconcile that finds the leak;
  `NoticesSpaced` is about `RestartTriggered`.
- *`lastNotification`* (`memoryleakpolicy_types.go:141`, "for failover-safe dedup")
  is set before the restart is sent, whether or not anything is notified, and is
  read by nobody: the throttle of a dry run starts afresh with each leader, so
  `NoticesSpaced` compares dry-run notices of one leader only.
- *Silent restart* (`reconciler.go:339-348`). A patch whose answer is lost restarts
  the workload and is never announced; `ToldIsTrue` is about the other direction.
- *`"*"` in a longer list* (`selection.go:72`) is looked up as a name.
- *No warning under the default selection* (`reconciler.go:222`). A pod none of
  whose containers has a limit selects nothing, so nothing is dropped and nobody
  is warned; `WatchedOrWarned` asks for a selected container.
- *Foreign pod* (`reconciler.go:217`). A pod of another workload that the selector
  matches is scanned like an own one; the first fleet of `selection` has one.

### Fairness

`FairSpec` assumes what the code's scheduling gives: the worker and the expirer
goroutine keep running (weak fairness of their next step), the FIFO workqueue
hands out every queued key (strong fairness of `GetPolicy`), the ticker fires,
informers catch up, the clock advances. Users and workload controllers owe
nothing: a rollout may be stuck for ever. In `Maintenance` the clock and the
delaying queue are fair. In `Reporting` the deadlines expire
(`context.WithTimeout`) and the API server answers or fails (`Record`, `Trigger`);
endpoints owe no answer.

## 4. The proofs

`ControllerProofs` proves, for all sets of policies and workloads, all bounds,
delays and budgets allowed by the named assumptions (`BasicsAssumption`,
`StatusAssumption`, `GateAssumption`, `WorkloadAssumption`,
`ControllerAssumption`):

| Theorem | Statement |
|---|---|
| `Invariance` | `Spec => []IInv` |
| `TypeCorrect` | `Spec => []TypeOK` |
| `MarkerTheorem` | `Spec => []MarkerMatchesHistory` |
| `BreakerTheorem` | `Spec => []BreakerRespected` |
| `CapTheorem` | `Spec => []CapRespected` |

None of the four is inductive. `MarkerMatchesHistory` speaks of copies of the
status that are written back after any delay, so the invariant must say of every
copy (`policies`, `policyCache`, `expList`, `recPol`) that it is consistent by
itself; this is `GoodStatus`, and it makes overwriting one copy by another
harmless. `BreakerRespected` needs one fact that spans steps: a reconcile between
`Detect` and `PersistRestart` holds a status whose breaker has not tripped at the
version and time it acts on (`RecInv`). `CapRespected` needs the gate's type and
that the reconciler adds a slot only through `TryAcquire`. `IInv` is the
conjunction, `ApiInv /\ WlInv /\ GateInv /\ RecInv /\ ExpInv /\ EnvInv`; the run
`faults` checks it as well.

The lemmas come first: each status function maps good statuses to good
statuses (`ApplyRestart` under an untripped breaker), and each gate operation
keeps the cap. Then there is one lemma per action.

### Cooldown and count, by refinement

| Theorem | Statement |
|---|---|
| `ProtocolSpaced` | `ProtocolSpec => [](ProtocolInv /\ Spaced)` |
| `ProtocolCounts` | `Cooldown > 0 => (ProtocolSpec => []WithinCount)` |
| `Refinement` | `Spec => KeepsProtocol` |
| `CooldownTheorem` | `Spec => []CooldownRespected` |
| `CountTheorem` | `Cooldown > 0 => (Spec => []DispatchesCounted)` |

`CooldownRespected` relates restarts sent by different leaders at times far apart,
and no single status bounds all of them. The argument is made in the protocol, where
it is short: the book's last restart is the latest of all restarts of the current
object, sent or pending (`AllCovered`), so one that waits for the cooldown of the
last is a cooldown away from every other (`PendingSpaced`), and so `Spaced`.
`SafetyProofs` then shows for each action of `Controller` that it is a protocol
step or leaves the mapped state alone. Besides `IInv` this needs `UidInv`
(`ControllerProofs`): no status
and no read is ahead of the workload cache, so a reconcile only ever adopts a newer
object, and past `PersistAdopt` it acts for the adopted one. `RecInv` says that a
reconcile about to record passed cooldown and breaker on the copy it holds; that the
write then hits the same books, or the policy is in `overwritten`, is what the
resource version check gives. `CooldownTheorem` combines the two.

`DispatchesCounted` is not inductive either: a booked restart may be sent at any
later time. `WithinCount` counts sent and pending restarts together, so `Send` moves
one from one side to the other, and a new window starts at the time of its first
restart, a positive cooldown after all others. That is the only use of
`Cooldown > 0`.

### Slots, modes, records

| Theorem | Statement | Inductive with |
|---|---|---|
| `SlotTheorem` | `Spec => []SlotHasPolicy` | `SlotInv` |
| `ModeTheorem` | `Spec => DispatchOnlyWhenEnforcing` | `ModeInv` |
| `SupersededTheorem` | `Spec => []SupersededIsReal` | `OrdInv` |

Each is about a decision made on an old copy. A slot is taken by a reconcile that
looked at the policy in its first step; `SlotInv` says why the finalizer is still
there: the cache never shows a live policy with a finalizer that the server lacks
(`CacheOwned`), and only a reconcile that saw no such policy removes one
(`RecOwned`). `ModeInv` ties the mode read from the spec to the one announced in the
status, up to the dispatch. For `Superseded` the copies are compared in time: an
object of a workload only moves on, to a later deployment, to absence or to a
newer object (`Later`); deployments are numbered as they happen, while their
fingerprints may come back in any pattern (`Fingerprint` is not constrained).
`OrdInv` says that no copy of a workload is ahead of the server's, that the copy a
decision is made on has reached the marker it is compared with (`Reaches`), and that
a superseded record is about something that was replaced (`Left`): another template
was deployed in between (`Replaced`), or the object is gone. Without `Reaches` a
lagging copy from before the dispatch would look like a template that moved on.

The first two are proved in `ControllerProofs`, the third in `SafetyProofs`.

### A calm cluster

| Theorem | Statement | Inductive with |
|---|---|---|
| `StackedTheorem` | `Calm => (Spec => NoStackedRestart)` | `CalmInv` |
| `SettledTheorem` | `Calm /\ Separate => (Spec => []SettledIsReal)` | `RealInv` |

These two do not hold of every cluster (section 3, *Where the properties stop*). They
are proved for a *calm* one: the leader stays in office, caches are current, only the
controller changes templates, and every kind reports its generation. Users may still
edit, delete and recreate policies and change strategies, and any call may fail or
lose its answer. The run `faults` is such a cluster with one policy. Each part of
`Calm` is needed:

- The leader stays: a former leader's late patch lands on a rollout in progress.
- Nobody else unsettles or recreates a workload: it would happen between settle check
  and patch, or be taken for the controller's own rollout.
- Caches are current: an old copy still looks settled.
- A Rollout reports its generation: otherwise the `Healthy` of the generation before
  counts as settled (`rolloutSettled` in `restart.go`).

`Separate` says that no two policies share a workload; a shared slot would be closed
under the marker of the other policy.

`CalmInv` says that a workload found settled stays settled until the reconcile that
found it patches it: nobody else writes its template, and there is one reconciler.
`SettledIsReal` is harder, since a restart is booked before it is patched in: for a
while the last restart of the status is not real, and if the patch fails for good it
never will be, although the marker stays. `RealInv` says when the last restart is
real nevertheless: whenever the workload is not settled, as only our patch unsettles
it, and whenever the slot is held, except between a reconcile's own acquisition and its
patch (`InCharge`). `Settled` is written by a reconcile that found the slot held, or
took it earlier for a rollout it could see. The expirer writes a copy of the status it
listed earlier, which may be of a policy that was deleted and created again since. It
closes only markers older than the timeout, while every restart of the new policy is no
earlier than the pass (`Renewed`), so such a write falls under `overwritten`.

### The samples

| Theorem | Statement |
|---|---|
| `SamplesInvariance` | `Spec => []SamplesInv` |
| `SeriesTheorem` | `Spec => []SeriesSane` |
| `AlarmTheorem` | `Spec => AlarmIsSustained` |
| `SamplingTypeCorrect` | `Spec => []TypeOK` |
| `StaleTheorem` | `Spec => []OnlyFirstStale` |
| `WarmTheorem` | `OneWatcher /\ WithinReach => (Spec => []WarmsUp)` |

All but the last hold for any number of policies and containers, any windows and
intervals and every choice of datasources. `SeriesSane` is not inductive: a pass
files samples under the time it began, so no stored sample may be ahead of the pass
in progress (`Horizon`). For `AlarmIsSustained` the invariant ties the series to what
was observed: it begins no earlier than the first sample ever taken of the container,
and the last sample under a policy's threshold is either still in it or no later
than its beginning. The lemmas say what `Observe` keeps (an order-preserving suffix,
never longer than the cap or the retention) and what the window of `Detect` selects.

`SamplingTypeCorrect` rests on what the datasources make of an answer
(`UsageReported`): each value in the sampler's map is a point with a number that the
backend had for that container, or the 0 of a null point. `StaleTheorem` needs to
know, between the measurement and the filing, how a measured value may lag behind
(`StaleInv`): a value older than the restart count its series is filed under is either
within `Lookback` of the restart, or the count went up during this very pass, and then
`Observe` threw the old samples away and the pass began the series. For pods that were
never replaced under their name the restart count is the number of the instance; the
property excepts the others.

`WarmTheorem` is about the numbers that `main.go` derives (`maxLen`, `retention`).
The samples of one series are in different slots of the sampling interval, so a
series that reached its cap spans at least `maxLen - 1` of them, and one that was
trimmed by time spans the retention; `WarmInv` says that a series either spans
`reach` or still begins at `since`. Both hypotheses are needed and mark real limits
of the code: a container that two policies watch is filed twice per slot (not
`OneWatcher`), and a policy window longer than the flag's plus one interval is never
covered (not `WithinReach`; run `long_window`).

### Announcements

| Theorem | Statement | Inductive with |
|---|---|---|
| `ToldTheorem` | `Spec => []ToldIsTrue` | `ToldInv` |
| `SpacedTheorem` | `Spec => []NoticesSpaced` | `SpacedInv` |
| `TriedTheorem` | `Spec => []AllSinksTried` | `TriedInv` |

`ToldInv` says which restart the worker is in the middle of, and that it is recorded
before it is sent and sent before it is announced. `NoticesSpaced` compares any two
reports; the invariant reduces it to the latest: no announced restart is later than
the status's `lastRestartAt` (or, in a dry run, than what the leader remembers), and
the restart under way is a cooldown after all that were announced.

`TriedInv` counts: for every sink, the tries of the report under way and its places
among the targets that are left add up to what the policy addresses, and every other
report that was not cut short has exactly that (`Owed`). The count is by position, so
a route that a policy names twice is tried twice. That the balance is right at the
start is `Resolved`: `resolveTargets` lists each sink as often as it is addressed,
which rests on the default sinks being of distinct kinds (`DefaultsApart`); that a
delivery keeps it is `TimesAppend` and `TimesRest`. `ReportingAssumption` is all that
is assumed of the constants: a policy names routes by name, and no route is called
`None`.

### The detectors

| Theorem | Statement | Inductive with |
|---|---|---|
| `TrendTheorem` | `Spec => []TrendMatchesReference` | `SeriesInv` |
| `EvidenceTheorem` | `Spec => []LeakHasEvidence` | `SeriesInv` |
| `OldSamplesTheorem` | `Spec => []OldSamplesIgnored` | `SeriesInv` |

`Spec` is that of `MCLeakDetector`, whose reachable states are the series: for any
gaps and values, every series that is oldest first. `SeriesInv` says only that; the
rest is about the sums of the regression, which `LeakDetector` takes from the
community modules as folds over the places of the samples. What such a fold computes
is proved from its definition. `SumExists` finds the recursive function behind it for
the subsets of up to `n` places, one `n` after the other, `SumsAgree` shows that it
is the only one, and from there every induction is one over the subsets of a finite
set (`Gathered`): a term may be taken out (`SumWithout`), sums add up and scale
(`SumPlus`, `SumTimes`, `SumConstant`), a positive sum has a positive term
(`SumPositive`), and a sum does not depend on where its terms stand (`SumMoved`).

`PairsOfProducts` is the identity behind `TrendTheorem`: twice the numerator and twice
the denominator of the slope are the sums over all pairs of samples of the products
of their differences. `RisingPair` follows: a positive numerator has a pair with both
differences of one sign, which is the evidence of `EvidenceTheorem` and also rules out
the zero denominator. In `OldSamplesTheorem` trimming moves the window by some places
(`MovedFit`), and a series that is oldest first has nothing of the window among what
was cut off. The numbers are integers, as in the module: what float64 rounds is not
covered. `DetectorAssumption` says that gaps, values, the limit and the configured
numbers are naturals.

### Openings

| Theorem | Statement |
|---|---|
| `EarliestTheorem` | `Spec => []NextIsEarliest` |
| `DeclaredTheorem` | `Spec => []ActsInsideDeclared` |

These are theorems about pure functions, for any length of the day, windows and
zones. `OpeningIsFirst`: the search over eight days in `nextOpening` finds an opening,
and none is earlier (a window that opened today before `t` opens again on the same
weekday, which is why seven days do not suffice). `NextOpeningIsFirst` takes the
minimum over the windows. `RangeExpanded` says that `expandRange` with its wrap
around the week gives the days that `Declared` reads off the text. Both need minima
of sets of numbers; `LeastNat` derives their existence from the well-foundedness of
`<`, where an induction would need an operator as parameter.

### The choice of containers

| Theorem | Statement |
|---|---|
| `WarnedTheorem` | `Spec => []WatchedOrWarned` |
| `OrderTheorem` | `Spec => []OrderIrrelevant` |
| `SingleTheorem` | `Spec => []SingleDefault` |
| `DroppedTheorem` | `Spec => []DroppedCannotTrip` |
| `OverrideTheorem` | `Spec => OverrideIsLocal` |

For any templates, policies, defaults and fleets. `SelectedIsChoice` replaces the
positions by a set of containers (`Choice`): a name stands for one position only, and
the highest limit with the lowest name for one container. From it follow
`OrderTheorem`, as a turned list has the same members, and `SingleTheorem`.
`WatchedOrWarned` is inductive with the types of the state: only a walk to the end sets
`scanned`, and it warns about exactly those eligible pods of which it watches nothing.
`DroppedTheorem` compares two places of the code, the filter of `SelectTargets` and
`exceeds`; a percentage of a positive limit is always in reach, and an absolute cap is
in reach without a limit. `OverrideTheorem` needs no invariant: it is about what
`ForContainer` and the choice read of the spec.

### What is only model-checked

- Liveness (`SlotReleased`, `MarkerCleared`, `DeletionCompletes`,
  `DeferredIsNotDropped`, `WorkerReturns`) and everything that needs `ENABLED`.
- `RolloutHoldsSlot`: beyond what makes a cluster calm, it needs that no second restart
  meets a late release and that no answer of a patch is lost (section 3, *Where the
  properties stop*), so it is a statement about the run `pair` rather than about a
  class of clusters.

## 5. Not modelled

- Texts, payloads, charts and HTTP of notifications; how the profile sinks store
  bytes; URLs, authentication and decoding of the datasources and their startup
  probe, after which a failing program just exits.
- Metrics, logging and Kubernetes events: written, never read.
- Flag parsing and construction in `main.go`, generated code, Helm charts and
  end-to-end tests.
- Daylight saving (window.go works on calendar days of a location) and float
  rounding in the regression.

## 6. Plan

Done, in this order: status, gate and workload; the composed controller with its
properties; proofs of its inductive invariant; detectors, store and sampler;
maintenance windows; selection; two policies on one workload, lagging watches and
late patches; the restart protocol, the refinement and its proof; datasources;
captures and notifications; the proofs about samples; proofs of the count, of
slots, modes and records, of the warm-up, of announcements and of openings; the
datasources restated by container, and the proof of what they let into a series;
selection restated by position, and proofs about the choice of containers; proofs
about stacked restarts and settled records in a calm cluster; the targets of a
notification restated by position, and the proof that all of them are tried; sums as
folds of functions, and the proofs about the detectors.

Next:

1. Liveness of the sampler: a container that stays over its threshold is
   eventually scanned, also when the channel was full.
2. The slot under late release and stale settle: what still bounds the rollouts
   in flight.
