# Verification of iolimiter-operator

TLA+ models of the three reconcilers, of the deletion handshake between
controller and agent and of the agent's health contract, the TLC runs that check
them, and TLAPS proofs of every safety property of the passing runs, for all values
of the constants. Decision numbers (D8,
D9, ...) are those of `SPEC.md`.

## The system

Users write `IOLimiter`s: a pod selector and, per volume, byte and IOPS limits.

| part | state | operations | interacts with |
|---|---|---|---|
| `PodReconciler` (controller, one leader, one worker) | none but its caches: IOLimiters, PodIOLimits, Pods, PVCs, PVs | per pod: compute the limits, create, patch or delete the pod's `PodIOLimit`, remove its finalizer | reads caches that lag independently; writes the API server; waits for the agent on deletion |
| `desired.Compute`, `limitersForPod` | pure, but a bad row or selector is frozen to the *existing* spec | validate, merge, resolve claims | reads the cached `PodIOLimit` as its own memory |
| `IOLimiterReconciler` | `IOLimiter.status` | aggregate the pods' states, fold in write failures | woken by filtered watches of IOLimiters, Pods and PodIOLimits; shares the status with `PodReconciler` and the selector cache with everyone |
| `PodIOLimitReconciler` (agent, one worker per node) | `PodIOLimit.status`, the kernel's `io.max` | record intent, write rules, verify, reset, release, write status | API server with optimistic locks, cgroup and proc files |
| `iomax`, `resolve`, `mountinfo`, `blockdev`, `cgroup` | files | parse, resolve a volume to a whole disk, write a line and read it back | kernel, kubelet |
| `health` | last self-check, last reconcile, cache sync | livez, readyz | agent's reconcile, a ticker, the kubelet's probes |

The hard behaviours: every decision is taken on a cache that may be several
versions behind, and each cache on its own; a reconcile makes several writes
(intent, kernel lines, status) and may end between any two; a Status().Update
may be stored without its answer arriving; kernel writes are refused or garbled
for one device of several; others write `io.max`; objects are deleted, and
created again under the same name; the pod comes, moves and goes meanwhile. Two
reconcilers replace the same status whole. Nothing polls on the controller's
side, and its watches are filtered. The agent's probe takes silence for a hang.

What makes each part correct:

- agent: a rule in the kernel is on record before it is written and until it is
  reset; Ready=Applied is true; no device is added to a record being emptied; a
  deletion ends; drift is repaired;
- controller: a contribution is what the limiter's own row asked for; an invalid
  row or selector never loosens; the finalizer of a running pod's object goes
  only with an empty record; the object converges;
- IOLimiter status: counts and conditions reflect the pods; a write failure shows
  and is cleared;
- health: a live worker is not killed, a wedged one is.

## Modules

| module | models |
|---|---|
| `Handshake` | the abstract protocol of one `PodIOLimit`: created, recorded, marked, released, removed; no caches, conflicts or retries |
| `Agent` | one `PodIOLimit` on one node: the agent's reconcile step by step, the API server's copy, the informer, the work queue, `io.max`, the pod; implements `Handshake` |
| `AgentProofs`, `AgentTruthProofs` | inductive invariants and theorems about `Agent`: ownership and the handshake; the truth of Ready |
| `PodController` | one pod: the IOLimiters and the controller's lagging caches, `Compute`, `Reconcile`, the finalizer; agent and pod as environment; implements `Handshake` |
| `LimiterStatus` | one `IOLimiter`: `IOLimiterReconciler`'s pass and status write beside `PodReconciler`'s write-failure condition, the watches, the selector cache |
| `Health` | the agent's process over discrete time: health struct, self-check ticker, work queue with delays and back-off, the one worker, the kubelet |
| `PodControllerProofs`, `LimiterStatusProofs`, `HealthProofs` | the same about those modules |
| `MCAgent`, `MCPodController`, `MCLimiterStatus`, `MCHealth` | instances for TLC |

How they compose. `Agent` and `PodController` are two views of the same object,
each with the other party as environment. What joins them is `Handshake`: each
module's `KeepsHandshake` is `Handshake`'s specification under a mapping to that
module's stored object (`INSTANCE ... WITH`), so the environment actions of one
(`AgentRecords`, `AgentReleases`; `CreateObject`, `DeleteObject`,
`RemoveFinalizer`) are steps of a protocol that the other is shown to follow.

The comments name the function behind each action, and the `map` of
`PROJECT.json` gives the lines.

### Agent

`server` is the object as stored; `versions` the stored versions the informer has
not moved past; `cache` the one delivered last, always some member of `versions`.
`Sync` may skip versions, as an informer that relists does, but never goes back.
`agent` holds the program counter and the locals of the reconcile: the copy it
works on, the desired rules, the content of `io.max` read once, the devices
still to write (`todo`) and to reset (`drop`), and the status under construction.
The mapping to `Handshake` takes `server` and the pod's life, and nothing of the
agent's locals.

| action | code |
|---|---|
| `StartGone`, `StartRelease`, `StartUniform`, `StartApply` | `Reconcile` up to its first write: NotFound; `release`; `writeUniformStatus`; resolve and group |
| `RecordDeviceIntent`, `IntentConflict` | `recordDeviceIntent` |
| `ReadIOMax`, `SkipDevice`, `WriteDevice`, `WriteRejected`, `WriteMismatch` | the read of `io.max` and `applyDevice` |
| `ResetDevice`, `ResetFails` | `resetDevice` and `release`'s loop |
| `StatusUnchanged`, `WriteStatus`, `StatusConflict` | `writeStatusIfChanged` |
| `UpdateFails`, `Crash` | an update with an error for an answer, stored or not; the process ends |

Go's maps are iterated in any order, hence the choice of the device in
`KernelStep`. The environment creates, patches and deletes the object
(`RemoveFinalizer` is the controller's rule as `PodController` has it, on the
server's state), and moves the pod: cgroup absent, present without `io.max`,
present; volumes mounted; pod terminal; torn down.

Abstractions. A rule gives each of `Keys` a limit or none ("max"); a spec asks for
rules (the specs written are those in `Specs`), and the rules of volumes on one
device are merged key by key, while every rule may turn up in `io.max`. The runs
have one key except for `agent_live`, since only `Merge` looks into a rule. A
volume's status is its reason, which determines its state.
Reading cgroup and mountinfo is atomic with the start of the reconcile. A pod's
volumes are mounted together, and the device of a mounted volume does not change.
A restarted agent's first list is not older than what the process before it had
seen. The requeue intervals are in `Health`; Pod events, messages, `cgroupPath`,
the guards for a foreign node and a malformed UID are left out.

### PodController

Each IOLimiter, the `PodIOLimit` and the pod have a stored value, a cached value
and (for the first two) a queue of versions to deliver. Deliveries may skip
versions and enqueue the pod's key exactly when the watch's predicate and map
function do: `mapIOLimiterToPods` consults the *cached* pod and the *cached*
`PodIOLimit`'s sources. `Start` is `Reconcile` up to its write; the write is a
step of its own: `Create`, `Patch`, `Delete`, `ReleaseDirect` followed by
`RemoveFinalizer`. `WriteFails` covers an error, stored or not, and a restart of the
same replica. `Failover` makes another replica the leader: its informers have run
all along, its Pod cache may be behind the old leader's, and the first lists fill
its queue with its pods and, through the `PodIOLimit` watch, with the objects of
pods that are gone. The other caches are up to date after it, and a write of the
old leader comes before it or not at all.

The pod's life is a stage: unscheduled, running, terminating (deletion timestamp,
cgroup still there), terminal, gone. The cache may also show no pod, or (`Reused`)
an earlier pod of the same name with another UID, for which this pod's object is
a stale one to release. `Delete` keeps the object Terminating, because of its
finalizer, and removing the finalizer removes it: the patch is accepted only for
the version the cache shows, which is the Terminating one, since a cached copy
from before the deletion has an older version and conflicts.

Abstractions. One byte field and one IOPS field per row. Byte quantities count
half bytes, so that fractions exist. `spec` is the contributions; limits and
sources are functions of them. A claim, once bound, stays bound. The agent is
whether `status.devices` is empty, changed by the rules `Agent` obeys
(`NoNewDeviceWhileDeleting`, `KeepsHandshake`). The `PodIOLimitWriteFailed`
condition is in `LimiterStatus`; events and `Issue`s are left out.

### LimiterStatus

`limiter` is the IOLimiter as stored, `lcache` the informer's copy, and `fresh`
says which copies (the cache's, the one a pass works on) still have the stored
resourceVersion, which is all an optimistic lock tells apart. `carried` is the
write-failure condition of the copy a pass read, which its update writes back with
the rest of the status.

| action | code |
|---|---|
| `Evaluate` | `IOLimiterReconciler.Reconcile` up to its write: `selectorFor`, `evalPod` per pod, the fold of the write failure, `setIOLimiterReady`, the gauge, `iolimiterStatusEqual`; `reconcileInvalidSelector` |
| `WriteStatus`, `UpdateFails` | `Status().Update`: stored (`UpdateStatus`), conflict, error |
| `Start`, `WritePodIOLimit`, `Delete` | `PodReconciler`: the decision in short, create, patch, delete |
| `RecordPodIOLimitWriteFailure`, `ClearPodIOLimitWriteFailure` | the functions of that name |
| `DeliverLimiter`, `DeliverPodIOLimit`, `DeliverPod`, `BindClaim` | the watches of both reconcilers with their predicates and map functions |

The environment edits and deletes the limiter, reports as the node's agent, and
starts or stops refusing a pod's `PodIOLimit`.

Abstractions. The limits of a limiter are the number of the edit that set them,
which also stands for a `PodIOLimit`'s generation. A limiter is of one of four
kinds (selects and limits, selects pods without the volume, selects none, invalid
selector). Caches jump to the newest version. A `PodIOLimit` goes in one step (its
deletion is `PodController`'s subject); while the cache still has it, it is
`Terminating` to the `PodReconciler`, which leaves it alone. The Ready message names the pods of
every outcome, so the status holds the outcome of every pod; the cut at five
names is left out.

### Health

A timestamp is its age in ticks, capped one past the threshold. `Tick` is
possible only when nothing is due: delayed keys and the self-check fire on time,
a free worker takes a key at once, a reconcile that does not hang ends within
`Busy`. `Results` gives, for what a reconcile meets (`fate`), its Result and the
status it leaves: requeue soon after a conflict, `PendingBackoff`, the jittered
period, the work queue's back-off after an error, nothing after a release.
`Probe` is the kubelet restarting an agent whose `livezCheck` fails; `Main` starts
it again if the start-up checks pass, which look at more than the self-check does.

The work queue's rate limiter is a library: `Backoff` is any schedule of delays up
to `MaxBackoff`, and the run takes the doubling one. `PendingBackoff` is the loop of
`pendingBackoff` in closed form: the smallest of the doublings of the base that is
more than half the time elapsed, under the ceiling.

`HealthAssumption` is what the contract needs of the flags: a period long enough
for the pending interval and for a reconcile. `parseFlags` does not ask for it.

## Runs

| run | properties | shows |
|---|---|---|
| `agent_two_disks` | `TypeOK`, `Recorded`, `Truthful`, `NoNewDeviceWhileDeleting`, `KeepsHandshake` | two disks, three writes to the spec, one fault: partial failure, stale copies; the refinement |
| `agent_recreate` | `Recorded`, `Truthful`, `NoNewDeviceWhileDeleting` | one disk, two limits, four writes and a fault: changed rules; create, delete, create again, patch or delete |
| `agent_live` | `Truthful`, `DeletionCompletes`, `EventuallySettled` | two volumes on one disk, two keys, rules of which neither is the tighter, so that the minimum of each key counts; a third volume on no disk; two writes, one fault |
| `pod_lifecycle` | `TypeOK`, `OwnContribution`, `NoRuleAbandoned`, `KeepsHandshake` | two limiters, a valid and an invalid row, three edits, the pod's whole life, two changes of the record, a fault, foreign deletions; the refinement |
| `pod_live` | `EventuallyCompiled` | convergence over three edits, for a name that was used before, through an API error and a change of the leader; valid rows only |
| `limiter_status` | `TypeOK`, `SelectorTrue`, `ConditionSurvives`, `EventuallyMeasured` | a pod whose claim is bound late, every kind of limiter, two edits, one refusal, error or restart |
| `agent_health` | `TypeOK`, `NeverForgotten`, `NoFalseAlarm`, `WedgeDetected`, `EventuallyHealthy` | two objects, three events out of creations, deletions, hangs, crashes, failing lists and a changing node |

Bounds. Every fault and every write of a spec is counted (`MaxFaults`,
`MaxChanges`, `MaxEdits`, `MaxRecords`, `MaxFailovers`, `MaxEvents`); everything else (deliveries,
reconciles, retries, time) is unbounded. Two devices are enough for one to fail
while the other succeeds, two limits for "tighter" to mean something, three spec
writes for a copy that is stale by two, four for an object created again and
changed. In `limiter_status` one pod is enough for every order of the watches
against the passes, since the limiter is one key whatever pod wakes it; what two
refused pods do to each other's condition is not checked. In `agent_health` a
period of two ticks with a base of one makes the pending back-off double once
before its ceiling, and the threshold of six ticks is below the back-off after
three errors (eight), so that the excuse is exercised; three events are enough for an
object to be created, marked, and the worker to hang or the list to fail.

A deadlock check is off where a system at rest (nothing queued, bounds used up) is
a legitimate end; in `agent_health` time always goes on and the check is on.

Fairness. `Sync`/`Deliver*`: an informer that is connected delivers. `AgentStep`,
`Controller`, `Aggregate`, `PodWorker`, `Complete`: a controller-runtime worker
runs queued keys, and a step of a reconcile never blocks for ever (in `Health`,
unless it is wedged). `Start` and `Begin` of one key get strong fairness: the work
queue is first in, first out, so a key in it is not overtaken for ever by another
that keeps the one worker busy. `RemoveFinalizer` (in `Agent` and `Health`) and
`AgentReleases` (in `PodController`): the other side answers a deletion, which is
what the other module checks under its own fairness. `Tick`, `SelfCheck`, `Fire`,
`Main`, `CacheSync`, `RecordCacheSynced`, `Probe`: time goes on, goroutines and
timers run, the kubelet probes and restarts. Crashes, errors, drift, hangs, edits,
reports and the pod's life get no fairness, and the bounds make them stop, which
is the premise of the `<>[]` properties. In `Agent` the jittered resync is the key
being queued again after every reconcile that asks for it.

What the less obvious properties say:

- `SelectorTrue` is about the selector cache's entry and not about a lookup: lookups
  of the old and the new copy may store in either order, and the entry left behind
  must still be right for every copy that has its generation.
- `EventuallyMeasured` is about the pass (and the gauge it exports), not about the
  stored status: the reconciler always evaluates once more after the last change
  of any of its inputs, with caches that show it. The same of the stored status,
  `EventuallyReported`, does not hold (below). Its premise is that no write was
  refused: the write-failure condition does not wake the reconciler.
- `NoFalseAlarm` states when silence may fail livez: the worker hangs, or every
  cached object is new, released, or in the back-off after an error. The last two
  are excuses D24 does not have ("every object requeues each period"): `release`
  asks for no requeue, and the work queue's delay grows past three periods.
- `WedgeDetected` is about a worker that hangs while `hasObjects` is set. The same
  of a cache that holds an object, `SilenceDetected`, does not hold (below): the
  flag is recorded when a reconcile completes.

Runs that end in a violation, each of a statement the repository makes (quoted in
`PROJECT.json`):

- `agent_flaky_lookup`: a transient failure to look up a mounted volume makes the
  agent reset its device and strike it from the record; a reconcile on the older
  cached version then finds nothing to record and writes the rule;
- `pod_freeze`: the freeze takes its baseline from a cache that lacks the
  controller's own last patch, and the patch has no optimistic lock;
- `pod_stale_pod`: the Pod cache of a new leader still shows the running pod before
  it was scheduled; `getPod` reads live only what the cache does not have, and the
  object, enqueued by the first list, is released while the agent owns a rule. With
  `MaxFailovers = 0` the same configuration finds a second way: `getPod`'s live read
  of a reused name is ahead of the Pod informer, whose next event shows the pod
  unscheduled again; with `Reused = FALSE` only the first remains;
- `agent_hang_on_start`: a worker hangs on its first reconcile after a start, no
  reconcile has recorded that there are objects, and livez answers OK for ever;
- `limiter_stale_status`: a pass compares the status it computed with a copy that
  lacks the previous pass's write, finds it equal and writes nothing; the event of
  that write is filtered, and the wrong status stays.

Observed while modelling, without a run: a drift correction that fails leaves
`Applied` in the record (SPEC.md:315 says `Pending`); a reset repeated from a stale
copy wipes a line another writer put there after the first (D8, "Only reset what
we wrote"); a conflict while clearing `PodIOLimitWriteFailed` is requeued, but the
requeue finds nothing to patch and returns before clearing, and so does a restart
between the write and the clear.

## Proofs

Every invariant, action property and refinement of the passing runs is a theorem,
for any sets (of volumes, devices, limiters, pods, objects) and any bounds.

| module | theorem | states | under |
|---|---|---|---|
| `AgentProofs` | `TypeCorrect` | `Spec => []TypeOK` | |
| | `RecordCloses` | `Spec => NoNewDeviceWhileDeleting` | |
| | `ImplementsHandshake` | `Spec => KeepsHandshake` | |
| | `OwnershipRecorded` | `Spec => []Recorded` | `Flaky = {}` |
| `AgentTruthProofs` | `AppliedIsTrue` | `Spec => []Truthful` | `Flaky = {}` |
| `PodControllerProofs` | `TypeCorrect` | `Spec => []TypeOK` | |
| | `ContributionsOwn` | `Spec => []OwnContribution` | |
| | `RecordRespected` | `Spec => NoRuleAbandoned` | `~Reused`, `MaxFailovers = 0` |
| | `ImplementsHandshake` | `Spec => KeepsHandshake` | `~Reused`, `MaxFailovers = 0` |
| `LimiterStatusProofs` | `TypeCorrect` | `Spec => []TypeOK` | |
| | `SelectorsTrue` | `Spec => []SelectorTrue` | |
| | `ConditionKept` | `Spec => ConditionSurvives` | |
| `HealthProofs` | `TypeCorrect` | `Spec => []TypeOK` | |
| | `NothingForgotten` | `Spec => []NeverForgotten` | |
| | `AlarmsJustified` | `Spec => []NoFalseAlarm` | |

The assumptions are those of the modules (`AgentAssumption`, ...), which give the
shape of the constants; only `HealthAssumption` says more (above). The conditions
in the last column are needed, and TLC has the counterexamples: a lookup that
fails transiently (`agent_flaky_lookup` breaks `Recorded`), a pod whose name was
used before, and a change of the leader (`pod_stale_pod` breaks `NoRuleAbandoned`
with either). `Truthful` takes `Flaky = {}` because its proof uses `Recorded`.

TLC checked each strengthening on the runs' instances before it was proved.

### Agent: the record

`ProtocolInv` is about versions: every undelivered version lies
between the cache and the server (`Lineage`); a copy that the server would still
accept *is* the server's object (`CopyLineage`); only a release works on a
deleted object (`ReleaseOnly`). An accepted status write of a deleted object can
therefore only shrink the record, which is `RecordCloses`. The refinement rests on
the same invariant: an accepted write is a `Record` or a `Release` step according
to the mark, a write of equal content or without an answer stutters, and
everything of the agent's own (locals, queue, kernel, cache) is invisible.

`Recorded` is not inductive: the agent may skip the intent write because its copy
already shows the rule. `StaleIsBacked` closes the gap: any version the agent may
still read that shows a device with the rule its own spec asks for is one whose
device is on the server's record *now*. It is preserved because a device is
struck only when the accepted copy's spec does not want it (or it is deleted),
and then, by `CopyLineage`, no version still to be read has another spec. `Plan`,
`Dropping` and `Backed` carry this through the reconcile; `Unmounted` says that
nothing can have been owned before the volumes resolve.

### Agent: the truth of Ready

Two things could make Ready=Applied false: a status that claims too much, and a
kernel write after the claim from a copy with another spec. `Agreed` excludes the
second: a claim is accepted only over the version it was computed from, so at that
moment every version still to be read has the same spec, and an edit later
withdraws the claim, because it counts the generation past `observedGeneration`.
`WorkInv` excludes the first. It accounts for every listed volume on a device
while the reconcile runs (`Accounted`): not passed over, still to be applied while
Resolved, in the kernel once Applied, unless the line drifted. `Observed` is what
makes the skipped write sound (the line read before the first write is still the
line, or has drifted), `Intended` says that what is applied is the tightest limit,
and `Pristine` that a line nobody wrote is not there. A device that is not asked
for is then clean or, by `Recorded` and `Dropping`, still owned.

### PodController

`ContributionsOwn` strengthens `OwnContribution` to every version that is cached
or still to be delivered, to the limiters as stored (a new leader reads those) and
to the write in progress (`OwnInv`): a frozen
contribution is copied from such a version, any other from a row of a version of
its limiter, and `asked` only grows.

For the handshake the controller reads a *chain* of versions, the cached one and
those undelivered. `HandshakeInv` says that the chain is in the order of its
versions (`Sorted`) and that existence and mark change along it only as the
protocol lets them (`Existence`, `Marks`); that the pod is seen late but never
ahead, and nothing happens before it is seen running (`PodSeen`, which is where
`~Reused` and the one leader are used); and that what was true of the copy when the reconciler decided
to let the object go, marked and unowned or of a pod that is over, is still true of
the stored one (`Releasing`). The record of a marked object cannot grow, so the
record read from a stale copy is still empty when the removal is accepted.

### LimiterStatus

`StatusInv` gives `fresh` its meaning (`Versions`): a copy with the stored
resourceVersion is the stored object, and a pass whose update would be accepted
carries the stored write-failure condition. That is `ConditionKept`.
`Generations` gives a generation its meaning: copies and cache entries that agree
on it agree on the spec. No entry is of a later generation than the limiter's
(`FromPast`), so an edit cannot make an old entry look current.

### Health

`NeverForgotten` is inductive with `TypeOK`; the work is in the bounds of the
intervals (`PendingBackoffBounds`, `Intervals`), which hold for every period, base
and back-off schedule. `NoFalseAlarm` relates the age of the last completed
reconcile to the timers of all objects: `Timely` says that, while an object
without an excuse is on record, that age is bounded. With nothing queued, the age
plus what is left of the object's own timer is at most the longest interval; with
a reconcile queued, the age alone is; with one in work, the age exceeds the
interval by at most the age of that reconcile. `Recorded` (of `HealthProofs`) says
that objects are on record only in a process that is up, and that when the last
one goes the reconcile that will notice is due. The jitter of the resync is what
makes the sum tight: 1.1 periods, and a reconcile, within three.

### Only model-checked

The liveness properties (`DeletionCompletes`, `EventuallySettled`,
`EventuallyCompiled`, `EventuallyMeasured`, `WedgeDetected`, `EventuallyHealthy`):
their fairness is out of the prover's reach here. The statements of the runs that
expect a violation are false, so there is nothing to prove.

## Not modelled, and the plan

In order:

1. Proofs: consequences of `Handshake` itself, which then hold of both parties;
   the operators of `PodController` (`MergeContribution`, the freeze) against a
   reference; `PendingBackoff` against the loop it stands for.
2. A new leader whose caches of IOLimiters and PodIOLimits are behind too, and a
   write of the old one that arrives after the change.
3. The guards of the agent's `Reconcile` for a foreign node and a malformed UID,
   and a reset that the kernel ignores.

Left out for good: Pod and IOLimiter events and the agent's counters (no state
depends on them), flags and manager set-up of `cmd`, generated deep copies, the
end-to-end harness and release helpers (no protocol state), and the text formats
of mountinfo, sysfs and cgroup paths (pure parsing, unit-tested).
