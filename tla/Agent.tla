------------------------------- MODULE Agent -------------------------------
(***************************************************************************)
(* The node agent (internal/agent) enforcing ONE PodIOLimit on ONE pod     *)
(* cgroup, against an API server it sees only through a lagging informer   *)
(* cache, a kernel that may refuse or garble a write, and an environment   *)
(* (controller, kubelet, other writers of io.max) that moves at any time.  *)
(*                                                                         *)
(* The agent's promise is ownership (SPEC.md D8, D9): a device enters      *)
(* status.devices before its rule enters the kernel, and leaves it only    *)
(* after the rule was reset, so the rule of a live pod is always on        *)
(* record, and an object that is gone leaves no rule behind.               *)
(*                                                                         *)
(* Data abstraction.  A rule gives each key of io.max a limit or leaves it *)
(* unlimited ("max"); NoRule, with no key limited, is a missing line.  A   *)
(* volume's status is its reason.  Functions total over Devices and        *)
(* Volumes stand for the Go maps and lists, with NotOwned, NoRule and      *)
(* "None" for missing entries.                                             *)
(***************************************************************************)
EXTENDS Integers, FiniteSetsExt

CONSTANTS
    Volumes,      \* pod volumes a PodIOLimit may list
    Devices,      \* whole-disk block devices
    NoDevice,     \* a volume without a device that may be throttled
    DeviceOf,     \* the device behind each volume, or NoDevice
    Keys,         \* the keys of an io.max line
    Limits,       \* the values a key may have besides "max"
    Specs,        \* the specs, a rule for each volume, that may be written
    Flaky,        \* volumes whose mount or sysfs lookup may fail transiently
    MaxChanges,   \* bound on writes to the object's spec and deletion mark
    MaxFaults     \* bound on crashes, API and kernel errors, and drift

NoLimit == 0
NoRule == [k \in Keys |-> NoLimit]
Rule == [Keys -> Limits \cup {NoLimit}]
NotOwned == [rule |-> NoRule, state |-> "None"]

ASSUME AgentAssumption ==
    /\ NoDevice \notin Devices
    /\ DeviceOf \in [Volumes -> Devices \cup {NoDevice}]
    /\ Limits \subseteq Nat \ {NoLimit}
    /\ Specs \subseteq [Volumes -> Rule]
    /\ Flaky \subseteq Volumes
    /\ MaxChanges \in Nat
    /\ MaxFaults \in Nat

VARIABLES
    server,    \* the PodIOLimit as the API server stores it
    versions,  \* its versions that the informer has yet to move past
    cache,     \* the version the agent's informer delivered last
    agent,     \* the reconcile in progress: program counter and locals
    queued,    \* the work queue holds the object's key
    kernel,    \* io.max of the pod cgroup: the rule of each device
    writer,    \* history: who wrote that rule
    pod,       \* is the pod live, what is its cgroup, are its volumes mounted
    changes,   \* spec writes so far, of MaxChanges
    faults     \* faults so far, of MaxFaults

api  == <<server, versions>>
kern == <<kernel, writer>>
vars == <<server, versions, cache, agent, queued, kernel, writer, pod,
          changes, faults>>

----------------------------------------------------------------------------
(* Types.                                                                  *)

OwnedDevice == [rule : Rule, state : {"None", "Pending", "Applied"}]
Reason == {"None", "Resolved", "CgroupNotFound", "IOControllerDisabled",
           "VolumeNotMounted", "Unsupported", "KernelRejected",
           "KernelMismatch", "Applied"}
ReadyReason == {"None", "Applied", "Pending", "Failed", "Unsupported",
                "Released"}
DevicesType == [Devices -> OwnedDevice]
PodIOLimit == [rv : Nat, exists : BOOLEAN, del : BOOLEAN, gen : Nat,
               spec : [Volumes -> Rule], devices : DevicesType,
               vols : [Volumes -> Reason], ogen : Nat, ready : ReadyReason]
Reconcile == [pc : {"idle", "intent", "read", "write", "release", "status"},
              copy : PodIOLimit, desired : [Devices -> Rule],
              seen : [Devices -> Rule], todo : SUBSET Devices,
              drop : SUBSET Devices, final : DevicesType,
              outcome : [Volumes -> Reason]]

Unowned == [d \in Devices |-> NotOwned]
NoRules == [d \in Devices |-> NoRule]
NoObject == [rv |-> 0, exists |-> FALSE, del |-> FALSE, gen |-> 0,
             spec |-> [v \in Volumes |-> NoRule], devices |-> Unowned,
             vols |-> [v \in Volumes |-> "None"], ogen |-> 0,
             ready |-> "None"]
Idle == [pc |-> "idle", copy |-> NoObject, desired |-> NoRules,
         seen |-> NoRules, todo |-> {}, drop |-> {}, final |-> Unowned,
         outcome |-> [v \in Volumes |-> "None"]]

----------------------------------------------------------------------------
(* Pure helpers of the reconciler.                                         *)

\* Devices with an entry in status.devices.
Owned(devices) == {d \in Devices : devices[d] # NotOwned}

\* WholeDisk and IsProtectedDevice: behind the volume is a whole disk, which is
\* not one that also backs a protected path of the node.
Throttleable(v) == DeviceOf[v] # NoDevice

\* resolveVolume: a volume listed in the spec is not found, unsupported, or
\* resolved to its device; bad volumes fail their lookup this time.
Resolve(spec, bad) ==
    [v \in Volumes |->
        CASE spec[v] = NoRule -> "None"
          [] spec[v] # NoRule /\ (~pod.mounted \/ v \in bad)
                -> "VolumeNotMounted"
          [] spec[v] # NoRule /\ pod.mounted /\ v \notin bad
                -> IF Throttleable(v) THEN "Resolved" ELSE "Unsupported"]

\* Mutant: "max" wins over a limit.
MergeUnset(rules) ==
    [k \in Keys |->
        LET limits == {r[k] : r \in rules}
        IN IF limits = {} THEN NoLimit ELSE Min(limits)]

\* iomax.Merge of any number of rules: the minimum of each key, in which "max"
\* never wins over a limit.
Merge(rules) ==
    [k \in Keys |->
        LET limits == {r[k] : r \in rules} \ {NoLimit}
        IN IF limits = {} THEN NoLimit ELSE Min(limits)]

\* groupByDevice: the resolved volumes that share a device are merged.
GroupByDevice(spec, outcome) ==
    [d \in Devices |->
        Merge({spec[v] : v \in {u \in Volumes :
                  outcome[u] = "Resolved" /\ DeviceOf[u] = d}})]

\* Mutant: a device not owned yet is not recorded first.
ChangedDevicesOwnedOnly(devices, desired) ==
    {d \in Devices : /\ desired[d] # NoRule /\ devices[d] # NotOwned
                     /\ devices[d].rule # desired[d]}

\* recordDeviceIntent: devices that are new or whose rule changed.
ChangedDevices(devices, desired) ==
    {d \in Devices : desired[d] # NoRule /\ devices[d].rule # desired[d]}

\* Entries as recordDeviceIntent writes them before the kernel write.
IntentDevices(devices, desired) ==
    [d \in Devices |-> IF d \in ChangedDevices(devices, desired)
                       THEN [rule |-> desired[d], state |-> "Pending"]
                       ELSE devices[d]]

\* readyReason: Failed over Pending over nothing applied over Applied.
AggregateReady(vols) ==
    LET some(reasons) == \E v \in Volumes : vols[v] \in reasons
    IN CASE some({"KernelRejected", "KernelMismatch", "IOControllerDisabled"})
              -> "Failed"
         [] some({"CgroupNotFound", "VolumeNotMounted"})
            /\ ~some({"KernelRejected", "KernelMismatch",
                      "IOControllerDisabled"})
              -> "Pending"
         [] OTHER -> IF some({"Applied"}) THEN "Applied" ELSE "Unsupported"

\* The object with the status this reconcile computed: Reconcile and
\* writeUniformStatus set everything, release only devices and, once none
\* is left, Ready.
NewStatus(a) ==
    IF a.copy.del
    THEN [a.copy EXCEPT !.devices = a.final,
                        !.ready = IF a.final = Unowned THEN "Released" ELSE @]
    ELSE [a.copy EXCEPT !.devices = a.final, !.vols = a.outcome,
                        !.ogen = a.copy.gen, !.ready = AggregateReady(a.outcome)]

\* statusSemanticallyEqual.
SameStatus(o, p) == /\ o.devices = p.devices /\ o.vols = p.vols
                    /\ o.ogen = p.ogen /\ o.ready = p.ready

\* Mutants: a release is never run again; only Pending is run again.
RequeueNoRelease(a) == ~a.copy.del
RequeuePendingOnly(a) ==
    IF a.copy.del THEN a.final # Unowned
    ELSE AggregateReady(a.outcome) = "Pending"

\* Does the reconcile's Result ask to be run again?  Every outcome does, by
\* pendingRequeue or the jittered resync, except a completed release.
RequeueAfter(a) == ~(a.copy.del /\ a.final = Unowned)

----------------------------------------------------------------------------
(* The API server, the informer and the work queue.                        *)

\* Store o as the next version.
Publish(o) ==
    /\ server' = [o EXCEPT !.rv = server.rv + 1]
    /\ versions' = versions \cup {server'}

\* Mutant: an update without optimistic lock.
Unlocked(o) == server.exists

\* Status().Update is accepted only for the version it was computed from.
Current(o) == server.exists /\ o.rv = server.rv

\* The informer delivers some later version; each delivery is an event that
\* enqueues the key.
Sync ==
    \E w \in versions :
        /\ w.rv > cache.rv
        /\ cache' = w
        /\ versions' = {x \in versions : x.rv >= w.rv}
        /\ queued' = TRUE
        /\ UNCHANGED <<server, agent, kern, pod, changes, faults>>

----------------------------------------------------------------------------
(* The reconcile.                                                          *)

\* The reconcile ends and is retried: conflict, error or requeue.
Retry == agent' = Idle /\ queued' = TRUE

\* Get the object from the cache, and everything up to the first write.
\* NotFound: done.
StartGone ==
    /\ agent.pc = "idle" /\ queued
    /\ ~cache.exists
    /\ queued' = FALSE
    /\ UNCHANGED <<api, cache, agent, kern, pod, changes, faults>>

\* A deletion timestamp: release every device the object owns.
StartRelease ==
    /\ agent.pc = "idle" /\ queued
    /\ cache.exists /\ cache.del
    /\ agent' = [Idle EXCEPT !.pc = "release", !.copy = cache,
                             !.drop = Owned(cache.devices),
                             !.final = cache.devices]
    /\ queued' = FALSE
    /\ UNCHANGED <<api, cache, kern, pod, changes, faults>>

\* writeUniformStatus: no cgroup yet, or one without io.max.
StartUniform ==
    /\ agent.pc = "idle" /\ queued
    /\ cache.exists /\ ~cache.del
    /\ pod.cgroup # "up"
    /\ agent' = [Idle EXCEPT !.pc = "status", !.copy = cache,
            !.final = cache.devices,
            !.outcome = [v \in Volumes |->
                CASE cache.spec[v] = NoRule -> "None"
                  [] OTHER -> IF pod.cgroup = "absent" THEN "CgroupNotFound"
                              ELSE "IOControllerDisabled"]]
    /\ queued' = FALSE
    /\ UNCHANGED <<api, cache, kern, pod, changes, faults>>

\* Resolve the volumes, group them by device and compare with what is owned.
StartApply ==
    /\ agent.pc = "idle" /\ queued
    /\ cache.exists /\ ~cache.del
    /\ pod.cgroup = "up"
    /\ \E bad \in SUBSET Flaky :
        LET outcome == Resolve(cache.spec, bad)
            desired == GroupByDevice(cache.spec, outcome)
            wanted  == {d \in Devices : desired[d] # NoRule}
        IN agent' = [Idle EXCEPT
              !.pc = IF ChangedDevices(cache.devices, desired) = {}
                     THEN "read" ELSE "intent",
              !.copy = cache, !.desired = desired, !.todo = wanted,
              !.drop = Owned(cache.devices) \ wanted,
              !.final = cache.devices, !.outcome = outcome]
    /\ queued' = FALSE
    /\ UNCHANGED <<api, cache, kern, pod, changes, faults>>

\* recordDeviceIntent with its Status().Update accepted.
RecordDeviceIntent ==
    /\ agent.pc = "intent"
    /\ Current(agent.copy)
    /\ Publish([agent.copy EXCEPT
                  !.devices = IntentDevices(@, agent.desired)])
    /\ agent' = [agent EXCEPT !.pc = "read", !.copy = server',
                              !.final = server'.devices]
    /\ UNCHANGED <<cache, queued, kern, pod, changes, faults>>

\* ... or refused: requeue, the kernel untouched.
IntentConflict ==
    /\ agent.pc = "intent"
    /\ ~Current(agent.copy)
    /\ Retry
    /\ UNCHANGED <<api, cache, kern, pod, changes, faults>>

\* io.max is read once, before the first kernel write.
ReadIOMax ==
    /\ agent.pc = "read"
    /\ agent' = [agent EXCEPT !.pc = "write", !.seen = kernel]
    /\ UNCHANGED <<api, cache, queued, kern, pod, changes, faults>>

\* The device's outcome goes to every volume that shares it.
SetOutcome(a, d, reason) ==
    [v \in Volumes |-> IF a.outcome[v] = "Resolved" /\ DeviceOf[v] = d
                       THEN reason ELSE a.outcome[v]]

Applied(a, d) ==
    [a EXCEPT !.todo = @ \ {d},
              !.final[d] = [rule |-> a.desired[d], state |-> "Applied"],
              !.outcome = SetOutcome(a, d, "Applied")]

\* Mutants: a failed device gets a state of its own, outside the CRD's enum;
\* an error is taken for success.
FailedState(a, d, reason) ==
    [a EXCEPT !.todo = @ \ {d}, !.final[d].state = "Failed",
              !.outcome = SetOutcome(a, d, reason)]
FailedIgnored(a, d, reason) == Applied(a, d)

\* The device's entry is left as it was read or recorded.
Failed(a, d, reason) ==
    [a EXCEPT !.todo = @ \ {d}, !.outcome = SetOutcome(a, d, reason)]

\* applyDevice, the line already there: no write.
SkipDevice(d) ==
    /\ agent.pc = "write" /\ d \in agent.todo
    /\ agent.seen[d] = agent.desired[d]
    /\ agent' = Applied(agent, d)
    /\ UNCHANGED <<api, cache, queued, kern, pod, changes, faults>>

\* applyDevice, written and read back.
WriteDevice(d) ==
    /\ agent.pc = "write" /\ d \in agent.todo
    /\ agent.seen[d] # agent.desired[d]
    /\ pod.cgroup = "up"
    /\ kernel' = [kernel EXCEPT ![d] = agent.desired[d]]
    /\ writer' = [writer EXCEPT ![d] = "agent"]
    /\ agent' = Applied(agent, d)
    /\ UNCHANGED <<api, cache, queued, pod, changes, faults>>

\* applyDevice, the write fails: the cgroup is gone or the kernel refuses.
WriteRejected(d) ==
    /\ agent.pc = "write" /\ d \in agent.todo
    /\ agent.seen[d] # agent.desired[d]
    /\ \/ pod.cgroup # "up" /\ UNCHANGED faults
       \/ pod.cgroup = "up" /\ faults < MaxFaults /\ faults' = faults + 1
    /\ agent' = Failed(agent, d, "KernelRejected")
    /\ UNCHANGED <<api, cache, queued, kern, pod, changes>>

\* applyDevice, the line read back is not the one written (or unreadable).
WriteMismatch(d) ==
    /\ agent.pc = "write" /\ d \in agent.todo
    /\ agent.seen[d] # agent.desired[d]
    /\ pod.cgroup = "up" /\ faults < MaxFaults /\ faults' = faults + 1
    /\ \E r \in Rule : kernel' = [kernel EXCEPT ![d] = r]
    /\ writer' = [writer EXCEPT ![d] = "garbled"]
    /\ agent' = Failed(agent, d, "KernelMismatch")
    /\ UNCHANGED <<api, cache, queued, pod, changes>>

\* May this device be reset now?  Reconcile resets after every apply;
\* release has nothing to apply.
Resettable(d) == /\ agent.pc \in {"write", "release"}
                 /\ agent.todo = {} /\ d \in agent.drop

\* resetDevice and release's loop: a missing cgroup counts as reset.
ResetDevice(d) ==
    /\ Resettable(d)
    /\ kernel' = [kernel EXCEPT ![d] = NoRule]
    /\ writer' = [writer EXCEPT ![d] = "nobody"]
    /\ agent' = [agent EXCEPT !.drop = @ \ {d}, !.final[d] = NotOwned]
    /\ UNCHANGED <<api, cache, queued, pod, changes, faults>>

\* Mutant: a failed reset gives the device up.
ResetFailsForgets(d) ==
    /\ Resettable(d)
    /\ pod.cgroup = "up" /\ faults < MaxFaults /\ faults' = faults + 1
    /\ agent' = [agent EXCEPT !.drop = @ \ {d}, !.final[d] = NotOwned]
    /\ UNCHANGED <<api, cache, queued, kern, pod, changes>>

\* A failed reset keeps the entry, for a later reconcile to retry.
ResetFails(d) ==
    /\ Resettable(d)
    /\ pod.cgroup = "up" /\ faults < MaxFaults /\ faults' = faults + 1
    /\ agent' = [agent EXCEPT !.drop = @ \ {d}]
    /\ UNCHANGED <<api, cache, queued, kern, pod, changes>>

KernelStep == \E d \in Devices :
    \/ SkipDevice(d) \/ WriteDevice(d) \/ WriteRejected(d)
    \/ WriteMismatch(d) \/ ResetDevice(d) \/ ResetFails(d)

\* Every kernel write is done: the status is next.
KernelDone ==
    /\ agent.pc \in {"write", "release"}
    /\ agent.todo = {} /\ agent.drop = {}
    /\ agent' = [agent EXCEPT !.pc = "status"]
    /\ UNCHANGED <<api, cache, queued, kern, pod, changes, faults>>

\* writeStatusIfChanged compares with the cached object, not the server's.
StatusUnchanged ==
    /\ agent.pc = "status"
    /\ cache.exists /\ SameStatus(NewStatus(agent), cache)
    /\ agent' = Idle
    /\ queued' = (queued \/ RequeueAfter(agent))
    /\ UNCHANGED <<api, cache, kern, pod, changes, faults>>

WriteStatus ==
    /\ agent.pc = "status"
    /\ cache.exists /\ ~SameStatus(NewStatus(agent), cache)
    /\ Current(agent.copy)
    /\ Publish(NewStatus(agent))
    /\ agent' = Idle
    /\ queued' = (queued \/ RequeueAfter(agent))
    /\ UNCHANGED <<cache, kern, pod, changes, faults>>

\* Refused, or the object is no longer in the cache: requeue.
StatusConflict ==
    /\ agent.pc = "status"
    /\ \/ ~cache.exists
       \/ ~SameStatus(NewStatus(agent), cache) /\ ~Current(agent.copy)
    /\ Retry
    /\ UNCHANGED <<api, cache, kern, pod, changes, faults>>

\* An update that fails otherwise is retried; it may still have been stored.
UpdateFails ==
    /\ \/ agent.pc = "intent"
       \/ agent.pc = "status" /\ cache.exists
          /\ ~SameStatus(NewStatus(agent), cache)
    /\ faults < MaxFaults /\ faults' = faults + 1
    /\ \/ UNCHANGED api
       \/ /\ agent.pc = "intent" /\ Current(agent.copy)
          /\ Publish([agent.copy EXCEPT
                        !.devices = IntentDevices(@, agent.desired)])
       \/ /\ agent.pc = "status" /\ Current(agent.copy)
          /\ Publish(NewStatus(agent))
    /\ Retry
    /\ UNCHANGED <<cache, kern, pod, changes>>

\* The agent process dies and is restarted: its locals are lost, and the
\* informer's first list enqueues the object.  A hard error reading the cgroup,
\* mountinfo or io.max ends the reconcile the same way.
Crash ==
    /\ agent.pc # "idle"
    /\ faults < MaxFaults /\ faults' = faults + 1
    /\ Retry
    /\ UNCHANGED <<api, cache, kern, pod, changes>>

AgentStep ==
    \/ StartGone \/ StartRelease \/ StartUniform \/ StartApply
    \/ RecordDeviceIntent \/ IntentConflict \/ ReadIOMax \/ KernelStep
    \/ KernelDone \/ StatusUnchanged \/ WriteStatus \/ StatusConflict
    \/ UpdateFails

----------------------------------------------------------------------------
(* The environment: what the controller, the kubelet and other writers of  *)
(* io.max do to the object, the pod and the kernel.                        *)

Change == changes < MaxChanges /\ changes' = changes + 1

\* createPodIOLimit; the CRD wants at least one volume.
CreateObject ==
    /\ ~server.exists /\ pod.live
    /\ Change
    /\ \E s \in Specs :
        /\ \E v \in Volumes : s[v] # NoRule
        /\ Publish([NoObject EXCEPT !.exists = TRUE, !.gen = 1, !.spec = s])
    /\ UNCHANGED <<cache, agent, queued, kern, pod, faults>>

\* patchIfDiffer, from a cache that may not show the deletion yet.
PatchSpec ==
    /\ server.exists
    /\ Change
    /\ \E s \in Specs :
        /\ \E v \in Volumes : s[v] # NoRule
        /\ s # server.spec
        /\ Publish([server EXCEPT !.gen = @ + 1, !.spec = s])
    /\ UNCHANGED <<cache, agent, queued, kern, pod, faults>>

\* Delete sets the deletion timestamp; the finalizer keeps the object.
DeleteObject ==
    /\ server.exists /\ ~server.del
    /\ Change
    /\ Publish([server EXCEPT !.gen = @ + 1, !.del = TRUE])
    /\ UNCHANGED <<cache, agent, queued, kern, pod, faults>>

\* The controller lets a deleted object go once no device is owned, or at
\* once when its pod is gone or terminal.
RemoveFinalizer ==
    /\ server.exists /\ server.del
    /\ server.devices = Unowned \/ ~pod.live
    /\ Publish(NoObject)
    /\ UNCHANGED <<cache, agent, queued, kern, pod, changes, faults>>

\* The kubelet creates the pod cgroup; io.max is in it once the parent
\* delegates the io controller.
CgroupUp ==
    /\ \/ /\ pod.live /\ pod.cgroup = "absent"
          /\ pod' \in {[pod EXCEPT !.cgroup = c] : c \in {"up", "noio"}}
       \/ /\ pod.cgroup = "noio"
          /\ pod' = [pod EXCEPT !.cgroup = "up"]
    /\ UNCHANGED <<api, cache, agent, queued, kern, changes, faults>>

\* The kubelet mounts the pod's volumes.
MountVolumes ==
    /\ pod.live /\ ~pod.mounted
    /\ pod' = [pod EXCEPT !.mounted = TRUE]
    /\ UNCHANGED <<api, cache, agent, queued, kern, changes, faults>>

\* The pod reaches a terminal phase or is deleted.
PodEnds ==
    /\ pod.live
    /\ pod' = [pod EXCEPT !.live = FALSE]
    /\ UNCHANGED <<api, cache, agent, queued, kern, changes, faults>>

\* The kubelet tears it down: mounts, then the cgroup with its rules.
TearDown ==
    /\ ~pod.live
    /\ \/ /\ pod.mounted
          /\ pod' = [pod EXCEPT !.mounted = FALSE] /\ UNCHANGED kern
       \/ /\ ~pod.mounted /\ pod.cgroup # "absent"
          /\ pod' = [pod EXCEPT !.cgroup = "absent"]
          /\ kernel' = NoRules
          /\ writer' = [d \in Devices |-> "nobody"]
    /\ UNCHANGED <<api, cache, agent, queued, changes, faults>>

\* Another writer, or systemd re-realizing the slice, changes a line.
Drift ==
    /\ pod.cgroup = "up"
    /\ faults < MaxFaults /\ faults' = faults + 1
    /\ \E d \in Devices : \E r \in Rule \ {kernel[d]} :
        /\ kernel' = [kernel EXCEPT ![d] = r]
        /\ writer' = [writer EXCEPT ![d] = "other"]
    /\ UNCHANGED <<api, cache, agent, queued, pod, changes>>

EnvStep == \/ CreateObject \/ PatchSpec \/ DeleteObject \/ CgroupUp
           \/ MountVolumes \/ PodEnds \/ TearDown \/ Drift

----------------------------------------------------------------------------

Init ==
    /\ server = NoObject /\ versions = {NoObject} /\ cache = NoObject
    /\ agent = Idle /\ queued = FALSE
    /\ kernel = NoRules /\ writer = [d \in Devices |-> "nobody"]
    /\ pod = [live |-> TRUE, cgroup |-> "absent", mounted |-> FALSE]
    /\ changes = 0 /\ faults = 0

Next == Sync \/ AgentStep \/ Crash \/ RemoveFinalizer \/ EnvStep

Spec == Init /\ [][Next]_vars

\* The informer, the agent's single worker and the controller keep running.
Fairness == WF_vars(Sync) /\ WF_vars(AgentStep) /\ WF_vars(RemoveFinalizer)

FairSpec == Spec /\ Fairness

----------------------------------------------------------------------------
(* Properties.                                                             *)

\* Every variable stays in its type.
TypeOK ==
    /\ server \in PodIOLimit
    /\ versions \subseteq PodIOLimit
    /\ cache \in PodIOLimit
    /\ agent \in Reconcile
    /\ queued \in BOOLEAN
    /\ kernel \in [Devices -> Rule]
    /\ writer \in [Devices -> {"nobody", "agent", "garbled", "other"}]
    /\ pod \in [live : BOOLEAN, cgroup : {"absent", "noio", "up"},
                mounted : BOOLEAN]
    /\ changes \in 0..MaxChanges
    /\ faults \in 0..MaxFaults

\* D8 and D9: while the pod lives, a rule the agent wrote to the kernel is in
\* status.devices of the object on the server: it is on record before it is
\* written, through conflicts, crashes, lost answers and failed writes, and
\* no rule outlives the object.
Recorded ==
    pod.live => \A d \in Devices :
        writer[d] \in {"agent", "garbled"} => server.devices[d] # NotOwned

\* Reference: what a spec asks of a device is, key by key, the tightest limit
\* any volume on it has.
Tightest(spec, d) ==
    LET asked(k) == {spec[v][k] : v \in {u \in Volumes : DeviceOf[u] = d}}
                    \ {NoLimit}
    IN [k \in Keys |-> IF asked(k) = {} THEN NoLimit ELSE Min(asked(k))]

\* An object that reports Ready=Applied for its current generation has its
\* rules in the kernel, whatever stale copy the agent is working from; only
\* a device whose reset failed may hold a rule that is not asked for, and it
\* is still owned.  Lines others wrote or the kernel garbled are drift.
Truthful ==
    /\ server.exists /\ ~server.del /\ pod.live
    /\ server.ready = "Applied" /\ server.ogen = server.gen
    => \A d \in Devices :
          \/ writer[d] \in {"garbled", "other"}
          \/ kernel[d] = Tightest(server.spec, d)
          \/ Tightest(server.spec, d) = NoRule /\ server.devices[d] # NotOwned

\* D9: once the object is being deleted no device is added to its record, so
\* an empty record may be trusted to remove the finalizer.
NoNewDeviceWhileDeleting ==
    [][server.del => Owned(server'.devices) \subseteq Owned(server.devices)]_vars

\* D8, D9: seen through the stored object, the agent, with its stale copies,
\* retries and crashes, is one party of the handshake and nothing more.
H == INSTANCE Handshake WITH
        exists <- server.exists, del <- server.del,
        owned <- Owned(server.devices), live <- pod.live
KeepsHandshake == H!Spec

\* D9: the deletion handshake ends.
DeletionCompletes == (server.exists /\ server.del) ~> ~server.exists

\* D11: once the environment and the faults come to rest, the agent settles
\* with the rules asked for, and no other of its own, in the kernel and on
\* record, and Ready for the current generation.
Settled ==
    /\ server.exists /\ ~server.del
    /\ pod = [live |-> TRUE, cgroup |-> "up", mounted |-> TRUE]
    => /\ \A d \in Devices : LET r == Tightest(server.spec, d) IN
            /\ kernel[d] = r \/ (r = NoRule /\ writer[d] = "other")
            /\ server.devices[d] = IF r = NoRule THEN NotOwned
                                   ELSE [rule |-> r, state |-> "Applied"]
       /\ server.ogen = server.gen
       /\ server.ready = IF server.devices = Unowned THEN "Unsupported"
                         ELSE "Applied"
EventuallySettled == <>[]Settled
=============================================================================
