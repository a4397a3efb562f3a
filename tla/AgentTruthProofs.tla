-------------------------- MODULE AgentTruthProofs --------------------------
(* Proof that Ready=Applied is true (Agent's Truthful), for any volumes,   *)
(* devices, limits and bounds.  It rests on the ownership invariant of     *)
(* AgentProofs.                                                            *)
EXTENDS AgentProofs

----------------------------------------------------------------------------
(* The inductive invariant.                                                *)

\* The object claims that its rules are in the kernel.
Claims(o) == o.exists /\ ~o.del /\ o.ready = "Applied" /\ o.ogen = o.gen

\* A claim is for the newest spec, and every copy the agent may still work
\* from has that spec: a claim is accepted only over the version it was
\* computed from, and a later edit withdraws it by its generation.
Agreed ==
    /\ server.ogen <= server.gen
    /\ Claims(server) =>
          /\ \A w \in versions : w.spec = server.spec /\ w.del = server.del
          /\ agent.pc # "idle" => agent.copy.spec = server.spec /\ ~agent.copy.del

\* A line nobody wrote is not there.
Pristine == \A d \in Devices : writer[d] = "nobody" => kernel[d] = NoRule

Drifted(d) == writer[d] \in {"garbled", "other"}

\* The reconcile applies the tightest limit of the spec it works on.
Intended ==
    pod.live => \A d \in agent.todo :
        agent.desired[d] = Tightest(agent.copy.spec, d)

\* What it read of io.max stays true of a device until it gets there, unless
\* the line drifts.
Observed ==
    pod.live /\ agent.pc = "write" =>
        \A d \in agent.todo : agent.seen[d] = kernel[d] \/ Drifted(d)

\* What it reports of each volume on a device: nothing listed is passed over,
\* Resolved is still to be applied, and Applied is in the kernel.
Accounted ==
    pod.live /\ agent.pc # "idle" /\ ~agent.copy.del =>
        \A v \in Volumes :
            /\ Throttleable(v) /\ agent.copy.spec[v] # NoRule
                  => agent.outcome[v] \notin {"None", "Unsupported"}
            /\ agent.outcome[v] = "Resolved" => DeviceOf[v] \in agent.todo
            /\ agent.outcome[v] = "Applied" /\ DeviceOf[v] \in Devices =>
                  \/ Drifted(DeviceOf[v])
                  \/ kernel[DeviceOf[v]] = Tightest(agent.copy.spec, DeviceOf[v])

\* The status comes after every device.
Finished == agent.pc = "status" => agent.todo = {}

WorkInv == Pristine /\ Intended /\ Observed /\ Accounted /\ Finished

----------------------------------------------------------------------------
(* Helpers.                                                                *)

\* A device some listed volume is on is asked for a limit, any other for none.
LEMMA TightestAsked ==
    ASSUME NEW spec \in [Volumes -> Rule], NEW d \in Devices
    PROVE  Tightest(spec, d) # NoRule
              <=> \E v \in Volumes : spec[v] # NoRule /\ DeviceOf[v] = d
<1> DEFINE asked(k) == {spec[v][k] : v \in {u \in Volumes : DeviceOf[u] = d}}
<1>1. Tightest(spec, d) = [k \in Keys |-> Least(asked(k))]
    BY DEF Tightest, Least
<1>2. ASSUME NEW k \in Keys PROVE asked(k) \subseteq Limits \cup {NoLimit}
    BY DEF Rule
<1> HIDE DEF asked
<1>3. \A k \in Keys : /\ Least(asked(k)) \in Limits \cup {NoLimit}
                      /\ Least(asked(k)) # NoLimit <=> asked(k) \ {NoLimit} # {}
    BY <1>2, LeastType
<1>4. Tightest(spec, d) \in Rule
    BY <1>1, <1>3 DEF Rule
<1>5. Tightest(spec, d) # NoRule <=> \E k \in Keys : asked(k) \ {NoLimit} # {}
    BY <1>1, <1>3, <1>4, RuleFacts
<1>6. \A k \in Keys : asked(k) \ {NoLimit} # {}
        <=> \E v \in Volumes : DeviceOf[v] = d /\ spec[v][k] # NoLimit
    BY DEF asked
<1> QED BY <1>5, <1>6, RuleFacts

\* What recordDeviceIntent leaves alone.
LEMMA IntentKeeps ==
    ASSUME NEW o \in PodIOLimit, NEW desired \in [Devices -> Rule]
    PROVE  LET n == [o EXCEPT !.devices = IntentDevices(@, desired)] IN
           n.gen = o.gen /\ n.ogen = o.ogen /\ n.ready = o.ready
BY DEF PodIOLimit

\* What a status write says.
LEMMA StatusSays ==
    ASSUME NEW a \in Reconcile
    PROVE  /\ NewStatus(a).gen = a.copy.gen
           /\ a.copy.del => NewStatus(a).ogen = a.copy.ogen
           /\ ~a.copy.del => /\ NewStatus(a).ogen = a.copy.gen
                             /\ NewStatus(a).ready = AggregateReady(a.outcome)
<1>1. a.copy \in PodIOLimit
    BY DEF Reconcile
<1>2. CASE a.copy.del
    BY <1>1, <1>2 DEF NewStatus, PodIOLimit
<1>3. CASE ~a.copy.del
    BY <1>1, <1>3 DEF NewStatus, PodIOLimit
<1> QED BY <1>2, <1>3

\* Ready=Applied means that no volume failed or is pending.
LEMMA AppliedMeans ==
    ASSUME NEW vols \in [Volumes -> Reason], AggregateReady(vols) = "Applied"
    PROVE  \A v \in Volumes : vols[v] \in {"None", "Unsupported", "Resolved", "Applied"}
<1>1. ~ \E v \in Volumes :
          vols[v] \in {"KernelRejected", "KernelMismatch", "IOControllerDisabled"}
    BY DEF AggregateReady
<1>2. ~ \E v \in Volumes : vols[v] \in {"CgroupNotFound", "VolumeNotMounted"}
    BY <1>1 DEF AggregateReady
<1> QED BY <1>1, <1>2 DEF Reason

\* A pod does not come back to life.
LEMMA NoResurrection ==
    ASSUME TypeOK, [Next]_vars
    PROVE  pod'.live => pod.live
BY DEF Next, AgentStep, EnvStep, Sync, StartGone, StartRelease,
       StartUniform, StartApply, RecordDeviceIntent, IntentConflict,
       ReadIOMax, KernelStep, SkipDevice, WriteDevice, WriteRejected,
       WriteMismatch, ResetDevice, ResetFails, KernelDone,
       StatusUnchanged, WriteStatus, StatusConflict, UpdateFails, Crash,
       CreateObject, PatchSpec, DeleteObject, RemoveFinalizer, CgroupUp,
       MountVolumes, PodEnds, TearDown, Drift, vars, TypeOK

\* Types of the parts, as the steps below need them.
LEMMA PartTypes ==
    ASSUME TypeOK
    PROVE  /\ server \in PodIOLimit /\ cache \in PodIOLimit /\ agent \in Reconcile
           /\ agent.copy \in PodIOLimit /\ agent.desired \in [Devices -> Rule]
           /\ agent.seen \in [Devices -> Rule]
           /\ agent.final \in DevicesType /\ agent.outcome \in [Volumes -> Reason]
           /\ agent.todo \in SUBSET Devices /\ agent.drop \in SUBSET Devices
           /\ cache.spec \in [Volumes -> Rule] /\ server.spec \in [Volumes -> Rule]
           /\ server.devices \in DevicesType /\ cache.devices \in DevicesType
           /\ kernel \in [Devices -> Rule]
           /\ writer \in [Devices -> {"nobody", "agent", "garbled", "other"}]
           /\ server.gen \in Nat /\ server.ogen \in Nat
BY DEF TypeOK, Reconcile, PodIOLimit

----------------------------------------------------------------------------
(* The copies agree.                                                       *)

\* The agent stores a new status over the version it worked from.
LEMMA AgreedUpdate ==
    ASSUME TypeOK, Agreed, NEW o \in PodIOLimit, Publish(o),
           o.spec = server.spec, o.del = server.del, o.ogen <= o.gen,
           \A w \in versions : w.spec = server.spec /\ w.del = server.del,
           agent'.pc = "idle" \/ agent'.copy = server'
    PROVE  Agreed'
<1>1. /\ server'.spec = o.spec /\ server'.del = o.del
      /\ server'.ogen = o.ogen /\ server'.gen = o.gen
      /\ versions' = versions \cup {server'}
    BY PublishFacts
<1>2. \A w \in versions' : w.spec = server'.spec /\ w.del = server'.del
    BY <1>1
<1> QED BY <1>1, <1>2 DEF Agreed, Claims

\* The environment stores a version that claims nothing.
LEMMA AgreedEdit ==
    ASSUME TypeOK, NEW o \in PodIOLimit, Publish(o), ~Claims(o), o.ogen <= o.gen
    PROVE  Agreed' /\ ~Claims(server')
<1>1. /\ server'.exists = o.exists /\ server'.del = o.del
      /\ server'.ready = o.ready
      /\ server'.ogen = o.ogen /\ server'.gen = o.gen
    BY PublishFacts
<1> QED BY <1>1 DEF Agreed, Claims

\* What the environment stores claims nothing: a new object, a new spec, a
\* deletion mark, or none.
LEMMA EditClaimsNothing ==
    ASSUME TypeOK, Agreed,
           CreateObject \/ PatchSpec \/ DeleteObject \/ RemoveFinalizer
    PROVE  Agreed' /\ ~Claims(server')
<1>s. server \in PodIOLimit /\ server.gen \in Nat /\ server.ogen \in Nat
    BY PartTypes
<1>1. CASE CreateObject
  <2>1. PICK v \in [Volumes -> Rule] :
          Publish([NoObject EXCEPT !.exists = TRUE, !.gen = 1, !.spec = v])
      BY <1>1, AgentAssumption, Zenon DEF CreateObject
  <2> DEFINE o == [NoObject EXCEPT !.exists = TRUE, !.gen = 1, !.spec = v]
  <2>2. o \in PodIOLimit
      BY ConstantTypes DEF PodIOLimit
  <2>3. o.ogen = 0 /\ o.gen = 1
      BY DEF NoObject
  <2>4. Publish(o)
      BY <2>1
  <2> HIDE DEF o
  <2> QED BY <2>2, <2>3, <2>4, AgreedEdit DEF Claims
<1>2. CASE PatchSpec
  <2>1. PICK v \in [Volumes -> Rule] :
          Publish([server EXCEPT !.gen = @ + 1, !.spec = v])
      BY <1>2, AgentAssumption, Zenon DEF PatchSpec
  <2> DEFINE o == [server EXCEPT !.gen = @ + 1, !.spec = v]
  <2>2. o \in PodIOLimit
      BY <1>s, NextGen
  <2>3. o.ogen = server.ogen /\ o.gen = server.gen + 1
      BY <1>s DEF PodIOLimit
  <2>4. Publish(o)
      BY <2>1
  <2> HIDE DEF o
  <2>5. o.ogen < o.gen /\ o.ogen <= o.gen /\ o.ogen # o.gen
      BY <1>s, <2>3 DEF Agreed
  <2> QED BY <2>2, <2>4, <2>5, AgreedEdit DEF Claims
<1>3. CASE DeleteObject
  <2> DEFINE o == [server EXCEPT !.gen = @ + 1, !.del = TRUE]
  <2>1. Publish(o)
      BY <1>3, Zenon DEF DeleteObject
  <2>2. o \in PodIOLimit
      BY <1>s, NextGen
  <2>3. o.ogen = server.ogen /\ o.gen = server.gen + 1
      BY <1>s DEF PodIOLimit
  <2> HIDE DEF o
  <2>4. o.ogen <= o.gen /\ o.ogen # o.gen
      BY <1>s, <2>3 DEF Agreed
  <2> QED BY <2>1, <2>2, <2>4, AgreedEdit DEF Claims
<1>4. CASE RemoveFinalizer
  <2>1. Publish(NoObject)
      BY <1>4, Zenon DEF RemoveFinalizer
  <2>2. ~NoObject.exists /\ NoObject.ogen <= NoObject.gen
      BY DEF NoObject
  <2> QED BY <2>1, <2>2, ConstantTypes, AgreedEdit DEF Claims
<1> QED BY <1>1, <1>2, <1>3, <1>4

\* recordDeviceIntent's update, stored.
LEMMA IntentStored ==
    ASSUME TypeOK, ProtocolInv, Agreed, agent.pc = "intent", Current(agent.copy),
           Publish([agent.copy EXCEPT !.devices = IntentDevices(@, agent.desired)]),
           agent'.pc = "idle" \/ agent'.copy = server'
    PROVE  /\ Agreed'
           /\ agent.copy = server
           /\ server'.spec = server.spec /\ server'.del = server.del
           /\ Claims(server') <=> Claims(server)
           /\ \A d \in Devices :
                 server.devices[d] # NotOwned => server'.devices[d] # NotOwned
<1> DEFINE o == [agent.copy EXCEPT !.devices = IntentDevices(@, agent.desired)]
<1>s. /\ agent.copy \in PodIOLimit /\ agent.desired \in [Devices -> Rule]
    BY PartTypes
<1>1. /\ agent.copy = server
      /\ \A w \in versions : w.spec = server.spec /\ w.del = server.del
    BY AcceptedCopy DEF ProtocolInv
<1>2. /\ o \in PodIOLimit /\ o.exists = agent.copy.exists
      /\ o.del = agent.copy.del /\ o.spec = agent.copy.spec
      /\ \A d \in Devices : agent.copy.devices[d] # NotOwned => o.devices[d] # NotOwned
    BY <1>s, IntentFacts
<1>3. o.gen = agent.copy.gen /\ o.ogen = agent.copy.ogen /\ o.ready = agent.copy.ready
    BY <1>s, IntentKeeps
<1>4. Publish(o)
    OBVIOUS
<1> HIDE DEF o
<1>5. Agreed'
  <2>1. o.ogen <= o.gen /\ o.spec = server.spec /\ o.del = server.del
      BY <1>1, <1>2, <1>3 DEF Agreed
  <2> QED BY <1>1, <1>2, <1>4, <2>1, AgreedUpdate
<1>6. /\ server'.exists = o.exists /\ server'.del = o.del
      /\ server'.gen = o.gen /\ server'.spec = o.spec
      /\ server'.devices = o.devices /\ server'.ogen = o.ogen
      /\ server'.ready = o.ready
    BY <1>2, <1>4, PublishFacts
<1> QED BY <1>1, <1>2, <1>3, <1>5, <1>6 DEF Claims

\* The status update, stored.
LEMMA StatusStored ==
    ASSUME TypeOK, ProtocolInv, Agreed, agent.pc = "status", Current(agent.copy),
           Publish(NewStatus(agent)), agent'.pc = "idle"
    PROVE  /\ Agreed'
           /\ agent.copy = server
           /\ server'.spec = server.spec /\ server'.devices = agent.final
           /\ Claims(server') => /\ ~agent.copy.del
                                 /\ AggregateReady(agent.outcome) = "Applied"
<1> DEFINE o == NewStatus(agent)
<1>s. agent \in Reconcile /\ server.gen \in Nat
    BY PartTypes
<1>1. /\ agent.copy = server
      /\ \A w \in versions : w.spec = server.spec /\ w.del = server.del
    BY AcceptedCopy DEF ProtocolInv
<1>2. /\ o \in PodIOLimit /\ o.del = agent.copy.del
      /\ o.spec = agent.copy.spec /\ o.devices = agent.final
    BY <1>s, StatusFacts
<1>3. /\ o.gen = agent.copy.gen
      /\ agent.copy.del => o.ogen = agent.copy.ogen
      /\ ~agent.copy.del => /\ o.ogen = agent.copy.gen
                            /\ o.ready = AggregateReady(agent.outcome)
    BY <1>s, StatusSays
<1>4. Publish(o)
    OBVIOUS
<1> HIDE DEF o
<1>5. o.ogen <= o.gen /\ o.spec = server.spec /\ o.del = server.del
  <2>1. agent.copy.del \in BOOLEAN
      BY <1>s DEF Reconcile, PodIOLimit
  <2> QED BY <1>s, <1>1, <1>2, <1>3, <2>1 DEF Agreed
<1>6. Agreed'
    BY <1>1, <1>2, <1>4, <1>5, AgreedUpdate
<1>7. /\ server'.del = o.del /\ server'.spec = o.spec
      /\ server'.devices = o.devices /\ server'.ready = o.ready
    BY <1>2, <1>4, PublishFacts
<1> QED BY <1>1, <1>2, <1>3, <1>6, <1>7 DEF Claims

\* Every step keeps the copies in agreement.
LEMMA AgreedStep ==
    ASSUME TypeOK, ProtocolInv, Agreed, [Next]_vars
    PROVE  Agreed'
<1> USE IdleFields
<1>p. Lineage
    BY DEF ProtocolInv
\* Nothing is stored, and the reconcile goes on or ends.
<1>a. ASSUME UNCHANGED <<server, versions>>,
             agent' = Idle \/ (agent'.copy = agent.copy /\ agent.pc # "idle")
                \/ agent' = agent
      PROVE  Agreed'
    BY <1>a DEF Agreed
\* A reconcile starts from the cache.
<1>b. ASSUME UNCHANGED <<server, versions>>, agent'.copy = cache
      PROVE  Agreed'
  <2>1. cache \in versions
      BY <1>p DEF Lineage
  <2> QED BY <1>b, <2>1 DEF Agreed, Claims
<1>1. CASE Sync
  <2>1. versions' \subseteq versions /\ UNCHANGED <<server, agent>>
      BY <1>1 DEF Sync
  <2> QED BY <2>1 DEF Agreed
<1>2. CASE StartGone \/ CgroupUp \/ MountVolumes \/ PodEnds \/ TearDown \/ Drift
           \/ UNCHANGED vars
    BY <1>2, <1>a DEF StartGone, CgroupUp, MountVolumes, PodEnds, TearDown,
                      Drift, vars, api
<1>3. CASE StartRelease \/ StartUniform
  <2>1. agent'.copy = cache /\ UNCHANGED <<server, versions>>
      BY <1>3 DEF StartRelease, StartUniform, Idle, api
  <2> QED BY <1>b, <2>1
<1>4. CASE StartApply
  <2>1. agent'.copy = cache /\ UNCHANGED <<server, versions>>
      BY <1>4 DEF StartApply, Idle, api
  <2> QED BY <1>b, <2>1
<1>5. CASE RecordDeviceIntent
  <2>1. /\ agent.pc = "intent" /\ Current(agent.copy)
        /\ Publish([agent.copy EXCEPT !.devices = IntentDevices(@, agent.desired)])
        /\ agent' = [agent EXCEPT !.pc = "read", !.copy = server',
                                  !.final = server'.devices]
      BY <1>5, Zenon DEF RecordDeviceIntent
  <2>2. agent'.copy = server'
    <3>1. agent \in Reconcile
        BY PartTypes
    <3> QED BY <2>1, <3>1 DEF Reconcile
  <2> QED BY <2>1, <2>2, IntentStored
<1>6. CASE IntentConflict \/ StatusUnchanged \/ StatusConflict \/ Crash
    BY <1>6, <1>a DEF IntentConflict, StatusUnchanged, StatusConflict, Crash,
                      Retry, api
<1>7. CASE ReadIOMax \/ KernelDone
  <2>1. agent'.copy = agent.copy /\ agent.pc # "idle" /\ UNCHANGED <<server, versions>>
    <3>1. agent \in Reconcile
        BY PartTypes
    <3> QED BY <1>7, <3>1 DEF ReadIOMax, KernelDone, Reconcile, api
  <2> QED BY <1>a, <2>1
<1>8. CASE KernelStep
  <2>1. agent'.copy = agent.copy /\ agent.pc # "idle" /\ UNCHANGED <<server, versions>>
    <3>1. agent \in Reconcile
        BY PartTypes
    <3> QED BY <1>8, <3>1 DEF KernelStep, SkipDevice, WriteDevice, WriteRejected,
                 WriteMismatch, ResetDevice, ResetFails, Resettable, Applied,
                 Failed, Reconcile, api
  <2> QED BY <1>a, <2>1
<1>9. CASE WriteStatus
  <2>1. /\ agent.pc = "status" /\ Current(agent.copy)
        /\ Publish(NewStatus(agent)) /\ agent' = Idle
      BY <1>9, Zenon DEF WriteStatus
  <2> QED BY <2>1, StatusStored
<1>10. CASE UpdateFails
  <2>1. agent' = Idle
      BY <1>10, Zenon DEF UpdateFails, Retry
  <2>2. \/ UNCHANGED api
        \/ /\ agent.pc = "intent" /\ Current(agent.copy)
           /\ Publish([agent.copy EXCEPT
                         !.devices = IntentDevices(@, agent.desired)])
        \/ /\ agent.pc = "status" /\ Current(agent.copy)
           /\ Publish(NewStatus(agent))
      BY <1>10, Zenon DEF UpdateFails
  <2>3. CASE UNCHANGED api
      BY <1>a, <2>1, <2>3 DEF api
  <2> QED BY <2>1, <2>2, <2>3, IntentStored, StatusStored
<1>11. CASE CreateObject \/ PatchSpec \/ DeleteObject \/ RemoveFinalizer
    BY <1>11, EditClaimsNothing
<1> QED
    BY <1>1, <1>2, <1>3, <1>4, <1>5, <1>6, <1>7, <1>8, <1>9, <1>10, <1>11
       DEF Next, AgentStep, EnvStep

----------------------------------------------------------------------------
(* The reconcile's account of its work.                                    *)

\* The same plan and the same account, of the same spec; at most a line
\* drifts.
LEMMA SameWork ==
    ASSUME TypeOK, WorkInv, pod'.live => pod.live,
           \A d \in Devices : \/ writer'[d] = "other"
                              \/ writer'[d] = writer[d] /\ kernel'[d] = kernel[d],
           agent'.copy.spec = agent.copy.spec, agent'.copy.del = agent.copy.del,
           agent'.desired = agent.desired, agent'.todo = agent.todo,
           agent'.outcome = agent.outcome,
           agent'.pc # "idle" => agent.pc # "idle",
           agent'.pc = "status" => agent.pc = "status" \/ agent.todo = {},
           agent'.pc = "write" => agent.pc = "write" /\ agent'.seen = agent.seen
    PROVE  WorkInv'
<1>s. agent.todo \in SUBSET Devices
    BY PartTypes
<1>1. Pristine'
    BY DEF WorkInv, Pristine
<1>2. Intended' /\ Finished'
    BY DEF WorkInv, Intended, Finished
<1>3. Observed'
    BY <1>s DEF WorkInv, Observed, Drifted
<1>4. Accounted'
    BY DEF WorkInv, Accounted, Drifted
<1> QED BY <1>1, <1>2, <1>3, <1>4 DEF WorkInv

\* The reconcile ends.
LEMMA EndedWork ==
    ASSUME WorkInv, agent' = Idle, UNCHANGED kern
    PROVE  WorkInv'
BY IdleFields DEF WorkInv, Pristine, Intended, Observed, Accounted, Finished, kern

\* StartApply: a volume that resolves is on a device about to be applied.
LEMMA StartApplyWork ==
    ASSUME Flaky = {}, TypeOK, WorkInv, pod'.live => pod.live, StartApply
    PROVE  WorkInv'
<1> DEFINE r == Resolve(cache.spec, {})
           g == GroupByDevice(cache.spec, r)
           wanted == {d \in Devices : g[d] # NoRule}
<1>s. cache.spec \in [Volumes -> Rule]
    BY PartTypes
<1>1. agent' = [Idle EXCEPT
          !.pc = IF ChangedDevices(cache.devices, g) = {} THEN "read" ELSE "intent",
          !.copy = cache, !.desired = g, !.todo = wanted,
          !.drop = Owned(cache.devices) \ wanted,
          !.final = cache.devices, !.outcome = r]
  <2>1. PICK bad \in SUBSET Flaky :
          LET outcome == Resolve(cache.spec, bad)
              desired == GroupByDevice(cache.spec, outcome)
              wants   == {d \in Devices : desired[d] # NoRule}
          IN agent' = [Idle EXCEPT
                !.pc = IF ChangedDevices(cache.devices, desired) = {}
                       THEN "read" ELSE "intent",
                !.copy = cache, !.desired = desired, !.todo = wants,
                !.drop = Owned(cache.devices) \ wants,
                !.final = cache.devices, !.outcome = outcome]
      BY DEF StartApply
  <2>2. bad = {}
      OBVIOUS
  <2> QED BY <2>1, <2>2
<1>2. /\ pod.mounted => \A d \in Devices : g[d] = Tightest(cache.spec, d)
      /\ ~pod.mounted => g = NoRules
    BY <1>s, GroupTightest
<1>3. \A v \in Volumes :
        /\ r[v] \in {"None", "VolumeNotMounted", "Resolved", "Unsupported"}
        /\ Throttleable(v) /\ cache.spec[v] # NoRule
              => r[v] \in {"VolumeNotMounted", "Resolved"}
        /\ r[v] = "Resolved" => /\ pod.mounted /\ cache.spec[v] # NoRule
                                /\ DeviceOf[v] \in Devices
    BY AgentAssumption DEF Resolve, Throttleable, TypeOK
<1> HIDE DEF r, g
<1>4. /\ agent'.pc \in {"read", "intent"} /\ agent'.copy = cache
      /\ agent'.desired = g /\ agent'.todo = wanted /\ agent'.outcome = r
    BY <1>1 DEF Idle
<1>5. UNCHANGED <<kernel, writer, pod>>
    BY DEF StartApply, kern
<1>6. \A d \in wanted : g[d] = Tightest(cache.spec, d)
    BY <1>2 DEF NoRules, TypeOK
<1>7. ASSUME NEW v \in Volumes, r[v] = "Resolved"
      PROVE  DeviceOf[v] \in wanted
  <2>1. DeviceOf[v] \in Devices /\ pod.mounted /\ cache.spec[v] # NoRule
      BY <1>3, <1>7
  <2>2. Tightest(cache.spec, DeviceOf[v]) # NoRule
      BY <1>s, <2>1, TightestAsked
  <2> QED BY <1>2, <2>1, <2>2
<1> HIDE DEF wanted
<1>8. Pristine' /\ Intended' /\ Observed' /\ Finished'
    BY <1>4, <1>5, <1>6 DEF WorkInv, Pristine, Intended, Observed, Finished
<1>9. Accounted'
    BY <1>3, <1>4, <1>7 DEF Accounted
<1> QED BY <1>8, <1>9 DEF WorkInv

\* The outcomes of a device that was dealt with.
LEMMA SetOutcomeFacts ==
    ASSUME NEW d, NEW reason, NEW v \in Volumes
    PROVE  \/ /\ agent.outcome[v] = "Resolved" /\ DeviceOf[v] = d
              /\ SetOutcome(agent, d, reason)[v] = reason
           \/ /\ ~(agent.outcome[v] = "Resolved" /\ DeviceOf[v] = d)
              /\ SetOutcome(agent, d, reason)[v] = agent.outcome[v]
BY DEF SetOutcome

\* applyDevice has dealt with the device: Applied if the line is there.
LEMMA DeviceWork ==
    ASSUME TypeOK, WorkInv, NEW d \in agent.todo, agent.pc = "write", UNCHANGED pod,
           \A e \in Devices :
              e # d => writer'[e] = writer[e] /\ kernel'[e] = kernel[e],
           writer'[d] # "nobody" \/ (writer'[d] = writer[d] /\ kernel'[d] = kernel[d]),
           agent'.pc = "write", agent'.copy = agent.copy,
           agent'.desired = agent.desired, agent'.seen = agent.seen,
           agent'.todo = agent.todo \ {d},
           NEW reason \in {"Applied", "KernelRejected", "KernelMismatch"},
           agent'.outcome = SetOutcome(agent, d, reason),
           \/ Drifted(d)'
           \/ kernel'[d] = Tightest(agent.copy.spec, d)
           \/ reason # "Applied" /\ writer'[d] = writer[d] /\ kernel'[d] = kernel[d]
    PROVE  WorkInv'
<1>s. agent.todo \in SUBSET Devices
    BY PartTypes
<1>1. Pristine'
    BY <1>s DEF WorkInv, Pristine
<1>2. Intended' /\ Finished'
    BY DEF WorkInv, Intended, Finished
<1>3. Observed'
    BY <1>s DEF WorkInv, Observed, Drifted
<1>4. Accounted'
  <2> SUFFICES ASSUME pod'.live, ~agent.copy.del, NEW v \in Volumes
               PROVE  /\ Throttleable(v) /\ agent.copy.spec[v] # NoRule
                            => agent'.outcome[v] \notin {"None", "Unsupported"}
                      /\ agent'.outcome[v] = "Resolved" => DeviceOf[v] \in agent'.todo
                      /\ agent'.outcome[v] = "Applied" /\ DeviceOf[v] \in Devices =>
                            \/ Drifted(DeviceOf[v])'
                            \/ kernel'[DeviceOf[v]]
                                  = Tightest(agent.copy.spec, DeviceOf[v])
      BY DEF Accounted
  <2>1. /\ Throttleable(v) /\ agent.copy.spec[v] # NoRule
              => agent.outcome[v] \notin {"None", "Unsupported"}
        /\ agent.outcome[v] = "Resolved" => DeviceOf[v] \in agent.todo
        /\ agent.outcome[v] = "Applied" /\ DeviceOf[v] \in Devices =>
              \/ Drifted(DeviceOf[v])
              \/ kernel[DeviceOf[v]] = Tightest(agent.copy.spec, DeviceOf[v])
      BY DEF WorkInv, Accounted
  <2>2. CASE agent.outcome[v] = "Resolved" /\ DeviceOf[v] = d
    <3>1. agent'.outcome[v] = reason
        BY <2>2, SetOutcomeFacts
    <3> QED BY <2>2, <3>1
  <2>3. CASE ~(agent.outcome[v] = "Resolved" /\ DeviceOf[v] = d)
    <3>1. agent'.outcome[v] = agent.outcome[v]
        BY <2>3, SetOutcomeFacts
    <3>2. CASE DeviceOf[v] = d
        BY <2>1, <2>3, <3>1, <3>2 DEF Drifted
    <3>3. CASE DeviceOf[v] # d
        BY <2>1, <3>1, <3>3 DEF Drifted
    <3> QED BY <3>2, <3>3
  <2> QED BY <2>2, <2>3
<1> QED BY <1>1, <1>2, <1>3, <1>4 DEF WorkInv

\* Every step keeps the account, when lookups do not flake.
LEMMA WorkStep ==
    ASSUME Flaky = {}, TypeOK, TypeOK', ProtocolInv, OwnershipInv, Agreed, WorkInv,
           [Next]_vars
    PROVE  WorkInv'
<1> USE IdleFields
<1>l. pod'.live => pod.live
    BY NoResurrection
<1>s. /\ agent \in Reconcile /\ agent.todo \in SUBSET Devices
      /\ agent.drop \in SUBSET Devices
      /\ kernel \in [Devices -> Rule]
      /\ writer \in [Devices -> {"nobody", "agent", "garbled", "other"}]
    BY PartTypes
<1>1. CASE \/ Sync \/ StartGone \/ CreateObject \/ PatchSpec \/ DeleteObject
           \/ RemoveFinalizer \/ CgroupUp \/ MountVolumes \/ PodEnds
           \/ UNCHANGED vars
  <2>1. UNCHANGED <<agent, kernel, writer>>
      BY <1>1 DEF Sync, StartGone, CreateObject, PatchSpec, DeleteObject,
                  RemoveFinalizer, CgroupUp, MountVolumes, PodEnds, vars, kern
  <2> QED BY <1>l, <2>1, SameWork
<1>2. CASE Drift
  <2>1. /\ UNCHANGED agent
        /\ \A d \in Devices : \/ writer'[d] = "other"
                              \/ writer'[d] = writer[d] /\ kernel'[d] = kernel[d]
      BY <1>2, <1>s DEF Drift
  <2> QED BY <1>l, <2>1, SameWork
<1>3. CASE TearDown
  <2>1. ~pod'.live /\ UNCHANGED agent
      BY <1>3 DEF TearDown, TypeOK
  <2>2. Pristine'
      BY <1>3 DEF TearDown, WorkInv, Pristine, NoRules, kern
  <2> QED BY <2>1, <2>2 DEF WorkInv, Intended, Observed, Accounted, Finished
<1>4. CASE StartRelease
  <2>1. /\ agent'.pc = "release" /\ agent'.copy.del /\ agent'.todo = {}
        /\ UNCHANGED kern
      BY <1>4 DEF StartRelease, Idle
  <2> QED BY <2>1 DEF WorkInv, Pristine, Intended, Observed, Accounted, Finished, kern
<1>5. CASE StartUniform
  <2>1. /\ agent'.pc = "status" /\ agent'.copy = cache /\ agent'.todo = {}
        /\ agent'.outcome = [v \in Volumes |->
                CASE cache.spec[v] = NoRule -> "None"
                  [] OTHER -> IF pod.cgroup = "absent" THEN "CgroupNotFound"
                              ELSE "IOControllerDisabled"]
        /\ UNCHANGED kern
      BY <1>5 DEF StartUniform, Idle
  <2>2. \A v \in Volumes :
          /\ agent'.outcome[v] \notin {"Resolved", "Applied", "Unsupported"}
          /\ cache.spec[v] # NoRule => agent'.outcome[v] # "None"
      BY <2>1
  <2> QED BY <2>1, <2>2
          DEF WorkInv, Pristine, Intended, Observed, Accounted, Finished, kern
<1>6. CASE StartApply
    BY <1>6, <1>l, StartApplyWork
<1>7. CASE RecordDeviceIntent
  <2>1. /\ agent.pc = "intent" /\ Current(agent.copy)
        /\ Publish([agent.copy EXCEPT !.devices = IntentDevices(@, agent.desired)])
        /\ agent' = [agent EXCEPT !.pc = "read", !.copy = server',
                                  !.final = server'.devices]
        /\ UNCHANGED <<kern, pod>>
      BY <1>7, Zenon DEF RecordDeviceIntent
  <2>2. /\ agent'.pc = "read" /\ agent'.copy = server'
        /\ agent'.desired = agent.desired /\ agent'.todo = agent.todo
        /\ agent'.outcome = agent.outcome
      BY <1>s, <2>1 DEF Reconcile
  <2>3. /\ agent.copy = server
        /\ server'.spec = server.spec /\ server'.del = server.del
      BY <2>1, <2>2, IntentStored
  <2> QED BY <1>l, <2>1, <2>2, <2>3, SameWork DEF kern
<1>8. CASE IntentConflict \/ StatusUnchanged \/ WriteStatus \/ StatusConflict
           \/ UpdateFails \/ Crash
  <2>1. agent' = Idle /\ UNCHANGED kern
      BY <1>8, Zenon DEF IntentConflict, StatusUnchanged, WriteStatus,
                         StatusConflict, UpdateFails, Crash, Retry
  <2> QED BY <2>1, EndedWork
<1>9. CASE ReadIOMax
  <2>1. /\ agent.pc = "read" /\ agent'.pc = "write" /\ agent'.copy = agent.copy
        /\ agent'.desired = agent.desired /\ agent'.todo = agent.todo
        /\ agent'.outcome = agent.outcome /\ agent'.seen = kernel
        /\ UNCHANGED <<kernel, writer, pod>>
      BY <1>s, <1>9 DEF ReadIOMax, Reconcile, kern
  <2> QED BY <2>1 DEF WorkInv, Pristine, Intended, Observed, Accounted, Finished,
                      Drifted
<1>10. CASE KernelDone
  <2>1. /\ agent.pc \in {"write", "release"} /\ agent'.pc = "status"
        /\ agent.todo = {} /\ agent'.copy = agent.copy
        /\ agent'.desired = agent.desired /\ agent'.todo = agent.todo
        /\ agent'.outcome = agent.outcome /\ UNCHANGED <<kernel, writer>>
      BY <1>s, <1>10 DEF KernelDone, Reconcile, kern
  <2> QED BY <1>l, <2>1, SameWork
<1>11. CASE KernelStep
  <2>1. PICK d \in Devices :
          \/ SkipDevice(d) \/ WriteDevice(d) \/ WriteRejected(d)
          \/ WriteMismatch(d) \/ ResetDevice(d) \/ ResetFails(d)
      BY <1>11, Zenon DEF KernelStep
  <2>2. ASSUME agent.pc = "write", d \in agent.todo,
               NEW reason, \/ agent' = Applied(agent, d) /\ reason = "Applied"
                           \/ agent' = Failed(agent, d, reason)
        PROVE  /\ agent'.pc = "write" /\ agent'.copy = agent.copy
               /\ agent'.desired = agent.desired /\ agent'.seen = agent.seen
               /\ agent'.todo = agent.todo \ {d}
               /\ agent'.outcome = SetOutcome(agent, d, reason)
    <3>1. CASE agent' = Applied(agent, d) /\ reason = "Applied"
        BY <1>s, <2>2, <3>1 DEF Applied, Reconcile
    <3>2. CASE agent' = Failed(agent, d, reason)
        BY <1>s, <2>2, <3>2 DEF Failed, Reconcile
    <3> QED BY <2>2, <3>1, <3>2
  <2>3. ASSUME d \in agent.todo, pod.live
        PROVE  agent.desired[d] = Tightest(agent.copy.spec, d)
      BY <2>3 DEF WorkInv, Intended
  <2>d. CASE ~pod.live
    <3>1. ~pod'.live
        BY <1>l, <2>d
    <3>2. Pristine'
        BY <1>s, <2>1 DEF WorkInv, Pristine, SkipDevice, WriteDevice, WriteRejected,
             WriteMismatch, ResetDevice, ResetFails, kern
    <3>3. Finished'
      <4>1. agent'.pc = agent.pc /\ agent.pc \in {"write", "release"}
          BY <1>s, <2>1 DEF SkipDevice, WriteDevice, WriteRejected, WriteMismatch,
               ResetDevice, ResetFails, Resettable, Applied, Failed, Reconcile
      <4> QED BY <4>1 DEF Finished
    <3> QED BY <3>1, <3>2, <3>3 DEF WorkInv, Intended, Observed, Accounted
  <2>4. CASE pod.live /\ SkipDevice(d)
    <3>1. /\ agent.pc = "write" /\ d \in agent.todo
          /\ agent.seen[d] = agent.desired[d] /\ agent' = Applied(agent, d)
          /\ UNCHANGED <<kernel, writer, pod>>
        BY <2>4 DEF SkipDevice, kern
    <3>2. Drifted(d)' \/ kernel'[d] = Tightest(agent.copy.spec, d)
        BY <2>3, <2>4, <3>1 DEF WorkInv, Observed, Drifted
    <3> QED BY <2>2, <3>1, <3>2, DeviceWork
  <2>5. CASE pod.live /\ WriteDevice(d)
    <3>1. /\ agent.pc = "write" /\ d \in agent.todo
          /\ agent' = Applied(agent, d) /\ UNCHANGED pod
          /\ kernel' = [kernel EXCEPT ![d] = agent.desired[d]]
          /\ writer' = [writer EXCEPT ![d] = "agent"]
        BY <2>5 DEF WriteDevice
    <3>2. kernel'[d] = Tightest(agent.copy.spec, d) /\ writer'[d] # "nobody"
        BY <1>s, <2>3, <2>5, <3>1
    <3>3. \A e \in Devices : e # d => writer'[e] = writer[e] /\ kernel'[e] = kernel[e]
        BY <1>s, <3>1
    <3> QED BY <2>2, <3>1, <3>2, <3>3, DeviceWork
  <2>6. CASE pod.live /\ WriteRejected(d)
    <3>1. /\ agent.pc = "write" /\ d \in agent.todo
          /\ agent' = Failed(agent, d, "KernelRejected")
          /\ UNCHANGED <<kernel, writer, pod>>
        BY <2>6 DEF WriteRejected, kern
    <3> QED BY <2>2, <3>1, DeviceWork
  <2>7. CASE pod.live /\ WriteMismatch(d)
    <3>1. /\ agent.pc = "write" /\ d \in agent.todo
          /\ agent' = Failed(agent, d, "KernelMismatch") /\ UNCHANGED pod
          /\ \E r \in Rule : kernel' = [kernel EXCEPT ![d] = r]
          /\ writer' = [writer EXCEPT ![d] = "garbled"]
        BY <2>7 DEF WriteMismatch
    <3>2. Drifted(d)' /\ writer'[d] # "nobody"
        BY <1>s, <3>1 DEF Drifted
    <3>3. \A e \in Devices : e # d => writer'[e] = writer[e] /\ kernel'[e] = kernel[e]
        BY <1>s, <3>1
    <3> QED BY <2>2, <3>1, <3>2, <3>3, DeviceWork
  <2>8. CASE pod.live /\ ResetDevice(d)
    <3>1. /\ agent'.pc = agent.pc /\ agent'.copy = agent.copy
          /\ agent'.outcome = agent.outcome /\ agent'.todo = {} /\ agent.todo = {}
          /\ agent.pc \in {"write", "release"} /\ d \in agent.drop
          /\ kernel' = [kernel EXCEPT ![d] = NoRule]
          /\ writer' = [writer EXCEPT ![d] = "nobody"]
        BY <1>s, <2>8 DEF ResetDevice, Resettable, Reconcile
    <3>2. agent.copy.del \/ Tightest(agent.copy.spec, d) = NoRule
        BY <2>8, <3>1 DEF OwnershipInv, Plan
    <3>3. /\ kernel'[d] = NoRule
          /\ \A e \in Devices : e # d => writer'[e] = writer[e] /\ kernel'[e] = kernel[e]
        BY <1>s, <3>1
    <3>4. Pristine'
        BY <3>3 DEF WorkInv, Pristine
    <3>5. Accounted'
        BY <2>8, <3>1, <3>2, <3>3 DEF WorkInv, Accounted, Drifted
    <3> QED BY <3>1, <3>4, <3>5 DEF WorkInv, Intended, Observed, Finished
  <2>9. CASE pod.live /\ ResetFails(d)
    <3>1. /\ agent'.pc = agent.pc /\ agent'.copy = agent.copy
          /\ agent'.desired = agent.desired /\ agent'.seen = agent.seen
          /\ agent'.outcome = agent.outcome /\ agent'.todo = agent.todo
          /\ UNCHANGED <<kernel, writer>>
        BY <1>s, <2>9 DEF ResetFails, Reconcile, kern
    <3> QED BY <1>l, <3>1, SameWork
  <2> QED BY <2>1, <2>d, <2>4, <2>5, <2>6, <2>7, <2>8, <2>9
<1> QED
    BY <1>1, <1>2, <1>3, <1>4, <1>5, <1>6, <1>7, <1>8, <1>9, <1>10, <1>11
       DEF Next, AgentStep, EnvStep

----------------------------------------------------------------------------
(* The claim is true.                                                      *)

\* What a claim says of one device.
Holds(d) ==
    \/ Drifted(d)
    \/ kernel[d] = Tightest(server.spec, d)
    \/ Tightest(server.spec, d) = NoRule /\ server.devices[d] # NotOwned

\* Truthful, device by device.
LEMMA TruthfulMeans ==
    Truthful <=> (Claims(server) /\ pod.live => \A d \in Devices : Holds(d))
BY DEF Truthful, Claims, Holds, Drifted

\* The same of the next state.
LEMMA TruthfulMeansNext ==
    Truthful' <=> (Claims(server)' /\ pod'.live => \A d \in Devices : Holds(d)')
BY DEF Truthful, Claims, Holds, Drifted

\* A status that makes the claim is computed by a reconcile that applied every
\* device asked for; a device not asked for has no rule of the agent's, or is
\* still owned.
LEMMA ClaimIsTrue ==
    ASSUME TypeOK, ProtocolInv, OwnershipInv, Agreed, WorkInv,
           agent.pc = "status", Current(agent.copy), Publish(NewStatus(agent)),
           agent' = Idle, UNCHANGED <<kern, pod>>
    PROVE  Truthful'
<1>s. /\ agent.outcome \in [Volumes -> Reason]
      /\ server.spec \in [Volumes -> Rule]
      /\ writer \in [Devices -> {"nobody", "agent", "garbled", "other"}]
    BY PartTypes
<1>1. /\ agent.copy = server
      /\ server'.spec = server.spec /\ server'.devices = agent.final
      /\ Claims(server') => /\ ~agent.copy.del
                            /\ AggregateReady(agent.outcome) = "Applied"
    BY IdleFields, StatusStored
<1> SUFFICES ASSUME Claims(server'), pod.live, NEW d \in Devices
             PROVE  Holds(d)'
    BY TruthfulMeansNext DEF Claims
<1>2. /\ \A v \in Volumes :
            agent.outcome[v] \in {"None", "Unsupported", "Resolved", "Applied"}
      /\ ~agent.copy.del
    BY <1>s, <1>1, AppliedMeans
<1>3. UNCHANGED <<kernel, writer>>
    BY DEF kern
<1>4. CASE Tightest(server.spec, d) # NoRule
  <2>1. PICK v \in Volumes : server.spec[v] # NoRule /\ DeviceOf[v] = d
      BY <1>s, <1>4, TightestAsked
  <2>2. Throttleable(v)
      BY <2>1, AgentAssumption DEF Throttleable
  <2>3. /\ agent.outcome[v] \notin {"None", "Unsupported"}
        /\ agent.outcome[v] = "Resolved" => DeviceOf[v] \in agent.todo
        /\ agent.outcome[v] = "Applied" =>
              Drifted(d) \/ kernel[d] = Tightest(server.spec, d)
      BY <1>1, <1>2, <2>1, <2>2 DEF WorkInv, Accounted
  <2>4. agent.todo = {}
      BY DEF WorkInv, Finished
  <2>5. agent.outcome[v] = "Applied"
      BY <1>2, <2>3, <2>4
  <2> QED BY <1>1, <1>3, <2>3, <2>5 DEF Holds, Drifted
<1>5. CASE Tightest(server.spec, d) = NoRule
  <2>1. writer[d] = "nobody" => kernel[d] = NoRule
      BY DEF WorkInv, Pristine
  <2>2. writer[d] = "agent" => agent.final[d] # NotOwned
      BY <1>1 DEF OwnershipInv, Recorded, Dropping
  <2>3. writer[d] \in {"nobody", "agent"} \/ Drifted(d)
      BY <1>s DEF Drifted
  <2> QED BY <1>1, <1>3, <1>5, <2>1, <2>2, <2>3 DEF Holds, Drifted
<1> QED BY <1>4, <1>5

\* Every step keeps the claim true.
LEMMA TruthStep ==
    ASSUME TypeOK, ProtocolInv, OwnershipInv, Agreed, WorkInv, Truthful, [Next]_vars
    PROVE  Truthful'
<1> USE IdleFields
<1>l. pod'.live => pod.live
    BY NoResurrection
<1>s. /\ agent \in Reconcile /\ agent.drop \in SUBSET Devices
      /\ kernel \in [Devices -> Rule]
      /\ writer \in [Devices -> {"nobody", "agent", "garbled", "other"}]
    BY PartTypes
\* The object is as it was, and so is every line that has not drifted.
<1>a. ASSUME UNCHANGED server,
             \A d \in Devices : \/ Drifted(d)'
                                \/ writer'[d] = writer[d] /\ kernel'[d] = kernel[d]
      PROVE  Truthful'
    BY <1>a, <1>l, TruthfulMeans, TruthfulMeansNext DEF Holds, Drifted, Claims
\* The record grows.
<1>b. ASSUME agent.pc = "intent", Current(agent.copy),
             Publish([agent.copy EXCEPT !.devices = IntentDevices(@, agent.desired)]),
             agent'.pc = "idle" \/ agent'.copy = server', UNCHANGED kern
      PROVE  Truthful'
  <2>1. /\ server'.spec = server.spec
        /\ Claims(server') <=> Claims(server)
        /\ \A d \in Devices :
              server.devices[d] # NotOwned => server'.devices[d] # NotOwned
      BY <1>b, IntentStored
  <2>2. UNCHANGED <<kernel, writer>>
      BY <1>b DEF kern
  <2>3. Claims(server)' <=> Claims(server)
      BY <2>1 DEF Claims
  <2> QED BY <1>l, <2>1, <2>2, <2>3, TruthfulMeans, TruthfulMeansNext
          DEF Holds, Drifted
<1>1. CASE \/ Sync \/ StartGone \/ StartRelease \/ StartUniform \/ StartApply
           \/ IntentConflict \/ ReadIOMax \/ KernelDone \/ StatusUnchanged
           \/ StatusConflict \/ Crash \/ CgroupUp \/ MountVolumes \/ PodEnds
           \/ UNCHANGED vars
  <2>1. UNCHANGED <<server, kernel, writer>>
      BY <1>1, Zenon DEF Sync, StartGone, StartRelease, StartUniform, StartApply,
            IntentConflict, ReadIOMax, KernelDone, StatusUnchanged, StatusConflict,
            Crash, CgroupUp, MountVolumes, PodEnds, vars, api, kern
  <2> QED BY <1>a, <2>1
<1>2. CASE Drift
  <2>1. /\ UNCHANGED server
        /\ \A d \in Devices : \/ writer'[d] = "other"
                              \/ writer'[d] = writer[d] /\ kernel'[d] = kernel[d]
      BY <1>2, <1>s DEF Drift, api
  <2> QED BY <1>a, <2>1 DEF Drifted
<1>3. CASE TearDown
  <2>1. ~pod'.live
      BY <1>3 DEF TearDown, TypeOK
  <2> QED BY <2>1, TruthfulMeansNext
<1>4. CASE RecordDeviceIntent
  <2>1. /\ agent.pc = "intent" /\ Current(agent.copy)
        /\ Publish([agent.copy EXCEPT !.devices = IntentDevices(@, agent.desired)])
        /\ agent' = [agent EXCEPT !.pc = "read", !.copy = server',
                                  !.final = server'.devices]
        /\ UNCHANGED kern
      BY <1>4, Zenon DEF RecordDeviceIntent
  <2>2. agent'.copy = server'
      BY <1>s, <2>1 DEF Reconcile
  <2> QED BY <1>b, <2>1, <2>2
<1>5. CASE WriteStatus
  <2>1. /\ agent.pc = "status" /\ Current(agent.copy) /\ Publish(NewStatus(agent))
        /\ agent' = Idle /\ UNCHANGED <<kern, pod>>
      BY <1>5, Zenon DEF WriteStatus
  <2> QED BY <2>1, ClaimIsTrue
<1>6. CASE UpdateFails
  <2>1. agent' = Idle /\ UNCHANGED <<kern, pod>>
      BY <1>6, Zenon DEF UpdateFails, Retry
  <2>2. \/ UNCHANGED api
        \/ /\ agent.pc = "intent" /\ Current(agent.copy)
           /\ Publish([agent.copy EXCEPT
                         !.devices = IntentDevices(@, agent.desired)])
        \/ /\ agent.pc = "status" /\ Current(agent.copy)
           /\ Publish(NewStatus(agent))
      BY <1>6, Zenon DEF UpdateFails
  <2>3. CASE UNCHANGED api
    <3>1. UNCHANGED <<server, kernel, writer>>
        BY <2>1, <2>3 DEF api, kern
    <3> QED BY <1>a, <3>1
  <2>4. CASE /\ agent.pc = "intent" /\ Current(agent.copy)
             /\ Publish([agent.copy EXCEPT
                           !.devices = IntentDevices(@, agent.desired)])
      BY <1>b, <2>1, <2>4
  <2>5. CASE /\ agent.pc = "status" /\ Current(agent.copy)
             /\ Publish(NewStatus(agent))
      BY <2>1, <2>5, ClaimIsTrue
  <2> QED BY <2>2, <2>3, <2>4, <2>5
<1>7. CASE CreateObject \/ PatchSpec \/ DeleteObject \/ RemoveFinalizer
  <2>1. ~Claims(server')
      BY <1>7, EditClaimsNothing
  <2> QED BY <2>1, TruthfulMeansNext DEF Claims
<1>8. CASE KernelStep
  <2>1. PICK d \in Devices :
          \/ SkipDevice(d) \/ WriteDevice(d) \/ WriteRejected(d)
          \/ WriteMismatch(d) \/ ResetDevice(d) \/ ResetFails(d)
      BY <1>8, Zenon DEF KernelStep
  <2>2. CASE SkipDevice(d) \/ WriteRejected(d) \/ ResetFails(d)
    <3>1. UNCHANGED <<server, kernel, writer>>
        BY <2>2, Zenon DEF SkipDevice, WriteRejected, ResetFails, api, kern
    <3> QED BY <1>a, <3>1
  <2>3. CASE WriteMismatch(d)
    <3>1. /\ UNCHANGED server
          /\ \E r \in Rule : kernel' = [kernel EXCEPT ![d] = r]
          /\ writer' = [writer EXCEPT ![d] = "garbled"]
        BY <2>3 DEF WriteMismatch, api
    <3>2. \A e \in Devices : \/ writer'[e] = "garbled"
                             \/ writer'[e] = writer[e] /\ kernel'[e] = kernel[e]
        BY <1>s, <3>1
    <3> QED BY <1>a, <3>1, <3>2 DEF Drifted
  \* One line is set to what the agreed spec asks of it.
  <2>4. ASSUME UNCHANGED server, agent.pc # "idle",
               \A e \in Devices :
                  e # d => writer'[e] = writer[e] /\ kernel'[e] = kernel[e],
               pod.live /\ ~agent.copy.del
                  => kernel'[d] = Tightest(agent.copy.spec, d)
        PROVE  Truthful'
    <3> SUFFICES ASSUME Claims(server), pod.live, NEW e \in Devices
                 PROVE  Holds(e)'
        BY <1>l, <2>4, TruthfulMeansNext DEF Claims
    <3>1. agent.copy.spec = server.spec /\ ~agent.copy.del
        BY <2>4 DEF Agreed
    <3>2. Holds(e)
        BY TruthfulMeans
    <3>3. CASE e = d
        BY <2>4, <3>1, <3>3 DEF Holds
    <3>4. CASE e # d
        BY <2>4, <3>2, <3>4 DEF Holds, Drifted
    <3> QED BY <3>3, <3>4
  <2>5. CASE WriteDevice(d)
    <3>1. /\ UNCHANGED server /\ agent.pc = "write" /\ d \in agent.todo
          /\ kernel' = [kernel EXCEPT ![d] = agent.desired[d]]
          /\ writer' = [writer EXCEPT ![d] = "agent"]
        BY <2>5 DEF WriteDevice, api
    <3>2. pod.live => kernel'[d] = Tightest(agent.copy.spec, d)
        BY <1>s, <3>1 DEF WorkInv, Intended
    <3>3. \A e \in Devices : e # d => writer'[e] = writer[e] /\ kernel'[e] = kernel[e]
        BY <1>s, <3>1
    <3> QED BY <2>4, <3>1, <3>2, <3>3
  <2>6. CASE ResetDevice(d)
    <3>1. /\ UNCHANGED server /\ agent.pc # "idle" /\ d \in agent.drop
          /\ kernel' = [kernel EXCEPT ![d] = NoRule]
          /\ writer' = [writer EXCEPT ![d] = "nobody"]
        BY <2>6 DEF ResetDevice, Resettable, api
    <3>2. pod.live /\ ~agent.copy.del => kernel'[d] = Tightest(agent.copy.spec, d)
        BY <1>s, <3>1 DEF OwnershipInv, Plan
    <3>3. \A e \in Devices : e # d => writer'[e] = writer[e] /\ kernel'[e] = kernel[e]
        BY <1>s, <3>1
    <3> QED BY <2>4, <3>1, <3>2, <3>3
  <2> QED BY <2>1, <2>2, <2>3, <2>5, <2>6
<1> QED
    BY <1>1, <1>2, <1>3, <1>4, <1>5, <1>6, <1>7, <1>8 DEF Next, AgentStep, EnvStep

----------------------------------------------------------------------------
(* The theorem.                                                            *)

\* Ready=Applied for the current generation is true: if lookups of mounted
\* volumes do not fail transiently, then at every moment of every run a live
\* pod whose object claims it has, on every device, the tightest limit its
\* volumes are asked for, or a line that others changed or the kernel garbled,
\* or, where nothing is asked for, a rule that is still on record.
THEOREM AppliedIsTrue ==
    ASSUME Flaky = {}
    PROVE  Spec => []Truthful
<1> DEFINE TruthInv == Agreed /\ WorkInv /\ Truthful
<1>1. Init => TruthInv
  <2> SUFFICES ASSUME Init PROVE TruthInv
      OBVIOUS
  <2>1. /\ NoObject.exists = FALSE /\ NoObject.ogen = 0 /\ NoObject.gen = 0
        /\ Idle.pc = "idle" /\ Idle.todo = {}
      BY DEF NoObject, Idle
  <2>2. Agreed /\ Truthful
      BY <2>1 DEF Init, Agreed, Claims, Truthful
  <2>3. WorkInv
      BY <2>1 DEF Init, WorkInv, Pristine, Intended, Observed, Accounted,
                  Finished, NoRules
  <2> QED BY <2>2, <2>3
<1>2. TypeOK /\ TypeOK' /\ ProtocolInv /\ OwnershipInv /\ TruthInv /\ [Next]_vars
        => TruthInv'
    BY AgreedStep, WorkStep, TruthStep
<1>3. TruthInv => Truthful
    OBVIOUS
<1> HIDE DEF TruthInv
<1> QED BY <1>1, <1>2, <1>3, TypeCorrect, ProtocolAlways, OwnershipAlways, PTL
        DEF Spec
=============================================================================
