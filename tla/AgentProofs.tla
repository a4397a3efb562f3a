---------------------------- MODULE AgentProofs ----------------------------
(* Proofs about Agent, for any volumes, devices, limits and bounds.        *)
EXTENDS Agent, TLAPS, WellFoundedInduction

----------------------------------------------------------------------------
(* Helpers of the reconciler.                                              *)

\* A non-empty set of limits has a least element, and Min returns it.
LEMMA MinLimit ==
    ASSUME NEW S, S \subseteq Limits, S # {}
    PROVE  Min(S) \in S
<1> DEFINE R == {ss \in Nat \X Nat : ss[1] < ss[2]}
<1>1. S \subseteq Nat
    BY AgentAssumption
<1>2. IsWellFoundedOn(R, Nat)
    BY NatLessThanWellFounded, Zenon DEF OpToRel
<1>3. \E x \in S : \A y \in S : ~(<<y, x>> \in R)
  <2> HIDE DEF R
  <2> QED BY <1>1, <1>2, WFMin
<1>4. \E x \in S : \A y \in S : x <= y
  <2>1. PICK x \in S : \A y \in S : ~(<<y, x>> \in R)
      BY <1>3
  <2>2. ASSUME NEW y \in S PROVE x <= y
    <3>1. ~(<<y, x>> \in R)
        BY <2>1
    <3>2. x \in Nat /\ y \in Nat
        BY <1>1
    <3> QED BY <3>1, <3>2
  <2> QED BY <2>2
<1> QED
    BY <1>4 DEF Min

\* The smallest limit of a set of limits and "max"es.
Least(S) == IF S \ {NoLimit} = {} THEN NoLimit ELSE Min(S \ {NoLimit})

LEMMA LeastType ==
    ASSUME NEW S, S \subseteq Limits \cup {NoLimit}
    PROVE  /\ Least(S) \in Limits \cup {NoLimit}
           /\ Least(S) # NoLimit <=> S \ {NoLimit} # {}
<1>1. S \ {NoLimit} \subseteq Limits
    OBVIOUS
<1>2. S \ {NoLimit} # {} => Min(S \ {NoLimit}) \in Limits
    BY <1>1, MinLimit
<1> QED BY <1>2, AgentAssumption DEF Least

\* No rule is a rule, and any other limits some key.
LEMMA RuleFacts ==
    /\ NoRule \in Rule
    /\ \A r \in Rule : r # NoRule <=> \E k \in Keys : r[k] # NoLimit
    BY DEF NoRule, Rule

\* groupByDevice yields rules.
LEMMA GroupType ==
    ASSUME NEW spec \in [Volumes -> Rule], NEW outcome
    PROVE  GroupByDevice(spec, outcome) \in [Devices -> Rule]
<1> SUFFICES ASSUME NEW d \in Devices
             PROVE  GroupByDevice(spec, outcome)[d] \in Rule
    BY DEF GroupByDevice
<1> DEFINE rules == {spec[v] : v \in {u \in Volumes :
                        outcome[u] = "Resolved" /\ DeviceOf[u] = d}}
<1>1. GroupByDevice(spec, outcome)[d] = Merge(rules)
    BY DEF GroupByDevice
<1>2. rules \subseteq Rule
    OBVIOUS
<1> HIDE DEF rules
<1>3. Merge(rules) = [k \in Keys |-> Least({r[k] : r \in rules})]
    BY DEF Merge, Least
<1>4. ASSUME NEW k \in Keys
      PROVE  Least({r[k] : r \in rules}) \in Limits \cup {NoLimit}
  <2>1. {r[k] : r \in rules} \subseteq Limits \cup {NoLimit}
      BY <1>2 DEF Rule
  <2> QED BY <2>1, LeastType
<1> QED BY <1>1, <1>3, <1>4 DEF Rule

----------------------------------------------------------------------------
(* Types.                                                                  *)

\* The initial values are of their types.
LEMMA ConstantTypes ==
    /\ NotOwned \in OwnedDevice
    /\ Unowned \in DevicesType
    /\ NoRules \in [Devices -> Rule]
    /\ NoObject \in PodIOLimit
    /\ Idle \in Reconcile
<1>1. NotOwned \in OwnedDevice
    BY RuleFacts DEF NotOwned, OwnedDevice
<1>2. Unowned \in DevicesType /\ NoRules \in [Devices -> Rule]
    BY <1>1, RuleFacts DEF Unowned, DevicesType, NoRules
<1>3. NoObject \in PodIOLimit
    BY <1>2, RuleFacts DEF NoObject, PodIOLimit, Reason, ReadyReason
<1>4. Idle \in Reconcile
    BY <1>2, <1>3 DEF Idle, Reconcile, Reason
<1> QED BY <1>1, <1>2, <1>3, <1>4

\* A stored object differs from the one submitted only in its version.
LEMMA PublishFacts ==
    ASSUME TypeOK, NEW o \in PodIOLimit, Publish(o)
    PROVE  /\ server' \in PodIOLimit
           /\ versions' = versions \cup {server'}
           /\ versions' \subseteq PodIOLimit
           /\ server'.rv = server.rv + 1
           /\ server'.exists = o.exists /\ server'.del = o.del
           /\ server'.gen = o.gen /\ server'.spec = o.spec
           /\ server'.devices = o.devices /\ server'.vols = o.vols
           /\ server'.ogen = o.ogen /\ server'.ready = o.ready
<1>1. server.rv \in Nat
    BY DEF TypeOK, PodIOLimit
<1>2. server' = [o EXCEPT !.rv = server.rv + 1]
    BY DEF Publish
<1>3. /\ server' \in PodIOLimit
      /\ server'.rv = server.rv + 1
      /\ server'.exists = o.exists /\ server'.del = o.del
      /\ server'.gen = o.gen /\ server'.spec = o.spec
      /\ server'.devices = o.devices /\ server'.vols = o.vols
      /\ server'.ogen = o.ogen /\ server'.ready = o.ready
    BY <1>1, <1>2 DEF PodIOLimit
<1>4. versions' = versions \cup {server'}
    BY DEF Publish
<1> QED BY <1>3, <1>4 DEF TypeOK

\* What the intent write and the status write submit.
LEMMA IntentFacts ==
    ASSUME NEW o \in PodIOLimit, NEW desired \in [Devices -> Rule]
    PROVE  LET n == [o EXCEPT !.devices = IntentDevices(@, desired)] IN
           /\ n \in PodIOLimit
           /\ n.rv = o.rv /\ n.exists = o.exists /\ n.del = o.del
           /\ n.spec = o.spec
           /\ \A d \in Devices :
                /\ o.devices[d] # NotOwned => n.devices[d] # NotOwned
                /\ desired[d] # NoRule => n.devices[d] # NotOwned
                /\ desired[d] = NoRule => n.devices[d] = o.devices[d]
<1>1. o.devices \in DevicesType
    BY DEF PodIOLimit
<1>2. IntentDevices(o.devices, desired) \in DevicesType
    BY <1>1 DEF IntentDevices, DevicesType, OwnedDevice
<1>3. \A d \in Devices :
        LET e == IntentDevices(o.devices, desired)[d] IN
        /\ o.devices[d] # NotOwned => e # NotOwned
        /\ desired[d] # NoRule => e # NotOwned
        /\ desired[d] = NoRule => e = o.devices[d]
    BY <1>1 DEF IntentDevices, ChangedDevices, NotOwned, DevicesType, OwnedDevice
<1> QED BY <1>2, <1>3 DEF PodIOLimit

\* The status write submits a well-typed object that differs from the copy the
\* reconcile works on only in its status.
LEMMA StatusFacts ==
    ASSUME NEW a \in Reconcile
    PROVE  /\ NewStatus(a) \in PodIOLimit
           /\ NewStatus(a).rv = a.copy.rv
           /\ NewStatus(a).exists = a.copy.exists
           /\ NewStatus(a).del = a.copy.del
           /\ NewStatus(a).spec = a.copy.spec
           /\ NewStatus(a).devices = a.final
<1>1. /\ a.copy \in PodIOLimit /\ a.final \in DevicesType
      /\ a.outcome \in [Volumes -> Reason]
    BY DEF Reconcile
<1>2. AggregateReady(a.outcome) \in ReadyReason
    BY DEF AggregateReady, ReadyReason
<1>3. CASE a.copy.del
    BY <1>1, <1>3 DEF NewStatus, PodIOLimit, ReadyReason
<1>4. CASE ~a.copy.del
    BY <1>1, <1>2, <1>4 DEF NewStatus, PodIOLimit
<1> QED BY <1>3, <1>4

\* A write to the spec, or the deletion mark, also counts the generation.
LEMMA NextGen ==
    ASSUME NEW o \in PodIOLimit
    PROVE  /\ \A s \in [Volumes -> Rule] :
                [o EXCEPT !.gen = @ + 1, !.spec = s] \in PodIOLimit
           /\ [o EXCEPT !.gen = @ + 1, !.del = TRUE] \in PodIOLimit
<1> DEFINE g == o.gen + 1
<1>1. g \in Nat
    BY DEF PodIOLimit
<1> HIDE DEF g
<1>2. ASSUME NEW s \in [Volumes -> Rule]
      PROVE  [o EXCEPT !.gen = g, !.spec = s] \in PodIOLimit
    BY <1>1 DEF PodIOLimit
<1>3. [o EXCEPT !.gen = g, !.del = TRUE] \in PodIOLimit
    BY <1>1 DEF PodIOLimit
<1> QED BY <1>2, <1>3 DEF g

\* Resolution and grouping yield well-typed outcomes and rules.
LEMMA OutcomeTypes ==
    ASSUME TypeOK, NEW spec \in [Volumes -> Rule], NEW bad
    PROVE  /\ Resolve(spec, bad) \in [Volumes -> Reason]
           /\ GroupByDevice(spec, Resolve(spec, bad)) \in [Devices -> Rule]
<1>1. Resolve(spec, bad) \in [Volumes -> Reason]
  <2> SUFFICES ASSUME NEW v \in Volumes
               PROVE  Resolve(spec, bad)[v] \in Reason
      BY DEF Resolve, Throttleable
  <2> QED BY DEF Resolve, Throttleable, Reason, TypeOK
<1>2. \A v \in Volumes : Resolve(spec, bad)[v] = "Resolved" => spec[v] # NoRule
    BY DEF Resolve, Throttleable, TypeOK
<1> QED BY <1>1, <1>2, GroupType

\* setOutcomes keeps the outcomes well typed.
LEMMA SetOutcomeType ==
    ASSUME NEW a \in Reconcile, NEW d, NEW reason \in Reason
    PROVE  SetOutcome(a, d, reason) \in [Volumes -> Reason]
BY DEF SetOutcome, Reconcile

\* A device applied leaves a well-typed reconcile.
LEMMA AppliedType ==
    ASSUME NEW a \in Reconcile, NEW d \in Devices
    PROVE  Applied(a, d) \in Reconcile
<1>1. SetOutcome(a, d, "Applied") \in [Volumes -> Reason]
    BY SetOutcomeType DEF Reason
<1>2. [rule |-> a.desired[d], state |-> "Applied"] \in OwnedDevice
    BY DEF Reconcile, OwnedDevice
<1>3. [a.final EXCEPT ![d] = [rule |-> a.desired[d], state |-> "Applied"]]
        \in DevicesType
    BY <1>2 DEF Reconcile, DevicesType
<1> QED BY <1>1, <1>3 DEF Applied, Reconcile

\* A device that failed leaves a well-typed reconcile.
LEMMA FailedType ==
    ASSUME NEW a \in Reconcile, NEW d \in Devices, NEW reason \in Reason
    PROVE  Failed(a, d, reason) \in Reconcile
BY SetOutcomeType DEF Failed, Reconcile

\* Every action keeps the types.
LEMMA TypeStep ==
    ASSUME TypeOK, [Next]_vars
    PROVE  TypeOK'
<1> USE ConstantTypes
<1>s. /\ server \in PodIOLimit /\ cache \in PodIOLimit
      /\ versions \subseteq PodIOLimit /\ agent \in Reconcile
      /\ agent.copy \in PodIOLimit /\ agent.desired \in [Devices -> Rule]
    BY DEF TypeOK, Reconcile
<1>1. CASE Sync
    BY <1>1 DEF Sync, TypeOK, kern
<1>2. CASE StartGone
    BY <1>2 DEF StartGone, TypeOK, api, kern
<1>3. CASE StartRelease
  <2>1. agent' \in Reconcile
      BY <1>s, <1>3 DEF StartRelease, Reconcile, PodIOLimit, Owned, Idle
  <2> QED BY <1>3, <2>1 DEF StartRelease, TypeOK, api, kern
<1>4. CASE StartUniform
  <2>1. agent' \in Reconcile
      BY <1>s, <1>4 DEF StartUniform, Reconcile, PodIOLimit, Idle, Reason
  <2> QED BY <1>4, <2>1 DEF StartUniform, TypeOK, api, kern
<1>5. CASE StartApply
  <2>1. PICK bad \in SUBSET Flaky :
          LET outcome == Resolve(cache.spec, bad)
              desired == GroupByDevice(cache.spec, outcome)
              wanted  == {d \in Devices : desired[d] # NoRule}
          IN agent' = [Idle EXCEPT
                !.pc = IF ChangedDevices(cache.devices, desired) = {}
                       THEN "read" ELSE "intent",
                !.copy = cache, !.desired = desired, !.todo = wanted,
                !.drop = Owned(cache.devices) \ wanted,
                !.final = cache.devices, !.outcome = outcome]
      BY <1>5 DEF StartApply
  <2> DEFINE outcome == Resolve(cache.spec, bad)
             desired == GroupByDevice(cache.spec, outcome)
  <2>2. cache.spec \in [Volumes -> Rule] /\ cache.devices \in DevicesType
      BY <1>s DEF PodIOLimit
  <2>3. outcome \in [Volumes -> Reason] /\ desired \in [Devices -> Rule]
      BY <2>2, OutcomeTypes
  <2> HIDE DEF outcome, desired
  <2>4. Owned(cache.devices) \subseteq Devices
      BY DEF Owned
  <2>5. agent' \in Reconcile
      BY <1>s, <2>1, <2>2, <2>3, <2>4 DEF Reconcile, Idle, outcome, desired
  <2> QED BY <1>5, <2>5 DEF StartApply, TypeOK, api, kern
<1>6. CASE RecordDeviceIntent
  <2> DEFINE o == [agent.copy EXCEPT !.devices = IntentDevices(@, agent.desired)]
  <2>1. o \in PodIOLimit
      BY <1>s, IntentFacts
  <2>2. Publish(o)
      BY <1>6 DEF RecordDeviceIntent
  <2> HIDE DEF o
  <2>3. server' \in PodIOLimit /\ versions' \subseteq PodIOLimit
      BY <2>1, <2>2, PublishFacts
  <2>4. agent' \in Reconcile
      BY <1>s, <1>6, <2>3 DEF RecordDeviceIntent, Reconcile, PodIOLimit
  <2> QED BY <1>6, <2>3, <2>4 DEF RecordDeviceIntent, TypeOK, kern
<1>7. CASE IntentConflict
    BY <1>7 DEF IntentConflict, Retry, TypeOK, api, kern
<1>8. CASE ReadIOMax
  <2>1. agent' \in Reconcile
      BY <1>s, <1>8 DEF ReadIOMax, Reconcile, TypeOK
  <2> QED BY <1>8, <2>1 DEF ReadIOMax, TypeOK, api, kern
<1>9. CASE KernelStep
  <2>1. PICK d \in Devices :
          \/ SkipDevice(d) \/ WriteDevice(d) \/ WriteRejected(d)
          \/ WriteMismatch(d) \/ ResetDevice(d) \/ ResetFails(d)
      BY <1>9 DEF KernelStep
  <2>2. CASE SkipDevice(d)
      BY <1>s, <2>2, AppliedType DEF SkipDevice, TypeOK, api, kern
  <2>3. CASE WriteDevice(d)
    <3>1. agent.desired[d] \in Rule
        BY <1>s
    <3> QED BY <1>s, <2>3, <3>1, AppliedType DEF WriteDevice, TypeOK, api
  <2>4. CASE WriteRejected(d)
    <3>1. agent' \in Reconcile
        BY <1>s, <2>4, FailedType DEF WriteRejected, Reason
    <3>2. faults' \in 0..MaxFaults
        BY <2>4, AgentAssumption DEF WriteRejected, TypeOK
    <3> QED BY <2>4, <3>1, <3>2 DEF WriteRejected, TypeOK, api, kern
  <2>5. CASE WriteMismatch(d)
    <3>1. agent' \in Reconcile
        BY <1>s, <2>5, FailedType DEF WriteMismatch, Reason
    <3>2. faults' \in 0..MaxFaults
        BY <2>5, AgentAssumption DEF WriteMismatch, TypeOK
    <3> QED BY <2>5, <3>1, <3>2 DEF WriteMismatch, TypeOK, api
  <2>6. CASE ResetDevice(d)
    <3>1. [agent.final EXCEPT ![d] = NotOwned] \in DevicesType
        BY <1>s DEF Reconcile, DevicesType
    <3>2. agent' \in Reconcile
        BY <1>s, <2>6, <3>1 DEF ResetDevice, Reconcile
    <3> QED BY <2>6, <3>2, RuleFacts DEF ResetDevice, TypeOK, api
  <2>7. CASE ResetFails(d)
    <3>1. agent' \in Reconcile
        BY <1>s, <2>7 DEF ResetFails, Reconcile
    <3>2. faults' \in 0..MaxFaults
        BY <2>7, AgentAssumption DEF ResetFails, TypeOK
    <3> QED BY <2>7, <3>1, <3>2 DEF ResetFails, TypeOK, api, kern
  <2> QED BY <2>1, <2>2, <2>3, <2>4, <2>5, <2>6, <2>7
<1>10. CASE KernelDone
  <2>1. agent' \in Reconcile
      BY <1>s, <1>10 DEF KernelDone, Reconcile
  <2> QED BY <1>10, <2>1 DEF KernelDone, TypeOK, api, kern
<1>11. CASE StatusUnchanged
    BY <1>11 DEF StatusUnchanged, RequeueAfter, TypeOK, api, kern
<1>12. CASE WriteStatus
  <2>1. server' \in PodIOLimit /\ versions' \subseteq PodIOLimit
      BY <1>s, <1>12, StatusFacts, PublishFacts DEF WriteStatus
  <2> QED BY <1>12, <2>1 DEF WriteStatus, RequeueAfter, TypeOK, kern
<1>13. CASE StatusConflict
    BY <1>13 DEF StatusConflict, Retry, TypeOK, api, kern
<1>14. CASE UpdateFails
  <2>1. server' \in PodIOLimit /\ versions' \subseteq PodIOLimit
    <3>1. CASE UNCHANGED api
        BY <1>s, <3>1 DEF api
    <3>2. CASE Publish([agent.copy EXCEPT
                 !.devices = IntentDevices(@, agent.desired)])
        BY <1>s, <3>2, IntentFacts, PublishFacts
    <3>3. CASE Publish(NewStatus(agent))
        BY <1>s, <3>3, StatusFacts, PublishFacts
    <3> QED BY <1>14, <3>1, <3>2, <3>3 DEF UpdateFails
  <2>2. faults' \in 0..MaxFaults
      BY <1>14, AgentAssumption DEF UpdateFails, TypeOK
  <2> QED BY <1>14, <2>1, <2>2 DEF UpdateFails, Retry, TypeOK, kern
<1>15. CASE Crash
  <2>1. faults' \in 0..MaxFaults
      BY <1>15, AgentAssumption DEF Crash, TypeOK
  <2> QED BY <1>15, <2>1 DEF Crash, Retry, TypeOK, api, kern
<1>16. CASE CreateObject
  <2>1. PICK s \in [Volumes -> Rule] :
          Publish([NoObject EXCEPT !.exists = TRUE, !.gen = 1, !.spec = s])
      BY <1>16, AgentAssumption DEF CreateObject
  <2>2. [NoObject EXCEPT !.exists = TRUE, !.gen = 1, !.spec = s] \in PodIOLimit
      BY DEF PodIOLimit
  <2>3. server' \in PodIOLimit /\ versions' \subseteq PodIOLimit
      BY <2>1, <2>2, PublishFacts
  <2>4. changes' \in 0..MaxChanges
      BY <1>16, AgentAssumption DEF CreateObject, Change, TypeOK
  <2> QED BY <1>16, <2>3, <2>4 DEF CreateObject, TypeOK, kern
<1>17. CASE PatchSpec
  <2>1. PICK s \in [Volumes -> Rule] :
          Publish([server EXCEPT !.gen = @ + 1, !.spec = s])
      BY <1>17, AgentAssumption DEF PatchSpec
  <2>2. [server EXCEPT !.gen = @ + 1, !.spec = s] \in PodIOLimit
      BY <1>s, NextGen
  <2>3. server' \in PodIOLimit /\ versions' \subseteq PodIOLimit
      BY <2>1, <2>2, PublishFacts
  <2>4. changes' \in 0..MaxChanges
      BY <1>17, AgentAssumption DEF PatchSpec, Change, TypeOK
  <2> QED BY <1>17, <2>3, <2>4 DEF PatchSpec, TypeOK, kern
<1>18. CASE DeleteObject
  <2>1. [server EXCEPT !.gen = @ + 1, !.del = TRUE] \in PodIOLimit
      BY <1>s, NextGen
  <2>2. server' \in PodIOLimit /\ versions' \subseteq PodIOLimit
      BY <1>18, <2>1, PublishFacts DEF DeleteObject
  <2>3. changes' \in 0..MaxChanges
      BY <1>18, AgentAssumption DEF DeleteObject, Change, TypeOK
  <2> QED BY <1>18, <2>2, <2>3 DEF DeleteObject, TypeOK, kern
<1>19. CASE RemoveFinalizer
  <2>1. server' \in PodIOLimit /\ versions' \subseteq PodIOLimit
      BY <1>19, PublishFacts DEF RemoveFinalizer
  <2> QED BY <1>19, <2>1 DEF RemoveFinalizer, TypeOK, kern
<1>20. CASE CgroupUp
    BY <1>20 DEF CgroupUp, TypeOK, api, kern
<1>21. CASE MountVolumes
    BY <1>21 DEF MountVolumes, TypeOK, api, kern
<1>22. CASE PodEnds
    BY <1>22 DEF PodEnds, TypeOK, api, kern
<1>23. CASE TearDown
    BY <1>23 DEF TearDown, TypeOK, api, kern
<1>24. CASE Drift
  <2>1. faults' \in 0..MaxFaults
      BY <1>24, AgentAssumption DEF Drift, TypeOK
  <2> QED BY <1>24, <2>1 DEF Drift, TypeOK, api
<1>25. CASE UNCHANGED vars
    BY <1>25 DEF vars, TypeOK
<1> QED
    BY <1>1, <1>2, <1>3, <1>4, <1>5, <1>6, <1>7, <1>8, <1>9, <1>10, <1>11,
       <1>12, <1>13, <1>14, <1>15, <1>16, <1>17, <1>18, <1>19, <1>20, <1>21,
       <1>22, <1>23, <1>24, <1>25 DEF Next, AgentStep, EnvStep

\* The agent, its object and the kernel stay in their types.
THEOREM TypeCorrect == Spec => []TypeOK
<1>1. Init => TypeOK
  <2> SUFFICES ASSUME Init PROVE TypeOK
      OBVIOUS
  <2>1. /\ server \in PodIOLimit /\ versions \subseteq PodIOLimit
        /\ cache \in PodIOLimit /\ agent \in Reconcile
        /\ kernel \in [Devices -> Rule]
      BY ConstantTypes DEF Init
  <2>2. /\ queued \in BOOLEAN
        /\ writer \in [Devices -> {"nobody", "agent", "garbled", "other"}]
        /\ pod \in [live : BOOLEAN, cgroup : {"absent", "noio", "up"},
                    mounted : BOOLEAN]
      BY DEF Init
  <2>3. changes \in 0..MaxChanges /\ faults \in 0..MaxFaults
      BY AgentAssumption DEF Init
  <2> QED BY <2>1, <2>2, <2>3 DEF TypeOK
<1>2. TypeOK /\ [Next]_vars => TypeOK'
    BY TypeStep
<1> QED BY <1>1, <1>2, PTL DEF Spec
----------------------------------------------------------------------------
(* The inductive invariant behind the ownership record.                    *)

\* The informer is behind the server, and never serves a version twice.
Lineage ==
    /\ server \in versions /\ cache \in versions
    /\ \A w \in versions : /\ cache.rv <= w.rv /\ w.rv <= server.rv
                           /\ w.rv = server.rv => w = server

\* The copy a reconcile works on: if it is still the server's version then
\* it is the server's object, and no version that the informer has yet to
\* move past has another spec or deletion mark.
CopyLineage ==
    agent.pc # "idle" =>
        /\ agent.copy.exists
        /\ agent.copy.rv <= server.rv
        /\ agent.copy.rv = server.rv =>
              /\ agent.copy = server
              /\ \A w \in versions :
                    w.spec = server.spec /\ w.del = server.del

\* Only a release works on a deleted object: it applies nothing and adds no
\* device.
ReleaseOnly ==
    /\ agent.pc \in {"intent", "read", "write"} => ~agent.copy.del
    /\ agent.copy.del =>
          /\ agent.todo = {}
          /\ Owned(agent.final) \subseteq Owned(agent.copy.devices)

\* An object that is gone owns nothing.
GoneOwnsNothing == ~server.exists => server.devices = Unowned

ProtocolInv == Lineage /\ CopyLineage /\ ReleaseOnly /\ GoneOwnsNothing

\* Before the volumes are mounted nothing resolves, so nothing is owned.
Unmounted ==
    pod.live /\ ~pod.mounted =>
        /\ \A w \in versions : w.devices = Unowned
        /\ agent.copy.devices = Unowned /\ agent.final = Unowned
        /\ agent.desired = NoRules

\* What a reconcile applies is asked for, what it resets is not.
Plan ==
    pod.live =>
      /\ \A d \in agent.todo : agent.desired[d] # NoRule /\ d \notin agent.drop
      /\ \A d \in agent.drop :
            agent.copy.del \/ Tightest(agent.copy.spec, d) = NoRule

\* A device the reconcile is about to strike from the record was reset.
Dropping ==
    pod.live => \A d \in Devices :
        agent.copy.devices[d] # NotOwned /\ agent.final[d] = NotOwned =>
            /\ writer[d] \notin {"agent", "garbled"}
            /\ d \notin agent.todo
            /\ agent.copy.del \/ Tightest(agent.copy.spec, d) = NoRule

\* A device about to be written is on record.
Backed ==
    pod.live /\ agent.pc \in {"read", "write"} =>
        \A d \in agent.todo : server.devices[d] # NotOwned

\* The heart of the matter: a stale version that would let the agent skip the
\* intent write, because it already shows the device with the rule its spec
\* asks for, is one whose device is still on record.
StaleIsBacked ==
    pod.live => \A w \in versions : \A d \in Devices :
        /\ w.exists /\ ~w.del
        /\ w.devices[d].rule # NoRule
        /\ w.devices[d].rule = Tightest(w.spec, d)
        => server.devices[d] # NotOwned

OwnershipInv == Unmounted /\ Plan /\ Dropping /\ Backed /\ StaleIsBacked
                /\ Recorded

\* Fields of the reconcile that has ended.
LEMMA IdleFields ==
    /\ Idle.pc = "idle" /\ Idle.copy = NoObject /\ Idle.desired = NoRules
    /\ Idle.todo = {} /\ Idle.drop = {} /\ Idle.final = Unowned
    /\ NoObject.rv = 0 /\ NoObject.exists = FALSE /\ NoObject.del = FALSE
    /\ NoObject.devices = Unowned
BY DEF Idle, NoObject

\* Storing a version keeps the informer behind the server and makes every
\* copy of an older version stale.
LEMMA PublishLineage ==
    ASSUME TypeOK, Lineage, NEW o \in PodIOLimit, Publish(o), cache' = cache
    PROVE  /\ Lineage'
           /\ \A n \in Nat : n <= server.rv => n < server'.rv
<1>1. /\ server'.rv = server.rv + 1 /\ versions' = versions \cup {server'}
    BY PublishFacts
<1>2. /\ server.rv \in Nat /\ cache.rv \in Nat
      /\ \A w \in versions : w.rv \in Nat
    BY DEF TypeOK, PodIOLimit
<1>3. cache.rv <= server.rv
    BY DEF Lineage
<1>4. Lineage'
  <2>1. server' \in versions' /\ cache' \in versions'
      BY <1>1 DEF Lineage
  <2>2. ASSUME NEW w \in versions'
        PROVE  /\ cache'.rv <= w.rv /\ w.rv <= server'.rv
               /\ w.rv = server'.rv => w = server'
    <3>1. CASE w \in versions
        BY <1>1, <1>2, <3>1 DEF Lineage
    <3>2. CASE w = server'
        BY <1>1, <1>2, <1>3, <3>2
    <3> QED BY <1>1, <3>1, <3>2
  <2> QED BY <2>1, <2>2 DEF Lineage
<1> QED BY <1>1, <1>2, <1>4

\* An accepted update was computed from the server's object.
LEMMA AcceptedCopy ==
    ASSUME TypeOK, CopyLineage, agent.pc # "idle", Current(agent.copy)
    PROVE  /\ agent.copy = server /\ server.exists
           /\ \A w \in versions : w.spec = server.spec /\ w.del = server.del
BY DEF CopyLineage, Current

\* A reconcile that starts from the cached object.
LEMMA StartLineage ==
    ASSUME TypeOK, Lineage, cache.exists, agent'.copy = cache,
           UNCHANGED <<server, versions>>
    PROVE  CopyLineage'
<1>1. cache.rv <= server.rv
    BY DEF Lineage
<1>2. ASSUME cache.rv = server.rv, NEW w \in versions PROVE w = server
  <2>1. cache.rv <= w.rv /\ w.rv <= server.rv /\ (w.rv = server.rv => w = server)
      BY DEF Lineage
  <2>2. w.rv \in Nat /\ server.rv \in Nat
      BY DEF TypeOK, PodIOLimit
  <2> QED BY <1>2, <2>1, <2>2
<1>3. cache.rv = server.rv => cache = server
    BY <1>2 DEF Lineage
<1> QED BY <1>1, <1>2, <1>3 DEF CopyLineage

\* Every step keeps the protocol invariant.
LEMMA ProtocolStep ==
    ASSUME TypeOK, TypeOK', ProtocolInv, [Next]_vars
    PROVE  ProtocolInv'
<1> USE IdleFields
<1>s. /\ server \in PodIOLimit /\ cache \in PodIOLimit /\ agent \in Reconcile
      /\ agent.copy \in PodIOLimit /\ agent.desired \in [Devices -> Rule]
      /\ server.rv \in Nat /\ agent.copy.rv \in Nat
    BY DEF TypeOK, Reconcile, PodIOLimit
<1>i. Lineage /\ CopyLineage /\ ReleaseOnly /\ GoneOwnsNothing
    BY DEF ProtocolInv
\* Steps that leave the object alone and end in an idle agent, or keep copy.
<1>a. ASSUME UNCHANGED <<server, versions, cache>>, agent' = Idle
      PROVE  ProtocolInv'
  <2>1. Lineage' /\ GoneOwnsNothing'
      BY <1>a, <1>i DEF Lineage, GoneOwnsNothing
  <2>2. CopyLineage' /\ ReleaseOnly'
      BY <1>a DEF CopyLineage, ReleaseOnly
  <2> QED BY <2>1, <2>2 DEF ProtocolInv
<1>b. ASSUME UNCHANGED <<server, versions, cache>>, agent'.copy = agent.copy,
             agent.pc # "idle", ReleaseOnly'
      PROVE  ProtocolInv'
    BY <1>b, <1>i DEF ProtocolInv, Lineage, CopyLineage, GoneOwnsNothing
\* Steps of the environment that store a new version.
<1>c. ASSUME NEW o \in PodIOLimit, Publish(o), UNCHANGED <<cache, agent>>,
             ~o.exists => o.devices = Unowned
      PROVE  ProtocolInv'
  <2>1. Lineage' /\ \A n \in Nat : n <= server.rv => n < server'.rv
      BY <1>c, <1>i, PublishLineage
  <2>2. GoneOwnsNothing'
      BY <1>c, PublishFacts DEF GoneOwnsNothing
  <2>3. server'.rv \in Nat
      BY DEF TypeOK, PodIOLimit
  <2>4. CopyLineage' /\ ReleaseOnly'
      BY <1>s, <1>c, <1>i, <2>1, <2>3 DEF CopyLineage, ReleaseOnly
  <2> QED BY <2>1, <2>2, <2>4 DEF ProtocolInv
\* Steps of the agent that store a new version of its copy and end.
<1>d. ASSUME NEW o \in PodIOLimit, Publish(o), agent' = Idle, cache' = cache,
             o.exists
      PROVE  ProtocolInv'
  <2>1. Lineage'
      BY <1>d, <1>i, PublishLineage
  <2>2. GoneOwnsNothing'
      BY <1>d, PublishFacts DEF GoneOwnsNothing
  <2>3. CopyLineage' /\ ReleaseOnly'
      BY <1>d DEF CopyLineage, ReleaseOnly
  <2> QED BY <2>1, <2>2, <2>3 DEF ProtocolInv
<1>1. CASE Sync
  <2>1. PICK w \in versions : /\ w.rv > cache.rv /\ cache' = w
                              /\ versions' = {x \in versions : x.rv >= w.rv}
                              /\ UNCHANGED <<server, agent>>
      BY <1>1 DEF Sync
  <2>2. \A x \in versions : x.rv \in Nat
      BY DEF TypeOK, PodIOLimit
  <2>3. Lineage'
      BY <1>s, <1>i, <2>1, <2>2 DEF Lineage
  <2>4. CopyLineage' /\ ReleaseOnly' /\ GoneOwnsNothing'
      BY <1>i, <2>1 DEF CopyLineage, ReleaseOnly, GoneOwnsNothing
  <2> QED BY <2>3, <2>4 DEF ProtocolInv
<1>2. CASE StartGone
    BY <1>2, <1>i DEF StartGone, api, ProtocolInv, Lineage, CopyLineage,
                      ReleaseOnly, GoneOwnsNothing
<1>3. CASE StartRelease
  <2>1. /\ agent'.pc = "release" /\ agent'.copy = cache /\ agent'.todo = {}
        /\ agent'.final = cache.devices /\ cache.exists
        /\ UNCHANGED <<server, versions, cache>>
      BY <1>3 DEF StartRelease, Idle, api
  <2>2. CopyLineage'
      BY <1>i, <2>1, StartLineage
  <2> QED BY <1>i, <2>1, <2>2 DEF ProtocolInv, Lineage, ReleaseOnly,
                                  GoneOwnsNothing
<1>4. CASE StartUniform
  <2>1. /\ agent'.pc = "status" /\ agent'.copy = cache /\ ~cache.del
        /\ cache.exists /\ UNCHANGED <<server, versions, cache>>
      BY <1>4 DEF StartUniform, Idle, api
  <2>2. CopyLineage'
      BY <1>i, <2>1, StartLineage
  <2> QED BY <1>i, <2>1, <2>2 DEF ProtocolInv, Lineage, ReleaseOnly,
                                  GoneOwnsNothing
<1>5. CASE StartApply
  <2>1. /\ agent'.copy = cache /\ ~cache.del
        /\ cache.exists /\ UNCHANGED <<server, versions, cache>>
      BY <1>5 DEF StartApply, Idle, api
  <2>2. CopyLineage'
      BY <1>i, <2>1, StartLineage
  <2> QED BY <1>i, <2>1, <2>2 DEF ProtocolInv, Lineage, ReleaseOnly,
                                  GoneOwnsNothing
<1>6. CASE RecordDeviceIntent
  <2> DEFINE o == [agent.copy EXCEPT !.devices = IntentDevices(@, agent.desired)]
  <2>1. /\ agent.pc = "intent" /\ Current(agent.copy) /\ Publish(o)
        /\ cache' = cache
      BY <1>6 DEF RecordDeviceIntent
  <2>2. /\ agent.copy = server /\ server.exists
        /\ \A w \in versions : w.spec = server.spec /\ w.del = server.del
      BY <1>i, <2>1, AcceptedCopy
  <2>3. /\ o \in PodIOLimit /\ o.exists = agent.copy.exists
        /\ o.del = agent.copy.del /\ o.spec = agent.copy.spec
      BY <1>s, IntentFacts
  <2> HIDE DEF o
  <2>4. /\ server'.exists = o.exists /\ server'.del = o.del
        /\ server'.spec = o.spec /\ versions' = versions \cup {server'}
      BY <2>1, <2>3, PublishFacts
  <2>5. agent'.copy = server' /\ agent'.pc = "read"
      BY <1>s, <1>6 DEF RecordDeviceIntent, Reconcile
  <2>6. Lineage'
      BY <1>i, <2>1, <2>3, PublishLineage
  <2>7. ~server.del /\ server'.rv \in Nat
      BY <1>i, <2>1, <2>2 DEF ReleaseOnly, TypeOK, PodIOLimit
  <2>8. server'.exists /\ ~server'.del /\ server'.spec = server.spec
      BY <2>2, <2>3, <2>4, <2>7
  <2>9. \A w \in versions' : w.spec = server'.spec /\ w.del = server'.del
      BY <2>2, <2>3, <2>4, <2>8
  <2>10. CopyLineage'
      BY <2>5, <2>7, <2>8, <2>9 DEF CopyLineage
  <2>11. ReleaseOnly' /\ GoneOwnsNothing'
      BY <2>5, <2>8 DEF ReleaseOnly, GoneOwnsNothing
  <2> QED BY <2>6, <2>10, <2>11 DEF ProtocolInv
<1>7. CASE IntentConflict
    BY <1>7, <1>a DEF IntentConflict, Retry, api
<1>8. CASE ReadIOMax
  <2>1. /\ agent.pc = "read" /\ agent'.pc = "write"
        /\ agent'.copy = agent.copy
        /\ agent'.todo = agent.todo /\ agent'.final = agent.final
      BY <1>s, <1>8 DEF ReadIOMax, Reconcile
  <2> QED BY <1>8, <1>b, <1>i, <2>1 DEF ReadIOMax, ReleaseOnly, api
<1>9. CASE KernelStep
  <2>1. PICK d \in Devices :
          \/ SkipDevice(d) \/ WriteDevice(d) \/ WriteRejected(d)
          \/ WriteMismatch(d) \/ ResetDevice(d) \/ ResetFails(d)
      BY <1>9 DEF KernelStep
  <2>2. CASE \/ SkipDevice(d) \/ WriteDevice(d) \/ WriteRejected(d)
             \/ WriteMismatch(d)
    <3>1. /\ agent.pc = "write" /\ agent'.pc = agent.pc
          /\ agent'.copy = agent.copy /\ UNCHANGED <<server, versions, cache>>
        BY <1>s, <2>2 DEF SkipDevice, WriteDevice, WriteRejected, WriteMismatch,
                          Applied, Failed, Reconcile, api
    <3> QED BY <1>b, <1>i, <3>1 DEF ReleaseOnly
  <2>3. CASE ResetDevice(d) \/ ResetFails(d)
    <3>1. /\ agent.pc \in {"write", "release"} /\ agent'.pc = agent.pc
          /\ agent'.copy = agent.copy /\ agent'.todo = agent.todo
          /\ UNCHANGED <<server, versions, cache>>
        BY <1>s, <2>3 DEF ResetDevice, ResetFails, Resettable, Reconcile, api
    <3>2. Owned(agent'.final) \subseteq Owned(agent.final)
        BY <1>s, <2>3 DEF ResetDevice, ResetFails, Owned, Reconcile, DevicesType
    <3> QED BY <1>b, <1>i, <3>1, <3>2 DEF ReleaseOnly
  <2> QED BY <2>1, <2>2, <2>3
<1>10. CASE KernelDone
  <2>1. /\ agent.pc # "idle" /\ agent'.pc = "status"
        /\ agent'.copy = agent.copy
        /\ agent'.todo = agent.todo /\ agent'.final = agent.final
      BY <1>s, <1>10 DEF KernelDone, Reconcile
  <2> QED BY <1>10, <1>b, <1>i, <2>1 DEF KernelDone, ReleaseOnly, api
<1>11. CASE StatusUnchanged
    BY <1>11, <1>a DEF StatusUnchanged, api
<1>12. CASE WriteStatus
  <2>1. server.exists /\ agent.copy = server
      BY <1>12, <1>i, AcceptedCopy DEF WriteStatus
  <2>2. NewStatus(agent) \in PodIOLimit /\ NewStatus(agent).exists
      BY <1>s, <2>1, StatusFacts
  <2> QED BY <1>12, <1>d, <2>2 DEF WriteStatus
<1>13. CASE StatusConflict
    BY <1>13, <1>a DEF StatusConflict, Retry, api
<1>14. CASE UpdateFails
  <2>1. agent.pc # "idle" /\ agent' = Idle /\ cache' = cache
      BY <1>14 DEF UpdateFails, Retry
  <2>2. CASE UNCHANGED api
      BY <1>a, <2>1, <2>2 DEF api
  <2>3. CASE /\ Current(agent.copy)
             /\ Publish([agent.copy EXCEPT
                  !.devices = IntentDevices(@, agent.desired)])
    <3> DEFINE o == [agent.copy EXCEPT !.devices = IntentDevices(@, agent.desired)]
    <3>1. o \in PodIOLimit /\ o.exists = agent.copy.exists
        BY <1>s, IntentFacts
    <3>2. agent.copy.exists
        BY <1>i, <2>1 DEF CopyLineage
    <3>3. Publish(o)
        BY <2>3
    <3> HIDE DEF o
    <3> QED BY <1>d, <2>1, <3>1, <3>2, <3>3
  <2>4. CASE Current(agent.copy) /\ Publish(NewStatus(agent))
    <3>1. agent.copy.exists
        BY <1>i, <2>1 DEF CopyLineage
    <3> QED BY <1>s, <1>d, <2>1, <2>4, <3>1, StatusFacts
  <2> QED BY <1>14, <2>2, <2>3, <2>4 DEF UpdateFails
<1>15. CASE Crash
    BY <1>15, <1>a DEF Crash, Retry, api
<1>16. CASE CreateObject
  <2>1. PICK s \in [Volumes -> Rule] :
          Publish([NoObject EXCEPT !.exists = TRUE, !.gen = 1, !.spec = s])
      BY <1>16, AgentAssumption DEF CreateObject
  <2> DEFINE o == [NoObject EXCEPT !.exists = TRUE, !.gen = 1, !.spec = s]
  <2>2. o \in PodIOLimit /\ o.exists
      BY ConstantTypes DEF PodIOLimit
  <2>3. Publish(o)
      BY <2>1
  <2> HIDE DEF o
  <2> QED BY <1>16, <1>c, <2>2, <2>3 DEF CreateObject
<1>17. CASE PatchSpec
  <2>1. PICK s \in [Volumes -> Rule] :
          Publish([server EXCEPT !.gen = @ + 1, !.spec = s])
      BY <1>17, AgentAssumption DEF PatchSpec
  <2> DEFINE o == [server EXCEPT !.gen = @ + 1, !.spec = s]
  <2>2. o \in PodIOLimit
      BY <1>s, NextGen
  <2>3. o.exists = server.exists
      BY <1>s DEF PodIOLimit
  <2>4. Publish(o)
      BY <2>1
  <2> HIDE DEF o
  <2> QED BY <1>17, <1>c, <2>2, <2>3, <2>4 DEF PatchSpec
<1>18. CASE DeleteObject
  <2> DEFINE o == [server EXCEPT !.gen = @ + 1, !.del = TRUE]
  <2>1. o \in PodIOLimit
      BY <1>s, NextGen
  <2>2. o.exists = server.exists
      BY <1>s DEF PodIOLimit
  <2>3. Publish(o)
      BY <1>18 DEF DeleteObject
  <2> HIDE DEF o
  <2> QED BY <1>18, <1>c, <2>1, <2>2, <2>3 DEF DeleteObject
<1>19. CASE RemoveFinalizer
    BY <1>19, <1>c, ConstantTypes DEF RemoveFinalizer
<1>20. CASE \/ CgroupUp \/ MountVolumes \/ PodEnds \/ TearDown \/ Drift
            \/ UNCHANGED vars
  <2>1. UNCHANGED <<server, versions, cache, agent>>
      BY <1>20 DEF CgroupUp, MountVolumes, PodEnds, TearDown, Drift, vars, api
  <2> QED BY <1>i, <2>1 DEF ProtocolInv, Lineage, CopyLineage, ReleaseOnly,
                            GoneOwnsNothing
<1> QED
    BY <1>1, <1>2, <1>3, <1>4, <1>5, <1>6, <1>7, <1>8, <1>9, <1>10, <1>11,
       <1>12, <1>13, <1>14, <1>15, <1>16, <1>17, <1>18, <1>19, <1>20
       DEF Next, AgentStep, EnvStep

\* With every volume mounted and found, groupByDevice asks of each device the
\* tightest limit of the volumes on it; before they are mounted, nothing.
LEMMA GroupTightest ==
    ASSUME TypeOK, NEW spec \in [Volumes -> Rule]
    PROVE  LET g == GroupByDevice(spec, Resolve(spec, {})) IN
           /\ pod.mounted => \A d \in Devices : g[d] = Tightest(spec, d)
           /\ ~pod.mounted => g = NoRules
<1> DEFINE r == Resolve(spec, {})
<1>1. ASSUME pod.mounted, NEW d \in Devices
      PROVE  GroupByDevice(spec, r)[d] = Tightest(spec, d)
  <2> DEFINE rules == {spec[v] : v \in {u \in Volumes :
                          r[u] = "Resolved" /\ DeviceOf[u] = d}}
             asked(k) == {spec[v][k] : v \in {u \in Volumes : DeviceOf[u] = d}}
  <2>1. \A v \in Volumes : DeviceOf[v] = d =>
            (r[v] = "Resolved" <=> spec[v] # NoRule)
      BY <1>1, AgentAssumption DEF Resolve, Throttleable
  <2>2. \A k \in Keys : NoRule[k] = NoLimit
      BY DEF NoRule
  <2>3. ASSUME NEW k \in Keys
        PROVE  {x[k] : x \in rules} \ {NoLimit} = asked(k) \ {NoLimit}
    <3> HIDE DEF r
    <3> QED BY <2>1, <2>2
  <2>4. GroupByDevice(spec, r)[d] =
          [k \in Keys |->
              IF {x[k] : x \in rules} \ {NoLimit} = {} THEN NoLimit
              ELSE Min({x[k] : x \in rules} \ {NoLimit})]
      BY DEF GroupByDevice, Merge
  <2>5. Tightest(spec, d) =
          [k \in Keys |-> IF asked(k) \ {NoLimit} = {} THEN NoLimit
                          ELSE Min(asked(k) \ {NoLimit})]
      BY DEF Tightest
  <2> HIDE DEF rules, asked
  <2> QED BY <2>3, <2>4, <2>5
<1>2. ASSUME ~pod.mounted PROVE GroupByDevice(spec, r) = NoRules
  <2>1. \A v \in Volumes : r[v] # "Resolved"
      BY <1>2 DEF Resolve, Throttleable, TypeOK
  <2> HIDE DEF r
  <2>2. Merge({}) = NoRule
      BY DEF Merge, NoRule
  <2> QED BY <2>1, <2>2 DEF GroupByDevice, NoRules
<1> QED BY <1>1, <1>2

\* Every step keeps the ownership invariant, when lookups do not flake.
LEMMA OwnershipStep ==
    ASSUME Flaky = {}, TypeOK, TypeOK', ProtocolInv, OwnershipInv, [Next]_vars
    PROVE  OwnershipInv'
<1> SUFFICES ASSUME pod'.live PROVE OwnershipInv'
    BY DEF OwnershipInv, Unmounted, Plan, Dropping, Backed, StaleIsBacked,
           Recorded
<1> USE IdleFields
<1>s. /\ server \in PodIOLimit /\ cache \in PodIOLimit /\ agent \in Reconcile
      /\ agent.copy \in PodIOLimit /\ agent.desired \in [Devices -> Rule]
      /\ agent.final \in DevicesType /\ agent.copy.devices \in DevicesType
      /\ agent.todo \in SUBSET Devices /\ agent.drop \in SUBSET Devices
      /\ server.devices \in DevicesType
      /\ cache.spec \in [Volumes -> Rule] /\ cache.devices \in DevicesType
      /\ writer \in [Devices -> {"nobody", "agent", "garbled", "other"}]
    BY DEF TypeOK, Reconcile, PodIOLimit
<1>p. Lineage /\ CopyLineage /\ ReleaseOnly /\ GoneOwnsNothing
    BY DEF ProtocolInv
<1>i. Unmounted /\ Plan /\ Dropping /\ Backed /\ StaleIsBacked /\ Recorded
    BY DEF OwnershipInv
<1>l. pod.live
    BY DEF Next, AgentStep, EnvStep, Sync, StartGone, StartRelease,
           StartUniform, StartApply, RecordDeviceIntent, IntentConflict,
           ReadIOMax, KernelStep, SkipDevice, WriteDevice, WriteRejected,
           WriteMismatch, ResetDevice, ResetFails, KernelDone,
           StatusUnchanged, WriteStatus, StatusConflict, UpdateFails, Crash,
           CreateObject, PatchSpec, DeleteObject, RemoveFinalizer, CgroupUp,
           MountVolumes, PodEnds, TearDown, Drift, vars, TypeOK
<1>o. \A e \in OwnedDevice : e.rule # NoRule => e # NotOwned
    BY DEF NotOwned
\* The agent ends and nothing else moves.
<1>a. ASSUME UNCHANGED <<server, versions, writer, pod>>, agent' = Idle
      PROVE  OwnershipInv'
    BY <1>a, <1>i DEF OwnershipInv, Unmounted, Plan, Dropping, Backed,
                      StaleIsBacked, Recorded, Unowned
\* The environment stores a version with the devices the server had.
<1>b. ASSUME NEW o \in PodIOLimit, Publish(o), o.devices = server.devices,
             UNCHANGED <<agent, writer, pod>>
      PROVE  OwnershipInv'
  <2>1. server'.devices = server.devices /\ versions' = versions \cup {server'}
      BY <1>b, PublishFacts
  <2>2. Unmounted'
      BY <1>b, <1>i, <1>p, <2>1 DEF Unmounted, Lineage
  <2>3. StaleIsBacked'
      BY <1>l, <1>o, <1>s, <1>i, <2>1 DEF StaleIsBacked, DevicesType
  <2> QED BY <1>b, <1>i, <2>1, <2>2, <2>3
          DEF OwnershipInv, Plan, Dropping, Backed, Recorded
\* The agent stores a version of its copy: what it strikes from the record
\* was reset and is not asked for.
<1>c. ASSUME NEW o \in PodIOLimit, Publish(o), UNCHANGED <<writer, pod>>,
             o.spec = server.spec,
             \A w \in versions : w.spec = server.spec /\ w.del = server.del,
             ~pod.mounted => o.devices = Unowned,
             \A d \in Devices :
                server.devices[d] # NotOwned /\ o.devices[d] = NotOwned =>
                    /\ writer[d] \notin {"agent", "garbled"}
                    /\ server.del \/ Tightest(server.spec, d) = NoRule
      PROVE  /\ StaleIsBacked' /\ Recorded'
             /\ ~pod.mounted => \A w \in versions' : w.devices = Unowned
  <2>1. server'.devices = o.devices /\ versions' = versions \cup {server'}
      BY <1>c, PublishFacts
  <2>2. Recorded'
      BY <1>c, <1>i, <1>l, <2>1 DEF Recorded
  <2>3. StaleIsBacked'
    <3> SUFFICES ASSUME NEW w \in versions', NEW d \in Devices,
                        ~w.del, w.exists, w.devices[d].rule # NoRule,
                        w.devices[d].rule = Tightest(w.spec, d)
                 PROVE  o.devices[d] # NotOwned
        BY <2>1 DEF StaleIsBacked
    <3>1. CASE w \in versions
      <4>1. server.devices[d] # NotOwned
          BY <1>i, <1>l, <3>1 DEF StaleIsBacked
      <4> QED BY <1>c, <3>1, <4>1
    <3>2. CASE w = server'
      <4>1. o.devices[d] \in OwnedDevice
          BY DEF PodIOLimit, DevicesType
      <4> QED BY <1>o, <2>1, <3>2, <4>1
    <3> QED BY <2>1, <3>1, <3>2
  <2> QED BY <1>c, <1>i, <1>l, <2>1, <2>2, <2>3 DEF Unmounted
\* The reconcile goes on over the same copy, plan and record.
<1>d. ASSUME UNCHANGED <<server, versions, writer, pod>>,
             agent'.copy = agent.copy, agent'.desired = agent.desired,
             agent'.todo \subseteq agent.todo, agent'.drop \subseteq agent.drop,
             agent'.pc \in {"read", "write"}
                => agent.pc \in {"read", "write"} \/ agent'.todo = {},
             \A d \in Devices : agent'.final[d] = NotOwned
                => agent.final[d] = NotOwned,
             agent.final = Unowned => agent'.final = Unowned
      PROVE  OwnershipInv'
  <2>1. Unmounted' /\ StaleIsBacked' /\ Recorded'
      BY <1>d, <1>i DEF Unmounted, StaleIsBacked, Recorded
  <2>2. Plan'
      BY <1>d, <1>i DEF Plan
  <2>3. Dropping'
      BY <1>d, <1>i DEF Dropping
  <2>4. Backed'
      BY <1>d, <1>i DEF Backed
  <2> QED BY <2>1, <2>2, <2>3, <2>4 DEF OwnershipInv
<1>1. CASE Sync
  <2>1. versions' \subseteq versions /\ UNCHANGED <<server, agent, writer, pod>>
      BY <1>1 DEF Sync, kern
  <2> QED BY <1>i, <2>1 DEF OwnershipInv, Unmounted, Plan, Dropping, Backed,
                            StaleIsBacked, Recorded
<1>2. CASE StartGone
    BY <1>2, <1>i DEF StartGone, api, kern, OwnershipInv, Unmounted, Plan,
                      Dropping, Backed, StaleIsBacked, Recorded
<1>3. CASE StartRelease
  <2>1. /\ agent'.pc = "release" /\ agent'.copy = cache /\ cache.del
        /\ agent'.desired = NoRules /\ agent'.todo = {}
        /\ agent'.final = cache.devices
        /\ UNCHANGED <<server, versions, writer, pod>>
      BY <1>3 DEF StartRelease, Idle, api, kern
  <2>2. Unmounted'
      BY <1>i, <1>p, <2>1 DEF Unmounted, Lineage
  <2> QED BY <1>i, <2>1, <2>2 DEF OwnershipInv, Plan, Dropping, Backed,
                                  StaleIsBacked, Recorded
<1>4. CASE StartUniform
  <2>1. /\ agent'.pc = "status" /\ agent'.copy = cache
        /\ agent'.desired = NoRules /\ agent'.todo = {} /\ agent'.drop = {}
        /\ agent'.final = cache.devices
        /\ UNCHANGED <<server, versions, writer, pod>>
      BY <1>4 DEF StartUniform, Idle, api, kern
  <2>2. Unmounted'
      BY <1>i, <1>p, <2>1 DEF Unmounted, Lineage
  <2> QED BY <1>i, <2>1, <2>2 DEF OwnershipInv, Plan, Dropping, Backed,
                                  StaleIsBacked, Recorded
<1>5. CASE StartApply
  <2> DEFINE g == GroupByDevice(cache.spec, Resolve(cache.spec, {}))
             wanted == {d \in Devices : g[d] # NoRule}
  <2>1. agent' = [Idle EXCEPT
            !.pc = IF ChangedDevices(cache.devices, g) = {}
                   THEN "read" ELSE "intent",
            !.copy = cache, !.desired = g, !.todo = wanted,
            !.drop = Owned(cache.devices) \ wanted,
            !.final = cache.devices, !.outcome = Resolve(cache.spec, {})]
    <3>1. PICK bad \in SUBSET Flaky :
            LET outcome == Resolve(cache.spec, bad)
                desired == GroupByDevice(cache.spec, outcome)
                wants   == {d \in Devices : desired[d] # NoRule}
            IN agent' = [Idle EXCEPT
                  !.pc = IF ChangedDevices(cache.devices, desired) = {}
                         THEN "read" ELSE "intent",
                  !.copy = cache, !.desired = desired, !.todo = wants,
                  !.drop = Owned(cache.devices) \ wants,
                  !.final = cache.devices, !.outcome = outcome]
        BY <1>5 DEF StartApply
    <3>2. bad = {}
        OBVIOUS
    <3> QED BY <3>1, <3>2
  <2>2. /\ pod.mounted => \A d \in Devices : g[d] = Tightest(cache.spec, d)
        /\ ~pod.mounted => g = NoRules
      BY <1>s, GroupTightest
  <2> HIDE DEF g
  <2>3. /\ agent'.pc = (IF ChangedDevices(cache.devices, g) = {}
                        THEN "read" ELSE "intent")
        /\ agent'.copy = cache /\ agent'.desired = g /\ agent'.todo = wanted
        /\ agent'.drop = Owned(cache.devices) \ wanted
        /\ agent'.final = cache.devices
      BY <2>1 DEF Idle
  <2>4. /\ UNCHANGED <<server, versions, writer, pod>>
        /\ cache.exists /\ ~cache.del /\ cache \in versions
      BY <1>5, <1>p DEF StartApply, api, kern, Lineage
  <2>5. ~pod.mounted => cache.devices = Unowned /\ g = NoRules
      BY <1>i, <1>l, <2>2, <2>4 DEF Unmounted
  <2>6. Unmounted'
      BY <1>i, <2>3, <2>4, <2>5 DEF Unmounted
  <2>7. Plan'
    <3>1. \A d \in agent'.todo : agent'.desired[d] # NoRule /\ d \notin agent'.drop
        BY <2>3
    <3>2. ASSUME NEW d \in agent'.drop
          PROVE  Tightest(cache.spec, d) = NoRule
      <4>1. d \in Devices /\ cache.devices[d] # NotOwned /\ g[d] = NoRule
          BY <2>3 DEF Owned
      <4>2. pod.mounted
          BY <2>5, <4>1 DEF Unowned
      <4> QED BY <2>2, <4>1, <4>2
    <3> QED BY <2>3, <3>1, <3>2 DEF Plan
  <2>8. Dropping'
      BY <2>3 DEF Dropping
  <2>9. Backed'
    <3> SUFFICES ASSUME agent'.pc = "read", NEW d \in wanted
                 PROVE  server.devices[d] # NotOwned
        BY <2>3, <2>4 DEF Backed
    <3>1. ChangedDevices(cache.devices, g) = {}
        BY <2>3
    <3>2. d \in Devices /\ g[d] # NoRule /\ cache.devices[d].rule = g[d]
        BY <3>1 DEF ChangedDevices
    <3>3. pod.mounted
        BY <2>5, <3>2 DEF NoRules
    <3>4. g[d] = Tightest(cache.spec, d)
        BY <2>2, <3>2, <3>3
    <3> QED BY <1>i, <1>l, <2>4, <3>2, <3>4 DEF StaleIsBacked
  <2> QED BY <1>i, <2>4, <2>6, <2>7, <2>8, <2>9
          DEF OwnershipInv, StaleIsBacked, Recorded
<1>6. CASE RecordDeviceIntent
  <2> DEFINE o == [agent.copy EXCEPT !.devices = IntentDevices(@, agent.desired)]
  <2>1. /\ agent.pc = "intent" /\ Current(agent.copy) /\ Publish(o)
        /\ UNCHANGED <<writer, pod>>
      BY <1>6 DEF RecordDeviceIntent, kern
  <2>2. /\ agent.copy = server
        /\ \A w \in versions : w.spec = server.spec /\ w.del = server.del
      BY <1>p, <2>1, AcceptedCopy
  <2>3. /\ o \in PodIOLimit /\ o.spec = agent.copy.spec
        /\ o.del = agent.copy.del
        /\ \A d \in Devices :
              /\ agent.copy.devices[d] # NotOwned => o.devices[d] # NotOwned
              /\ agent.desired[d] # NoRule => o.devices[d] # NotOwned
              /\ agent.desired[d] = NoRule => o.devices[d] = agent.copy.devices[d]
      BY <1>s, IntentFacts
  <2> HIDE DEF o
  <2>4. ~pod.mounted => o.devices = Unowned
    <3>1. o.devices \in DevicesType
        BY <2>3 DEF PodIOLimit
    <3>2. ASSUME ~pod.mounted, NEW d \in Devices PROVE o.devices[d] = NotOwned
        BY <1>i, <1>l, <2>3, <3>2 DEF Unmounted, NoRules, Unowned
    <3> QED BY <3>1, <3>2 DEF DevicesType, Unowned
  <2>5. /\ StaleIsBacked' /\ Recorded'
        /\ ~pod.mounted => \A w \in versions' : w.devices = Unowned
      BY <1>c, <2>1, <2>2, <2>3, <2>4
  <2>6. server'.devices = o.devices /\ server'.spec = o.spec
      BY <2>1, <2>3, PublishFacts
  <2>7. /\ agent'.pc = "read" /\ agent'.copy = server'
        /\ agent'.final = server'.devices
        /\ agent'.desired = agent.desired /\ agent'.todo = agent.todo
        /\ agent'.drop = agent.drop
      BY <1>s, <1>6 DEF RecordDeviceIntent, Reconcile
  <2>8. Unmounted'
      BY <1>i, <1>l, <2>1, <2>4, <2>5, <2>6, <2>7 DEF Unmounted
  <2>9. Plan'
    <3>1. ~agent.copy.del
        BY <1>p, <2>1 DEF ReleaseOnly
    <3> QED BY <1>i, <1>l, <2>3, <2>6, <2>7, <3>1 DEF Plan
  <2>10. Dropping'
      BY <2>7 DEF Dropping
  <2>11. Backed'
      BY <1>i, <1>l, <1>s, <2>3, <2>6, <2>7 DEF Backed, Plan
  <2> QED BY <2>5, <2>8, <2>9, <2>10, <2>11 DEF OwnershipInv
<1>7. CASE IntentConflict
    BY <1>7, <1>a DEF IntentConflict, Retry, api, kern
<1>8. CASE ReadIOMax
  <2>1. /\ agent.pc = "read"
        /\ agent'.copy = agent.copy /\ agent'.desired = agent.desired
        /\ agent'.todo = agent.todo /\ agent'.drop = agent.drop
        /\ agent'.final = agent.final
        /\ UNCHANGED <<server, versions, writer, pod>>
      BY <1>s, <1>8 DEF ReadIOMax, Reconcile, api, kern
  <2> QED BY <1>d, <2>1
<1>9. CASE KernelStep
  <2>1. PICK d \in Devices :
          \/ SkipDevice(d) \/ WriteDevice(d) \/ WriteRejected(d)
          \/ WriteMismatch(d) \/ ResetDevice(d) \/ ResetFails(d)
      BY <1>9 DEF KernelStep
  <2>2. ASSUME agent.pc = "write", d \in agent.todo,
               agent' = Applied(agent, d) \/ \E x : agent' = Failed(agent, d, x)
        PROVE  /\ agent'.pc = agent.pc /\ agent'.copy = agent.copy
               /\ agent'.desired = agent.desired
               /\ agent'.todo \subseteq agent.todo /\ agent'.drop = agent.drop
               /\ \A e \in Devices : agent'.final[e] = NotOwned
                    => agent.final[e] = NotOwned
               /\ agent'.todo = agent.todo \ {d}
    <3>1. [rule |-> agent.desired[d], state |-> "Applied"] # NotOwned
        BY DEF NotOwned
    <3>2. CASE agent' = Applied(agent, d)
        BY <1>s, <2>2, <3>1, <3>2 DEF Applied, Reconcile, DevicesType
    <3>3. CASE \E x : agent' = Failed(agent, d, x)
        BY <1>s, <2>2, <3>3 DEF Failed, Reconcile
    <3> QED BY <2>2, <3>2, <3>3
  <2>m. ASSUME d \in agent.todo PROVE pod.mounted
      BY <1>i, <1>l, <2>m DEF Unmounted, Plan, NoRules
  <2>3. CASE SkipDevice(d) \/ WriteRejected(d)
    <3>1. /\ agent.pc = "write" /\ d \in agent.todo
          /\ agent' = Applied(agent, d) \/ \E x : agent' = Failed(agent, d, x)
          /\ UNCHANGED <<server, versions, writer, pod>>
        BY <2>3 DEF SkipDevice, WriteRejected, api, kern
    <3>2. StaleIsBacked' /\ Recorded'
        BY <1>i, <3>1 DEF StaleIsBacked, Recorded
    <3>3. Unmounted'
        BY <2>m, <3>1 DEF Unmounted
    <3>4. Plan' /\ Dropping' /\ Backed'
        BY <1>i, <1>l, <2>2, <3>1 DEF Plan, Dropping, Backed
    <3> QED BY <3>2, <3>3, <3>4 DEF OwnershipInv
  <2>4. CASE WriteDevice(d) \/ WriteMismatch(d)
    <3>1. /\ agent.pc = "write" /\ d \in agent.todo
          /\ agent' = Applied(agent, d) \/ \E x : agent' = Failed(agent, d, x)
          /\ UNCHANGED <<server, versions, pod>>
          /\ \A e \in Devices : e # d => writer'[e] = writer[e]
        BY <1>s, <2>4 DEF WriteDevice, WriteMismatch, api
    <3>2. server.devices[d] # NotOwned
        BY <1>i, <1>l, <3>1 DEF Backed
    <3>3. Recorded' /\ StaleIsBacked'
        BY <1>i, <1>l, <3>1, <3>2 DEF StaleIsBacked, Recorded
    <3>4. Unmounted'
        BY <2>m, <3>1 DEF Unmounted
    <3>5. Plan' /\ Backed'
        BY <1>i, <1>l, <2>2, <3>1 DEF Plan, Backed
    <3>6. Dropping'
        BY <1>i, <1>l, <2>2, <3>1 DEF Dropping
    <3> QED BY <3>3, <3>4, <3>5, <3>6 DEF OwnershipInv
  <2>5. CASE ResetDevice(d)
    <3>1. /\ agent'.copy = agent.copy /\ agent'.desired = agent.desired
          /\ agent'.todo = {} /\ agent'.drop = agent.drop \ {d}
          /\ agent'.final = [agent.final EXCEPT ![d] = NotOwned]
          /\ d \in agent.drop /\ UNCHANGED <<server, versions, pod>>
          /\ writer' = [writer EXCEPT ![d] = "nobody"]
        BY <1>s, <2>5 DEF ResetDevice, Resettable, Reconcile, api
    <3>2. Recorded' /\ StaleIsBacked' /\ Backed'
        BY <1>i, <1>s, <3>1 DEF Recorded, StaleIsBacked, Backed
    <3>3. Unmounted'
        BY <1>i, <1>s, <3>1 DEF Unmounted, Unowned
    <3>4. Plan'
        BY <1>i, <1>l, <3>1 DEF Plan
    <3>5. Dropping'
      <4> SUFFICES ASSUME NEW e \in Devices, agent.copy.devices[e] # NotOwned,
                          agent'.final[e] = NotOwned
                   PROVE  /\ writer'[e] \notin {"agent", "garbled"}
                          /\ agent.copy.del \/ Tightest(agent.copy.spec, e) = NoRule
          BY <3>1 DEF Dropping
      <4>1. CASE e = d
          BY <1>i, <1>l, <1>s, <3>1, <4>1 DEF Plan
      <4>2. CASE e # d
        <5>1. agent.final[e] = NotOwned /\ writer'[e] = writer[e]
            BY <1>s, <3>1, <4>2 DEF DevicesType
        <5> QED BY <1>i, <1>l, <5>1 DEF Dropping
      <4> QED BY <4>1, <4>2
    <3> QED BY <3>2, <3>3, <3>4, <3>5 DEF OwnershipInv
  <2>6. CASE ResetFails(d)
    <3>1. /\ agent'.copy = agent.copy /\ agent'.desired = agent.desired
          /\ agent'.todo = {} /\ agent.todo = {}
          /\ agent'.drop = agent.drop \ {d} /\ agent'.final = agent.final
          /\ UNCHANGED <<server, versions, writer, pod>>
        BY <1>s, <2>6 DEF ResetFails, Resettable, Reconcile, api, kern
    <3> QED BY <1>d, <3>1
  <2> QED BY <2>1, <2>3, <2>4, <2>5, <2>6
<1>10. CASE KernelDone
  <2>1. /\ agent'.pc = "status"
        /\ agent'.copy = agent.copy /\ agent'.desired = agent.desired
        /\ agent'.todo = agent.todo /\ agent'.drop = agent.drop
        /\ agent'.final = agent.final
        /\ UNCHANGED <<server, versions, writer, pod>>
      BY <1>s, <1>10 DEF KernelDone, Reconcile, api, kern
  <2> QED BY <1>d, <2>1
<1>11. CASE StatusUnchanged
    BY <1>11, <1>a DEF StatusUnchanged, api, kern
\* A status update is stored and the agent ends.
<1>w. ASSUME agent.pc = "status", Current(agent.copy),
             Publish(NewStatus(agent)), agent' = Idle,
             UNCHANGED <<writer, pod>>
      PROVE  OwnershipInv'
  <2>1. /\ agent.copy = server
        /\ \A w \in versions : w.spec = server.spec /\ w.del = server.del
      BY <1>p, <1>w, AcceptedCopy
  <2>2. /\ NewStatus(agent) \in PodIOLimit
        /\ NewStatus(agent).spec = server.spec
        /\ NewStatus(agent).devices = agent.final
      BY <1>s, <2>1, StatusFacts
  <2>3. ~pod.mounted => agent.final = Unowned
      BY <1>i, <1>l DEF Unmounted
  <2>4. \A d \in Devices :
          server.devices[d] # NotOwned /\ agent.final[d] = NotOwned =>
              /\ writer[d] \notin {"agent", "garbled"}
              /\ server.del \/ Tightest(server.spec, d) = NoRule
      BY <1>i, <1>l, <2>1 DEF Dropping
  <2>5. /\ StaleIsBacked' /\ Recorded'
        /\ ~pod.mounted => \A w \in versions' : w.devices = Unowned
      BY <1>c, <1>w, <2>1, <2>2, <2>3, <2>4
  <2> QED BY <1>w, <2>5 DEF OwnershipInv, Unmounted, Plan, Dropping, Backed,
                            Unowned
<1>12. CASE WriteStatus
    BY <1>12, <1>w DEF WriteStatus, kern
<1>13. CASE StatusConflict
    BY <1>13, <1>a DEF StatusConflict, Retry, api, kern
<1>14. CASE UpdateFails
  <2>1. agent' = Idle /\ UNCHANGED <<writer, pod>>
      BY <1>14 DEF UpdateFails, Retry, kern
  <2>2. CASE UNCHANGED api
      BY <1>a, <2>1, <2>2 DEF api
  <2>3. CASE /\ agent.pc = "intent" /\ Current(agent.copy)
             /\ Publish([agent.copy EXCEPT
                  !.devices = IntentDevices(@, agent.desired)])
    <3> DEFINE o == [agent.copy EXCEPT !.devices = IntentDevices(@, agent.desired)]
    <3>1. /\ agent.copy = server
          /\ \A w \in versions : w.spec = server.spec /\ w.del = server.del
        BY <1>p, <2>3, AcceptedCopy
    <3>2. /\ o \in PodIOLimit /\ o.spec = agent.copy.spec
          /\ \A d \in Devices :
              /\ agent.copy.devices[d] # NotOwned => o.devices[d] # NotOwned
              /\ agent.desired[d] = NoRule => o.devices[d] = agent.copy.devices[d]
        BY <1>s, IntentFacts
    <3>3. Publish(o)
        BY <2>3
    <3> HIDE DEF o
    <3>4. ~pod.mounted => o.devices = Unowned
      <4>1. o.devices \in DevicesType
          BY <3>2 DEF PodIOLimit
      <4>2. ASSUME ~pod.mounted, NEW d \in Devices PROVE o.devices[d] = NotOwned
          BY <1>i, <1>l, <3>2, <4>2 DEF Unmounted, NoRules, Unowned
      <4> QED BY <4>1, <4>2 DEF DevicesType, Unowned
    <3>5. /\ StaleIsBacked' /\ Recorded'
          /\ ~pod.mounted => \A w \in versions' : w.devices = Unowned
        BY <1>c, <2>1, <3>1, <3>2, <3>3, <3>4
    <3> QED BY <2>1, <3>5 DEF OwnershipInv, Unmounted, Plan, Dropping, Backed,
                              Unowned
  <2>4. CASE /\ agent.pc = "status" /\ Current(agent.copy)
             /\ Publish(NewStatus(agent))
      BY <1>w, <2>1, <2>4
  <2> QED BY <1>14, <2>2, <2>3, <2>4 DEF UpdateFails
<1>15. CASE Crash
    BY <1>15, <1>a DEF Crash, Retry, api, kern
<1>16. CASE CreateObject
  <2>1. PICK s \in [Volumes -> Rule] :
          Publish([NoObject EXCEPT !.exists = TRUE, !.gen = 1, !.spec = s])
      BY <1>16, AgentAssumption DEF CreateObject
  <2> DEFINE o == [NoObject EXCEPT !.exists = TRUE, !.gen = 1, !.spec = s]
  <2>2. o \in PodIOLimit /\ o.devices = Unowned
      BY ConstantTypes DEF PodIOLimit
  <2>3. Publish(o)
      BY <2>1
  <2>4. server.devices = Unowned /\ UNCHANGED <<agent, writer, pod>>
      BY <1>16, <1>p DEF CreateObject, GoneOwnsNothing, kern
  <2> HIDE DEF o
  <2> QED BY <1>b, <2>2, <2>3, <2>4
<1>17. CASE PatchSpec
  <2>1. PICK s \in [Volumes -> Rule] :
          Publish([server EXCEPT !.gen = @ + 1, !.spec = s])
      BY <1>17, AgentAssumption DEF PatchSpec
  <2> DEFINE o == [server EXCEPT !.gen = @ + 1, !.spec = s]
  <2>2. o \in PodIOLimit
      BY <1>s, NextGen
  <2>3. o.devices = server.devices
      BY <1>s DEF PodIOLimit
  <2>4. Publish(o)
      BY <2>1
  <2> HIDE DEF o
  <2> QED BY <1>17, <1>b, <2>2, <2>3, <2>4 DEF PatchSpec, kern
<1>18. CASE DeleteObject
  <2> DEFINE o == [server EXCEPT !.gen = @ + 1, !.del = TRUE]
  <2>1. o \in PodIOLimit
      BY <1>s, NextGen
  <2>2. o.devices = server.devices
      BY <1>s DEF PodIOLimit
  <2>3. Publish(o)
      BY <1>18 DEF DeleteObject
  <2> HIDE DEF o
  <2> QED BY <1>18, <1>b, <2>1, <2>2, <2>3 DEF DeleteObject, kern
<1>19. CASE RemoveFinalizer
    BY <1>19, <1>b, <1>l, ConstantTypes DEF RemoveFinalizer, kern
<1>20. CASE CgroupUp \/ MountVolumes
  <2>1. /\ UNCHANGED <<server, versions, agent, writer>>
        /\ ~pod'.mounted => ~pod.mounted
      BY <1>20 DEF CgroupUp, MountVolumes, TypeOK, api, kern
  <2> QED BY <1>i, <1>l, <2>1 DEF OwnershipInv, Unmounted, Plan, Dropping,
                                  Backed, StaleIsBacked, Recorded
<1>21. CASE PodEnds \/ TearDown
    BY <1>21, <1>l DEF PodEnds, TearDown, TypeOK
<1>22. CASE Drift
  <2>1. /\ UNCHANGED <<server, versions, agent, pod>>
        /\ \A d \in Devices : writer'[d] \in {writer[d], "other"}
      BY <1>s, <1>22 DEF Drift, api
  <2> QED BY <1>i, <2>1 DEF OwnershipInv, Unmounted, Plan, Dropping,
                            Backed, StaleIsBacked, Recorded
<1>23. CASE UNCHANGED vars
    BY <1>23, <1>i DEF vars, OwnershipInv, Unmounted, Plan, Dropping, Backed,
                       StaleIsBacked, Recorded
<1> QED
    BY <1>1, <1>2, <1>3, <1>4, <1>5, <1>6, <1>7, <1>8, <1>9, <1>10, <1>11,
       <1>12, <1>13, <1>14, <1>15, <1>16, <1>17, <1>18, <1>19, <1>20, <1>21,
       <1>22, <1>23 DEF Next, AgentStep, EnvStep

----------------------------------------------------------------------------
(* Theorems.                                                               *)

\* The types and the version protocol hold in every reachable state.
LEMMA ProtocolAlways == Spec => [](TypeOK /\ ProtocolInv)
<1>1. Init => ProtocolInv
    BY IdleFields DEF Init, ProtocolInv, Lineage, CopyLineage, ReleaseOnly,
                      GoneOwnsNothing, NoObject
<1>2. TypeOK /\ TypeOK' /\ ProtocolInv /\ [Next]_vars => ProtocolInv'
    BY ProtocolStep
<1> QED BY <1>1, <1>2, TypeCorrect, PTL DEF Spec

\* So does the ownership invariant, when lookups do not flake.
LEMMA OwnershipAlways ==
    ASSUME Flaky = {}
    PROVE  Spec => []OwnershipInv
<1>1. Init => OwnershipInv
    BY IdleFields DEF Init, OwnershipInv, Unmounted, Plan, Dropping, Backed,
                      StaleIsBacked, Recorded, NoObject, Unowned, NotOwned
<1>2. TypeOK /\ TypeOK' /\ ProtocolInv /\ OwnershipInv /\ [Next]_vars
        => OwnershipInv'
    BY OwnershipStep
<1> QED BY <1>1, <1>2, TypeCorrect, ProtocolAlways, PTL DEF Spec

\* The ownership record (D8, D9): if lookups of mounted volumes do not fail
\* transiently, then at every moment of every run, for any number of volumes
\* and devices and any faults, a rule the agent wrote for a live pod is in
\* status.devices on the server.
THEOREM OwnershipRecorded ==
    ASSUME Flaky = {}
    PROVE  Spec => []Recorded
<1>1. OwnershipInv => Recorded
    BY DEF OwnershipInv
<1> QED BY <1>1, OwnershipAlways, PTL

\* The record closes with deletion (D9): a step from an object that is being
\* deleted never adds a device, whatever stale copy the agent holds, so the
\* controller may remove the finalizer once it is empty.
THEOREM RecordCloses == Spec => NoNewDeviceWhileDeleting
<1>1. ASSUME TypeOK, ProtocolInv, [Next]_vars, server.del
      PROVE  Owned(server'.devices) \subseteq Owned(server.devices)
  <2>s. /\ server \in PodIOLimit /\ agent \in Reconcile
        /\ agent.copy \in PodIOLimit /\ agent.desired \in [Devices -> Rule]
      BY <1>1 DEF TypeOK, Reconcile
  <2>i. CopyLineage /\ ReleaseOnly
      BY <1>1 DEF ProtocolInv
  <2>e. Owned(Unowned) = {}
      BY DEF Owned, Unowned
  <2>1. CASE server' = server
      BY <2>1
  <2>2. CASE agent.pc = "intent" /\ Current(agent.copy)
    <3>1. agent.copy = server
        BY <1>1, <2>i, <2>2, AcceptedCopy
    <3> QED BY <1>1, <2>i, <2>2, <3>1 DEF ReleaseOnly
  <2>3. CASE /\ agent.pc = "status" /\ Current(agent.copy)
             /\ Publish(NewStatus(agent))
    <3>1. agent.copy = server
        BY <1>1, <2>i, <2>3, AcceptedCopy
    <3>2. server'.devices = agent.final
        BY <1>1, <2>s, <2>3, StatusFacts, PublishFacts
    <3> QED BY <1>1, <2>i, <3>1, <3>2 DEF ReleaseOnly
  <2>4. CASE CreateObject
    <3>1. PICK s \in [Volumes -> Rule] :
            Publish([NoObject EXCEPT !.exists = TRUE, !.gen = 1, !.spec = s])
        BY <2>4, AgentAssumption DEF CreateObject
    <3> DEFINE o == [NoObject EXCEPT !.exists = TRUE, !.gen = 1, !.spec = s]
    <3>2. o \in PodIOLimit /\ o.devices = Unowned
        BY ConstantTypes, IdleFields DEF PodIOLimit
    <3>3. Publish(o)
        BY <3>1
    <3> HIDE DEF o
    <3> QED BY <1>1, <2>e, <3>2, <3>3, PublishFacts
  <2>5. CASE PatchSpec
    <3>1. PICK s \in [Volumes -> Rule] :
            Publish([server EXCEPT !.gen = @ + 1, !.spec = s])
        BY <2>5, AgentAssumption DEF PatchSpec
    <3> DEFINE o == [server EXCEPT !.gen = @ + 1, !.spec = s]
    <3>2. o \in PodIOLimit
        BY <2>s, NextGen
    <3>3. Publish(o) /\ o.devices = server.devices
        BY <2>s, <3>1 DEF PodIOLimit
    <3> HIDE DEF o
    <3> QED BY <1>1, <3>2, <3>3, PublishFacts
  <2>6. CASE RemoveFinalizer
      BY <1>1, <2>6, <2>e, ConstantTypes, IdleFields, PublishFacts
         DEF RemoveFinalizer
  <2>7. CASE DeleteObject
      BY <1>1, <2>7 DEF DeleteObject
  <2> QED
      BY <1>1, <2>1, <2>2, <2>3, <2>4, <2>5, <2>6, <2>7
         DEF Next, AgentStep, EnvStep, Sync, StartGone, StartRelease,
             StartUniform, StartApply, RecordDeviceIntent, IntentConflict,
             ReadIOMax, KernelStep, SkipDevice, WriteDevice, WriteRejected,
             WriteMismatch, ResetDevice, ResetFails, KernelDone,
             StatusUnchanged, WriteStatus, StatusConflict, UpdateFails, Crash,
             CgroupUp, MountVolumes, PodEnds, TearDown, Drift, vars, api
<1>2. TypeOK /\ ProtocolInv /\ [Next]_vars
        => [server.del => Owned(server'.devices) \subseteq Owned(server.devices)]_vars
    BY <1>1
<1> QED BY <1>2, ProtocolAlways, PTL DEF Spec, NoNewDeviceWhileDeleting

\* The agent implements its side of the deletion handshake (D8, D9), for any
\* volumes, devices and bounds: through stale copies, conflicts, lost answers
\* and crashes, every change of the stored object is a step the handshake
\* allows.
THEOREM ImplementsHandshake == Spec => KeepsHandshake
<1>1. Init => H!Init
    BY IdleFields DEF Init, H!Init, Owned, Unowned
<1>2. ASSUME TypeOK, ProtocolInv, [Next]_vars
      PROVE  [H!Next]_(H!vars)
  <2>s. /\ server \in PodIOLimit /\ agent \in Reconcile
        /\ agent.copy \in PodIOLimit /\ agent.desired \in [Devices -> Rule]
      BY <1>2 DEF TypeOK, Reconcile
  <2>i. CopyLineage /\ ReleaseOnly
      BY <1>2 DEF ProtocolInv
  <2>e. Owned(Unowned) = {}
      BY DEF Owned, Unowned
  <2>b. /\ server.exists \in BOOLEAN /\ server.del \in BOOLEAN
        /\ pod.live \in BOOLEAN
      BY <1>2, <2>s DEF TypeOK, PodIOLimit
  <2>1. CASE server' = server /\ pod'.live = pod.live
      BY <2>1 DEF H!vars, Owned
  <2>p. CASE CgroupUp \/ MountVolumes \/ TearDown
    <3>1. pod \in [live : BOOLEAN, cgroup : {"absent", "noio", "up"},
                   mounted : BOOLEAN]
        BY <1>2 DEF TypeOK
    <3>2. server' = server /\ pod'.live = pod.live
        BY <2>p, <3>1 DEF CgroupUp, MountVolumes, TearDown, api
    <3> QED BY <2>1, <3>2
  <2>2. CASE PodEnds
    <3>1. server' = server /\ pod.live /\ pod'.live = FALSE
        BY <1>2, <2>2 DEF PodEnds, TypeOK, api
    <3> QED BY <3>1 DEF H!Next, H!PodEnds, Owned
  <2>3. CASE /\ agent.pc = "intent" /\ Current(agent.copy) /\ pod' = pod
             /\ Publish([agent.copy EXCEPT
                           !.devices = IntentDevices(@, agent.desired)])
    <3>1. agent.copy = server /\ server.exists
        BY <1>2, <2>i, <2>3, AcceptedCopy
    <3> DEFINE n == [agent.copy EXCEPT
                       !.devices = IntentDevices(@, agent.desired)]
    <3>2. n \in PodIOLimit /\ n.exists = server.exists /\ n.del = server.del
        BY <2>s, <3>1, IntentFacts
    <3>3. Publish(n)
        BY <2>3
    <3> HIDE DEF n
    <3>4. server'.exists = server.exists /\ server'.del = server.del
        BY <1>2, <3>2, <3>3, PublishFacts
    <3>5. ~server.del
        BY <2>i, <2>3, <3>1 DEF ReleaseOnly
    <3> QED BY <2>3, <3>1, <3>4, <3>5 DEF H!Next, H!Record, H!vars
  <2>4. CASE /\ agent.pc = "status" /\ Current(agent.copy) /\ pod' = pod
             /\ Publish(NewStatus(agent))
    <3>1. agent.copy = server /\ server.exists
        BY <1>2, <2>i, <2>4, AcceptedCopy
    <3>2. /\ server'.exists = server.exists /\ server'.del = server.del
          /\ server'.devices = agent.final
        BY <1>2, <2>s, <2>4, <3>1, StatusFacts, PublishFacts
    <3>3. server.del => Owned(server'.devices) \subseteq Owned(server.devices)
        BY <2>i, <3>1, <3>2 DEF ReleaseOnly
    <3> QED BY <2>4, <3>1, <3>2, <3>3 DEF H!Next, H!Record, H!Release, H!vars
  <2>5. CASE CreateObject
    <3>1. PICK s \in [Volumes -> Rule] :
            Publish([NoObject EXCEPT !.exists = TRUE, !.gen = 1, !.spec = s])
        BY <2>5, AgentAssumption DEF CreateObject
    <3> DEFINE o == [NoObject EXCEPT !.exists = TRUE, !.gen = 1, !.spec = s]
    <3>2. /\ o \in PodIOLimit /\ o.devices = Unowned
          /\ o.exists = TRUE /\ o.del = FALSE
        BY ConstantTypes, IdleFields DEF PodIOLimit
    <3>3. Publish(o)
        BY <3>1
    <3> HIDE DEF o
    <3>4. /\ server'.exists = TRUE /\ server'.del = FALSE
          /\ Owned(server'.devices) = {}
        BY <1>2, <2>e, <3>2, <3>3, PublishFacts
    <3>5. ~server.exists /\ pod' = pod
        BY <2>5 DEF CreateObject
    <3> QED BY <3>4, <3>5 DEF H!Next, H!Create
  <2>6. CASE PatchSpec
    <3>1. PICK s \in [Volumes -> Rule] :
            Publish([server EXCEPT !.gen = @ + 1, !.spec = s])
        BY <2>6, AgentAssumption DEF PatchSpec
    <3> DEFINE o == [server EXCEPT !.gen = @ + 1, !.spec = s]
    <3>2. o \in PodIOLimit
        BY <2>s, NextGen
    <3>3. /\ Publish(o) /\ o.devices = server.devices
          /\ o.exists = server.exists /\ o.del = server.del
        BY <2>s, <3>1 DEF PodIOLimit
    <3> HIDE DEF o
    <3>4. /\ server'.exists = server.exists /\ server'.del = server.del
          /\ server'.devices = server.devices
        BY <1>2, <3>2, <3>3, PublishFacts
    <3>5. pod' = pod
        BY <2>6 DEF PatchSpec
    <3> QED BY <3>4, <3>5 DEF H!vars, Owned
  <2>7. CASE DeleteObject
    <3> DEFINE o == [server EXCEPT !.gen = @ + 1, !.del = TRUE]
    <3>1. /\ Publish(o) /\ server.exists /\ ~server.del /\ pod' = pod
        BY <2>7 DEF DeleteObject
    <3>2. /\ o \in PodIOLimit /\ o.devices = server.devices
          /\ o.exists = server.exists /\ o.del = TRUE
        BY <2>s, NextGen DEF PodIOLimit
    <3> HIDE DEF o
    <3>3. /\ server'.exists = server.exists /\ server'.del = TRUE
          /\ server'.devices = server.devices
        BY <1>2, <3>1, <3>2, PublishFacts
    <3> QED BY <3>1, <3>3 DEF H!Next, H!Delete, Owned
  <2>8. CASE RemoveFinalizer
    <3>1. /\ server.exists /\ server.del /\ pod' = pod /\ Publish(NoObject)
          /\ server.devices = Unowned \/ ~pod.live
        BY <2>8 DEF RemoveFinalizer
    <3>2. /\ server'.exists = FALSE /\ server'.del = FALSE
          /\ server'.devices = Unowned
        BY <1>2, <3>1, ConstantTypes, IdleFields, PublishFacts
    <3> QED BY <2>e, <3>1, <3>2 DEF H!Next, H!Remove
  <2> QED
      BY <1>2, <2>1, <2>p, <2>2, <2>3, <2>4, <2>5, <2>6, <2>7, <2>8
         DEF Next, AgentStep, EnvStep, Sync, StartGone, StartRelease,
             StartUniform, StartApply, RecordDeviceIntent, IntentConflict,
             ReadIOMax, KernelStep, SkipDevice, WriteDevice, WriteRejected,
             WriteMismatch, ResetDevice, ResetFails, KernelDone,
             StatusUnchanged, WriteStatus, StatusConflict, UpdateFails, Crash,
             Drift, vars, api
<1>3. TypeOK /\ ProtocolInv /\ [Next]_vars => [H!Next]_(H!vars)
    BY <1>2
<1> QED BY <1>1, <1>3, ProtocolAlways, PTL DEF Spec, KeepsHandshake, H!Spec
=============================================================================
