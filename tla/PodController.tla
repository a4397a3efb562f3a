--------------------------- MODULE PodController ---------------------------
(***************************************************************************)
(* The controller's PodReconciler (internal/controller) compiling the      *)
(* IOLimiters of a namespace into the PodIOLimit of ONE pod, from informer *)
(* caches that lag behind the API server independently of each other.      *)
(*                                                                         *)
(* The promises are D2 and D36 (each limiter contributes its own limits,   *)
(* the effective limit is the per-field minimum), D35 and D37 (an invalid  *)
(* limit or selector freezes what is applied) and D9 (the finalizer of a   *)
(* live pod's object goes only when the agent owns nothing).               *)
(*                                                                         *)
(* Data abstraction.  A row has one byte field and one IOPS field, each    *)
(* standing for the read and the write field, which are treated alike.     *)
(* Byte quantities count half bytes, so that fractions exist.  The spec of *)
(* the PodIOLimit is its contributions: limits and sources are derived     *)
(* from them.  What the agent does to status.devices is whether it is      *)
(* empty.                                                                  *)
(***************************************************************************)
EXTENDS Integers, Sequences, FiniteSets

CONSTANTS
    Limiters,      \* IOLimiter names in the pod's namespace
    Volumes,       \* pod volumes with a supported source
    Rows,          \* volumes[].limits a limiter may have, of type Row
    OneKi, OnePi,  \* the range of byte limits
    LastStage,     \* how far the pod's life goes
    MaxEdits,      \* bound on edits of IOLimiters and foreign deletions
    MaxRecords,    \* bound on the agent's changes to status.devices
    MaxFaults,     \* bound on API errors and restarts of the controller
    MaxFailovers,  \* bound on changes of the leader
    Reused         \* had an earlier pod, with another UID, the same name?

Unset == 0
NoRow == [bps |-> Unset, iops |-> Unset]
NoContribution == NoRow

\* The pod's life.  None and Previous are what a cache may show before it:
\* no pod of that name, or an earlier one with another UID.
None == 0
Previous == 1
Unscheduled == 2
Running == 3
Terminating == 4
Terminal == 5
Gone == 6

ASSUME PodControllerAssumption ==
    /\ OneKi \in Nat \ {0} /\ OnePi \in Nat
    /\ Rows \subseteq [bps : Nat, iops : Nat] \ {NoRow}
    /\ LastStage \in Unscheduled..Gone
    /\ MaxEdits \in Nat /\ MaxRecords \in Nat
    /\ MaxFaults \in Nat /\ MaxFailovers \in Nat /\ Reused \in BOOLEAN

VARIABLES
    limiters,   \* the IOLimiters as the API server stores them
    lcache,     \* ... as the controller's informer delivered them last
    lnews,      \* ... their versions not delivered yet, oldest first
    pil,        \* the PodIOLimit as the API server stores it
    pcache,     \* ... as the informer delivered it last
    pnews,      \* ... its versions not delivered yet, oldest first
    pod,        \* the stage of the pod's life
    podcache,   \* ... as the informer delivered it last
    bound,      \* volumes whose claim the controller's cache shows bound
    queued,     \* the work queue holds the pod's key
    ctl,        \* the reconcile in progress
    asked,      \* history: contributions each limiter's rows stood for
    count       \* events so far, each with its bound

lims == <<limiters, lcache, lnews, asked>>
obj  == <<pil, pnews>>
pods == <<pod, podcache, bound>>
vars == <<limiters, lcache, lnews, pil, pcache, pnews, pod, podcache, bound,
          queued, ctl, asked, count>>

----------------------------------------------------------------------------
(* Types.                                                                  *)

Contribution == [bps : Nat, iops : Nat]
Spec0 == [v \in Volumes |-> [l \in Limiters |-> NoContribution]]
SpecType == [Volumes -> [Limiters -> Contribution]]
NoLimiter == [exists |-> FALSE, sel |-> "other",
              rows |-> [v \in Volumes |-> NoRow]]
IOLimiter == {NoLimiter} \cup
             [exists : {TRUE}, sel : {"match", "other", "invalid"},
              rows : [Volumes -> Rows \cup {NoRow}]
                     \ {[v \in Volumes |-> NoRow]}]
NoObject == [rv |-> 0, exists |-> FALSE, del |-> FALSE, spec |-> Spec0,
             owned |-> FALSE]
PodIOLimit == [rv : Nat, exists : BOOLEAN, del : BOOLEAN, spec : SpecType,
               owned : BOOLEAN]
Idle == [op |-> "idle", copy |-> NoObject, spec |-> Spec0, frozen |-> {}]

----------------------------------------------------------------------------
(* desired.Compute and the selection of limiters.                          *)

\* validateBPS: a whole number of bytes within the range.
ValidateBPS(q) == q % 2 = 0 /\ q \div 2 \in OneKi..OnePi

RowInvalid(row) == row.bps # Unset /\ ~ValidateBPS(row.bps)

\* Mutant: a bad byte field is passed on as "no limit".
ValidFieldsMax(row) ==
    [bps |-> IF row.bps # Unset /\ ValidateBPS(row.bps) THEN row.bps \div 2
             ELSE IF row.bps # Unset THEN -1 ELSE Unset,
     iops |-> row.iops]

\* The valid fields of a row, as limits.
ValidFields(row) ==
    [bps |-> IF row.bps # Unset /\ ValidateBPS(row.bps) THEN row.bps \div 2
             ELSE Unset,
     iops |-> row.iops]

\* Mutant: the new valid fields of a bad row are laid over the frozen ones.
MergeContributionMixed(row, prev) ==
    IF RowInvalid(row) /\ prev # NoContribution
    THEN [prev EXCEPT !.iops = row.iops] ELSE ValidFields(row)

\* mergeContribution: a row with a bad field keeps the limiter's previous
\* contribution whole, if it has one.
MergeContribution(row, prev) ==
    IF RowInvalid(row) /\ prev # NoContribution THEN prev ELSE ValidFields(row)

\* Is the limiter a source of this spec?
IsSource(spec, l) == \E v \in Volumes : spec[v][l] # NoContribution

\* limitersForPod: matching limiters, and sources of the existing spec whose
\* selector is invalid now.
LimitersForPod(ls, existing) ==
    {l \in Limiters : ls[l].exists /\
        \/ ls[l].sel = "match"
        \/ ls[l].sel = "invalid" /\ IsSource(existing, l)}

\* resolveKubeletDir: the volumes whose claim is bound to a mountable volume.
Resolvable == bound

\* Compute: the contributions of every limiter to every resolvable volume.
Compute(ls, existing, resolvable) ==
    [v \in Volumes |-> [l \in Limiters |->
        IF /\ v \in resolvable /\ l \in LimitersForPod(ls, existing)
           /\ ls[l].rows[v] # NoRow
        THEN MergeContribution(ls[l].rows[v], existing[v][l])
        ELSE NoContribution]]

\* The pairs for which Compute kept the previous contribution.
Frozen(ls, existing, resolvable) ==
    {p \in Volumes \X Limiters :
        /\ p[1] \in resolvable /\ p[2] \in LimitersForPod(ls, existing)
        /\ RowInvalid(ls[p[2]].rows[p[1]])
        /\ existing[p[1]][p[2]] # NoContribution}

----------------------------------------------------------------------------
(* The API server and the informers.                                       *)

Publish(o) ==
    /\ pil' = [o EXCEPT !.rv = pil.rv + 1]
    /\ pnews' = Append(pnews, pil')

\* Mutant: only the selector counts.
MapsBySelector(l, limiter) ==
    limiter.exists /\ limiter.sel = "match" /\ podcache \notin {None, Gone}

\* Does mapIOLimiterToPods find the pod for this version of a limiter: by
\* its selector, or as a source of the cached PodIOLimit?
MapsToPod(l, limiter) ==
    \/ limiter.exists /\ limiter.sel = "match" /\ podcache \notin {None, Gone}
    \/ pcache.exists /\ IsSource(pcache.spec, l)

\* A limiter event; the handler maps the old and the new version.
DeliverLimiter(l) ==
    \E i \in 1..Len(lnews[l]) :
        /\ lcache' = [lcache EXCEPT ![l] = lnews[l][i]]
        /\ lnews' = [lnews EXCEPT ![l] = SubSeq(@, i + 1, Len(@))]
        /\ queued' = (queued \/ MapsToPod(l, lcache[l])
                             \/ MapsToPod(l, lnews[l][i]))
        /\ UNCHANGED <<limiters, asked, obj, pcache, pods, ctl, count>>

\* A PodIOLimit event: mapPodIOLimitToPod.
DeliverPodIOLimit ==
    \E i \in 1..Len(pnews) :
        /\ pcache' = pnews[i]
        /\ pnews' = SubSeq(pnews, i + 1, Len(pnews))
        /\ queued' = TRUE
        /\ UNCHANGED <<lims, pil, pods, ctl, count>>

\* A Pod event: the earlier pod's deletion, or a later stage of this one,
\* each a change podRelevantChangePredicate lets through.
DeliverPod ==
    /\ \/ podcache = Previous /\ podcache' = None
       \/ podcache' \in {s \in Unscheduled..pod : s > podcache}
    /\ queued' = TRUE
    /\ UNCHANGED <<lims, obj, pcache, pod, bound, ctl, count>>

\* A claim is seen bound: mapPVCToPods.
BindVolume ==
    /\ \E v \in Volumes \ bound : bound' = bound \cup {v}
    /\ queued' = (queued \/ podcache \notin {None, Gone})
    /\ UNCHANGED <<lims, obj, pcache, pod, podcache, ctl, count>>

----------------------------------------------------------------------------
(* PodReconciler.Reconcile.                                                *)

\* getPod: a pod missing from the cache is read from the API server.
GetPod == IF podcache \in {None, Gone} THEN pod ELSE podcache

\* podLive: a pod being deleted keeps its cgroup until it is terminal.
PodLive(seen) == seen \in {Running, Terminating}

\* diffVolumes: is a volume added, removed or changed?
DiffVolumes(old, new) == old # new

\* Mutant: a Terminating object is let go without a look at its devices.
DecideNoWait(seen, o, spec) ==
    CASE ~PodLive(seen)
            -> IF o.exists THEN "release" ELSE "none"
      [] OTHER ->
            IF o.exists /\ o.del THEN "finalizer"
            ELSE IF spec = Spec0 THEN IF o.exists THEN "delete" ELSE "none"
            ELSE IF ~o.exists THEN IF seen = Terminating THEN "none" ELSE "create"
            ELSE IF DiffVolumes(o.spec, spec) THEN "patch" ELSE "none"

\* What the cached state calls for.
Decide(seen, o, spec) ==
    CASE ~PodLive(seen)
            -> IF o.exists THEN "release" ELSE "none"
      [] OTHER ->
            IF o.exists /\ o.del THEN IF o.owned THEN "wait" ELSE "finalizer"
            ELSE IF spec = Spec0 THEN IF o.exists THEN "delete" ELSE "none"
            ELSE IF ~o.exists THEN IF seen = Terminating THEN "none" ELSE "create"
            ELSE IF DiffVolumes(o.spec, spec) THEN "patch" ELSE "none"

\* Read the caches and decide.
Start ==
    /\ ctl.op = "idle" /\ queued
    /\ LET existing == IF pcache.exists THEN pcache.spec ELSE Spec0
           spec     == Compute(lcache, existing, Resolvable)
           op       == Decide(GetPod, pcache, spec)
       IN /\ queued' = (op = "wait")
          /\ ctl' = IF op \in {"none", "wait"} THEN Idle
                    ELSE [op |-> op, copy |-> pcache, spec |-> spec,
                          frozen |-> Frozen(lcache, existing, Resolvable)]
    /\ UNCHANGED <<lims, obj, pcache, pods, count>>

\* createPodIOLimit; AlreadyExists is left to the watch.
Create ==
    /\ ctl.op = "create"
    /\ IF pil.exists THEN UNCHANGED obj
       ELSE Publish([NoObject EXCEPT !.exists = TRUE, !.spec = ctl.spec])
    /\ ctl' = Idle
    /\ UNCHANGED <<lims, pcache, pods, queued, count>>

\* patchIfDiffer: a merge patch without optimistic lock replaces the list.
Patch ==
    /\ ctl.op = "patch"
    /\ IF pil.exists
       THEN Publish([pil EXCEPT !.spec = ctl.spec]) /\ UNCHANGED queued
       ELSE queued' = TRUE /\ UNCHANGED obj
    /\ ctl' = Idle
    /\ UNCHANGED <<lims, pcache, pods, count>>

\* Delete: with a finalizer on it the object only becomes Terminating.
DeleteAtServer ==
    IF pil.exists /\ ~pil.del THEN Publish([pil EXCEPT !.del = TRUE])
    ELSE UNCHANGED obj

Delete ==
    /\ ctl.op = "delete"
    /\ DeleteAtServer
    /\ ctl' = Idle
    /\ UNCHANGED <<lims, pcache, pods, queued, count>>

\* Mutant: the finalizer is stripped from an object that is not deleted.
ReleaseDirectOnly ==
    /\ ctl.op = "release"
    /\ ctl' = [ctl EXCEPT !.op = "finalizer"]
    /\ UNCHANGED <<lims, obj, pcache, pods, queued, count>>

\* releaseDirect: delete unless the copy is Terminating, then the finalizer.
ReleaseDirect ==
    /\ ctl.op = "release"
    /\ IF ctl.copy.del THEN UNCHANGED obj ELSE DeleteAtServer
    /\ ctl' = [ctl EXCEPT !.op = "finalizer"]
    /\ UNCHANGED <<lims, pcache, pods, queued, count>>

\* removeFinalizerOptimistic: read the cache again, patch with its version.
RemoveFinalizer ==
    /\ ctl.op = "finalizer"
    /\ \/ /\ ~pcache.exists
          /\ UNCHANGED <<obj, queued>>
       \/ /\ pcache.exists /\ pil.exists /\ pcache.rv = pil.rv
          /\ Publish(NoObject)
          /\ UNCHANGED queued
       \/ /\ pcache.exists /\ ~pil.exists
          /\ UNCHANGED <<obj, queued>>
       \/ /\ pcache.exists /\ pil.exists /\ pcache.rv # pil.rv
          /\ queued' = TRUE
          /\ UNCHANGED obj
    /\ ctl' = Idle
    /\ UNCHANGED <<lims, pcache, pods, count>>

Tick(event) == count' = [count EXCEPT ![event] = @ + 1]

\* A write fails, stored or not: the error requeues the key.  The controller
\* process dying before or after the write looks the same.
WriteFails ==
    /\ ctl.op # "idle" /\ count.faults < MaxFaults
    /\ \/ UNCHANGED obj
       \/ ctl.op = "create" /\ ~pil.exists
          /\ Publish([NoObject EXCEPT !.exists = TRUE, !.spec = ctl.spec])
       \/ ctl.op = "patch" /\ pil.exists
          /\ Publish([pil EXCEPT !.spec = ctl.spec])
       \/ /\ ctl.op = "delete" \/ (ctl.op = "release" /\ ~ctl.copy.del)
          /\ pil.exists /\ ~pil.del /\ Publish([pil EXCEPT !.del = TRUE])
       \/ /\ ctl.op = "finalizer"
          /\ pcache.exists /\ pil.exists /\ pcache.rv = pil.rv
          /\ Publish(NoObject)
    /\ ctl' = Idle /\ queued' = TRUE
    /\ Tick("faults")
    /\ UNCHANGED <<lims, pcache, pods>>

\* Another replica becomes the leader, after the write in progress or before
\* it, and starts with caches of its own, whose first lists fill its queue:
\* its pods, and the objects of pods that are gone.  Its Pod informer may be
\* behind the old leader's; the others are up to date here.
Failover ==
    /\ count.failovers < MaxFailovers
    /\ podcache' \in {s \in None..pod : s = Previous => Reused}
    /\ pcache' = pil /\ pnews' = << >>
    /\ lcache' = limiters /\ lnews' = [l \in Limiters |-> << >>]
    /\ ctl' = Idle
    /\ queued' = (podcache' \notin {None, Gone} \/ pil.exists)
    /\ Tick("failovers")
    /\ UNCHANGED <<limiters, asked, pil, pod, bound>>

Controller == \/ Start \/ Create \/ Patch \/ Delete \/ ReleaseDirect
              \/ RemoveFinalizer

----------------------------------------------------------------------------
(* The environment: owners of limiters, the agent and the pod.             *)

EditLimiter(l) ==
    /\ count.edits < MaxEdits
    /\ \E new \in IOLimiter \ {limiters[l]} :
        /\ limiters' = [limiters EXCEPT ![l] = new]
        /\ lnews' = [lnews EXCEPT ![l] = Append(@, new)]
        /\ asked' = [asked EXCEPT ![l] = [v \in Volumes |->
                        @[v] \cup {ValidFields(new.rows[v])}]]
    /\ Tick("edits")
    /\ UNCHANGED <<lcache, obj, pcache, pods, queued, ctl>>

\* The agent records its first device, or has reset the last one ...
AgentRecords ==
    /\ pil.exists /\ ~pil.del /\ count.records < MaxRecords
    /\ Publish([pil EXCEPT !.owned = ~@])
    /\ Tick("records")
    /\ UNCHANGED <<lims, pcache, pods, queued, ctl>>

\* ... and only the latter once the object is Terminating.
AgentReleases ==
    /\ pil.exists /\ pil.del /\ pil.owned
    /\ Publish([pil EXCEPT !.owned = FALSE])
    /\ UNCHANGED <<lims, pcache, pods, queued, ctl, count>>

\* An administrator, or the garbage collector once the pod is gone, deletes
\* the object.
OthersDelete ==
    /\ pil.exists /\ ~pil.del /\ count.edits < MaxEdits
    /\ Publish([pil EXCEPT !.del = TRUE])
    /\ Tick("edits")
    /\ UNCHANGED <<lims, pcache, pods, queued, ctl>>

\* The pod is scheduled, deleted, stops, is removed.
PodMoves ==
    /\ pod < LastStage
    /\ pod' \in {s \in Unscheduled..LastStage : s > pod}
    /\ UNCHANGED <<lims, obj, pcache, podcache, bound, queued, ctl, count>>

----------------------------------------------------------------------------

Init ==
    /\ limiters = [l \in Limiters |-> NoLimiter]
    /\ lcache = limiters
    /\ lnews = [l \in Limiters |-> << >>]
    /\ pil = NoObject /\ pcache = NoObject /\ pnews = << >>
    /\ pod = Unscheduled /\ bound = {}
    /\ podcache = IF Reused THEN Previous ELSE None
    /\ queued = FALSE /\ ctl = Idle
    /\ asked = [l \in Limiters |-> [v \in Volumes |-> {}]]
    /\ count = [edits |-> 0, records |-> 0, faults |-> 0, failovers |-> 0]

Next ==
    \/ \E l \in Limiters : DeliverLimiter(l) \/ EditLimiter(l)
    \/ DeliverPodIOLimit \/ DeliverPod \/ BindVolume
    \/ Controller \/ WriteFails \/ Failover
    \/ AgentRecords \/ AgentReleases \/ OthersDelete \/ PodMoves

Spec == Init /\ [][Next]_vars

\* Informers deliver, the controller's worker runs, and the agent answers a
\* deletion.
Fairness ==
    /\ \A l \in Limiters : WF_vars(DeliverLimiter(l))
    /\ WF_vars(DeliverPodIOLimit) /\ WF_vars(DeliverPod)
    /\ WF_vars(Controller) /\ WF_vars(AgentReleases)

FairSpec == Spec /\ Fairness

----------------------------------------------------------------------------
(* Properties.                                                             *)

\* Every variable stays in its type; in particular every limit the controller
\* writes to a PodIOLimit is a natural number, as Compute's validation promises.
TypeOK ==
    /\ limiters \in [Limiters -> IOLimiter]
    /\ lcache \in [Limiters -> IOLimiter]
    /\ lnews \in [Limiters -> Seq(IOLimiter)]
    /\ pil \in PodIOLimit /\ pcache \in PodIOLimit
    /\ pnews \in Seq(PodIOLimit)
    /\ pod \in Unscheduled..LastStage /\ podcache \in None..LastStage
    /\ bound \subseteq Volumes
    /\ queued \in BOOLEAN
    /\ ctl \in [op : {"idle", "create", "patch", "delete", "release",
                      "finalizer"},
                copy : PodIOLimit, spec : SpecType,
                frozen : SUBSET (Volumes \X Limiters)]
    /\ asked \in [Limiters -> [Volumes -> SUBSET Contribution]]
    /\ count \in [edits : 0..MaxEdits, records : 0..MaxRecords,
                  faults : 0..MaxFaults, failovers : 0..MaxFailovers]

\* D36: what a limiter contributes to a volume is what one of its own rows
\* for that volume asked for, as a whole: never another limiter's value,
\* never fields of two rows mixed, whatever mix of stale caches it was
\* computed from.
OwnContribution ==
    \A v \in Volumes, l \in Limiters :
        pil.spec[v][l] # NoContribution => pil.spec[v][l] \in asked[l][v]

\* D9: the object of a pod that still runs goes only when its record is
\* empty, though the record was read from a cache before the removal.
NoRuleAbandoned ==
    [][pil.exists /\ ~pil'.exists /\ pil.owned => pod >= Terminal]_vars

\* D9: seen through the stored object the controller, with its stale caches,
\* retries and restarts, is one party of the handshake and nothing more; in
\* particular it only strips the finalizer from an object that is deleted.
H == INSTANCE Handshake WITH
        exists <- pil.exists, del <- pil.del,
        owned <- IF pil.owned THEN {"devices"} ELSE {}, live <- pod < Terminal
KeepsHandshake == H!Spec

\* Is c at most as loose as d, on every field?
AsTight(c, d) ==
    \A f \in {"bps", "iops"} :
        d[f] # Unset => c[f] # Unset /\ c[f] <= d[f]

\* D35, D36: an invalid limit freezes, it does not loosen: where Compute kept
\* a previous contribution, the write leaves none looser than it is.
FreezeNeverLoosens ==
    [][pil.exists /\ pil'.exists /\ pil'.spec # pil.spec
       => \A p \in ctl.frozen :
             AsTight(pil'.spec[p[1]][p[2]], pil.spec[p[1]][p[2]])]_vars

\* Reference: what each limiter is entitled to contribute when all is
\* delivered.
Entitled(v, l, c) ==
    LET row == limiters[l].rows[v] IN
    CASE v \notin bound \/ row = NoRow \/ limiters[l].sel = "other"
            -> c = NoContribution
      [] OTHER ->
            \/ ~RowInvalid(row) /\ limiters[l].sel = "match"
               /\ c = ValidFields(row)
            \/ ~RowInvalid(row) /\ limiters[l].sel = "invalid"
               /\ c \in {NoContribution, ValidFields(row)}
            \/ RowInvalid(row) /\ c \in asked[l][v] \cup {NoContribution}

\* D2, D10, D20: when edits, faults and the pod come to rest, a running pod's
\* object holds exactly what its limiters are entitled to, and a dead pod has
\* none.
Compiled ==
    /\ pod \in {Running, Terminating} /\ pil.exists
        => ~pil.del /\ \A v \in Volumes, l \in Limiters :
                          Entitled(v, l, pil.spec[v][l])
    /\ pod = Running /\ ~pil.exists
        => \A v \in Volumes, l \in Limiters : Entitled(v, l, NoContribution)
    /\ pod \notin {Running, Terminating} => ~pil.exists
EventuallyCompiled == <>[]Compiled
=============================================================================
