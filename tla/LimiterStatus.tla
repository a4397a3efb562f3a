--------------------------- MODULE LimiterStatus ---------------------------
(***************************************************************************)
(* The controller's IOLimiterReconciler (internal/controller) aggregating  *)
(* the state of every matched pod into the status of ONE IOLimiter, beside *)
(* the PodReconciler, which writes a condition of its own to the same      *)
(* status when a PodIOLimit cannot be written (F7).                        *)
(*                                                                         *)
(* Both are event driven: nothing polls, and the watches are filtered      *)
(* (F9), so a status is right in the end only if every change of its       *)
(* inputs wakes the IOLimiterReconciler through one of them.               *)
(*                                                                         *)
(* Data abstraction.  Every pod has one volume.  The limits of the limiter *)
(* are the number of the edit that set them (rows), and the spec of a      *)
(* PodIOLimit is the limits it was compiled from, so that it also stands   *)
(* for its generation.  A blocking issue of desired.Compute is a claim not *)
(* bound.  Caches jump to the newest version.  The deletion handshake of a *)
(* PodIOLimit is one step here (Delete, Terminating), and invalid limits   *)
(* are left out; see PodController for both.                               *)
(***************************************************************************)
EXTENDS Naturals, FiniteSets

CONSTANTS
    Pods,        \* pods of the limiter's namespace
    Kinds,       \* what a limiter's owner may ask for, a subset of AllKinds
    LateClaims,  \* pods whose volume claim is not bound at first
    MaxEdits,    \* bound on the edits of the limiter
    MaxFaults    \* bound on new refusals of the admission policy, API errors
                 \* and restarts of the controller

\* match: selects the pods and limits their volume; absent: selects them and
\* lists only other volumes; other: selects no pod; invalid: selector out of
\* bounds.
AllKinds == {"match", "absent", "other", "invalid"}

ASSUME LimiterStatusAssumption ==
    /\ IsFiniteSet(Pods) /\ Kinds \subseteq AllKinds /\ LateClaims \subseteq Pods
    /\ MaxEdits \in Nat /\ MaxFaults \in Nat

VARIABLES
    limiter,   \* the IOLimiter as the API server stores it
    lcache,    \* ... as the controller's informer delivered it last
    fresh,     \* the copies that have the stored resourceVersion
    pil,       \* the PodIOLimit of each pod, as stored
    pcache,    \* ... as the informer delivered it last
    pod,       \* the stage of each pod the informer delivered last
    bound,     \* pods whose claim the controller's cache shows bound
    selcache,  \* globalSelectorCache's entry for the limiter
    lqueued,   \* the limiter's key is in the IOLimiterReconciler's queue
    writing,   \* its reconcile in progress is about to write the status
    carried,   \* ... with this write failure, the one of the copy it read
    tally,     \* the result of its last pass, which the gauge exports
    pqueued,   \* pods in the PodReconciler's queue
    ctl,       \* its reconcile in progress
    denied,    \* pods whose PodIOLimit an admission policy refuses
    count      \* events so far, each with its bound

lim   == <<limiter, lcache, fresh>>
inputs == <<pod, bound, denied>>
pass  == <<writing, carried, tally>>
agg   == <<lqueued, pass>>
vars  == <<limiter, lcache, fresh, pil, pcache, pod, bound, selcache, lqueued,
           writing, carried, tally, pqueued, ctl, denied, count>>

----------------------------------------------------------------------------
(* Types.                                                                  *)

Edits == 0..MaxEdits
\* The message of a write failure names the pod.
NoFailure == "none"
Outcome == {"out", "without", "applied", "failed", "pending"}
Nobody == [p \in Pods |-> "out"]
\* The result of a pass: the Ready message names the pods of each outcome, the
\* counts are those of view, and one failed pod more for a write failure that
\* was folded in.
TallyType == [view : [Pods -> Outcome], folded : Pods \cup {NoFailure},
              ready : {"None", "AllApplied", "NoMatchingPods", "Pending",
                       "Failed", "InvalidSelector"}]
NoTally == [view |-> Nobody, folded |-> NoFailure, ready |-> "None"]
Status == [ogen : Edits, tally : TallyType,
           writeFailed : Pods \cup {NoFailure}]
NoStatus == [ogen |-> 0, tally |-> NoTally, writeFailed |-> NoFailure]
IOLimiter == [exists : BOOLEAN, gen : Edits, kind : AllKinds, rows : Edits,
              status : Status]
NoLimiter == [exists |-> FALSE, gen |-> 0, kind |-> "other", rows |-> 0,
              status |-> NoStatus]
NoObject == [rows |-> 0, ogen |-> 0, state |-> "pending"]
PodIOLimit == [rows : Edits, ogen : Edits,
               state : {"pending", "applied", "failed"}]
Idle == [op |-> "idle", pod |-> NoFailure, rows |-> 0]

Exists(o) == o # NoObject
----------------------------------------------------------------------------
(* The selector cache, shared by both reconcilers.                         *)

\* parseBoundedSelector: which of the pods the selector matches.
ParseBoundedSelector(kind) ==
    CASE kind = "invalid" -> "error"
      [] kind = "other"   -> "none"
      [] OTHER            -> "all"

\* Mutant: an entry is taken whatever generation it was parsed from.
SelectorForAny(l) ==
    IF selcache.gen # 0 THEN selcache.sel ELSE ParseBoundedSelector(l.kind)

\* selectorFor: the entry, if it is of this copy's generation.
SelectorFor(l) ==
    IF selcache.gen = l.gen THEN selcache.sel ELSE ParseBoundedSelector(l.kind)

Entry(l) == [gen |-> l.gen, sel |-> SelectorFor(l)]

----------------------------------------------------------------------------
(* desired.Compute, as far as the limiter's one contribution goes.         *)

\* limitersForPod: it matches, or is a source whose selector is invalid now.
LimitersForPod(p) ==
    /\ lcache.exists
    /\ \/ SelectorFor(lcache) = "all"
       \/ SelectorFor(lcache) = "error" /\ Exists(pcache[p])

\* podHasAnyListedVolume
PodHasAnyListedVolume(l) == l.kind # "absent"

\* The limits the limiter contributes to the pod's volume; none is 0.
Compute(p) ==
    IF LimitersForPod(p) /\ PodHasAnyListedVolume(lcache) /\ p \in bound
    THEN lcache.rows ELSE 0

\* issuesFor and splitVolumeNotFound: is there a blocking issue?
Blocking(p) ==
    LimitersForPod(p) /\ PodHasAnyListedVolume(lcache) /\ p \notin bound

----------------------------------------------------------------------------
(* IOLimiterReconciler.Reconcile.                                          *)

\* Mutant: a pod without an object has a state of its own, counted nowhere.
PodIOLimitStateForMissing(p) ==
    IF Compute(p) = 0 \/ ~Exists(pcache[p]) THEN "missing" ELSE pcache[p].state

\* podIOLimitStateFor: no object, or one the agent has not observed, is
\* Pending.
PodIOLimitStateFor(p) ==
    IF Compute(p) = 0 \/ ~Exists(pcache[p]) \/ pcache[p].ogen # pcache[p].rows
    THEN "pending" ELSE pcache[p].state

\* evalPod, and the filter of Reconcile's loop.
EvalPod(p) ==
    IF pod[p] # "running" \/ SelectorFor(lcache) = "none" THEN "out"
    ELSE IF ~PodHasAnyListedVolume(lcache) THEN "without"
    ELSE IF Blocking(p) THEN "failed"
    ELSE PodIOLimitStateFor(p)

CountOf(view, outcomes) == Cardinality({p \in Pods : view[p] \in outcomes})
MatchedPods(t) == CountOf(t.view, {"applied", "failed", "pending"})
AppliedPods(t) == CountOf(t.view, {"applied"})
FailedPods(t)  == CountOf(t.view, {"failed"})
                  + IF t.folded = NoFailure THEN 0 ELSE 1

\* setIOLimiterReady
SetIOLimiterReady(t) ==
    IF MatchedPods(t) = 0 THEN "NoMatchingPods"
    ELSE IF FailedPods(t) > 0 THEN "Failed"
    ELSE IF AppliedPods(t) = MatchedPods(t) THEN "AllApplied"
    ELSE "Pending"

\* One pass over the pods; without a selector, reconcileInvalidSelector.
NewTally ==
    LET t == [view |-> [p \in Pods |-> EvalPod(p)],
              folded |-> lcache.status.writeFailed, ready |-> "None"]
    IN IF SelectorFor(lcache) = "error"
       THEN [NoTally EXCEPT !.ready = "InvalidSelector"]
       ELSE [t EXCEPT !.ready = SetIOLimiterReady(t)]

\* Reconcile up to the write: a limiter that is gone takes its gauge with it;
\* otherwise iolimiterStatusEqual compares the new status with the copy's.
Evaluate ==
    /\ lqueued /\ ~writing
    /\ lqueued' = FALSE
    /\ \/ /\ ~lcache.exists
          /\ tally' = NoTally
          /\ UNCHANGED <<writing, carried, fresh, selcache>>
       \/ /\ lcache.exists
          /\ tally' = NewTally
          /\ writing' = (<<lcache.gen, NewTally>>
                           # <<lcache.status.ogen, lcache.status.tally>>)
          /\ carried' = IF writing' THEN lcache.status.writeFailed ELSE NoFailure
          /\ fresh' = fresh \cup {c \in {"work"} : writing' /\ "cache" \in fresh}
          /\ selcache' = Entry(lcache)
    /\ UNCHANGED <<limiter, lcache, pil, pcache, inputs, pqueued, ctl, count>>

Publish(l) == limiter' = l /\ fresh' = {}

\* Status().Update replaces the status whole by that of the copy the pass
\* began with.
UpdateStatus ==
    /\ Publish([limiter EXCEPT !.status =
          [ogen |-> limiter.gen, tally |-> tally, writeFailed |-> carried]])
    /\ writing' = FALSE /\ carried' = NoFailure

\* Mutant: the update carries no resourceVersion.
WriteStatusAnyway ==
    /\ writing /\ UpdateStatus
    /\ UNCHANGED <<lcache, pil, pcache, inputs, selcache, tally, lqueued,
                   pqueued, ctl, count>>

\* The API server accepts it if the copy has the stored resourceVersion; a
\* conflict requeues, and so does an error.
WriteStatus ==
    /\ writing
    /\ IF "work" \in fresh
       THEN UpdateStatus /\ UNCHANGED lqueued
       ELSE /\ lqueued' = TRUE /\ writing' = FALSE /\ carried' = NoFailure
            /\ UNCHANGED <<limiter, fresh>>
    /\ UNCHANGED <<lcache, pil, pcache, inputs, selcache, tally, pqueued, ctl,
                   count>>

Aggregate == Evaluate \/ WriteStatus

----------------------------------------------------------------------------
(* PodReconciler: the writes of PodIOLimits and the condition.             *)

\* An object goes only after the controller's cache has shown it deleted, so
\* one that is gone and still cached is Terminating there.
Terminating(p) == Exists(pcache[p]) /\ ~Exists(pil[p])

\* What the caches call for; a Terminating object is left alone.  See
\* PodController for the decision in full.
Decide(p) ==
    LET old == pcache[p]
        new == IF pod[p] = "running" THEN Compute(p) ELSE 0
    IN IF old.rows = new \/ Terminating(p) THEN "none"
       ELSE IF new = 0 THEN "delete"
       ELSE IF old.rows = 0 THEN "create"
       ELSE "patch"

Start(p) ==
    /\ ctl.op = "idle" /\ p \in pqueued
    /\ pqueued' = pqueued \ {p}
    /\ ctl' = IF Decide(p) = "none" THEN Idle
              ELSE [op |-> Decide(p), pod |-> p, rows |-> Compute(p)]
    /\ selcache' = IF lcache.exists THEN Entry(lcache) ELSE selcache
    /\ UNCHANGED <<lim, pil, pcache, inputs, agg, count>>

\* createPodIOLimit and patchIfDiffer up to the outcome of the write: an
\* object that is there already needs nothing more, any other failure is
\* recorded, and a success clears what was recorded.
WritePodIOLimit ==
    /\ ctl.op \in {"create", "patch"}
    /\ LET p == ctl.pod IN
          \/ /\ p \in denied
             /\ ctl' = [ctl EXCEPT !.op = "record", !.rows = 0]
             /\ UNCHANGED pil
          \/ /\ p \notin denied /\ ctl.op = "create" /\ Exists(pil[p])
             /\ ctl' = Idle
             /\ UNCHANGED pil
          \/ /\ p \notin denied /\ Exists(pil[p]) = (ctl.op = "patch")
             /\ pil' = [pil EXCEPT ![p].rows = ctl.rows]
             /\ ctl' = [ctl EXCEPT !.op = "clear", !.rows = 0]
    /\ UNCHANGED <<lim, pcache, inputs, selcache, agg, pqueued, count>>

Delete ==
    /\ ctl.op = "delete"
    /\ pil' = [pil EXCEPT ![ctl.pod] = NoObject]
    /\ ctl' = Idle
    /\ UNCHANGED <<lim, pcache, inputs, selcache, agg, pqueued, count>>

\* The condition is set with an update of the cached copy.
SetCondition(failure) ==
    IF "cache" \in fresh
    THEN Publish([lcache EXCEPT !.status.writeFailed = failure])
    ELSE UNCHANGED <<limiter, fresh>>

\* recordPodIOLimitWriteFailure, unless the condition says so already; the
\* failed write, or the conflict, requeues the pod.
RecordPodIOLimitWriteFailure ==
    /\ ctl.op = "record"
    /\ IF lcache.exists /\ lcache.status.writeFailed # ctl.pod
       THEN SetCondition(ctl.pod)
       ELSE UNCHANGED <<limiter, fresh>>
    /\ pqueued' = pqueued \cup {ctl.pod}
    /\ ctl' = Idle
    /\ UNCHANGED <<lcache, pil, pcache, inputs, selcache, agg, count>>

\* clearPodIOLimitWriteFailure; only a conflict requeues the pod.
ClearPodIOLimitWriteFailure ==
    /\ ctl.op = "clear"
    /\ IF lcache.exists /\ lcache.status.writeFailed # NoFailure
       THEN /\ SetCondition(NoFailure)
            /\ pqueued' = pqueued \cup {p \in {ctl.pod} : "cache" \notin fresh}
       ELSE UNCHANGED <<limiter, fresh, pqueued>>
    /\ ctl' = Idle
    /\ UNCHANGED <<lcache, pil, pcache, inputs, selcache, agg, count>>

PodWorker == \/ WritePodIOLimit \/ Delete \/ RecordPodIOLimitWriteFailure
             \/ ClearPodIOLimitWriteFailure

----------------------------------------------------------------------------
(* The informers and their event handlers.                                 *)

\* mapIOLimiterToPods: selected pods, and those with the limiter as a source.
MapIOLimiterToPods(l) ==
    {p \in Pods : \/ l.exists /\ pod[p] # "none" /\ SelectorFor(l) = "all"
                  \/ Exists(pcache[p])}

\* GenerationChangedPredicate: creations and deletions pass, and updates that
\* change the spec; status writes do not.
GenerationChanged(old, new) ==
    old.exists # new.exists \/ old.gen # new.gen

\* A limiter event.  The PodReconciler's watch has no predicate.  The handler
\* looks the selector up; as the parse happens outside the lock, a lookup that
\* began with the older copy may store its entry last.
DeliverLimiter ==
    /\ "cache" \notin fresh
    /\ lcache' = limiter
    /\ fresh' = fresh \cup {"cache"}
    /\ lqueued' = (lqueued \/ GenerationChanged(lcache, limiter))
    /\ pqueued' = pqueued \cup MapIOLimiterToPods(lcache)
                          \cup MapIOLimiterToPods(limiter)
    /\ selcache' \in {selcache} \cup {Entry(l) : l \in {x \in {limiter} : x.exists}}
    /\ UNCHANGED <<limiter, pil, pcache, inputs, pass, ctl, count>>

\* podIOLimitRelevantChangePredicate: creation, deletion, spec and status.
PodIOLimitRelevantChange(old, new) == old # new

\* A PodIOLimit event: mapPodIOLimitToLimiters and mapPodIOLimitToPod.
DeliverPodIOLimit(p) ==
    /\ pcache[p] # pil[p]
    /\ pcache' = [pcache EXCEPT ![p] = pil[p]]
    /\ LET relevant == PodIOLimitRelevantChange(pcache[p], pil[p]) IN
        /\ lqueued' = (lqueued \/ relevant)
        /\ pqueued' = pqueued \cup {q \in {p} : relevant}
    /\ UNCHANGED <<lim, pil, inputs, selcache, pass, ctl, count>>

\* A Pod event: the pod appears scheduled, or is terminal or gone.
\* mapPodToLimiters enqueues the limiters in the cache.
DeliverPod(p) ==
    /\ \/ pod[p] = "none" /\ pod' = [pod EXCEPT ![p] = "running"]
       \/ pod[p] = "running" /\ pod' = [pod EXCEPT ![p] = "ended"]
    /\ lqueued' = (lqueued \/ lcache.exists)
    /\ pqueued' = pqueued \cup {p}
    /\ UNCHANGED <<lim, pil, pcache, bound, denied, selcache, pass, ctl, count>>

\* A claim is seen bound: mapPVCToPods.  The IOLimiterReconciler does not
\* watch claims.
BindClaim(p) ==
    /\ p \notin bound
    /\ bound' = bound \cup {p}
    /\ pqueued' = pqueued \cup {q \in {p} : pod[q] # "none"}
    /\ UNCHANGED <<lim, pil, pcache, pod, denied, selcache, agg, ctl, count>>

Tick(event) ==
    /\ count.denials + count.faults < MaxFaults
    /\ count' = [count EXCEPT ![event] = @ + 1]

\* The controller's process ends and starts: the caches are filled anew and
\* every object in them is an event.
Restart ==
    /\ lcache' = limiter /\ fresh' = {"cache"} /\ pcache' = pil
    /\ selcache' = [gen |-> 0, sel |-> "none"] /\ tally' = NoTally
    /\ writing' = FALSE /\ carried' = NoFailure /\ ctl' = Idle
    /\ lqueued' = (limiter.exists \/ \E p \in Pods : Exists(pil[p]))
    /\ pqueued' = {p \in Pods : pod[p] # "none" \/ Exists(pil[p])}
    /\ Tick("faults")
    /\ UNCHANGED <<limiter, pil, inputs>>

\* Status().Update answers with an error though the status was stored.
UpdateFails ==
    /\ writing /\ "work" \in fresh /\ UpdateStatus
    /\ lqueued' = TRUE
    /\ Tick("faults")
    /\ UNCHANGED <<lcache, pil, pcache, inputs, selcache, tally, pqueued, ctl>>

----------------------------------------------------------------------------
(* The environment: the limiter's owner, the agents, the admission policy. *)

\* Create the limiter, or change its spec; the edit to a valid spec sets new
\* limits.
EditLimiter ==
    /\ limiter.gen < MaxEdits /\ (limiter.exists \/ limiter.gen = 0)
    /\ \E kind \in Kinds :
        Publish([limiter EXCEPT !.exists = TRUE, !.gen = @ + 1, !.kind = kind,
                                !.rows = limiter.gen + 1])
    /\ UNCHANGED <<lcache, pil, pcache, inputs, selcache, agg, pqueued, ctl,
                   count>>

DeleteLimiter ==
    /\ limiter.exists /\ limiter.gen < MaxEdits
    /\ Publish([NoLimiter EXCEPT !.gen = limiter.gen + 1])
    /\ UNCHANGED <<lcache, pil, pcache, inputs, selcache, agg, pqueued, ctl,
                   count>>

\* The agent of the pod's node observes the spec, and its report improves or
\* worsens once per generation.
AgentReports(p) ==
    /\ Exists(pil[p])
    /\ \E s \in {"pending", "applied", "failed"} :
        /\ \/ pil[p].ogen # pil[p].rows
           \/ <<pil[p].state, s>> \in {<<"pending", "applied">>,
                                      <<"applied", "failed">>}
        /\ pil' = [pil EXCEPT ![p].ogen = pil[p].rows, ![p].state = s]
    /\ UNCHANGED <<lim, pcache, inputs, selcache, agg, pqueued, ctl, count>>

\* The policy starts or stops refusing a pod's PodIOLimit.
PolicyChanges(p) ==
    /\ \/ p \notin denied /\ denied' = denied \cup {p} /\ Tick("denials")
       \/ p \in denied /\ denied' = denied \ {p} /\ UNCHANGED count
    /\ UNCHANGED <<lim, pil, pcache, pod, bound, selcache, agg, pqueued, ctl>>

----------------------------------------------------------------------------

Init ==
    /\ limiter = NoLimiter /\ lcache = NoLimiter /\ fresh = {"cache"}
    /\ pil = [p \in Pods |-> NoObject] /\ pcache = pil
    /\ pod = [p \in Pods |-> "none"] /\ bound = Pods \ LateClaims
    /\ selcache = [gen |-> 0, sel |-> "none"]
    /\ lqueued = FALSE /\ writing = FALSE /\ carried = NoFailure
    /\ tally = NoTally
    /\ pqueued = {} /\ ctl = Idle
    /\ denied = {} /\ count = [denials |-> 0, faults |-> 0]

Next ==
    \/ Aggregate \/ UpdateFails \/ PodWorker \/ DeliverLimiter \/ Restart
    \/ EditLimiter \/ DeleteLimiter
    \/ \E p \in Pods : \/ Start(p) \/ DeliverPodIOLimit(p) \/ DeliverPod(p)
                       \/ BindClaim(p) \/ AgentReports(p) \/ PolicyChanges(p)

Spec == Init /\ [][Next]_vars

\* Informers deliver and workers run; a work queue is first in, first out, so
\* no pod in it waits for ever for the one worker.
Fairness ==
    /\ WF_vars(Aggregate) /\ WF_vars(PodWorker) /\ WF_vars(DeliverLimiter)
    /\ \A p \in Pods : WF_vars(DeliverPodIOLimit(p)) /\ SF_vars(Start(p))

FairSpec == Spec /\ Fairness

----------------------------------------------------------------------------
(* Properties.                                                             *)

\* Every variable stays in its type; in particular a PodIOLimit never carries
\* limits the limiter has not had yet, and a status never a later generation.
TypeOK ==
    /\ limiter \in IOLimiter /\ lcache \in IOLimiter
    /\ limiter.status.ogen <= limiter.gen /\ lcache.gen <= limiter.gen
    /\ fresh \subseteq {"cache", "work"}
    /\ pil \in [Pods -> PodIOLimit] /\ pcache \in [Pods -> PodIOLimit]
    /\ \A p \in Pods : pil[p].rows <= limiter.gen
    /\ pod \in [Pods -> {"none", "running", "ended"}] /\ bound \subseteq Pods
    /\ selcache \in [gen : Edits, sel : {"all", "none", "error"}]
    /\ lqueued \in BOOLEAN /\ writing \in BOOLEAN /\ tally \in TallyType
    /\ carried \in Pods \cup {NoFailure}
    /\ pqueued \subseteq Pods /\ denied \subseteq Pods
    /\ ctl \in [op : {"idle", "create", "patch", "delete", "record", "clear"},
                pod : Pods \cup {NoFailure}, rows : Edits]
    /\ count \in [denials : 0..MaxFaults, faults : 0..MaxFaults]

\* F7: the PodIOLimitWriteFailed condition survives the status writes of the
\* IOLimiterReconciler: while the limiter exists, only a step of the
\* PodReconciler changes it, though both replace the status whole from copies
\* they read earlier.
ConditionSurvives ==
    [][/\ limiter.exists /\ limiter'.exists
       /\ limiter'.status.writeFailed # limiter.status.writeFailed
       => ctl.op \in {"record", "clear"} /\ ctl' = Idle]_vars

\* D37: the shared cache never serves the selector of another spec: an entry
\* filed under the generation of a copy either reconciler may read was parsed
\* from that copy's spec, whichever copy was looked up last.
SelectorTrue ==
    \A l \in {limiter, lcache} :
        selcache.gen = l.gen => selcache.sel = ParseBoundedSelector(l.kind)

\* Reference: what the limiter's owner should read about a pod.
Report(p) ==
    IF pod[p] # "running" \/ limiter.kind \in {"other", "invalid"} THEN "out"
    ELSE IF limiter.kind = "absent" THEN "without"
    ELSE IF p \notin bound THEN "failed"
    ELSE IF pil[p].rows # limiter.rows \/ pil[p].ogen # pil[p].rows
    THEN "pending" ELSE pil[p].state

\* D20, F9: unless a write was refused, the last pass of the reconciler saw
\* every pod as it is: though only filtered events wake it, in any order, and
\* it reads caches that lag, iolimiter_controller_pods is true in the end, and
\* gone with the limiter.
Measured ==
    IF limiter.exists
    THEN /\ tally.view = [p \in Pods |-> Report(p)]
         /\ (tally.ready = "AllApplied") <=>
              /\ \E p \in Pods : Report(p) = "applied"
              /\ \A p \in Pods : Report(p) \in {"applied", "out", "without"}
    ELSE tally = NoTally
EventuallyMeasured == <>[](count.denials = 0 => Measured)

\* D20: the same of what the owner reads: unless a write was refused, the
\* stored status is true in the end, and of the newest generation.
EventuallyReported ==
    <>[](limiter.exists /\ count.denials = 0
         => /\ limiter.status.ogen = limiter.gen
            /\ limiter.status.tally.view = [p \in Pods |-> Report(p)])
=============================================================================
