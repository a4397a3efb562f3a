------------------------ MODULE LimiterStatusProofs ------------------------
(* Proofs about LimiterStatus, for any pods, limiter kinds and bounds that *)
(* satisfy LimiterStatusAssumption.                                        *)
EXTENDS LimiterStatus, TLAPS

----------------------------------------------------------------------------
(* The inductive invariant.                                                *)

\* Limits and generations come from the limiter, and from no later edit than
\* its last: its own, those of the copy, and those a pod's reconcile carries.
FromPast ==
    /\ limiter.rows <= limiter.gen /\ lcache.rows <= limiter.gen
    /\ ctl.rows <= limiter.gen /\ selcache.gen <= limiter.gen

\* A reconcile in progress is of some pod.
Reconciling == ctl.op # "idle" => ctl.pod \in Pods

\* A resourceVersion stands for a whole object: a copy that has the stored one
\* is the stored object, and the pass in progress carries the stored condition.
Versions ==
    /\ "cache" \in fresh => lcache = limiter
    /\ "work" \in fresh => writing /\ carried = limiter.status.writeFailed

\* A generation stands for a spec; before the first there is none to select.
Generations ==
    /\ SelectorTrue
    /\ limiter.gen = 0 => limiter.kind = "other"
    /\ lcache.gen = limiter.gen => lcache.kind = limiter.kind

StatusInv == TypeOK /\ FromPast /\ Reconciling /\ Versions /\ Generations

----------------------------------------------------------------------------
(* What the operators return.                                              *)

\* parseBoundedSelector answers for every selector.
LEMMA ParseType ==
    \A kind : ParseBoundedSelector(kind) \in {"all", "none", "error"}
BY DEF ParseBoundedSelector

\* A lookup's entry is of the copy's generation, and right for it.
LEMMA EntryFacts ==
    ASSUME StatusInv, NEW l \in {limiter, lcache}
    PROVE  /\ Entry(l) \in [gen : Edits, sel : {"all", "none", "error"}]
           /\ Entry(l).gen = l.gen /\ Entry(l).gen <= limiter.gen
           /\ \A m \in {limiter, lcache} :
                 Entry(l).gen = m.gen => Entry(l).sel = ParseBoundedSelector(m.kind)
<1>1. l.gen \in Edits /\ l.gen <= limiter.gen
    BY LimiterStatusAssumption DEF StatusInv, TypeOK, IOLimiter, Edits
<1>2. SelectorFor(l) = ParseBoundedSelector(l.kind)
    BY DEF SelectorFor, StatusInv, Generations, SelectorTrue
<1>3. Entry(l) = [gen |-> l.gen, sel |-> ParseBoundedSelector(l.kind)]
    BY <1>2 DEF Entry
<1>4. \A m \in {limiter, lcache} : l.gen = m.gen => l.kind = m.kind
    BY DEF StatusInv, Generations
<1> QED BY <1>1, <1>3, <1>4, ParseType

\* The limits computed for a pod are those of the copy, or none.
LEMMA ComputeType ==
    ASSUME StatusInv, NEW p
    PROVE  Compute(p) \in Edits /\ Compute(p) <= limiter.gen
<1>1. /\ lcache.rows \in Edits /\ lcache.rows <= limiter.gen
      /\ 0 \in Edits /\ limiter.gen \in Nat
    BY LimiterStatusAssumption DEF StatusInv, FromPast, TypeOK, IOLimiter, Edits
<1> QED BY <1>1 DEF Compute, Edits

\* What a pass sees of a pod.
LEMMA EvalPodType ==
    ASSUME StatusInv, NEW p \in Pods
    PROVE  EvalPod(p) \in Outcome
<1>1. pcache[p].state \in Outcome
    BY DEF StatusInv, TypeOK, PodIOLimit, Outcome
<1>2. PodIOLimitStateFor(p) \in Outcome
    BY <1>1 DEF PodIOLimitStateFor, Outcome
<1> QED BY <1>2 DEF EvalPod, Outcome

\* The result of a pass that has not run.
LEMMA NoTallyType == NoTally \in TallyType
BY DEF NoTally, TallyType, Nobody, Outcome

\* The result of a pass.
LEMMA NewTallyType ==
    ASSUME StatusInv
    PROVE  NewTally \in TallyType
<1> DEFINE t == [view |-> [p \in Pods |-> EvalPod(p)],
                 folded |-> lcache.status.writeFailed, ready |-> "None"]
<1>1. NewTally = IF SelectorFor(lcache) = "error"
                 THEN [NoTally EXCEPT !.ready = "InvalidSelector"]
                 ELSE [t EXCEPT !.ready = SetIOLimiterReady(t)]
    BY Zenon DEF NewTally
<1>2. t \in TallyType
  <2>1. lcache.status.writeFailed \in Pods \cup {NoFailure}
      BY DEF StatusInv, TypeOK, IOLimiter, Status
  <2>2. [p \in Pods |-> EvalPod(p)] \in [Pods -> Outcome]
      BY EvalPodType
  <2> QED BY <2>1, <2>2 DEF TallyType
<1> HIDE DEF t
<1>3. SetIOLimiterReady(t) \in {"NoMatchingPods", "Failed", "AllApplied", "Pending"}
    BY Zenon DEF SetIOLimiterReady
<1>4. [t EXCEPT !.ready = SetIOLimiterReady(t)] \in TallyType
    BY <1>2, <1>3 DEF TallyType
<1>5. [NoTally EXCEPT !.ready = "InvalidSelector"] \in TallyType
    BY NoTallyType DEF TallyType
<1> QED BY <1>1, <1>4, <1>5, Zenon

\* The objects before anything happened.
LEMMA EmptyTypes ==
    /\ NoLimiter \in IOLimiter /\ NoObject \in PodIOLimit
    /\ NoStatus \in Status /\ 0 \in Edits
<1>1. 0 \in Edits
    BY LimiterStatusAssumption DEF Edits
<1>2. NoStatus \in Status
    BY <1>1, NoTallyType DEF NoStatus, Status
<1>3. NoLimiter \in IOLimiter
    BY <1>1, <1>2 DEF NoLimiter, IOLimiter, AllKinds
<1> QED BY <1>1, <1>2, <1>3 DEF NoObject, PodIOLimit

\* The invariant holds initially.
LEMMA StatusInit == Init => StatusInv
<1> SUFFICES ASSUME Init PROVE StatusInv
    OBVIOUS
<1> USE DEF Init
<1>1. TypeOK
  <2>1. NoLimiter.status.ogen = 0 /\ NoLimiter.gen = 0
      BY DEF NoLimiter, NoStatus
  <2>2. pil \in [Pods -> PodIOLimit] /\ \A p \in Pods : pil[p].rows = 0
      BY EmptyTypes DEF NoObject
  <2>3. count \in [denials : 0..MaxFaults, faults : 0..MaxFaults]
      BY LimiterStatusAssumption
  <2>4. ctl \in [op : {"idle", "create", "patch", "delete", "record", "clear"},
                 pod : Pods \cup {NoFailure}, rows : Edits]
      BY EmptyTypes DEF Idle
  <2>5. selcache \in [gen : Edits, sel : {"all", "none", "error"}]
      BY EmptyTypes
  <2>6. bound \subseteq Pods /\ 0 <= 0
      BY LimiterStatusAssumption
  <2> QED BY <2>1, <2>2, <2>3, <2>4, <2>5, <2>6, EmptyTypes, NoTallyType DEF TypeOK
<1>2. FromPast
    BY DEF FromPast, NoLimiter, Idle
<1>3. Reconciling
    BY DEF Reconciling, Idle
<1>4. Versions
    BY DEF Versions
<1>5. Generations
    BY DEF Generations, SelectorTrue, NoLimiter, ParseBoundedSelector
<1> QED BY <1>1, <1>2, <1>3, <1>4, <1>5 DEF StatusInv

----------------------------------------------------------------------------
(* Every step preserves it: one lemma per action.                          *)

\* Everything of the invariant that is about the limiter and its copies.
LimiterPart ==
    /\ limiter \in IOLimiter /\ lcache \in IOLimiter
    /\ limiter.status.ogen <= limiter.gen /\ lcache.gen <= limiter.gen
    /\ fresh \subseteq {"cache", "work"}
    /\ writing \in BOOLEAN /\ tally \in TallyType
    /\ carried \in Pods \cup {NoFailure}
    /\ selcache \in [gen : Edits, sel : {"all", "none", "error"}]
    /\ limiter.rows <= limiter.gen /\ lcache.rows <= limiter.gen
    /\ selcache.gen <= limiter.gen
    /\ Versions /\ Generations

\* The pods' objects, their caches and their reconciles.
PodPart ==
    /\ pil \in [Pods -> PodIOLimit] /\ pcache \in [Pods -> PodIOLimit]
    /\ \A p \in Pods : pil[p].rows <= limiter.gen
    /\ pod \in [Pods -> {"none", "running", "ended"}] /\ bound \subseteq Pods
    /\ pqueued \subseteq Pods /\ denied \subseteq Pods
    /\ ctl \in [op : {"idle", "create", "patch", "delete", "record", "clear"},
                pod : Pods \cup {NoFailure}, rows : Edits]
    /\ ctl.rows <= limiter.gen
    /\ Reconciling

\* The rest: the limiter's place in the queue and the count of events.
RestPart ==
    /\ lqueued \in BOOLEAN
    /\ count \in [denials : 0..MaxFaults, faults : 0..MaxFaults]

\* The invariant in three parts, which few actions disturb together.
LEMMA Parts == StatusInv <=> LimiterPart /\ PodPart /\ RestPart
BY DEF StatusInv, TypeOK, FromPast, LimiterPart, PodPart, RestPart

\* The same of the next state.
LEMMA PartsNext == StatusInv' <=> LimiterPart' /\ PodPart' /\ RestPart'
BY DEF StatusInv, TypeOK, FromPast, LimiterPart, PodPart, RestPart

\* A step that leaves the limiter, its copies and the pass alone.
LEMMA LimiterUntouched ==
    ASSUME StatusInv, UNCHANGED <<lim, pass, selcache>>
    PROVE  LimiterPart'
<1>1. LimiterPart
    BY Parts
<1> QED BY <1>1 DEF LimiterPart, Versions, Generations, SelectorTrue, lim, pass

\* A step that leaves the pods alone and the limiter's generation no lower.
LEMMA PodsUntouched ==
    ASSUME StatusInv, UNCHANGED <<pil, pcache, inputs, pqueued, ctl>>,
           limiter' \in IOLimiter, limiter.gen <= limiter'.gen
    PROVE  PodPart'
<1>1. PodPart
    BY Parts
<1>2. limiter.gen \in Nat /\ limiter'.gen \in Nat
    BY DEF StatusInv, TypeOK, IOLimiter, Edits
<1>3. \A p \in Pods : pil[p].rows \in Nat
    BY <1>1 DEF PodPart, PodIOLimit, Edits
<1>4. ctl.rows \in Nat
    BY <1>1 DEF PodPart, Edits
<1>5. \A p \in Pods : pil'[p].rows <= limiter'.gen
    BY <1>1, <1>2, <1>3 DEF PodPart
<1>6. ctl'.rows <= limiter'.gen
    BY <1>1, <1>2, <1>4 DEF PodPart
<1> QED BY <1>1, <1>5, <1>6 DEF PodPart, Reconciling, inputs

\* Queueing the limiter, or not, and counting no event.
LEMMA RestUntouched ==
    ASSUME StatusInv, lqueued' \in BOOLEAN, UNCHANGED count
    PROVE  RestPart'
<1>1. RestPart
    BY Parts
<1> QED BY <1>1 DEF RestPart

\* An event below the bound is counted within it.
LEMMA TickCounts ==
    ASSUME StatusInv, NEW e \in {"denials", "faults"}, Tick(e)
    PROVE  count' \in [denials : 0..MaxFaults, faults : 0..MaxFaults]
<1>1. count \in [denials : 0..MaxFaults, faults : 0..MaxFaults]
    BY DEF StatusInv, TypeOK
<1>2. MaxFaults \in Nat
    BY LimiterStatusAssumption
<1> QED BY <1>1, <1>2 DEF Tick

\* Storing a new version leaves no copy with its resourceVersion: what is
\* stored need only be well formed and consistent with the cached copies.
LEMMA Published ==
    ASSUME StatusInv, NEW l \in IOLimiter, Publish(l),
           UNCHANGED <<lcache, selcache, tally>>,
           writing' \in BOOLEAN, carried' \in Pods \cup {NoFailure},
           l.status.ogen <= l.gen, l.rows <= l.gen, limiter.gen <= l.gen,
           l.gen = limiter.gen => l.kind = limiter.kind
    PROVE  LimiterPart' /\ limiter' \in IOLimiter /\ limiter.gen <= limiter'.gen
<1>1. LimiterPart
    BY Parts
<1>2. limiter' = l /\ fresh' = {}
    BY DEF Publish
<1>3. /\ limiter.gen \in Nat /\ l.gen \in Nat /\ lcache.gen \in Nat
      /\ lcache.rows \in Nat /\ selcache.gen \in Nat
    BY <1>1 DEF LimiterPart, IOLimiter, Edits
<1>4. lcache.gen <= l.gen /\ lcache.rows <= l.gen /\ selcache.gen <= l.gen
    BY <1>1, <1>3 DEF LimiterPart
<1>5. Generations'
  <2>1. /\ lcache.gen <= limiter.gen /\ selcache.gen <= limiter.gen
        /\ selcache.gen = lcache.gen => selcache.sel = ParseBoundedSelector(lcache.kind)
        /\ selcache.gen = limiter.gen => selcache.sel = ParseBoundedSelector(limiter.kind)
        /\ lcache.gen = limiter.gen => lcache.kind = limiter.kind
        /\ limiter.gen = 0 => limiter.kind = "other"
      BY <1>1 DEF LimiterPart, Generations, SelectorTrue
  <2>2. selcache.gen = l.gen => selcache.sel = ParseBoundedSelector(l.kind)
    <3>1. selcache.gen = l.gen => l.gen = limiter.gen
        BY <1>3, <2>1
    <3> QED BY <2>1, <3>1
  <2>3. lcache.gen = l.gen => lcache.kind = l.kind
    <3>1. lcache.gen = l.gen => l.gen = limiter.gen
        BY <1>3, <2>1
    <3> QED BY <2>1, <3>1
  <2>4. l.gen = 0 => l.kind = "other"
    <3>1. l.gen = 0 => l.gen = limiter.gen
        BY <1>3
    <3> QED BY <2>1, <3>1
  <2> QED BY <1>2, <2>1, <2>2, <2>3, <2>4 DEF Generations, SelectorTrue
<1>6. Versions'
    BY <1>2 DEF Versions
<1> QED BY <1>1, <1>2, <1>4, <1>5, <1>6 DEF LimiterPart

\* Evaluate: the pass carries the condition of the copy, which is the stored
\* one if the copy is fresh.
LEMMA EvaluateStep == StatusInv /\ Evaluate => StatusInv'
<1> SUFFICES ASSUME StatusInv, Evaluate PROVE StatusInv'
    OBVIOUS
<1>1. LimiterPart
    BY Parts
<1>2. /\ UNCHANGED <<limiter, lcache, pil, pcache, inputs, pqueued, ctl, count>>
      /\ ~writing /\ lqueued' = FALSE
    BY Zenon DEF Evaluate
<1>3. PodPart'
  <2>1. limiter \in IOLimiter /\ limiter.gen <= limiter.gen
      BY <1>1 DEF LimiterPart, IOLimiter, Edits
  <2> QED BY <1>2, <2>1, PodsUntouched
<1>4. RestPart'
    BY <1>2, RestUntouched
<1>5. LimiterPart'
  <2>1. CASE ~lcache.exists
    <3>1. tally' = NoTally /\ UNCHANGED <<writing, carried, fresh, selcache>>
        BY <2>1, Zenon DEF Evaluate
    <3> QED BY <1>1, <1>2, <3>1, NoTallyType
           DEF LimiterPart, Versions, Generations, SelectorTrue
  <2>2. CASE lcache.exists
    <3>1. /\ tally' = NewTally
          /\ writing' = (<<lcache.gen, NewTally>>
                           # <<lcache.status.ogen, lcache.status.tally>>)
          /\ carried' = IF writing' THEN lcache.status.writeFailed ELSE NoFailure
          /\ fresh' = fresh \cup {c \in {"work"} : writing' /\ "cache" \in fresh}
          /\ selcache' = Entry(lcache)
        BY <2>2, Zenon DEF Evaluate
    <3>2. writing' \in BOOLEAN
        BY <3>1, Zenon
    <3>3. lcache.status.writeFailed \in Pods \cup {NoFailure}
        BY <1>1 DEF LimiterPart, IOLimiter, Status
    <3>4. carried' \in Pods \cup {NoFailure}
        BY <3>1, <3>3, Zenon
    <3>5. fresh' \subseteq {"cache", "work"}
        BY <1>1, <3>1 DEF LimiterPart
    <3>6. Versions'
      <4>1. "work" \notin fresh
          BY <1>1, <1>2 DEF LimiterPart, Versions
      <4>2. "cache" \in fresh' => "cache" \in fresh
          BY <3>1
      <4>3. "work" \in fresh' => writing' /\ "cache" \in fresh
          BY <3>1, <4>1
      <4>4. "cache" \in fresh => lcache = limiter
          BY <1>1 DEF LimiterPart, Versions
      <4>5. "work" \in fresh' => carried' = lcache.status.writeFailed
          BY <3>1, <4>3, Zenon
      <4> QED BY <1>2, <4>2, <4>3, <4>4, <4>5 DEF Versions
    <3>7. /\ selcache' \in [gen : Edits, sel : {"all", "none", "error"}]
          /\ selcache'.gen <= limiter.gen
          /\ \A m \in {limiter, lcache} :
                selcache'.gen = m.gen => selcache'.sel = ParseBoundedSelector(m.kind)
      <4>1. lcache \in {limiter, lcache}
          OBVIOUS
      <4> HIDE DEF StatusInv
      <4> QED BY <3>1, <4>1, EntryFacts
    <3>8. Generations'
        BY <1>1, <1>2, <3>7 DEF LimiterPart, Generations, SelectorTrue
    <3>9. tally' \in TallyType
        BY <3>1, NewTallyType
    <3> QED BY <1>1, <1>2, <3>2, <3>4, <3>5, <3>6, <3>7, <3>8, <3>9 DEF LimiterPart
  <2> QED BY <2>1, <2>2
<1> QED BY <1>3, <1>4, <1>5, PartsNext

\* An accepted status update: the stored limiter keeps its spec.
LEMMA UpdateStatusStep ==
    ASSUME StatusInv, UpdateStatus, UNCHANGED <<lcache, selcache, tally>>
    PROVE  LimiterPart' /\ limiter' \in IOLimiter /\ limiter.gen <= limiter'.gen
<1> DEFINE st == [ogen |-> limiter.gen, tally |-> tally, writeFailed |-> carried]
           l == [limiter EXCEPT !.status = st]
<1>1. LimiterPart
    BY Parts
<1>2. Publish(l) /\ writing' = FALSE /\ carried' = NoFailure
    BY Zenon DEF UpdateStatus
<1>3. st \in Status /\ st.ogen = limiter.gen
    BY <1>1 DEF LimiterPart, IOLimiter, Status
<1> HIDE DEF st
<1>4. /\ l \in IOLimiter /\ l.status = st /\ l.gen = limiter.gen
      /\ l.kind = limiter.kind /\ l.rows = limiter.rows
    BY <1>1, <1>3 DEF LimiterPart, IOLimiter
<1> HIDE DEF l
<1>5. l.status.ogen <= l.gen /\ l.rows <= l.gen /\ limiter.gen <= l.gen
    BY <1>1, <1>3, <1>4 DEF LimiterPart, IOLimiter, Edits
<1> QED BY <1>2, <1>4, <1>5, Published

\* WriteStatus: accepted, or a conflict.
LEMMA WriteStatusStep == StatusInv /\ WriteStatus => StatusInv'
<1> SUFFICES ASSUME StatusInv, WriteStatus PROVE StatusInv'
    OBVIOUS
<1>1. LimiterPart /\ RestPart
    BY Parts
<1>2. UNCHANGED <<lcache, pil, pcache, inputs, selcache, tally, pqueued, ctl, count>>
    BY Zenon DEF WriteStatus
<1>3. CASE "work" \in fresh
  <2>1. UpdateStatus /\ UNCHANGED lqueued
      BY <1>3, Zenon DEF WriteStatus
  <2>2. LimiterPart' /\ limiter' \in IOLimiter /\ limiter.gen <= limiter'.gen
      BY <1>2, <2>1, UpdateStatusStep
  <2>3. PodPart'
      BY <1>2, <2>2, PodsUntouched
  <2>4. RestPart'
      BY <1>1, <1>2, <2>1 DEF RestPart
  <2> QED BY <2>2, <2>3, <2>4, PartsNext
<1>4. CASE "work" \notin fresh
  <2>1. /\ lqueued' = TRUE /\ writing' = FALSE /\ carried' = NoFailure
        /\ UNCHANGED <<limiter, fresh>>
      BY <1>4, Zenon DEF WriteStatus
  <2>2. LimiterPart'
      BY <1>1, <1>2, <1>4, <2>1 DEF LimiterPart, Versions, Generations, SelectorTrue
  <2>3. limiter.gen <= limiter.gen /\ limiter \in IOLimiter
      BY <1>1 DEF LimiterPart, IOLimiter, Edits
  <2>4. PodPart'
      BY <1>2, <2>1, <2>3, PodsUntouched
  <2>5. RestPart'
      BY <1>2, <2>1, RestUntouched
  <2> QED BY <2>2, <2>4, <2>5, PartsNext
<1> QED BY <1>3, <1>4

\* UpdateFails: stored, and answered with an error.
LEMMA UpdateFailsStep == StatusInv /\ UpdateFails => StatusInv'
<1> SUFFICES ASSUME StatusInv, UpdateFails PROVE StatusInv'
    OBVIOUS
<1>1. /\ UpdateStatus /\ lqueued' = TRUE /\ Tick("faults")
      /\ UNCHANGED <<lcache, pil, pcache, inputs, selcache, tally, pqueued, ctl>>
    BY Zenon DEF UpdateFails
<1>2. LimiterPart' /\ limiter' \in IOLimiter /\ limiter.gen <= limiter'.gen
    BY <1>1, UpdateStatusStep
<1>3. PodPart'
    BY <1>1, <1>2, PodsUntouched
<1>4. RestPart'
    BY <1>1, TickCounts DEF RestPart
<1> QED BY <1>2, <1>3, <1>4, PartsNext

\* A step of the pods' side that keeps to the limiter's generation.
LEMMA PodSide ==
    ASSUME StatusInv, PodPart', UNCHANGED <<lim, selcache, pass, count>>,
           lqueued' \in BOOLEAN
    PROVE  StatusInv'
<1>1. LimiterPart'
    BY LimiterUntouched
<1>2. RestPart'
    BY RestUntouched
<1> QED BY <1>1, <1>2, PartsNext

\* Start: the reconcile carries limits of the copy, and looks the selector up.
LEMMA StartStep ==
    ASSUME StatusInv, NEW p \in Pods, Start(p)
    PROVE  StatusInv'
<1>1. LimiterPart /\ PodPart /\ RestPart
    BY Parts
<1>2. /\ pqueued' = pqueued \ {p}
      /\ ctl' = IF Decide(p) = "none" THEN Idle
                ELSE [op |-> Decide(p), pod |-> p, rows |-> Compute(p)]
      /\ selcache' = IF lcache.exists THEN Entry(lcache) ELSE selcache
      /\ UNCHANGED <<lim, pil, pcache, inputs, agg, count>>
    BY Zenon DEF Start
<1>3. Decide(p) \in {"none", "delete", "create", "patch"}
    BY DEF Decide
<1>4. Compute(p) \in Edits /\ Compute(p) <= limiter.gen
    BY ComputeType
<1>5. 0 \in Edits /\ 0 <= limiter.gen /\ Idle.rows = 0
    BY <1>1, EmptyTypes DEF LimiterPart, IOLimiter, Edits, Idle
<1>6. /\ ctl' \in [op : {"idle", "create", "patch", "delete", "record", "clear"},
                   pod : Pods \cup {NoFailure}, rows : Edits]
      /\ ctl'.rows <= limiter.gen
      /\ ctl'.op # "idle" => ctl'.pod \in Pods
    BY <1>2, <1>3, <1>4, <1>5 DEF Idle
<1>7. PodPart'
    BY <1>1, <1>2, <1>6 DEF PodPart, Reconciling, lim, inputs
<1>8. /\ selcache' \in [gen : Edits, sel : {"all", "none", "error"}]
      /\ selcache'.gen <= limiter.gen
      /\ \A m \in {limiter, lcache} :
            selcache'.gen = m.gen => selcache'.sel = ParseBoundedSelector(m.kind)
  <2>1. lcache \in {limiter, lcache}
      OBVIOUS
  <2>2. CASE lcache.exists
      BY <1>2, <2>1, <2>2, EntryFacts
  <2>3. CASE ~lcache.exists
      BY <1>1, <1>2, <2>3 DEF LimiterPart, Generations, SelectorTrue
  <2> QED BY <2>2, <2>3
<1>9. LimiterPart'
    BY <1>1, <1>2, <1>8
       DEF LimiterPart, Versions, Generations, SelectorTrue, lim, agg, pass
<1>10. RestPart'
    BY <1>1, <1>2 DEF RestPart, agg
<1> QED BY <1>7, <1>9, <1>10, PartsNext

\* WritePodIOLimit: refused, already there, or written.
LEMMA WritePodIOLimitStep == StatusInv /\ WritePodIOLimit => StatusInv'
<1> SUFFICES ASSUME StatusInv, WritePodIOLimit PROVE StatusInv'
    OBVIOUS
<1>1. PodPart /\ LimiterPart /\ RestPart
    BY Parts
<1>2. /\ ctl.op \in {"create", "patch"}
      /\ UNCHANGED <<lim, pcache, inputs, selcache, agg, pqueued, count>>
    BY Zenon DEF WritePodIOLimit
<1>3. \/ ctl' = [ctl EXCEPT !.op = "record", !.rows = 0] /\ UNCHANGED pil
      \/ ctl' = Idle /\ UNCHANGED pil
      \/ /\ pil' = [pil EXCEPT ![ctl.pod].rows = ctl.rows]
         /\ ctl' = [ctl EXCEPT !.op = "clear", !.rows = 0]
    BY Zenon DEF WritePodIOLimit
<1>4. ctl.pod \in Pods /\ ctl.rows \in Edits /\ ctl.rows <= limiter.gen
    BY <1>1, <1>2 DEF PodPart, Reconciling
<1>5. 0 \in Edits /\ 0 <= limiter.gen
    BY <1>1, EmptyTypes DEF LimiterPart, IOLimiter, Edits
<1>6. /\ ctl' \in [op : {"idle", "create", "patch", "delete", "record", "clear"},
                   pod : Pods \cup {NoFailure}, rows : Edits]
      /\ ctl'.rows <= limiter.gen
      /\ ctl'.op # "idle" => ctl'.pod \in Pods
  <2> DEFINE C == [op : {"idle", "create", "patch", "delete", "record", "clear"},
                   pod : Pods \cup {NoFailure}, rows : Edits]
  <2>1. ctl \in C
      BY <1>1 DEF PodPart
  <2>2. ASSUME NEW op \in {"record", "clear"}, ctl' = [ctl EXCEPT !.op = op, !.rows = 0]
        PROVE  /\ ctl' \in C /\ ctl'.rows = 0 /\ ctl'.pod \in Pods
    <3>1. ctl' = [op |-> op, pod |-> ctl.pod, rows |-> 0]
        BY <2>1, <2>2
    <3> QED BY <1>4, <1>5, <3>1
  <2>3. Idle \in C /\ Idle.rows = 0 /\ Idle.op = "idle"
      BY <1>5 DEF Idle
  <2> HIDE DEF C
  <2>4. /\ ctl' \in C /\ ctl'.rows = 0
        /\ ctl'.op # "idle" => ctl'.pod \in Pods
      BY <1>3, <2>2, <2>3
  <2> QED BY <1>5, <2>4 DEF C
<1>7. pil' \in [Pods -> PodIOLimit] /\ \A p \in Pods : pil'[p].rows <= limiter.gen
  <2>1. CASE UNCHANGED pil
      BY <1>1, <2>1 DEF PodPart
  <2>2. CASE pil' = [pil EXCEPT ![ctl.pod].rows = ctl.rows]
    <3> DEFINE o == [pil[ctl.pod] EXCEPT !.rows = ctl.rows]
    <3>1. pil \in [Pods -> PodIOLimit] /\ \A p \in Pods : pil[p].rows <= limiter.gen
        BY <1>1 DEF PodPart
    <3>2. o \in PodIOLimit /\ o.rows = ctl.rows
        BY <1>4, <3>1 DEF PodIOLimit
    <3>3. pil' = [pil EXCEPT ![ctl.pod] = o]
        BY <2>2
    <3> HIDE DEF o
    <3> QED BY <1>4, <3>1, <3>2, <3>3
  <2> QED BY <1>3, <2>1, <2>2
<1>8. PodPart'
    BY <1>1, <1>2, <1>6, <1>7 DEF PodPart, Reconciling, lim, inputs
<1>9. UNCHANGED <<lim, selcache, pass, count>> /\ lqueued' \in BOOLEAN
    BY <1>1, <1>2 DEF agg, RestPart
<1> QED BY <1>8, <1>9, PodSide

\* Delete.
LEMMA DeleteStep == StatusInv /\ Delete => StatusInv'
<1> SUFFICES ASSUME StatusInv, Delete PROVE StatusInv'
    OBVIOUS
<1>1. PodPart /\ LimiterPart /\ RestPart
    BY Parts
<1>2. /\ pil' = [pil EXCEPT ![ctl.pod] = NoObject] /\ ctl' = Idle
      /\ UNCHANGED <<lim, pcache, inputs, selcache, agg, pqueued, count>>
    BY Zenon DEF Delete
<1>3. 0 \in Edits /\ 0 <= limiter.gen
    BY <1>1, EmptyTypes DEF LimiterPart, IOLimiter, Edits
<1>4. pil' \in [Pods -> PodIOLimit] /\ \A p \in Pods : pil'[p].rows <= limiter.gen
  <2>1. NoObject.rows = 0
      BY DEF NoObject
  <2> QED BY <1>1, <1>2, <1>3, <2>1, EmptyTypes DEF PodPart
<1>5. PodPart'
    BY <1>1, <1>2, <1>3, <1>4 DEF PodPart, Reconciling, Idle, lim, inputs
<1>6. UNCHANGED <<lim, selcache, pass, count>> /\ lqueued' \in BOOLEAN
    BY <1>1, <1>2 DEF agg, RestPart
<1> QED BY <1>5, <1>6, PodSide

\* The update of the condition: the stored limiter keeps its spec.
LEMMA SetConditionStep ==
    ASSUME StatusInv, NEW failure \in Pods \cup {NoFailure},
           SetCondition(failure) \/ UNCHANGED <<limiter, fresh>>,
           UNCHANGED <<lcache, selcache, pass>>
    PROVE  LimiterPart' /\ limiter' \in IOLimiter /\ limiter.gen <= limiter'.gen
<1>1. LimiterPart
    BY Parts
<1>2. limiter.gen <= limiter.gen /\ limiter.gen \in Nat
    BY <1>1 DEF LimiterPart, IOLimiter, Edits
<1>3. CASE UNCHANGED <<limiter, fresh>>
  <2>1. LimiterPart'
      BY <1>3, LimiterUntouched DEF lim
  <2> QED BY <1>1, <1>2, <1>3, <2>1 DEF LimiterPart
<1>4. CASE "cache" \in fresh /\ SetCondition(failure)
  <2> DEFINE st == [limiter.status EXCEPT !.writeFailed = failure]
             l == [limiter EXCEPT !.status = st]
  <2>1. lcache = limiter
      BY <1>1, <1>4 DEF LimiterPart, Versions
  <2>2. Publish([lcache EXCEPT !.status.writeFailed = failure])
      BY <1>4, Zenon DEF SetCondition
  <2>3. limiter.status \in Status
      BY <1>1 DEF LimiterPart, IOLimiter
  <2>4. [limiter EXCEPT !.status.writeFailed = failure] = l
      OBVIOUS
  <2>5. Publish(l)
      BY <2>1, <2>2, <2>4
  <2>6. st \in Status /\ st.ogen = limiter.status.ogen
      BY <2>3 DEF Status
  <2> HIDE DEF st
  <2>7. /\ l \in IOLimiter /\ l.status = st /\ l.gen = limiter.gen
        /\ l.kind = limiter.kind /\ l.rows = limiter.rows
      BY <1>1, <2>6 DEF LimiterPart, IOLimiter
  <2> HIDE DEF l
  <2>8. l.status.ogen <= l.gen /\ l.rows <= l.gen /\ limiter.gen <= l.gen
      BY <1>1, <1>2, <2>6, <2>7 DEF LimiterPart
  <2>9. /\ UNCHANGED <<lcache, selcache, tally>>
        /\ writing' \in BOOLEAN /\ carried' \in Pods \cup {NoFailure}
      BY <1>1 DEF LimiterPart, pass
  <2> QED BY <2>5, <2>7, <2>8, <2>9, Published
<1>5. "cache" \notin fresh /\ SetCondition(failure) => UNCHANGED <<limiter, fresh>>
    BY Zenon DEF SetCondition
<1> QED BY <1>3, <1>4, <1>5, Zenon

\* The end of a reconcile: nothing of the pods but the queue changes.
LEMMA ReconcileEnds ==
    ASSUME StatusInv, ctl' = Idle, pqueued' \subseteq Pods,
           UNCHANGED <<pil, pcache, inputs>>,
           limiter' \in IOLimiter, limiter.gen <= limiter'.gen
    PROVE  PodPart'
<1>1. PodPart
    BY Parts
<1>2. limiter.gen \in Nat /\ limiter'.gen \in Nat
    BY DEF StatusInv, TypeOK, IOLimiter, Edits
<1>3. \A p \in Pods : pil[p].rows \in Nat
    BY <1>1 DEF PodPart, PodIOLimit, Edits
<1>4. \A p \in Pods : pil'[p].rows <= limiter'.gen
    BY <1>1, <1>2, <1>3 DEF PodPart
<1> QED BY <1>1, <1>2, <1>4, EmptyTypes DEF PodPart, Reconciling, Idle, inputs

\* RecordPodIOLimitWriteFailure.
LEMMA RecordStep == StatusInv /\ RecordPodIOLimitWriteFailure => StatusInv'
<1> SUFFICES ASSUME StatusInv, RecordPodIOLimitWriteFailure PROVE StatusInv'
    OBVIOUS
<1>1. PodPart /\ RestPart
    BY Parts
<1>2. /\ ctl.op = "record"
      /\ SetCondition(ctl.pod) \/ UNCHANGED <<limiter, fresh>>
      /\ pqueued' = pqueued \cup {ctl.pod} /\ ctl' = Idle
      /\ UNCHANGED <<lcache, pil, pcache, inputs, selcache, agg, count>>
    BY Zenon DEF RecordPodIOLimitWriteFailure
<1>3. ctl.pod \in Pods
    BY <1>1, <1>2 DEF PodPart, Reconciling
<1>4. LimiterPart' /\ limiter' \in IOLimiter /\ limiter.gen <= limiter'.gen
    BY <1>2, <1>3, SetConditionStep DEF agg
<1>5. PodPart'
    BY <1>1, <1>2, <1>3, <1>4, ReconcileEnds DEF PodPart
<1>6. RestPart'
    BY <1>1, <1>2 DEF RestPart, agg
<1> QED BY <1>4, <1>5, <1>6, PartsNext

\* ClearPodIOLimitWriteFailure.
LEMMA ClearStep == StatusInv /\ ClearPodIOLimitWriteFailure => StatusInv'
<1> SUFFICES ASSUME StatusInv, ClearPodIOLimitWriteFailure PROVE StatusInv'
    OBVIOUS
<1>1. PodPart /\ RestPart
    BY Parts
<1>2. /\ ctl.op = "clear" /\ ctl' = Idle
      /\ SetCondition(NoFailure) \/ UNCHANGED <<limiter, fresh>>
      /\ \/ pqueued' = pqueued \cup {p \in {ctl.pod} : "cache" \notin fresh}
         \/ UNCHANGED pqueued
      /\ UNCHANGED <<lcache, pil, pcache, inputs, selcache, agg, count>>
    BY Zenon DEF ClearPodIOLimitWriteFailure
<1>3. ctl.pod \in Pods
    BY <1>1, <1>2 DEF PodPart, Reconciling
<1>4. LimiterPart' /\ limiter' \in IOLimiter /\ limiter.gen <= limiter'.gen
  <2>1. NoFailure \in Pods \cup {NoFailure}
      OBVIOUS
  <2> QED BY <1>2, <2>1, SetConditionStep DEF agg
<1>5. pqueued' \subseteq Pods
    BY <1>1, <1>2, <1>3 DEF PodPart
<1>6. PodPart'
    BY <1>2, <1>4, <1>5, ReconcileEnds
<1>7. RestPart'
    BY <1>1, <1>2 DEF RestPart, agg
<1> QED BY <1>4, <1>6, <1>7, PartsNext

\* DeliverLimiter: the copy becomes the stored object; the lookup's entry is
\* of the stored object or the one that was there.
LEMMA DeliverLimiterStep == StatusInv /\ DeliverLimiter => StatusInv'
<1> SUFFICES ASSUME StatusInv, DeliverLimiter PROVE StatusInv'
    OBVIOUS
<1>1. LimiterPart /\ PodPart /\ RestPart
    BY Parts
<1>2. /\ lcache' = limiter /\ fresh' = fresh \cup {"cache"}
      /\ pqueued' = pqueued \cup MapIOLimiterToPods(lcache)
                            \cup MapIOLimiterToPods(limiter)
      /\ selcache' \in {selcache} \cup {Entry(l) : l \in {x \in {limiter} : x.exists}}
      /\ UNCHANGED <<limiter, pil, pcache, inputs, pass, ctl, count>>
    BY Zenon DEF DeliverLimiter
<1>3. lqueued' \in BOOLEAN
    BY Zenon DEF DeliverLimiter
<1>4. /\ selcache' \in [gen : Edits, sel : {"all", "none", "error"}]
      /\ selcache'.gen <= limiter.gen
      /\ selcache'.gen = limiter.gen
            => selcache'.sel = ParseBoundedSelector(limiter.kind)
  <2>1. selcache' = selcache \/ selcache' = Entry(limiter)
      BY <1>2
  <2>2. CASE selcache' = selcache
      BY <1>1, <2>2 DEF LimiterPart, Generations, SelectorTrue
  <2>3. CASE selcache' = Entry(limiter)
    <3>1. limiter \in {limiter, lcache}
        OBVIOUS
    <3> QED BY <2>3, <3>1, EntryFacts
  <2> QED BY <2>1, <2>2, <2>3
<1>5. limiter.gen <= limiter.gen
    BY <1>1 DEF LimiterPart, IOLimiter, Edits
<1>6. Versions'
    BY <1>1, <1>2 DEF LimiterPart, Versions, pass
<1>7. LimiterPart'
    BY <1>1, <1>2, <1>4, <1>5, <1>6
       DEF LimiterPart, Generations, SelectorTrue, pass
<1>8. pqueued' \subseteq Pods
    BY <1>1, <1>2 DEF PodPart, MapIOLimiterToPods
<1>9. PodPart'
    BY <1>1, <1>2, <1>8 DEF PodPart, Reconciling, inputs
<1>10. RestPart'
    BY <1>2, <1>3, RestUntouched
<1> QED BY <1>7, <1>9, <1>10, PartsNext

\* DeliverPodIOLimit.
LEMMA DeliverPodIOLimitStep ==
    ASSUME StatusInv, NEW p \in Pods, DeliverPodIOLimit(p)
    PROVE  StatusInv'
<1>1. PodPart
    BY Parts
<1>2. /\ pcache' = [pcache EXCEPT ![p] = pil[p]]
      /\ UNCHANGED <<lim, pil, inputs, selcache, pass, ctl, count>>
    BY Zenon DEF DeliverPodIOLimit
<1>3. lqueued' \in BOOLEAN
    BY Zenon DEF DeliverPodIOLimit
<1>4. pqueued' \subseteq Pods
    BY <1>1 DEF PodPart, DeliverPodIOLimit
<1>5. pcache' \in [Pods -> PodIOLimit]
    BY <1>1, <1>2 DEF PodPart
<1>6. PodPart'
    BY <1>1, <1>2, <1>4, <1>5 DEF PodPart, Reconciling, inputs, lim
<1> QED BY <1>2, <1>3, <1>6, PodSide

\* DeliverPod.
LEMMA DeliverPodStep ==
    ASSUME StatusInv, NEW p \in Pods, DeliverPod(p)
    PROVE  StatusInv'
<1>1. PodPart
    BY Parts
<1>2. /\ \/ pod' = [pod EXCEPT ![p] = "running"]
         \/ pod' = [pod EXCEPT ![p] = "ended"]
      /\ pqueued' = pqueued \cup {p}
      /\ UNCHANGED <<lim, pil, pcache, bound, denied, selcache, pass, ctl, count>>
    BY Zenon DEF DeliverPod
<1>3. lqueued' \in BOOLEAN
    BY Zenon DEF DeliverPod
<1>4. pod' \in [Pods -> {"none", "running", "ended"}] /\ pqueued' \subseteq Pods
    BY <1>1, <1>2 DEF PodPart
<1>5. PodPart'
    BY <1>1, <1>2, <1>4 DEF PodPart, Reconciling, lim
<1> QED BY <1>2, <1>3, <1>5, PodSide

\* BindClaim.
LEMMA BindClaimStep ==
    ASSUME StatusInv, NEW p \in Pods, BindClaim(p)
    PROVE  StatusInv'
<1>1. PodPart /\ RestPart
    BY Parts
<1>2. /\ bound' = bound \cup {p}
      /\ pqueued' = pqueued \cup {q \in {p} : pod[q] # "none"}
      /\ UNCHANGED <<lim, pil, pcache, pod, denied, selcache, agg, ctl, count>>
    BY Zenon DEF BindClaim
<1>3. bound' \subseteq Pods /\ pqueued' \subseteq Pods
    BY <1>1, <1>2 DEF PodPart
<1>4. PodPart'
    BY <1>1, <1>2, <1>3 DEF PodPart, Reconciling, lim
<1>5. UNCHANGED <<lim, selcache, pass, count>> /\ lqueued' \in BOOLEAN
    BY <1>1, <1>2 DEF agg, RestPart
<1> QED BY <1>4, <1>5, PodSide

\* AgentReports.
LEMMA AgentReportsStep ==
    ASSUME StatusInv, NEW p \in Pods, AgentReports(p)
    PROVE  StatusInv'
<1>1. PodPart /\ RestPart
    BY Parts
<1>2. UNCHANGED <<lim, pcache, inputs, selcache, agg, pqueued, ctl, count>>
    BY Zenon DEF AgentReports
<1>3. PICK s \in {"pending", "applied", "failed"} :
            pil' = [pil EXCEPT ![p].ogen = pil[p].rows, ![p].state = s]
    BY Zenon DEF AgentReports
<1>4. pil' \in [Pods -> PodIOLimit] /\ \A q \in Pods : pil'[q].rows <= limiter.gen
  <2> DEFINE o == [pil[p] EXCEPT !.ogen = pil[p].rows, !.state = s]
  <2>1. pil \in [Pods -> PodIOLimit] /\ \A q \in Pods : pil[q].rows <= limiter.gen
      BY <1>1 DEF PodPart
  <2>2. o \in PodIOLimit /\ o.rows = pil[p].rows
      BY <2>1 DEF PodIOLimit
  <2>3. pil' = [pil EXCEPT ![p] = o]
      BY <1>3, <2>1
  <2> HIDE DEF o
  <2> QED BY <2>1, <2>2, <2>3
<1>5. PodPart'
    BY <1>1, <1>2, <1>4 DEF PodPart, Reconciling, lim, inputs
<1>6. UNCHANGED <<lim, selcache, pass, count>> /\ lqueued' \in BOOLEAN
    BY <1>1, <1>2 DEF agg, RestPart
<1> QED BY <1>5, <1>6, PodSide

\* PolicyChanges.
LEMMA PolicyChangesStep ==
    ASSUME StatusInv, NEW p \in Pods, PolicyChanges(p)
    PROVE  StatusInv'
<1>1. PodPart /\ RestPart
    BY Parts
<1>2. /\ UNCHANGED <<lim, pil, pcache, pod, bound, selcache, agg, pqueued, ctl>>
      /\ \/ denied' = denied \cup {p} /\ Tick("denials")
         \/ denied' = denied \ {p} /\ UNCHANGED count
    BY Zenon DEF PolicyChanges
<1>3. PodPart'
    BY <1>1, <1>2 DEF PodPart, Reconciling, lim
<1>4. RestPart'
    BY <1>1, <1>2, TickCounts DEF RestPart, agg
<1>5. LimiterPart'
    BY <1>2, LimiterUntouched DEF agg
<1> QED BY <1>3, <1>4, <1>5, PartsNext

\* Restart: the caches are filled with what is stored.
LEMMA RestartStep == StatusInv /\ Restart => StatusInv'
<1> SUFFICES ASSUME StatusInv, Restart PROVE StatusInv'
    OBVIOUS
<1>1. LimiterPart /\ PodPart
    BY Parts
<1>2. /\ lcache' = limiter /\ fresh' = {"cache"} /\ pcache' = pil
      /\ selcache' = [gen |-> 0, sel |-> "none"] /\ tally' = NoTally
      /\ writing' = FALSE /\ carried' = NoFailure /\ ctl' = Idle
      /\ pqueued' = {p \in Pods : pod[p] # "none" \/ Exists(pil[p])}
      /\ Tick("faults") /\ UNCHANGED <<limiter, pil, inputs>>
    BY Zenon DEF Restart
<1>3. lqueued' \in BOOLEAN
    BY Zenon DEF Restart
<1>4. RestPart'
    BY <1>2, <1>3, TickCounts DEF RestPart
<1>5. 0 \in Edits /\ 0 <= limiter.gen /\ limiter.gen <= limiter.gen
    BY <1>1, EmptyTypes DEF LimiterPart, IOLimiter, Edits
<1>6. PodPart'
    BY <1>1, <1>2, <1>5 DEF PodPart, Reconciling, Idle, inputs
<1>7. Versions'
    BY <1>2 DEF Versions
<1>8. Generations'
  <2>1. ParseBoundedSelector("other") = "none"
      BY DEF ParseBoundedSelector
  <2> QED BY <1>1, <1>2, <2>1 DEF LimiterPart, Generations, SelectorTrue
<1>9. LimiterPart'
    BY <1>1, <1>2, <1>5, <1>7, <1>8, NoTallyType DEF LimiterPart
<1> QED BY <1>4, <1>6, <1>9, PartsNext

\* EditLimiter: a new generation with new limits.
LEMMA EditLimiterStep == StatusInv /\ EditLimiter => StatusInv'
<1> SUFFICES ASSUME StatusInv, EditLimiter PROVE StatusInv'
    OBVIOUS
<1>1. LimiterPart /\ RestPart
    BY Parts
<1>2. /\ limiter.gen < MaxEdits
      /\ UNCHANGED <<lcache, pil, pcache, inputs, selcache, agg, pqueued, ctl, count>>
    BY Zenon DEF EditLimiter
<1>3. PICK kind \in Kinds :
            Publish([limiter EXCEPT !.exists = TRUE, !.gen = @ + 1, !.kind = kind,
                                    !.rows = limiter.gen + 1])
    BY Zenon DEF EditLimiter
<1> DEFINE l == [limiter EXCEPT !.exists = TRUE, !.gen = @ + 1, !.kind = kind,
                                !.rows = limiter.gen + 1]
<1>4. Publish(l)
    BY <1>3
<1>5. limiter.gen + 1 \in Edits /\ limiter.gen \in Nat
    BY <1>1, <1>2, LimiterStatusAssumption DEF LimiterPart, IOLimiter, Edits
<1>6. kind \in AllKinds /\ limiter.status \in Status
    BY <1>1, LimiterStatusAssumption DEF LimiterPart, IOLimiter
<1>7. limiter \in IOLimiter
    BY <1>1 DEF LimiterPart
<1>8. /\ l \in IOLimiter /\ l.status = limiter.status /\ l.gen = limiter.gen + 1
      /\ l.rows = l.gen
    BY <1>5, <1>6, <1>7 DEF IOLimiter
<1> HIDE DEF l
<1>9. /\ l.status.ogen <= l.gen /\ l.rows <= l.gen /\ limiter.gen <= l.gen
      /\ l.gen # limiter.gen
    BY <1>1, <1>5, <1>6, <1>8 DEF LimiterPart, Status, Edits
<1>10. /\ UNCHANGED <<lcache, selcache, tally>>
       /\ writing' \in BOOLEAN /\ carried' \in Pods \cup {NoFailure}
    BY <1>1, <1>2 DEF LimiterPart, agg, pass
<1>11. LimiterPart' /\ limiter' \in IOLimiter /\ limiter.gen <= limiter'.gen
    BY <1>4, <1>8, <1>9, <1>10, Published
<1>12. PodPart'
    BY <1>2, <1>11, PodsUntouched
<1>13. RestPart'
    BY <1>1, <1>2 DEF RestPart, agg
<1> QED BY <1>11, <1>12, <1>13, PartsNext

\* DeleteLimiter: the tombstone has a generation of its own.
LEMMA DeleteLimiterStep == StatusInv /\ DeleteLimiter => StatusInv'
<1> SUFFICES ASSUME StatusInv, DeleteLimiter PROVE StatusInv'
    OBVIOUS
<1>1. LimiterPart /\ RestPart
    BY Parts
<1>2. /\ limiter.gen < MaxEdits /\ Publish([NoLimiter EXCEPT !.gen = limiter.gen + 1])
      /\ UNCHANGED <<lcache, pil, pcache, inputs, selcache, agg, pqueued, ctl, count>>
    BY Zenon DEF DeleteLimiter
<1> DEFINE l == [NoLimiter EXCEPT !.gen = limiter.gen + 1]
<1>3. limiter.gen + 1 \in Edits /\ limiter.gen \in Nat
    BY <1>1, <1>2, LimiterStatusAssumption DEF LimiterPart, IOLimiter, Edits
<1>4. l \in IOLimiter /\ l.gen = limiter.gen + 1
    BY <1>3, EmptyTypes DEF IOLimiter
<1>5. l.rows = 0 /\ l.status.ogen = 0
    BY DEF NoLimiter, NoStatus
<1> HIDE DEF l
<1>6. /\ l.status.ogen <= l.gen /\ l.rows <= l.gen /\ limiter.gen <= l.gen
      /\ l.gen # limiter.gen
    BY <1>3, <1>4, <1>5
<1>7. /\ UNCHANGED <<lcache, selcache, tally>>
      /\ writing' \in BOOLEAN /\ carried' \in Pods \cup {NoFailure}
    BY <1>1, <1>2 DEF LimiterPart, agg, pass
<1>8. LimiterPart' /\ limiter' \in IOLimiter /\ limiter.gen <= limiter'.gen
    BY <1>2, <1>4, <1>6, <1>7, Published DEF l
<1>9. PodPart'
    BY <1>2, <1>8, PodsUntouched
<1>10. RestPart'
    BY <1>1, <1>2 DEF RestPart, agg
<1> QED BY <1>8, <1>9, <1>10, PartsNext

\* A step that changes nothing.
LEMMA StutterStep == StatusInv /\ UNCHANGED vars => StatusInv'
BY DEF StatusInv, TypeOK, FromPast, Reconciling, Versions, Generations,
       SelectorTrue, vars

\* Every step preserves the invariant.
LEMMA StatusNext == StatusInv /\ [Next]_vars => StatusInv'
<1> SUFFICES ASSUME StatusInv, [Next]_vars PROVE StatusInv'
    OBVIOUS
<1>1. \/ Evaluate \/ WriteStatus \/ UpdateFails \/ WritePodIOLimit \/ Delete
      \/ RecordPodIOLimitWriteFailure \/ ClearPodIOLimitWriteFailure
      \/ DeliverLimiter \/ Restart \/ EditLimiter \/ DeleteLimiter
      \/ \E p \in Pods : \/ Start(p) \/ DeliverPodIOLimit(p) \/ DeliverPod(p)
                         \/ BindClaim(p) \/ AgentReports(p) \/ PolicyChanges(p)
      \/ UNCHANGED vars
    BY Zenon DEF Next, Aggregate, PodWorker
<1>2. ASSUME NEW p \in Pods,
             \/ Start(p) \/ DeliverPodIOLimit(p) \/ DeliverPod(p)
             \/ BindClaim(p) \/ AgentReports(p) \/ PolicyChanges(p)
      PROVE  StatusInv'
    BY <1>2, StartStep, DeliverPodIOLimitStep, DeliverPodStep, BindClaimStep,
       AgentReportsStep, PolicyChangesStep
<1> QED BY <1>1, <1>2, EvaluateStep, WriteStatusStep, UpdateFailsStep,
           WritePodIOLimitStep, DeleteStep, RecordStep, ClearStep,
           DeliverLimiterStep, RestartStep, EditLimiterStep, DeleteLimiterStep,
           StutterStep, Zenon

\* The invariant holds always.
LEMMA StatusAlways == Spec => []StatusInv
BY StatusInit, StatusNext, PTL DEF Spec

----------------------------------------------------------------------------
(* The theorems.                                                           *)

\* The variables keep their types, and no PodIOLimit carries limits, no status
\* a generation, from after the limiter's last edit.
THEOREM TypeCorrect == Spec => []TypeOK
<1>1. StatusInv => TypeOK
    BY DEF StatusInv
<1> QED BY <1>1, StatusAlways, PTL

\* D37: a generation identifies a spec in every copy and every cache entry, so
\* the selector cache never answers with the selector of another spec.
THEOREM SelectorsTrue == Spec => []SelectorTrue
<1>1. StatusInv => SelectorTrue
    BY DEF StatusInv, Generations
<1> QED BY <1>1, StatusAlways, PTL

\* F7: no status write of the IOLimiterReconciler changes the condition the
\* PodReconciler keeps in the same status, for any number of pods: a write
\* that is accepted carries the condition that is stored.
THEOREM ConditionKept == Spec => ConditionSurvives
<1> DEFINE Kept == /\ limiter.exists /\ limiter'.exists
                   /\ limiter'.status.writeFailed # limiter.status.writeFailed
                   => ctl.op \in {"record", "clear"} /\ ctl' = Idle
<1>1. ASSUME StatusInv, [Next]_vars PROVE [Kept]_vars
  <2> SUFFICES ASSUME limiter.exists, limiter'.exists,
                      limiter'.status.writeFailed # limiter.status.writeFailed
               PROVE  ctl.op \in {"record", "clear"} /\ ctl' = Idle
      OBVIOUS
  <2>1. LimiterPart
      BY <1>1, Parts
  <2>2. limiter' # limiter
      OBVIOUS
  <2>3. ~UpdateStatus \/ "work" \notin fresh
    <3> SUFFICES ASSUME UpdateStatus, "work" \in fresh PROVE FALSE
        OBVIOUS
    <3>1. limiter' = [limiter EXCEPT !.status =
             [ogen |-> limiter.gen, tally |-> tally, writeFailed |-> carried]]
        BY Zenon DEF UpdateStatus, Publish
    <3>2. carried = limiter.status.writeFailed
        BY <2>1 DEF LimiterPart, Versions
    <3>3. limiter'.status.writeFailed = carried
        BY <2>1, <3>1 DEF LimiterPart, IOLimiter
    <3> QED BY <3>2, <3>3
  <2>4. ~WriteStatus /\ ~UpdateFails
      BY <2>2, <2>3, Zenon DEF WriteStatus, UpdateFails
  <2>5. ~EditLimiter
    <3> SUFFICES ASSUME EditLimiter PROVE FALSE
        OBVIOUS
    <3>1. PICK kind \in Kinds :
             limiter' = [limiter EXCEPT !.exists = TRUE, !.gen = @ + 1,
                                        !.kind = kind, !.rows = limiter.gen + 1]
        BY Zenon DEF EditLimiter, Publish
    <3>2. limiter'.status = limiter.status
        BY <2>1, <3>1 DEF LimiterPart, IOLimiter
    <3> QED BY <3>2
  <2>6. ~DeleteLimiter
    <3>1. NoLimiter.exists = FALSE
        BY DEF NoLimiter
    <3>2. DeleteLimiter => limiter' = [NoLimiter EXCEPT !.gen = limiter.gen + 1]
        BY Zenon DEF DeleteLimiter, Publish
    <3>3. [NoLimiter EXCEPT !.gen = limiter.gen + 1].exists = FALSE
        BY DEF NoLimiter
    <3> QED BY <3>2, <3>3
  <2>7. ~Evaluate /\ ~DeliverLimiter /\ ~Restart /\ ~(UNCHANGED vars)
      BY <2>2, Zenon DEF Evaluate, DeliverLimiter, Restart, vars
  <2>8. ~WritePodIOLimit /\ ~Delete
      BY <2>2, Zenon DEF WritePodIOLimit, Delete, lim
  <2>9. ASSUME NEW p \in Pods
        PROVE  /\ ~Start(p) /\ ~DeliverPodIOLimit(p) /\ ~DeliverPod(p)
               /\ ~BindClaim(p) /\ ~AgentReports(p) /\ ~PolicyChanges(p)
      BY <2>2, Zenon DEF Start, DeliverPodIOLimit, DeliverPod, BindClaim,
                         AgentReports, PolicyChanges, lim
  <2>10. RecordPodIOLimitWriteFailure \/ ClearPodIOLimitWriteFailure
      BY <1>1, <2>4, <2>5, <2>6, <2>7, <2>8, <2>9, Zenon
         DEF Next, Aggregate, PodWorker
  <2> QED BY <2>10 DEF RecordPodIOLimitWriteFailure, ClearPodIOLimitWriteFailure
<1>2. StatusInv /\ [Next]_vars => [Kept]_vars
    BY <1>1
<1> QED BY <1>2, StatusAlways, PTL DEF Spec, ConditionSurvives
=============================================================================
