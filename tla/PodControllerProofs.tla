------------------------ MODULE PodControllerProofs ------------------------
(* Proofs about PodController, for any limiters, volumes, rows and bounds. *)
EXTENDS PodController, TLAPS, SequenceTheorems

----------------------------------------------------------------------------
(* Operators of the model.                                                 *)

Reconcile == [op : {"idle", "create", "patch", "delete", "release",
                    "finalizer"},
              copy : PodIOLimit, spec : SpecType,
              frozen : SUBSET (Volumes \X Limiters)]

\* The values before anything happened are of their types.
LEMMA ConstantTypes ==
    /\ NoContribution \in Contribution
    /\ Spec0 \in SpecType
    /\ NoLimiter \in IOLimiter
    /\ NoObject \in PodIOLimit
    /\ Idle \in Reconcile
<1>1. NoContribution \in Contribution
    BY DEF NoContribution, NoRow, Unset, Contribution
<1>2. Spec0 \in SpecType
    BY <1>1 DEF Spec0, SpecType
<1>3. NoObject \in PodIOLimit
    BY <1>2 DEF NoObject, PodIOLimit
<1> QED BY <1>1, <1>2, <1>3 DEF IOLimiter, Idle, Reconcile

\* A version of a limiter has a row, perhaps an empty one, for every volume.
LEMMA LimiterRow ==
    ASSUME NEW x \in IOLimiter, NEW v \in Volumes
    PROVE  x.rows[v] \in Rows \cup {NoRow}
<1>1. CASE x = NoLimiter
    BY <1>1 DEF NoLimiter
<1>2. CASE x \in [exists : {TRUE}, sel : {"match", "other", "invalid"},
                  rows : [Volumes -> Rows \cup {NoRow}]
                         \ {[u \in Volumes |-> NoRow]}]
  <2>1. x.rows \in [Volumes -> Rows \cup {NoRow}]
      BY <1>2
  <2> QED BY <2>1
<1> QED BY <1>1, <1>2 DEF IOLimiter

\* validateBPS lets only natural numbers through.
LEMMA ValidFieldsType ==
    ASSUME NEW row \in Rows \cup {NoRow}
    PROVE  ValidFields(row) \in Contribution
<1>1. row.bps \in Nat /\ row.iops \in Nat
    BY PodControllerAssumption DEF NoRow, Unset
<1>2. ValidateBPS(row.bps) => row.bps \div 2 \in Nat
    BY PodControllerAssumption DEF ValidateBPS
<1> QED BY <1>1, <1>2 DEF ValidFields, Contribution, Unset

\* What Compute puts at a volume and a limiter is nothing, what it found
\* there, or the valid fields of the limiter's own row.
LEMMA ComputeCases ==
    ASSUME NEW ls, NEW existing, NEW resolvable,
           NEW v \in Volumes, NEW l \in Limiters
    PROVE  LET c == Compute(ls, existing, resolvable)[v][l] IN
           \/ c = NoContribution
           \/ c = existing[v][l] /\ existing[v][l] # NoContribution
           \/ ls[l].rows[v] # NoRow /\ c = ValidFields(ls[l].rows[v])
    BY DEF Compute, MergeContribution

\* Compute yields a spec.
LEMMA ComputeType ==
    ASSUME NEW ls \in [Limiters -> IOLimiter], NEW existing \in SpecType,
           NEW resolvable
    PROVE  Compute(ls, existing, resolvable) \in SpecType
<1> DEFINE C == Compute(ls, existing, resolvable)
<1>1. ASSUME NEW v \in Volumes, NEW l \in Limiters
      PROVE  C[v][l] \in Contribution
  <2>1. existing[v][l] \in Contribution
      BY DEF SpecType
  <2>2. ValidFields(ls[l].rows[v]) \in Contribution
      BY LimiterRow, ValidFieldsType
  <2> QED BY <2>1, <2>2, ComputeCases, ConstantTypes
<1>2. C = [v \in Volumes |-> [l \in Limiters |-> C[v][l]]]
    BY DEF Compute
<1> HIDE DEF C
<1>3. \A v \in Volumes : [l \in Limiters |-> C[v][l]] \in [Limiters -> Contribution]
    BY <1>1
<1>4. [v \in Volumes |-> [l \in Limiters |-> C[v][l]]] \in SpecType
    BY <1>3 DEF SpecType
<1> QED BY <1>2, <1>4 DEF C

\* A stored object differs from the one submitted only in its version, and
\* is the newest of those on their way to the cache.
LEMMA PublishFacts ==
    ASSUME TypeOK, NEW o \in PodIOLimit, Publish(o)
    PROVE  /\ pil' \in PodIOLimit
           /\ pil'.rv = pil.rv + 1
           /\ pil'.exists = o.exists /\ pil'.del = o.del
           /\ pil'.spec = o.spec /\ pil'.owned = o.owned
           /\ pnews' \in Seq(PodIOLimit)
           /\ Len(pnews') = Len(pnews) + 1
           /\ \A i \in 1..Len(pnews) : pnews'[i] = pnews[i]
           /\ pnews'[Len(pnews) + 1] = pil'
<1>1. pil.rv \in Nat /\ pnews \in Seq(PodIOLimit)
    BY DEF TypeOK, PodIOLimit
<1>2. /\ pil' \in PodIOLimit /\ pil'.rv = pil.rv + 1
      /\ pil'.exists = o.exists /\ pil'.del = o.del
      /\ pil'.spec = o.spec /\ pil'.owned = o.owned
    BY <1>1 DEF Publish, PodIOLimit
<1>3. pnews' = Append(pnews, pil')
    BY DEF Publish
<1> QED BY <1>1, <1>2, <1>3, AppendProperties

\* What remains of a sequence behind its i-th element.
LEMMA RestFacts ==
    ASSUME NEW S, NEW s \in Seq(S), NEW i \in 1..Len(s)
    PROVE  LET r == SubSeq(s, i + 1, Len(s)) IN
           /\ s[i] \in S
           /\ r \in Seq(S) /\ Len(r) = Len(s) - i
           /\ \A j \in 1..Len(r) : r[j] = s[i + j]
<1>1. Len(s) \in Nat /\ i \in Nat /\ i + 1 \in 1..(Len(s) + 1)
    BY LenProperties
<1>2. s[i] \in S
    BY ElementOfSeq
<1>3. \A j \in (i + 1)..Len(s) : s[j] \in S
    BY <1>1, ElementOfSeq
<1> DEFINE r == SubSeq(s, i + 1, Len(s))
<1>4. r = [j \in 1..(Len(s) - i) |-> s[i + j]]
    BY <1>1
<1>5. r \in Seq(S) /\ Len(r) = Len(s) - i
    BY <1>1, <1>3, <1>4
<1> QED BY <1>2, <1>4, <1>5

----------------------------------------------------------------------------
(* Types.                                                                  *)

\* Every step keeps every variable in its type.
LEMMA TypeStep == TypeOK /\ [Next]_vars => TypeOK'
<1> SUFFICES ASSUME TypeOK, [Next]_vars PROVE TypeOK'
    OBVIOUS
<1>s. /\ pil \in PodIOLimit /\ pcache \in PodIOLimit /\ ctl \in Reconcile
      /\ ctl.spec \in SpecType
    BY DEF TypeOK, Reconcile
<1>p. ASSUME pil' \in PodIOLimit, pnews' \in Seq(PodIOLimit),
             pcache' \in PodIOLimit, ctl' \in Reconcile,
             queued' \in BOOLEAN, UNCHANGED <<lims, pods>>,
             count' \in [edits : 0..MaxEdits, records : 0..MaxRecords,
                         faults : 0..MaxFaults, failovers : 0..MaxFailovers]
      PROVE  TypeOK'
    BY <1>p DEF TypeOK, lims, pods, Reconcile
<1>c. count \in [edits : 0..MaxEdits, records : 0..MaxRecords,
                 faults : 0..MaxFaults, failovers : 0..MaxFailovers]
    BY DEF TypeOK
<1>i. Idle \in Reconcile
    BY ConstantTypes
<1>o. UNCHANGED obj => pil' \in PodIOLimit /\ pnews' \in Seq(PodIOLimit)
    BY DEF TypeOK, obj
<1>q. queued \in BOOLEAN
    BY DEF TypeOK
<1>w. /\ [NoObject EXCEPT !.exists = TRUE, !.spec = ctl.spec] \in PodIOLimit
      /\ [pil EXCEPT !.spec = ctl.spec] \in PodIOLimit
      /\ [pil EXCEPT !.del = TRUE] \in PodIOLimit
      /\ [pil EXCEPT !.owned = ~@] \in PodIOLimit
      /\ [pil EXCEPT !.owned = FALSE] \in PodIOLimit
      /\ NoObject \in PodIOLimit
    BY <1>s, ConstantTypes DEF PodIOLimit
<1>u. \A o \in PodIOLimit :
        Publish(o) => pil' \in PodIOLimit /\ pnews' \in Seq(PodIOLimit)
    BY PublishFacts
<1>f. CASE UNCHANGED vars
    BY <1>f DEF vars, TypeOK
<1>1. ASSUME NEW l \in Limiters, DeliverLimiter(l) PROVE TypeOK'
  <2>1. PICK i \in 1..Len(lnews[l]) :
          /\ lcache' = [lcache EXCEPT ![l] = lnews[l][i]]
          /\ lnews' = [lnews EXCEPT ![l] = SubSeq(@, i + 1, Len(@))]
          /\ queued' = (queued \/ MapsToPod(l, lcache[l])
                               \/ MapsToPod(l, lnews[l][i]))
          /\ UNCHANGED <<limiters, asked, obj, pcache, pods, ctl, count>>
      BY <1>1, Zenon DEF DeliverLimiter
  <2>2. lnews[l] \in Seq(IOLimiter)
      BY DEF TypeOK
  <2>3. /\ lnews[l][i] \in IOLimiter
        /\ SubSeq(lnews[l], i + 1, Len(lnews[l])) \in Seq(IOLimiter)
      BY <2>2, RestFacts
  <2>4. lcache' \in [Limiters -> IOLimiter]
      BY <2>1, <2>3 DEF TypeOK
  <2>5. lnews' \in [Limiters -> Seq(IOLimiter)]
      BY <2>1, <2>3 DEF TypeOK
  <2>6. queued' \in BOOLEAN
      BY <1>q, <2>1, Zenon DEF MapsToPod
  <2> QED BY <2>1, <2>4, <2>5, <2>6 DEF TypeOK, obj, pods
<1>2. ASSUME NEW l \in Limiters, EditLimiter(l) PROVE TypeOK'
  <2>1. PICK new \in IOLimiter \ {limiters[l]} :
        /\ limiters' = [limiters EXCEPT ![l] = new]
        /\ lnews' = [lnews EXCEPT ![l] = Append(@, new)]
        /\ asked' = [asked EXCEPT ![l] = [v \in Volumes |->
                        @[v] \cup {ValidFields(new.rows[v])}]]
      BY <1>2, Zenon DEF EditLimiter
  <2>2. \A v \in Volumes : ValidFields(new.rows[v]) \in Contribution
      BY LimiterRow, ValidFieldsType
  <2>3. [v \in Volumes |-> asked[l][v] \cup {ValidFields(new.rows[v])}]
            \in [Volumes -> SUBSET Contribution]
      BY <2>2 DEF TypeOK
  <2>4. asked' \in [Limiters -> [Volumes -> SUBSET Contribution]]
      BY <2>1, <2>3 DEF TypeOK
  <2>5. limiters' \in [Limiters -> IOLimiter]
      BY <2>1 DEF TypeOK
  <2>6. lnews' \in [Limiters -> Seq(IOLimiter)]
      BY <2>1, AppendProperties DEF TypeOK
  <2>7. count' \in [edits : 0..MaxEdits, records : 0..MaxRecords,
                    faults : 0..MaxFaults, failovers : 0..MaxFailovers]
      BY <1>2, <1>c, PodControllerAssumption DEF EditLimiter, Tick
  <2>8. UNCHANGED <<lcache, obj, pcache, pods, queued, ctl>>
      BY <1>2 DEF EditLimiter
  <2> QED BY <2>4, <2>5, <2>6, <2>7, <2>8 DEF TypeOK, obj, pods
<1>3. CASE DeliverPodIOLimit
  <2>1. PICK i \in 1..Len(pnews) :
          /\ pcache' = pnews[i]
          /\ pnews' = SubSeq(pnews, i + 1, Len(pnews))
      BY <1>3 DEF DeliverPodIOLimit
  <2>2. pcache' \in PodIOLimit /\ pnews' \in Seq(PodIOLimit)
      BY <2>1, RestFacts DEF TypeOK
  <2> QED BY <1>3, <2>2, <1>p, <1>s, <1>c DEF DeliverPodIOLimit
<1>4. CASE DeliverPod
    BY <1>4, PodControllerAssumption
       DEF DeliverPod, TypeOK, lims, obj, None, Previous, Unscheduled
<1>5. CASE BindVolume
  <2>1. bound' \subseteq Volumes /\ queued' \in BOOLEAN
      BY <1>5, <1>q DEF BindVolume, TypeOK
  <2> QED BY <1>5, <2>1 DEF BindVolume, TypeOK, lims, obj
<1>6. CASE Start
  <2> DEFINE existing == IF pcache.exists THEN pcache.spec ELSE Spec0
             spec == Compute(lcache, existing, Resolvable)
             op   == Decide(GetPod, pcache, spec)
             fr   == Frozen(lcache, existing, Resolvable)
  <2>1. existing \in SpecType
      BY <1>s, ConstantTypes DEF PodIOLimit
  <2>2. spec \in SpecType
      BY <2>1, ComputeType DEF TypeOK
  <2>3. op \in {"none", "wait", "create", "patch", "delete", "release",
                "finalizer"}
      BY DEF Decide
  <2>4. fr \in SUBSET (Volumes \X Limiters)
      BY DEF Frozen
  <2>5. /\ ctl' = IF op \in {"none", "wait"} THEN Idle
                  ELSE [op |-> op, copy |-> pcache, spec |-> spec, frozen |-> fr]
        /\ queued' = (op = "wait") /\ UNCHANGED <<lims, obj, pcache, pods, count>>
      BY <1>6 DEF Start
  <2> HIDE DEF existing, spec, op, fr
  <2>6. ctl' \in Reconcile
      BY <1>s, <1>i, <2>2, <2>3, <2>4, <2>5 DEF Reconcile
  <2> QED BY <2>5, <2>6, <1>p, <1>o, <1>s, <1>c
<1>7. CASE Create
    BY <1>7, <1>p, <1>s, <1>c, <1>i, <1>o, <1>q, <1>w, <1>u DEF Create
<1>8. CASE Patch
    BY <1>8, <1>p, <1>s, <1>c, <1>i, <1>o, <1>q, <1>w, <1>u DEF Patch
<1>9. CASE Delete
    BY <1>9, <1>p, <1>s, <1>c, <1>i, <1>o, <1>q, <1>w, <1>u
       DEF Delete, DeleteAtServer
<1>10. CASE ReleaseDirect
  <2>1. ctl' \in Reconcile
      BY <1>10, <1>s DEF ReleaseDirect, Reconcile
  <2> QED BY <1>10, <2>1, <1>p, <1>s, <1>c, <1>o, <1>q, <1>w, <1>u
             DEF ReleaseDirect, DeleteAtServer
<1>11. CASE RemoveFinalizer
    BY <1>11, <1>p, <1>s, <1>c, <1>i, <1>o, <1>q, <1>w, <1>u
       DEF RemoveFinalizer
<1>12. CASE WriteFails
  <2>1. count' \in [edits : 0..MaxEdits, records : 0..MaxRecords,
                    faults : 0..MaxFaults, failovers : 0..MaxFailovers]
      BY <1>12, <1>c, PodControllerAssumption DEF WriteFails, Tick
  <2> QED BY <1>12, <2>1, <1>p, <1>s, <1>i, <1>o, <1>w, <1>u DEF WriteFails
<1>13. CASE AgentRecords
  <2>1. count' \in [edits : 0..MaxEdits, records : 0..MaxRecords,
                    faults : 0..MaxFaults, failovers : 0..MaxFailovers]
      BY <1>13, <1>c, PodControllerAssumption DEF AgentRecords, Tick
  <2> QED BY <1>13, <2>1, <1>p, <1>s, <1>q, <1>w, <1>u DEF AgentRecords
<1>14. CASE AgentReleases
    BY <1>14, <1>p, <1>s, <1>c, <1>q, <1>w, <1>u DEF AgentReleases
<1>15. CASE OthersDelete
  <2>1. count' \in [edits : 0..MaxEdits, records : 0..MaxRecords,
                    faults : 0..MaxFaults, failovers : 0..MaxFailovers]
      BY <1>15, <1>c, PodControllerAssumption DEF OthersDelete, Tick
  <2> QED BY <1>15, <2>1, <1>p, <1>s, <1>q, <1>w, <1>u DEF OthersDelete
<1>16. CASE PodMoves
    BY <1>16 DEF PodMoves, TypeOK, lims, obj
<1>17. CASE Failover
  <2>1. podcache' \in None..LastStage
      BY <1>17, PodControllerAssumption
         DEF Failover, TypeOK, None, Unscheduled, Gone
  <2>2. lcache' = limiters /\ lnews' = [l \in Limiters |-> << >>]
      BY <1>17 DEF Failover
  <2>3. /\ lcache' \in [Limiters -> IOLimiter]
        /\ lnews' \in [Limiters -> Seq(IOLimiter)]
      BY <2>2 DEF TypeOK
  <2>4. pcache' \in PodIOLimit /\ pnews' \in Seq(PodIOLimit)
      BY <1>17, <1>s DEF Failover
  <2>5. queued' \in BOOLEAN
      BY <1>17, Zenon DEF Failover
  <2>6. count' \in [edits : 0..MaxEdits, records : 0..MaxRecords,
                    faults : 0..MaxFaults, failovers : 0..MaxFailovers]
      BY <1>17, <1>c, PodControllerAssumption DEF Failover, Tick
  <2>7. ctl' = Idle /\ UNCHANGED <<limiters, asked, pil, pod, bound>>
      BY <1>17 DEF Failover
  <2> QED BY <2>1, <2>3, <2>4, <2>5, <2>6, <2>7, <1>i DEF TypeOK, Reconcile
<1> QED
    BY <1>f, <1>1, <1>2, <1>3, <1>4, <1>5, <1>6, <1>7, <1>8, <1>9, <1>10,
       <1>11, <1>12, <1>13, <1>14, <1>15, <1>16, <1>17 DEF Next, Controller

\* Every variable keeps its type; in particular no limit the controller
\* writes, computed from whatever stale rows and earlier contributions, is
\* anything but a natural number.
THEOREM TypeCorrect == Spec => []TypeOK
<1>1. ASSUME Init PROVE TypeOK
  <2>1. pod \in Unscheduled..LastStage /\ podcache \in None..LastStage
      BY <1>1, PodControllerAssumption
         DEF Init, None, Previous, Unscheduled, Gone
  <2>2. /\ limiters \in [Limiters -> IOLimiter]
        /\ lcache \in [Limiters -> IOLimiter]
        /\ lnews \in [Limiters -> Seq(IOLimiter)]
        /\ asked \in [Limiters -> [Volumes -> SUBSET Contribution]]
      BY <1>1, ConstantTypes DEF Init
  <2>3. /\ pil \in PodIOLimit /\ pcache \in PodIOLimit
        /\ pnews \in Seq(PodIOLimit) /\ ctl \in Reconcile
      BY <1>1, ConstantTypes DEF Init
  <2>4. count \in [edits : 0..MaxEdits, records : 0..MaxRecords,
                   faults : 0..MaxFaults, failovers : 0..MaxFailovers]
      BY <1>1, PodControllerAssumption DEF Init
  <2> QED BY <1>1, <2>1, <2>2, <2>3, <2>4 DEF Init, TypeOK, Reconcile
<1> QED BY <1>1, TypeStep, PTL DEF Spec

----------------------------------------------------------------------------
(* Every contribution is one its limiter asked for.  The caches lag, so    *)
(* the invariant speaks of every version of every object under way.        *)

\* The contributions of a spec are among those asked for.
Own(spec, a) ==
    \A v \in Volumes, l \in Limiters :
        spec[v][l] # NoContribution => spec[v][l] \in a[l][v]

\* The rows of a limiter's version are among those asked for.
RowsAsked(l, x, a) ==
    \A v \in Volumes : x.rows[v] # NoRow => ValidFields(x.rows[v]) \in a[l][v]

OwnInv ==
    /\ Own(pil.spec, asked) /\ Own(pcache.spec, asked) /\ Own(ctl.spec, asked)
    /\ \A i \in 1..Len(pnews) : Own(pnews[i].spec, asked)
    /\ \A l \in Limiters :
        /\ RowsAsked(l, limiters[l], asked) /\ RowsAsked(l, lcache[l], asked)
        /\ \A i \in 1..Len(lnews[l]) : RowsAsked(l, lnews[l][i], asked)

\* Compute only rearranges what its inputs ask for.
LEMMA ComputeOwn ==
    ASSUME NEW ls, NEW existing, NEW resolvable, NEW a, Own(existing, a),
           \A l \in Limiters : RowsAsked(l, ls[l], a)
    PROVE  Own(Compute(ls, existing, resolvable), a)
<1> SUFFICES ASSUME NEW v \in Volumes, NEW l \in Limiters,
                    Compute(ls, existing, resolvable)[v][l] # NoContribution
             PROVE  Compute(ls, existing, resolvable)[v][l] \in a[l][v]
    BY DEF Own
<1> QED BY ComputeCases DEF Own, RowsAsked

\* A spec that asks for nothing asks for nothing of anybody else's.
LEMMA NothingOwn ==
    ASSUME NEW a
    PROVE  Own(Spec0, a) /\ Own(NoObject.spec, a) /\ Own(Idle.spec, a)
    BY DEF Own, Spec0, NoObject, Idle

\* A write of a spec whose contributions were asked for.
LEMMA PublishOwn ==
    ASSUME TypeOK, OwnInv, NEW o \in PodIOLimit, Publish(o),
           Own(o.spec, asked), Own(ctl'.spec, asked),
           UNCHANGED <<lims, pcache>>
    PROVE  OwnInv'
<1>1. /\ pil'.spec = o.spec
      /\ Len(pnews') = Len(pnews) + 1
      /\ \A i \in 1..Len(pnews) : pnews'[i] = pnews[i]
      /\ pnews'[Len(pnews) + 1] = pil'
    BY PublishFacts
<1>2. Len(pnews) \in Nat
    BY LenProperties DEF TypeOK
<1>3. \A i \in 1..Len(pnews') : Own(pnews'[i].spec, asked)
  <2> SUFFICES ASSUME NEW i \in 1..Len(pnews')
               PROVE  Own(pnews'[i].spec, asked)
      OBVIOUS
  <2>1. CASE i = Len(pnews) + 1
      BY <1>1, <2>1
  <2>2. CASE i \in 1..Len(pnews)
      BY <1>1, <2>2 DEF OwnInv
  <2> QED BY <1>1, <1>2, <2>1, <2>2
<1> QED BY <1>1, <1>3 DEF OwnInv, lims

\* Every step keeps the invariant.
LEMMA OwnStep == TypeOK /\ OwnInv /\ [Next]_vars => OwnInv'
<1> SUFFICES ASSUME TypeOK, OwnInv, [Next]_vars PROVE OwnInv'
    OBVIOUS
<1>s. pil \in PodIOLimit /\ ctl \in Reconcile /\ ctl.spec \in SpecType
    BY DEF TypeOK, Reconcile
<1>q. ASSUME UNCHANGED <<lims, obj, pcache>>, Own(ctl'.spec, asked)
      PROVE  OwnInv'
    BY <1>q DEF OwnInv, lims, obj
<1>i. Own(Idle.spec, asked) /\ Own(ctl.spec, asked)
    BY NothingOwn DEF OwnInv
<1>k. ctl' = Idle \/ ctl' = ctl => Own(ctl'.spec, asked)
    BY <1>i
<1>w. /\ LET o == [NoObject EXCEPT !.exists = TRUE, !.spec = ctl.spec] IN
           o \in PodIOLimit /\ Own(o.spec, asked)
      /\ LET o == [pil EXCEPT !.spec = ctl.spec] IN
           o \in PodIOLimit /\ Own(o.spec, asked)
      /\ LET o == [pil EXCEPT !.del = TRUE] IN
           o \in PodIOLimit /\ Own(o.spec, asked)
      /\ LET o == [pil EXCEPT !.owned = ~@] IN
           o \in PodIOLimit /\ Own(o.spec, asked)
      /\ LET o == [pil EXCEPT !.owned = FALSE] IN
           o \in PodIOLimit /\ Own(o.spec, asked)
      /\ NoObject \in PodIOLimit /\ Own(NoObject.spec, asked)
  <2>1. Own(pil.spec, asked)
      BY DEF OwnInv
  <2> QED BY <1>s, <1>i, <2>1, ConstantTypes, NothingOwn DEF PodIOLimit, NoObject
<1>u. ASSUME NEW o \in PodIOLimit, Publish(o), Own(o.spec, asked),
             Own(ctl'.spec, asked), UNCHANGED <<lims, pcache>>
      PROVE  OwnInv'
    BY <1>u, PublishOwn
<1>f. CASE UNCHANGED vars
    BY <1>f DEF vars, OwnInv
<1>1. ASSUME NEW l \in Limiters, DeliverLimiter(l) PROVE OwnInv'
  <2>1. PICK i \in 1..Len(lnews[l]) :
          /\ lcache' = [lcache EXCEPT ![l] = lnews[l][i]]
          /\ lnews' = [lnews EXCEPT ![l] = SubSeq(@, i + 1, Len(@))]
      BY <1>1, Zenon DEF DeliverLimiter
  <2>2. UNCHANGED <<limiters, asked, obj, pcache, ctl>>
      BY <1>1 DEF DeliverLimiter
  <2>3. lnews[l] \in Seq(IOLimiter) /\ Len(lnews[l]) \in Nat
      BY LenProperties DEF TypeOK
  <2> DEFINE r == SubSeq(lnews[l], i + 1, Len(lnews[l]))
  <2>4. /\ Len(r) = Len(lnews[l]) - i
        /\ \A j \in 1..Len(r) : r[j] = lnews[l][i + j]
      BY <2>3, RestFacts
  <2>5. lcache'[l] = lnews[l][i] /\ lnews'[l] = r
      BY <2>1 DEF TypeOK
  <2>6. \A m \in Limiters \ {l} : lcache'[m] = lcache[m] /\ lnews'[m] = lnews[m]
      BY <2>1 DEF TypeOK
  <2> HIDE DEF r
  <2>7. \A m \in Limiters :
          /\ RowsAsked(m, lcache'[m], asked)
          /\ \A j \in 1..Len(lnews'[m]) : RowsAsked(m, lnews'[m][j], asked)
    <3> SUFFICES ASSUME NEW m \in Limiters
                 PROVE  /\ RowsAsked(m, lcache'[m], asked)
                        /\ \A j \in 1..Len(lnews'[m]) :
                              RowsAsked(m, lnews'[m][j], asked)
        OBVIOUS
    <3>1. CASE m # l
        BY <3>1, <2>6 DEF OwnInv
    <3>2. CASE m = l
      <4>1. \A j \in 1..Len(lnews[l]) : RowsAsked(l, lnews[l][j], asked)
          BY DEF OwnInv
      <4>2. \A j \in 1..Len(r) : i + j \in 1..Len(lnews[l])
          BY <2>3, <2>4
      <4> QED BY <3>2, <4>1, <4>2, <2>4, <2>5
    <3> QED BY <3>1, <3>2
  <2> QED BY <2>2, <2>7 DEF OwnInv, obj
<1>2. ASSUME NEW l \in Limiters, EditLimiter(l) PROVE OwnInv'
  <2>1. PICK new \in IOLimiter \ {limiters[l]} :
        /\ limiters' = [limiters EXCEPT ![l] = new]
        /\ lnews' = [lnews EXCEPT ![l] = Append(@, new)]
        /\ asked' = [asked EXCEPT ![l] = [v \in Volumes |->
                        @[v] \cup {ValidFields(new.rows[v])}]]
      BY <1>2, Zenon DEF EditLimiter
  <2>2. UNCHANGED <<lcache, obj, pcache, ctl>>
      BY <1>2 DEF EditLimiter
  <2>3. \A m \in Limiters, v \in Volumes : asked[m][v] \subseteq asked'[m][v]
      BY <2>1 DEF TypeOK
  <2>4. \A v \in Volumes : ValidFields(new.rows[v]) \in asked'[l][v]
      BY <2>1 DEF TypeOK
  <2>5. ASSUME NEW s, Own(s, asked) PROVE Own(s, asked')
      BY <2>3, <2>5 DEF Own
  <2>6. ASSUME NEW m \in Limiters, NEW x, RowsAsked(m, x, asked)
        PROVE  RowsAsked(m, x, asked')
      BY <2>3, <2>6 DEF RowsAsked
  <2>7. lnews[l] \in Seq(IOLimiter) /\ Len(lnews[l]) \in Nat
      BY LenProperties DEF TypeOK
  <2>8. /\ lnews'[l] = Append(lnews[l], new)
        /\ \A m \in Limiters \ {l} : lnews'[m] = lnews[m]
      BY <2>1 DEF TypeOK
  <2>9. /\ Len(lnews'[l]) = Len(lnews[l]) + 1
        /\ \A j \in 1..Len(lnews[l]) : lnews'[l][j] = lnews[l][j]
        /\ lnews'[l][Len(lnews[l]) + 1] = new
      BY <2>7, <2>8, AppendProperties
  <2>10. ASSUME NEW m \in Limiters, NEW j \in 1..Len(lnews'[m])
         PROVE  RowsAsked(m, lnews'[m][j], asked')
    <3>1. CASE m # l
        BY <3>1, <2>6, <2>8, <2>10 DEF OwnInv
    <3>2. CASE m = l /\ j \in 1..Len(lnews[l])
        BY <3>2, <2>6, <2>9 DEF OwnInv
    <3>3. CASE m = l /\ j = Len(lnews[l]) + 1
        BY <3>3, <2>4, <2>9 DEF RowsAsked
    <3> QED BY <2>7, <2>9, <2>10, <3>1, <3>2, <3>3
  <2>11. \A m \in Limiters : RowsAsked(m, lcache'[m], asked')
      BY <2>2, <2>6 DEF OwnInv
  <2>13. ASSUME NEW m \in Limiters PROVE RowsAsked(m, limiters'[m], asked')
    <3>1. CASE m = l
        BY <3>1, <2>1, <2>4 DEF TypeOK, RowsAsked
    <3>2. CASE m # l
        BY <3>2, <2>1, <2>6 DEF TypeOK, OwnInv
    <3> QED BY <3>1, <3>2
  <2>12. /\ Own(pil'.spec, asked') /\ Own(pcache'.spec, asked')
         /\ Own(ctl'.spec, asked')
         /\ \A i \in 1..Len(pnews') : Own(pnews'[i].spec, asked')
      BY <2>2, <2>5 DEF OwnInv, obj
  <2> QED BY <2>10, <2>11, <2>12, <2>13 DEF OwnInv
<1>3. CASE DeliverPodIOLimit
  <2>1. PICK i \in 1..Len(pnews) :
          /\ pcache' = pnews[i]
          /\ pnews' = SubSeq(pnews, i + 1, Len(pnews))
      BY <1>3 DEF DeliverPodIOLimit
  <2>2. UNCHANGED <<lims, pil, ctl>>
      BY <1>3 DEF DeliverPodIOLimit
  <2>3. pnews \in Seq(PodIOLimit) /\ Len(pnews) \in Nat
      BY LenProperties DEF TypeOK
  <2>4. /\ Len(pnews') = Len(pnews) - i
        /\ \A j \in 1..Len(pnews') : pnews'[j] = pnews[i + j]
      BY <2>1, <2>3, RestFacts
  <2>5. \A j \in 1..Len(pnews') : i + j \in 1..Len(pnews)
      BY <2>3, <2>4
  <2>6. /\ Own(pcache'.spec, asked)
        /\ \A j \in 1..Len(pnews') : Own(pnews'[j].spec, asked)
      BY <2>1, <2>4, <2>5 DEF OwnInv
  <2> QED BY <2>2, <2>6 DEF OwnInv, lims
<1>4. CASE DeliverPod \/ BindVolume \/ PodMoves
    BY <1>4, <1>q, <1>i DEF DeliverPod, BindVolume, PodMoves
<1>6. CASE Start
  <2> DEFINE existing == IF pcache.exists THEN pcache.spec ELSE Spec0
             spec == Compute(lcache, existing, Resolvable)
  <2>1. Own(spec, asked)
    <3>1. Own(existing, asked)
        BY NothingOwn DEF OwnInv
    <3> HIDE DEF existing
    <3> QED BY <3>1, ComputeOwn DEF OwnInv
  <2>2. ctl'.spec = spec \/ ctl' = Idle
      BY <1>6 DEF Start
  <2> HIDE DEF spec
  <2>3. UNCHANGED <<lims, obj, pcache>>
      BY <1>6 DEF Start
  <2> QED BY <2>1, <2>2, <2>3, <1>q, <1>i
<1>7. CASE Create
    BY <1>7, <1>q, <1>k, <1>w, <1>u DEF Create
<1>8. CASE Patch
    BY <1>8, <1>q, <1>k, <1>w, <1>u DEF Patch
<1>9. CASE Delete
    BY <1>9, <1>q, <1>k, <1>w, <1>u DEF Delete, DeleteAtServer
<1>10. CASE ReleaseDirect
  <2>1. ctl'.spec = ctl.spec
      BY <1>10, <1>s DEF ReleaseDirect, Reconcile
  <2> QED BY <1>10, <2>1, <1>i, <1>q, <1>w, <1>u
             DEF ReleaseDirect, DeleteAtServer
<1>11. CASE RemoveFinalizer
    BY <1>11, <1>q, <1>k, <1>w, <1>u DEF RemoveFinalizer
<1>12. CASE WriteFails
    BY <1>12, <1>q, <1>k, <1>w, <1>u DEF WriteFails
<1>13. CASE AgentRecords \/ AgentReleases \/ OthersDelete
    BY <1>13, <1>k, <1>w, <1>u DEF AgentRecords, AgentReleases, OthersDelete
<1>14. CASE Failover
  <2>1. /\ lcache' = limiters /\ lnews' = [l \in Limiters |-> << >>]
        /\ pcache' = pil /\ pnews' = << >> /\ ctl' = Idle
        /\ UNCHANGED <<limiters, asked, pil>>
      BY <1>14 DEF Failover
  <2>2. \A l \in Limiters : lnews'[l] = << >>
      BY <2>1
  <2> QED BY <2>1, <2>2, <1>k DEF OwnInv
<1> QED
    BY <1>f, <1>1, <1>2, <1>3, <1>4, <1>6, <1>7, <1>8, <1>9, <1>10,
       <1>11, <1>12, <1>13, <1>14 DEF Next, Controller

\* D36: whatever mix of stale caches Compute ran on, and however often a
\* contribution was frozen, what a limiter contributes to the stored spec is
\* what one of its own rows asked for, whole.
THEOREM ContributionsOwn == Spec => []OwnContribution
<1>1. Init => OwnInv
    BY NothingOwn DEF Init, OwnInv, RowsAsked, NoLimiter
<1>2. OwnInv => OwnContribution
    BY DEF OwnInv, Own, OwnContribution
<1> QED BY <1>1, <1>2, OwnStep, TypeCorrect, PTL DEF Spec

----------------------------------------------------------------------------
(* The deletion handshake, where no earlier pod had the same name and one  *)
(* leader serves throughout.  The reconciler decides on the cached object  *)
(* and writes to the stored one, so the invariant relates all versions     *)
(* from one to the other.                                                  *)

\* With no change of leader allowed for, there is none.
LEMMA NoFailover ==
    ASSUME TypeOK, MaxFailovers = 0
    PROVE  ~Failover
    BY DEF TypeOK, Failover

\* The cached object and the versions on their way to the cache.
Chain == {pcache} \cup {pnews[i] : i \in 1..Len(pnews)}

\* They arrive in the order of their versions and end in the stored object.
Sorted ==
    /\ \A i \in 1..Len(pnews) : pcache.rv < pnews[i].rv
    /\ \A i, j \in 1..Len(pnews) : i < j => pnews[i].rv < pnews[j].rv
    /\ pil \in Chain
    /\ \A v \in Chain : v.rv <= pil.rv

\* At most one creation or removal is on its way, never both.
ExistsUp   == \A v, w \in Chain : v.rv <= w.rv /\ v.exists => w.exists
ExistsDown == \A v, w \in Chain : v.rv <= w.rv /\ w.exists => v.exists
Existence ==
    /\ pcache.exists => ExistsDown
    /\ ~pcache.exists => ExistsUp
    /\ ctl.op = "create" => ExistsUp

\* A deletion mark stays, and what was empty under it stays empty.
Marks ==
    \A v, w \in Chain : v.rv <= w.rv /\ v.exists /\ w.exists /\ v.del =>
        w.del /\ (~v.owned => ~w.owned)

\* The pod is seen late, and nothing happens before it is seen running.
PodSeen ==
    /\ podcache <= pod /\ podcache # Previous
    /\ podcache = None => ~queued /\ pnews = << >>
    /\ podcache < Running => ctl.op = "idle" /\ \A v \in Chain : ~v.exists

\* What was true of the copy when the reconciler decided to let the object
\* go is still true of the stored one.
Releasing ==
    /\ ctl.op = "release" =>
        podcache >= Terminal /\ (ctl.copy.del /\ pil.exists => pil.del)
    /\ ctl.op = "finalizer" =>
        /\ pil.exists => pil.del
        /\ \/ podcache >= Terminal
           \/ \A v \in Chain : v.exists => v.del /\ ~v.owned

HandshakeInv == Sorted /\ Existence /\ Marks /\ PodSeen /\ Releasing

\* An update of the stored object keeps a deletion mark, and the empty record
\* under it, and changes the mark or the record, not both.
Updates ==
    \E o \in PodIOLimit :
        /\ Publish(o) /\ pil.exists /\ o.exists
        /\ pil.del => o.del /\ (~pil.owned => ~o.owned)
        /\ o.del = pil.del \/ o.owned = pil.owned
        /\ UNCHANGED <<pcache, pods>>

Creates ==
    \E o \in PodIOLimit :
        /\ Publish(o) /\ ~pil.exists /\ o.exists /\ ~o.del /\ ~o.owned
        /\ ctl.op = "create" /\ ctl' = Idle
        /\ UNCHANGED <<pcache, pods>>

Removes ==
    /\ Publish(NoObject) /\ pil.exists /\ pcache.exists /\ pcache.rv = pil.rv
    /\ ctl.op = "finalizer" /\ ctl' = Idle
    /\ UNCHANGED <<pcache, pods>>

\* Every step leaves the object alone, or does one of these, or delivers it.
LEMMA StepShape ==
    ASSUME TypeOK, MaxFailovers = 0, [Next]_vars
    PROVE  /\ \/ UNCHANGED <<obj, pcache>>
              \/ Updates
              \/ Creates
              \/ Removes
              \/ DeliverPodIOLimit
           /\ \/ ctl' = ctl
              \/ ctl' = Idle
              \/ Start
              \/ ReleaseDirect
<1>s. pil \in PodIOLimit /\ ctl \in Reconcile /\ ctl.spec \in SpecType
    BY DEF TypeOK, Reconcile
<1>c. LET o == [NoObject EXCEPT !.exists = TRUE, !.spec = ctl.spec] IN
      o \in PodIOLimit /\ o.exists /\ ~o.del /\ ~o.owned
    BY <1>s, ConstantTypes DEF PodIOLimit, NoObject
<1>p. LET o == [pil EXCEPT !.spec = ctl.spec] IN
      /\ o \in PodIOLimit /\ o.exists = pil.exists
      /\ o.del = pil.del /\ o.owned = pil.owned
    BY <1>s DEF PodIOLimit
<1>d. LET o == [pil EXCEPT !.del = TRUE] IN
      /\ o \in PodIOLimit /\ o.exists = pil.exists
      /\ o.del /\ o.owned = pil.owned
    BY <1>s DEF PodIOLimit
<1>a. LET o == [pil EXCEPT !.owned = ~@] IN
      o \in PodIOLimit /\ o.exists = pil.exists /\ o.del = pil.del
    BY <1>s DEF PodIOLimit
<1>r. LET o == [pil EXCEPT !.owned = FALSE] IN
      /\ o \in PodIOLimit /\ o.exists = pil.exists
      /\ o.del = pil.del /\ ~o.owned
    BY <1>s DEF PodIOLimit
<1>f. CASE UNCHANGED vars
    BY <1>f DEF vars, obj
<1>1. ASSUME NEW l \in Limiters, DeliverLimiter(l) \/ EditLimiter(l)
      PROVE  UNCHANGED <<obj, pcache, ctl>>
    BY <1>1 DEF DeliverLimiter, EditLimiter
<1>2. CASE DeliverPodIOLimit
    BY <1>2 DEF DeliverPodIOLimit
<1>3. CASE DeliverPod \/ BindVolume \/ PodMoves
    BY <1>3 DEF DeliverPod, BindVolume, PodMoves
<1>4. CASE Start
    BY <1>4 DEF Start
<1>5. CASE Create
    BY <1>5, <1>c DEF Create, Creates
<1>6. CASE Patch
    BY <1>6, <1>p DEF Patch, Updates
<1>7. CASE Delete
    BY <1>7, <1>d DEF Delete, DeleteAtServer, Updates
<1>8. CASE ReleaseDirect
    BY <1>8, <1>d DEF ReleaseDirect, DeleteAtServer, Updates
<1>9. CASE RemoveFinalizer
    BY <1>9 DEF RemoveFinalizer, Removes
<1>10. CASE WriteFails
  <2>1. ctl' = Idle /\ UNCHANGED <<pcache, pods>>
      BY <1>10 DEF WriteFails
  <2>2. CASE UNCHANGED obj
      BY <2>1, <2>2
  <2>3. CASE /\ ctl.op = "create" /\ ~pil.exists
             /\ Publish([NoObject EXCEPT !.exists = TRUE, !.spec = ctl.spec])
      BY <2>1, <2>3, <1>c DEF Creates
  <2>4. CASE pil.exists /\ Publish([pil EXCEPT !.spec = ctl.spec])
      BY <2>1, <2>4, <1>p DEF Updates
  <2>5. CASE pil.exists /\ Publish([pil EXCEPT !.del = TRUE])
      BY <2>1, <2>5, <1>d DEF Updates
  <2>6. CASE /\ ctl.op = "finalizer" /\ pcache.exists /\ pil.exists
             /\ pcache.rv = pil.rv /\ Publish(NoObject)
      BY <2>1, <2>6 DEF Removes
  <2> QED BY <1>10, <2>1, <2>2, <2>3, <2>4, <2>5, <2>6 DEF WriteFails
<1>11. CASE AgentRecords \/ AgentReleases \/ OthersDelete
    BY <1>11, <1>a, <1>r, <1>d DEF AgentRecords, AgentReleases, OthersDelete, Updates
<1> QED
    BY <1>f, <1>1, <1>2, <1>3, <1>4, <1>5, <1>6, <1>7, <1>8, <1>9, <1>10,
       <1>11, NoFailover DEF Next, Controller

\* All versions are PodIOLimits.
LEMMA ChainTypes ==
    ASSUME TypeOK
    PROVE  /\ pil.rv \in Nat /\ pcache.rv \in Nat
           /\ \A i \in 1..Len(pnews) : pnews[i] \in Chain /\ pnews[i].rv \in Nat
           /\ \A v \in Chain : v \in PodIOLimit /\ v.rv \in Nat
           /\ pcache \in Chain
<1>1. pnews \in Seq(PodIOLimit) /\ pil \in PodIOLimit /\ pcache \in PodIOLimit
    BY DEF TypeOK
<1>2. \A i \in 1..Len(pnews) : pnews[i] \in PodIOLimit
    BY <1>1, ElementOfSeq
<1>3. \A v \in PodIOLimit : v.rv \in Nat
    BY DEF PodIOLimit
<1> QED BY <1>1, <1>2, <1>3 DEF Chain

\* A write adds one version to the chain, the newest.
LEMMA PublishChain ==
    ASSUME TypeOK, Sorted, NEW o \in PodIOLimit, Publish(o), pcache' = pcache
    PROVE  /\ Chain' = Chain \cup {pil'} /\ Sorted'
           /\ \A v \in Chain : v.rv < pil'.rv
<1>1. /\ pil'.rv = pil.rv + 1
      /\ Len(pnews') = Len(pnews) + 1
      /\ \A i \in 1..Len(pnews) : pnews'[i] = pnews[i]
      /\ pnews'[Len(pnews) + 1] = pil'
    BY PublishFacts
<1>2. Len(pnews) \in Nat /\ pnews \in Seq(PodIOLimit)
    BY LenProperties DEF TypeOK
<1>3. 1..Len(pnews') = 1..Len(pnews) \cup {Len(pnews) + 1}
    BY <1>1, <1>2
<1>4. Chain' = Chain \cup {pil'}
    BY <1>1, <1>2, <1>3 DEF Chain
<1>5. /\ pil.rv \in Nat /\ pcache.rv \in Nat
      /\ \A i \in 1..Len(pnews) : pnews[i].rv \in Nat
    BY ChainTypes
<1>6. \A v \in Chain : v.rv \in Nat /\ v.rv < pil'.rv
    BY <1>1, <1>5 DEF Sorted, Chain
<1>7. \A i \in 1..Len(pnews) : pnews[i] \in Chain
    BY DEF Chain
<1>8. pcache \in Chain
    BY DEF Chain
<1>9. Sorted'
  <2>1. \A i \in 1..Len(pnews') : pcache'.rv < pnews'[i].rv
    <3> SUFFICES ASSUME NEW i \in 1..Len(pnews') PROVE pcache.rv < pnews'[i].rv
        OBVIOUS
    <3>1. CASE i \in 1..Len(pnews)
        BY <1>1, <3>1 DEF Sorted
    <3>2. CASE i = Len(pnews) + 1
        BY <1>1, <1>6, <1>8, <3>2
    <3> QED BY <1>3, <3>1, <3>2
  <2>2. \A i, j \in 1..Len(pnews') : i < j => pnews'[i].rv < pnews'[j].rv
    <3> SUFFICES ASSUME NEW i \in 1..Len(pnews'), NEW j \in 1..Len(pnews'), i < j
                 PROVE  pnews'[i].rv < pnews'[j].rv
        OBVIOUS
    <3>0. i \in 1..Len(pnews)
        BY <1>1, <1>2
    <3>1. CASE j \in 1..Len(pnews)
        BY <1>1, <3>0, <3>1 DEF Sorted
    <3>2. CASE j = Len(pnews) + 1
        BY <1>1, <1>6, <1>7, <3>0, <3>2
    <3> QED BY <1>3, <3>1, <3>2
  <2>3. \A v \in Chain' : v.rv <= pil'.rv
      BY <1>1, <1>4, <1>5, <1>6
  <2> QED BY <1>4, <2>1, <2>2, <2>3 DEF Sorted
<1> QED BY <1>4, <1>6, <1>9

\* A delivery cuts the chain at the version delivered.
LEMMA DeliverChain ==
    ASSUME TypeOK, Sorted, DeliverPodIOLimit
    PROVE  /\ pcache' \in Chain /\ Chain' \subseteq Chain /\ Sorted'
           /\ \A v \in Chain' : pcache'.rv <= v.rv
           /\ pcache.rv < pcache'.rv
<1>1. PICK i \in 1..Len(pnews) :
        /\ pcache' = pnews[i]
        /\ pnews' = SubSeq(pnews, i + 1, Len(pnews))
        /\ pil' = pil
    BY DEF DeliverPodIOLimit
<1>2. Len(pnews) \in Nat /\ pnews \in Seq(PodIOLimit)
    BY LenProperties DEF TypeOK
<1>3. /\ Len(pnews') = Len(pnews) - i
      /\ \A j \in 1..Len(pnews') : pnews'[j] = pnews[i + j]
    BY <1>1, <1>2, RestFacts
<1>4. \A j \in 1..Len(pnews') : i + j \in 1..Len(pnews)
    BY <1>2, <1>3
<1>5. pcache' \in Chain /\ Chain' \subseteq Chain
    BY <1>1, <1>3, <1>4 DEF Chain
<1>6. /\ pil.rv \in Nat /\ pcache.rv \in Nat
      /\ \A j \in 1..Len(pnews) : pnews[j].rv \in Nat
    BY ChainTypes
<1>7. \A j \in 1..Len(pnews') : pcache'.rv < pnews'[j].rv
  <2> SUFFICES ASSUME NEW j \in 1..Len(pnews')
               PROVE  pnews[i].rv < pnews[i + j].rv
      BY <1>1, <1>3
  <2>1. i + j \in 1..Len(pnews) /\ i < i + j
      BY <1>2, <1>3, <1>4
  <2> QED BY <2>1 DEF Sorted
<1>8. \A j, k \in 1..Len(pnews') : j < k => pnews'[j].rv < pnews'[k].rv
  <2> SUFFICES ASSUME NEW j \in 1..Len(pnews'), NEW k \in 1..Len(pnews'), j < k
               PROVE  pnews[i + j].rv < pnews[i + k].rv
      BY <1>3
  <2>1. i + j \in 1..Len(pnews) /\ i + k \in 1..Len(pnews) /\ i + j < i + k
      BY <1>2, <1>3, <1>4
  <2> QED BY <2>1 DEF Sorted
<1>9. pil \in Chain'
  <2>0. pnews[i].rv <= pil.rv /\ pcache.rv < pnews[i].rv
      BY DEF Sorted, Chain
  <2>1. CASE pil = pcache
      BY <2>0, <2>1, <1>6
  <2>2. ASSUME NEW j \in 1..Len(pnews), pil = pnews[j] PROVE pil \in Chain'
    <3>1. ~(j < i)
        BY <1>6, <2>0, <2>2 DEF Sorted
    <3>2. CASE j = i
        BY <1>1, <2>2, <3>2 DEF Chain
    <3>3. CASE j > i
      <4>1. j - i \in 1..Len(pnews') /\ i + (j - i) = j
          BY <1>2, <1>3, <3>3
      <4>2. pnews'[j - i] = pnews[j]
          BY <1>3, <4>1
      <4> QED BY <2>2, <4>1, <4>2 DEF Chain
    <3> QED BY <3>1, <3>2, <3>3
  <2> QED BY <2>1, <2>2 DEF Sorted, Chain
<1>10. \A v \in Chain' : v.rv <= pil'.rv
    BY <1>1, <1>5 DEF Sorted
<1>11. Sorted'
    BY <1>1, <1>7, <1>8, <1>9, <1>10 DEF Sorted
<1>12. \A v \in Chain' : pcache'.rv <= v.rv
  <2>1. pcache'.rv \in Nat
      BY <1>1, <1>6
  <2>2. \A j \in 1..Len(pnews') : pnews'[j].rv \in Nat
      BY <1>3, <1>4, <1>6
  <2> QED BY <1>7, <2>1, <2>2 DEF Chain
<1> QED BY <1>1, <1>5, <1>11, <1>12 DEF Sorted

\* The stored object is the last of the chain, the cached one the first.
LEMMA ChainEnds ==
    ASSUME TypeOK, Sorted
    PROVE  /\ \A v \in Chain : pcache.rv <= v.rv /\ v.rv <= pil.rv
           /\ pil \in Chain /\ pcache \in Chain
           /\ pcache.rv = pil.rv => Chain = {pil} /\ pcache = pil
<1>1. /\ \A v \in Chain : v.rv <= pil.rv
      /\ pil \in Chain /\ pcache \in Chain
    BY ChainTypes DEF Sorted
<1>2. \A v \in Chain : v # pcache => pcache.rv < v.rv
    BY DEF Sorted, Chain
<1>3. \A v \in Chain : v.rv \in Nat
    BY ChainTypes
<1> QED BY <1>1, <1>2, <1>3

\* The versions of the object after an update.
LEMMA UpdateFacts ==
    ASSUME TypeOK, Sorted, Marks, Updates
    PROVE  /\ Chain' = Chain \cup {pil'} /\ Sorted' /\ Marks'
           /\ pcache' = pcache /\ podcache' = podcache /\ pod' = pod
           /\ pil.exists /\ pil'.exists
           /\ pil.del => pil'.del /\ (~pil.owned => ~pil'.owned)
           /\ pil'.del = pil.del \/ pil'.owned = pil.owned
           /\ ExistsUp => ExistsUp'
           /\ ExistsDown => ExistsDown'
<1>1. PICK o \in PodIOLimit :
        /\ Publish(o) /\ pil.exists /\ o.exists
        /\ pil.del => o.del /\ (~pil.owned => ~o.owned)
        /\ o.del = pil.del \/ o.owned = pil.owned
        /\ UNCHANGED <<pcache, pods>>
    BY DEF Updates
<1>2. /\ Chain' = Chain \cup {pil'} /\ Sorted'
      /\ \A v \in Chain : v.rv < pil'.rv
    BY <1>1, PublishChain
<1>3. /\ pil'.exists /\ pil'.rv \in Nat
      /\ pil.del => pil'.del /\ (~pil.owned => ~pil'.owned)
      /\ pil'.del = pil.del \/ pil'.owned = pil.owned
    BY <1>1, PublishFacts DEF PodIOLimit
<1>4. \A v \in Chain : v.rv <= pil.rv /\ v.rv \in Nat /\ pil \in Chain
    BY ChainTypes DEF Sorted
<1>5. \A v \in Chain : ~(pil'.rv <= v.rv)
    BY <1>2, <1>3, <1>4
<1>6. ExistsUp => ExistsUp'
    BY <1>2, <1>3, <1>5 DEF ExistsUp
<1>7. ExistsDown => ExistsDown'
    BY <1>1, <1>2, <1>3, <1>4 DEF ExistsDown
<1>8. Marks'
  <2> SUFFICES ASSUME NEW v \in Chain', NEW w \in Chain',
                      v.rv <= w.rv, v.exists, w.exists, v.del
               PROVE  w.del /\ (~v.owned => ~w.owned)
      BY DEF Marks
  <2>1. CASE v \in Chain /\ w \in Chain
      BY <2>1 DEF Marks
  <2>2. CASE v \in Chain /\ w = pil'
    <3>1. pil.del /\ (~v.owned => ~pil.owned)
        BY <1>1, <1>4, <2>2 DEF Marks
    <3> QED BY <1>3, <2>2, <3>1
  <2>3. CASE v = pil'
      BY <1>2, <1>5, <2>3
  <2> QED BY <1>2, <2>1, <2>2, <2>3
<1> QED BY <1>1, <1>2, <1>3, <1>6, <1>7, <1>8 DEF pods

\* ... and after a creation: no version before it exists.
LEMMA CreateFacts ==
    ASSUME TypeOK, Sorted, Existence, Creates
    PROVE  /\ Chain' = Chain \cup {pil'} /\ Sorted' /\ Marks'
           /\ pcache' = pcache /\ podcache' = podcache /\ pod' = pod
           /\ ~pcache.exists /\ ExistsUp' /\ ctl' = Idle
           /\ ctl.op = "create"
           /\ ~pil.exists /\ pil'.exists /\ ~pil'.del /\ ~pil'.owned
<1>1. PICK o \in PodIOLimit :
        /\ Publish(o) /\ ~pil.exists /\ o.exists /\ ~o.del /\ ~o.owned
        /\ ctl.op = "create" /\ ctl' = Idle
        /\ UNCHANGED <<pcache, pods>>
    BY DEF Creates
<1>2. /\ Chain' = Chain \cup {pil'} /\ Sorted'
      /\ \A v \in Chain : v.rv < pil'.rv
    BY <1>1, PublishChain
<1>3. pil'.exists /\ ~pil'.del /\ ~pil'.owned
    BY <1>1, PublishFacts
<1>4. \A v \in Chain : ~v.exists
    BY <1>1 DEF Existence, ExistsUp, Sorted
<1>5. pcache \in Chain
    BY ChainTypes
<1>6. Marks' /\ ExistsUp'
  <2>1. pil'.rv \in Nat /\ \A v \in Chain : v.rv \in Nat
      BY <1>1, ChainTypes, PublishFacts DEF PodIOLimit
  <2>2. \A v \in Chain : ~(pil'.rv <= v.rv)
      BY <1>2, <2>1
  <2>3. \A v \in Chain' : v.exists => v = pil'
      BY <1>2, <1>4
  <2> QED BY <1>2, <1>3, <2>2, <2>3 DEF Marks, ExistsUp
<1> QED BY <1>1, <1>2, <1>3, <1>4, <1>5, <1>6 DEF pods

\* ... and after a removal: the cache is current, so nothing else is under way.
LEMMA RemoveFacts ==
    ASSUME TypeOK, Sorted, Removes
    PROVE  /\ Chain' = {pcache, pil'} /\ Sorted' /\ Marks' /\ ExistsDown'
           /\ pcache = pil /\ pil \in Chain
           /\ pcache' = pcache /\ podcache' = podcache /\ pod' = pod
           /\ pcache.exists /\ ctl.op = "finalizer" /\ ctl' = Idle
           /\ ~pil'.exists /\ ~pil'.del /\ ~pil'.owned
<1>1. /\ Publish(NoObject) /\ pil.exists /\ pcache.exists
      /\ pcache.rv = pil.rv
      /\ ctl.op = "finalizer" /\ ctl' = Idle /\ UNCHANGED <<pcache, pods>>
    BY DEF Removes
<1>2. Chain = {pil} /\ pcache = pil /\ pil \in Chain
    BY <1>1, ChainEnds
<1>3. /\ Chain' = Chain \cup {pil'} /\ Sorted'
      /\ \A v \in Chain : v.rv < pil'.rv
    BY <1>1, ConstantTypes, PublishChain
<1>4. ~pil'.exists /\ ~pil'.del /\ ~pil'.owned
    BY <1>1, ConstantTypes, PublishFacts DEF NoObject
<1>5. Marks' /\ ExistsDown'
  <2>1. pil.rv \in Nat /\ pil'.rv = pil.rv + 1
      BY <1>1, ConstantTypes, ChainTypes, PublishFacts
  <2>2. ~(pil'.rv <= pil.rv)
      BY <2>1
  <2> QED BY <1>1, <1>2, <1>3, <1>4, <2>2 DEF Marks, ExistsDown
<1> QED BY <1>1, <1>2, <1>3, <1>4, <1>5 DEF pods

\* A reconcile starts from the cached object, and lets it go only when the
\* pod is seen to be over or the cached record is empty.
LEMMA StartFacts ==
    ASSUME TypeOK, PodSeen, ~Reused, pcache \in Chain, Start
    PROVE  /\ UNCHANGED <<obj, pcache, pods>> /\ queued /\ ctl.op = "idle"
           /\ ctl'.op = "create" => ~pcache.exists
           /\ podcache < Running => ctl'.op = "idle"
           /\ ctl'.op = "release" => podcache >= Terminal /\ ctl'.copy = pcache
           /\ ctl'.op = "finalizer" =>
                 pcache.exists /\ pcache.del /\ ~pcache.owned
<1> DEFINE existing == IF pcache.exists THEN pcache.spec ELSE Spec0
           spec == Compute(lcache, existing, Resolvable)
           op   == Decide(GetPod, pcache, spec)
<1>1. /\ UNCHANGED <<obj, pcache, pods>> /\ queued /\ ctl.op = "idle"
      /\ \/ op \in {"none", "wait"} /\ ctl' = Idle
         \/ op \notin {"none", "wait"} /\ ctl'.op = op /\ ctl'.copy = pcache
    BY DEF Start
<1> HIDE DEF spec
<1>2. Idle.op = "idle"
    BY DEF Idle
<1>3. /\ pod \in Nat /\ podcache \in Nat /\ pod <= Gone
      /\ podcache <= pod /\ podcache # Previous /\ podcache # None
    BY <1>1, PodControllerAssumption
       DEF TypeOK, PodSeen, None, Previous, Unscheduled, Gone
<1>4. podcache < Running => GetPod = Unscheduled /\ ~pcache.exists
    BY <1>3 DEF PodSeen, GetPod, None, Previous, Unscheduled, Running, Gone
<1>5. podcache >= Running /\ ~PodLive(GetPod) => podcache >= Terminal
    BY <1>3 DEF GetPod, PodLive, None, Running, Terminating, Terminal, Gone
<1>6. op = "create" => ~pcache.exists
    BY DEF Decide
<1>7. op = "finalizer" => pcache.exists /\ pcache.del /\ ~pcache.owned
    BY DEF Decide
<1>8. op = "release" => ~PodLive(GetPod) /\ pcache.exists
    BY DEF Decide
<1>9. ~PodLive(GetPod) /\ ~pcache.exists => op = "none"
    BY DEF Decide
<1>10. podcache < Running => op = "none"
    BY <1>4, <1>9 DEF PodLive, Unscheduled, Running, Terminating
<1>11. op \in {"none", "wait", "create", "patch", "delete", "release",
               "finalizer"}
    BY DEF Decide
<1>12. podcache < Running \/ podcache >= Running
    BY <1>3 DEF Running
<1> HIDE DEF op
<1> QED BY <1>1, <1>2, <1>4, <1>5, <1>6, <1>7, <1>8, <1>10, <1>11, <1>12

\* The order and the marks of the versions survive every step.
LEMMA ChainStep ==
    ASSUME TypeOK, Sorted, Existence, Marks, MaxFailovers = 0, [Next]_vars
    PROVE  Sorted' /\ Marks'
<1>1. CASE UNCHANGED <<obj, pcache>>
    BY <1>1 DEF Sorted, Marks, Chain, obj
<1>2. CASE Updates
    BY <1>2, UpdateFacts
<1>3. CASE Creates
    BY <1>3, CreateFacts
<1>4. CASE Removes
    BY <1>4, RemoveFacts
<1>5. CASE DeliverPodIOLimit
    BY <1>5, DeliverChain DEF Marks
<1> QED BY <1>1, <1>2, <1>3, <1>4, <1>5, StepShape

\* Where the reconcile in progress may have come from.
LEMMA OpFacts ==
    ASSUME TypeOK, PodSeen, ~Reused, MaxFailovers = 0, [Next]_vars
    PROVE  /\ ctl'.op = "create" =>
                \/ ctl.op = "create"
                \/ ~pcache.exists /\ UNCHANGED <<obj, pcache>>
           /\ ctl'.op = "release" =>
                \/ ctl.op = "release" /\ ctl' = ctl
                \/ Start
           /\ ctl'.op = "finalizer" =>
                \/ ctl.op = "finalizer" /\ ctl' = ctl
                \/ Start
                \/ ReleaseDirect
<1>1. Idle.op = "idle"
    BY DEF Idle
<1>2. ctl \in Reconcile
    BY DEF TypeOK, Reconcile
<1>3. ReleaseDirect => ctl'.op = "finalizer"
    BY <1>2 DEF ReleaseDirect, Reconcile
<1>4. pcache \in Chain
    BY ChainTypes
<1>5. Start /\ ctl'.op = "create" => ~pcache.exists /\ UNCHANGED <<obj, pcache>>
    BY <1>4, StartFacts
<1> QED BY <1>1, <1>3, <1>5, StepShape

\* No creation meets a removal under way.
LEMMA ExistenceStep ==
    ASSUME TypeOK, Sorted, Existence, Marks, PodSeen, ~Reused,
           MaxFailovers = 0, [Next]_vars
    PROVE  Existence'
<1>1. CASE UNCHANGED <<obj, pcache>>
    BY <1>1, OpFacts DEF Existence, ExistsUp, ExistsDown, Chain, obj
<1>2. CASE Updates
  <2>1. /\ pcache' = pcache
        /\ ExistsUp => ExistsUp'
        /\ ExistsDown => ExistsDown'
      BY <1>2, UpdateFacts
  <2>2. ~UNCHANGED obj
      BY <1>2, PublishFacts, ChainTypes DEF Updates, obj
  <2> QED BY <2>1, <2>2, OpFacts DEF Existence
<1>3. CASE Creates
    BY <1>3, CreateFacts DEF Existence, Idle
<1>4. CASE Removes
    BY <1>4, RemoveFacts DEF Existence, Idle
<1>5. CASE DeliverPodIOLimit
  <2>1. /\ Chain' \subseteq Chain /\ pcache' \in Chain'
        /\ \A v \in Chain' : pcache'.rv <= v.rv
      BY <1>5, DeliverChain DEF Chain
  <2>2. ctl' = ctl
      BY <1>5 DEF DeliverPodIOLimit
  <2>3. ExistsUp => ExistsUp'
      BY <2>1 DEF ExistsUp
  <2>4. ExistsDown => ExistsDown'
      BY <2>1 DEF ExistsDown
  <2>5. ExistsUp' /\ pcache'.exists => ExistsDown'
      BY <2>1 DEF ExistsUp, ExistsDown
  <2>6. ExistsDown' /\ ~pcache'.exists => ExistsUp'
      BY <2>1 DEF ExistsUp, ExistsDown
  <2> QED BY <2>2, <2>3, <2>4, <2>5, <2>6 DEF Existence
<1> QED BY <1>1, <1>2, <1>3, <1>4, <1>5, StepShape

\* Nothing happens before the pod is seen running.
LEMMA PodSeenStep ==
    ASSUME TypeOK, Sorted, Existence, Marks, PodSeen, ~Reused,
           MaxFailovers = 0, [Next]_vars
    PROVE  PodSeen'
<1>t. /\ pod \in Nat /\ podcache \in Nat /\ pod' \in Nat /\ podcache' \in Nat
      /\ pod >= Unscheduled
    BY TypeStep, PodControllerAssumption
       DEF TypeOK, None, Unscheduled, Gone
<1>m. /\ podcache <= podcache' /\ podcache' <= pod' /\ podcache' # Previous
      /\ podcache' = podcache \/ podcache' >= Unscheduled
  <2>1. CASE UNCHANGED <<pod, podcache>>
      BY <1>t, <2>1 DEF PodSeen
  <2>2. CASE DeliverPod
      BY <1>t, <2>2 DEF DeliverPod, PodSeen, None, Previous, Unscheduled
  <2>3. CASE PodMoves
      BY <1>t, <2>3 DEF PodMoves, PodSeen, Unscheduled
  <2> QED BY <2>1, <2>2, <2>3, NoFailover
             DEF Next, vars, DeliverLimiter, EditLimiter, DeliverPodIOLimit,
                 BindVolume, Controller, Start, Create, Patch, Delete,
                 ReleaseDirect, RemoveFinalizer, WriteFails, AgentRecords,
                 AgentReleases, OthersDelete, pods
<1>c. pil \in Chain /\ pcache \in Chain
    BY ChainEnds
<1>1. podcache' < Running =>
        ctl'.op = "idle" /\ \A v \in Chain' : ~v.exists
  <2> SUFFICES ASSUME podcache' < Running
               PROVE  ctl'.op = "idle" /\ \A v \in Chain' : ~v.exists
      OBVIOUS
  <2>1. podcache < Running
      BY <1>t, <1>m DEF Running
  <2>2. ctl.op = "idle" /\ \A v \in Chain : ~v.exists
      BY <2>1 DEF PodSeen
  <2>3. ~Updates /\ ~Creates /\ ~Removes
      BY <1>c, <2>2 DEF Updates, Creates, Removes
  <2>4. \A v \in Chain' : ~v.exists
    <3>1. CASE UNCHANGED <<obj, pcache>>
        BY <2>2, <3>1 DEF Chain, obj
    <3>2. CASE DeliverPodIOLimit
        BY <2>2, <3>2, DeliverChain
    <3> QED BY <2>3, <3>1, <3>2, StepShape
  <2>5. ctl'.op = "idle"
    <3>1. ~ReleaseDirect
        BY <2>2 DEF ReleaseDirect
    <3>2. Start => ctl'.op = "idle"
        BY <1>c, <2>1, StartFacts
    <3> QED BY <2>2, <3>1, <3>2, StepShape DEF Idle
  <2> QED BY <2>4, <2>5
<1>2. podcache' = None => ~queued' /\ pnews' = << >>
  <2> SUFFICES ASSUME podcache' = None PROVE ~queued' /\ pnews' = << >>
      OBVIOUS
  <2>1. podcache = None
      BY <1>m DEF None, Unscheduled
  <2>2. /\ ~queued /\ pnews = << >> /\ ctl.op = "idle"
        /\ ~pil.exists /\ ~pcache.exists
      BY <1>c, <2>1 DEF PodSeen, None, Running
  <2>3. ~DeliverPodIOLimit /\ ~DeliverPod
    <3>1. ~DeliverPodIOLimit
        BY <2>2 DEF DeliverPodIOLimit
    <3>2. ~DeliverPod
        BY <2>1 DEF DeliverPod, None, Previous, Unscheduled
    <3> QED BY <3>1, <3>2
  <2>4. UNCHANGED obj /\ ~queued'
    <3>1. ASSUME NEW l \in Limiters, DeliverLimiter(l) \/ EditLimiter(l)
          PROVE  UNCHANGED obj /\ ~queued'
      <4>1. CASE EditLimiter(l)
          BY <2>2, <4>1 DEF EditLimiter
      <4>2. CASE DeliverLimiter(l)
        <5>1. \A x : ~MapsToPod(l, x)
            BY <2>1, <2>2 DEF MapsToPod
        <5>2. PICK i \in 1..Len(lnews[l]) :
                queued' = (queued \/ MapsToPod(l, lcache[l])
                                  \/ MapsToPod(l, lnews[l][i]))
            BY <4>2, Zenon DEF DeliverLimiter
        <5>3. ~queued'
            BY <2>2, <5>1, <5>2, Zenon
        <5> QED BY <4>2, <5>3 DEF DeliverLimiter
      <4> QED BY <3>1, <4>1, <4>2
    <3>2. CASE BindVolume
      <4>1. podcache \in {None, Gone}
          BY <2>1
      <4>2. queued' = (queued \/ podcache \notin {None, Gone})
          BY <3>2, Zenon DEF BindVolume
      <4>3. ~queued'
          BY <2>2, <4>1, <4>2, Zenon
      <4> QED BY <3>2, <4>3 DEF BindVolume
    <3>0. CASE PodMoves \/ UNCHANGED vars
        BY <2>2, <3>0 DEF PodMoves, vars, obj
    <3>3. ~Controller /\ ~WriteFails
        BY <2>2 DEF Controller, Start, Create, Patch, Delete, ReleaseDirect,
                    RemoveFinalizer, WriteFails
    <3>4. ~AgentRecords /\ ~AgentReleases /\ ~OthersDelete
        BY <2>2 DEF AgentRecords, AgentReleases, OthersDelete
    <3> QED BY <2>3, <3>0, <3>1, <3>2, <3>3, <3>4, NoFailover DEF Next
  <2> QED BY <2>2, <2>4 DEF obj
<1> QED BY <1>m, <1>1, <1>2 DEF PodSeen

\* What the reconciler knew when it chose to let the object go stays true.
LEMMA ReleasingStep ==
    ASSUME TypeOK, HandshakeInv, ~Reused, MaxFailovers = 0, [Next]_vars
    PROVE  Releasing'
<1> USE DEF HandshakeInv
<1>t. /\ podcache \in Nat /\ podcache' \in Nat /\ podcache <= podcache'
  <2>1. podcache \in Nat /\ podcache' \in Nat
      BY TypeStep, PodControllerAssumption DEF TypeOK, None, Unscheduled, Gone
  <2>2. podcache' = podcache \/ DeliverPod
      BY NoFailover DEF Next, vars, DeliverLimiter, EditLimiter, DeliverPodIOLimit,
             BindVolume, Controller, Start, Create, Patch, Delete,
             ReleaseDirect, RemoveFinalizer, WriteFails, AgentRecords,
             AgentReleases, OthersDelete, PodMoves, pods
  <2> QED BY <2>1, <2>2 DEF DeliverPod, PodSeen
<1>e. podcache >= Terminal => podcache' >= Terminal
    BY <1>t DEF Terminal
<1>c. /\ pil \in Chain /\ pcache \in Chain
      /\ \A v \in Chain : pcache.rv <= v.rv /\ v.rv <= pil.rv
    BY ChainEnds
<1>o. ctl'.op \in {"release", "finalizer"} => ~Creates /\ ~Removes
    BY CreateFacts, RemoveFacts DEF Idle
<1>d. ASSUME ~Creates, ~Removes, pil.exists => pil.del
      PROVE  pil'.exists => pil'.del
  <2>1. CASE UNCHANGED <<obj, pcache>>
      BY <1>d, <2>1 DEF obj
  <2>2. CASE Updates
      BY <1>d, <2>2, UpdateFacts
  <2>3. CASE DeliverPodIOLimit
      BY <1>d, <2>3 DEF DeliverPodIOLimit
  <2> QED BY <1>d, <2>1, <2>2, <2>3, StepShape
<1>a. ASSUME ~Creates, ~Removes, \A v \in Chain : v.exists => v.del /\ ~v.owned
      PROVE  \A v \in Chain' : v.exists => v.del /\ ~v.owned
  <2>1. CASE UNCHANGED <<obj, pcache>>
      BY <1>a, <2>1 DEF obj, Chain
  <2>2. CASE Updates
      BY <1>a, <1>c, <2>2, UpdateFacts
  <2>3. CASE DeliverPodIOLimit
      BY <1>a, <2>3, DeliverChain
  <2> QED BY <1>a, <2>1, <2>2, <2>3, StepShape
<1>s. ASSUME Start
      PROVE  /\ UNCHANGED <<obj, pcache, pods>> /\ pil' = pil /\ podcache' = podcache
             /\ Chain' = Chain
             /\ ctl'.op = "release" => podcache >= Terminal /\ ctl'.copy = pcache
             /\ ctl'.op = "finalizer" =>
                  pcache.exists /\ pcache.del /\ ~pcache.owned
    BY <1>s, <1>c, StartFacts DEF obj, pods, Chain
<1>1. ASSUME ctl'.op = "release"
      PROVE  podcache' >= Terminal /\ (ctl'.copy.del /\ pil'.exists => pil'.del)
  <2>1. CASE ctl.op = "release" /\ ctl' = ctl
      BY <1>1, <1>d, <1>e, <1>o, <2>1 DEF Releasing
  <2>2. CASE Start
    <3>1. podcache >= Terminal /\ ctl'.copy = pcache /\ pil' = pil
        BY <1>1, <1>s, <2>2
    <3>2. ASSUME pcache.del, pil.exists PROVE pil.del
      <4>1. CASE pcache.exists
          BY <1>c, <3>2, <4>1 DEF Marks
      <4>2. CASE ~pcache.exists
        <5>1. ctl'.op # "release"
            BY <2>2, <4>2 DEF Start, Decide, Idle
        <5> QED BY <1>1, <5>1
      <4> QED BY <4>1, <4>2
    <3> QED BY <1>e, <3>1, <3>2
  <2> QED BY <1>1, <2>1, <2>2, OpFacts
<1>2. ASSUME ctl'.op = "finalizer"
      PROVE  /\ pil'.exists => pil'.del
             /\ \/ podcache' >= Terminal
                \/ \A v \in Chain' : v.exists => v.del /\ ~v.owned
  <2>1. CASE ctl.op = "finalizer" /\ ctl' = ctl
      BY <1>2, <1>a, <1>d, <1>e, <1>o, <2>1 DEF Releasing
  <2>2. CASE Start
    <3>1. pcache.exists /\ pcache.del /\ ~pcache.owned
        BY <1>2, <1>s, <2>2
    <3>2. \A v \in Chain : v.exists => v.del /\ ~v.owned
        BY <1>c, <3>1 DEF Marks
    <3> QED BY <1>c, <1>s, <2>2, <3>2
  <2>3. CASE ReleaseDirect
    <3>1. podcache >= Terminal /\ (ctl.copy.del /\ pil.exists => pil.del)
        BY <2>3 DEF ReleaseDirect, Releasing
    <3>2. pil'.exists => pil'.del
      <4>1. CASE ctl.copy.del \/ ~pil.exists \/ pil.del
          BY <1>2, <1>d, <1>o, <3>1, <4>1
      <4>2. CASE ~ctl.copy.del /\ pil.exists /\ ~pil.del
        <5>1. Publish([pil EXCEPT !.del = TRUE])
            BY <2>3, <4>2 DEF ReleaseDirect, DeleteAtServer
        <5>2. LET o == [pil EXCEPT !.del = TRUE] IN o \in PodIOLimit /\ o.del
            BY DEF TypeOK, PodIOLimit
        <5> QED BY <5>1, <5>2, PublishFacts
      <4> QED BY <4>1, <4>2
    <3> QED BY <1>e, <3>1, <3>2
  <2> QED BY <1>2, <2>1, <2>2, <2>3, OpFacts
<1> QED BY <1>1, <1>2 DEF Releasing

\* The invariant holds in every reachable state.
LEMMA HandshakeAlways ==
    ASSUME ~Reused, MaxFailovers = 0
    PROVE  Spec => [](TypeOK /\ HandshakeInv)
<1>1. Init => HandshakeInv
  <2> SUFFICES ASSUME Init PROVE HandshakeInv
      OBVIOUS
  <2>1. /\ Chain = {NoObject} /\ pnews = << >> /\ pil = NoObject
        /\ pcache = NoObject /\ ctl.op = "idle" /\ ~queued
        /\ podcache = None /\ pod = Unscheduled
      BY DEF Init, Chain, Idle
  <2>2. ~NoObject.exists /\ NoObject.rv = 0
      BY DEF NoObject
  <2> QED BY <2>1, <2>2
             DEF HandshakeInv, Sorted, Existence, ExistsUp, ExistsDown, Marks,
                 PodSeen, Releasing, None, Previous, Unscheduled, Running
<1>2. TypeOK /\ HandshakeInv /\ [Next]_vars => HandshakeInv'
    BY ChainStep, ExistenceStep, PodSeenStep, ReleasingStep DEF HandshakeInv
<1> QED BY <1>1, <1>2, TypeCorrect, PTL DEF Spec

\* What a removal finds: a deleted object, whose record is empty unless the
\* pod is over.
LEMMA RemovalAllowed ==
    ASSUME TypeOK, HandshakeInv, Removes
    PROVE  pil.exists /\ pil.del /\ (~pil.owned \/ pod >= Terminal)
<1>1. /\ pcache = pil /\ pil \in Chain /\ pcache.exists
      /\ ctl.op = "finalizer"
    BY RemoveFacts DEF HandshakeInv
<1>2. podcache <= pod /\ podcache \in Nat /\ pod \in Nat
    BY PodControllerAssumption
       DEF HandshakeInv, PodSeen, TypeOK, None, Unscheduled, Gone
<1>3. podcache >= Terminal => pod >= Terminal
    BY <1>2 DEF Terminal
<1> QED BY <1>1, <1>3 DEF HandshakeInv, Releasing

\* D9: where no earlier pod had the same name and the leader stays the same,
\* the finalizer of a running pod's object goes only when its record is empty,
\* though the reconciler read the record from a cache, before a write that may
\* have failed or been retried.  Both premises are needed: the run with a
\* reused name and a change of leader violates it.
THEOREM RecordRespected ==
    ASSUME ~Reused, MaxFailovers = 0
    PROVE  Spec => NoRuleAbandoned
<1>1. TypeOK /\ HandshakeInv /\ [Next]_vars =>
        (pil.exists /\ ~pil'.exists /\ pil.owned => pod >= Terminal)
  <2> SUFFICES ASSUME TypeOK, HandshakeInv, [Next]_vars,
                      pil.exists, ~pil'.exists, pil.owned
               PROVE  pod >= Terminal
      OBVIOUS
  <2>1. ~UNCHANGED <<obj, pcache>> /\ ~DeliverPodIOLimit
      BY DEF obj, DeliverPodIOLimit
  <2>2. ~Updates /\ ~Creates
      BY UpdateFacts, CreateFacts DEF HandshakeInv
  <2> QED BY <2>1, <2>2, StepShape, RemovalAllowed
<1> QED BY <1>1, HandshakeAlways, PTL DEF NoRuleAbandoned, Spec

\* D9: where no earlier pod had the same name and the leader stays the same,
\* the controller implements its party of the handshake.
THEOREM ImplementsHandshake ==
    ASSUME ~Reused, MaxFailovers = 0
    PROVE  Spec => KeepsHandshake
<1>1. Init => H!Init
    BY DEF Init, H!Init, NoObject, Unscheduled, Terminal
<1>2. ASSUME TypeOK, HandshakeInv, [Next]_vars
      PROVE  [H!Next]_(H!vars)
  <2>t. /\ pil.exists \in BOOLEAN /\ pil.del \in BOOLEAN /\ pil.owned \in BOOLEAN
        /\ pil'.exists \in BOOLEAN /\ pil'.del \in BOOLEAN
        /\ pil'.owned \in BOOLEAN
      BY <1>2, TypeStep DEF TypeOK, PodIOLimit
  <2>l. pod \in Nat /\ pod' \in Nat
      BY <1>2, TypeStep, PodControllerAssumption DEF TypeOK, Unscheduled, Gone
  <2>1. CASE pil' = pil
    <3>1. pod' = pod \/ PodMoves
        BY <1>2, NoFailover DEF Next, vars, DeliverLimiter, EditLimiter, DeliverPodIOLimit,
               DeliverPod, BindVolume, Controller, Start, Create, Patch,
               Delete, ReleaseDirect, RemoveFinalizer, WriteFails,
               AgentRecords, AgentReleases, OthersDelete, pods
    <3>2. CASE pod' = pod
        BY <2>1, <3>2 DEF H!vars
    <3>3. CASE PodMoves
      <4>1. pod' < Terminal => pod < Terminal
          BY <2>l, <3>3 DEF PodMoves, Terminal
      <4>2. CASE (pod < Terminal) <=> (pod' < Terminal)
          BY <2>1, <4>2 DEF H!vars
      <4>3. CASE pod < Terminal /\ ~(pod' < Terminal)
          BY <2>1, <4>3 DEF H!Next, H!PodEnds
      <4> QED BY <4>1, <4>2, <4>3
    <3> QED BY <3>1, <3>2, <3>3
  <2>2. CASE Updates
    <3>1. /\ pil.exists /\ pil'.exists /\ pod' = pod
          /\ pil.del => pil'.del /\ (~pil.owned => ~pil'.owned)
          /\ pil'.del = pil.del \/ pil'.owned = pil.owned
        BY <1>2, <2>2, UpdateFacts DEF HandshakeInv
    <3>2. CASE pil'.del = pil.del /\ pil'.owned = pil.owned
        BY <2>t, <3>1, <3>2 DEF H!vars
    <3>3. CASE pil'.del = pil.del /\ pil'.owned # pil.owned /\ ~pil.del
        BY <2>t, <3>1, <3>3 DEF H!Next, H!Record
    <3>4. CASE pil'.del = pil.del /\ pil'.owned # pil.owned /\ pil.del
        BY <2>t, <3>1, <3>4 DEF H!Next, H!Release
    <3>5. CASE pil'.del # pil.del
        BY <2>t, <3>1, <3>5 DEF H!Next, H!Delete
    <3> QED BY <2>t, <3>2, <3>3, <3>4, <3>5
  <2>3. CASE Creates
    <3>1. /\ ~pil.exists /\ pil'.exists /\ ~pil'.del /\ ~pil'.owned
          /\ pod' = pod
        BY <1>2, <2>3, CreateFacts DEF HandshakeInv
    <3> QED BY <2>t, <3>1 DEF H!Next, H!Create
  <2>4. CASE Removes
    <3>1. /\ ~pil'.exists /\ ~pil'.del /\ ~pil'.owned /\ pod' = pod
        BY <1>2, <2>4, RemoveFacts DEF HandshakeInv
    <3>2. pil.exists /\ pil.del /\ (~pil.owned \/ ~(pod < Terminal))
        BY <1>2, <2>l, <2>4, RemovalAllowed DEF Terminal
    <3> QED BY <2>t, <3>1, <3>2 DEF H!Next, H!Remove
  <2>5. UNCHANGED <<obj, pcache>> \/ DeliverPodIOLimit => pil' = pil
      BY DEF obj, DeliverPodIOLimit
  <2> QED BY <1>2, <2>1, <2>2, <2>3, <2>4, <2>5, StepShape
<1>3. TypeOK /\ HandshakeInv /\ [Next]_vars => [H!Next]_(H!vars)
    BY <1>2
<1> QED BY <1>1, <1>3, HandshakeAlways, PTL DEF Spec, KeepsHandshake, H!Spec
=============================================================================
