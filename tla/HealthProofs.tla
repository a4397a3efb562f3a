---------------------------- MODULE HealthProofs ----------------------------
(* Proofs about Health, for any objects, resync period and back-off that   *)
(* satisfy HealthAssumption.                                               *)
EXTENDS Health, TLAPS, WellFoundedInduction

----------------------------------------------------------------------------
(* Bounds.                                                                 *)

\* Max and Min of two numbers.
LEMMA TwoNumbers ==
    ASSUME NEW a \in Nat, NEW b \in Nat
    PROVE  /\ Max({a, b}) \in Nat /\ Max({a, b}) >= a /\ Max({a, b}) >= b
           /\ Max({a, b}) \in {a, b}
           /\ Min({a, b}) \in Nat /\ Min({a, b}) <= a /\ Min({a, b}) <= b
           /\ Min({a, b}) \in {a, b}
<1>1. \E x \in {a, b} : \A y \in {a, b} : x >= y
    OBVIOUS
<1>2. \E x \in {a, b} : \A y \in {a, b} : x <= y
    OBVIOUS
<1>3. Max({a, b}) \in {a, b} /\ \A y \in {a, b} : Max({a, b}) >= y
    BY <1>1 DEF Max
<1>4. Min({a, b}) \in {a, b} /\ \A y \in {a, b} : Min({a, b}) <= y
    BY <1>2 DEF Min
<1> QED BY <1>3, <1>4

\* A non-empty set of numbers has a least one, and Min returns it.
LEMMA MinElement ==
    ASSUME NEW S, S \subseteq Nat, S # {}
    PROVE  Min(S) \in S
<1> DEFINE R == {ss \in Nat \X Nat : ss[1] < ss[2]}
<1>1. IsWellFoundedOn(R, Nat)
    BY NatLessThanWellFounded, Zenon DEF OpToRel
<1>2. \E x \in S : \A y \in S : ~(<<y, x>> \in R)
  <2> HIDE DEF R
  <2> QED BY <1>1, WFMin
<1>3. PICK x \in S : \A y \in S : ~(<<y, x>> \in R)
    BY <1>2
<1>4. ASSUME NEW y \in S PROVE x <= y
  <2>1. ~(<<y, x>> \in R)
      BY <1>3
  <2>2. x \in Nat /\ y \in Nat
      OBVIOUS
  <2> QED BY <2>1, <2>2
<1> QED BY <1>4 DEF Min

\* The intervals, in order: what a Result asks for, plus a reconcile, is
\* within the threshold.
LEMMA Intervals ==
    /\ Period \in Nat \ {0} /\ Base \in Nat \ {0} /\ Busy \in Nat
    /\ Max({Period, Base}) \in Nat \ {0} /\ Max({Period, Base}) <= Longest
    /\ Longest \in Nat \ {0} /\ Period + (Period + 9) \div 10 <= Longest
    /\ Base <= Longest /\ Longest + Busy <= Threshold
    /\ (Period + 9) \div 10 \in Nat
    /\ Threshold \in Nat /\ Old = Threshold + 1
    /\ Never \in Nat /\ Longest < Never /\ MaxBackoff < Never
<1>1. /\ Period \in Nat \ {0} /\ Base \in Nat \ {0} /\ Busy \in Nat
      /\ MaxBackoff \in Nat
    BY HealthAssumption
<1>2. (Period + 9) \div 10 \in Nat
    BY <1>1
<1> DEFINE P == Period + (Period + 9) \div 10
<1>3. P \in Nat /\ Period <= P /\ P + Busy <= 3 * Period /\ Base + Busy <= 3 * Period
    BY <1>1, <1>2, HealthAssumption
<1>4. Longest = Max({P, Base})
    BY DEF Longest
<1> HIDE DEF P
<1>5. Longest \in {P, Base} /\ Longest >= P /\ Longest >= Base
    BY <1>1, <1>3, <1>4, TwoNumbers
<1>6. Max({Period, Base}) \in {Period, Base}
    BY <1>1, TwoNumbers
<1>7. Threshold = 3 * Period /\ Old = Threshold + 1
    BY DEF Threshold, Old
<1>8. Longest \in Nat /\ Longest + Busy <= Threshold
    BY <1>1, <1>3, <1>5, <1>7
<1>9. /\ Max({MaxBackoff, Longest}) \in Nat
      /\ Max({MaxBackoff, Longest}) >= MaxBackoff
      /\ Max({MaxBackoff, Longest}) >= Longest
    BY <1>1, <1>8, TwoNumbers
<1>10. Never \in Nat /\ Longest < Never /\ MaxBackoff < Never
    BY <1>1, <1>8, <1>9 DEF Never
<1> QED BY <1>1, <1>2, <1>3, <1>5, <1>6, <1>7, <1>8, <1>10 DEF P

\* F4: a volume that never mounts is polled, and never less often than the
\* period, or the shortest interval if that is longer.
LEMMA PendingBackoffBounds ==
    ASSUME NEW elapsed
    PROVE  PendingBackoff(elapsed) \in 1..Max({Period, Base})
<1> DEFINE ceiling == Max({Period, Base})
           S == {ceiling} \cup {i \in Doublings \cap Base..ceiling : elapsed < 2 * i}
<1>1. PendingBackoff(elapsed) = Min(S)
    BY DEF PendingBackoff
<1>2. ceiling \in Nat \ {0} /\ Base \in Nat \ {0}
    BY Intervals
<1> HIDE DEF ceiling
<1>3. S \subseteq 1..ceiling /\ S # {}
  <2>1. \A i \in Base..ceiling : i \in 1..ceiling
      BY <1>2
  <2>2. ceiling \in 1..ceiling
      BY <1>2
  <2> QED BY <2>1, <2>2
<1> HIDE DEF S
<1>4. Min(S) \in S
  <2>1. S \subseteq Nat
      BY <1>2, <1>3
  <2> QED BY <1>3, <2>1, MinElement
<1> QED BY <1>1, <1>3, <1>4 DEF ceiling

\* What elapsed is counted up to.
LEMMA ElapsedBounds ==
    /\ 0 \in Elapsed /\ Max(Elapsed) \in Elapsed
    /\ \A e \in Elapsed : Min({e + 1, Max(Elapsed)}) \in Elapsed
<1> DEFINE m == 2 * Max({Period, Base})
<1>1. m \in Nat
    BY Intervals
<1>2. Elapsed = 0..m
    BY DEF Elapsed
<1> HIDE DEF m
<1>3. \E x \in Elapsed : \A y \in Elapsed : x >= y
  <2>1. m \in Elapsed /\ \A y \in Elapsed : m >= y
      BY <1>1, <1>2
  <2> QED BY <2>1
<1>4. Max(Elapsed) \in Elapsed
    BY <1>3 DEF Max
<1>5. ASSUME NEW e \in Elapsed PROVE Min({e + 1, Max(Elapsed)}) \in Elapsed
  <2>1. e + 1 \in Nat /\ Max(Elapsed) \in Nat
      BY <1>1, <1>2, <1>4
  <2>2. /\ Min({e + 1, Max(Elapsed)}) \in Nat
        /\ Min({e + 1, Max(Elapsed)}) <= Max(Elapsed)
      BY <2>1, TwoNumbers
  <2> QED BY <1>1, <1>2, <1>4, <2>2
<1> QED BY <1>1, <1>2, <1>4, <1>5

\* An age is capped.
LEMMA OlderBounds ==
    ASSUME NEW a \in 0..Old
    PROVE  Older(a) \in 0..Old /\ Older(a) <= a + 1
    BY Intervals, TwoNumbers DEF Older

\* What Reconcile returns: an object with work left is asked for again within
\* the longest interval, or the longest back-off after an error.
LEMMA ResultsFacts ==
    ASSUME TypeOK, NEW o \in Objects, NEW r \in Results(o)
    PROVE  /\ r.status \in Statuses /\ r.after \in 0..Never /\ r.error \in BOOLEAN
           /\ o \in Cached /\ r.status # "released" =>
                r.after <= IF r.error THEN MaxBackoff ELSE Longest
<1>t. /\ obj[o].status \in Statuses /\ obj[o].fate \in Fates
      /\ fails[o] \in 0..MaxFails
    BY DEF TypeOK
<1>b. Backoff[fails[o]] \in 1..MaxBackoff
    BY <1>t, HealthAssumption
<1>i. /\ Never \in Nat /\ Longest < Never /\ MaxBackoff < Never
      /\ Longest \in Nat \ {0} /\ Base \in Nat /\ Base <= Longest
      /\ MaxBackoff \in Nat
      /\ Max({Period, Base}) \in Nat /\ Max({Period, Base}) <= Longest
      /\ Period \in Nat /\ (Period + 9) \div 10 \in Nat
      /\ Period + (Period + 9) \div 10 <= Longest
    BY Intervals, HealthAssumption
<1> DEFINE same(after) == [status |-> obj[o].status, after |-> after, error |-> FALSE]
           elapsed == IF obj[o].status \in {"none", "applied"} THEN 0 ELSE obj[o].since
           s == CASE obj[o].fate = "waits"   -> "pending"
                  [] obj[o].fate = "applies" -> "applied"
                  [] obj[o].fate = "refused" -> "failed"
<1>p. PendingBackoff(elapsed) \in 1..Max({Period, Base})
    BY PendingBackoffBounds
<1>j. \A t \in JitteredResync : t \in 0..Never /\ t <= Longest
    BY <1>i DEF JitteredResync
<1>1. CASE o \notin Cached
  <2>1. r = same(Never)
      BY <1>1 DEF Results
  <2> QED BY <1>1, <1>t, <1>i, <2>1
<1>2. CASE o \in Cached /\ obj[o].fate = "errs"
  <2>1. r = [same(Backoff[fails[o]]) EXCEPT !.error = TRUE]
      BY <1>2 DEF Results
  <2> QED BY <1>t, <1>i, <1>b, <2>1
<1>3. CASE o \in Cached /\ obj[o].fate # "errs" /\ obj[o].del
  <2>1. Results(o) = IF obj[o].status = "released" THEN {same(Never)}
                     ELSE {[status |-> "released", after |-> Never, error |-> FALSE],
                           same(Base), same(1)}
      BY <1>3, Zenon DEF Results
  <2>2. \/ r = same(Never) /\ obj[o].status = "released"
        \/ r = [status |-> "released", after |-> Never, error |-> FALSE]
        \/ r = same(Base)
        \/ r = same(1)
    <3> HIDE DEF same
    <3> QED BY <2>1
  <2>3. CASE r = same(Never) /\ obj[o].status = "released"
      BY <1>t, <1>i, <2>3
  <2>4. CASE r = [status |-> "released", after |-> Never, error |-> FALSE]
      BY <1>i, <2>4 DEF Statuses
  <2>5. CASE r = same(Base)
      BY <1>t, <1>i, <2>5
  <2>6. CASE r = same(1)
      BY <1>t, <1>i, <2>6
  <2> QED BY <2>2, <2>3, <2>4, <2>5, <2>6
<1>4. CASE o \in Cached /\ obj[o].fate # "errs" /\ ~obj[o].del
  <2>1. s \in {"pending", "applied", "failed"}
      BY <1>4, <1>t DEF Fates
  <2>2. Results(o) =
          {same(1) : x \in {obj[o].status} \ {s}}
          \cup IF s = "pending"
               THEN {[status |-> s, after |-> PendingBackoff(elapsed), error |-> FALSE]}
               ELSE {[status |-> s, after |-> t, error |-> FALSE] : t \in JitteredResync}
      BY <1>4, Zenon DEF Results
  <2>3. \/ r = same(1)
        \/ r = [status |-> s, after |-> PendingBackoff(elapsed), error |-> FALSE]
        \/ \E t \in JitteredResync : r = [status |-> s, after |-> t, error |-> FALSE]
    <3> HIDE DEF same, s, elapsed
    <3> QED BY <2>2
  <2>4. CASE r = same(1)
      BY <1>t, <1>i, <2>4
  <2> HIDE DEF s, elapsed
  <2>5. s \in Statuses
      BY <2>1 DEF Statuses
  <2>6. CASE r = [status |-> s, after |-> PendingBackoff(elapsed), error |-> FALSE]
      BY <1>i, <1>p, <2>5, <2>6
  <2>7. ASSUME NEW t \in JitteredResync,
               r = [status |-> s, after |-> t, error |-> FALSE]
        PROVE  /\ r.status \in Statuses /\ r.after \in 0..Never
               /\ r.error = FALSE /\ r.after <= Longest
      BY <1>j, <2>5, <2>7
  <2> QED BY <2>3, <2>4, <2>6, <2>7
<1> QED BY <1>1, <1>2, <1>3, <1>4

----------------------------------------------------------------------------
(* Types.                                                                  *)

HealthType == [ok : BOOLEAN, check : 0..Old, synced : BOOLEAN, has : BOOLEAN,
               done : 0..Old, lastHas : BOOLEAN]
WorkerType == [key : Objects \cup {"none"}, age : 0..(Busy + 1),
               wedged : BOOLEAN]
ObjectType == [there : BOOLEAN, del : BOOLEAN, fate : Fates,
               status : Statuses, since : Elapsed]

\* The values of a process that has just started, or that is down.
LEMMA ConstantTypes ==
    /\ NewHealth \in HealthType /\ Nothing \in WorkerType
    /\ NoObject \in ObjectType
    /\ [NoObject EXCEPT !.there = TRUE] \in ObjectType
    /\ Never \in 0..Never /\ Period \in 0..Period
<1>1. NewHealth \in HealthType
    BY Intervals DEF NewHealth, HealthType
<1>2. Nothing \in WorkerType
    BY Intervals DEF Nothing, WorkerType
<1>3. /\ NoObject \in ObjectType
      /\ [NoObject EXCEPT !.there = TRUE] \in ObjectType
    BY ElapsedBounds DEF NoObject, ObjectType, Fates, Statuses
<1> QED BY <1>1, <1>2, <1>3, Intervals

\* Every step keeps every variable in its type.
LEMMA TypeStep == TypeOK /\ [Next]_vars => TypeOK'
<1> SUFFICES ASSUME TypeOK, [Next]_vars PROVE TypeOK'
    OBVIOUS
<1>h. health \in HealthType /\ worker \in WorkerType
    BY DEF TypeOK, HealthType, WorkerType
<1>o. \A o \in Objects : obj[o] \in ObjectType /\ timer[o] \in 0..Never
    BY DEF TypeOK, ObjectType
<1>e. Happens => events' \in 0..MaxEvents /\ unlisted' \in BOOLEAN
    BY HealthAssumption DEF Happens, TypeOK
<1>u. UNCHANGED world => /\ obj' = obj /\ host' = host
                         /\ events' = events /\ unlisted' = unlisted
    BY DEF world
<1>w. UNCHANGED work => /\ queue' = queue /\ timer' = timer
                        /\ fails' = fails /\ worker' = worker
    BY DEF work
<1>d. Down => /\ proc' \in {"down", "syncing", "up"} /\ health' \in HealthType
              /\ ticker' \in 0..Period /\ queue' \subseteq Objects
              /\ timer' \in [Objects -> 0..Never]
              /\ fails' \in [Objects -> 0..MaxFails] /\ worker' \in WorkerType
    BY ConstantTypes, HealthAssumption DEF Down
<1>f. CASE UNCHANGED vars
    BY <1>f DEF vars, TypeOK
<1>1. CASE Main
    BY <1>1, <1>u, <1>w, ConstantTypes DEF Main, TypeOK, HealthType
<1>2. CASE CacheSync
    BY <1>2, <1>u DEF CacheSync, TypeOK
<1>3. CASE RecordCacheSynced
  <2>1. health' \in HealthType
      BY <1>3, <1>h DEF RecordCacheSynced, HealthType
  <2> QED BY <1>3, <1>u, <1>w, <2>1 DEF RecordCacheSynced, TypeOK, HealthType
<1>z. 0 \in 0..Old
    BY Intervals
<1>4. CASE SelfCheck
  <2>0. SelfCheckPasses \in BOOLEAN
      BY DEF SelfCheckPasses
  <2>1. health' \in HealthType
      BY <1>4, <1>h, <1>z, <2>0 DEF SelfCheck, HealthType
  <2> QED BY <1>4, <1>u, <1>w, <2>1, ConstantTypes
             DEF SelfCheck, TypeOK, HealthType
<1>5. ASSUME NEW o \in Objects, Fire(o) PROVE TypeOK'
  <2>1. timer' \in [Objects -> 0..Never] /\ queue' \subseteq Objects
      BY <1>5, ConstantTypes DEF Fire, TypeOK
  <2> QED BY <1>5, <1>u, <2>1 DEF Fire, TypeOK
<1>6. ASSUME NEW o \in Objects, Begin(o) PROVE TypeOK'
  <2>1. worker' \in WorkerType /\ queue' \subseteq Objects
      BY <1>6, ConstantTypes DEF Begin, TypeOK, WorkerType
  <2> QED BY <1>6, <1>u, <2>1 DEF Begin, TypeOK, WorkerType
<1>7. ASSUME NEW o \in Objects, Complete(o) PROVE TypeOK'
  <2>1. PICK r \in Results(o) :
        /\ timer' = [timer EXCEPT ![o] = Min({@, r.after})]
        /\ fails' = [fails EXCEPT ![o] =
                        IF r.error THEN Min({@ + 1, MaxFails}) ELSE 0]
        /\ queue' = queue \cup {k \in {o} : r.status # obj[o].status}
        /\ obj' = [obj EXCEPT ![o].status = r.status,
                              ![o].since =
                                 IF obj[o].status \in {"none", "applied"}
                                 THEN 0 ELSE @]
      BY <1>7, Zenon DEF Complete
  <2>2. r.status \in Statuses /\ r.after \in 0..Never
      BY ResultsFacts
  <2>3. timer' \in [Objects -> 0..Never]
    <3>1. Min({timer[o], r.after}) \in 0..Never
        BY <1>o, <2>2, Intervals, TwoNumbers
    <3> QED BY <2>1, <3>1 DEF TypeOK
  <2>4. fails' \in [Objects -> 0..MaxFails]
    <3>1. fails[o] \in 0..MaxFails
        BY DEF TypeOK
    <3>2. fails[o] + 1 \in Nat /\ MaxFails \in Nat
        BY <3>1, HealthAssumption
    <3>3. Min({fails[o] + 1, MaxFails}) \in 0..MaxFails
        BY <3>2, TwoNumbers
    <3> QED BY <2>1, <3>2, <3>3 DEF TypeOK
  <2>5. obj' \in [Objects -> ObjectType]
    <3> DEFINE since == IF obj[o].status \in {"none", "applied"}
                        THEN 0 ELSE obj[o].since
    <3>1. since \in Elapsed
        BY <1>o, ElapsedBounds DEF ObjectType
    <3>2. obj' = [obj EXCEPT ![o] = [obj[o] EXCEPT !.status = r.status,
                                                   !.since = since]]
        BY <1>o, <2>1 DEF TypeOK, ObjectType
    <3> HIDE DEF since
    <3>3. [obj[o] EXCEPT !.status = r.status, !.since = since] \in ObjectType
        BY <1>o, <2>2, <3>1 DEF ObjectType
    <3> QED BY <1>o, <3>2, <3>3 DEF TypeOK, ObjectType
  <2>6. queue' \subseteq Objects
      BY <2>1 DEF TypeOK
  <2>7. health' \in HealthType /\ events' \in 0..MaxEvents /\ unlisted' \in BOOLEAN
    <3>1. PICK listed \in BOOLEAN :
            /\ health' = RecordReconcile(o, listed)
            /\ \/ listed /\ UNCHANGED <<events, unlisted>>
               \/ /\ ~listed /\ events < MaxEvents
                  /\ events' = events + 1 /\ unlisted' = TRUE
        BY <1>7, Zenon DEF Complete
    <3>2. CacheHasObjects(listed) \in BOOLEAN
        BY <1>h DEF CacheHasObjects, HealthType
    <3>3. health' \in HealthType
        BY <1>h, <1>z, <3>1, <3>2 DEF RecordReconcile, HealthType
    <3>4. events' \in 0..MaxEvents /\ unlisted' \in BOOLEAN
      <4>1. CASE UNCHANGED <<events, unlisted>>
          BY <4>1 DEF TypeOK
      <4>2. CASE events < MaxEvents /\ events' = events + 1 /\ unlisted' = TRUE
          BY <4>2, HealthAssumption DEF TypeOK
      <4> QED BY <3>1, <4>1, <4>2
    <3> QED BY <3>3, <3>4
  <2>8. worker' = Nothing /\ UNCHANGED <<proc, ticker, host>>
      BY <1>7 DEF Complete
  <2> QED BY <2>3, <2>4, <2>5, <2>6, <2>7, <2>8, ConstantTypes
             DEF TypeOK, HealthType, WorkerType, ObjectType
<1>8. CASE Probe
    BY <1>8, <1>d, <1>u DEF Probe, TypeOK, HealthType, WorkerType
<1>9. CASE Tick
  <2>1. ticker' \in 0..Period
      BY <1>9, Intervals DEF Tick, TypeOK
  <2>2. timer' \in [Objects -> 0..Never]
    <3>1. \A o \in Objects : timer[o] - 1 \in 0..Never
        BY <1>9, <1>o, Intervals DEF Tick
    <3> QED BY <1>9, <3>1, ConstantTypes DEF Tick
  <2>3. health' \in HealthType
    <3>1. Older(health.check) \in 0..Old /\ Older(health.done) \in 0..Old
        BY <1>h, OlderBounds DEF HealthType
    <3> QED BY <1>9, <1>h, <3>1 DEF Tick, HealthType
  <2>4. worker' \in WorkerType
    <3>1. worker.age + 1 \in Nat /\ Busy + 1 \in Nat
        BY <1>h, Intervals DEF WorkerType
    <3>2. Min({worker.age + 1, Busy + 1}) \in 0..(Busy + 1)
        BY <3>1, TwoNumbers
    <3>3. worker' = [worker EXCEPT !.age = IF worker = Nothing THEN 0
                                          ELSE Min({@ + 1, Busy + 1})]
        BY <1>9 DEF Tick
    <3> QED BY <1>h, <3>1, <3>2, <3>3 DEF WorkerType
  <2>5. obj' \in [Objects -> ObjectType]
    <3>1. \A o \in Objects : Min({obj[o].since + 1, Max(Elapsed)}) \in Elapsed
        BY <1>o, ElapsedBounds DEF ObjectType
    <3>2. obj' = [o \in Objects |-> [obj[o] EXCEPT !.since =
                  IF obj[o].status \in {"pending", "failed"}
                  THEN Min({@ + 1, Max(Elapsed)}) ELSE 0]]
        BY <1>9, Zenon DEF Tick
    <3> QED BY <1>o, <3>1, <3>2, ElapsedBounds DEF ObjectType
  <2>6. UNCHANGED <<proc, queue, fails, host, events, unlisted>>
      BY <1>9 DEF Tick
  <2> QED BY <2>1, <2>2, <2>3, <2>4, <2>5, <2>6
             DEF TypeOK, HealthType, WorkerType, ObjectType
<1>10. CASE Wedge
  <2>1. worker' \in WorkerType
      BY <1>10, <1>h DEF Wedge, WorkerType
  <2> QED BY <1>10, <1>e, <2>1 DEF Wedge, TypeOK, WorkerType
<1>11. CASE Crash
    BY <1>11, <1>d, <1>e DEF Crash, TypeOK, HealthType, WorkerType
<1>12. CASE HostTurns
    BY <1>12, <1>e, <1>w DEF HostTurns, TypeOK
<1>c. ASSUME NEW o \in Objects, NEW new \in ObjectType, Change(o, new),
             events' \in 0..MaxEvents, unlisted' \in BOOLEAN
      PROVE  TypeOK'
  <2>1. obj' \in [Objects -> ObjectType]
      BY <1>c DEF Change, TypeOK, ObjectType
  <2>2. queue' \subseteq Objects
      BY <1>c DEF Change, TypeOK
  <2> QED BY <1>c, <2>1, <2>2 DEF Change, TypeOK, ObjectType
<1>13. ASSUME NEW o \in Objects, CreateObject(o) PROVE TypeOK'
    BY <1>13, <1>c, <1>e, ConstantTypes DEF CreateObject
<1>14. ASSUME NEW o \in Objects, DeleteObject(o) PROVE TypeOK'
  <2>1. [obj[o] EXCEPT !.del = TRUE] \in ObjectType
      BY <1>o DEF ObjectType
  <2> QED BY <1>14, <1>c, <1>e, <2>1 DEF DeleteObject
<1>15. ASSUME NEW o \in Objects, RemoveFinalizer(o) PROVE TypeOK'
  <2>1. events' \in 0..MaxEvents /\ unlisted' \in BOOLEAN
      BY <1>15 DEF RemoveFinalizer, TypeOK
  <2> QED BY <1>15, <1>c, <2>1, ConstantTypes DEF RemoveFinalizer
<1>16. ASSUME NEW o \in Objects, FateTurns(o) PROVE TypeOK'
  <2>1. obj' \in [Objects -> ObjectType]
      BY <1>16, <1>o DEF FateTurns, TypeOK, ObjectType
  <2> QED BY <1>16, <1>e, <1>w, <2>1 DEF FateTurns, TypeOK, ObjectType
<1> QED
    BY <1>f, <1>1, <1>2, <1>3, <1>4, <1>5, <1>6, <1>7, <1>8, <1>9, <1>10,
       <1>11, <1>12, <1>13, <1>14, <1>15, <1>16 DEF Next, Process

\* Every variable keeps its type; in particular no delayed add lies further
\* ahead than the longest interval or back-off, and no reconcile that is not
\* wedged is older than Busy allows the clock to show.
THEOREM TypeCorrect == Spec => []TypeOK
<1>1. ASSUME Init PROVE TypeOK
  <2>1. obj \in [Objects -> ObjectType] /\ timer \in [Objects -> 0..Never]
      BY <1>1, ConstantTypes DEF Init
  <2>2. fails \in [Objects -> 0..MaxFails] /\ events \in 0..MaxEvents
      BY <1>1, HealthAssumption DEF Init
  <2> QED BY <1>1, <2>1, <2>2, ConstantTypes
             DEF Init, TypeOK, ObjectType, HealthType, WorkerType
<1> QED BY <1>1, TypeStep, PTL DEF Spec

----------------------------------------------------------------------------
(* No object is forgotten.                                                 *)

\* What the invariant says of one object.
Kept(o) ==
    \/ o \in queue \/ worker.key = o
    \/ timer[o] <= IF fails[o] = 0 THEN Longest ELSE MaxBackoff

\* A reconcile that returns.
LEMMA CompleteFacts ==
    ASSUME TypeOK, NEW o \in Objects, Complete(o)
    PROVE  \E r \in Results(o) :
            /\ timer'[o] \in Nat /\ timer'[o] <= r.after
            /\ fails'[o] = 0 <=> ~r.error
            /\ \A k \in Objects \ {o} :
                 timer'[k] = timer[k] /\ fails'[k] = fails[k] /\ obj'[k] = obj[k]
            /\ queue \subseteq queue'
            /\ obj'[o].there = obj[o].there /\ obj'[o].status = r.status
            /\ worker.key = o /\ worker # Nothing /\ worker' = Nothing
            /\ proc' = proc /\ health'.done = 0
<1>1. PICK r \in Results(o) :
        /\ timer' = [timer EXCEPT ![o] = Min({@, r.after})]
        /\ fails' = [fails EXCEPT ![o] =
                        IF r.error THEN Min({@ + 1, MaxFails}) ELSE 0]
        /\ queue' = queue \cup {k \in {o} : r.status # obj[o].status}
        /\ obj' = [obj EXCEPT ![o].status = r.status,
                              ![o].since =
                                 IF obj[o].status \in {"none", "applied"}
                                 THEN 0 ELSE @]
    BY Zenon DEF Complete
<1>2. r.after \in Nat /\ r.error \in BOOLEAN
    BY ResultsFacts, Intervals
<1>3. timer'[o] \in Nat /\ timer'[o] <= r.after
  <2>1. timer[o] \in Nat
      BY Intervals DEF TypeOK
  <2>2. timer'[o] = Min({timer[o], r.after})
      BY <1>1 DEF TypeOK
  <2> QED BY <1>2, <2>1, <2>2, TwoNumbers
<1>4. fails'[o] = 0 <=> ~r.error
  <2>1. fails[o] + 1 \in Nat /\ fails[o] + 1 > 0 /\ MaxFails \in Nat /\ MaxFails > 0
      BY HealthAssumption DEF TypeOK
  <2>2. Min({fails[o] + 1, MaxFails}) # 0
      BY <2>1, TwoNumbers
  <2>3. fails'[o] = IF r.error THEN Min({fails[o] + 1, MaxFails}) ELSE 0
      BY <1>1 DEF TypeOK
  <2> QED BY <1>2, <2>2, <2>3
<1>5. \A k \in Objects \ {o} :
        timer'[k] = timer[k] /\ fails'[k] = fails[k] /\ obj'[k] = obj[k]
    BY <1>1 DEF TypeOK
<1>6. obj'[o].there = obj[o].there /\ obj'[o].status = r.status
    BY <1>1 DEF TypeOK
<1>7. queue \subseteq queue'
    BY <1>1
<1>8. worker.key = o /\ worker # Nothing /\ worker' = Nothing /\ proc' = proc
    BY HealthAssumption DEF Complete, Nothing
<1>9. health'.done = 0
    BY DEF Complete, RecordReconcile, TypeOK
<1> QED BY <1>3, <1>4, <1>5, <1>6, <1>7, <1>8, <1>9

\* Every step keeps every object with work left in the queue, in work or on
\* a timer.
LEMMA ForgottenStep == TypeOK /\ NeverForgotten /\ [Next]_vars => NeverForgotten'
<1> SUFFICES ASSUME TypeOK, NeverForgotten, [Next]_vars,
                    NEW o \in Cached', obj'[o].status # "released"
             PROVE  Kept(o)'
    BY DEF NeverForgotten, Kept
<1>o. o \in Objects /\ proc' = "up" /\ obj'[o].there
    BY DEF Cached
<1>k. o \in Cached /\ obj[o].status # "released" => Kept(o)
    BY DEF NeverForgotten, Kept
<1>i. /\ Longest \in Nat /\ MaxBackoff \in Nat /\ Never \in Nat
      /\ Longest < Never /\ MaxBackoff < Never
      /\ timer[o] \in 0..Never
    BY <1>o, Intervals, HealthAssumption DEF TypeOK
\* Steps that leave the object, the worker and the timers alone and only add
\* to the queue.
<1>s. ASSUME proc' = proc, obj'[o].there = obj[o].there,
             obj'[o].status = obj[o].status, queue \subseteq queue',
             timer'[o] = timer[o], fails' = fails,
             worker'.key = worker.key
      PROVE  Kept(o)'
  <2>1. Kept(o)
      BY <1>s, <1>o, <1>k DEF Cached
  <2> QED BY <1>s, <2>1 DEF Kept
<1>q. o \in queue' => Kept(o)'
    BY DEF Kept
<1>f. CASE UNCHANGED vars
    BY <1>f, <1>s DEF vars
<1>1. CASE Main \/ Probe \/ Crash
    BY <1>1, <1>o DEF Main, Probe, Crash, Down
<1>2. CASE CacheSync
    BY <1>2, <1>o, <1>q DEF CacheSync, world
<1>3. CASE RecordCacheSynced \/ SelfCheck \/ HostTurns
    BY <1>3, <1>s DEF RecordCacheSynced, SelfCheck, HostTurns, work, world
<1>4. ASSUME NEW k \in Objects, Fire(k) PROVE Kept(o)'
  <2>1. CASE k = o
      BY <1>4, <1>q, <2>1 DEF Fire
  <2>2. CASE k # o
    <3>1. timer'[o] = timer[o]
        BY <1>4, <1>o, <2>2 DEF Fire, TypeOK
    <3> QED BY <1>4, <1>s, <3>1 DEF Fire, world
  <2> QED BY <2>1, <2>2
<1>5. ASSUME NEW k \in Objects, Begin(k) PROVE Kept(o)'
  <2>1. worker'.key = k
      BY <1>5 DEF Begin, Nothing
  <2>2. /\ timer' = timer /\ fails' = fails /\ proc' = proc /\ obj' = obj
        /\ queue' = queue \ {k} /\ worker = Nothing
      BY <1>5 DEF Begin, world
  <2>3. Kept(o) /\ worker.key # o
      BY <1>o, <1>k, <2>2, HealthAssumption DEF Cached, Nothing
  <2> QED BY <2>1, <2>2, <2>3 DEF Kept
<1>6. ASSUME NEW k \in Objects, Complete(k) PROVE Kept(o)'
  <2>1. PICK r \in Results(k) :
            /\ timer'[k] \in Nat /\ timer'[k] <= r.after
            /\ fails'[k] = 0 <=> ~r.error
            /\ \A j \in Objects \ {k} :
                 timer'[j] = timer[j] /\ fails'[j] = fails[j] /\ obj'[j] = obj[j]
            /\ queue \subseteq queue'
            /\ obj'[k].there = obj[k].there /\ obj'[k].status = r.status
            /\ worker.key = k /\ proc' = proc
      BY <1>6, CompleteFacts
  <2>2. CASE k # o
    <3>1. Kept(o)
        BY <1>o, <1>k, <2>1, <2>2 DEF Cached
    <3> QED BY <1>o, <2>1, <2>2, <3>1 DEF Kept
  <2>3. CASE k = o
    <3>1. /\ r.after \in 0..Never /\ r.error \in BOOLEAN
          /\ r.after <= IF r.error THEN MaxBackoff ELSE Longest
        BY <1>o, <2>1, <2>3, ResultsFacts DEF Cached
    <3>2. timer'[o] <= IF fails'[o] = 0 THEN Longest ELSE MaxBackoff
        BY <1>i, <2>1, <2>3, <3>1
    <3> QED BY <3>2 DEF Kept
  <2> QED BY <2>2, <2>3
<1>7. CASE Tick
  <2>1. /\ proc' = proc /\ queue' = queue /\ fails' = fails
        /\ timer'[o] = IF timer[o] = Never THEN Never ELSE timer[o] - 1
        /\ timer[o] > 0
      BY <1>7, <1>o DEF Tick
  <2>2. worker'.key = worker.key
      BY <1>7 DEF Tick, TypeOK
  <2>3. obj'[o].there = obj[o].there /\ obj'[o].status = obj[o].status
      BY <1>7, <1>o DEF Tick, TypeOK
  <2>4. Kept(o)
      BY <1>o, <1>k, <2>1, <2>3 DEF Cached
  <2>5. ASSUME NEW b \in {Longest, MaxBackoff}, timer[o] <= b
        PROVE  timer'[o] <= b
      BY <1>i, <2>1, <2>5
  <2> QED BY <2>1, <2>2, <2>4, <2>5 DEF Kept
<1>8. CASE Wedge
    BY <1>8, <1>s DEF Wedge, TypeOK
<1>9. ASSUME NEW k \in Objects,
             CreateObject(k) \/ DeleteObject(k) \/ RemoveFinalizer(k)
      PROVE  Kept(o)'
  <2>1. PICK new : Change(k, new)
      BY <1>9 DEF CreateObject, DeleteObject, RemoveFinalizer
  <2>2. CASE k = o
      BY <1>o, <1>q, <2>1, <2>2 DEF Change
  <2>3. CASE k # o
    <3>1. obj'[o] = obj[o]
        BY <1>o, <2>1, <2>3 DEF Change, TypeOK
    <3> QED BY <1>s, <2>1, <3>1 DEF Change
  <2> QED BY <2>2, <2>3
<1>10. ASSUME NEW k \in Objects, FateTurns(k) PROVE Kept(o)'
  <2>1. obj'[o].there = obj[o].there /\ obj'[o].status = obj[o].status
      BY <1>10, <1>o DEF FateTurns, TypeOK
  <2> QED BY <1>10, <1>s, <2>1 DEF FateTurns, work
<1> QED
    BY <1>f, <1>1, <1>2, <1>3, <1>4, <1>5, <1>6, <1>7, <1>8, <1>9, <1>10
       DEF Next, Process

\* D11, F4: no object the agent still has work for is forgotten, however
\* events, restarts, conflicts and timers interleave, whatever the back-off.
THEOREM NothingForgotten == Spec => []NeverForgotten
<1>1. Init => NeverForgotten
    BY DEF Init, NeverForgotten, Cached
<1> QED BY <1>1, ForgottenStep, TypeCorrect, PTL DEF Spec

----------------------------------------------------------------------------
(* No false alarm.  The age of the last reconcile is bounded by what the   *)
(* timer of any object that is not excused, and then the reconcile of      *)
(* whichever key is taken first, still allow.                              *)

\* While an object that is not excused is on record, the last completed
\* reconcile is not older than the longest interval, less what is left of the
\* object's own, plus the age of the reconcile in progress.
TimelyFor(o) ==
    \/ worker # Nothing /\ (worker.age <= Busy => health.done <= Longest + worker.age)
    \/ worker = Nothing /\ queue # {} /\ health.done <= Longest
    \/ worker = Nothing /\ queue = {} /\ timer[o] + health.done <= Longest
Timely == \A o \in Cached : health.has /\ ~Excused(o) => TimelyFor(o)

\* Objects are on record only in a process that is up, and when the last one
\* goes the reconcile that will notice is due.
Recorded ==
    /\ proc # "up" => worker = Nothing /\ ~health.has
    /\ ~unlisted /\ health.has /\ Cached = {} => queue # {} \/ worker # Nothing

\* Whatever case an object is in, some reconcile is not long ago.
LEMMA TimelyBound ==
    ASSUME TypeOK, NEW o \in Objects, TimelyFor(o), worker = Nothing
    PROVE  health.done <= Longest
<1>1. timer[o] \in Nat /\ health.done \in Nat /\ Longest \in Nat
    BY Intervals DEF TypeOK
<1> QED BY <1>1 DEF TimelyFor

\* Every step keeps the ages in bounds.
LEMMA TimelyStep ==
    TypeOK /\ NeverForgotten /\ Timely /\ Recorded /\ [Next]_vars => Timely'
<1> SUFFICES ASSUME TypeOK, NeverForgotten, Timely, Recorded, [Next]_vars,
                    NEW o \in Cached', health'.has, ~Excused(o)'
             PROVE  TimelyFor(o)'
    BY DEF Timely
<1>o. o \in Objects /\ proc' = "up" /\ obj'[o].there
    BY DEF Cached
<1>x. obj'[o].status \notin {"none", "released"} /\ ~(fails'[o] > 0)
    BY DEF Excused
<1>i. /\ Longest \in Nat /\ Never \in Nat /\ Longest < Never /\ Busy \in Nat
      /\ timer[o] \in Nat /\ fails'[o] \in Nat /\ health.done \in Nat
      /\ worker.age \in Nat
  <2>1. TypeOK'
      BY TypeStep
  <2> QED BY <1>o, <2>1, Intervals, HealthAssumption DEF TypeOK
\* Steps that leave the record and the object as they are.
<1>s. ASSUME proc' = proc, health'.has = health.has,
             obj'[o].there = obj[o].there, obj'[o].status = obj[o].status,
             fails' = fails
      PROVE  TimelyFor(o)
  <2>1. o \in Cached /\ ~Excused(o)
      BY <1>s, <1>o, <1>x DEF Cached, Excused
  <2> QED BY <1>s, <2>1 DEF Timely
\* ... and only add to the queue.
<1>q. ASSUME proc' = proc, health'.has = health.has,
             obj'[o].there = obj[o].there, obj'[o].status = obj[o].status,
             fails' = fails, health'.done = health.done, timer'[o] = timer[o],
             queue \subseteq queue', worker' = worker
      PROVE  TimelyFor(o)'
  <2>1. TimelyFor(o)
      BY <1>q, <1>s
  <2>2. CASE worker # Nothing
      BY <1>q, <2>1, <2>2 DEF TimelyFor
  <2>3. CASE worker = Nothing /\ queue' = {}
      BY <1>q, <2>1, <2>3 DEF TimelyFor
  <2>4. CASE worker = Nothing /\ queue' # {}
    <3>1. health.done <= Longest
        BY <1>o, <2>1, <2>4, TimelyBound
    <3> QED BY <1>q, <2>4, <3>1 DEF TimelyFor
  <2> QED BY <2>2, <2>3, <2>4
<1>f. CASE UNCHANGED vars
    BY <1>f, <1>q DEF vars
<1>1. CASE Main \/ Probe \/ Crash
    BY <1>1, <1>o DEF Main, Probe, Crash, Down
<1>2. CASE CacheSync
    BY <1>2 DEF CacheSync, Recorded
<1>3. CASE RecordCacheSynced \/ SelfCheck \/ HostTurns
  <2>1. health'.has = health.has /\ health'.done = health.done
      BY <1>3 DEF RecordCacheSynced, SelfCheck, HostTurns, TypeOK
  <2> QED BY <1>3, <1>q, <2>1
             DEF RecordCacheSynced, SelfCheck, HostTurns, work, world
<1>4. ASSUME NEW k \in Objects, Fire(k) PROVE TimelyFor(o)'
  <2>1. /\ queue' = queue \cup {k} /\ worker' = worker /\ health' = health
        /\ proc' = proc /\ obj' = obj /\ fails' = fails
      BY <1>4 DEF Fire, world
  <2>2. TimelyFor(o)
      BY <1>s, <2>1
  <2>3. CASE worker # Nothing
      BY <2>1, <2>2, <2>3 DEF TimelyFor
  <2>4. CASE worker = Nothing
    <3>1. health.done <= Longest
        BY <1>o, <2>2, <2>4, TimelyBound
    <3> QED BY <2>1, <2>4, <3>1 DEF TimelyFor
  <2> QED BY <2>3, <2>4
<1>5. ASSUME NEW k \in Objects, Begin(k) PROVE TimelyFor(o)'
  <2>1. /\ worker = Nothing /\ health' = health
        /\ proc' = proc /\ obj' = obj /\ fails' = fails
      BY <1>5 DEF Begin, world
  <2>2. worker'.age = 0 /\ worker' # Nothing
      BY <1>5, HealthAssumption DEF Begin, Nothing
  <2>3. health.done <= Longest
      BY <1>o, <1>s, <2>1, TimelyBound
  <2> QED BY <1>i, <2>1, <2>2, <2>3 DEF TimelyFor
<1>6. ASSUME NEW k \in Objects, Complete(k) PROVE TimelyFor(o)'
  <2>1. worker' = Nothing /\ health'.done = 0
      BY <1>6, CompleteFacts
  <2>2. CASE queue' # {}
      BY <1>i, <2>1, <2>2 DEF TimelyFor
  <2>3. CASE queue' = {}
    <3>1. NeverForgotten'
        BY ForgottenStep
    <3>2. fails'[o] = 0
        BY <1>i, <1>x
    <3>3. worker'.key # o
        BY <1>o, <2>1, HealthAssumption DEF Nothing
    <3>4. timer'[o] <= Longest
        BY <1>x, <2>3, <3>1, <3>2, <3>3 DEF NeverForgotten
    <3>5. timer'[o] \in Nat
        BY <1>o, TypeStep, Intervals DEF TypeOK
    <3> QED BY <1>i, <2>1, <2>3, <3>4, <3>5 DEF TimelyFor
  <2> QED BY <2>2, <2>3
<1>7. CASE Tick
  <2>0. proc = "up"
      BY <1>7, <1>o DEF Tick
  <2>1. /\ proc' = proc /\ queue' = queue /\ fails' = fails
        /\ timer'[o] = IF timer[o] = Never THEN Never ELSE timer[o] - 1
        /\ timer[o] > 0 /\ ~(worker = Nothing /\ queue # {})
      BY <1>7, <1>o, <2>0 DEF Tick
  <2>2. health'.has = health.has /\ health'.done = Older(health.done)
      BY <1>7, <2>0 DEF Tick, TypeOK
  <2>3. health'.done \in Nat /\ health'.done <= health.done + 1
      BY <2>2, OlderBounds, Intervals DEF TypeOK
  <2>4. obj'[o].there = obj[o].there /\ obj'[o].status = obj[o].status
      BY <1>7, <1>o DEF Tick, TypeOK
  <2>5. TimelyFor(o)
      BY <1>s, <2>1, <2>2, <2>4
  <2>6. CASE worker = Nothing
    <3>1. queue = {} /\ timer[o] + health.done <= Longest
        BY <2>1, <2>5, <2>6 DEF TimelyFor
    <3>2. timer'[o] + health'.done <= Longest
        BY <1>i, <2>1, <2>3, <3>1
    <3>3. worker' = Nothing
        BY <1>7, <2>6 DEF Tick, Nothing
    <3> QED BY <2>1, <3>1, <3>2, <3>3 DEF TimelyFor
  <2>7. CASE worker # Nothing
    <3>1. worker'.age = Min({worker.age + 1, Busy + 1}) /\ worker'.key = worker.key
        BY <1>7, <2>7 DEF Tick, TypeOK
    <3>2. worker.age <= Busy => health.done <= Longest + worker.age
        BY <2>5, <2>7 DEF TimelyFor
    <3>3. /\ worker'.age \in {worker.age + 1, Busy + 1}
          /\ worker'.age \in Nat
        BY <1>i, <3>1, TwoNumbers
    <3>4. worker'.age <= Busy => health'.done <= Longest + worker'.age
        BY <1>i, <2>3, <3>2, <3>3
    <3>5. worker' # Nothing
        BY <1>i, <3>1, <3>3 DEF Nothing
    <3> QED BY <3>4, <3>5 DEF TimelyFor
  <2> QED BY <2>6, <2>7
<1>8. CASE Wedge
  <2>1. /\ worker # Nothing /\ worker' # Nothing /\ worker'.age = worker.age
        /\ health' = health
      BY <1>8 DEF Wedge, TypeOK, Nothing
  <2>2. TimelyFor(o)
      BY <1>8, <1>s DEF Wedge
  <2> QED BY <2>1, <2>2 DEF TimelyFor
<1>9. ASSUME NEW k \in Objects,
             CreateObject(k) \/ DeleteObject(k) \/ RemoveFinalizer(k)
      PROVE  TimelyFor(o)'
  <2>1. /\ obj'[o].there = obj[o].there /\ obj'[o].status = obj[o].status
    <3>1. CASE CreateObject(k)
        BY <1>9, <1>o, <1>x, <3>1 DEF CreateObject, Change, NoObject, TypeOK
    <3>2. CASE DeleteObject(k)
        BY <1>9, <1>o, <3>2 DEF DeleteObject, Change, TypeOK
    <3>3. CASE RemoveFinalizer(k)
        BY <1>9, <1>o, <1>x, <3>3 DEF RemoveFinalizer, Change, NoObject, TypeOK
    <3> QED BY <1>9, <3>1, <3>2, <3>3
  <2>2. /\ queue \subseteq queue'
        /\ UNCHANGED <<proc, health, ticker, timer, fails, worker, host>>
      BY <1>9 DEF CreateObject, DeleteObject, RemoveFinalizer, Change
  <2> QED BY <1>q, <2>1, <2>2
<1>10. ASSUME NEW k \in Objects, FateTurns(k) PROVE TimelyFor(o)'
  <2>1. obj'[o].there = obj[o].there /\ obj'[o].status = obj[o].status
      BY <1>10, <1>o DEF FateTurns, TypeOK
  <2> QED BY <1>10, <1>q, <2>1 DEF FateTurns, work
<1> QED
    BY <1>f, <1>1, <1>2, <1>3, <1>4, <1>5, <1>6, <1>7, <1>8, <1>9, <1>10
       DEF Next, Process

\* Every step keeps the record true, or a reconcile due that makes it so.
LEMMA RecordedStep ==
    TypeOK /\ Recorded /\ [Next]_vars => Recorded'
<1> SUFFICES ASSUME TypeOK, Recorded, [Next]_vars PROVE Recorded'
    OBVIOUS
<1>s. ASSUME proc' = proc, health'.has = health.has, Cached' = Cached,
             unlisted' = unlisted, queue \subseteq queue',
             (worker' = Nothing) <=> (worker = Nothing)
      PROVE  Recorded'
    BY <1>s DEF Recorded
<1>f. CASE UNCHANGED vars
    BY <1>f, <1>s DEF vars, Cached
<1>1. CASE Main
    BY <1>1 DEF Main, Recorded, NewHealth, work
<1>d. CASE Probe \/ Crash
    BY <1>d DEF Probe, Crash, Down, Recorded, NewHealth
<1>2. CASE CacheSync
    BY <1>2 DEF CacheSync, Recorded, world
<1>3. CASE RecordCacheSynced \/ SelfCheck \/ HostTurns
  <2>1. health'.has = health.has /\ obj' = obj /\ proc' = proc
      BY <1>3 DEF RecordCacheSynced, SelfCheck, HostTurns, TypeOK, world
  <2>2. /\ Cached' = Cached /\ unlisted' = unlisted /\ queue' = queue
        /\ worker' = worker
      BY <1>3, <2>1 DEF RecordCacheSynced, SelfCheck, HostTurns, work, world,
                        Happens, Cached
  <2> QED BY <1>s, <2>1, <2>2
<1>4. ASSUME NEW k \in Objects, Fire(k) PROVE Recorded'
  <2>1. /\ Cached' = Cached /\ queue \subseteq queue' /\ worker' = worker
        /\ health' = health /\ proc' = proc /\ unlisted' = unlisted
      BY <1>4 DEF Fire, Cached, world
  <2> QED BY <1>s, <2>1
<1>5. ASSUME NEW k \in Objects, Begin(k) PROVE Recorded'
  <2>1. worker' # Nothing /\ proc' = "up"
      BY <1>5, HealthAssumption DEF Begin, Nothing
  <2> QED BY <2>1 DEF Recorded
<1>6. ASSUME NEW k \in Objects, Complete(k) PROVE Recorded'
  <2>1. proc = "up" /\ proc' = proc
    <3>1. worker # Nothing /\ proc' = proc
        BY <1>6, CompleteFacts
    <3> QED BY <3>1 DEF Recorded
  <2>2. Cached' = Cached
    <3>1. \A j \in Objects : obj'[j].there = obj[j].there
        BY <1>6, CompleteFacts
    <3> QED BY <2>1, <3>1 DEF Cached
  <2>3. \/ unlisted'
        \/ health'.has = (Cached # {})
    <3>1. PICK listed \in BOOLEAN :
            /\ health' = RecordReconcile(k, listed)
            /\ \/ listed /\ UNCHANGED <<events, unlisted>>
               \/ /\ ~listed /\ events < MaxEvents
                  /\ events' = events + 1 /\ unlisted' = TRUE
        BY <1>6, Zenon DEF Complete
    <3>2. health'.has = CacheHasObjects(listed)
        BY <3>1 DEF RecordReconcile, TypeOK
    <3> QED BY <3>1, <3>2 DEF CacheHasObjects
  <2> QED BY <2>1, <2>2, <2>3 DEF Recorded
<1>7. CASE Tick
  <2>1. /\ proc' = proc /\ queue' = queue /\ unlisted' = unlisted
        /\ \A j \in Objects : obj'[j].there = obj[j].there
      BY <1>7 DEF Tick, TypeOK
  <2>2. Cached' = Cached
      BY <2>1 DEF Cached
  <2>3. health'.has = health.has
      BY <1>7 DEF Tick, TypeOK
  <2>4. (worker' = Nothing) <=> (worker = Nothing)
    <3>1. CASE worker = Nothing
        BY <1>7, <3>1 DEF Tick, Nothing
    <3>2. CASE worker # Nothing
      <4>1. worker.age + 1 \in Nat \ {0} /\ Busy + 1 \in Nat \ {0}
          BY Intervals DEF TypeOK
      <4>2. worker'.age = Min({worker.age + 1, Busy + 1})
          BY <1>7, <3>2 DEF Tick, TypeOK
      <4>3. worker'.age # 0
          BY <4>1, <4>2, TwoNumbers
      <4> QED BY <3>2, <4>3 DEF Nothing
    <3> QED BY <3>1, <3>2
  <2> QED BY <1>s, <2>1, <2>2, <2>3, <2>4
<1>8. CASE Wedge
  <2>1. worker # Nothing /\ worker' # Nothing
      BY <1>8 DEF Wedge, TypeOK, Nothing
  <2>2. proc = "up" /\ proc' = proc
      BY <1>8, <2>1 DEF Wedge, Recorded
  <2> QED BY <2>1, <2>2 DEF Recorded
<1>9. ASSUME NEW k \in Objects,
             CreateObject(k) \/ DeleteObject(k) \/ RemoveFinalizer(k)
      PROVE  Recorded'
  <2>1. PICK new : Change(k, new)
      BY <1>9 DEF CreateObject, DeleteObject, RemoveFinalizer
  <2>2. CASE proc = "up"
    <3>1. k \in queue' /\ proc' = "up"
        BY <2>1, <2>2 DEF Change
    <3> QED BY <3>1 DEF Recorded
  <2>3. CASE proc # "up"
      BY <2>1, <2>3 DEF Change, Recorded
  <2> QED BY <2>2, <2>3
<1>10. ASSUME NEW k \in Objects, FateTurns(k) PROVE Recorded'
  <2>1. /\ proc' = proc /\ \A j \in Objects : obj'[j].there = obj[j].there
      BY <1>10 DEF FateTurns, TypeOK
  <2>2. Cached' = Cached
      BY <2>1 DEF Cached
  <2> QED BY <1>10, <1>s, <2>1, <2>2 DEF FateTurns, Happens, work
<1> QED
    BY <1>f, <1>1, <1>d, <1>2, <1>3, <1>4, <1>5, <1>6, <1>7, <1>8, <1>9,
       <1>10 DEF Next, Process

\* D24(b), F5: while the cache answers, livez fails for want of a reconcile
\* only if the worker hangs, or there are objects, or a reconcile is due that
\* finds none, and every object is excused.
THEOREM AlarmsJustified == Spec => []NoFalseAlarm
<1>1. Init => Timely /\ Recorded
    BY DEF Init, Timely, Recorded, Cached, NewHealth
<1>2. TypeOK /\ Timely /\ Recorded => NoFalseAlarm
  <2> SUFFICES ASSUME TypeOK, Timely, Recorded, proc # "down", ~unlisted,
                      health.ok, health.check <= Threshold,
                      ~LivezCheck(health), ~(worker.age > Busy)
               PROVE  /\ \A o \in Cached : Excused(o)
                      /\ Cached # {} \/ queue # {} \/ worker # Nothing
      BY DEF NoFalseAlarm
  <2>1. health.has /\ ~(health.done <= Threshold)
      BY DEF LivezCheck
  <2>2. /\ Longest \in Nat /\ Busy \in Nat /\ Longest + Busy <= Threshold
        /\ Threshold \in Nat /\ health.done \in Nat /\ worker.age \in Nat
      BY Intervals DEF TypeOK
  <2>3. ASSUME NEW o \in Cached, ~Excused(o) PROVE FALSE
    <3>1. TimelyFor(o) /\ o \in Objects
        BY <2>1, <2>3 DEF Timely, Cached
    <3>2. health.done <= Longest + Busy
      <4>1. CASE worker # Nothing
          BY <2>2, <3>1, <4>1 DEF TimelyFor
      <4>2. CASE worker = Nothing
          BY <2>2, <3>1, <4>2, TimelyBound
      <4> QED BY <4>1, <4>2
    <3> QED BY <2>1, <2>2, <3>2
  <2> QED BY <2>1, <2>3 DEF Recorded
<1> QED
    BY <1>1, <1>2, TimelyStep, RecordedStep, NothingForgotten, TypeCorrect, PTL
       DEF Spec
=============================================================================
