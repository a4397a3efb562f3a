------------------------------- MODULE Health -------------------------------
(***************************************************************************)
(* The agent's liveness contract (internal/agent/health.go, SPEC.md D24)   *)
(* over discrete time: the probes compare the age of the last self-check   *)
(* and of the last completed reconcile with three resync periods, and the  *)
(* kubelet restarts the agent when /healthz fails.  Whether silence means  *)
(* a wedged worker depends on the intervals at which Reconcile asks to be  *)
(* run again, on the work queue's back-off and on what the one worker      *)
(* recorded last.                                                          *)
(*                                                                         *)
(* A tick is the unit of time; a timestamp is its age, capped one past the *)
(* threshold, and a zero time is an age past it.  What a reconcile does is *)
(* its outcome (see Agent for the rest), and the informer's cache shows    *)
(* the stored objects once it has synced.                                  *)
(***************************************************************************)
EXTENDS Naturals, FiniteSetsExt

CONSTANTS
    Objects,    \* names of PodIOLimits of this node
    Period,     \* --resync-period
    Base,       \* pendingRequeueInterval
    Busy,       \* the longest a reconcile takes unless it is wedged
    MaxFails,   \* the errors in a row the work queue's back-off tells apart
    MaxBackoff, \* the longest it waits
    Backoff,    \* how long it waits after so many errors
    MaxEvents   \* bound on what happens to objects, node and process

\* The contract needs a period that is long compared with the shortest
\* interval and with a reconcile; nothing in parseFlags asks for that.
ASSUME HealthAssumption ==
    /\ Period \in Nat \ {0} /\ Base \in Nat \ {0} /\ Busy \in Nat
    /\ MaxFails \in Nat \ {0} /\ MaxBackoff \in Nat \ {0} /\ MaxEvents \in Nat
    /\ Backoff \in [0..MaxFails -> 1..MaxBackoff]
    /\ "none" \notin Objects
    /\ Base + Busy <= 3 * Period
    /\ Period + (Period + 9) \div 10 + Busy <= 3 * Period

VARIABLES
    proc,      \* the agent's process: down, syncing its cache, or up
    health,    \* the health struct, and the reconciler's lastCacheHasObjects
    ticker,    \* time to the next self-check
    queue,     \* keys in the work queue
    timer,     \* time to the delayed add of each key
    fails,     \* consecutive errors the rate limiter counts for each key
    worker,    \* the reconcile in progress
    obj,       \* the stored PodIOLimits
    host,      \* the node: fine, without io controller, or broken
    events,    \* events so far, of MaxEvents
    unlisted   \* history: a List of the cache has failed

world == <<obj, host, events, unlisted>>
work  == <<queue, timer, fails, worker>>
vars  == <<proc, health, ticker, queue, timer, fails, worker, obj, host, events,
           unlisted>>

Threshold == 3 * Period
Old == Threshold + 1                 \* an age past the threshold, or no time
Longest == Max({Period + (Period + 9) \div 10, Base})
Never == Max({MaxBackoff, Longest}) + 1                \* no delayed add
NoObject == [there |-> FALSE, del |-> FALSE, fate |-> "waits",
             status |-> "none", since |-> 0]
Nothing == [key |-> "none", age |-> 0, wedged |-> FALSE]
Elapsed == 0..(2 * Max({Period, Base}))

\* What a reconcile of the object meets: volumes still missing, success, a
\* refusal by the kernel, or an error it can only return.
Fates == {"waits", "applies", "refused", "errs"}
Statuses == {"none", "pending", "applied", "failed", "released"}

----------------------------------------------------------------------------
(* health.                                                                 *)

NewHealth == [ok |-> TRUE, check |-> 0, synced |-> FALSE, has |-> FALSE,
              done |-> Old, lastHas |-> FALSE]

\* Mutant: progress is not looked at.
LivezCheckPing(h) == h.check <= Threshold /\ h.ok

\* livezCheck
LivezCheck(h) ==
    /\ h.check <= Threshold
    /\ h.ok
    /\ h.has => h.done <= Threshold

\* readyzCheck
ReadyzCheck(h) == h.ok /\ h.synced

\* The cache's objects.
Cached == {o \in Objects : proc = "up" /\ obj[o].there}

\* cacheHasObjects: a List that fails leaves the value it had.
CacheHasObjects(listed) == IF listed THEN Cached # {} ELSE health.lastHas

----------------------------------------------------------------------------
(* When to run again.                                                      *)

\* jitteredResync: up to a tenth above the period, rounded to ticks.
JitteredResync == Period..(Period + (Period + 9) \div 10)

\* Mutant: no ceiling at the resync period.
PendingBackoffUncapped(elapsed) ==
    Min({Base * 2 ^ k : k \in {n \in 0..Threshold : elapsed < 2 * Base * 2 ^ n}})

\* The intervals pendingBackoff's loop goes through.
Doublings == {Base * 2 ^ n : n \in 0..Threshold}

\* pendingBackoff: the first doubling longer than half of what has elapsed,
\* at most ceiling.
PendingBackoff(elapsed) ==
    LET ceiling == Max({Period, Base})
    IN Min({ceiling} \cup {i \in Doublings \cap Base..ceiling : elapsed < 2 * i})

\* The Results of Reconcile, each with the status it leaves and whether it
\* counts as an error: NotFound; an error; release; and the rest, Pending
\* apart.  A status write may conflict, which comes back soon.
Results(o) ==
    LET old == obj[o]
        same(after) == [status |-> old.status, after |-> after, error |-> FALSE]
        new(s, after) == [status |-> s, after |-> after, error |-> FALSE]
        elapsed == IF old.status \in {"none", "applied"} THEN 0 ELSE old.since
    IN IF o \notin Cached THEN {same(Never)}
       ELSE IF old.fate = "errs"
       THEN {[same(Backoff[fails[o]]) EXCEPT !.error = TRUE]}
       ELSE IF old.del
       THEN IF old.status = "released" THEN {same(Never)}
            ELSE {new("released", Never), same(Base), same(1)}
       ELSE LET s == CASE old.fate = "waits"   -> "pending"
                       [] old.fate = "applies" -> "applied"
                       [] old.fate = "refused" -> "failed"
            IN {same(1) : x \in {old.status} \ {s}}
               \cup IF s = "pending" THEN {new(s, PendingBackoff(elapsed))}
                    ELSE {new(s, t) : t \in JitteredResync}

----------------------------------------------------------------------------
(* The process.                                                            *)

\* Main's start-up checks, which end the process when one fails.
StartupPasses == host = "fine"

Main ==
    /\ proc = "down" /\ StartupPasses
    /\ proc' = "syncing" /\ health' = NewHealth /\ ticker' = Period
    /\ UNCHANGED <<work, world>>

\* The first list is delivered: every object is an event, and the worker
\* starts.
CacheSync ==
    /\ proc = "syncing"
    /\ proc' = "up"
    /\ queue' = {o \in Objects : obj[o].there}
    /\ UNCHANGED <<health, ticker, timer, fails, worker, world>>

\* recordCacheSynced, in a goroutine of its own.
RecordCacheSynced ==
    /\ proc = "up" /\ ~health.synced
    /\ health' = [health EXCEPT !.synced = TRUE]
    /\ UNCHANGED <<proc, ticker, work, world>>

\* selfCheckPasses looks at less than the start-up checks.
SelfCheckPasses == host # "broken"

\* Mutants: the ticker runs at the threshold; the time is recorded only when
\* the outcome changes.
SelfCheckSlow ==
    /\ proc # "down" /\ ticker = 0
    /\ ticker' = Threshold
    /\ health' = [health EXCEPT !.ok = SelfCheckPasses, !.check = 0]
    /\ UNCHANGED <<proc, work, world>>
SelfCheckOnChange ==
    /\ proc # "down" /\ ticker = 0
    /\ ticker' = Period
    /\ health' = [health EXCEPT !.ok = SelfCheckPasses,
                     !.check = IF health.ok = SelfCheckPasses THEN @ ELSE 0]
    /\ UNCHANGED <<proc, work, world>>

\* runSelfCheckLoop and recordSelfCheck.
SelfCheck ==
    /\ proc # "down" /\ ticker = 0
    /\ ticker' = Period
    /\ health' = [health EXCEPT !.ok = SelfCheckPasses, !.check = 0]
    /\ UNCHANGED <<proc, work, world>>

\* A delayed key is due.
Fire(o) ==
    /\ timer[o] = 0
    /\ timer' = [timer EXCEPT ![o] = Never]
    /\ queue' = queue \cup {o}
    /\ UNCHANGED <<proc, health, ticker, fails, worker, world>>

Begin(o) ==
    /\ proc = "up" /\ worker = Nothing /\ o \in queue
    /\ worker' = [Nothing EXCEPT !.key = o]
    /\ queue' = queue \ {o}
    /\ UNCHANGED <<proc, health, ticker, timer, fails, world>>

\* Mutant: NotFound returns before anything is recorded.
RecordReconcileFound(o, listed) ==
    IF o \in Cached
    THEN [health EXCEPT !.has = CacheHasObjects(listed), !.done = 0,
                        !.lastHas = CacheHasObjects(listed)]
    ELSE health

\* recordReconcile, deferred until Reconcile returns.
RecordReconcile(o, listed) ==
    [health EXCEPT !.has = CacheHasObjects(listed), !.done = 0,
                   !.lastHas = CacheHasObjects(listed)]

\* A reconcile returns.  Its status write is an event, which enqueues the
\* key; a key is added after the shorter of two delays.
Complete(o) ==
    /\ worker.key = o /\ ~worker.wedged
    /\ worker' = Nothing
    /\ \E r \in Results(o) :
        /\ timer' = [timer EXCEPT ![o] = Min({@, r.after})]
        /\ fails' = [fails EXCEPT ![o] =
                        IF r.error THEN Min({@ + 1, MaxFails}) ELSE 0]
        /\ queue' = queue \cup {k \in {o} : r.status # obj[o].status}
        /\ obj' = [obj EXCEPT ![o].status = r.status,
                              ![o].since =
                                 IF obj[o].status \in {"none", "applied"}
                                 THEN 0 ELSE @]
    /\ \E listed \in BOOLEAN :
        /\ health' = RecordReconcile(o, listed)
        /\ \/ listed /\ UNCHANGED <<events, unlisted>>
           \/ /\ ~listed /\ events < MaxEvents
              /\ events' = events + 1 /\ unlisted' = TRUE
    /\ UNCHANGED <<proc, ticker, host>>

\* The process ends; everything but the stored objects is lost.
Down ==
    /\ proc' = "down" /\ health' = NewHealth /\ ticker' = Period
    /\ queue' = {} /\ worker' = Nothing
    /\ timer' = [o \in Objects |-> Never] /\ fails' = [o \in Objects |-> 0]

\* The kubelet's liveness probe fails.
Probe ==
    /\ proc # "down" /\ ~LivezCheck(health)
    /\ Down
    /\ UNCHANGED world

----------------------------------------------------------------------------
(* Time and the environment.                                               *)

Older(age) == Min({age + 1, Old})

\* Time passes only when nothing is due: timers and the self-check are on
\* time, a free worker takes a key at once, and a reconcile ends in time.
Tick ==
    /\ proc # "down" => ticker > 0
    /\ \A o \in Objects : timer[o] > 0
    /\ ~(proc = "up" /\ worker = Nothing /\ queue # {})
    /\ worker = Nothing \/ worker.wedged \/ worker.age < Busy
    /\ ticker' = IF proc = "down" THEN ticker ELSE ticker - 1
    /\ timer' = [o \in Objects |-> IF timer[o] = Never THEN Never
                                   ELSE timer[o] - 1]
    /\ health' = IF proc = "down" THEN health
                 ELSE [health EXCEPT !.check = Older(@), !.done = Older(@)]
    /\ worker' = [worker EXCEPT !.age = IF worker = Nothing THEN 0
                                        ELSE Min({@ + 1, Busy + 1})]
    /\ obj' = [o \in Objects |-> [obj[o] EXCEPT !.since =
                  IF obj[o].status \in {"pending", "failed"}
                  THEN Min({@ + 1, Max(Elapsed)}) ELSE 0]]
    /\ UNCHANGED <<proc, queue, fails, host, events, unlisted>>

Happens == events < MaxEvents /\ events' = events + 1 /\ UNCHANGED unlisted

\* An object changes, which is an event when the cache shows it.
Change(o, new) ==
    /\ obj' = [obj EXCEPT ![o] = new]
    /\ queue' = queue \cup {k \in {o} : proc = "up"}
    /\ UNCHANGED <<proc, health, ticker, timer, fails, worker, host>>

\* The controller creates, deletes, and lets a released object go.
CreateObject(o) ==
    ~obj[o].there /\ Change(o, [NoObject EXCEPT !.there = TRUE]) /\ Happens
DeleteObject(o) ==
    /\ obj[o].there /\ ~obj[o].del
    /\ Change(o, [obj[o] EXCEPT !.del = TRUE]) /\ Happens
RemoveFinalizer(o) ==
    /\ obj[o].there /\ obj[o].del /\ obj[o].status = "released"
    /\ Change(o, NoObject) /\ UNCHANGED <<events, unlisted>>

\* What a reconcile meets changes, without an event.
FateTurns(o) ==
    /\ obj[o].there
    /\ \E f \in Fates \ {obj[o].fate} : obj' = [obj EXCEPT ![o].fate = f]
    /\ Happens
    /\ UNCHANGED <<proc, health, ticker, work, host>>

\* A reconcile hangs: a system call or an API call that never returns.
Wedge ==
    /\ worker # Nothing /\ ~worker.wedged
    /\ worker' = [worker EXCEPT !.wedged = TRUE]
    /\ Happens
    /\ UNCHANGED <<proc, health, ticker, queue, timer, fails, obj, host>>

Crash ==
    proc # "down" /\ Down /\ Happens /\ UNCHANGED <<obj, host>>

\* The node loses or regains what the checks look for.
HostTurns ==
    /\ host' \in {"fine", "noio", "broken"} \ {host}
    /\ Happens
    /\ UNCHANGED <<proc, health, ticker, work, obj>>

----------------------------------------------------------------------------

Init ==
    /\ proc = "down" /\ health = NewHealth /\ ticker = Period
    /\ queue = {} /\ timer = [o \in Objects |-> Never]
    /\ fails = [o \in Objects |-> 0] /\ worker = Nothing
    /\ obj = [o \in Objects |-> NoObject] /\ host = "fine"
    /\ events = 0 /\ unlisted = FALSE

Process ==
    \/ Main \/ CacheSync \/ RecordCacheSynced \/ SelfCheck
    \/ \E o \in Objects : Fire(o) \/ Begin(o) \/ Complete(o)

Next ==
    \/ Process \/ Probe \/ Tick \/ Wedge \/ Crash \/ HostTurns
    \/ \E o \in Objects : \/ CreateObject(o) \/ DeleteObject(o)
                          \/ RemoveFinalizer(o) \/ FateTurns(o)

Spec == Init /\ [][Next]_vars

\* Time goes on, the goroutines run, the kubelet restarts and probes, and the
\* controller answers a release.
Fairness ==
    /\ WF_vars(Tick) /\ WF_vars(Probe)
    /\ WF_vars(Main) /\ WF_vars(CacheSync) /\ WF_vars(RecordCacheSynced)
    /\ WF_vars(SelfCheck)
    /\ \A o \in Objects : /\ WF_vars(Fire(o)) /\ WF_vars(Complete(o))
                          /\ SF_vars(Begin(o)) /\ WF_vars(RemoveFinalizer(o))

FairSpec == Spec /\ Fairness

----------------------------------------------------------------------------
(* Properties.                                                             *)

\* Every variable stays in its type: no interval is longer than the work
\* queue's back-off or the longest a Result asks for.
TypeOK ==
    /\ proc \in {"down", "syncing", "up"}
    /\ health \in [ok : BOOLEAN, check : 0..Old, synced : BOOLEAN, has : BOOLEAN,
                   done : 0..Old, lastHas : BOOLEAN]
    /\ ticker \in 0..Period
    /\ queue \subseteq Objects /\ timer \in [Objects -> 0..Never]
    /\ fails \in [Objects -> 0..MaxFails]
    /\ worker \in [key : Objects \cup {"none"}, age : 0..(Busy + 1),
                   wedged : BOOLEAN]
    /\ obj \in [Objects -> [there : BOOLEAN, del : BOOLEAN, fate : Fates,
                            status : Statuses, since : Elapsed]]
    /\ host \in {"fine", "noio", "broken"}
    /\ events \in 0..MaxEvents /\ unlisted \in BOOLEAN

\* D11, F4: no object the agent still has work for is forgotten: it is in the
\* queue, in work, or due within the longest interval (within the back-off
\* after errors), however events, restarts, conflicts and timers interleave.
NeverForgotten ==
    \A o \in Cached : obj[o].status # "released" =>
        \/ o \in queue \/ worker.key = o
        \/ timer[o] <= IF fails[o] = 0 THEN Longest ELSE MaxBackoff

\* No reconcile is overdue for this object: it is released, new, or in the
\* back-off after an error.
Excused(o) == \/ obj[o].status \in {"none", "released"} \/ fails[o] > 0

\* D24(b), F5: while the cache answers, livez fails for want of a reconcile
\* only if the worker hangs, or there are objects and every one of them is
\* excused from a reconcile each period; never on a node without objects.
NoFalseAlarm ==
    /\ proc # "down" /\ ~unlisted
    /\ health.ok /\ health.check <= Threshold /\ ~LivezCheck(health)
    => \/ worker.age > Busy
       \/ /\ \A o \in Cached : Excused(o)
          /\ Cached # {} \/ queue # {} \/ worker # Nothing

\* D24(b): a worker that hangs while objects are on record is restarted.
WedgeDetected == (worker.wedged /\ health.has) ~> ~worker.wedged

\* D24(b) as livezCheck's comment has it: the same of a worker that hangs while
\* the cache holds an object, on record or not.
SilenceDetected == (worker.wedged /\ Cached # {}) ~> ~worker.wedged

\* D24, 6.1: on a node that is fine in the end, with no reconcile that hangs
\* or errs for ever, the agent ends up live and ready: no restart loop.
EventuallyHealthy ==
    <>[](/\ host = "fine" /\ ~worker.wedged
         /\ \A o \in Objects : obj[o].fate # "errs"
         => proc = "up" /\ LivezCheck(health) /\ ReadyzCheck(health))
=============================================================================
