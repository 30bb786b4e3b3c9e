---------------------------- MODULE ExtractorPool ----------------------------
(***************************************************************************)
(* ProcessPoolTextExtractor of infrastructure/concurrency/pool.py, with    *)
(* the _Gate and the ReadyState it owns.                                   *)
(*                                                                         *)
(* A call is one thread inside extract().  pc[c] is the next access it     *)
(* makes to state shared with another thread: a step reads or writes one   *)
(* lock-protected object, as the code does, and whatever lies between two  *)
(* such accesses is local and part of the step.  A call whose extraction   *)
(* timed out hands the rest of its life (the permit's release) to the      *)
(* executor's manager thread: pc[c] = "deferred" from then on.             *)
(*                                                                         *)
(* An executor is known by its generation, 0 the one the constructor made. *)
(* concurrent.futures is external: its futures, the break of an executor   *)
(* and its shutdown are modelled from how pool.py uses them.               *)
(***************************************************************************)
EXTENDS Integers, FiniteSets

CONSTANTS
    Calls,      \* the extract() calls, each made once
    Closers,    \* the close() calls
    WarmJobs,   \* the warm-up jobs: min(workers, max_concurrent) of them, or none
    Permits,    \* max_concurrent, the gate's ceiling
    MaxBreaks   \* bound: how many executors may lose a worker

ASSUME PoolAssumption ==
    /\ IsFiniteSet(Calls) /\ IsFiniteSet(WarmJobs)
    /\ Calls \cap WarmJobs = {}
    /\ Permits \in Nat \ {0}
    /\ MaxBreaks \in Nat

Jobs == Calls \cup WarmJobs

VARIABLES
    pc,         \* per call: its next shared access
    outcome,    \* per call: what extract() returns or raises
    overloaded, \* ReadyState._overloaded
    sem,        \* the BoundedSemaphore's value
    inUse,      \* _Gate._in_use
    waiting,    \* _Gate._waiting
    executor,   \* the generation self._executor refers to; also _restarts
    locked,     \* the _lifecycle lock is held across steps
    closed,     \* _closed
    closer,     \* per close() call: where it is
    warm,       \* where warmup() is
    gen,        \* per job: the executor it was, or is being, submitted to
    fut,        \* per job: the state of its future
    broken,     \* executors whose worker died
    shut        \* executors told to shut down (cancel_futures=True)

gateVars == <<sem, inUse, waiting>>
lifeVars == <<executor, locked, closed>>
jobVars  == <<gen, fut, broken, shut>>
vars == <<pc, outcome, overloaded, gateVars, lifeVars, closer, warm, jobVars>>

(* The steps of a call, in the order extract() goes through them. *)
Steps == {"new", "start", "tryFast", "onWait", "enqueue", "parked", "leaveOut",
          "reject", "leaveIn", "count", "submit", "submitting", "await",
          "cancel", "defer", "deferred", "restart", "mark", "shutdown", "swap",
          "release", "signal", "peek", "markReady", "done"}
Outcomes == {"none", "text", "failed", "broken", "cancelled", "refused",
             "timeout", "overload", "closed"}
FutureStates == {"none", "pending", "running", "ok", "error", "broken", "cancelled"}

Live(j) == fut[j] \in {"pending", "running"}

(* Calls that own a permit of the semaphore, calls that _in_use counts,    *)
(* calls that _waiting counts.                                             *)
HoldSteps == {"leaveIn", "count", "submit", "submitting", "await", "cancel",
              "defer", "deferred", "restart", "mark", "shutdown", "swap",
              "release", "signal"}
CountedSteps == HoldSteps \ {"leaveIn", "count", "signal"}
QueuedSteps  == {"parked", "leaveIn", "leaveOut"}
Holders == {c \in Calls : pc[c] \in HoldSteps}
Counted == {c \in Calls : pc[c] \in CountedSteps}
Queued  == {c \in Calls : pc[c] \in QueuedSteps}

Init ==
    /\ pc = [c \in Calls |-> "new"]
    /\ outcome = [c \in Calls |-> "none"]
    /\ overloaded = FALSE
    /\ sem = Permits /\ inUse = 0 /\ waiting = 0
    /\ executor = 0 /\ locked = FALSE /\ closed = FALSE
    /\ closer = [k \in Closers |-> "idle"]
    /\ warm = IF WarmJobs = {} THEN "cold" ELSE "idle"
    /\ gen = [j \in Jobs |-> 0]
    /\ fut = [j \in Jobs |-> "none"]
    /\ broken = {} /\ shut = {}

Goto(c, step) == pc' = [pc EXCEPT ![c] = step]
At(c, step) == pc[c] = step
Settle(c, what) == outcome' = [outcome EXCEPT ![c] = what]

-----------------------------------------------------------------------------
(* Plausible wrong versions of the steps below, none part of Next: each    *)
(* property is shown to reject one of them.                                *)
rest == <<outcome, overloaded, lifeVars, closer, warm, jobVars>>

(* The fast path takes a permit without looking. *)
BugTryFast(c) == At(c, "tryFast") /\ sem' = sem - 1 /\ Goto(c, "count")
                 /\ UNCHANGED <<inUse, waiting, rest>>

(* A woken waiter counts itself in without taking the semaphore again: the *)
(* hand-rolled gate _Gate's comment remembers.                             *)
BugWake(c) == At(c, "parked") /\ sem' = (IF sem > 0 THEN sem - 1 ELSE sem)
              /\ Goto(c, "leaveIn") /\ UNCHANGED <<inUse, waiting, rest>>

(* No finally around the timed acquire: a timeout stays in the queue count. *)
BugLeaveQueue(c) ==
    /\ \/ At(c, "leaveIn") /\ Goto(c, "count") /\ waiting' = waiting - 1
       \/ At(c, "leaveOut") /\ Goto(c, "reject") /\ UNCHANGED waiting
    /\ UNCHANGED <<sem, inUse, rest>>

(* A release signals only if somebody waits, as a condition variable does. *)
BugReleaseSignal(c) == At(c, "signal") /\ Goto(c, "peek")
                       /\ sem' = (IF waiting > 0 THEN sem + 1 ELSE sem)
                       /\ UNCHANGED <<inUse, waiting, rest>>

(* The acquire is inside the try: a call turned away releases a slot. *)
BugReject(c) == At(c, "reject") /\ Goto(c, "release") /\ Settle(c, "overload")
                /\ overloaded' = TRUE
                /\ UNCHANGED <<gateVars, lifeVars, closer, warm, jobVars>>

(* A RuntimeError from submit skips the release. *)
BugSubmit(c) ==
    /\ At(c, "submitting")
    /\ \/ gen[c] \in broken /\ Goto(c, "restart") /\ Settle(c, "broken") /\ UNCHANGED fut
       \/ gen[c] \in shut \ broken /\ Goto(c, "done") /\ Settle(c, "refused") /\ UNCHANGED fut
       \/ gen[c] \notin shut \cup broken /\ Goto(c, "await")
          /\ fut' = [fut EXCEPT ![c] = "pending"] /\ UNCHANGED outcome
    /\ UNCHANGED <<overloaded, gateVars, lifeVars, closer, warm, gen, broken, shut>>

(* future.result() without a timeout. *)
BugAwait(c) ==
    /\ At(c, "await") /\ ~Live(c)
    /\ Goto(c, IF fut[c] = "broken" THEN "restart" ELSE "release") /\ Settle(c, "text")
    /\ UNCHANGED <<overloaded, gateVars, lifeVars, closer, warm, jobVars>>

(* A timeout releases at once, the job still running. *)
BugDefer(c) == At(c, "defer") /\ Goto(c, "release") /\ UNCHANGED <<gateVars, rest>>

(* The callback forgets futures that end by an exception of the pool. *)
BugReleaseWhenDone(c) == At(c, "deferred") /\ fut[c] \in {"ok", "error"}
                         /\ Goto(c, "release") /\ UNCHANGED <<gateVars, rest>>

(* A failed call that finds the lock taken leaves the rebuild to the other. *)
BugRestartLock(c) ==
    /\ At(c, "restart")
    /\ IF closed \/ locked THEN Goto(c, "release") /\ UNCHANGED locked
                           ELSE Goto(c, "mark") /\ locked' = TRUE
    /\ UNCHANGED <<outcome, overloaded, gateVars, executor, closed, closer, warm, jobVars>>

(* The rebuild does not look at _closed. *)
BugRestartClosed(c) ==
    /\ At(c, "restart") /\ ~locked /\ Goto(c, "mark") /\ locked' = TRUE
    /\ UNCHANGED <<outcome, overloaded, gateVars, executor, closed, closer, warm, jobVars>>

(* The rebuild drops the old executor without shutting it down. *)
BugRestartShutdown(c) == At(c, "shutdown") /\ Goto(c, "swap") /\ UNCHANGED <<gateVars, rest>>

(* Off by one: the last call does not look drained. *)
BugReleasePeek(c) == At(c, "peek") /\ Goto(c, IF inUse = 1 THEN "markReady" ELSE "done")
                     /\ UNCHANGED <<gateVars, rest>>

(* close() does not wait; close() waits for the callers, not for the jobs. *)
BugCloseNoWait(k) ==
    /\ closer[k] = "draining" /\ closer' = [closer EXCEPT ![k] = "done"] /\ locked' = FALSE
    /\ UNCHANGED <<pc, outcome, overloaded, gateVars, executor, closed, warm, jobVars>>
BugCloseWaits(k) == inUse = 0 /\ BugCloseNoWait(k)

-----------------------------------------------------------------------------
(* The caller enters extract() and reads _closed. *)
Call(c) ==
    /\ At(c, "new") /\ Goto(c, "start")
    /\ UNCHANGED <<outcome, overloaded, gateVars, lifeVars, closer, warm, jobVars>>

CheckClosed(c) ==
    /\ At(c, "start")
    /\ IF closed THEN Goto(c, "done") /\ Settle(c, "closed")
                 ELSE Goto(c, "tryFast") /\ UNCHANGED outcome
    /\ UNCHANGED <<overloaded, gateVars, lifeVars, closer, warm, jobVars>>

(* _Gate.acquire: the fast path, then the timed queue. *)
TryFast(c) ==
    /\ At(c, "tryFast")
    /\ IF sem > 0 THEN sem' = sem - 1 /\ Goto(c, "count")
                  ELSE Goto(c, "onWait") /\ UNCHANGED sem
    /\ UNCHANGED <<outcome, overloaded, inUse, waiting, lifeVars, closer, warm, jobVars>>

OnWait(c) ==
    /\ At(c, "onWait") /\ Goto(c, "enqueue")
    /\ overloaded' = TRUE
    /\ UNCHANGED <<outcome, gateVars, lifeVars, closer, warm, jobVars>>

Enqueue(c) ==
    /\ At(c, "enqueue") /\ Goto(c, "parked")
    /\ waiting' = waiting + 1
    /\ UNCHANGED <<outcome, overloaded, sem, inUse, lifeVars, closer, warm, jobVars>>

(* The semaphore is given to whoever takes it first; the timed wait gives  *)
(* up only when it finds the value still at zero.                          *)
Wake(c) ==
    /\ At(c, "parked") /\ sem > 0
    /\ sem' = sem - 1 /\ Goto(c, "leaveIn")
    /\ UNCHANGED <<outcome, overloaded, inUse, waiting, lifeVars, closer, warm, jobVars>>

QueueTimeout(c) ==
    /\ At(c, "parked") /\ sem = 0
    /\ Goto(c, "leaveOut")
    /\ UNCHANGED <<outcome, overloaded, gateVars, lifeVars, closer, warm, jobVars>>

LeaveQueue(c) ==
    /\ \/ At(c, "leaveIn") /\ Goto(c, "count")
       \/ At(c, "leaveOut") /\ Goto(c, "reject")
    /\ waiting' = waiting - 1
    /\ UNCHANGED <<outcome, overloaded, sem, inUse, lifeVars, closer, warm, jobVars>>

Count(c) ==
    /\ At(c, "count") /\ Goto(c, "submit")
    /\ inUse' = inUse + 1
    /\ UNCHANGED <<outcome, overloaded, sem, waiting, lifeVars, closer, warm, jobVars>>

(* A call the gate turned away degrades readiness and raises OverloadError. *)
Reject(c) ==
    /\ At(c, "reject") /\ Goto(c, "done") /\ Settle(c, "overload")
    /\ overloaded' = TRUE
    /\ UNCHANGED <<gateVars, lifeVars, closer, warm, jobVars>>

-----------------------------------------------------------------------------
(* self._executor is read without the lifecycle lock, then used. *)
ReadExecutor(c) ==
    /\ At(c, "submit") /\ Goto(c, "submitting")
    /\ gen' = [gen EXCEPT ![c] = executor]
    /\ UNCHANGED <<outcome, overloaded, gateVars, lifeVars, closer, warm, fut, broken, shut>>

(* executor.submit: BrokenProcessPool on a broken executor, RuntimeError   *)
(* on one that was shut down, a pending future otherwise.                  *)
Submit(c) ==
    /\ At(c, "submitting")
    /\ \/ /\ gen[c] \in broken
          /\ Goto(c, "restart") /\ Settle(c, "broken") /\ UNCHANGED fut
       \/ /\ gen[c] \in shut \ broken
          /\ Goto(c, "release") /\ Settle(c, "refused") /\ UNCHANGED fut
       \/ /\ gen[c] \notin shut \cup broken
          /\ Goto(c, "await") /\ fut' = [fut EXCEPT ![c] = "pending"]
          /\ UNCHANGED outcome
    /\ UNCHANGED <<overloaded, gateVars, lifeVars, closer, warm, gen, broken, shut>>

(* future.result: what the future holds, or TimeoutError while it is live. *)
Await(c) ==
    /\ At(c, "await")
    /\ \/ fut[c] = "ok" /\ Goto(c, "release") /\ Settle(c, "text")
       \/ fut[c] = "error" /\ Goto(c, "release") /\ Settle(c, "failed")
       \/ fut[c] = "cancelled" /\ Goto(c, "release") /\ Settle(c, "cancelled")
       \/ fut[c] = "broken" /\ Goto(c, "restart") /\ Settle(c, "broken")
       \/ Live(c) /\ Goto(c, "cancel") /\ Settle(c, "timeout")
    /\ UNCHANGED <<overloaded, gateVars, lifeVars, closer, warm, jobVars>>

(* future.cancel succeeds only on a future no worker has been handed yet. *)
Cancel(c) ==
    /\ At(c, "cancel") /\ Goto(c, "defer")
    /\ fut' = IF fut[c] = "pending" THEN [fut EXCEPT ![c] = "cancelled"] ELSE fut
    /\ UNCHANGED <<outcome, overloaded, gateVars, lifeVars, closer, warm, gen, broken, shut>>

(* add_done_callback runs _release_when_done at once when the future is    *)
(* already over, and leaves it to the executor's manager thread otherwise. *)
Defer(c) ==
    /\ At(c, "defer")
    /\ IF Live(c) THEN Goto(c, "deferred") ELSE Goto(c, "release")
    /\ UNCHANGED <<outcome, overloaded, gateVars, lifeVars, closer, warm, jobVars>>

ReleaseWhenDone(c) ==
    /\ At(c, "deferred") /\ ~Live(c)
    /\ Goto(c, "release")
    /\ UNCHANGED <<outcome, overloaded, gateVars, lifeVars, closer, warm, jobVars>>

-----------------------------------------------------------------------------
(* _restart_pool, under the lifecycle lock.  It replaces whatever executor *)
(* is current: nothing compares it with the one whose future broke.        *)
RestartLock(c) ==
    /\ At(c, "restart") /\ ~locked
    /\ IF closed THEN Goto(c, "release") /\ UNCHANGED locked
                 ELSE Goto(c, "mark") /\ locked' = TRUE
    /\ UNCHANGED <<outcome, overloaded, gateVars, executor, closed, closer, warm, jobVars>>

RestartMark(c) ==
    /\ At(c, "mark") /\ Goto(c, "shutdown")
    /\ overloaded' = TRUE
    /\ UNCHANGED <<outcome, gateVars, lifeVars, closer, warm, jobVars>>

RestartShutdown(c) ==
    /\ At(c, "shutdown") /\ Goto(c, "swap")
    /\ shut' = shut \cup {executor}
    /\ UNCHANGED <<outcome, overloaded, gateVars, lifeVars, closer, warm, gen, fut, broken>>

RestartSwap(c) ==
    /\ At(c, "swap") /\ Goto(c, "release")
    /\ executor' = executor + 1 /\ locked' = FALSE
    /\ UNCHANGED <<outcome, overloaded, gateVars, closed, closer, warm, jobVars>>

(* _release_slot: _Gate.release in its two steps, then inflight() and, on  *)
(* what it answered, mark_ready.                                           *)
ReleaseCount(c) ==
    /\ At(c, "release") /\ Goto(c, "signal")
    /\ inUse' = inUse - 1
    /\ UNCHANGED <<outcome, overloaded, sem, waiting, lifeVars, closer, warm, jobVars>>

ReleaseSignal(c) ==
    /\ At(c, "signal") /\ Goto(c, "peek")
    /\ sem' = sem + 1
    /\ UNCHANGED <<outcome, overloaded, inUse, waiting, lifeVars, closer, warm, jobVars>>

ReleasePeek(c) ==
    /\ At(c, "peek")
    /\ IF inUse = 0 THEN Goto(c, "markReady") ELSE Goto(c, "done")
    /\ UNCHANGED <<outcome, overloaded, gateVars, lifeVars, closer, warm, jobVars>>

MarkReady(c) ==
    /\ At(c, "markReady") /\ Goto(c, "done")
    /\ overloaded' = FALSE
    /\ UNCHANGED <<outcome, gateVars, lifeVars, closer, warm, jobVars>>

-----------------------------------------------------------------------------
(* close(): idempotent, and it keeps the lifecycle lock while it waits for *)
(* the current executor to run dry.                                        *)
CloseBegin(k) ==
    /\ closer[k] = "idle" /\ ~locked
    /\ \/ closed /\ closer' = [closer EXCEPT ![k] = "done"]
          /\ UNCHANGED <<closed, locked, shut>>
       \/ ~closed /\ closer' = [closer EXCEPT ![k] = "draining"]
          /\ closed' = TRUE /\ locked' = TRUE /\ shut' = shut \cup {executor}
    /\ UNCHANGED <<pc, outcome, overloaded, gateVars, executor, warm, gen, fut, broken>>

CloseEnd(k) ==
    /\ closer[k] = "draining"
    /\ \A j \in Jobs : gen[j] = executor => ~Live(j)
    /\ closer' = [closer EXCEPT ![k] = "done"] /\ locked' = FALSE
    /\ UNCHANGED <<pc, outcome, overloaded, gateVars, executor, closed, warm, jobVars>>

(* warmup(): it captures the executor under the lock and uses it without.  *)
WarmBegin ==
    /\ warm = "idle" /\ ~locked
    /\ IF closed THEN warm' = "failed" /\ UNCHANGED gen
                 ELSE /\ warm' = "submitting"
                      /\ gen' = [j \in Jobs |-> IF j \in WarmJobs THEN executor ELSE gen[j]]
    /\ UNCHANGED <<pc, outcome, overloaded, gateVars, lifeVars, closer, fut, broken, shut>>

WarmSubmit(j) ==
    /\ warm = "submitting" /\ fut[j] = "none"
    /\ IF gen[j] \in broken \cup shut
       THEN warm' = "failed" /\ UNCHANGED fut
       ELSE /\ fut' = [fut EXCEPT ![j] = "pending"]
            /\ warm' = IF \A i \in WarmJobs \ {j} : fut[i] # "none"
                       THEN "waiting" ELSE "submitting"
    /\ UNCHANGED <<pc, outcome, overloaded, gateVars, lifeVars, closer, gen, broken, shut>>

(* A warm job that fails, breaks, is cancelled or outlives its timeout. *)
WarmEnd ==
    /\ warm = "waiting"
    /\ \/ (\A j \in WarmJobs : fut[j] = "ok") /\ warm' = "warmed"
       \/ (\E j \in WarmJobs : fut[j] # "ok") /\ warm' = "failed"
    /\ UNCHANGED <<pc, outcome, overloaded, gateVars, lifeVars, closer, jobVars>>

-----------------------------------------------------------------------------
(* External: concurrent.futures.ProcessPoolExecutor and its workers. *)
StartJob(j) ==
    /\ fut[j] = "pending" /\ gen[j] \notin broken
    /\ fut' = [fut EXCEPT ![j] = "running"]
    /\ UNCHANGED <<pc, outcome, overloaded, gateVars, lifeVars, closer, warm, gen, broken, shut>>

FinishJob(j) ==
    /\ fut[j] = "running"
    /\ \E how \in {"ok", "error"} : fut' = [fut EXCEPT ![j] = how]
    /\ UNCHANGED <<pc, outcome, overloaded, gateVars, lifeVars, closer, warm, gen, broken, shut>>

(* The manager thread of an executor that was shut down cancels what no    *)
(* worker was handed.                                                      *)
CancelPending(g) ==
    /\ g \in shut /\ \E j \in Jobs : gen[j] = g /\ fut[j] = "pending"
    /\ fut' = [j \in Jobs |-> IF gen[j] = g /\ fut[j] = "pending" THEN "cancelled" ELSE fut[j]]
    /\ UNCHANGED <<pc, outcome, overloaded, gateVars, lifeVars, closer, warm, gen, broken, shut>>

(* A worker of an executor that has been used dies: every job of that      *)
(* executor that is not over gets BrokenProcessPool.                       *)
Break(g) ==
    /\ g \notin broken /\ Cardinality(broken) < MaxBreaks
    /\ \E j \in Jobs : gen[j] = g /\ (IF g \in shut THEN Live(j) ELSE fut[j] # "none")
    /\ broken' = broken \cup {g}
    /\ fut' = [j \in Jobs |-> IF gen[j] = g /\ Live(j) THEN "broken" ELSE fut[j]]
    /\ UNCHANGED <<pc, outcome, overloaded, gateVars, lifeVars, closer, warm, gen, shut>>

(* Everyone has returned: the only way this system stops. *)
Terminated ==
    /\ \A c \in Calls : At(c, "done")
    /\ \A k \in Closers : closer[k] = "done"
    /\ UNCHANGED vars

-----------------------------------------------------------------------------
Acquire(c) == TryFast(c) \/ OnWait(c) \/ Enqueue(c) \/ Wake(c) \/ QueueTimeout(c)
              \/ LeaveQueue(c) \/ Count(c) \/ Reject(c)
Run(c) == ReadExecutor(c) \/ Submit(c) \/ Await(c) \/ Cancel(c) \/ Defer(c)
Restart(c) == RestartLock(c) \/ RestartMark(c) \/ RestartShutdown(c) \/ RestartSwap(c)
Release(c) == ReleaseCount(c) \/ ReleaseSignal(c) \/ ReleasePeek(c) \/ MarkReady(c)

Thread(c) == CheckClosed(c) \/ Acquire(c) \/ Run(c) \/ Restart(c) \/ Release(c)
             \/ ReleaseWhenDone(c)
Close(k) == CloseBegin(k) \/ CloseEnd(k)
Warmup == WarmBegin \/ WarmEnd \/ \E j \in WarmJobs : WarmSubmit(j)
Worker(j) == StartJob(j) \/ FinishJob(j)
Manager(g) == CancelPending(g)

Next == \/ \E c \in Calls : Call(c) \/ Thread(c)
        \/ \E k \in Closers : Close(k)
        \/ Warmup
        \/ \E j \in Jobs : Worker(j)
        \/ \E g \in 0..executor : Manager(g) \/ Break(g)
        \/ Terminated

Spec == Init /\ [][Next]_vars

(* The operating system schedules every thread and fires every timer, and  *)
(* jobs end; callers need not come.                                        *)
FairSpec ==
    /\ Spec
    /\ \A c \in Calls : WF_vars(Thread(c))
    /\ \A k \in Closers : WF_vars(CloseEnd(k))
    /\ \A j \in Jobs : WF_vars(Worker(j))
    /\ WF_vars(Warmup)

-----------------------------------------------------------------------------
(* Every variable has its type.  The counters are only known to be         *)
(* integers here: that they stay in range is GateAccounting's business.    *)
TypeOK ==
    /\ pc \in [Calls -> Steps] /\ outcome \in [Calls -> Outcomes]
    /\ overloaded \in BOOLEAN
    /\ sem \in Nat /\ inUse \in Int /\ waiting \in Int
    /\ executor \in Nat /\ locked \in BOOLEAN /\ closed \in BOOLEAN
    /\ closer \in [Closers -> {"idle", "draining", "done"}]
    /\ warm \in {"cold", "idle", "submitting", "waiting", "warmed", "failed"}
    /\ gen \in [Jobs -> Nat] /\ fut \in [Jobs -> FutureStates]
    /\ broken \subseteq Nat /\ shut \subseteq Nat

(* The semaphore, _in_use and _waiting agree at every instant with who     *)
(* holds a permit, who was counted and who is queued, across timeouts,     *)
(* rebuilds and callbacks: a permit is neither lost nor given back twice.  *)
GateAccounting ==
    /\ sem + Cardinality(Holders) = Permits
    /\ inUse = Cardinality(Counted)
    /\ waiting = Cardinality(Queued)

(* A future is live only while its call still owns a permit (pool.py       *)
(* 155-157: the permit stays reserved until the job actually finishes).    *)
LiveJobsHoldPermits ==
    \A c \in Calls : Live(c) => pc[c] \in {"await", "cancel", "defer", "deferred"}

(* inflight() never reports fewer jobs than are really live on all the     *)
(* executors together, nor more than the ceiling: a timed-out job that     *)
(* still runs is counted and a rebuild does not open the gate.             *)
InflightReflectsLiveWork ==
    /\ Cardinality({c \in Calls : Live(c)}) <= inUse
    /\ inUse <= Permits

(* Once every call is over the gate is as the constructor left it.         *)
DrainedGateIsFull ==
    (\A c \in Calls : pc[c] \in {"new", "done"})
        => sem = Permits /\ inUse = 0 /\ waiting = 0

(* The executor a call saw broken is no longer current when the call gives *)
(* its slot back, so the caller it makes room for is not sent to it.       *)
BrokenIsReplaced ==
    \A c \in Calls :
        /\ outcome[c] = "broken"
        /\ pc[c] \in {"release", "signal", "peek", "markReady", "done"}
        => closed \/ gen[c] < executor

(* No executor is dropped without being shut down, whatever the order of   *)
(* rebuilds and close().                                                   *)
NoExecutorLeak ==
    /\ 0..(executor - 1) \subseteq shut
    /\ closed => executor \in shut

(* Backpressure and rebuilds leave no trace on readiness: when every call  *)
(* is over and none was turned away, the pool reports ready.               *)
DrainedIsReadyUnlessShed ==
    /\ \A c \in Calls : pc[c] \in {"new", "done"}
    /\ \A c \in Calls : outcome[c] # "overload"
    => ~overloaded

(* After close() has returned nothing runs on the executor it drained, and *)
(* a caller that had already passed the _closed check cannot start a job.  *)
ClosedIsFinal ==
    (\E k \in Closers : closer[k] = "done")
        => \A j \in Jobs : gen[j] = executor => ~Live(j)

(* close() is definitive: a rebuild that was waiting for the lock, or that *)
(* starts later, makes no new executor.                                    *)
NoRebuildAfterClose == [][closed => closed' /\ executor' = executor]_vars

(* If jobs end, the permit of every call comes back, also that of a call   *)
(* that gave up on its job.                                                *)
PermitsComeHome == \A c \in Calls : At(c, "start") ~> At(c, "done")

(* If jobs end, close() returns: the restarts that wait for the lock it    *)
(* holds do not keep it waiting.                                           *)
CloseReturns == \A k \in Closers : closer[k] = "draining" ~> closer[k] = "done"

(* The gate promises bounded grants, each given back once, whatever the    *)
(* executors do.                                                           *)
Spent == {c \in Calls : \/ pc[c] \in {"peek", "markReady"}
                        \/ pc[c] = "done" /\ outcome[c] \notin {"overload", "closed"}}
Grants == INSTANCE BoundedGrants WITH
    Actors <- Calls, Capacity <- Permits, held <- Holders, spent <- Spent
GrantsSpec == Grants!Spec

-----------------------------------------------------------------------------
(* What comments and tests say and the code does not do. *)

(* A call fails because of a rebuild only if its own executor broke. *)
InnocentCallsSurvive ==
    \A c \in Calls : outcome[c] \in {"cancelled", "refused"} => closed
=============================================================================
