------------------------ MODULE ExtractorPool_proofs ------------------------
(***************************************************************************)
(* What ExtractorPool's runs check on two or three calls, proved for every *)
(* finite set of calls, every number of permits and any number of breaks.  *)
(*                                                                         *)
(* The argument: every step of a call rewrites pc at that call alone, so   *)
(* each of the three sets the gate's counters stand for gains or loses at  *)
(* most that call (MoveCount); GateAccounting follows step by step.  A job *)
(* is live only inside extract()'s try block or while deferred, where its  *)
(* call owns a permit and is counted; the bound on inflight() is then a    *)
(* matter of subsets.                                                      *)
(***************************************************************************)
EXTENDS ExtractorPool, FiniteSetTheorems, TLAPS

(* The groups of variables, unfolded wherever a step says UNCHANGED. *)
USE DEF vars, gateVars, lifeVars, jobVars, At, Goto, Settle

-----------------------------------------------------------------------------
(* A step of the pool keeps the types. *)
LEMMA TypeStep ==
  TypeOK /\ [Next]_vars => TypeOK'
<1> SUFFICES ASSUME TypeOK, [Next]_vars PROVE TypeOK'
  OBVIOUS
<1> USE DEF TypeOK
<1>1. ASSUME NEW c \in Calls, Call(c) \/ CheckClosed(c) PROVE TypeOK'
  BY <1>1 DEF Call, CheckClosed, Steps, Outcomes
<1>2. ASSUME NEW c \in Calls, Acquire(c) PROVE TypeOK'
  <2>1. CASE TryFast(c)      BY <2>1 DEF TryFast, Steps
  <2>2. CASE OnWait(c)       BY <2>2 DEF OnWait, Steps
  <2>3. CASE Enqueue(c)      BY <2>3 DEF Enqueue, Steps
  <2>4. CASE Wake(c)         BY <2>4 DEF Wake, Steps
  <2>5. CASE QueueTimeout(c) BY <2>5 DEF QueueTimeout, Steps
  <2>6. CASE LeaveQueue(c)   BY <2>6 DEF LeaveQueue, Steps
  <2>7. CASE Count(c)        BY <2>7 DEF Count, Steps
  <2>8. CASE Reject(c)       BY <2>8 DEF Reject, Steps, Outcomes
  <2> QED BY <1>2, <2>1, <2>2, <2>3, <2>4, <2>5, <2>6, <2>7, <2>8 DEF Acquire
<1>3. ASSUME NEW c \in Calls, Run(c) PROVE TypeOK'
  <2>1. CASE ReadExecutor(c) BY <2>1 DEF ReadExecutor, Steps, Jobs
  <2>2. CASE Submit(c)       BY <2>2 DEF Submit, Steps, Outcomes, Jobs, FutureStates
  <2>3. CASE Await(c)        BY <2>3 DEF Await, Steps, Outcomes
  <2>4. CASE Cancel(c)
    <3>1. pc' \in [Calls -> Steps] BY <2>4 DEF Cancel, Steps
    <3>2. fut' \in [Jobs -> FutureStates] BY <2>4 DEF Cancel, Jobs, FutureStates
    <3> QED BY <2>4, <3>1, <3>2 DEF Cancel
  <2>5. CASE Defer(c)        BY <2>5 DEF Defer, Steps
  <2> QED BY <1>3, <2>1, <2>2, <2>3, <2>4, <2>5 DEF Run
<1>4. ASSUME NEW c \in Calls, Restart(c) PROVE TypeOK'
  <2>1. CASE RestartLock(c)     BY <2>1 DEF RestartLock, Steps
  <2>2. CASE RestartMark(c)     BY <2>2 DEF RestartMark, Steps
  <2>3. CASE RestartShutdown(c) BY <2>3 DEF RestartShutdown, Steps
  <2>4. CASE RestartSwap(c)
    <3>1. pc' \in [Calls -> Steps] BY <2>4 DEF RestartSwap, Steps
    <3>2. executor' = executor + 1 /\ executor \in Nat BY <2>4 DEF RestartSwap
    <3>3. executor' \in Nat BY ONLY <3>2, SMT
    <3> QED BY <2>4, <3>1, <3>3 DEF RestartSwap
  <2> QED BY <1>4, <2>1, <2>2, <2>3, <2>4 DEF Restart
<1>5. ASSUME NEW c \in Calls, Release(c) \/ ReleaseWhenDone(c) PROVE TypeOK'
  <2>1. CASE ReleaseCount(c)    BY <2>1 DEF ReleaseCount, Steps
  <2>2. CASE ReleaseSignal(c)   BY <2>2 DEF ReleaseSignal, Steps
  <2>3. CASE ReleasePeek(c)     BY <2>3 DEF ReleasePeek, Steps
  <2>4. CASE MarkReady(c)       BY <2>4 DEF MarkReady, Steps
  <2>5. CASE ReleaseWhenDone(c) BY <2>5 DEF ReleaseWhenDone, Steps
  <2> QED BY <1>5, <2>1, <2>2, <2>3, <2>4, <2>5 DEF Release
<1>6. ASSUME NEW k \in Closers, Close(k) PROVE TypeOK'
  <2>1. CASE CloseBegin(k) BY <2>1 DEF CloseBegin
  <2>2. CASE CloseEnd(k)   BY <2>2 DEF CloseEnd
  <2> QED BY <1>6, <2>1, <2>2 DEF Close
<1>7. CASE Warmup
  <2>1. CASE WarmBegin BY <2>1 DEF WarmBegin
  <2>2. CASE WarmEnd   BY <2>2 DEF WarmEnd
  <2>3. ASSUME NEW j \in WarmJobs, WarmSubmit(j) PROVE TypeOK'
    BY <2>3 DEF WarmSubmit, Jobs, FutureStates
  <2> QED BY <1>7, <2>1, <2>2, <2>3 DEF Warmup
<1>8. ASSUME NEW j \in Jobs, Worker(j) PROVE TypeOK'
  BY <1>8 DEF Worker, StartJob, FinishJob, FutureStates
<1>9. ASSUME NEW g \in 0..executor, Manager(g) \/ Break(g) PROVE TypeOK'
  <2>1. CASE CancelPending(g) BY <2>1 DEF CancelPending, FutureStates
  <2>2. CASE Break(g)         BY <2>2 DEF Break, FutureStates
  <2> QED BY <1>9, <2>1, <2>2 DEF Manager
<1>10. CASE UNCHANGED vars
  BY <1>10
<1> QED
  BY <1>1, <1>2, <1>3, <1>4, <1>5, <1>6, <1>7, <1>8, <1>9, <1>10
  DEF Next, Thread, Terminated

(* The constructor's state. *)
LEMMA TypeInit == Init => TypeOK
<1> SUFFICES ASSUME Init PROVE TypeOK
  OBVIOUS
<1>1. /\ pc \in [Calls -> Steps] /\ outcome \in [Calls -> Outcomes]
      /\ gen \in [Jobs -> Nat] /\ fut \in [Jobs -> FutureStates]
  BY DEF Init, Steps, Outcomes, FutureStates
<1>2. /\ sem \in Nat /\ inUse \in Int /\ waiting \in Int /\ executor \in Nat
      /\ closer \in [Closers -> {"idle", "draining", "done"}]
  BY PoolAssumption DEF Init
<1>3. warm \in {"cold", "idle", "submitting", "waiting", "warmed", "failed"}
  BY DEF Init
<1> QED
  BY <1>1, <1>2, <1>3 DEF Init, TypeOK

(* Type correctness: every variable of the pool keeps its type. *)
THEOREM TypeCorrect == Spec => []TypeOK
<1>1. Init => TypeOK
  BY TypeInit
<1>2. TypeOK /\ [Next]_vars => TypeOK'
  BY TypeStep
<1> QED BY <1>1, <1>2, PTL DEF Spec

-----------------------------------------------------------------------------
(* How many calls are at one of the steps in S. *)
InSteps(p, S) == {c \in Calls : p[c] \in S}
Unit(s, S) == IF s \in S THEN 1 ELSE 0

(* One call moves from one step to another: the number of calls inside S   *)
(* grows by one if it arrives in S and shrinks by one if it was there.     *)
LEMMA MoveCount ==
  ASSUME NEW p \in [Calls -> Steps], NEW c \in Calls, NEW s, NEW S
  PROVE  /\ Cardinality(InSteps(p, S)) \in Nat
         /\ Cardinality(InSteps([p EXCEPT ![c] = s], S))
              = Cardinality(InSteps(p, S)) + Unit(s, S) - Unit(p[c], S)
<1> DEFINE q == [p EXCEPT ![c] = s]
<1>1. IsFiniteSet(InSteps(p, S)) /\ Cardinality(InSteps(p, S)) \in Nat
  <2>1. InSteps(p, S) \subseteq Calls
    BY DEF InSteps
  <2> QED BY <2>1, PoolAssumption, FS_Subset, FS_CardinalityType
<1>2. c \in InSteps(p, S) <=> p[c] \in S
  BY DEF InSteps
<1>3. CASE s \in S
  <2>1. InSteps(q, S) = InSteps(p, S) \cup {c}
    BY <1>3 DEF InSteps
  <2>2. Cardinality(InSteps(q, S))
          = IF c \in InSteps(p, S) THEN Cardinality(InSteps(p, S))
                                   ELSE Cardinality(InSteps(p, S)) + 1
    BY <1>1, <2>1, FS_AddElement
  <2> QED BY <1>1, <1>2, <1>3, <2>2 DEF Unit
<1>4. CASE s \notin S
  <2>1. InSteps(q, S) = InSteps(p, S) \ {c}
    BY <1>4 DEF InSteps
  <2>2. Cardinality(InSteps(q, S))
          = IF c \in InSteps(p, S) THEN Cardinality(InSteps(p, S)) - 1
                                   ELSE Cardinality(InSteps(p, S))
    BY <1>1, <2>1, FS_RemoveElement
  <2> QED BY <1>1, <1>2, <1>4, <2>2 DEF Unit
<1> QED BY <1>3, <1>4

(* MoveCount for the three sets of the gate at once. *)
LEMMA MoveCounts ==
  ASSUME TypeOK, NEW c \in Calls, NEW s, Goto(c, s)
  PROVE  /\ Cardinality(Holders) \in Nat
         /\ Cardinality(Counted) \in Nat
         /\ Cardinality(Queued) \in Nat
         /\ Cardinality(Holders)'
              = Cardinality(Holders) + Unit(s, HoldSteps) - Unit(pc[c], HoldSteps)
         /\ Cardinality(Counted)'
              = Cardinality(Counted) + Unit(s, CountedSteps) - Unit(pc[c], CountedSteps)
         /\ Cardinality(Queued)'
              = Cardinality(Queued) + Unit(s, QueuedSteps) - Unit(pc[c], QueuedSteps)
<1>1. pc \in [Calls -> Steps] /\ pc' = [pc EXCEPT ![c] = s]
  BY DEF TypeOK
<1>2. /\ Holders = InSteps(pc, HoldSteps) /\ Holders' = InSteps(pc', HoldSteps)
      /\ Counted = InSteps(pc, CountedSteps) /\ Counted' = InSteps(pc', CountedSteps)
      /\ Queued = InSteps(pc, QueuedSteps) /\ Queued' = InSteps(pc', QueuedSteps)
  BY DEF Holders, Counted, Queued, InSteps
<1>3. ASSUME NEW S
      PROVE  /\ Cardinality(InSteps(pc, S)) \in Nat
             /\ Cardinality(InSteps(pc', S))
                  = Cardinality(InSteps(pc, S)) + Unit(s, S) - Unit(pc[c], S)
  <2>0. pc \in [Calls -> Steps]
    BY <1>1
  <2>1. Cardinality(InSteps(pc, S)) \in Nat
    BY <2>0, MoveCount
  <2>2. Cardinality(InSteps([pc EXCEPT ![c] = s], S))
              = Cardinality(InSteps(pc, S)) + Unit(s, S) - Unit(pc[c], S)
    BY <2>0, MoveCount
  <2> QED BY <1>1, <2>1, <2>2
<1> QED BY <1>2, <1>3

(* A step that leaves pc alone leaves the three sets alone. *)
LEMMA SameCounts ==
  ASSUME UNCHANGED pc
  PROVE  /\ Cardinality(Holders)' = Cardinality(Holders)
         /\ Cardinality(Counted)' = Cardinality(Counted)
         /\ Cardinality(Queued)' = Cardinality(Queued)
<1>1. Holders' = Holders /\ Counted' = Counted /\ Queued' = Queued
  BY DEF Holders, Counted, Queued
<1> QED BY <1>1

(* Call c goes to step s and the gate's counters follow the sets it enters *)
(* and leaves.                                                             *)
GateStep(c, s) ==
  /\ Goto(c, s)
  /\ sem' = sem + Unit(pc[c], HoldSteps) - Unit(s, HoldSteps)
  /\ inUse' = inUse + Unit(s, CountedSteps) - Unit(pc[c], CountedSteps)
  /\ waiting' = waiting + Unit(s, QueuedSteps) - Unit(pc[c], QueuedSteps)

LEMMA GateStepAccounting ==
  ASSUME TypeOK, GateAccounting, NEW c \in Calls, NEW s, GateStep(c, s)
  PROVE  GateAccounting'
<1> DEFINE h == Cardinality(Holders)  k == Cardinality(Counted)  q == Cardinality(Queued)
<1>1. /\ h \in Nat /\ k \in Nat /\ q \in Nat
      /\ h' = h + Unit(s, HoldSteps) - Unit(pc[c], HoldSteps)
      /\ k' = k + Unit(s, CountedSteps) - Unit(pc[c], CountedSteps)
      /\ q' = q + Unit(s, QueuedSteps) - Unit(pc[c], QueuedSteps)
  BY MoveCounts DEF GateStep
<1>2. /\ sem + h = Permits /\ inUse = k /\ waiting = q
      /\ sem \in Nat /\ inUse \in Int /\ waiting \in Int /\ Permits \in Nat
  BY PoolAssumption DEF GateAccounting, TypeOK
<1>3. \A t, S : Unit(t, S) \in {0, 1}
  BY DEF Unit
<1> HIDE DEF h, k, q
<1>4. sem' + h' = Permits /\ inUse' = k' /\ waiting' = q'
  BY <1>1, <1>2, <1>3 DEF GateStep
<1> QED BY <1>4 DEF GateAccounting, h, k, q

(* Every step of a call is a GateStep. *)
LEMMA CallIsGateStep ==
  ASSUME TypeOK, NEW c \in Calls, Call(c) \/ Thread(c)
  PROVE  \E s : GateStep(c, s)
<1>0. sem \in Int /\ inUse \in Int /\ waiting \in Int
  BY DEF TypeOK
<1> USE <1>0 DEF GateStep, Unit, HoldSteps, CountedSteps, QueuedSteps
<1>1. Call(c) => GateStep(c, "start")
  BY DEF Call
<1>2. CheckClosed(c) => GateStep(c, "done") \/ GateStep(c, "tryFast")
  BY DEF CheckClosed
<1>3. TryFast(c) => GateStep(c, "count") \/ GateStep(c, "onWait")
  BY DEF TryFast
<1>4. OnWait(c) => GateStep(c, "enqueue")
  BY DEF OnWait
<1>5. Enqueue(c) => GateStep(c, "parked")
  BY DEF Enqueue
<1>6. Wake(c) => GateStep(c, "leaveIn")
  BY DEF Wake
<1>7. QueueTimeout(c) => GateStep(c, "leaveOut")
  BY DEF QueueTimeout
<1>8. LeaveQueue(c) => GateStep(c, "count") \/ GateStep(c, "reject")
  BY DEF LeaveQueue
<1>9. Count(c) => GateStep(c, "submit")
  BY DEF Count
<1>10. Reject(c) => GateStep(c, "done")
  BY DEF Reject
<1>11. ReadExecutor(c) => GateStep(c, "submitting")
  BY DEF ReadExecutor
<1>12. Submit(c) => GateStep(c, "restart") \/ GateStep(c, "release") \/ GateStep(c, "await")
  BY DEF Submit
<1>13. Await(c) => GateStep(c, "release") \/ GateStep(c, "restart") \/ GateStep(c, "cancel")
  BY DEF Await
<1>14. Cancel(c) => GateStep(c, "defer")
  BY DEF Cancel
<1>15. Defer(c) => GateStep(c, "deferred") \/ GateStep(c, "release")
  BY DEF Defer
<1>16. ReleaseWhenDone(c) => GateStep(c, "release")
  BY DEF ReleaseWhenDone
<1>17. RestartLock(c) => GateStep(c, "release") \/ GateStep(c, "mark")
  BY DEF RestartLock
<1>18. RestartMark(c) => GateStep(c, "shutdown")
  BY DEF RestartMark
<1>19. RestartShutdown(c) => GateStep(c, "swap")
  BY DEF RestartShutdown
<1>20. RestartSwap(c) => GateStep(c, "release")
  BY DEF RestartSwap
<1>21. ReleaseCount(c) => GateStep(c, "signal")
  BY DEF ReleaseCount
<1>22. ReleaseSignal(c) => GateStep(c, "peek")
  BY DEF ReleaseSignal
<1>23. ReleasePeek(c) => GateStep(c, "markReady") \/ GateStep(c, "done")
  BY DEF ReleasePeek
<1>24. MarkReady(c) => GateStep(c, "done")
  BY DEF MarkReady
<1> HIDE DEF GateStep
<1> QED BY <1>1, <1>2, <1>3, <1>4, <1>5, <1>6, <1>7, <1>8, <1>9, <1>10, <1>11, <1>12, <1>13, <1>14, <1>15, <1>16, <1>17, <1>18, <1>19, <1>20, <1>21, <1>22, <1>23, <1>24
       DEF Thread, Acquire, Run, Restart, Release

(* The steps of everyone else leave pc and the gate alone. *)
LEMMA OthersLeaveGate ==
  ASSUME \/ \E k \in Closers : Close(k)
         \/ Warmup \/ Terminated \/ UNCHANGED vars
         \/ \E j \in Jobs : Worker(j)
         \/ \E g \in 0..executor : Manager(g) \/ Break(g)
  PROVE  UNCHANGED <<pc, gateVars>>
BY DEF Close, CloseBegin, CloseEnd, Warmup, WarmBegin, WarmSubmit, WarmEnd,
       Worker, StartJob, FinishJob, Manager, CancelPending, Break, Terminated

(* A step of the pool keeps the books of the gate. *)
LEMMA AccountingStep ==
  TypeOK /\ GateAccounting /\ [Next]_vars => GateAccounting'
<1> SUFFICES ASSUME TypeOK, GateAccounting, [Next]_vars PROVE GateAccounting'
  OBVIOUS
<1>1. ASSUME NEW c \in Calls, Call(c) \/ Thread(c) PROVE GateAccounting'
  BY <1>1, CallIsGateStep, GateStepAccounting
<1>2. ASSUME UNCHANGED <<pc, gateVars>> PROVE GateAccounting'
  BY <1>2, SameCounts DEF GateAccounting
<1> QED
  BY <1>1, <1>2, OthersLeaveGate DEF Next

(* The gate the constructor makes. *)
LEMMA AccountingInit == Init => GateAccounting
<1> SUFFICES ASSUME Init PROVE GateAccounting
  OBVIOUS
<1>1. Holders = {} /\ Counted = {} /\ Queued = {}
  BY DEF Init, Holders, Counted, Queued, HoldSteps, CountedSteps, QueuedSteps
<1> QED BY <1>1, FS_EmptySet, PoolAssumption DEF Init, GateAccounting

(* Between two instants the gate is never wrong about who holds it. *)
THEOREM Accounting == Spec => []GateAccounting
<1>1. Init => GateAccounting
  BY AccountingInit
<1>2. TypeOK /\ GateAccounting /\ [Next]_vars => GateAccounting'
  BY AccountingStep
<1> QED BY <1>1, <1>2, TypeCorrect, PTL DEF Spec

-----------------------------------------------------------------------------
(* A step of the pool starts no job for a call that holds no permit. *)
LEMMA LiveStep ==
  TypeOK /\ LiveJobsHoldPermits /\ [Next]_vars => LiveJobsHoldPermits'
<1> SUFFICES ASSUME TypeOK, LiveJobsHoldPermits, [Next]_vars
             PROVE  LiveJobsHoldPermits'
  OBVIOUS
<1>0. /\ pc \in [Calls -> Steps] /\ fut \in [Jobs -> FutureStates]
      /\ Calls \subseteq Jobs /\ \A j \in WarmJobs : j \in Jobs /\ j \notin Calls
  BY PoolAssumption DEF TypeOK, Jobs
<1> USE <1>0 DEF LiveJobsHoldPermits, Live
<1>1. ASSUME NEW c \in Calls, Call(c) \/ CheckClosed(c) PROVE LiveJobsHoldPermits'
  BY <1>1 DEF Call, CheckClosed
<1>2. ASSUME NEW c \in Calls, Acquire(c) PROVE LiveJobsHoldPermits'
  BY <1>2 DEF Acquire, TryFast, OnWait, Enqueue, Wake, QueueTimeout, LeaveQueue, Count, Reject
<1>3. ASSUME NEW c \in Calls, Run(c) PROVE LiveJobsHoldPermits'
  <2>1. CASE ReadExecutor(c) BY <2>1 DEF ReadExecutor
  <2>2. CASE Submit(c)       BY <2>2 DEF Submit
  <2>3. CASE Await(c)        BY <2>3 DEF Await
  <2>4. CASE Cancel(c)       BY <2>4 DEF Cancel
  <2>5. CASE Defer(c)        BY <2>5 DEF Defer
  <2> QED BY <1>3, <2>1, <2>2, <2>3, <2>4, <2>5 DEF Run
<1>4. ASSUME NEW c \in Calls, Restart(c) PROVE LiveJobsHoldPermits'
  BY <1>4 DEF Restart, RestartLock, RestartMark, RestartShutdown, RestartSwap
<1>5. ASSUME NEW c \in Calls, Release(c) \/ ReleaseWhenDone(c)
      PROVE  LiveJobsHoldPermits'
  BY <1>5 DEF Release, ReleaseCount, ReleaseSignal, ReleasePeek, MarkReady, ReleaseWhenDone
<1>6. ASSUME NEW k \in Closers, Close(k) PROVE LiveJobsHoldPermits'
  BY <1>6 DEF Close, CloseBegin, CloseEnd
<1>7. CASE Warmup
  BY <1>7 DEF Warmup, WarmBegin, WarmSubmit, WarmEnd
<1>8. ASSUME NEW j \in Jobs, Worker(j) PROVE LiveJobsHoldPermits'
  BY <1>8 DEF Worker, StartJob, FinishJob
<1>9. ASSUME NEW g \in 0..executor, Manager(g) \/ Break(g) PROVE LiveJobsHoldPermits'
  BY <1>9 DEF Manager, CancelPending, Break
<1>10. CASE UNCHANGED vars
  BY <1>10
<1> QED
  BY <1>1, <1>2, <1>3, <1>4, <1>5, <1>6, <1>7, <1>8, <1>9, <1>10
  DEF Next, Thread, Terminated

(* No job to begin with. *)
LEMMA LiveInit == Init => LiveJobsHoldPermits
BY DEF Init, LiveJobsHoldPermits, Live, Jobs

(* A job is live only while its call is inside the try block or deferred:  *)
(* neither a timeout nor a rebuild frees the permit of a running job.      *)
THEOREM LiveJobs == Spec => []LiveJobsHoldPermits
<1>1. Init => LiveJobsHoldPermits
  BY LiveInit
<1>2. TypeOK /\ LiveJobsHoldPermits /\ [Next]_vars => LiveJobsHoldPermits'
  BY LiveStep
<1> QED BY <1>1, <1>2, TypeCorrect, PTL DEF Spec

(* What is counted in lies between what runs and what may run. *)
LEMMA InflightFollows ==
  TypeOK /\ GateAccounting /\ LiveJobsHoldPermits => InflightReflectsLiveWork
<1> SUFFICES ASSUME TypeOK, GateAccounting, LiveJobsHoldPermits
             PROVE  InflightReflectsLiveWork
  OBVIOUS
<1> DEFINE L == {c \in Calls : Live(c)}
<1>1. L \subseteq Counted
  BY DEF LiveJobsHoldPermits, Counted, CountedSteps, HoldSteps
<1>2. Counted \subseteq Holders /\ Holders \subseteq Calls
  BY DEF Counted, Holders, CountedSteps
<1>3. IsFiniteSet(Holders) /\ IsFiniteSet(Counted) /\ IsFiniteSet(L)
  BY <1>1, <1>2, PoolAssumption, FS_Subset
<1>4. /\ Cardinality(L) <= Cardinality(Counted)
      /\ Cardinality(Counted) <= Cardinality(Holders)
  BY <1>1, <1>2, <1>3, FS_Subset
<1>5. /\ Cardinality(L) \in Nat /\ Cardinality(Counted) \in Nat
      /\ Cardinality(Holders) \in Nat
  BY <1>3, FS_CardinalityType
<1>6. /\ sem + Cardinality(Holders) = Permits /\ inUse = Cardinality(Counted)
      /\ sem \in Nat /\ Permits \in Nat
  BY PoolAssumption DEF GateAccounting, TypeOK
<1>7. Cardinality(L) <= inUse /\ inUse <= Permits
  BY <1>4, <1>5, <1>6
<1> QED BY <1>7 DEF InflightReflectsLiveWork

(* inflight() counts every live job and never exceeds max_concurrent, for  *)
(* any number of calls, timeouts, breaks and rebuilds.                     *)
THEOREM InflightBound == Spec => []InflightReflectsLiveWork
BY InflightFollows, TypeCorrect, Accounting, LiveJobs, PTL

LEMMA DrainedFollows == TypeOK /\ GateAccounting => DrainedGateIsFull
<1> SUFFICES ASSUME TypeOK, GateAccounting, \A c \in Calls : pc[c] \in {"new", "done"}
             PROVE  sem = Permits /\ inUse = 0 /\ waiting = 0
  BY DEF DrainedGateIsFull
<1>1. Holders = {} /\ Counted = {} /\ Queued = {}
  BY DEF Holders, Counted, Queued, HoldSteps, CountedSteps, QueuedSteps
<1>2. sem + 0 = Permits /\ inUse = 0 /\ waiting = 0
  BY <1>1, FS_EmptySet DEF GateAccounting
<1> QED BY <1>2 DEF TypeOK

(* No permit leaks: with every call over, the gate is as it was built.     *)
THEOREM DrainedGate == Spec => []DrainedGateIsFull
BY DrainedFollows, TypeCorrect, Accounting, PTL

-----------------------------------------------------------------------------
(* The lifecycle lock: at most one call is rebuilding, it holds the lock,  *)
(* and the pool is then open; whoever drains has closed it.                *)
Rebuilding == {"mark", "shutdown", "swap"}
LockInv ==
  /\ \A c \in Calls : pc[c] \in Rebuilding => locked /\ ~closed
  /\ \A c, d \in Calls : pc[c] \in Rebuilding /\ pc[d] \in Rebuilding => c = d
  /\ \A k \in Closers : closer[k] = "draining" => closed /\ locked
  /\ \A k, l \in Closers : closer[k] = "draining" /\ closer[l] = "draining" => k = l

LEMMA LockInit == Init => LockInv
BY DEF Init, LockInv, Rebuilding

LEMMA LockStep == TypeOK /\ LockInv /\ [Next]_vars => LockInv'
<1> SUFFICES ASSUME TypeOK, LockInv, [Next]_vars PROVE LockInv'
  OBVIOUS
<1>0. pc \in [Calls -> Steps] /\ closer \in [Closers -> {"idle", "draining", "done"}]
  BY DEF TypeOK
<1> USE <1>0 DEF LockInv, Rebuilding
<1>1. ASSUME NEW c \in Calls, Call(c) \/ CheckClosed(c) PROVE LockInv'
  BY <1>1 DEF Call, CheckClosed
<1>2. ASSUME NEW c \in Calls, Acquire(c) PROVE LockInv'
  BY <1>2 DEF Acquire, TryFast, OnWait, Enqueue, Wake, QueueTimeout, LeaveQueue, Count, Reject
<1>3. ASSUME NEW c \in Calls, Run(c) PROVE LockInv'
  BY <1>3 DEF Run, ReadExecutor, Submit, Await, Cancel, Defer
<1>4. ASSUME NEW c \in Calls, Restart(c) PROVE LockInv'
  BY <1>4 DEF Restart, RestartLock, RestartMark, RestartShutdown, RestartSwap
<1>5. ASSUME NEW c \in Calls, Release(c) \/ ReleaseWhenDone(c) PROVE LockInv'
  BY <1>5 DEF Release, ReleaseCount, ReleaseSignal, ReleasePeek, MarkReady, ReleaseWhenDone
<1>6. ASSUME NEW k \in Closers, Close(k) PROVE LockInv'
  <2>1. CASE CloseBegin(k) BY <2>1 DEF CloseBegin
  <2>2. CASE CloseEnd(k)   BY <2>2 DEF CloseEnd
  <2> QED BY <1>6, <2>1, <2>2 DEF Close
<1>7. CASE Warmup
  BY <1>7 DEF Warmup, WarmBegin, WarmSubmit, WarmEnd
<1>8. ASSUME NEW j \in Jobs, Worker(j) PROVE LockInv'
  BY <1>8 DEF Worker, StartJob, FinishJob
<1>9. ASSUME NEW g \in 0..executor, Manager(g) \/ Break(g) PROVE LockInv'
  BY <1>9 DEF Manager, CancelPending, Break
<1>10. CASE UNCHANGED vars
  BY <1>10
<1> QED
  BY <1>1, <1>2, <1>3, <1>4, <1>5, <1>6, <1>7, <1>8, <1>9, <1>10
  DEF Next, Thread, Terminated

LEMMA Locking == Spec => []LockInv
BY LockInit, LockStep, TypeCorrect, PTL DEF Spec

(* close() is definitive: no executor is made once _closed is set. *)
THEOREM ClosedForGood == Spec => NoRebuildAfterClose
<1>1. TypeOK /\ LockInv /\ [Next]_vars => (closed => closed' /\ executor' = executor)
  <2> SUFFICES ASSUME TypeOK, LockInv, [Next]_vars, closed
               PROVE  closed' /\ executor' = executor
    OBVIOUS
  <2>1. \A c \in Calls : pc[c] # "swap"
    BY DEF LockInv, Rebuilding
  <2>2. ASSUME NEW c \in Calls, Call(c) \/ Thread(c) PROVE closed' /\ executor' = executor
    BY <2>1, <2>2 DEF Call, CheckClosed, Thread, Acquire, TryFast, OnWait, Enqueue, Wake,
       QueueTimeout, LeaveQueue, Count, Reject, Run, ReadExecutor, Submit, Await, Cancel,
       Defer, Restart, RestartLock, RestartMark, RestartShutdown, RestartSwap, Release,
       ReleaseCount, ReleaseSignal, ReleasePeek, MarkReady, ReleaseWhenDone
  <2>3. ASSUME NEW k \in Closers, Close(k) PROVE closed' /\ executor' = executor
    BY <2>3 DEF Close, CloseBegin, CloseEnd
  <2>4. ASSUME ~ \E c \in Calls : Call(c) \/ Thread(c), ~ \E k \in Closers : Close(k)
        PROVE  closed' /\ executor' = executor
    BY <2>4 DEF Next, Warmup, WarmBegin, WarmSubmit, WarmEnd, Worker, StartJob, FinishJob,
       Manager, CancelPending, Break, Terminated
  <2> QED BY <2>2, <2>3, <2>4
<1> QED BY <1>1, TypeCorrect, Locking, PTL DEF Spec, NoRebuildAfterClose

-----------------------------------------------------------------------------
(* Executors are numbered in the order they are made, every replaced one   *)
(* was shut down, and so is the one a rebuild is about to replace.         *)
ExecutorInv ==
  /\ NoExecutorLeak
  /\ \A c \in Calls : pc[c] = "swap" => executor \in shut
  /\ \A j \in Jobs : gen[j] <= executor
  /\ \A c \in Calls : pc[c] \in {"cancel", "defer", "deferred"} => outcome[c] = "timeout"
  /\ BrokenIsReplaced

LEMMA ExecutorInit == Init => ExecutorInv
BY DEF Init, ExecutorInv, NoExecutorLeak, BrokenIsReplaced

LEMMA ExecutorInvStep == 
  TypeOK /\ LockInv /\ ExecutorInv /\ [Next]_vars => ExecutorInv'
<1> SUFFICES ASSUME TypeOK, LockInv, ExecutorInv, [Next]_vars PROVE ExecutorInv'
  OBVIOUS
<1>0. /\ pc \in [Calls -> Steps] /\ outcome \in [Calls -> Outcomes] /\ executor \in Nat
      /\ gen \in [Jobs -> Nat] /\ Calls \subseteq Jobs
      /\ closed \in BOOLEAN /\ locked \in BOOLEAN
  BY DEF TypeOK, Jobs
<1> USE <1>0 DEF ExecutorInv, NoExecutorLeak, BrokenIsReplaced
<1>1. ASSUME NEW c \in Calls, Call(c) \/ CheckClosed(c) PROVE ExecutorInv'
  BY <1>1 DEF Call, CheckClosed
<1>2. ASSUME NEW c \in Calls, Acquire(c) PROVE ExecutorInv'
  BY <1>2 DEF Acquire, TryFast, OnWait, Enqueue, Wake, QueueTimeout, LeaveQueue, Count, Reject
<1>3. ASSUME NEW c \in Calls, Run(c) PROVE ExecutorInv'
  <2>1. CASE ReadExecutor(c) BY <2>1 DEF ReadExecutor
  <2>2. CASE Submit(c)       BY <2>2 DEF Submit
  <2>3. CASE Await(c)        BY <2>3 DEF Await
  <2>4. CASE Cancel(c)       BY <2>4 DEF Cancel
  <2>5. CASE Defer(c)        BY <2>5 DEF Defer
  <2> QED BY <1>3, <2>1, <2>2, <2>3, <2>4, <2>5 DEF Run
<1>4. ASSUME NEW c \in Calls, Restart(c) PROVE ExecutorInv'
  <2>1. CASE RestartLock(c)     BY <2>1 DEF RestartLock
  <2>2. CASE RestartMark(c)     BY <2>2 DEF RestartMark
  <2>3. CASE RestartShutdown(c) BY <2>3 DEF RestartShutdown
  <2>4. CASE RestartSwap(c)     BY <2>4 DEF RestartSwap, LockInv, Rebuilding
  <2> QED BY <1>4, <2>1, <2>2, <2>3, <2>4 DEF Restart
<1>5. ASSUME NEW c \in Calls, Release(c) \/ ReleaseWhenDone(c) PROVE ExecutorInv'
  BY <1>5 DEF Release, ReleaseCount, ReleaseSignal, ReleasePeek, MarkReady, ReleaseWhenDone
<1>6. ASSUME NEW k \in Closers, Close(k) PROVE ExecutorInv'
  <2>1. CASE CloseBegin(k) BY <2>1 DEF CloseBegin
  <2>2. CASE CloseEnd(k)   BY <2>2 DEF CloseEnd
  <2> QED BY <1>6, <2>1, <2>2 DEF Close
<1>7. CASE Warmup
  BY <1>7, PoolAssumption DEF Warmup, WarmBegin, WarmSubmit, WarmEnd
<1>8. ASSUME NEW j \in Jobs, Worker(j) PROVE ExecutorInv'
  BY <1>8 DEF Worker, StartJob, FinishJob
<1>9. ASSUME NEW g \in 0..executor, Manager(g) \/ Break(g) PROVE ExecutorInv'
  BY <1>9 DEF Manager, CancelPending, Break
<1>10. CASE UNCHANGED vars
  BY <1>10
<1> QED
  BY <1>1, <1>2, <1>3, <1>4, <1>5, <1>6, <1>7, <1>8, <1>9, <1>10
  DEF Next, Thread, Terminated

LEMMA Executors == Spec => []ExecutorInv
BY ExecutorInit, ExecutorInvStep, TypeCorrect, Locking, PTL DEF Spec

(* No executor is dropped while its workers live on. *)
THEOREM ExecutorsAreShut == Spec => []NoExecutorLeak
BY Executors, PTL DEF ExecutorInv

(* A call that saw its executor break gives its slot back only when        *)
(* another executor is current, or the pool is closed.                     *)
THEOREM BrokenReplaced == Spec => []BrokenIsReplaced
BY Executors, PTL DEF ExecutorInv

-----------------------------------------------------------------------------
(* A call that never got a permit is over. *)
OutcomeInv == \A c \in Calls : outcome[c] \in {"overload", "closed"} => pc[c] = "done"

LEMMA OutcomeStep == TypeOK /\ OutcomeInv /\ [Next]_vars => OutcomeInv'
<1> SUFFICES ASSUME TypeOK, OutcomeInv, [Next]_vars PROVE OutcomeInv'
  OBVIOUS
<1>0. pc \in [Calls -> Steps] /\ outcome \in [Calls -> Outcomes]
  BY DEF TypeOK
<1> USE <1>0 DEF OutcomeInv
<1>1. ASSUME NEW c \in Calls, Call(c) \/ CheckClosed(c) PROVE OutcomeInv'
  BY <1>1 DEF Call, CheckClosed
<1>2. ASSUME NEW c \in Calls, Acquire(c) PROVE OutcomeInv'
  BY <1>2 DEF Acquire, TryFast, OnWait, Enqueue, Wake, QueueTimeout, LeaveQueue, Count, Reject
<1>3. ASSUME NEW c \in Calls, Run(c) PROVE OutcomeInv'
  BY <1>3 DEF Run, ReadExecutor, Submit, Await, Cancel, Defer
<1>4. ASSUME NEW c \in Calls, Restart(c) PROVE OutcomeInv'
  BY <1>4 DEF Restart, RestartLock, RestartMark, RestartShutdown, RestartSwap
<1>5. ASSUME NEW c \in Calls, Release(c) \/ ReleaseWhenDone(c) PROVE OutcomeInv'
  BY <1>5 DEF Release, ReleaseCount, ReleaseSignal, ReleasePeek, MarkReady, ReleaseWhenDone
<1>6. ASSUME UNCHANGED <<pc, outcome>> PROVE OutcomeInv'
  BY <1>6
<1>7. \/ UNCHANGED <<pc, outcome>> \/ \E c \in Calls : Call(c) \/ Thread(c)
  BY DEF Next, Close, CloseBegin, CloseEnd, Warmup, WarmBegin, WarmSubmit, WarmEnd,
         Worker, StartJob, FinishJob, Manager, CancelPending, Break, Terminated
<1> QED BY <1>1, <1>2, <1>3, <1>4, <1>5, <1>6, <1>7 DEF Thread

LEMMA GrantInit == Init => Grants!Init /\ OutcomeInv
BY DEF Init, Grants!Init, Holders, Spent, HoldSteps, OutcomeInv

LEMMA GrantStep == 
  TypeOK /\ GateAccounting /\ OutcomeInv /\ [Next]_vars => [Grants!Next]_<<Holders, Spent>>
<1> SUFFICES ASSUME TypeOK, GateAccounting, OutcomeInv, [Next]_vars,
                    ~ UNCHANGED <<Holders, Spent>>
             PROVE  Grants!Next
  OBVIOUS
<1>0. pc \in [Calls -> Steps] /\ outcome \in [Calls -> Outcomes]
  BY DEF TypeOK
<1>1. sem > 0 => Cardinality(Holders) < Permits
  <2>1. IsFiniteSet(Holders)
    BY PoolAssumption, FS_Subset, Holders \subseteq Calls DEF Holders
  <2>2. Cardinality(Holders) \in Nat
    BY <2>1, FS_CardinalityType
  <2> QED BY <2>2, PoolAssumption DEF GateAccounting, TypeOK
<1>2. ASSUME NEW c \in Calls, TryFast(c) \/ Wake(c), sem > 0 PROVE Grants!Next
  <2>1. c \notin Holders /\ c \notin Spent
    BY <1>2 DEF TryFast, Wake, Holders, Spent, HoldSteps
  <2>2. Holders' = Holders \cup {c}
    BY <1>0, <1>2 DEF TryFast, Wake, Holders, HoldSteps
  <2>3. Spent' = Spent
    BY <1>0, <1>2 DEF TryFast, Wake, Spent
  <2>4. Grants!Cardinality(Holders) < Permits
    <3>1. Grants!Cardinality(Holders) = Cardinality(Holders)
      BY Zenon DEF Grants!Cardinality, Cardinality
    <3> QED BY <1>1, <1>2, <3>1
  <2>5. c \in Calls \ (Holders \cup Spent)
    BY <2>1
  <2>6. Grants!Grant(c)
    BY <2>2, <2>3, <2>4, <2>5 DEF Grants!Grant
  <2> QED BY <2>6 DEF Grants!Next
<1>3. ASSUME NEW c \in Calls, ReleaseSignal(c) PROVE Grants!Next
  <2>1. c \in Holders
    BY <1>3 DEF ReleaseSignal, Holders, HoldSteps
  <2>2. Holders' = Holders \ {c}
    BY <1>0, <1>3 DEF ReleaseSignal, Holders, HoldSteps
  <2>3. Spent' = Spent \cup {c}
    BY <1>0, <1>3 DEF ReleaseSignal, Spent
  <2>4. Grants!GiveBack(c)
    BY <2>1, <2>2, <2>3 DEF Grants!GiveBack
  <2> QED BY <2>4 DEF Grants!Next
<1>4. ASSUME NEW c \in Calls, Call(c) \/ Thread(c), ~ ReleaseSignal(c),
             ~ (sem > 0 /\ (TryFast(c) \/ Wake(c)))
      PROVE  UNCHANGED <<Holders, Spent>>
  <2> USE <1>0 DEF Holders, Spent, HoldSteps, OutcomeInv
  <2>1. CASE Call(c) \/ CheckClosed(c)
    BY <2>1 DEF Call, CheckClosed
  <2>2. CASE Acquire(c)
    BY <1>4, <2>2 DEF Acquire, TryFast, OnWait, Enqueue, Wake, QueueTimeout, LeaveQueue,
       Count, Reject
  <2>3. CASE Run(c)
    BY <2>3 DEF Run, ReadExecutor, Submit, Await, Cancel, Defer
  <2>4. CASE Restart(c)
    BY <2>4 DEF Restart, RestartLock, RestartMark, RestartShutdown, RestartSwap
  <2>5. CASE Release(c) \/ ReleaseWhenDone(c)
    BY <1>4, <2>5 DEF Release, ReleaseCount, ReleasePeek, MarkReady, ReleaseWhenDone
  <2> QED BY <1>4, <2>1, <2>2, <2>3, <2>4, <2>5 DEF Thread
<1>5. ASSUME UNCHANGED <<pc, outcome>> PROVE UNCHANGED <<Holders, Spent>>
  BY <1>5 DEF Holders, Spent
<1>6. \/ UNCHANGED <<pc, outcome>> \/ \E c \in Calls : Call(c) \/ Thread(c)
  BY DEF Next, Close, CloseBegin, CloseEnd, Warmup, WarmBegin, WarmSubmit, WarmEnd,
         Worker, StartJob, FinishJob, Manager, CancelPending, Break, Terminated
<1> QED BY <1>2, <1>3, <1>4, <1>5, <1>6

(* The pool implements BoundedGrants: a call's permit is one grant, taken  *)
(* only below the ceiling and given back exactly once.                     *)
THEOREM ImplementsGrants == Spec => GrantsSpec
BY GrantInit, GrantStep, OutcomeStep, TypeCorrect, Accounting, PTL DEF Spec, GrantsSpec, Grants!Spec

-----------------------------------------------------------------------------
(* Whoever degraded readiness is still on its way, or was turned away: the *)
(* last to leave the gate is the one that marks the pool ready.            *)
Passive == {"new", "start", "tryFast", "onWait", "done"}
ReadyInv == overloaded => \E c \in Calls : pc[c] \notin Passive \/ outcome[c] = "overload"

LEMMA ReadyStep ==
  TypeOK /\ GateAccounting /\ OutcomeInv /\ ReadyInv /\ [Next]_vars => ReadyInv'
<1> SUFFICES ASSUME TypeOK, GateAccounting, OutcomeInv, ReadyInv, [Next]_vars, overloaded'
             PROVE  \E c \in Calls : pc'[c] \notin Passive \/ outcome'[c] = "overload"
  BY DEF ReadyInv
<1>0. pc \in [Calls -> Steps] /\ outcome \in [Calls -> Outcomes]
  BY DEF TypeOK
<1> USE <1>0 DEF Passive
<1>1. ASSUME NEW c \in Calls, OnWait(c) \/ RestartMark(c) \/ Reject(c) PROVE pc'[c] \notin Passive \/ outcome'[c] = "overload"
  BY <1>1 DEF OnWait, RestartMark, Reject
<1>2. ASSUME NEW c \in Calls, ReleasePeek(c)
      PROVE  \E d \in Calls : pc'[d] \notin Passive \/ outcome'[d] = "overload"
  <2>1. CASE inUse = 0
    BY <1>2, <2>1 DEF ReleasePeek
  <2>2. CASE inUse # 0
    <3>1. Counted # {}
      BY <2>2, FS_EmptySet DEF GateAccounting
    <3>2. PICK d \in Calls : pc[d] \in CountedSteps
      BY <3>1 DEF Counted
    <3>3. d # c
      BY <1>2, <3>2 DEF ReleasePeek, CountedSteps, HoldSteps
    <3> QED BY <1>2, <3>2, <3>3 DEF ReleasePeek, CountedSteps, HoldSteps
  <2> QED BY <2>1, <2>2
<1>3. ASSUME NEW c \in Calls, Call(c) \/ Thread(c), overloaded,
             ~ (OnWait(c) \/ RestartMark(c) \/ Reject(c) \/ ReleasePeek(c))
      PROVE  \E d \in Calls : pc'[d] \notin Passive \/ outcome'[d] = "overload"
  <2>0. PICK d \in Calls : pc[d] \notin Passive \/ outcome[d] = "overload"
    BY <1>3 DEF ReadyInv
  <2>1. outcome[d] = "overload" => pc[d] = "done"
    BY DEF OutcomeInv
  <2>2. CASE Call(c) \/ CheckClosed(c)
    BY <2>0, <2>1, <2>2 DEF Call, CheckClosed
  <2>3. CASE Acquire(c)
    BY <1>3, <2>0, <2>1, <2>3 DEF Acquire, TryFast, OnWait, Enqueue, Wake, QueueTimeout,
       LeaveQueue, Count, Reject
  <2>4. CASE Run(c)
    BY <2>0, <2>1, <2>4 DEF Run, ReadExecutor, Submit, Await, Cancel, Defer
  <2>5. CASE Restart(c)
    BY <1>3, <2>0, <2>1, <2>5 DEF Restart, RestartLock, RestartMark, RestartShutdown, RestartSwap
  <2>6. CASE Release(c) \/ ReleaseWhenDone(c)
    BY <1>3, <2>0, <2>1, <2>6 DEF Release, ReleaseCount, ReleaseSignal, ReleasePeek, MarkReady,
       ReleaseWhenDone
  <2> QED BY <1>3, <2>2, <2>3, <2>4, <2>5, <2>6 DEF Thread
<1>4. ASSUME NEW c \in Calls, Call(c) \/ Thread(c), ~overloaded
      PROVE  OnWait(c) \/ RestartMark(c) \/ Reject(c)
  BY <1>4 DEF Call, CheckClosed, Thread, Acquire, TryFast, OnWait, Enqueue, Wake,
     QueueTimeout, LeaveQueue, Count, Reject, Run, ReadExecutor, Submit, Await, Cancel,
     Defer, Restart, RestartLock, RestartMark, RestartShutdown, RestartSwap, Release,
     ReleaseCount, ReleaseSignal, ReleasePeek, MarkReady, ReleaseWhenDone
<1>5. \/ UNCHANGED <<pc, outcome, overloaded>> \/ \E c \in Calls : Call(c) \/ Thread(c)
  BY DEF Next, Close, CloseBegin, CloseEnd, Warmup, WarmBegin, WarmSubmit, WarmEnd,
         Worker, StartJob, FinishJob, Manager, CancelPending, Break, Terminated
<1> QED BY <1>1, <1>2, <1>3, <1>4, <1>5 DEF ReadyInv

(* Readiness comes back (pool.py 12-13): with every call over and none     *)
(* turned away, nothing is left that says the pool is overloaded.          *)
THEOREM DrainedReady == Spec => []DrainedIsReadyUnlessShed
<1>1. Init => OutcomeInv /\ ReadyInv
  BY DEF Init, OutcomeInv, ReadyInv
<1>2. ReadyInv => DrainedIsReadyUnlessShed
  BY DEF ReadyInv, DrainedIsReadyUnlessShed, Passive
<1> QED BY <1>1, <1>2, OutcomeStep, ReadyStep, TypeCorrect, Accounting, PTL DEF Spec

-----------------------------------------------------------------------------
(* While the pool is closed and nobody drains it, nothing runs on the      *)
(* executor that was drained: it is shut down, so nothing gets onto it.    *)
DrainedInv ==
  /\ \A k, l \in Closers : closer[k] = "done" => closed /\ closer[l] # "draining"
  /\ closed /\ (\A k \in Closers : closer[k] # "draining")
       => \A j \in Jobs : gen[j] = executor => ~Live(j)

LEMMA DrainedStep ==
  TypeOK /\ LockInv /\ LiveJobsHoldPermits /\ ExecutorInv /\ DrainedInv /\ [Next]_vars
    => DrainedInv'
<1> SUFFICES ASSUME TypeOK, LockInv, LiveJobsHoldPermits, ExecutorInv, DrainedInv, [Next]_vars
             PROVE  DrainedInv'
  OBVIOUS
<1>0. /\ pc \in [Calls -> Steps] /\ fut \in [Jobs -> FutureStates] /\ gen \in [Jobs -> Nat]
      /\ closer \in [Closers -> {"idle", "draining", "done"}]
      /\ Calls \subseteq Jobs /\ WarmJobs \subseteq Jobs /\ closed \in BOOLEAN
      /\ closed => executor \in shut
  BY DEF TypeOK, Jobs, ExecutorInv, NoExecutorLeak
<1> USE <1>0 DEF DrainedInv, Live
<1>1. ASSUME NEW c \in Calls, Call(c) \/ CheckClosed(c) \/ Acquire(c) PROVE DrainedInv'
  BY <1>1 DEF Call, CheckClosed, Acquire, TryFast, OnWait, Enqueue, Wake, QueueTimeout,
     LeaveQueue, Count, Reject
<1>2. ASSUME NEW c \in Calls, Run(c) PROVE DrainedInv'
  <2>1. CASE ReadExecutor(c)
    <3>1. ~Live(c)
      BY <2>1 DEF ReadExecutor, LiveJobsHoldPermits
    <3> QED BY <2>1, <3>1 DEF ReadExecutor
  <2>2. CASE Submit(c)
    BY <2>2 DEF Submit
  <2>3. CASE Await(c) \/ Defer(c)
    BY <2>3 DEF Await, Defer
  <2>4. CASE Cancel(c)
    BY <2>4 DEF Cancel
  <2> QED BY <1>2, <2>1, <2>2, <2>3, <2>4 DEF Run
<1>3. ASSUME NEW c \in Calls, Restart(c) PROVE DrainedInv'
  BY <1>3 DEF Restart, RestartLock, RestartMark, RestartShutdown, RestartSwap, LockInv, Rebuilding
<1>4. ASSUME NEW c \in Calls, Release(c) \/ ReleaseWhenDone(c) PROVE DrainedInv'
  BY <1>4 DEF Release, ReleaseCount, ReleaseSignal, ReleasePeek, MarkReady, ReleaseWhenDone
<1>5. ASSUME NEW k \in Closers, Close(k) PROVE DrainedInv'
  <2>1. CASE CloseBegin(k)
    BY <2>1 DEF CloseBegin, LockInv
  <2>2. CASE CloseEnd(k)
    BY <2>2 DEF CloseEnd, LockInv
  <2> QED BY <1>5, <2>1, <2>2 DEF Close
<1>6. CASE Warmup
  BY <1>6 DEF Warmup, WarmBegin, WarmSubmit, WarmEnd
<1>7. ASSUME NEW j \in Jobs, Worker(j) PROVE DrainedInv'
  BY <1>7 DEF Worker, StartJob, FinishJob
<1>8. ASSUME NEW g \in 0..executor, Manager(g) \/ Break(g) PROVE DrainedInv'
  BY <1>8 DEF Manager, CancelPending, Break
<1>9. CASE UNCHANGED vars
  BY <1>9
<1> QED BY <1>1, <1>2, <1>3, <1>4, <1>5, <1>6, <1>7, <1>8, <1>9 DEF Next, Thread, Terminated

(* Once close() has returned the executor it drained is idle for good,     *)
(* also for a caller that had read _closed before.                         *)
THEOREM ClosedStaysClosed == Spec => []ClosedIsFinal
<1>1. Init => DrainedInv
  BY DEF Init, DrainedInv
<1>2. DrainedInv => ClosedIsFinal
  BY DEF DrainedInv, ClosedIsFinal
<1> QED BY <1>1, <1>2, DrainedStep, TypeCorrect, Locking, LiveJobs, Executors, PTL DEF Spec
=============================================================================
