---------------------------- MODULE AdmissionGate ----------------------------
(***************************************************************************)
(* AdmissionGate of infrastructure/concurrency/admission.py and the        *)
(* asyncio.Semaphore it wraps.                                             *)
(*                                                                         *)
(* Everything runs on one event loop: a step is what the code does between *)
(* two awaits, and only what lies across an await can interleave.  The     *)
(* semaphore (external, Python 3.12) serves its waiters in order.  Its     *)
(* release() hands the slot to the first waiter's future; the waiter's     *)
(* task runs later, and its queue timer may fire before it does: the task  *)
(* then gives the slot it was handed back.                                 *)
(***************************************************************************)
EXTENDS Integers, Sequences, FiniteSets

CONSTANTS Requests,  \* the callers of admit(), each of them once
          Capacity   \* the slots

ASSUME GateAssumption == IsFiniteSet(Requests) /\ Capacity \in Nat \ {0}

VARIABLES
    place,    \* per request: "out", "counted" or "silent" (parked, with or
              \*   without _waiting), "in", "shed" or "left"
    slots,    \* the semaphore's value
    inUse,    \* _in_use
    waiting,  \* _waiting
    queue,    \* the semaphore's deque of waiters, oldest first
    granted,  \* waiters whose future holds a slot
    expired   \* waiters whose queue timer has fired

vars == <<place, slots, inUse, waiting, queue, granted, expired>>

Places == {"out", "counted", "silent", "in", "shed", "left"}

Init ==
    /\ place = [r \in Requests |-> "out"]
    /\ slots = Capacity /\ inUse = 0 /\ waiting = 0
    /\ queue = <<>> /\ granted = {} /\ expired = {}

Parked(r) == place[r] \in {"counted", "silent"}
Put(r, p) == place' = [place EXCEPT ![r] = p]

(* A future that is neither granted nor cancelled; only a live future can  *)
(* be cancelled, so an expired waiter that was granted is not.             *)
Waiting(r) == r \notin granted \cup expired
Cancelled(r) == r \in expired \ granted

saturated == inUse >= Capacity
idle == inUse = 0 /\ waiting = 0

(* Semaphore.locked: no slot, or somebody ahead in the queue. *)
Locked == slots = 0 \/ \E i \in DOMAIN queue : ~Cancelled(queue[i])

(* _wake_up_next, up to k times, over the queue q with v slots: the oldest *)
(* waiters whose future is still open get one each.                        *)
Ahead(q, u, w) == \E i, j \in DOMAIN q : i < j /\ q[i] = u /\ q[j] = w
Open(q, g) == {q[i] : i \in DOMAIN q} \ (g \cup expired)
HandOut(v, k, q, g) ==
    \E W \in SUBSET Open(q, g) :
        /\ Cardinality(W) = k \/ (Cardinality(W) < k /\ W = Open(q, g))
        /\ \A w \in W, u \in Open(q, g) : Ahead(q, u, w) => u \in W
        /\ slots' = v - Cardinality(W) /\ granted' = g \cup W

Without(q, i) == [j \in 1..(Len(q) - 1) |-> IF j < i THEN q[j] ELSE q[j + 1]]

-----------------------------------------------------------------------------
(* Plausible wrong versions of the steps below, none part of Next: each    *)
(* property is shown to reject one of them.                                *)

(* The slot is judged by the counter alone, or taken without looking. *)
BugAdmitCounter(r) == place[r] = "out" /\ ~saturated /\ Put(r, "in") /\ inUse' = inUse + 1
                      /\ slots' = (IF slots > 0 THEN slots - 1 ELSE 0)
                      /\ UNCHANGED <<waiting, queue, granted, expired>>
BugAdmitBlind(r) == place[r] = "out" /\ Put(r, "in") /\ slots' = slots - 1
                    /\ inUse' = inUse + 1 /\ UNCHANGED <<waiting, queue, granted, expired>>

(* Only the callers that look saturated get a queue timer. *)
BugTimerFires(r) == place[r] = "counted" /\ r \notin expired /\ expired' = expired \cup {r}
                    /\ UNCHANGED <<place, slots, inUse, waiting, queue, granted>>

(* No finally around the wait: a caller that is shed stays counted. *)
BugUncount(r) == waiting' = IF place[r] = "counted" /\ r \notin expired THEN waiting - 1
                                                                       ELSE waiting

(* The resumed waiter keeps to itself what was freed meanwhile. *)
BugResume(r) ==
    /\ Parked(r) /\ r \in granted \ expired /\ Put(r, "in") /\ inUse' = inUse + 1
    /\ waiting' = IF place[r] = "counted" THEN waiting - 1 ELSE waiting
    /\ \E i \in DOMAIN queue : queue[i] = r /\ queue' = Without(queue, i)
    /\ granted' = granted \ {r} /\ UNCHANGED <<slots, expired>>

(* The shed waiter stays in the deque. *)
BugGiveUp(r) ==
    /\ Parked(r) /\ r \in expired /\ Put(r, "shed") /\ expired' = expired \ {r}
    /\ waiting' = IF place[r] = "counted" THEN waiting - 1 ELSE waiting
    /\ granted' = granted \ {r}
    /\ slots' = IF r \in granted THEN slots + 1 ELSE slots
    /\ UNCHANGED <<inUse, queue>>

-----------------------------------------------------------------------------
(* admit(): a free slot is taken without ever leaving the task. *)
Admit(r) ==
    /\ place[r] = "out" /\ ~Locked
    /\ Put(r, "in")
    /\ slots' = slots - 1 /\ inUse' = inUse + 1
    /\ UNCHANGED <<waiting, queue, granted, expired>>

(* admit(): otherwise the caller parks.  It is counted only if the gate    *)
(* looked saturated, which it does not between a release and the moment    *)
(* the waiter it granted runs.                                             *)
Park(r) ==
    /\ place[r] = "out" /\ Locked
    /\ IF saturated THEN Put(r, "counted") /\ waiting' = waiting + 1
                    ELSE Put(r, "silent") /\ UNCHANGED waiting
    /\ queue' = Append(queue, r)
    /\ UNCHANGED <<slots, inUse, granted, expired>>

(* The queue timer cancels the task: a no-op for the future if granted. *)
TimerFires(r) ==
    /\ Parked(r) /\ r \notin expired
    /\ expired' = expired \cup {r}
    /\ UNCHANGED <<place, slots, inUse, waiting, queue, granted>>

Uncount(r) == waiting' = IF place[r] = "counted" THEN waiting - 1 ELSE waiting

(* The task of a granted waiter runs, and passes on whatever was freed     *)
(* while it had not run yet.                                               *)
Resume(r) ==
    /\ Parked(r) /\ r \in granted \ expired
    /\ Put(r, "in") /\ Uncount(r) /\ inUse' = inUse + 1
    /\ \E i \in DOMAIN queue :
          /\ queue[i] = r /\ queue' = Without(queue, i)
          /\ HandOut(slots, slots, queue', granted \ {r})
    /\ UNCHANGED expired

(* The task of an expired waiter runs: OverloadError, and a slot it had    *)
(* been handed goes to the next in the queue.                              *)
GiveUp(r) ==
    /\ Parked(r) /\ r \in expired
    /\ Put(r, "shed") /\ Uncount(r)
    /\ expired' = expired \ {r}
    /\ \E i \in DOMAIN queue :
          /\ queue[i] = r /\ queue' = Without(queue, i)
          /\ LET v == IF r \in granted THEN slots + 1 ELSE slots
             IN  HandOut(v, v, queue', granted \ {r})
    /\ UNCHANGED inUse

(* release() hands the slot to one waiter, if there is one. *)
Release(r) ==
    /\ place[r] = "in"
    /\ Put(r, "left") /\ inUse' = inUse - 1
    /\ HandOut(slots + 1, 1, queue, granted)
    /\ UNCHANGED <<waiting, queue, expired>>

Terminated == (\A r \in Requests : place[r] \in {"shed", "left"}) /\ UNCHANGED vars

Task(r) == Resume(r) \/ GiveUp(r)
Next == (\E r \in Requests : Admit(r) \/ Park(r) \/ TimerFires(r) \/ Task(r) \/ Release(r))
        \/ Terminated

Spec == Init /\ [][Next]_vars

(* Timers fire and the loop runs the tasks that are due; whoever holds a   *)
(* slot may keep it for ever.                                              *)
FairSpec == Spec /\ \A r \in Requests : WF_vars(TimerFires(r)) /\ WF_vars(Task(r))

-----------------------------------------------------------------------------
In == {r \in Requests : place[r] = "in"}
CountedWaiters == {r \in Requests : place[r] = "counted"}

(* Every variable has its type; the queue holds requests. *)
TypeOK ==
    /\ place \in [Requests -> Places]
    /\ slots \in 0..Capacity /\ inUse \in 0..Capacity /\ waiting \in Nat
    /\ queue \in Seq(Requests)
    /\ granted \subseteq Requests /\ expired \subseteq Requests

(* Every slot is free, or handed to a waiter that has not run yet, or      *)
(* reserved by exactly one request, whatever timers race the hand-over:    *)
(* saturated and idle, which read the counters, are right about holders.   *)
SlotAccounting ==
    /\ slots + Cardinality(granted) + Cardinality(In) = Capacity
    /\ inUse = Cardinality(In)
    /\ waiting = Cardinality(CountedWaiters)

(* A waiter is in the queue exactly once while it is parked, and only      *)
(* parked waiters are granted or expired.                                  *)
QueueOfParked ==
    /\ \A i, j \in DOMAIN queue : queue[i] = queue[j] => i = j
    /\ {queue[i] : i \in DOMAIN queue} = {r \in Requests : Parked(r)}
    /\ \A r \in granted \cup expired : Parked(r)

(* No wake-up is lost: while a slot is free and somebody waits, a waiter   *)
(* that was handed one is about to run and will pass the free one on.      *)
NoLostWakeup ==
    (slots > 0 /\ \E i \in DOMAIN queue : Waiting(queue[i])) => granted # {}

(* A caller that parks is admitted or shed: it does not wait for ever,     *)
(* even if no slot is ever given back (admission.py 6-8).                  *)
ParkedAreAnswered == \A r \in Requests : Parked(r) ~> place[r] \in {"in", "shed"}

(* admit() and release() are a bounded grant. *)
Grants == INSTANCE BoundedGrants WITH
    Actors <- Requests, held <- In, spent <- {r \in Requests : place[r] = "left"}
GrantsSpec == Grants!Spec
=============================================================================
