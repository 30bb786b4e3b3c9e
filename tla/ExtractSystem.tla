---------------------------- MODULE ExtractSystem ----------------------------
(***************************************************************************)
(* POST /api/v1/extractions (presentation/api/v1/extract.py): the event    *)
(* loop takes a request through the admission gate, the buffer pool and    *)
(* the body reader, hands it to a thread that runs extract() on the        *)
(* process pool, and cleans up.  It composes AdmissionGate, BufferPool and *)
(* ExtractorPool, which share one capacity and the ReadyState.             *)
(*                                                                         *)
(* A request is its call: c in Calls is the request, the thread that       *)
(* serves it and its job.  Where a request stands is where it stands in    *)
(* the admission gate (place) and in the pool (pc): it is reading its body *)
(* while place is "in" and pc is "new".                                    *)
(***************************************************************************)
EXTENDS ExtractorPool

VARIABLES
    place, slots, slotsInUse, slotsWaiting, queue, granted, expired,
    free, created, lent, sink, content,
    returned,  \* calls whose thread is back from extract()
    payload    \* per call: whose document the worker was sent, once it was

admVars == <<place, slots, slotsInUse, slotsWaiting, queue, granted, expired>>
bufVars == <<free, created, lent, sink, content>>
sysVars == <<vars, admVars, bufVars, returned, payload>>

Adm == INSTANCE AdmissionGate WITH
    Requests <- Calls, Capacity <- Permits, inUse <- slotsInUse, waiting <- slotsWaiting
Buf == INSTANCE BufferPool WITH Requests <- Calls, Capacity <- Permits

SysInit == /\ Init /\ Adm!Init /\ Buf!Init
           /\ returned = {} /\ payload = [c \in Calls |-> "unsent"]

-----------------------------------------------------------------------------
(* The event loop. *)

(* Admitted, the request takes a sink in the same step: there is no await  *)
(* between admit() returning and pool.acquire(), which may answer None.    *)
TakeSink(c) == IF Buf!Refuses THEN UNCHANGED bufVars
                              ELSE \E b \in Buf!Buffers : Buf!Lend(c, b)

-----------------------------------------------------------------------------
(* Plausible wrong versions of the steps below, none part of SysNext. *)

(* A shed request degrades readiness. *)
BugExpire(c) == /\ (Adm!TimerFires(c) /\ UNCHANGED overloaded)
                   \/ (Adm!GiveUp(c) /\ overloaded' = TRUE)
                /\ UNCHANGED <<pc, outcome, gateVars, lifeVars, closer, warm, jobVars,
                               bufVars, returned, payload>>

(* The route's own clean-up: it does not wait for the call (BugFinally),   *)
(* or leaves the buffer of a refused body out (BugFinallyBuffer).          *)
CleanUp(c) ==
    /\ place[c] = "in" /\ Adm!Release(c)
    /\ overloaded' = (overloaded /\ ~Adm!idle')
    /\ UNCHANGED <<pc, outcome, gateVars, lifeVars, closer, warm, jobVars, returned, payload>>
BugFinally(c) == CleanUp(c) /\ Buf!GiveBack(c)
BugFinallyBuffer(c) == /\ c \in returned \/ At(c, "new")
                       /\ CleanUp(c)
                       /\ IF c \in returned THEN Buf!GiveBack(c) ELSE UNCHANGED bufVars

-----------------------------------------------------------------------------
Enter(c) ==
    /\ Adm!Admit(c) /\ TakeSink(c)
    /\ UNCHANGED <<vars, returned, payload>>

Park(c) == Adm!Park(c) /\ UNCHANGED <<vars, bufVars, returned, payload>>

Resume(c) ==
    /\ Adm!Resume(c) /\ TakeSink(c)
    /\ UNCHANGED <<vars, returned, payload>>

Expire(c) == (Adm!TimerFires(c) \/ Adm!GiveUp(c))
             /\ UNCHANGED <<vars, bufVars, returned, payload>>

(* The body is framed into the sink and the call goes to a thread; there   *)
(* is always one, the thread pool has Permits of them.                     *)
BodyRead(c) ==
    /\ place[c] = "in" /\ Call(c) /\ Buf!Fill(c)
    /\ UNCHANGED <<admVars, returned, payload>>

(* The route's finally, after the call returned, the body was refused or   *)
(* no sink was lent (which marks the instance overloaded): the buffer goes *)
(* back, then the slot, and the instance is ready if the gate is idle.     *)
Finally(c) ==
    /\ place[c] = "in" /\ (c \in returned \/ At(c, "new"))
    /\ IF c \in lent THEN Buf!GiveBack(c) ELSE UNCHANGED bufVars
    /\ Adm!Release(c)
    /\ overloaded' = ((overloaded \/ c \notin lent) /\ ~Adm!idle')
    /\ UNCHANGED <<pc, outcome, gateVars, lifeVars, closer, warm, jobVars, returned, payload>>

Loop(c) == Enter(c) \/ Park(c) \/ Resume(c) \/ Expire(c) \/ BodyRead(c) \/ Finally(c)

(* The part of it that waits for no client: tasks that are due, timers,    *)
(* and what follows an extraction.                                         *)
Due(c) == Resume(c) \/ Expire(c) \/ (c \in returned /\ Finally(c))

-----------------------------------------------------------------------------
(* Threads, workers and manager threads. *)
ThreadStep(c) ==
    /\ Thread(c)
    /\ returned' = returned \cup {d \in {c} : pc'[d] \in {"deferred", "done"}}
    /\ UNCHANGED <<admVars, bufVars, payload>>

(* The executor's feeder thread serialises the argument, a reference to    *)
(* the pooled buffer, some time after the future was set running.          *)
Send(c) ==
    /\ fut[c] = "running" /\ payload[c] = "unsent"
    /\ payload' = [payload EXCEPT ![c] = content[sink[c]]]
    /\ UNCHANGED <<vars, admVars, bufVars, returned>>

WorkerStep(c) ==
    /\ StartJob(c) \/ (payload[c] # "unsent" /\ FinishJob(c))
    /\ UNCHANGED <<admVars, bufVars, returned, payload>>

ExecutorStep(g) ==
    /\ CancelPending(g) \/ Break(g)
    /\ UNCHANGED <<admVars, bufVars, returned, payload>>

AllQuiet ==
    /\ \A c \in Calls : place[c] \in {"shed", "left"} /\ pc[c] \in {"new", "done"}
    /\ \A c \in Calls : ~Live(c)

SysNext == \/ \E c \in Calls : Loop(c) \/ ThreadStep(c) \/ Send(c) \/ WorkerStep(c)
           \/ \E g \in 0..executor : ExecutorStep(g)
           \/ AllQuiet /\ UNCHANGED sysVars

SysSpec == SysInit /\ [][SysNext]_sysVars

(* The loop and the threads run, timers fire; bodies may never come and    *)
(* jobs never end.                                                         *)
SysFairSpec ==
    /\ SysSpec
    /\ \A c \in Calls : WF_sysVars(Due(c)) /\ WF_sysVars(ThreadStep(c))

-----------------------------------------------------------------------------
(* Every variable has its type. *)
SysTypeOK == /\ TypeOK /\ Adm!TypeOK /\ Buf!TypeOK
             /\ returned \subseteq Calls
             /\ payload \in [Calls -> Calls \cup {"unsent", Buf!Empty}]

(* A sink is free or lent to one request, and none is lost, also when      *)
(* requests are shed, time out or fail while they hold one.                *)
BuffersConserved == Buf!BuffersConserved

(* A reserved slot always owns a buffer (extract.py 57): the two pools of  *)
(* the same capacity never disagree, through timeouts and hand-overs.      *)
SlotOwnsBuffer == lent = {c \in Calls : place[c] = "in"}

(* A response carries the text of the request's own document, although a   *)
(* buffer may be lent again while a job that gave up still refers to it.   *)
OwnDocument ==
    \A c \in Calls : c \in returned /\ outcome[c] = "text" => payload[c] = c

(* An admitted request queues at the pool's gate only behind a job that    *)
(* outlived its request: the two gates of one capacity do not add a queue. *)
GateWaitsOnlyForRunaways ==
    (sem = 0 /\ \E c \in Calls : At(c, "parked"))
        => \E d \in Holders : place[d] # "in" \/ d \in returned

(* Shedding at the admission gate does not degrade readiness (extract.py   *)
(* 47-50): the instance is not ready only after a broken worker or an      *)
(* extraction that timed out.                                              *)
DegradedForAReason ==
    overloaded => broken # {} \/ \E c \in Calls : outcome[c] = "timeout"

(* A request that came in is answered even if jobs never end, once its     *)
(* body is read: it is shed, or its call returns.                          *)
RequestsAnswered ==
    \A c \in Calls : /\ (place[c] \in {"counted", "silent"}) ~> (place[c] \in {"in", "shed"})
                     /\ (place[c] = "in" /\ ~At(c, "new")) ~> (place[c] = "left")

(* What extract.py 10-12 says: the buffer never goes back while an         *)
(* extraction still uses it.                                               *)
JobsReadTheirDocument == \A c \in Calls : payload[c] \in {c, "unsent"}

(* What pool.py 12-13 says, of the whole instance: ready again once        *)
(* drained.                                                                *)
QuietIsReady == AllQuiet => ~overloaded
=============================================================================
