----------------------- MODULE RequestPipeline_proofs -----------------------
(***************************************************************************)
(* What surrounds the routes, for any number of requests and slots: the    *)
(* door holds what it serves, and whoever was answered is in the log.      *)
(*                                                                         *)
(* Every step is a step or a stutter of the door and of the log, whose     *)
(* invariants (DoorP, LogP) so hold here.  The rest is about who logs: a   *)
(* request does so once, as it is answered, and nobody does once the       *)
(* lifespan has begun to close.                                            *)
(***************************************************************************)
EXTENDS RequestPipeline, FiniteSetTheorems, TLAPS

DoorP == INSTANCE AdmissionGate_proofs WITH
    Requests <- Uploads, Capacity <- MaxInflight,
    inUse <- Cardinality({r \in Uploads : place[r] = "in"}),
    waiting <- Cardinality({r \in Uploads : place[r] = "counted"})
LogP == INSTANCE LogDispatcher_proofs WITH Records <- Requests \cup {Warmed}
MetricsP == INSTANCE MetricsScrape_proofs WITH MaxRequests <- Cardinality(Requests)

USE DEF vars, doorVars, logVars, scrapeVars, reqVars, Stage, Came

-----------------------------------------------------------------------------
(* The same door and the same log, under the names of their proofs.        *)
LEMMA Assumptions == DoorP!GateAssumption /\ LogP!StopIsNoRecord
<1>1. \A S : IsFiniteSet(S) <=> DoorP!IsFiniteSet(S)
  BY Zenon DEF DoorP!IsFiniteSet, IsFiniteSet
<1> QED BY <1>1, PipelineAssumption
        DEF DoorP!GateAssumption, LogP!StopIsNoRecord, LogP!Stop, Warmed

DoorStep(r) == Door!Admit(r) \/ Door!Park(r) \/ Door!TimerFires(r) \/ Door!Resume(r)
               \/ Door!GiveUp(r) \/ Door!Release(r)
DoorInv == DoorP!IInv /\ DoorP!NoLostWakeup

LEMMA DoorSame == ASSUME NEW r \in Uploads, DoorStep(r) PROVE DoorP!Next
<1>1. Door!Admit(r) => DoorP!Admit(r)
  BY Zenon DEF Door!Admit, DoorP!Admit, Door!Locked, DoorP!Locked, Door!Cancelled,
     DoorP!Cancelled, Door!Put, DoorP!Put
<1>2. Door!Park(r) => DoorP!Park(r)
  BY Zenon DEF Door!Park, DoorP!Park, Door!Locked, DoorP!Locked, Door!Cancelled,
     DoorP!Cancelled, Door!Put, DoorP!Put, Door!saturated, DoorP!saturated
<1>3. Door!TimerFires(r) => DoorP!TimerFires(r)
  BY Zenon DEF Door!TimerFires, DoorP!TimerFires, Door!Parked, DoorP!Parked
<1>4. Door!Resume(r) => DoorP!Resume(r)
  BY Zenon DEF Door!Resume, DoorP!Resume, Door!Parked, DoorP!Parked, Door!Put, DoorP!Put,
     Door!Uncount, DoorP!Uncount, Door!Without, DoorP!Without, Door!HandOut, DoorP!HandOut,
     Door!Open, DoorP!Open, Door!Ahead, DoorP!Ahead, Door!Cardinality, DoorP!Cardinality
<1>5. Door!GiveUp(r) => DoorP!GiveUp(r)
  BY Zenon DEF Door!GiveUp, DoorP!GiveUp, Door!Parked, DoorP!Parked, Door!Put, DoorP!Put,
     Door!Uncount, DoorP!Uncount, Door!Without, DoorP!Without, Door!HandOut, DoorP!HandOut,
     Door!Open, DoorP!Open, Door!Ahead, DoorP!Ahead, Door!Cardinality, DoorP!Cardinality
<1>6. Door!Release(r) => DoorP!Release(r)
  BY Zenon DEF Door!Release, DoorP!Release, Door!Put, DoorP!Put, Door!HandOut, DoorP!HandOut,
     Door!Open, DoorP!Open, Door!Ahead, DoorP!Ahead, Door!Cardinality, DoorP!Cardinality
<1> QED BY <1>1, <1>2, <1>3, <1>4, <1>5, <1>6, Zenon DEF DoorStep, DoorP!Next, DoorP!Task

LEMMA DoorKeeps == ASSUME DoorInv, NEW r \in Uploads, DoorStep(r) PROVE DoorInv'
BY DoorSame, Assumptions, DoorP!NextIInv, DoorP!WakeStep DEF DoorInv

LEMMA DoorSteps == ASSUME [Next]_vars PROVE (\E r \in Uploads : DoorStep(r)) \/ UNCHANGED doorVars
BY DEF DoorStep, Next, Due, Start, WarmUp, Teardown, Closed, Exit, LogThread, MainThread,
   TimePasses, Rebuild, Terminated, Come, Knock, Scrape, Probe, Backstop, Exposed, Expose, Respond,
   Unhandled, GetIn, TimerFires, Shed, Leave

LEMMA DoorStays == ASSUME DoorInv, UNCHANGED doorVars PROVE DoorInv'
BY Assumptions, DoorP!NextIInv, DoorP!WakeStep DEF DoorInv, DoorP!vars

Inside == {r \in Uploads : place[r] = "in"}

LEMMA DoorMoves ==
  ASSUME DoorInv, NEW r \in Uploads
  PROVE  /\ Door!Admit(r) => place[r] = "out" /\ place' = [place EXCEPT ![r] = "in"]
         /\ Door!Park(r) => /\ place[r] = "out"
                            /\ \E p \in {"counted", "silent"} : place' = [place EXCEPT ![r] = p]
         /\ Door!TimerFires(r) => place' = place
         /\ Door!Resume(r) => place[r] \in {"counted", "silent"} /\ place' = [place EXCEPT ![r] = "in"]
         /\ Door!GiveUp(r) => place[r] \in {"counted", "silent"} /\ place' = [place EXCEPT ![r] = "shed"]
         /\ Door!Release(r) => place[r] = "in" /\ place' = [place EXCEPT ![r] = "left"]
         /\ place \in [Uploads -> DoorP!Places]
BY DEF DoorInv, DoorP!IInv, DoorP!TypeOK, Door!Admit, Door!Resume, Door!Park, Door!TimerFires,
   Door!GiveUp, Door!Release, Door!Put, Door!Parked

-----------------------------------------------------------------------------
LogStep == (\E r \in Requests \cup {Warmed} : Log!Emit(r)) \/ Log!Work \/ Log!Own
           \/ Log!Configure \/ Log!Flush \/ Log!Shutdown

LEMMA LogKeeps == ASSUME LogP!LogInv, LogStep \/ UNCHANGED logVars PROVE LogP!LogInv'
<1>1. ASSUME NEW r, Log!Emit(r) PROVE LogP!Emit(r)
  BY <1>1, Zenon DEF Log!Emit, LogP!Emit, Log!vars, LogP!vars
<1>2. Log!Work => LogP!Work
  BY Zenon DEF Log!Work, LogP!Work, Log!Get, LogP!Get, Log!Handle, LogP!Handle, Log!TaskDone,
     LogP!TaskDone, Log!Stop, LogP!Stop
<1>3. Log!Own => LogP!Own
  BY Zenon DEF Log!Own, LogP!Own, Log!FlushEnd, LogP!FlushEnd, Log!Sentinel, LogP!Sentinel,
     Log!Join, LogP!Join, Log!Detach, LogP!Detach, Log!Stop, LogP!Stop
<1>4. Log!Configure \/ Log!Flush \/ Log!Shutdown => LogP!Configure \/ LogP!Flush \/ LogP!Shutdown
  BY Zenon DEF Log!Configure, LogP!Configure, Log!Flush, LogP!Flush, Log!Shutdown,
     LogP!Shutdown, Log!Stop, LogP!Stop
<1>5. UNCHANGED logVars => UNCHANGED LogP!vars
  BY DEF LogP!vars
<1>6. LogP!Next \/ UNCHANGED LogP!vars
  BY <1>1, <1>2, <1>3, <1>4, <1>5 DEF LogStep, LogP!Next
<1> QED BY <1>6, Assumptions, LogP!LogStep

(* What the steps of the log do to what was put and what is written. *)
LEMMA LogMoves ==
  ASSUME LogP!LogInv
  PROVE  /\ Log!Work \/ Log!Own \/ Log!Flush \/ Log!Shutdown => put' = put /\ Len(written) <= Len(written')
         /\ \A r : Log!Emit(r) => /\ written' = written /\ owner' = owner
                                  /\ attached' = attached
                                  /\ attached => put' = Append(put, r)
         /\ Log!Work => owner' = owner /\ attached' = attached
BY DEF LogP!LogInv, LogP!TypeOK, Log!Work, Log!Get, Log!Handle, Log!TaskDone, Log!Own, Log!FlushEnd,
   Log!Sentinel, Log!Join, Log!Detach, Log!Flush, Log!Shutdown, Log!Emit, Log!vars

-----------------------------------------------------------------------------
(* Where a request is, at the door, in the application and in its life.    *)
Stages == {"new", "came", "app", "answered", "over"}
StageInv ==
  /\ stage \in [Requests -> Stages] /\ life \in {"created", "warming", "serving", "closing", "down"}
  /\ \A r \in Uploads : place[r] = "in" <=> stage[r] \in {"app", "answered"}
  /\ \A r \in Uploads : place[r] \in {"counted", "silent"} => stage[r] = "came"
  /\ life \in {"created", "warming"} => \A r \in Requests : stage[r] = "new"
  /\ life \in {"closing", "down"} => \A r \in Requests : stage[r] \in {"new", "over"}

(* A request goes to another stage, and perhaps to another place.          *)
LEMMA StageMoves ==
  ASSUME DoorInv, StageInv, NEW r \in Requests, NEW s \in Stages, Stage(r, s), life' = life,
         life = "serving",
         \A d \in Uploads : d # r => place'[d] = place[d],
         r \in Uploads => /\ place'[r] = "in" <=> s \in {"app", "answered"}
                          /\ place'[r] \in {"counted", "silent"} => s = "came"
  PROVE  StageInv'
<1>1. stage' \in [Requests -> Stages] /\ stage'[r] = s /\ \A d \in Requests : d # r => stage'[d] = stage[d]
  BY DEF StageInv
<1>2. Uploads \subseteq Requests
  BY DEF Requests
<1> QED BY <1>1, <1>2 DEF StageInv

LEMMA StageStays ==
  ASSUME DoorInv, StageInv, [Next]_vars PROVE StageInv'
<1>0. /\ Uploads \subseteq Requests /\ place \in [Uploads -> DoorP!Places]
      /\ \A r \in Requests : r \notin Uploads <=> r \in Scrapes \cup Probes
      /\ Scrapes \cap Probes = {} /\ Stages = {"new", "came", "app", "answered", "over"}
  BY PipelineAssumption DEF Requests, DoorInv, DoorP!IInv, DoorP!TypeOK, Stages
<1>1. ASSUME NEW r \in Requests, stage[r] \notin {"new", "over"} PROVE life = "serving"
  BY <1>1 DEF StageInv
<1>2. ASSUME NEW r \in Requests, Come(r) PROVE StageInv'
  BY <1>0, <1>2, StageMoves DEF Come, StageInv
<1>3. ASSUME NEW r \in Requests, Backstop(r) \/ Probe(r) \/ Scrape(r) \/ Exposed(r) PROVE StageInv'
  <2>1. life = "serving" /\ UNCHANGED place /\ life' = life
        /\ (r \in Uploads => place[r] = "out" /\ Stage(r, "over"))
        /\ \E s \in {"app", "over"} : Stage(r, s)
    BY <1>0, <1>1, <1>3 DEF Backstop, Probe, Scrape, Exposed
  <2> QED BY <1>0, <2>1, StageMoves
<1>4. ASSUME NEW r \in Uploads, Knock(r) PROVE StageInv'
  <2>1. life = "serving" /\ life' = life /\ stage[r] = "came"
    BY <1>0, <1>1, <1>4 DEF Knock
  <2>2. CASE Door!Admit(r) /\ Stage(r, "app")
    BY <1>0, <2>1, <2>2, DoorMoves, StageMoves
  <2>3. CASE Door!Park(r) /\ UNCHANGED stage
    <3>1. PICK p \in {"counted", "silent"} : place' = [place EXCEPT ![r] = p]
      BY <2>3, DoorMoves
    <3>2. Stage(r, "came")
      BY <1>0, <2>1, <2>3 DEF StageInv
    <3> QED BY <1>0, <2>1, <3>1, <3>2, StageMoves
  <2> QED BY <1>4, <2>2, <2>3 DEF Knock
<1>5. ASSUME NEW r \in Uploads, GetIn(r) \/ Shed(r) PROVE StageInv'
  <2>1. life = "serving" /\ life' = life
    BY <1>0, <1>1, <1>5, DoorMoves DEF GetIn, Shed, StageInv
  <2>2. \/ place' = [place EXCEPT ![r] = "in"] /\ Stage(r, "app")
        \/ place' = [place EXCEPT ![r] = "shed"] /\ Stage(r, "over")
    BY <1>5, DoorMoves DEF GetIn, Shed
  <2> QED BY <1>0, <2>1, <2>2, StageMoves
<1>6. ASSUME NEW r \in Uploads, Respond(r) PROVE StageInv'
  <2>1. life = "serving" /\ life' = life /\ place' = place /\ Stage(r, "answered") /\ place[r] = "in"
    BY <1>0, <1>1, <1>6 DEF Respond, StageInv
  <2> QED BY <1>0, <2>1, StageMoves
<1>7. ASSUME NEW r \in Uploads, Leave(r) \/ Unhandled(r) PROVE StageInv'
  <2>1. life = "serving" /\ life' = life /\ Stage(r, "over")
    BY <1>0, <1>1, <1>7 DEF Leave, Unhandled
  <2>2. place' = [place EXCEPT ![r] = "left"]
    BY <1>7, DoorMoves DEF Leave, Unhandled
  <2> QED BY <1>0, <2>1, <2>2, StageMoves
<1>8. CASE UNCHANGED <<stage, place>> /\ life' = life
  BY <1>8 DEF StageInv
<1>9. CASE Start \/ WarmUp \/ Teardown \/ Closed
  BY <1>0, <1>9 DEF Start, WarmUp, Teardown, Closed, StageInv
<1>10. \/ UNCHANGED <<stage, place>> /\ life' = life
       \/ Start \/ WarmUp \/ Teardown \/ Closed
       \/ \E r \in Requests : Come(r) \/ Backstop(r) \/ Probe(r) \/ Scrape(r) \/ Exposed(r)
       \/ \E r \in Uploads : Knock(r) \/ GetIn(r) \/ Shed(r) \/ Respond(r) \/ Leave(r) \/ Unhandled(r)
  <2>1. ASSUME NEW r \in Uploads, TimerFires(r) PROVE UNCHANGED <<stage, place>> /\ life' = life
    BY <2>1, DoorMoves DEF TimerFires
  <2>2. ASSUME NEW r \in Requests, Expose(r) PROVE UNCHANGED <<stage, place>> /\ life' = life
    BY <2>2 DEF Expose
  <2> QED BY <2>1, <2>2 DEF Next, Due, LogThread, MainThread, TimePasses, Rebuild, Exit, Terminated, Knock,
             Respond, Unhandled
<1> QED BY <1>2, <1>3, <1>4, <1>5, <1>6, <1>7, <1>8, <1>9, <1>10

-----------------------------------------------------------------------------
(* Who logs, and when. *)
Answers(r) ==
  /\ stage[r] \in {"came", "app"} /\ stage'[r] \in {"answered", "over"}
  /\ \E what \in {"ok", "oversized", "shed", "internal"} :
        /\ response' = [response EXCEPT ![r] = what]
        /\ IF r \in Probes THEN UNCHANGED logVars ELSE LogAt(Severity(what), r)

LEMMA Classified ==
  ASSUME DoorInv, StageInv, [Next]_vars
  PROVE  \/ \E r \in Requests : Answers(r) /\ life' = life
         \/ UNCHANGED response /\ ((Start \/ WarmUp \/ Closed \/ Exit \/ LogThread \/ MainThread)
                                   \/ (UNCHANGED logVars /\ (Teardown \/ life' = life)))
<1>0. /\ Uploads \subseteq Requests /\ stage \in [Requests -> Stages]
      /\ \A r \in Uploads : r \notin Probes
      /\ \A r \in Scrapes : r \notin Probes
  BY PipelineAssumption DEF Requests, StageInv
<1>1. ASSUME NEW r \in Requests, Backstop(r) \/ Probe(r) PROVE Answers(r) /\ life' = life
  BY <1>0, <1>1 DEF Backstop, Probe, Reply, Answers, Severity
<1>2. ASSUME NEW r \in Requests, Exposed(r) PROVE Answers(r) /\ life' = life
  BY <1>0, <1>2 DEF Exposed, Reply, Answers, Severity
<1>3. ASSUME NEW r \in Uploads, Shed(r) PROVE Answers(r) /\ life' = life
  <2>1. stage[r] = "came"
    BY <1>3, DoorMoves DEF Shed, StageInv
  <2> QED BY <1>0, <1>3, <2>1 DEF Shed, Reply, Answers, Severity
<1>4. ASSUME NEW r \in Requests, Respond(r) \/ Unhandled(r) PROVE Answers(r) /\ life' = life
  BY <1>0, <1>4 DEF Respond, Unhandled, Reply, Answers, Severity
<1>5. ASSUME NEW r \in Requests, Come(r) \/ Knock(r) \/ Scrape(r) \/ Expose(r)
      PROVE  UNCHANGED response /\ UNCHANGED logVars /\ life' = life
  BY <1>5 DEF Come, Knock, Scrape, Expose
<1>6. ASSUME NEW r \in Uploads, GetIn(r) \/ TimerFires(r) \/ Leave(r)
      PROVE  UNCHANGED response /\ UNCHANGED logVars /\ life' = life
  BY <1>6 DEF GetIn, TimerFires, Leave
<1>7. Start \/ WarmUp \/ Closed \/ Exit \/ LogThread \/ MainThread => UNCHANGED response
  BY DEF Start, WarmUp, Closed, Exit, LogThread, MainThread
<1>8. Teardown \/ TimePasses \/ Rebuild \/ Terminated \/ UNCHANGED vars =>
        UNCHANGED response /\ UNCHANGED logVars /\ (Teardown \/ life' = life)
  BY DEF Teardown, TimePasses, Rebuild, Terminated
<1>9. ASSUME NEW r \in Requests, Come(r) \/ Due(r) \/ Respond(r) \/ Unhandled(r)
      PROVE  \/ Answers(r) /\ life' = life
             \/ UNCHANGED response /\ UNCHANGED logVars /\ life' = life
  BY <1>1, <1>2, <1>3, <1>4, <1>5, <1>6, <1>9, Zenon DEF Due
<1>10. \/ \E r \in Requests : Come(r) \/ Due(r) \/ Respond(r) \/ Unhandled(r)
       \/ Start \/ WarmUp \/ Closed \/ Exit \/ LogThread \/ MainThread
       \/ Teardown \/ TimePasses \/ Rebuild \/ Terminated \/ UNCHANGED vars
  BY Zenon DEF Next
<1>11. CASE \E r \in Requests : Come(r) \/ Due(r) \/ Respond(r) \/ Unhandled(r)
  <2>1. PICK r \in Requests : Come(r) \/ Due(r) \/ Respond(r) \/ Unhandled(r)
    BY <1>11, Zenon
  <2>2. \/ Answers(r) /\ life' = life
        \/ UNCHANGED response /\ UNCHANGED logVars /\ life' = life
    BY <1>9, <2>1, Zenon
  <2> QED BY <2>2, Zenon
<1>12. CASE Start \/ WarmUp \/ Closed \/ Exit \/ LogThread \/ MainThread
  BY <1>7, <1>12
<1>13. CASE Teardown \/ TimePasses \/ Rebuild \/ Terminated \/ UNCHANGED vars
  BY <1>8, <1>13
<1> QED BY <1>10, <1>11, <1>12, <1>13

(* A logger call is a step of the log, or none; the level is set once. *)
LEMMA LogAtIs == ASSUME NEW severity, NEW r, LogAt(severity, r) PROVE Log!Emit(r) \/ UNCHANGED logVars
BY Zenon DEF LogAt

LEMMA LevelKept == ASSUME [Next]_vars PROVE Start \/ level' = level
BY DEF Next, Due, WarmUp, Teardown, Closed, Exit, LogThread, MainThread, TimePasses, Rebuild,
   Terminated, Come, Knock, Scrape, Probe, Backstop, Exposed, Expose, Respond, Unhandled, GetIn,
   TimerFires, Shed, Leave

(* No request goes back to where it had no answer yet. *)
Unanswered == {"new", "came", "app"}
LEMMA Forward ==
  ASSUME DoorInv, StageInv, [Next]_vars, NEW r \in Requests, stage'[r] \in Unanswered
  PROVE  stage[r] \in Unanswered
<1>0. /\ Uploads \subseteq Requests /\ stage \in [Requests -> Stages]
      /\ Unanswered = {"new", "came", "app"}
  BY DEF Requests, StageInv, Unanswered
<1>1. ASSUME NEW d \in Requests,
             Come(d) \/ Knock(d) \/ Scrape(d) \/ Probe(d) \/ Backstop(d) \/ Exposed(d) \/ Expose(d)
             \/ Respond(d) \/ Unhandled(d)
      PROVE  stage[r] \in Unanswered
  BY <1>0, <1>1 DEF Come, Knock, Scrape, Probe, Backstop, Exposed, Expose, Respond, Unhandled
<1>2. ASSUME NEW d \in Uploads, GetIn(d) \/ TimerFires(d) \/ Shed(d) \/ Leave(d)
      PROVE  stage[r] \in Unanswered
  <2>1. GetIn(d) => stage[d] = "came"
    BY <1>0, DoorMoves DEF GetIn, StageInv
  <2> QED BY <1>0, <1>2, <2>1 DEF GetIn, TimerFires, Shed, Leave
<1>3. CASE UNCHANGED stage
  BY <1>3
<1>4. \/ UNCHANGED stage
      \/ \E d \in Requests : Come(d) \/ Knock(d) \/ Scrape(d) \/ Probe(d) \/ Backstop(d) \/ Exposed(d)
                             \/ Expose(d) \/ Respond(d) \/ Unhandled(d)
      \/ \E d \in Uploads : GetIn(d) \/ TimerFires(d) \/ Shed(d) \/ Leave(d)
  BY DEF Next, Due, Start, WarmUp, Teardown, Closed, Exit, LogThread, MainThread, TimePasses, Rebuild, Terminated
<1> QED BY <1>1, <1>2, <1>3, <1>4

-----------------------------------------------------------------------------
(* The log is up before the first request and flushed after the last: once *)
(* the flush has returned, everything put is on the stream.                *)
LifeInv ==
  /\ life = "created" => owner = "off" /\ ~attached /\ put = <<>>
  /\ life \in {"warming", "serving", "closing"} => owner = "up" /\ attached
  /\ life = "warming" => put = <<>>
  /\ life = "down" /\ owner # "flushing" => Len(written) = Len(put)

(* Whoever was answered, is no probe and is let through by the level, was  *)
(* put once, and after the warm-up; nobody else was.                       *)
OnceInv ==
  /\ response \in [Requests -> {"none", "ok", "oversized", "shed", "internal"}]
  /\ \A r \in Requests : stage[r] \in {"new", "came", "app"} => response[r] = "none"
  /\ \A r \in Requests \ Probes : \A i \in 1..Len(put) : put[i] = r => Logged(r)
  /\ \A r \in Requests \ Probes : Logged(r) =>
        \E i \in 1..Len(put) : \A j \in 1..Len(put) : put[j] = r <=> i = j
  /\ \A j \in 1..Len(put) : put[j] = Warmed => j = 1

LEMMA LogSteps ==
  ASSUME DoorInv, StageInv, [Next]_vars PROVE LogStep \/ UNCHANGED logVars
<1>1. ASSUME NEW r \in Requests, Answers(r) PROVE LogStep \/ UNCHANGED logVars
  BY <1>1, LogAtIs DEF Answers, LogStep
<1>2. Start \/ WarmUp \/ Closed \/ Exit \/ LogThread \/ MainThread => LogStep \/ UNCHANGED logVars
  BY LogAtIs DEF Start, WarmUp, Closed, Exit, LogThread, MainThread, LogStep
<1> QED BY <1>1, <1>2, Classified

LEMMA LifeStays ==
  ASSUME DoorInv, StageInv, LogP!LogInv, LogP!LogInv', LifeInv, [Next]_vars PROVE LifeInv'
<1>0. /\ Len(written) \in Nat /\ Len(put) \in Nat /\ Len(written') \in Nat /\ Len(put') \in Nat
      /\ Len(written') <= Len(put') /\ Len(written) <= Len(put)
      /\ life \in {"created", "warming", "serving", "closing", "down"}
  BY DEF LogP!LogInv, LogP!TypeOK, LogP!Prefix, StageInv
<1>1. ASSUME NEW r \in Requests, Answers(r), life' = life PROVE LifeInv'
  <2>1. life = "serving"
    BY <1>1 DEF Answers, StageInv
  <2>2. owner' = owner /\ attached' = attached
    BY <1>1, LogAtIs, LogMoves DEF Answers
  <2> QED BY <1>1, <2>1, <2>2 DEF LifeInv
<1>2. CASE Start
  BY <1>2 DEF Start, Log!Configure, LifeInv
<1>3. CASE WarmUp
  <2>1. owner' = owner /\ attached' = attached /\ life = "warming" /\ life' = "serving"
    BY <1>3, LogAtIs, LogMoves DEF WarmUp
  <2> QED BY <2>1 DEF LifeInv
<1>4. CASE Closed
  BY <1>4 DEF Closed, Log!Flush, LifeInv
<1>5. CASE Exit
  BY <1>0, <1>5 DEF Exit, Log!Shutdown, LifeInv
<1>6. CASE LogThread
  <2>1. /\ life' = life /\ owner' = owner /\ attached' = attached /\ put' = put
        /\ Len(written) <= Len(written')
    BY <1>6, LogMoves DEF LogThread
  <2> QED BY <1>0, <2>1 DEF LifeInv
<1>7. CASE MainThread
  <2>1. life' = life /\ put' = put /\ Len(written) <= Len(written') /\ Log!Own
    BY <1>7, LogMoves DEF MainThread
  <2>2. life = "down"
    BY <1>0, <2>1 DEF LifeInv, Log!Own, Log!FlushEnd, Log!Sentinel, Log!Join, Log!Detach
  <2>3. CASE owner = "flushing"
    <3>1. unfinished = 0 /\ written' = written
      BY <2>1, <2>3 DEF Log!Own, Log!FlushEnd, Log!Sentinel, Log!Join, Log!Detach
    <3>2. Len(written) = Len(put)
      BY <2>3, <3>1, LogP!Joined
    <3> QED BY <2>1, <2>2, <3>1, <3>2 DEF LifeInv
  <2>4. CASE owner # "flushing"
    BY <1>0, <2>1, <2>2, <2>4 DEF LifeInv
  <2> QED BY <2>3, <2>4
<1>8. CASE UNCHANGED logVars /\ (Teardown \/ life' = life)
  BY <1>8 DEF Teardown, LifeInv
<1> QED BY <1>1, <1>2, <1>3, <1>4, <1>5, <1>6, <1>7, <1>8, Classified

LEMMA OnceStays ==
  ASSUME DoorInv, StageInv, LogP!LogInv, LifeInv, OnceInv, [Next]_vars PROVE OnceInv'
<1>0. /\ put \in Seq(Requests \cup {Warmed}) /\ Len(put) \in Nat /\ Warmed \notin Requests
      /\ \A r \in Requests : stage'[r] \in {"new", "came", "app"} => stage[r] \in {"new", "came", "app"}
  BY PipelineAssumption, Forward DEF LogP!LogInv, LogP!TypeOK, Warmed, Unanswered
<1>1. ASSUME NEW r \in Requests, Answers(r), life' = life PROVE OnceInv'
  <2>1. /\ life = "serving" /\ attached
        /\ stage[r] \in {"came", "app"} /\ stage'[r] \notin {"new", "came", "app"}
        /\ response[r] = "none" /\ level' = level
    BY <1>1, LevelKept DEF Answers, StageInv, LifeInv, OnceInv, Start
  <2>2. /\ response'[r] # "none" /\ \A d \in Requests : d # r => response'[d] = response[d]
        /\ response' \in [Requests -> {"none", "ok", "oversized", "shed", "internal"}]
        /\ IF r \in Probes THEN UNCHANGED logVars ELSE LogAt(Severity(response'[r]), r)
    BY <1>1 DEF Answers, OnceInv
  <2>3. \A d \in Requests : stage'[d] \in {"new", "came", "app"} => response'[d] = "none"
    BY <1>0, <2>1, <2>2 DEF OnceInv
  <2>4. \A d \in Requests : d # r => (Logged(d)' <=> Logged(d))
    BY <2>1, <2>2 DEF Logged, Severity
  <2>5. /\ ~Logged(r) /\ (r \in Requests \ Probes => \A i \in 1..Len(put) : put[i] # r)
        /\ Logged(r)' <=> Severity(response'[r]) >= level
    BY <2>1, <2>2 DEF Logged, OnceInv
  <2>6. CASE r \in Probes \/ ~Logged(r)'
    <3>1. put' = put
      BY <2>2, <2>5, <2>6 DEF LogAt
    <3> QED BY <1>0, <2>2, <2>3, <2>4, <2>5, <2>6, <3>1 DEF OnceInv
  <2>7. CASE r \notin Probes /\ Logged(r)'
    <3>1. put' = Append(put, r)
      <4>1. Log!Emit(r)
        BY <2>2, <2>5, <2>7, Zenon DEF LogAt
      <4> QED BY <2>1, <4>1, LogMoves
    <3>2. /\ Len(put') = Len(put) + 1 /\ put'[Len(put) + 1] = r
          /\ \A i \in 1..Len(put) : put'[i] = put[i] /\ put[i] # r
      BY <1>0, <2>5, <2>7, <3>1
    <3>3. ASSUME NEW d \in Requests \ Probes, NEW i \in 1..Len(put'), put'[i] = d
          PROVE  Logged(d)'
      BY <1>0, <2>4, <2>7, <3>2, <3>3 DEF OnceInv
    <3>4. ASSUME NEW d \in Requests \ Probes, Logged(d)'
          PROVE  \E i \in 1..Len(put') : \A j \in 1..Len(put') : put'[j] = d <=> i = j
      <4>1. CASE d = r
        <5>1. \A j \in 1..Len(put') : put'[j] = d <=> Len(put) + 1 = j
          BY <1>0, <3>2, <4>1
        <5> QED BY <1>0, <3>2, <5>1
      <4>2. CASE d # r
        <5>1. PICK i \in 1..Len(put) : \A j \in 1..Len(put) : put[j] = d <=> i = j
          BY <2>4, <3>4, <4>2 DEF OnceInv
        <5>2. \A j \in 1..Len(put') : put'[j] = d <=> i = j
          BY <1>0, <3>2, <4>2, <5>1
        <5> QED BY <1>0, <3>2, <5>2
      <4> QED BY <4>1, <4>2
    <3>5. ASSUME NEW j \in 1..Len(put'), put'[j] = Warmed PROVE j = 1
      BY <1>0, <3>2, <3>5 DEF OnceInv
    <3> QED BY <2>2, <2>3, <3>3, <3>4, <3>5 DEF OnceInv
  <2> QED BY <2>6, <2>7
<1>2. CASE (Start \/ WarmUp) /\ UNCHANGED response
  <2>1. \A d \in Requests : stage[d] = "new" /\ stage'[d] = "new" /\ response[d] = "none"
    BY <1>2 DEF Start, WarmUp, StageInv, OnceInv
  <2>2. put = <<>> /\ (put' = <<>> \/ put' = <<Warmed>>)
    <3>1. CASE Start
      BY <3>1 DEF Start, LifeInv, Log!Configure
    <3>2. CASE WarmUp
      <4>1. put = <<>> /\ attached
        BY <3>2 DEF WarmUp, LifeInv
      <4>2. CASE Log!Emit(Warmed)
        <5>1. put' = Append(put, Warmed)
          BY <4>1, <4>2, LogMoves, Zenon
        <5> QED BY <4>1, <5>1
      <4>3. CASE UNCHANGED logVars
        BY <4>1, <4>3
      <4> QED BY <3>2, <4>2, <4>3, LogAtIs, Zenon DEF WarmUp
    <3> QED BY <1>2, <3>1, <3>2
  <2>3. \A d \in Requests : ~Logged(d)'
    BY <1>2, <2>1 DEF Logged
  <2> QED BY <1>0, <1>2, <2>1, <2>2, <2>3 DEF OnceInv
<1>3. CASE UNCHANGED <<response, put, level>>
  <2>1. \A d \in Requests : Logged(d)' <=> Logged(d)
    BY <1>3 DEF Logged, Severity
  <2> QED BY <1>0, <1>3, <2>1 DEF OnceInv
<1>4. Closed \/ Exit \/ LogThread \/ MainThread => put' = put
  BY LogMoves DEF Closed, Exit, LogThread, MainThread
<1>5. CASE Start
  BY <1>2, <1>5 DEF Start
<1> QED BY <1>1, <1>2, <1>3, <1>4, <1>5, Classified, LevelKept

-----------------------------------------------------------------------------
(* All of it holds of every run. *)
PipeInv == DoorInv /\ LogP!LogInv /\ StageInv /\ LifeInv /\ OnceInv

LEMMA Begins == Init => PipeInv
<1> SUFFICES ASSUME Init PROVE PipeInv
  OBVIOUS
<1>1. DoorInv
  <2>1. DoorP!Init
    <3>1. {r \in Uploads : place[r] = "in"} = {} /\ {r \in Uploads : place[r] = "counted"} = {}
      BY DEF Init
    <3>2. Cardinality({}) = 0
      BY FS_EmptySet
    <3> QED BY <3>1, <3>2 DEF Init, DoorP!Init
  <2>2. DoorP!NoLostWakeup
    BY DEF Init, DoorP!NoLostWakeup
  <2> QED BY <2>1, <2>2, Assumptions, DoorP!InitIInv DEF DoorInv
<1>2. LogP!LogInv
  <2>1. LogP!Init
    BY Zenon DEF Init, Log!Init, LogP!Init, Log!Stop, LogP!Stop
  <2> QED BY <2>1, LogP!LogInit
<1>3. StageInv
  BY DEF Init, StageInv, Stages, Requests
<1>4. LifeInv /\ OnceInv
  BY DEF Init, Log!Init, LifeInv, OnceInv, Logged
<1> QED BY <1>1, <1>2, <1>3, <1>4 DEF PipeInv

LEMMA Holds == Spec => []PipeInv
<1>1. PipeInv /\ [Next]_vars => PipeInv'
  <2> SUFFICES ASSUME PipeInv, [Next]_vars PROVE PipeInv'
    OBVIOUS
  <2>1. LogP!LogInv'
    BY LogSteps, LogKeeps DEF PipeInv
  <2>2. DoorInv'
    BY DoorSteps, DoorKeeps, DoorStays DEF PipeInv
  <2> QED BY <2>1, <2>2, StageStays, LifeStays, OnceStays DEF PipeInv
<1> QED BY Begins, <1>1, PTL DEF Spec

(* The door's slots are held by what is inside the application, also when  *)
(* a route raises, and none is lost (middlewares.py 98-110).               *)
THEOREM DoorHolds == Spec => []DoorHoldsWhatItServes
<1>1. PipeInv => DoorHoldsWhatItServes
  <2> SUFFICES ASSUME PipeInv PROVE DoorHoldsWhatItServes
    OBVIOUS
  <2>1. DoorP!SlotAccounting /\ DoorP!NoLostWakeup
    BY DEF PipeInv, DoorInv, DoorP!IInv
  <2>2. Door!SlotAccounting
    BY <2>1, Zenon DEF Door!SlotAccounting, DoorP!SlotAccounting, Door!In, DoorP!In,
       Door!CountedWaiters, DoorP!CountedWaiters, Door!Cardinality, DoorP!Cardinality
  <2>3. Door!NoLostWakeup
    BY <2>1, Zenon DEF Door!NoLostWakeup, DoorP!NoLostWakeup, Door!Waiting, DoorP!Waiting
  <2>4. {r \in Uploads : place[r] = "in"} = {r \in Uploads : stage[r] \in {"app", "answered"}}
    BY DEF PipeInv, StageInv
  <2> QED BY <2>2, <2>3, <2>4 DEF DoorHoldsWhatItServes
<1> QED BY <1>1, Holds, PTL

(* flush_logging() and shutdown_logging() return with what was put before  *)
(* them on the stream, in the order of the calls.                          *)
THEOREM Flushed == Spec => []FlushedIsWritten
<1>1. PipeInv => FlushedIsWritten
  <2> SUFFICES ASSUME PipeInv PROVE FlushedIsWritten
    OBVIOUS
  <2>1. LogP!FlushedIsWritten
    BY LogP!FlushedFollows DEF PipeInv
  <2> QED BY <2>1, Zenon DEF FlushedIsWritten, Log!FlushedIsWritten, LogP!FlushedIsWritten
<1> QED BY <1>1, Holds, PTL

(* After the lifespan has flushed, every answer has its one line on the    *)
(* stream, after that of the warm-up, unless the configured level drops    *)
(* it, and nothing else has one (main.py 105-112, logging_.py 127-130).    *)
THEOREM AnswersAreLogged == Spec => []AnsweredIsLogged
<1>1. PipeInv => AnsweredIsLogged
  <2> SUFFICES ASSUME PipeInv, life = "down", owner # "flushing", NEW r \in Requests \ Probes
               PROVE  IF Logged(r)
                      THEN \E i \in DOMAIN written : \A j \in DOMAIN written :
                             (written[j] = r <=> i = j) /\ (written[j] = Warmed => j < i)
                      ELSE \A j \in DOMAIN written : written[j] # r
    BY DEF AnsweredIsLogged
  <2>1. /\ DOMAIN written = 1..Len(put) /\ \A j \in 1..Len(put) : written[j] = put[j]
        /\ Len(put) \in Nat /\ Warmed # r
    BY PipelineAssumption DEF PipeInv, LogP!LogInv, LogP!TypeOK, LogP!Prefix, LifeInv, Warmed
  <2>2. CASE Logged(r)
    <3>1. PICK i \in 1..Len(put) : \A j \in 1..Len(put) : put[j] = r <=> i = j
      BY <2>2 DEF PipeInv, OnceInv
    <3>2. ASSUME NEW j \in 1..Len(put), put[j] = Warmed PROVE j < i
      BY <2>1, <3>1, <3>2 DEF PipeInv, OnceInv
    <3> QED BY <2>1, <2>2, <3>1, <3>2
  <2>3. CASE ~Logged(r)
    BY <2>1, <2>3 DEF PipeInv, OnceInv
  <2> QED BY <2>2, <2>3
<1> QED BY <1>1, Holds, PTL

-----------------------------------------------------------------------------
(* The process takes no liberty with its parts: seen through their own     *)
(* variables, every step is one of theirs, or none.                        *)

(* The door is used as AdmissionGate is specified. *)
THEOREM ImplementsDoor == Spec => Door!Spec
<1>1. Init => Door!Init
  <2>1. Init => /\ {r \in Uploads : place[r] = "in"} = {}
                /\ {r \in Uploads : place[r] = "counted"} = {}
    BY DEF Init
  <2>2. Cardinality({}) = 0
    BY FS_EmptySet
  <2> QED BY <2>1, <2>2 DEF Init, Door!Init
<1>2. [Next]_vars => [Door!Next]_(Door!vars)
  <2>1. ASSUME NEW r \in Uploads, DoorStep(r) PROVE Door!Next
    BY <2>1, Zenon DEF DoorStep, Door!Next, Door!Task
  <2>2. ASSUME UNCHANGED doorVars PROVE UNCHANGED Door!vars
    BY <2>2 DEF Door!vars
  <2> QED BY <2>1, <2>2, DoorSteps
<1> QED BY <1>1, <1>2, PTL DEF Spec, Door!Spec

(* The log is used as LogDispatcher is specified, whoever logs. *)
THEOREM ImplementsLog == Spec => Log!Spec
<1>1. Init => Log!Init
  BY DEF Init
<1>2. PipeInv /\ [Next]_vars => [Log!Next]_(Log!vars)
  <2> SUFFICES ASSUME PipeInv, [Next]_vars PROVE Log!Next \/ UNCHANGED Log!vars
    OBVIOUS
  <2>1. LogStep \/ UNCHANGED logVars
    BY LogSteps DEF PipeInv
  <2> QED BY <2>1, Zenon DEF LogStep, Log!Next, Log!vars, logVars
<1> QED BY <1>1, <1>2, Holds, PTL DEF Spec, Log!Spec

(* So are the metrics: scrapes, rebuilds and counted answers. *)
Exposes(r) == Metrics!Scrape(r) \/ Metrics!Lock(r) \/ Metrics!Render(r) \/ Metrics!Keep(r)

LEMMA MetricsSteps ==
  ASSUME [Next]_vars
  PROVE  \/ \E r \in Scrapes : Exposes(r)
         \/ Metrics!Lapse \/ Metrics!Restart \/ Metrics!observe_request
         \/ UNCHANGED scrapeVars
<1>1. ASSUME NEW r \in Requests, Come(r) \/ Knock(r) \/ GetIn(r) \/ TimerFires(r) \/ Leave(r)
                                 \/ Unhandled(r)
      PROVE  UNCHANGED scrapeVars
  BY <1>1, Zenon DEF Come, Knock, GetIn, TimerFires, Leave, Unhandled
<1>2. ASSUME NEW r \in Requests, Probe(r) \/ Backstop(r) \/ Shed(r) \/ Respond(r) \/ Exposed(r)
      PROVE  Metrics!observe_request \/ UNCHANGED scrapeVars
  BY <1>2, Zenon DEF Probe, Backstop, Shed, Respond, Exposed, Reply
<1>3. ASSUME NEW r \in Requests, Scrape(r) \/ Expose(r)
      PROVE  r \in Scrapes /\ Exposes(r)
  BY <1>3, Zenon DEF Scrape, Expose, Exposes
<1>4. ASSUME NEW r \in Requests, Come(r) \/ Due(r) \/ Respond(r) \/ Unhandled(r)
      PROVE  \/ r \in Scrapes /\ Exposes(r)
             \/ Metrics!observe_request \/ UNCHANGED scrapeVars
  BY <1>1, <1>2, <1>3, <1>4, Zenon DEF Due
<1>5. ASSUME \/ Start \/ WarmUp \/ Teardown \/ Closed \/ Exit \/ LogThread \/ MainThread
             \/ Terminated \/ UNCHANGED vars
      PROVE  UNCHANGED scrapeVars
  BY <1>5 DEF Start, WarmUp, Teardown, Closed, Exit, LogThread, MainThread, Terminated
<1>6. TimePasses \/ Rebuild => Metrics!Lapse \/ Metrics!Restart
  BY DEF TimePasses, Rebuild
<1>7. CASE \E r \in Requests : Come(r) \/ Due(r) \/ Respond(r) \/ Unhandled(r)
  <2>1. PICK r \in Requests : Come(r) \/ Due(r) \/ Respond(r) \/ Unhandled(r)
    BY <1>7, Zenon
  <2> QED BY <1>4, <2>1, Zenon
<1> QED BY <1>5, <1>6, <1>7, Zenon DEF Next

(* Scrapes render, cache and count as MetricsScrape is specified, while    *)
(* the middlewares count answers and the pool is rebuilt.                  *)
THEOREM ImplementsScrapes == Spec => Metrics!Spec
<1>1. Init => Metrics!Init
  BY DEF Init
<1>2. [Next]_vars => [Metrics!Next]_(Metrics!vars)
  BY MetricsSteps, Zenon DEF Exposes, Metrics!Next, Metrics!Exposition, Metrics!vars, scrapeVars
<1> QED BY <1>1, <1>2, PTL DEF Spec, Metrics!Spec

-----------------------------------------------------------------------------
(* What is proved of the parts alone so holds in the process.  The door    *)
(* promises what every gate does, see BoundedGrants.                       *)
THEOREM DoorGrants == Spec => Door!GrantsSpec
<1> DEFINE Left == {r \in Uploads : place[r] = "left"}
<1>1. Init => DoorP!Init
  <2>1. Init => /\ {r \in Uploads : place[r] = "in"} = {}
                /\ {r \in Uploads : place[r] = "counted"} = {}
    BY DEF Init
  <2>2. Cardinality({}) = 0
    BY FS_EmptySet
  <2> QED BY <2>1, <2>2 DEF Init, DoorP!Init
<1>2. [Next]_vars => [DoorP!Next]_(DoorP!vars)
  <2>1. ASSUME UNCHANGED doorVars PROVE UNCHANGED DoorP!vars
    BY <2>1 DEF DoorP!vars
  <2> QED BY <2>1, DoorSame, DoorSteps
<1>3. DoorP!GateAssumption
  BY Assumptions
<1>4. DoorP!Grants!Init => Door!Grants!Init
  BY Zenon DEF DoorP!Grants!Init, Door!Grants!Init, DoorP!In, Door!In
<1>5. /\ DoorP!In = Door!In
      /\ \A S : DoorP!Grants!Cardinality(S) = Door!Grants!Cardinality(S)
  BY Zenon DEF DoorP!In, Door!In, DoorP!Grants!Cardinality, Door!Grants!Cardinality
<1>6. ASSUME NEW r
      PROVE  /\ DoorP!Grants!Grant(r) => Door!Grants!Grant(r)
             /\ DoorP!Grants!GiveBack(r) => Door!Grants!GiveBack(r)
  BY <1>5, Zenon DEF DoorP!Grants!Grant, Door!Grants!Grant, DoorP!Grants!GiveBack,
     Door!Grants!GiveBack, Door!In, DoorP!In
<1>7. [DoorP!Grants!Next]_<<DoorP!In, Left>> => [Door!Grants!Next]_<<Door!In, Left>>
  BY <1>6, Zenon DEF DoorP!Grants!Next, Door!Grants!Next, Door!In, DoorP!In
<1>8. Spec => DoorP!GrantsSpec
  BY <1>1, <1>2, <1>3, DoorP!ImplementsGrants, PTL DEF Spec, DoorP!Spec
<1> QED BY <1>4, <1>7, <1>8, PTL
        DEF DoorP!GrantsSpec, DoorP!Grants!Spec, Door!GrantsSpec, Door!Grants!Spec

(* The same metrics, under the names of their proofs. *)
LEMMA MetricsSame == MetricsP!ScrapeAssumption /\ (Spec => MetricsP!Spec)
<1>1. Init => MetricsP!Init
  BY Zenon DEF Init, Metrics!Init, MetricsP!Init, Metrics!Nothing, MetricsP!Nothing
<1>2. [Next]_vars => [MetricsP!Next]_(MetricsP!vars)
  <2>1. ASSUME NEW r, Exposes(r) PROVE MetricsP!Exposition(r)
    <3>1. Metrics!Nothing = MetricsP!Nothing
      BY Zenon DEF Metrics!Nothing, MetricsP!Nothing
    <3>2. (Metrics!Hit <=> MetricsP!Hit) /\ Metrics!Served = MetricsP!Served
          /\ Metrics!counters = MetricsP!counters
      BY <3>1, Zenon DEF Metrics!Hit, MetricsP!Hit, Metrics!Served, MetricsP!Served,
         Metrics!counters, MetricsP!counters
    <3>3. Metrics!Scrape(r) => MetricsP!Scrape(r)
      BY <3>1, <3>2, Zenon DEF Metrics!Scrape, MetricsP!Scrape, Metrics!Is, MetricsP!Is,
         Metrics!Goto, MetricsP!Goto, Metrics!counters, MetricsP!counters
    <3>4. Metrics!Lock(r) => MetricsP!Lock(r)
      BY <3>1, <3>2, Zenon DEF Metrics!Lock, MetricsP!Lock, Metrics!Is, MetricsP!Is,
         Metrics!Goto, MetricsP!Goto, Metrics!counters, MetricsP!counters
    <3>5. Metrics!Keep(r) => MetricsP!Keep(r)
      BY Zenon DEF Metrics!Keep, MetricsP!Keep, Metrics!Is, MetricsP!Is,
         Metrics!Goto, MetricsP!Goto, Metrics!counters, MetricsP!counters
    <3>6. Metrics!Render(r) => MetricsP!Render(r)
      BY Zenon DEF Metrics!Render, MetricsP!Render, Metrics!ReadTotal, MetricsP!ReadTotal,
         Metrics!Count, MetricsP!Count, Metrics!StoreLast, MetricsP!StoreLast,
         Metrics!Generate, MetricsP!Generate,
         Metrics!Is, MetricsP!Is,
         Metrics!Goto, MetricsP!Goto, Metrics!counters, MetricsP!counters
    <3> QED BY <2>1, <3>3, <3>4, <3>5, <3>6, Zenon DEF Exposes, MetricsP!Exposition
  <2>2. Metrics!Lapse \/ Metrics!Restart \/ Metrics!observe_request => MetricsP!Next
    BY Zenon DEF Metrics!Lapse, Metrics!Restart, Metrics!observe_request, MetricsP!Next,
       MetricsP!Lapse, MetricsP!Restart, MetricsP!observe_request,
       Metrics!counters, MetricsP!counters
  <2>3. UNCHANGED scrapeVars => UNCHANGED MetricsP!vars
    BY DEF MetricsP!vars
  <2> QED BY <2>1, <2>2, <2>3, MetricsSteps, Zenon DEF MetricsP!Next
<1>3. MetricsP!ScrapeAssumption
  BY PipelineAssumption DEF MetricsP!ScrapeAssumption, Requests
<1> QED BY <1>1, <1>2, <1>3, PTL DEF Spec, MetricsP!Spec

(* Whatever else goes on in the process, the counters a scrape is answered *)
(* with are not behind those of an earlier answer (metrics.py 40-60).      *)
THEOREM Forwards == Spec => []Metrics!ScrapesGoForward
<1>1. MetricsP!ScrapesGoForward => Metrics!ScrapesGoForward
  BY Zenon DEF MetricsP!ScrapesGoForward, Metrics!ScrapesGoForward, MetricsP!Served, Metrics!Served
<1> QED BY <1>1, MetricsSame, MetricsP!GoForward, PTL

(* With the cache on, a rebuild of the pool is counted once. *)
THEOREM RebuildsCountedOnce == ASSUME Ttl PROVE Spec => []Metrics!RestartsCountedOnce
<1>1. MetricsP!RestartsCountedOnce => Metrics!RestartsCountedOnce
  BY Zenon DEF MetricsP!RestartsCountedOnce, Metrics!RestartsCountedOnce, MetricsP!Is, Metrics!Is
<1> QED BY <1>1, MetricsSame, MetricsP!CountedOnce, PTL

-----------------------------------------------------------------------------
(* What is counted: the answers of the middlewares, each once. *)
CountInv ==
  /\ echoed \subseteq Requests /\ IsFiniteSet(echoed)
  /\ \A r \in echoed : stage[r] \in {"answered", "over"}
  /\ requests = Cardinality(echoed \ Probes)

Replies(r) ==
  /\ stage[r] \in {"came", "app"} /\ stage'[r] \in {"answered", "over"}
  /\ echoed' = echoed \cup {r}
  /\ requests' = IF r \in Probes THEN requests ELSE requests + 1

LEMMA RepliesOrNot ==
  ASSUME DoorInv, StageInv, [Next]_vars
  PROVE  (\E r \in Requests : Replies(r)) \/ UNCHANGED <<echoed, requests>>
<1>0. /\ Uploads \subseteq Requests /\ stage \in [Requests -> Stages]
      /\ \A r \in Requests : r \notin Uploads <=> r \in Scrapes \cup Probes
      /\ Scrapes \cap Probes = {}
  BY PipelineAssumption DEF Requests, StageInv
<1>1. ASSUME NEW r \in Requests, \E what \in {"ok", "oversized", "shed"} : Reply(r, what),
             stage[r] \in {"came", "app"}, Stage(r, "over") \/ Stage(r, "answered")
      PROVE  Replies(r)
  <2>1. echoed' = echoed \cup {r} /\ stage'[r] \in {"answered", "over"}
    BY <1>0, <1>1 DEF Reply
  <2>2. requests' = IF r \in Probes THEN requests ELSE requests + 1
    BY <1>1 DEF Reply, Metrics!observe_request
  <2> QED BY <1>1, <2>1, <2>2 DEF Replies
<1>2. ASSUME NEW r \in Requests, Probe(r) \/ Backstop(r) \/ Exposed(r) \/ Respond(r) PROVE Replies(r)
  BY <1>1, <1>2, Zenon DEF Probe, Backstop, Exposed, Respond
<1>3. ASSUME NEW r \in Uploads, Shed(r) PROVE Replies(r)
  <2>1. stage[r] = "came"
    BY <1>3, DoorMoves DEF Shed, StageInv
  <2> QED BY <1>0, <1>1, <1>3, <2>1 DEF Shed
<1>4. ASSUME NEW r \in Requests, Come(r) \/ Knock(r) \/ GetIn(r) \/ TimerFires(r) \/ Leave(r)
                                 \/ Unhandled(r)
      PROVE  UNCHANGED <<echoed, requests>>
  BY <1>4, Zenon DEF Come, Knock, GetIn, TimerFires, Leave, Unhandled
<1>5. ASSUME NEW r \in Requests, Scrape(r) \/ Expose(r) PROVE UNCHANGED <<echoed, requests>>
  BY <1>5 DEF Scrape, Expose, Metrics!Scrape, Metrics!Lock, Metrics!Render, Metrics!Keep,
     Metrics!ReadTotal, Metrics!Count, Metrics!StoreLast, Metrics!Generate, Metrics!counters
<1>6. ASSUME \/ Start \/ WarmUp \/ Teardown \/ Closed \/ Exit \/ LogThread \/ MainThread
             \/ Terminated \/ UNCHANGED vars
      PROVE  UNCHANGED <<echoed, requests>>
  BY <1>6 DEF Start, WarmUp, Teardown, Closed, Exit, LogThread, MainThread, Terminated
<1>7. TimePasses \/ Rebuild => UNCHANGED <<echoed, requests>>
  BY DEF TimePasses, Rebuild, Metrics!Lapse, Metrics!Restart, Metrics!counters
<1>8. CASE \E r \in Requests : Come(r) \/ Due(r) \/ Respond(r) \/ Unhandled(r)
  <2>1. PICK r \in Requests : Come(r) \/ Due(r) \/ Respond(r) \/ Unhandled(r)
    BY <1>8, Zenon
  <2> QED BY <1>2, <1>3, <1>4, <1>5, <2>1, Zenon DEF Due
<1> QED BY <1>6, <1>7, <1>8, Zenon DEF Next

LEMMA CountStays == ASSUME DoorInv, StageInv, StageInv', CountInv, [Next]_vars PROVE CountInv'
<1>1. ASSUME NEW r \in echoed PROVE stage'[r] \in {"answered", "over"}
  <2>1. stage[r] \notin Unanswered /\ r \in Requests
    BY DEF CountInv, Unanswered
  <2>2. stage'[r] \in Stages /\ stage'[r] \notin Unanswered
    BY <2>1, Forward DEF StageInv
  <2> QED BY <2>2 DEF Stages, Unanswered
<1>2. CASE UNCHANGED <<echoed, requests>>
  BY <1>1, <1>2 DEF CountInv
<1>3. ASSUME NEW r \in Requests, Replies(r) PROVE CountInv'
  <2>1. r \notin echoed /\ echoed' = echoed \cup {r} /\ IsFiniteSet(echoed)
    BY <1>3 DEF Replies, CountInv
  <2>2. IsFiniteSet(echoed') /\ IsFiniteSet(echoed \ Probes)
    BY <2>1, FS_AddElement, FS_Subset
  <2>3. requests' = Cardinality(echoed' \ Probes)
    <3>1. CASE r \in Probes
      <4>1. echoed' \ Probes = echoed \ Probes
        BY <2>1, <3>1
      <4> QED BY <1>3, <3>1, <4>1 DEF Replies, CountInv
    <3>2. CASE r \notin Probes
      <4>1. echoed' \ Probes = (echoed \ Probes) \cup {r} /\ r \notin echoed \ Probes
        BY <2>1, <3>2
      <4>2. Cardinality(echoed' \ Probes) = Cardinality(echoed \ Probes) + 1
        BY <2>2, <4>1, FS_AddElement
      <4> QED BY <1>3, <3>2, <4>2 DEF Replies, CountInv
    <3> QED BY <3>1, <3>2
  <2>4. \A d \in echoed' : stage'[d] \in {"answered", "over"}
    BY <1>1, <1>3, <2>1 DEF Replies
  <2> QED BY <1>3, <2>1, <2>2, <2>3, <2>4 DEF CountInv
<1> QED BY <1>2, <1>3, RepliesOrNot

LEMMA Counts == Spec => []CountInv
<1>1. Init => CountInv
  <2> SUFFICES ASSUME Init PROVE CountInv
    OBVIOUS
  <2>1. echoed = {} /\ echoed \ Probes = {} /\ requests = 0
    BY DEF Init, Metrics!Init
  <2> QED BY <2>1, FS_EmptySet DEF CountInv
<1>2. PipeInv /\ PipeInv' /\ CountInv /\ [Next]_vars => CountInv'
  BY CountStays DEF PipeInv
<1> QED BY <1>1, <1>2, Holds, PTL DEF Spec

(* requests_total is the number of requests that were answered through     *)
(* send_with_request_id, each once: an unhandled exception is not among    *)
(* them, a probe neither (middlewares.py 66-107).                          *)
THEOREM AnswersAreCounted == Spec => [](requests = Cardinality(echoed \ Probes))
<1>1. CountInv => requests = Cardinality(echoed \ Probes)
  BY DEF CountInv
<1> QED BY <1>1, Counts, PTL

(* The bound on what MetricsScrape counts binds nothing here: no answer    *)
(* waits for it.                                                           *)
THEOREM NoAnswerIsBound ==
  ASSUME IsFiniteSet(Requests)
  PROVE  Spec => [](\A r \in Requests : stage[r] \in Unanswered => requests < Cardinality(Requests))
<1>1. ASSUME CountInv, NEW r \in Requests, stage[r] \in Unanswered
      PROVE  requests < Cardinality(Requests)
  <2>1. echoed \ Probes \subseteq Requests \ {r}
    BY <1>1 DEF CountInv, Unanswered
  <2>2. Cardinality(Requests \ {r}) = Cardinality(Requests) - 1 /\ IsFiniteSet(Requests \ {r})
    BY FS_RemoveElement
  <2>3. Cardinality(echoed \ Probes) <= Cardinality(Requests \ {r})
        /\ Cardinality(echoed \ Probes) \in Nat /\ Cardinality(Requests) \in Nat
    BY <2>1, <2>2, FS_Subset, FS_CardinalityType
  <2> QED BY <1>1, <2>2, <2>3 DEF CountInv
<1>2. CountInv => \A r \in Requests : stage[r] \in Unanswered => requests < Cardinality(Requests)
  BY <1>1
<1> QED BY <1>2, Counts, PTL
=============================================================================
