--------------------------- MODULE RequestPipeline ---------------------------
(***************************************************************************)
(* What surrounds the routes, from create_app() to the end of the process  *)
(* (main.py): RequestIdMiddleware, SizeBackstopMiddleware and              *)
(* ConcurrencyLimitMiddleware (infrastructure/middleware/middlewares.py),  *)
(* the exception handlers (presentation/errors/handlers.py), the probes,   *)
(* and the lifespan's end.  It composes the door, whose semaphore is the   *)
(* one of AdmissionGate, LogDispatcher and MetricsScrape.                  *)
(*                                                                         *)
(* Everything but the log thread and render() runs on the event loop: a    *)
(* step is what happens between two awaits.  What an upload's route does   *)
(* is ExtractSystem's matter; here it answers, raises, or never ends.      *)
(***************************************************************************)
EXTENDS Integers, Sequences, FiniteSets

CONSTANTS
    Uploads, Scrapes, Probes,  \* the requests, by what they ask for
    MaxInflight,               \* effective_max_inflight_requests
    Ttl, MaxRestarts,          \* of MetricsScrape
    Levels                     \* PDFEXTRACTOR_LOG_LEVEL, as logging's numbers

Requests == Uploads \cup Scrapes \cup Probes

(* "free", "stop" and "warmed" stand for what is no request. *)
ASSUME PipelineAssumption ==
    /\ IsFiniteSet(Uploads) /\ MaxInflight \in Nat \ {0} /\ Ttl \in BOOLEAN
    /\ Uploads \cap Scrapes = {} /\ Uploads \cap Probes = {} /\ Scrapes \cap Probes = {}
    /\ {"free", "stop", "warmed"} \cap Requests = {} /\ Levels \subseteq Nat

VARIABLES
    place, slots, queue, granted, expired,
    entries, unfinished, worker, hand, written, attached, owner, put, due,
    at, total, answer, since, lock, cached, fresh, restarts, last, counter, requests,
    stage,     \* per request: "new", "came", "app" (in its route), "answered" or "over"
    response,  \* per request: what the client was sent
    echoed,    \* requests whose response carries the correlation id
    life,      \* "created", "warming", "serving", "closing" or "down"
    level      \* the level of both loggers

doorVars == <<place, slots, queue, granted, expired>>
logVars == <<entries, unfinished, worker, hand, written, attached, owner, put, due>>
scrapeVars == <<at, total, answer, since, lock, cached, fresh, restarts, last, counter, requests>>
reqVars == <<stage, response, echoed>>
vars == <<doorVars, logVars, scrapeVars, reqVars, life, level>>

Door == INSTANCE AdmissionGate WITH
    Requests <- Uploads, Capacity <- MaxInflight,
    inUse <- Cardinality({r \in Uploads : place[r] = "in"}),
    waiting <- Cardinality({r \in Uploads : place[r] = "counted"})
Warmed == "warmed"  \* the line warmup() logs, of success or failure
Log == INSTANCE LogDispatcher WITH Records <- Requests \cup {Warmed}
Metrics == INSTANCE MetricsScrape WITH MaxRequests <- Cardinality(Requests)

NOTSET == 0
INFO == 20
WARNING == 30
ERROR == 40
(* A logger call: what is below the logger's level is dropped.             *)
LogAt(severity, record) == IF severity >= level THEN Log!Emit(record) ELSE UNCHANGED logVars

Init ==
    /\ place = [r \in Uploads |-> "out"] /\ slots = MaxInflight /\ queue = <<>>
    /\ granted = {} /\ expired = {}
    /\ Log!Init /\ Metrics!Init
    /\ stage = [r \in Requests |-> "new"] /\ response = [r \in Requests |-> "none"]
    /\ echoed = {} /\ life = "created" /\ level = NOTSET

Stage(r, s) == stage' = [stage EXCEPT ![r] = s]
Came(r) == stage[r] = "came"

(* A response passes send_with_request_id, which counts, logs at INFO and  *)
(* echoes, or echo_request_id, which only echoes.                          *)
Reply(r, what) ==
    /\ response' = [response EXCEPT ![r] = what] /\ echoed' = echoed \cup {r}
    /\ IF r \in Probes THEN UNCHANGED <<logVars, scrapeVars>>
                       ELSE LogAt(INFO, r) /\ Metrics!observe_request

-----------------------------------------------------------------------------
(* Plausible wrong versions of the steps below: the door has no finally or *)
(* no exempt paths, the lifespan flushes before what it closes.            *)
BugUnhandled(r) ==
    /\ r \in Uploads /\ stage[r] = "app" /\ Stage(r, "over")
    /\ response' = [response EXCEPT ![r] = "internal"] /\ LogAt(ERROR, r)
    /\ UNCHANGED <<doorVars, scrapeVars, echoed, life, level>>
BugClosed ==
    /\ life = "closing" /\ life' = "down"
    /\ UNCHANGED <<doorVars, logVars, scrapeVars, reqVars, level>>
BugScrape(r) ==
    /\ r \in Scrapes /\ Came(r) /\ ~Door!Locked /\ Stage(r, "app") /\ Metrics!Scrape(r)
    /\ UNCHANGED <<doorVars, logVars, response, echoed, life, level>>

-----------------------------------------------------------------------------
(* create_app() and the lifespan, up to the warm-up and past it: a warm-up *)
(* logs one line, at WARNING if it fails, and is skipped if warmup is off. *)
Start ==
    /\ life = "created" /\ life' = "warming" /\ level' \in Levels /\ Log!Configure
    /\ UNCHANGED <<doorVars, scrapeVars, reqVars>>
WarmUp ==
    /\ life = "warming" /\ life' = "serving"
    /\ LogAt(INFO, Warmed) \/ LogAt(WARNING, Warmed) \/ UNCHANGED logVars
    /\ UNCHANGED <<doorVars, scrapeVars, reqVars, level>>

(* The server takes a request. *)
Come(r) ==
    /\ life = "serving" /\ stage[r] = "new" /\ Stage(r, "came")
    /\ UNCHANGED <<doorVars, logVars, scrapeVars, response, echoed, life, level>>

(* /health and /ready: no door, no log, no metric. *)
Probe(r) ==
    /\ r \in Probes /\ Came(r) /\ Stage(r, "over") /\ Reply(r, "ok")
    /\ UNCHANGED <<doorVars, life, level>>

(* An upload is refused by its Content-Length before the door, *)
Backstop(r) ==
    /\ r \in Uploads /\ Came(r) /\ place[r] = "out" /\ Stage(r, "over") /\ Reply(r, "oversized")
    /\ UNCHANGED <<doorVars, life, level>>

(* or comes to the door, where it gets in or parks; *)
Knock(r) ==
    /\ r \in Uploads /\ Came(r)
    /\ (Door!Admit(r) /\ Stage(r, "app")) \/ (Door!Park(r) /\ UNCHANGED stage)
    /\ UNCHANGED <<logVars, scrapeVars, response, echoed, life, level>>

(* parked, it gets a slot, or its timer fires and it is shed. *)
GetIn(r) ==
    /\ Door!Resume(r) /\ Stage(r, "app")
    /\ UNCHANGED <<logVars, scrapeVars, response, echoed, life, level>>
TimerFires(r) == Door!TimerFires(r) /\ UNCHANGED <<logVars, scrapeVars, reqVars, life, level>>
Shed(r) ==
    /\ Door!GiveUp(r) /\ Stage(r, "over") /\ Reply(r, "shed")
    /\ UNCHANGED <<life, level>>

(* The route answers, or a handler does for it inside the door, which is   *)
(* one to all that surrounds them; the slot is given back once the         *)
(* response is sent.                                                       *)
Respond(r) ==
    /\ r \in Uploads /\ stage[r] = "app" /\ Stage(r, "answered") /\ Reply(r, "ok")
    /\ UNCHANGED <<doorVars, life, level>>
Leave(r) ==
    /\ r \in Uploads /\ stage[r] = "answered" /\ Stage(r, "over") /\ Door!Release(r)
    /\ UNCHANGED <<logVars, scrapeVars, response, echoed, life, level>>

(* Any other exception unwinds every middleware, the door's finally among  *)
(* them, up to the handler of Exception, which Starlette runs outside them *)
(* all: it logs its own line, and what it sends is the server's.           *)
Unhandled(r) ==
    /\ r \in Uploads /\ stage[r] = "app" /\ Stage(r, "over") /\ Door!Release(r)
    /\ response' = [response EXCEPT ![r] = "internal"] /\ LogAt(ERROR, r)
    /\ UNCHANGED <<scrapeVars, echoed, life, level>>

(* /metrics, past no door either. *)
Scrape(r) ==
    /\ r \in Scrapes /\ Came(r) /\ Stage(r, "app") /\ Metrics!Scrape(r)
    /\ UNCHANGED <<doorVars, logVars, response, echoed, life, level>>
Expose(r) ==
    /\ r \in Scrapes /\ (Metrics!Lock(r) \/ Metrics!Render(r) \/ Metrics!Keep(r))
    /\ UNCHANGED <<doorVars, logVars, reqVars, life, level>>
Exposed(r) ==
    /\ r \in Scrapes /\ stage[r] = "app" /\ at[r] = "served" /\ Stage(r, "over") /\ Reply(r, "ok")
    /\ UNCHANGED <<doorVars, life, level>>

(* The server takes no more requests and waits for those it has; then the  *)
(* lifespan's finally: close() and the thread pool's shutdown, which may   *)
(* wait for ever for an abandoned job, and flush_logging().                *)
Teardown ==
    /\ life = "serving" /\ \A r \in Requests : stage[r] \in {"new", "over"}
    /\ life' = "closing" /\ UNCHANGED <<doorVars, logVars, scrapeVars, reqVars, level>>
Closed ==
    /\ life = "closing" /\ life' = "down" /\ Log!Flush
    /\ UNCHANGED <<doorVars, scrapeVars, reqVars, level>>

(* The atexit hook. *)
Exit ==
    /\ life = "down" /\ Log!Shutdown
    /\ UNCHANGED <<doorVars, scrapeVars, reqVars, life, level>>

LogThread == Log!Work /\ UNCHANGED <<doorVars, scrapeVars, reqVars, life, level>>
MainThread == Log!Own /\ UNCHANGED <<doorVars, scrapeVars, reqVars, life, level>>

(* Time passes, and the pool is rebuilt, whatever goes on here. *)
TimePasses == Metrics!Lapse /\ UNCHANGED <<doorVars, logVars, reqVars, life, level>>
Rebuild == Metrics!Restart /\ UNCHANGED <<doorVars, logVars, reqVars, life, level>>

Terminated == life = "down" /\ owner = "off" /\ UNCHANGED vars

(* What the loop and its threads owe a request that came in, whatever its  *)
(* client or its route does.                                               *)
Due(r) == \/ r \in Uploads /\ (GetIn(r) \/ TimerFires(r) \/ Shed(r) \/ Leave(r))
          \/ Backstop(r) \/ Knock(r) \/ Probe(r) \/ Scrape(r) \/ Expose(r) \/ Exposed(r)

Next ==
    \/ Start \/ WarmUp \/ Teardown \/ Closed \/ Exit \/ LogThread \/ MainThread \/ Terminated
    \/ TimePasses \/ Rebuild
    \/ \E r \in Requests : Come(r) \/ Due(r) \/ Respond(r) \/ Unhandled(r)

Spec == Init /\ [][Next]_vars

(* The loop runs what a probe or a scrape has due, and the threads run. An *)
(* upload may stop anywhere.                                               *)
FairSpec ==
    /\ Spec /\ \A r \in Scrapes \cup Probes : WF_vars(Due(r))
    /\ WF_vars(LogThread) /\ WF_vars(MainThread \/ Exit)

-----------------------------------------------------------------------------
(* Every variable has its type. *)
TypeOK ==
    /\ Door!TypeOK /\ Log!TypeOK /\ Metrics!TypeOK
    /\ stage \in [Requests -> {"new", "came", "app", "answered", "over"}]
    /\ response \in [Requests -> {"none", "ok", "oversized", "shed", "internal"}]
    /\ echoed \subseteq Requests /\ life \in {"created", "warming", "serving", "closing", "down"}
    /\ level \in Levels \cup {NOTSET}

(* The door's slots are held by the uploads inside the application and by  *)
(* nobody else, however a request ends: answered, shed, refused by its     *)
(* size or by an exception; and none is lost while somebody waits.         *)
DoorHoldsWhatItServes ==
    /\ {r \in Uploads : place[r] = "in"} = {r \in Uploads : stage[r] \in {"app", "answered"}}
    /\ Door!SlotAccounting /\ Door!NoLostWakeup

(* Once the lifespan has flushed, every answer but a probe's has its one   *)
(* line on the stream, after that of the warm-up if there was one, as far  *)
(* as the configured level lets it through: the access line is an INFO,    *)
(* the one of an unhandled exception an ERROR.  Whatever is below leaves   *)
(* no line, nor does who got no answer.                                    *)
Severity(what) == IF what = "internal" THEN ERROR ELSE INFO
Logged(r) == response[r] # "none" /\ Severity(response[r]) >= level
AnsweredIsLogged ==
    life = "down" /\ owner # "flushing" =>
        \A r \in Requests \ Probes :
            IF Logged(r)
            THEN \E i \in DOMAIN written : \A j \in DOMAIN written :
                    (written[j] = r <=> i = j) /\ (written[j] = Warmed => j < i)
            ELSE \A j \in DOMAIN written : written[j] # r

(* What flush and shutdown promise, see LogDispatcher. *)
FlushedIsWritten == Log!FlushedIsWritten

(* Probes and scrapes are answered although uploads fill the door and      *)
(* never end (middlewares.py 37-39).                                       *)
ObservabilityAnswered == \A r \in Scrapes \cup Probes : Came(r) ~> stage[r] = "over"

(* Once the process pool is closed, the instance flushes, joins its log    *)
(* thread and is gone.                                                     *)
ShutsDown == life = "down" ~> owner = "off"

(* What middlewares.py 43 and integration.md 17 say: the correlation id is *)
(* echoed, to whatever the client is answered.                             *)
AnswersCarryTheId == \A r \in Requests : response[r] # "none" => r \in echoed
=============================================================================
