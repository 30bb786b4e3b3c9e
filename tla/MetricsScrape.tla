---------------------------- MODULE MetricsScrape ----------------------------
(***************************************************************************)
(* GET /metrics: ExpositionCache.exposition (presentation/api/v1/          *)
(* metrics.py) and Metrics.render (infrastructure/telemetry/metrics.py).   *)
(*                                                                         *)
(* render() runs on the worker threadpool while the loop and the rebuilds  *)
(* of the process pool go on; with a TTL an asyncio lock allows one render *)
(* at a time, without one any number.  Time is left out: a cached          *)
(* exposition is fresh until, at some instant, it is not.                  *)
(***************************************************************************)
EXTENDS Integers

CONSTANTS
    Scrapes,      \* the requests for /metrics
    Ttl,          \* the cache is enabled
    MaxRestarts,  \* bound on rebuilds of the process pool
    MaxRequests   \* bound on requests counted

ASSUME ScrapeAssumption == Ttl \in BOOLEAN /\ "free" \notin Scrapes

VARIABLES
    at,        \* per scrape: where it is in exposition() and render()
    total,     \* per scrape: render's total, then its delta
    answer,    \* per scrape: the exposition it renders or is served
    since,     \* history: per scrape, the scrapes answered before it came
    lock,      \* _lock: the scrape that holds it, or "free"
    cached,    \* _content
    fresh,     \* less than one TTL since _rendered_at
    restarts,  \* extractor.restarts
    last,      \* _last_restarts
    counter,   \* worker_restarts_total
    requests   \* requests_total, over all its labels

vars == <<at, total, answer, since, lock, cached, fresh, restarts, last, counter, requests>>

Nothing == [requests |-> -1, restarts |-> -1]
Served == {s \in Scrapes : at[s] = "served"}
Init ==
    /\ at = [s \in Scrapes |-> "out"] /\ total = [s \in Scrapes |-> 0]
    /\ answer = [s \in Scrapes |-> Nothing] /\ since = [s \in Scrapes |-> {}]
    /\ lock = "free" /\ cached = Nothing /\ fresh = FALSE
    /\ restarts = 0 /\ last = 0 /\ counter = 0 /\ requests = 0

Is(s, step) == at[s] = step
Goto(s, step) == at' = [at EXCEPT ![s] = step]
Hit == fresh /\ cached # Nothing
counters == <<restarts, last, counter, requests>>

-----------------------------------------------------------------------------
(* Plausible wrong versions of the steps below: the lock does not wait, or *)
(* is given back before the exposition is kept, or never.                  *)
BugLock(s) == /\ Is(s, "locking") /\ Goto(s, "total") /\ lock' = s
              /\ UNCHANGED <<total, answer, since, cached, fresh, counters>>
BugKeep(s) ==
    /\ Is(s, "keep") /\ Goto(s, "served") /\ cached' = answer[s] /\ fresh' = TRUE
    /\ UNCHANGED <<lock, total, answer, since, counters>>
BugGenerate(s) ==
    /\ Is(s, "generate") /\ Goto(s, "keep") /\ lock' = "free"
    /\ answer' = [answer EXCEPT ![s] = [requests |-> requests, restarts |-> counter]]
    /\ UNCHANGED <<total, since, cached, fresh, counters>>

-----------------------------------------------------------------------------
(* exposition(): from the cache, or on to the lock and render(). *)
Scrape(s) ==
    /\ Is(s, "out") /\ since' = [since EXCEPT ![s] = Served]
    /\ \/ ~Ttl /\ Goto(s, "total") /\ UNCHANGED answer
       \/ Ttl /\ Hit /\ Goto(s, "served") /\ answer' = [answer EXCEPT ![s] = cached]
       \/ Ttl /\ ~Hit /\ Goto(s, "locking") /\ UNCHANGED answer
    /\ UNCHANGED <<total, lock, cached, fresh, counters>>

(* Under the lock the cache is looked at again. *)
Lock(s) ==
    /\ Is(s, "locking") /\ lock = "free"
    /\ \/ Hit /\ Goto(s, "served") /\ answer' = [answer EXCEPT ![s] = cached] /\ UNCHANGED lock
       \/ ~Hit /\ Goto(s, "total") /\ lock' = s /\ UNCHANGED answer
    /\ UNCHANGED <<total, since, cached, fresh, counters>>

(* render(), on a thread: total, delta, the counter, _last_restarts and    *)
(* the exposition itself.                                                  *)
ReadTotal(s) ==
    /\ Is(s, "total") /\ Goto(s, "delta")
    /\ total' = [total EXCEPT ![s] = restarts]
    /\ UNCHANGED <<answer, since, lock, cached, fresh, counters>>
Count(s) ==
    /\ Is(s, "delta") /\ Goto(s, "last")
    /\ counter' = IF total[s] > last THEN counter + total[s] - last ELSE counter
    /\ UNCHANGED <<total, answer, since, lock, cached, fresh, restarts, last, requests>>
StoreLast(s) ==
    /\ Is(s, "last") /\ Goto(s, "generate") /\ last' = total[s]
    /\ UNCHANGED <<total, answer, since, lock, cached, fresh, restarts, counter, requests>>
Generate(s) ==
    /\ Is(s, "generate") /\ Goto(s, IF Ttl THEN "keep" ELSE "served")
    /\ answer' = [answer EXCEPT ![s] = [requests |-> requests, restarts |-> counter]]
    /\ UNCHANGED <<total, since, lock, cached, fresh, counters>>
Render(s) == ReadTotal(s) \/ Count(s) \/ StoreLast(s) \/ Generate(s)

(* Back on the loop: the exposition is kept and the lock given back. *)
Keep(s) ==
    /\ Is(s, "keep") /\ Goto(s, "served")
    /\ cached' = answer[s] /\ fresh' = TRUE /\ lock' = "free"
    /\ UNCHANGED <<total, answer, since, counters>>

Exposition(s) == Scrape(s) \/ Lock(s) \/ Render(s) \/ Keep(s)

(* The TTL lapses; a broken pool is rebuilt; a request is counted. *)
Lapse == fresh /\ fresh' = FALSE /\ UNCHANGED <<at, total, answer, since, lock, cached, counters>>
Restart ==
    /\ restarts < MaxRestarts /\ restarts' = restarts + 1
    /\ UNCHANGED <<at, total, answer, since, lock, cached, fresh, last, counter, requests>>
observe_request ==
    /\ requests < MaxRequests /\ requests' = requests + 1
    /\ UNCHANGED <<at, total, answer, since, lock, cached, fresh, restarts, last, counter>>

Terminated == (\A s \in Scrapes : Is(s, "served")) /\ UNCHANGED vars

Next == (\E s \in Scrapes : Exposition(s)) \/ Lapse \/ Restart \/ observe_request \/ Terminated

Spec == Init /\ [][Next]_vars

(* The loop and the threads run what is due. *)
FairSpec == Spec /\ \A s \in Scrapes : WF_vars(Lock(s) \/ Render(s) \/ Keep(s))

-----------------------------------------------------------------------------
Expositions == [requests : {-1} \cup Nat, restarts : {-1} \cup Nat]

(* Every variable has its type. *)
TypeOK ==
    /\ at \in [Scrapes -> {"out", "locking", "total", "delta", "last", "generate", "keep", "served"}]
    /\ total \in [Scrapes -> Nat]
    /\ answer \in [Scrapes -> Expositions] /\ since \in [Scrapes -> SUBSET Scrapes]
    /\ lock \in Scrapes \cup {"free"} /\ cached \in Expositions /\ fresh \in BOOLEAN
    /\ restarts \in Nat /\ last \in Nat /\ counter \in Nat /\ requests \in Nat

(* What a scrape is served is not older than what was served to any scrape *)
(* answered before it came: counters never go back on the dashboard.       *)
ScrapesGoForward ==
    \A s \in Served : \A t \in since[s] : /\ answer[t].requests <= answer[s].requests
                                          /\ answer[t].restarts <= answer[s].restarts

(* Each rebuild of the pool is counted once, however scrapes and rebuilds  *)
(* interleave (metrics.py 5-6: the delta since the previous scrape).       *)
RestartsCountedOnce ==
    /\ counter <= restarts
    /\ (\A s \in Scrapes : ~Is(s, "last")) => counter = last

(* A scrape waits neither for the lock nor for other renders for ever.     *)
ScrapesAnswered == \A s \in Scrapes : ~Is(s, "out") ~> Is(s, "served")
=============================================================================
