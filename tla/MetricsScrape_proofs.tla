------------------------ MODULE MetricsScrape_proofs ------------------------
(***************************************************************************)
(* For any number of scrapes, rebuilds and requests: counters never go     *)
(* back from one exposition to the next and, with the cache enabled, a     *)
(* rebuild is counted once.                                                *)
(***************************************************************************)
EXTENDS MetricsScrape, TLAPS

(* Every variable keeps its type. *)
THEOREM TypeCorrect == Spec => []TypeOK
<1>1. Init => TypeOK
  <2>1. Nothing \in Expositions
    <3>1. -1 \in {-1} \cup Nat
      OBVIOUS
    <3> QED BY <3>1, Zenon DEF Nothing, Expositions
  <2> SUFFICES ASSUME Init PROVE TypeOK
    OBVIOUS
  <2>2. answer \in [Scrapes -> Expositions] /\ cached \in Expositions
    BY <2>1, Zenon DEF Init
  <2> QED BY <2>2 DEF Init, TypeOK
<1>2. TypeOK /\ [Next]_vars => TypeOK'
  <2> SUFFICES ASSUME TypeOK, [Next]_vars PROVE TypeOK'
    OBVIOUS
  <2> USE DEF TypeOK, Is, Goto, counters
  <2>1. ASSUME NEW s \in Scrapes, Scrape(s) PROVE TypeOK'
    BY <2>1 DEF Scrape, Served
  <2>2. ASSUME NEW s \in Scrapes, Lock(s) PROVE TypeOK'
    BY <2>2 DEF Lock
  <2>3. ASSUME NEW s \in Scrapes, ReadTotal(s) PROVE TypeOK'
    BY <2>3 DEF ReadTotal
  <2>4. ASSUME NEW s \in Scrapes, Count(s) PROVE TypeOK'
    BY <2>4 DEF Count
  <2>5. ASSUME NEW s \in Scrapes, StoreLast(s) PROVE TypeOK'
    BY <2>5 DEF StoreLast
  <2>6. ASSUME NEW s \in Scrapes, Generate(s) PROVE TypeOK'
    BY <2>6 DEF Generate, Expositions
  <2>7. ASSUME NEW s \in Scrapes, Keep(s) PROVE TypeOK'
    BY <2>7 DEF Keep
  <2>8. CASE Lapse \/ UNCHANGED vars
    BY <2>8 DEF Lapse, vars
  <2>9. CASE Restart \/ observe_request
    BY <2>9 DEF Restart, observe_request
  <2> QED BY <2>1, <2>2, <2>3, <2>4, <2>5, <2>6, <2>7, <2>8, <2>9
          DEF Next, Exposition, Render, Terminated
<1> QED BY <1>1, <1>2, PTL DEF Spec

-----------------------------------------------------------------------------
(* With the cache enabled, whoever renders holds the lock. *)
Rendering == {"total", "delta", "last", "generate", "keep"}
LockInv == \A s \in Scrapes : at[s] \in Rendering <=> lock = s

(* What the renderer has read is between what was counted and what there   *)
(* is to count.                                                            *)
CountInv ==
    /\ last <= counter /\ counter <= restarts
    /\ \A s \in Scrapes :
          /\ at[s] = "delta" => last <= total[s] /\ total[s] <= restarts
          /\ at[s] = "last" => total[s] = counter
    /\ (\A s \in Scrapes : at[s] # "last") => counter = last

LEMMA LockStep ==
  ASSUME Ttl, TypeOK, LockInv, [Next]_vars PROVE LockInv'
<1> USE ScrapeAssumption DEF TypeOK, LockInv, Rendering, Is, Goto
<1>1. ASSUME NEW s \in Scrapes, Scrape(s) PROVE LockInv'
  BY <1>1 DEF Scrape
<1>2. ASSUME NEW s \in Scrapes, Lock(s) PROVE LockInv'
  BY <1>2 DEF Lock
<1>3. ASSUME NEW s \in Scrapes, Render(s) PROVE LockInv'
  BY <1>3 DEF Render, ReadTotal, Count, StoreLast, Generate
<1>4. ASSUME NEW s \in Scrapes, Keep(s) PROVE LockInv'
  BY <1>4 DEF Keep
<1>5. CASE Lapse \/ Restart \/ observe_request \/ UNCHANGED vars
  BY <1>5 DEF Lapse, Restart, observe_request, vars
<1> QED BY <1>1, <1>2, <1>3, <1>4, <1>5 DEF Next, Exposition, Terminated

LEMMA CountStep ==
  ASSUME Ttl, TypeOK, LockInv, CountInv, [Next]_vars PROVE CountInv'
<1> USE DEF TypeOK, LockInv, Rendering, CountInv, Is, Goto, counters
<1>1. ASSUME NEW s \in Scrapes, Scrape(s) PROVE CountInv'
  BY <1>1 DEF Scrape
<1>2. ASSUME NEW s \in Scrapes, Lock(s) PROVE CountInv'
  BY <1>2 DEF Lock
<1>3. ASSUME NEW s \in Scrapes, ReadTotal(s) PROVE CountInv'
  BY <1>3 DEF ReadTotal
<1>4. ASSUME NEW s \in Scrapes, Count(s) PROVE CountInv'
  <2>1. \A t \in Scrapes : t # s => at[t] \notin Rendering
    BY <1>4 DEF Count
  <2>2. counter = last
    BY <1>4, <2>1 DEF Count
  <2>3. counter' = total[s]
    BY <1>4, <2>2 DEF Count
  <2> QED BY <1>4, <2>1, <2>2, <2>3 DEF Count
<1>5. ASSUME NEW s \in Scrapes, StoreLast(s) PROVE CountInv'
  <2>1. \A t \in Scrapes : t # s => at[t] \notin Rendering
    BY <1>5 DEF StoreLast
  <2> QED BY <1>5, <2>1 DEF StoreLast
<1>6. ASSUME NEW s \in Scrapes, Generate(s) PROVE CountInv'
  BY <1>6 DEF Generate
<1>7. ASSUME NEW s \in Scrapes, Keep(s) PROVE CountInv'
  BY <1>7 DEF Keep
<1>8. CASE Lapse \/ Restart \/ observe_request \/ UNCHANGED vars
  BY <1>8 DEF Lapse, Restart, observe_request, vars
<1> QED BY <1>1, <1>2, <1>3, <1>4, <1>5, <1>6, <1>7, <1>8
        DEF Next, Exposition, Render, Terminated

(* Each rebuild of the pool is counted once (metrics.py 64-72), as long as *)
(* the cache is enabled and its lock keeps the renders apart.              *)
THEOREM CountedOnce == ASSUME Ttl PROVE Spec => []RestartsCountedOnce
<1>1. Init => LockInv /\ CountInv
  BY ScrapeAssumption DEF Init, LockInv, Rendering, CountInv
<1>2. TypeOK /\ LockInv /\ CountInv /\ [Next]_vars => (LockInv /\ CountInv)'
  BY LockStep, CountStep
<1>3. CountInv => RestartsCountedOnce
  BY DEF CountInv, RestartsCountedOnce, Is
<1> QED BY <1>1, <1>2, <1>3, TypeCorrect, PTL DEF Spec

-----------------------------------------------------------------------------
(* What was served is covered by what may be served next: the cache, or    *)
(* the counters if it is disabled.                                         *)
Covers(a, b) == b.requests <= a.requests /\ b.restarts <= a.restarts
Current == [requests |-> requests, restarts |-> counter]

ForwardInv ==
    /\ Ttl => LockInv /\ Covers(Current, cached)
    /\ \A s \in Scrapes :
          /\ at[s] = "locking" => Ttl
          /\ at[s] = "keep" => Ttl /\ Covers(answer[s], cached) /\ Covers(Current, answer[s])
          /\ at[s] = "served" => Covers(IF Ttl THEN cached ELSE Current, answer[s])
          /\ \A t \in since[s] : /\ at[t] = "served"
                                 /\ at[s] = "served" => Covers(answer[s], answer[t])

LEMMA ForwardStep ==
  ASSUME TypeOK, ForwardInv, [Next]_vars PROVE ForwardInv'
<1> USE ScrapeAssumption DEF TypeOK, ForwardInv, Is, Goto, counters, Covers, Current, Expositions
<1>0. Ttl => LockInv'
  BY LockStep
<1>1. ASSUME NEW s \in Scrapes, Scrape(s) PROVE ForwardInv'
  BY <1>0, <1>1 DEF Scrape, Served
<1>2. ASSUME NEW s \in Scrapes, Lock(s) PROVE ForwardInv'
  BY <1>0, <1>2 DEF Lock
<1>3. ASSUME NEW s \in Scrapes, ReadTotal(s) PROVE ForwardInv'
  BY <1>0, <1>3 DEF ReadTotal
<1>4. ASSUME NEW s \in Scrapes, Count(s) PROVE ForwardInv'
  <2>1. counter' >= counter
    BY <1>4 DEF Count
  <2> QED BY <1>0, <1>4, <2>1 DEF Count
<1>5. ASSUME NEW s \in Scrapes, StoreLast(s) PROVE ForwardInv'
  BY <1>0, <1>5 DEF StoreLast
<1>6. ASSUME NEW s \in Scrapes, Generate(s) PROVE ForwardInv'
  BY <1>0, <1>6 DEF Generate
<1>7. ASSUME NEW s \in Scrapes, Keep(s) PROVE ForwardInv'
  BY <1>0, <1>7 DEF Keep, LockInv, Rendering
<1>8. CASE Lapse \/ Restart \/ observe_request \/ UNCHANGED vars
  BY <1>0, <1>8 DEF Lapse, Restart, observe_request, vars
<1> QED BY <1>1, <1>2, <1>3, <1>4, <1>5, <1>6, <1>7, <1>8
        DEF Next, Exposition, Render, Terminated

(* A scrape is never served less than what was served to a scrape answered *)
(* before it came, with the cache or without.                              *)
THEOREM GoForward == Spec => []ScrapesGoForward
<1>1. Init => ForwardInv
  BY ScrapeAssumption
     DEF Init, ForwardInv, LockInv, Rendering, Covers, Current, Nothing
<1>2. TypeOK /\ ForwardInv /\ [Next]_vars => ForwardInv'
  BY ForwardStep
<1>3. ForwardInv => ScrapesGoForward
  BY DEF ForwardInv, ScrapesGoForward, Served, Covers
<1> QED BY <1>1, <1>2, <1>3, TypeCorrect, PTL DEF Spec
=============================================================================
