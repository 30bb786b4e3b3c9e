------------------------ MODULE ExtractSystem_proofs ------------------------
(***************************************************************************)
(* The composition, for every finite set of requests, every capacity and   *)
(* any number of breaks.                                                   *)
(*                                                                         *)
(* Every step of the system is a step or a stutter of the gate at the      *)
(* door, of the buffer pool and, but for the readiness the route itself    *)
(* sets, of the extractor pool, so the invariants proved of the three hold *)
(* of the whole (AdmP, the theorems of the buffers below, and              *)
(* ExtractorPool_proofs).  What is new is the link between them: a slot    *)
(* owns a buffer, the buffer of a call that is still waited for holds that *)
(* call's document, and only a call that gave up leaves a job behind.      *)
(***************************************************************************)
EXTENDS ExtractSystem, ExtractorPool_proofs

AdmP == INSTANCE AdmissionGate_proofs WITH
    Requests <- Calls, Capacity <- Permits, inUse <- slotsInUse, waiting <- slotsWaiting

USE DEF vars, gateVars, lifeVars, jobVars, admVars, bufVars, At, Goto, Settle

-----------------------------------------------------------------------------
(* The same gate under the name of its proofs, and one way of counting. *)
LEMMA CardinalitySame ==
  \A S : /\ Buf!Cardinality(S) = Cardinality(S)
         /\ Adm!Cardinality(S) = Cardinality(S) /\ AdmP!Cardinality(S) = Cardinality(S)
BY Zenon DEF Buf!Cardinality, Cardinality, Adm!Cardinality, AdmP!Cardinality

LEMMA Assumptions == AdmP!GateAssumption /\ Permits \in Nat \ {0} /\ IsFiniteSet(Calls)
<1>1. \A S : IsFiniteSet(S) <=> AdmP!IsFiniteSet(S)
  BY Zenon DEF IsFiniteSet, AdmP!IsFiniteSet
<1> QED BY <1>1, PoolAssumption DEF AdmP!GateAssumption

AdmStep(c) == Adm!Admit(c) \/ Adm!Park(c) \/ Adm!TimerFires(c) \/ Adm!Resume(c)
              \/ Adm!GiveUp(c) \/ Adm!Release(c)

LEMMA AdmSame == ASSUME NEW c \in Calls, AdmStep(c) PROVE AdmP!Next
<1>1. Adm!Admit(c) => AdmP!Admit(c)
  BY Zenon DEF Adm!Admit, AdmP!Admit, Adm!Locked, AdmP!Locked, Adm!Cancelled,
     AdmP!Cancelled, Adm!Put, AdmP!Put
<1>2. Adm!Park(c) => AdmP!Park(c)
  BY Zenon DEF Adm!Park, AdmP!Park, Adm!Locked, AdmP!Locked, Adm!Cancelled, AdmP!Cancelled,
     Adm!Put, AdmP!Put, Adm!saturated, AdmP!saturated
<1>3. Adm!TimerFires(c) => AdmP!TimerFires(c)
  BY Zenon DEF Adm!TimerFires, AdmP!TimerFires, Adm!Parked, AdmP!Parked
<1>4. Adm!Resume(c) => AdmP!Resume(c)
  BY Zenon DEF Adm!Resume, AdmP!Resume, Adm!Parked, AdmP!Parked, Adm!Put, AdmP!Put,
     Adm!Uncount, AdmP!Uncount, Adm!Without, AdmP!Without, Adm!HandOut, AdmP!HandOut,
     Adm!Open, AdmP!Open, Adm!Ahead, AdmP!Ahead, Adm!Cardinality, AdmP!Cardinality
<1>5. Adm!GiveUp(c) => AdmP!GiveUp(c)
  BY Zenon DEF Adm!GiveUp, AdmP!GiveUp, Adm!Parked, AdmP!Parked, Adm!Put, AdmP!Put,
     Adm!Uncount, AdmP!Uncount, Adm!Without, AdmP!Without, Adm!HandOut, AdmP!HandOut,
     Adm!Open, AdmP!Open, Adm!Ahead, AdmP!Ahead, Adm!Cardinality, AdmP!Cardinality
<1>6. Adm!Release(c) => AdmP!Release(c)
  BY Zenon DEF Adm!Release, AdmP!Release, Adm!Put, AdmP!Put, Adm!HandOut, AdmP!HandOut,
     Adm!Open, AdmP!Open, Adm!Ahead, AdmP!Ahead, Adm!Cardinality, AdmP!Cardinality
<1> QED BY <1>1, <1>2, <1>3, <1>4, <1>5, <1>6, Zenon DEF AdmStep, AdmP!Next, AdmP!Task

LEMMA AdmKeeps ==
  ASSUME AdmP!IInv, NEW c \in Calls, AdmStep(c) PROVE AdmP!IInv'
BY AdmSame, Assumptions, AdmP!NextIInv

LEMMA AdmStays == ASSUME AdmP!IInv, UNCHANGED admVars PROVE AdmP!IInv'
BY Assumptions, AdmP!Stutters DEF admVars, AdmP!vars

(* Who is inside, and what a step does to it. *)
Inside == {c \in Calls : place[c] = "in"}

LEMMA AdmMoves ==
  ASSUME AdmP!IInv, NEW c \in Calls
  PROVE  /\ Adm!Admit(c) \/ Adm!Resume(c) => c \notin Inside /\ Inside' = Inside \cup {c}
         /\ Adm!Park(c) \/ Adm!TimerFires(c) \/ Adm!GiveUp(c) => Inside' = Inside
         /\ Adm!Release(c) => c \in Inside /\ Inside' = Inside \ {c}
         /\ AdmStep(c) => \A d \in Calls \ {c} : place'[d] = place[d]
<1>1. place \in [Calls -> AdmP!Places]
  BY DEF AdmP!IInv, AdmP!TypeOK
<1> QED BY <1>1 DEF Inside, AdmStep, Adm!Admit, Adm!Resume, Adm!Park, Adm!TimerFires, Adm!GiveUp,
     Adm!Release, Adm!Put, Adm!Parked

(* Whoever comes in finds room: somebody else may be inside, not Permits.  *)
LEMMA RoomInside ==
  ASSUME AdmP!IInv, NEW c \in Calls, Adm!Admit(c) \/ Adm!Resume(c)
  PROVE  Cardinality(Inside) < Permits
<1>1. /\ slots \in Nat /\ slots + Cardinality(granted) + Cardinality(Inside) = Permits
      /\ granted \subseteq Calls /\ Inside \subseteq Calls
  <2>1. AdmP!In = Inside
    BY DEF AdmP!In, Inside
  <2> QED BY <2>1, Assumptions, CardinalitySame DEF AdmP!IInv, AdmP!TypeOK, AdmP!SlotAccounting, Inside
<1>2. IsFiniteSet(granted) /\ Cardinality(granted) \in Nat /\ Cardinality(Inside) \in Nat
  BY <1>1, Assumptions, FS_Subset, FS_CardinalityType
<1>3. slots > 0 \/ Cardinality(granted) > 0
  <2>1. CASE Adm!Admit(c)
    BY <1>1, <2>1 DEF Adm!Admit, Adm!Locked
  <2>2. CASE Adm!Resume(c)
    <3>1. granted # {}
      BY <2>2 DEF Adm!Resume
    <3> QED BY <1>2, <3>1, FS_EmptySet
  <2> QED BY <2>1, <2>2
<1> QED BY <1>1, <1>2, <1>3, Assumptions

-----------------------------------------------------------------------------
(* BufferPool on its own: it lends each sink to one request at a time and  *)
(* loses none.                                                             *)
BufInv == Buf!TypeOK /\ Buf!BuffersConserved
BufStep(c) == Buf!Fill(c) \/ Buf!GiveBack(c) \/ \E b \in Buf!Buffers : Buf!Lend(c, b)

(* The books of the buffers, in the system's words. *)
BufTypes ==
  /\ created \in 0..Permits /\ free \subseteq 1..created /\ lent \subseteq Calls
  /\ sink \in [Calls -> 0..Permits]
  /\ content \in [1..Permits -> Calls \cup {"empty"}]
BufLoans ==
  /\ \A r \in lent : sink[r] \in 1..created /\ sink[r] \notin free
  /\ \A r, s \in lent : sink[r] = sink[s] => r = s
BufCounts == Cardinality(free) + Cardinality(lent) = created

LEMMA BufBooks == BufInv <=> BufTypes /\ BufLoans /\ BufCounts
<1>1. Buf!BuffersConserved <=> BufLoans /\ free \subseteq 1..created /\ BufCounts
  BY CardinalitySame, Zenon DEF Buf!BuffersConserved, BufLoans, BufCounts
<1>2. ASSUME created \in 0..Permits, free \subseteq 1..created PROVE free \subseteq 1..Permits
  BY <1>2, Assumptions
<1>3. free \subseteq 1..created => (Buf!TypeOK <=> BufTypes)
  BY <1>2 DEF Buf!TypeOK, BufTypes, Buf!Buffers, Buf!Empty
<1> QED BY <1>1, <1>3 DEF BufInv, BufTypes

LEMMA BufBooksNext == BufInv' <=> BufTypes' /\ BufLoans' /\ BufCounts'
BY BufBooks, PTL

(* The two sets that are counted are finite. *)
LEMMA BufFinite ==
  ASSUME BufInv
  PROVE  /\ IsFiniteSet(free) /\ IsFiniteSet(lent)
         /\ Cardinality(free) \in Nat /\ Cardinality(lent) \in Nat /\ created \in Nat
<1>1. created \in Nat /\ 1 \in Int /\ created \in Int /\ free \subseteq 1..created /\ lent \subseteq Calls
  BY BufBooks DEF BufTypes
<1>2. IsFiniteSet(1..created)
  BY <1>1, FS_Interval
<1>3. IsFiniteSet(free) /\ IsFiniteSet(lent)
  BY <1>1, <1>2, Assumptions, FS_Subset
<1> QED BY <1>1, <1>3, FS_CardinalityType

LEMMA BufBegins == ASSUME Buf!Init PROVE BufInv
<1>1. BufTypes
  BY Assumptions DEF Buf!Init, BufTypes, Buf!Buffers, Buf!Empty
<1>2. BufLoans
  BY DEF Buf!Init, BufLoans
<1>3. BufCounts
  BY FS_EmptySet DEF Buf!Init, BufCounts
<1> QED BY <1>1, <1>2, <1>3, BufBooks

LEMMA BufLends == ASSUME BufInv, NEW c \in Calls, NEW b \in 1..Permits, Buf!Lend(c, b) PROVE BufInv'
<1>1. /\ c \notin lent /\ lent' = lent \cup {c} /\ sink' = [sink EXCEPT ![c] = b]
      /\ content' = [content EXCEPT ![b] = "empty"]
      /\ \/ b \in free /\ free' = free \ {b} /\ created' = created
         \/ free = {} /\ created < Permits /\ b = created + 1 /\ created' = b /\ free' = free
  BY DEF Buf!Lend, Buf!Empty
<1>2. BufTypes /\ BufLoans /\ BufCounts
  BY BufBooks
<1>3. /\ sink' \in [Calls -> 0..Permits] /\ content' \in [1..Permits -> Calls \cup {"empty"}]
      /\ sink'[c] = b /\ \A d \in Calls : d # c => sink'[d] = sink[d]
  BY <1>1, <1>2, Assumptions DEF BufTypes
<1>4. Cardinality(lent') = Cardinality(lent) + 1
  BY <1>1, BufFinite, FS_AddElement
<1>5. CASE b \in free /\ free' = free \ {b} /\ created' = created
  <2>1. Cardinality(free') = Cardinality(free) - 1
    BY <1>5, BufFinite, FS_RemoveElement
  <2>2. BufCounts'
    BY <1>2, <1>4, <1>5, <2>1, BufFinite DEF BufCounts
  <2>3. BufTypes'
    BY <1>1, <1>2, <1>3, <1>5 DEF BufTypes
  <2>4. BufLoans'
    BY <1>1, <1>2, <1>3, <1>5 DEF BufLoans, BufTypes
  <2> QED BY <2>2, <2>3, <2>4, BufBooksNext
<1>6. CASE free = {} /\ created < Permits /\ b = created + 1 /\ created' = b /\ free' = free
  <2>1. created' \in 0..Permits /\ 1..created \subseteq 1..created' /\ b \in 1..created'
    BY <1>2, <1>6, Assumptions DEF BufTypes
  <2>2. BufCounts'
    BY <1>2, <1>4, <1>6, BufFinite DEF BufCounts
  <2>3. BufTypes'
    BY <1>1, <1>2, <1>3, <1>6, <2>1 DEF BufTypes
  <2>4. BufLoans'
    <3>1. \A d \in lent : sink[d] # b
      BY <1>2, <1>6 DEF BufLoans, BufTypes
    <3> QED BY <1>1, <1>2, <1>3, <1>6, <2>1, <3>1 DEF BufLoans, BufTypes
  <2> QED BY <2>2, <2>3, <2>4, BufBooksNext
<1> QED BY <1>1, <1>5, <1>6

LEMMA BufGivesBack == ASSUME BufInv, NEW c \in Calls, Buf!GiveBack(c) PROVE BufInv'
<1>1. /\ c \in lent /\ lent' = lent \ {c} /\ UNCHANGED <<created, sink, content>>
      /\ free' = IF Cardinality(free) < Permits THEN free \cup {sink[c]} ELSE free
  BY CardinalitySame DEF Buf!GiveBack
<1>2. BufTypes /\ BufLoans /\ BufCounts
  BY BufBooks
<1>3. Cardinality(lent') = Cardinality(lent) - 1 /\ Cardinality(lent') \in Nat
  <2>1. Cardinality(lent') = Cardinality(lent) - 1 /\ IsFiniteSet(lent')
    BY <1>1, BufFinite, FS_RemoveElement
  <2> QED BY <2>1, FS_CardinalityType
<1>4. free' = free \cup {sink[c]} /\ sink[c] \notin free /\ sink[c] \in 1..created
  <2>1. Cardinality(free) < Permits
    BY <1>2, <1>3, Assumptions, BufFinite DEF BufTypes, BufCounts
  <2> QED BY <1>1, <1>2, <2>1 DEF BufLoans
<1>5. Cardinality(free') = Cardinality(free) + 1
  BY <1>4, BufFinite, FS_AddElement
<1>6. BufCounts'
  BY <1>1, <1>2, <1>3, <1>5, BufFinite DEF BufCounts
<1>7. BufTypes'
  BY <1>1, <1>2, <1>4 DEF BufTypes
<1>8. BufLoans'
  BY <1>1, <1>2, <1>4 DEF BufLoans, BufTypes
<1> QED BY <1>6, <1>7, <1>8, BufBooksNext

LEMMA BufStays == ASSUME BufInv, UNCHANGED bufVars PROVE BufInv'
BY BufBooks, BufBooksNext DEF bufVars, BufTypes, BufLoans, BufCounts

LEMMA BufKeeps == ASSUME BufInv, NEW c \in Calls, BufStep(c) PROVE BufInv'
<1>1. CASE Buf!Fill(c)
  <2>1. UNCHANGED <<free, created, lent, sink>> /\ content' = [content EXCEPT ![sink[c]] = c]
    BY <1>1 DEF Buf!Fill
  <2>2. content \in [1..Permits -> Calls \cup {"empty"}]
        => content' \in [1..Permits -> Calls \cup {"empty"}]
    BY <2>1
  <2>3. BufTypes' /\ BufLoans' /\ BufCounts'
    BY <2>1, <2>2, BufBooks DEF BufTypes, BufLoans, BufCounts
  <2> QED BY <2>3, BufBooksNext
<1> QED BY <1>1, BufLends, BufGivesBack DEF BufStep, Buf!Buffers

(* Every run of the pool keeps the books: a sink is free or lent to one    *)
(* request, and none is lost (pool.py 16-35).                              *)
THEOREM Conservation == Buf!Spec => [](Buf!TypeOK /\ Buf!BuffersConserved)
<1>1. Buf!Init => BufInv
  BY BufBegins
<1>2. BufInv /\ [Buf!Next]_(Buf!vars) => BufInv'
  BY BufKeeps, BufStays DEF Buf!Next, Buf!vars, BufStep, bufVars
<1>3. BufInv => Buf!TypeOK /\ Buf!BuffersConserved
  BY DEF BufInv
<1> QED BY <1>1, <1>2, <1>3, PTL DEF Buf!Spec

(* acquire() answers None only when every buffer is in use. *)
THEOREM Refusals == Buf!Spec => []Buf!RefusesOnlyWhenLentOut
<1>1. BufInv => Buf!RefusesOnlyWhenLentOut
  <2> SUFFICES ASSUME BufInv, Buf!Refuses PROVE Cardinality(lent) = Permits
    BY CardinalitySame DEF Buf!RefusesOnlyWhenLentOut
  <2>1. Cardinality(free) = 0 /\ created >= Permits
    BY FS_EmptySet DEF Buf!Refuses
  <2> QED BY <2>1, Assumptions, BufBooks, BufFinite DEF BufTypes, BufCounts
<1>2. Buf!TypeOK /\ Buf!BuffersConserved => BufInv
  BY DEF BufInv
<1> QED BY <1>1, <1>2, Conservation, PTL

-----------------------------------------------------------------------------
(* Pool: the invariants of ExtractorPool; with the route's Finally, which  *)
(* only touches readiness, every step of the system keeps them.            *)
PoolInv == TypeOK /\ GateAccounting /\ LiveJobsHoldPermits

LEMMA PoolSteps ==
  ASSUME [SysNext]_sysVars
  PROVE  [Next]_vars \/ \E c \in Calls : Finally(c)
<1>1. ASSUME NEW c \in Calls, Loop(c) PROVE [Next]_vars \/ Finally(c)
  BY <1>1 DEF Loop, Enter, Park, Resume, Expire, BodyRead, Next
<1>2. ASSUME NEW c \in Calls, ThreadStep(c) \/ Send(c) \/ WorkerStep(c) PROVE [Next]_vars
  BY <1>2 DEF ThreadStep, Send, WorkerStep, Next, Worker, Jobs
<1>3. ASSUME NEW g \in 0..executor, ExecutorStep(g) PROVE [Next]_vars
  BY <1>3 DEF ExecutorStep, Next, Manager
<1>4. CASE UNCHANGED sysVars
  BY <1>4 DEF sysVars
<1> QED BY <1>1, <1>2, <1>3, <1>4 DEF SysNext

LEMMA PoolStays == ASSUME PoolInv, [SysNext]_sysVars PROVE PoolInv'
<1>1. CASE [Next]_vars
  BY <1>1, TypeStep, AccountingStep, LiveStep DEF PoolInv
<1>2. ASSUME NEW c \in Calls, Finally(c) PROVE PoolInv'
  <2>1. /\ UNCHANGED <<pc, outcome, gateVars, lifeVars, closer, warm, jobVars>>
        /\ overloaded' \in BOOLEAN
    BY <1>2 DEF Finally, PoolInv, TypeOK
  <2>2. TypeOK'
    BY <2>1 DEF PoolInv, TypeOK
  <2>3. GateAccounting'
    BY <2>1, SameCounts DEF PoolInv, GateAccounting
  <2>4. LiveJobsHoldPermits'
    BY <2>1 DEF PoolInv, LiveJobsHoldPermits, Live
  <2> QED BY <2>2, <2>3, <2>4 DEF PoolInv
<1> QED BY <1>1, <1>2, PoolSteps

-----------------------------------------------------------------------------
(* The two pools of one capacity agree: a slot owns a buffer. *)
PlacesInv == AdmP!IInv /\ BufInv /\ lent = Inside

(* There is a buffer for whoever comes in. *)
LEMMA NeverRefused ==
  ASSUME PlacesInv, NEW c \in Calls, Adm!Admit(c) \/ Adm!Resume(c) PROVE ~Buf!Refuses
<1>1. Cardinality(lent) < Permits
  BY RoomInside DEF PlacesInv
<1>2. Cardinality(free) + Cardinality(lent) = created /\ created \in 0..Permits
  BY BufBooks DEF PlacesInv, BufTypes, BufCounts
<1>3. Cardinality({}) = 0 /\ Cardinality(lent) \in Nat
  <2>1. IsFiniteSet(lent)
    BY Assumptions, BufBooks, FS_Subset DEF PlacesInv, BufTypes, BufCounts
  <2> QED BY <2>1, FS_EmptySet, FS_CardinalityType
<1> QED BY <1>1, <1>2, <1>3, Assumptions DEF Buf!Refuses

LEMMA PlacesStay == ASSUME PlacesInv, [SysNext]_sysVars PROVE PlacesInv'
<1>1. ASSUME NEW c \in Calls, Enter(c) \/ Resume(c) PROVE PlacesInv'
  <2>1. (Adm!Admit(c) \/ Adm!Resume(c)) /\ TakeSink(c)
    BY <1>1 DEF Enter, Resume
  <2>2. PICK b \in Buf!Buffers : Buf!Lend(c, b)
    BY <2>1, NeverRefused DEF TakeSink
  <2>3. lent' = lent \cup {c} /\ Inside' = Inside \cup {c}
    BY <2>1, <2>2, AdmMoves DEF Buf!Lend, PlacesInv
  <2>4. AdmP!IInv' /\ BufInv'
    BY <2>1, <2>2, AdmKeeps, BufKeeps DEF AdmStep, BufStep, PlacesInv
  <2> QED BY <2>3, <2>4 DEF PlacesInv
<1>2. ASSUME NEW c \in Calls, Park(c) \/ Expire(c) PROVE PlacesInv'
  <2>1. /\ Adm!Park(c) \/ Adm!TimerFires(c) \/ Adm!GiveUp(c)
        /\ UNCHANGED bufVars
    BY <1>2 DEF Park, Expire
  <2> QED BY <2>1, AdmMoves, AdmKeeps, BufStays DEF AdmStep, PlacesInv, bufVars
<1>3. ASSUME NEW c \in Calls, BodyRead(c) PROVE PlacesInv'
  <2>1. Buf!Fill(c) /\ UNCHANGED admVars /\ lent' = lent /\ Inside' = Inside
    BY <1>3 DEF BodyRead, Buf!Fill, admVars, Inside
  <2> QED BY <2>1, AdmStays, BufKeeps DEF BufStep, PlacesInv
<1>4. ASSUME NEW c \in Calls, Finally(c) PROVE PlacesInv'
  <2>1. c \in lent
    BY <1>4 DEF Finally, PlacesInv, Inside
  <2>2. Adm!Release(c) /\ Buf!GiveBack(c)
    BY <1>4, <2>1 DEF Finally
  <2>3. lent' = lent \ {c} /\ Inside' = Inside \ {c}
    BY <2>2, AdmMoves DEF Buf!GiveBack, PlacesInv
  <2> QED BY <2>2, <2>3, AdmKeeps, BufKeeps DEF AdmStep, BufStep, PlacesInv
<1>5. ASSUME UNCHANGED <<admVars, bufVars>> PROVE PlacesInv'
  BY <1>5, AdmStays, BufStays DEF PlacesInv, admVars, bufVars, Inside
<1>6. \/ UNCHANGED <<admVars, bufVars>>
      \/ \E c \in Calls : Enter(c) \/ Resume(c) \/ Park(c) \/ Expire(c) \/ BodyRead(c) \/ Finally(c)
  BY DEF SysNext, Loop, ThreadStep, Send, WorkerStep, ExecutorStep, sysVars
<1> QED BY <1>1, <1>2, <1>3, <1>4, <1>5, <1>6

-----------------------------------------------------------------------------
(* What is known of a call: while it is waited for it is inside, its sink  *)
(* holds its document and nothing else was sent; once it has returned it   *)
(* is over, or it timed out.                                               *)
After == {"release", "signal", "peek", "markReady", "done"}
CallInv(c) ==
  /\ c \in returned => /\ pc[c] \in After \cup {"deferred"}
                       /\ pc[c] = "done" \/ outcome[c] = "timeout"
  /\ c \notin returned /\ pc[c] # "new" =>
        c \in lent /\ content[sink[c]] = c /\ payload[c] \in {c, "unsent"}
  /\ IF pc[c] = "new" THEN payload[c] = "unsent" ELSE sink[c] \in 1..Permits
  /\ fut[c] = "ok" => payload[c] # "unsent"
  /\ outcome[c] = "text" => payload[c] = c /\ fut[c] = "ok" /\ pc[c] \in After
  /\ pc[c] \in {"cancel", "defer", "deferred"} => outcome[c] = "timeout"
  /\ outcome[c] = "timeout" => pc[c] \in {"cancel", "defer", "deferred"} \cup After

CallsInv ==
  /\ returned \subseteq Calls
  /\ payload \in [Calls -> Calls \cup {"unsent", Buf!Empty}]
  /\ \A c \in Calls : CallInv(c)

(* A thread's step changes what is known of its own call only. *)
LEMMA ThreadKeepsCalls ==
  ASSUME TypeOK, CallsInv, NEW c \in Calls, ThreadStep(c) PROVE CallsInv'
<1>0. /\ pc \in [Calls -> Steps] /\ outcome \in [Calls -> Outcomes] /\ fut \in [Jobs -> FutureStates]
      /\ Calls \subseteq Jobs
      /\ Thread(c) /\ returned' = returned \cup {d \in {c} : pc'[d] \in {"deferred", "done"}}
      /\ UNCHANGED <<lent, sink, content, payload>>
  BY DEF TypeOK, ThreadStep, Jobs, bufVars
<1>1. ASSUME NEW d \in Calls, d # c PROVE CallInv(d)'
  <2>1. /\ pc'[d] = pc[d] /\ outcome'[d] = outcome[d] /\ fut'[d] = fut[d]
        /\ d \in returned' <=> d \in returned
    BY <1>0, <1>1 DEF Thread, CheckClosed, Acquire, TryFast, OnWait, Enqueue, Wake,
       QueueTimeout, LeaveQueue, Count, Reject, Run, ReadExecutor, Submit, Await, Cancel,
       Defer, Restart, RestartLock, RestartMark, RestartShutdown, RestartSwap, Release,
       ReleaseCount, ReleaseSignal, ReleasePeek, MarkReady, ReleaseWhenDone
  <2> QED BY <1>0, <2>1 DEF CallsInv, CallInv
<1>2. CallInv(c)'
  <2>0. CallInv(c)
    BY DEF CallsInv
  <2> USE <1>0, <2>0 DEF CallInv, After
  <2>1. CASE CheckClosed(c)
    BY <2>1 DEF CheckClosed
  <2>2. CASE Acquire(c)
    BY <2>2 DEF Acquire, TryFast, OnWait, Enqueue, Wake, QueueTimeout, LeaveQueue, Count, Reject
  <2>3. CASE Run(c)
    <3>1. CASE ReadExecutor(c)
      BY <3>1 DEF ReadExecutor
    <3>2. CASE Submit(c)
      BY <3>2 DEF Submit
    <3>3. CASE Await(c)
      BY <3>3 DEF Await
    <3>4. CASE Cancel(c)
      BY <3>4 DEF Cancel
    <3>5. CASE Defer(c)
      BY <3>5 DEF Defer
    <3> QED BY <2>3, <3>1, <3>2, <3>3, <3>4, <3>5 DEF Run
  <2>4. CASE Restart(c)
    BY <2>4 DEF Restart, RestartLock, RestartMark, RestartShutdown, RestartSwap
  <2>5. CASE Release(c) \/ ReleaseWhenDone(c)
    BY <2>5 DEF Release, ReleaseCount, ReleaseSignal, ReleasePeek, MarkReady, ReleaseWhenDone
  <2> QED BY <2>1, <2>2, <2>3, <2>4, <2>5 DEF Thread
<1>3. returned' \subseteq Calls /\ payload' \in [Calls -> Calls \cup {"unsent", Buf!Empty}]
  BY <1>0 DEF CallsInv
<1> QED BY <1>1, <1>2, <1>3 DEF CallsInv

LEMMA CallsStay ==
  ASSUME PoolInv, PlacesInv, CallsInv, [SysNext]_sysVars PROVE CallsInv'
<1>0. /\ pc \in [Calls -> Steps] /\ fut \in [Jobs -> FutureStates] /\ Calls \subseteq Jobs
      /\ returned \subseteq Calls /\ payload \in [Calls -> Calls \cup {"unsent", Buf!Empty}]
      /\ created \in 0..Permits /\ free \subseteq 1..created /\ lent \subseteq Calls
      /\ sink \in [Calls -> 0..Permits] /\ content \in [1..Permits -> Calls \cup {"empty"}]
      /\ \A r \in lent : sink[r] \in 1..created /\ sink[r] \notin free /\ sink[r] \in 1..Permits
      /\ \A r, s \in lent : sink[r] = sink[s] => r = s
      /\ lent = Inside
  <2>1. 1..created \subseteq 1..Permits
    BY BufBooks, Assumptions DEF PlacesInv, BufTypes, BufCounts
  <2>2. BufTypes /\ BufLoans
    BY BufBooks DEF PlacesInv
  <2> QED BY <2>1, <2>2 DEF PoolInv, PlacesInv, CallsInv, TypeOK, Jobs, BufTypes, BufLoans
(* A sink is lent: nobody inside has it. *)
<1>1. ASSUME NEW c \in Calls, Enter(c) \/ Resume(c) PROVE CallsInv'
  <2>1. (Adm!Admit(c) \/ Adm!Resume(c)) /\ TakeSink(c) /\ UNCHANGED <<vars, returned, payload>>
    BY <1>1 DEF Enter, Resume
  <2>2. PICK b \in Buf!Buffers : Buf!Lend(c, b)
    BY <2>1, NeverRefused DEF TakeSink
  <2>3. /\ c \notin lent /\ lent' = lent \cup {c} /\ b \in 1..Permits
        /\ content' = [content EXCEPT ![b] = Buf!Empty] /\ sink' = [sink EXCEPT ![c] = b]
        /\ b \in free \/ b = created + 1
    BY <2>2 DEF Buf!Lend, Buf!Buffers
  <2>4. ASSUME NEW d \in lent PROVE sink'[d] = sink[d] /\ content'[sink[d]] = content[sink[d]]
    <3>1. sink[d] # b
      BY <1>0, <2>3
    <3> QED BY <1>0, <2>3, <3>1
  <2>5. ASSUME NEW d \in Calls PROVE CallInv(d)'
    BY <1>0, <2>1, <2>3, <2>4 DEF CallsInv, CallInv
  <2> QED BY <1>0, <2>1, <2>5 DEF CallsInv
(* A body is read into the sink of its own request. *)
<1>2. ASSUME NEW c \in Calls, BodyRead(c) PROVE CallsInv'
  <2>1. /\ c \in lent /\ lent' = lent /\ sink' = sink /\ content' = [content EXCEPT ![sink[c]] = c]
        /\ pc[c] = "new" /\ pc' = [pc EXCEPT ![c] = "start"]
        /\ UNCHANGED <<returned, payload, outcome, fut>>
    BY <1>2 DEF BodyRead, Buf!Fill, Call
  <2>2. ASSUME NEW d \in lent, d # c PROVE content'[sink'[d]] = content[sink[d]]
    BY <1>0, <2>1, <2>2
  <2>3. content'[sink'[c]] = c
    BY <1>0, <2>1
  <2>4. ASSUME NEW d \in Calls, d # c PROVE CallInv(d)'
    <3>1. pc'[d] = pc[d]
      BY <1>0, <2>1, <2>4
    <3> QED BY <2>1, <2>2, <2>4, <3>1 DEF CallsInv, CallInv
  <2>5. CallInv(c)'
    <3>1. CallInv(c) /\ c \notin returned
      BY <2>1 DEF CallsInv, CallInv, After
    <3>2. pc'[c] = "start" /\ sink'[c] \in 1..Permits
      BY <1>0, <2>1
    <3> QED BY <2>1, <2>3, <3>1, <3>2 DEF CallInv, After
  <2> QED BY <1>0, <2>1, <2>4, <2>5 DEF CallsInv
<1>3. ASSUME NEW c \in Calls, Finally(c) PROVE CallsInv'
  <2>1. /\ c \in returned \/ pc[c] = "new"
        /\ UNCHANGED <<pc, outcome, fut, returned, payload, sink, content>> /\ lent \ {c} \subseteq lent'
    BY <1>3 DEF Finally, Buf!GiveBack, bufVars
  <2> QED BY <1>0, <2>1 DEF CallsInv, CallInv
<1>4. ASSUME NEW c \in Calls, Send(c) PROVE CallsInv'
  <2>1. /\ fut[c] = "running" /\ payload[c] = "unsent"
        /\ payload' = [payload EXCEPT ![c] = content[sink[c]]]
        /\ UNCHANGED <<pc, outcome, fut, returned, lent, sink, content>>
    BY <1>4 DEF Send, bufVars
  <2>2. pc[c] \in {"await", "cancel", "defer", "deferred"}
    BY <2>1 DEF PoolInv, LiveJobsHoldPermits, Live
  <2>3. content[sink[c]] \in Calls \cup {"empty"}
    BY <1>0, <2>2 DEF CallsInv, CallInv
  <2>4. ASSUME NEW d \in Calls PROVE CallInv(d)'
    BY <1>0, <2>1, <2>2, <2>3 DEF CallsInv, CallInv
  <2> QED BY <1>0, <2>1, <2>3, <2>4 DEF CallsInv, Buf!Empty
<1>5. ASSUME NEW c \in Calls, WorkerStep(c) PROVE CallsInv'
  <2>1. /\ UNCHANGED <<pc, outcome, returned, payload, lent, sink, content>>
        /\ \E s : fut' = [fut EXCEPT ![c] = s] /\ (s = "ok" => payload[c] # "unsent")
        /\ fut[c] \in {"pending", "running"}
    BY <1>5 DEF WorkerStep, StartJob, FinishJob, bufVars
  <2> QED BY <1>0, <2>1 DEF CallsInv, CallInv
<1>6. ASSUME NEW g, ExecutorStep(g) PROVE CallsInv'
  <2>1. /\ UNCHANGED <<pc, outcome, returned, payload, lent, sink, content>>
        /\ \A c \in Calls : fut'[c] = "ok" <=> fut[c] = "ok"
    BY <1>0, <1>6 DEF ExecutorStep, CancelPending, Break, bufVars, Live
  <2> QED BY <1>0, <2>1 DEF CallsInv, CallInv
<1>7. ASSUME UNCHANGED <<pc, outcome, fut, returned, payload, bufVars>> PROVE CallsInv'
  BY <1>7 DEF CallsInv, CallInv, bufVars
<1>8. \/ UNCHANGED <<pc, outcome, fut, returned, payload, bufVars>>
      \/ \E c \in Calls : \/ Enter(c) \/ Resume(c) \/ BodyRead(c) \/ Finally(c)
                          \/ ThreadStep(c) \/ Send(c) \/ WorkerStep(c)
      \/ \E g \in 0..executor : ExecutorStep(g)
  BY DEF SysNext, Loop, Park, Expire, sysVars
<1> QED BY <1>1, <1>2, <1>3, <1>4, <1>5, <1>6, <1>7, <1>8, ThreadKeepsCalls DEF PoolInv

-----------------------------------------------------------------------------
(* A call that finds the gate without a permit, while it is itself inside  *)
(* the door, has a runaway before it: Permits others would not fit.        *)
LEMMA Runaway ==
  ASSUME PoolInv, PlacesInv, CallsInv, sem = 0, NEW c \in Calls, pc[c] \in {"tryFast", "parked"}
  PROVE  \E d \in Holders : d \in returned
<1> SUFFICES ASSUME \A d \in Holders : d \notin returned PROVE FALSE
  OBVIOUS
<1>1. Holders \subseteq lent /\ c \in lent /\ c \notin Holders /\ Holders \subseteq Calls
  BY DEF CallsInv, CallInv, After, Holders, HoldSteps
<1>2. IsFiniteSet(lent) /\ IsFiniteSet(Holders) /\ Cardinality(lent) <= Permits
      /\ Cardinality(lent) \in Nat /\ Cardinality(Holders) \in Nat
  <2>1. IsFiniteSet(lent) /\ IsFiniteSet(free) /\ IsFiniteSet(Holders)
    <3>1. IsFiniteSet(1..created) /\ free \subseteq 1..created /\ lent \subseteq Calls
      <4>1. created \in Int /\ 1 \in Int
        BY BufBooks DEF PlacesInv, BufTypes, BufCounts
      <4> QED BY <4>1, BufBooks, FS_Interval DEF PlacesInv, BufTypes, BufCounts
    <3> QED BY <1>1, <3>1, Assumptions, FS_Subset
  <2>2. Cardinality(lent) \in Nat /\ Cardinality(free) \in Nat /\ Cardinality(Holders) \in Nat
    BY <2>1, FS_CardinalityType
  <2>3. Cardinality(free) + Cardinality(lent) = created /\ created \in 0..Permits
    BY BufBooks DEF PlacesInv, BufTypes, BufCounts
  <2> QED BY <2>1, <2>2, <2>3, Assumptions
<1>3. Cardinality(Holders \cup {c}) = Cardinality(Holders) + 1
      /\ Cardinality(Holders \cup {c}) <= Cardinality(lent)
  BY <1>1, <1>2, FS_AddElement, FS_Subset
<1>4. Cardinality(Holders) = Permits
  BY <1>2, Assumptions DEF PoolInv, GateAccounting
<1> QED BY <1>2, <1>3, <1>4, Assumptions

(* Why the instance may say it is not ready. *)
Reason == broken # {} \/ \E c \in Calls : outcome[c] = "timeout"
ReasonInv ==
  /\ overloaded => Reason
  /\ \A c \in Calls : pc[c] \in {"onWait", "enqueue", "parked", "leaveOut", "reject"} => Reason
  /\ \A c \in Calls : pc[c] \in {"restart", "mark"} \/ fut[c] = "broken" => broken # {}

LEMMA ReasonStays ==
  ASSUME PoolInv, PlacesInv, CallsInv, ReasonInv, [SysNext]_sysVars PROVE ReasonInv'
<1>0. /\ pc \in [Calls -> Steps] /\ outcome \in [Calls -> Outcomes]
      /\ fut \in [Jobs -> FutureStates] /\ Calls \subseteq Jobs
      /\ \A c \in Calls : outcome[c] = "timeout" =>
            pc[c] \in {"cancel", "defer", "deferred"} \cup After
  BY DEF PoolInv, TypeOK, Jobs, CallsInv, CallInv
<1>1. ASSUME NEW c \in Calls, ThreadStep(c) PROVE ReasonInv'
  <2>0. Thread(c)
    BY <1>1 DEF ThreadStep
  <2>1. Reason => Reason'
    BY <1>0, <2>0 DEF Reason, After, Thread, CheckClosed, Acquire, TryFast, OnWait, Enqueue,
       Wake, QueueTimeout, LeaveQueue, Count, Reject, Run, ReadExecutor, Submit, Await, Cancel,
       Defer, Restart, RestartLock, RestartMark, RestartShutdown, RestartSwap, Release,
       ReleaseCount, ReleaseSignal, ReleasePeek, MarkReady, ReleaseWhenDone
  <2> USE <1>0, <2>1 DEF ReasonInv
  <2>2. CASE CheckClosed(c)
    BY <2>2 DEF CheckClosed
  <2>3. CASE TryFast(c)
    <3>1. CASE sem = 0
      <4>1. PICK d \in Holders : d \in returned
        BY <2>3, <3>1, Runaway DEF TryFast
      <4>2. outcome[d] = "timeout" /\ d \in Calls
        BY <4>1 DEF CallsInv, CallInv, Holders, HoldSteps
      <4>3. Reason
        BY <4>2 DEF Reason
      <4> QED BY <2>3, <4>3 DEF TryFast
    <3>2. CASE sem # 0
      BY <2>3, <3>2 DEF TryFast, PoolInv, TypeOK
    <3> QED BY <3>1, <3>2
  <2>4. CASE Acquire(c) /\ ~TryFast(c)
    BY <2>4 DEF Acquire, OnWait, Enqueue, Wake, QueueTimeout, LeaveQueue, Count, Reject
  <2>5. CASE Run(c)
    BY <2>5 DEF Run, ReadExecutor, Submit, Await, Cancel, Defer
  <2>6. CASE Restart(c)
    <3>1. broken # {} => Reason'
      BY <2>1 DEF Reason
    <3> QED BY <2>6, <3>1 DEF Restart, RestartLock, RestartMark, RestartShutdown, RestartSwap
  <2>7. CASE Release(c) \/ ReleaseWhenDone(c)
    BY <2>7 DEF Release, ReleaseCount, ReleaseSignal, ReleasePeek, MarkReady, ReleaseWhenDone
  <2> QED BY <2>0, <2>2, <2>3, <2>4, <2>5, <2>6, <2>7 DEF Thread
<1>2. ASSUME NEW c \in Calls, Finally(c) PROVE ReasonInv'
  <2>1. c \in lent
    BY <1>2 DEF Finally, PlacesInv, Inside
  <2>2. UNCHANGED <<pc, outcome, fut, broken>> /\ (overloaded' => overloaded)
    BY <1>2, <2>1 DEF Finally
  <2> QED BY <2>2 DEF ReasonInv, Reason
<1>3. ASSUME NEW c \in Calls, BodyRead(c) PROVE ReasonInv'
  BY <1>0, <1>3 DEF BodyRead, Call, ReasonInv, Reason
<1>4. ASSUME NEW c \in Calls, WorkerStep(c) PROVE ReasonInv'
  BY <1>0, <1>4 DEF WorkerStep, StartJob, FinishJob, ReasonInv, Reason
<1>5. ASSUME NEW g, ExecutorStep(g) PROVE ReasonInv'
  BY <1>0, <1>5 DEF ExecutorStep, CancelPending, Break, ReasonInv, Reason
<1>6. ASSUME UNCHANGED <<pc, outcome, fut, broken, overloaded>> PROVE ReasonInv'
  BY <1>6 DEF ReasonInv, Reason
<1>7. \/ UNCHANGED <<pc, outcome, fut, broken, overloaded>>
      \/ \E c \in Calls : BodyRead(c) \/ Finally(c) \/ ThreadStep(c) \/ WorkerStep(c)
      \/ \E g \in 0..executor : ExecutorStep(g)
  BY DEF SysNext, Loop, Enter, Resume, Park, Expire, Send, sysVars
<1> QED BY <1>1, <1>2, <1>3, <1>4, <1>5, <1>6, <1>7

-----------------------------------------------------------------------------
(* All of it holds of every run. *)
SysInv == PoolInv /\ PlacesInv /\ CallsInv /\ ReasonInv

LEMMA Begins == SysInit => SysInv
<1> SUFFICES ASSUME SysInit PROVE SysInv
  OBVIOUS
<1>1. Init /\ Adm!Init /\ Buf!Init
  BY DEF SysInit
<1>2. PoolInv
  BY <1>1, TypeInit, AccountingInit, LiveInit DEF PoolInv
<1>3. AdmP!IInv
  <2>1. AdmP!Init
    BY <1>1 DEF Adm!Init, AdmP!Init
  <2> QED BY <2>1, Assumptions, AdmP!InitIInv
<1>4. BufInv
  BY <1>1, BufBegins
<1>5. lent = Inside
  BY <1>1 DEF Buf!Init, Adm!Init, Inside
<1>6. CallsInv
  <2>1. payload \in [Calls -> Calls \cup {"unsent", Buf!Empty}] /\ returned = {}
    BY DEF SysInit
  <2> QED BY <1>1, <2>1 DEF SysInit, Init, CallsInv, CallInv, Jobs
<1>7. ReasonInv
  BY <1>1 DEF Init, ReasonInv, Jobs
<1> QED BY <1>2, <1>3, <1>4, <1>5, <1>6, <1>7 DEF SysInv, PlacesInv

LEMMA Holds == SysSpec => []SysInv
<1>1. SysInv /\ [SysNext]_sysVars => SysInv'
  BY PoolStays, PlacesStay, CallsStay, ReasonStays DEF SysInv
<1> QED BY Begins, <1>1, PTL DEF SysSpec

(* Types, of the three parts and of what the composition adds. *)
THEOREM SysTypeCorrect == SysSpec => []SysTypeOK
<1>1. SysInv => SysTypeOK
  <2> SUFFICES ASSUME SysInv PROVE SysTypeOK
    OBVIOUS
  <2>1. Adm!TypeOK
    <3>1. AdmP!TypeOK
      BY DEF SysInv, PlacesInv, AdmP!IInv
    <3> QED BY <3>1, Zenon DEF AdmP!TypeOK, Adm!TypeOK, AdmP!Places, Adm!Places
  <2>2. Buf!TypeOK
    BY DEF SysInv, PlacesInv, BufInv
  <2> QED BY <2>1, <2>2 DEF SysInv, PoolInv, CallsInv, SysTypeOK
<1> QED BY <1>1, Holds, PTL

(* No sink is shared or lost, whatever ends a request. *)
THEOREM SysBuffers == SysSpec => []BuffersConserved
<1>1. SysInv => BuffersConserved
  BY DEF SysInv, PlacesInv, BufInv, BuffersConserved
<1> QED BY <1>1, Holds, PTL

(* A reserved slot always owns a buffer (extract.py 57). *)
THEOREM SlotsOwnBuffers == SysSpec => []SlotOwnsBuffer
<1>1. SysInv => SlotOwnsBuffer
  BY DEF SysInv, PlacesInv, SlotOwnsBuffer, Inside
<1> QED BY <1>1, Holds, PTL

(* Nobody is answered with the text of somebody else's document. *)
THEOREM OwnDocuments == SysSpec => []OwnDocument
<1>1. SysInv => OwnDocument
  BY DEF SysInv, CallsInv, CallInv, OwnDocument
<1> QED BY <1>1, Holds, PTL

(* The second gate queues a call only behind a job that outlived its own.  *)
THEOREM QueuesBehindRunaways == SysSpec => []GateWaitsOnlyForRunaways
<1>1. SysInv => GateWaitsOnlyForRunaways
  BY Runaway DEF SysInv, GateWaitsOnlyForRunaways
<1> QED BY <1>1, Holds, PTL

(* Readiness is degraded only after a broken worker or a timeout. *)
THEOREM Degraded == SysSpec => []DegradedForAReason
<1>1. SysInv => DegradedForAReason
  BY DEF SysInv, ReasonInv, Reason, DegradedForAReason
<1> QED BY <1>1, Holds, PTL

-----------------------------------------------------------------------------
(* The composition takes no liberty with its parts: seen through their own *)
(* variables, every step is one of theirs, or none.                        *)
LEMMA PartsStep ==
  ASSUME [SysNext]_sysVars
  PROVE  [Adm!Next]_admVars /\ [Buf!Next]_bufVars
<1>1. ASSUME NEW c \in Calls, Enter(c) \/ Resume(c) PROVE Adm!Next /\ [Buf!Next]_bufVars
  <2>1. Adm!Admit(c) \/ Adm!Resume(c)
    BY <1>1 DEF Enter, Resume
  <2>2. Buf!Next \/ UNCHANGED bufVars
    BY <1>1, Zenon DEF Enter, Resume, TakeSink, Buf!Next
  <2> QED BY <2>1, <2>2 DEF Adm!Next, Adm!Task
<1>2. ASSUME NEW c \in Calls, Park(c) \/ Expire(c) PROVE Adm!Next /\ UNCHANGED bufVars
  BY <1>2 DEF Park, Expire, Adm!Next, Adm!Task
<1>3. ASSUME NEW c \in Calls, BodyRead(c) PROVE UNCHANGED admVars /\ Buf!Next
  BY <1>3 DEF BodyRead, Buf!Next
<1>4. ASSUME NEW c \in Calls, Finally(c) PROVE Adm!Next /\ [Buf!Next]_bufVars
  BY <1>4 DEF Finally, Adm!Next, Buf!Next
<1>5. \/ UNCHANGED <<admVars, bufVars>>
      \/ \E c \in Calls : Enter(c) \/ Resume(c) \/ Park(c) \/ Expire(c) \/ BodyRead(c) \/ Finally(c)
  BY DEF SysNext, Loop, ThreadStep, Send, WorkerStep, ExecutorStep, sysVars
<1> QED BY <1>1, <1>2, <1>3, <1>4, <1>5

(* The route uses the admission gate as the gate is specified. *)
THEOREM ImplementsGate == SysSpec => Adm!Spec
<1>1. SysInit => Adm!Init
  BY DEF SysInit
<1>2. [SysNext]_sysVars => [Adm!Next]_(Adm!vars)
  BY PartsStep DEF admVars, Adm!vars
<1> QED BY <1>1, <1>2, PTL DEF SysSpec, Adm!Spec

(* It uses the buffers as their pool is specified. *)
THEOREM ImplementsBuffers == SysSpec => Buf!Spec
<1>1. SysInit => Buf!Init
  BY DEF SysInit
<1>2. [SysNext]_sysVars => [Buf!Next]_(Buf!vars)
  BY PartsStep DEF bufVars, Buf!vars
<1> QED BY <1>1, <1>2, PTL DEF SysSpec, Buf!Spec

-----------------------------------------------------------------------------
(* What the pool promises on its own it keeps under the route, which sets  *)
(* its readiness from outside: Finally touches nothing else of it.         *)
PoolLifeInv == LockInv /\ ExecutorInv /\ OutcomeInv /\ ReadyInv

LEMMA PoolLifeStays ==
  ASSUME PoolInv, PlacesInv, PoolLifeInv, [SysNext]_sysVars PROVE PoolLifeInv'
<1>1. CASE [Next]_vars
  BY <1>1, LockStep, ExecutorInvStep, OutcomeStep, ReadyStep DEF PoolInv, PoolLifeInv
<1>2. ASSUME NEW c \in Calls, Finally(c) PROVE PoolLifeInv'
  <2>1. c \in lent
    BY <1>2 DEF Finally, PlacesInv, Inside
  <2>2. /\ UNCHANGED <<pc, outcome, gateVars, lifeVars, closer, warm, jobVars>>
        /\ overloaded' => overloaded
    BY <1>2, <2>1 DEF Finally
  <2>3. LockInv' /\ OutcomeInv' /\ ReadyInv'
    BY <2>2 DEF PoolLifeInv, LockInv, OutcomeInv, ReadyInv
  <2>4. ExecutorInv'
    BY <2>2 DEF PoolLifeInv, ExecutorInv, NoExecutorLeak, BrokenIsReplaced
  <2> QED BY <2>3, <2>4 DEF PoolLifeInv
<1> QED BY <1>1, <1>2, PoolSteps

LEMMA PoolLives == SysSpec => []PoolLifeInv
<1>1. SysInit => PoolLifeInv
  <2>1. Init => OutcomeInv /\ ReadyInv
    BY DEF Init, OutcomeInv, ReadyInv
  <2> QED BY <2>1, LockInit, ExecutorInit DEF SysInit, PoolLifeInv
<1>2. SysInv /\ PoolLifeInv /\ [SysNext]_sysVars => PoolLifeInv'
  BY PoolLifeStays DEF SysInv
<1> QED BY <1>1, <1>2, Holds, PTL DEF SysSpec

(* The second gate never loses a permit to a request that was answered:    *)
(* it counts every live job, at most Permits of them, and is as it was     *)
(* built once every call is over (pool.py 154-161, extract.py 69-83).      *)
THEOREM SysPermits ==
  SysSpec => [](GateAccounting /\ LiveJobsHoldPermits /\ InflightReflectsLiveWork /\ DrainedGateIsFull)
<1>1. SysInv => GateAccounting /\ LiveJobsHoldPermits /\ InflightReflectsLiveWork /\ DrainedGateIsFull
  BY InflightFollows, DrainedFollows DEF SysInv, PoolInv
<1> QED BY <1>1, Holds, PTL

(* Rebuilds under the route drop no executor, and a request that saw its   *)
(* executor break makes room for nobody on that executor.                  *)
THEOREM SysExecutors == SysSpec => [](NoExecutorLeak /\ BrokenIsReplaced)
<1>1. PoolLifeInv => NoExecutorLeak /\ BrokenIsReplaced
  BY DEF PoolLifeInv, ExecutorInv
<1> QED BY <1>1, PoolLives, PTL

(* Readiness comes back in the whole instance, whoever sets it last, the   *)
(* route or the pool, unless the pool's gate turned a call away: this is   *)
(* the one way to come to rest and not be ready (QuietIsReady).            *)
THEOREM SysReady == SysSpec => []DrainedIsReadyUnlessShed
<1>1. PoolLifeInv => DrainedIsReadyUnlessShed
  BY DEF PoolLifeInv, ReadyInv, DrainedIsReadyUnlessShed, Passive
<1> QED BY <1>1, PoolLives, PTL

(* Both gates keep the promise of BoundedGrants inside the system: the     *)
(* pool's, whose permits outlive their requests ...                        *)
THEOREM SysGrants == SysSpec => GrantsSpec
<1>1. SysInit => Grants!Init
  BY GrantInit DEF SysInit
<1>2. SysInv /\ PoolLifeInv /\ [SysNext]_sysVars => [Grants!Next]_<<Holders, Spent>>
  <2> SUFFICES ASSUME SysInv, PoolLifeInv, [SysNext]_sysVars
               PROVE  [Grants!Next]_<<Holders, Spent>>
    OBVIOUS
  <2>1. CASE [Next]_vars
    BY <2>1, GrantStep DEF SysInv, PoolInv, PoolLifeInv
  <2>2. ASSUME NEW c \in Calls, Finally(c) PROVE UNCHANGED <<Holders, Spent>>
    BY <2>2 DEF Finally, Holders, Spent
  <2> QED BY <2>1, <2>2, PoolSteps
<1> QED BY <1>1, <1>2, Holds, PoolLives, PTL DEF SysSpec, GrantsSpec, Grants!Spec

(* ... and the one at the door.                                            *)
THEOREM SysAdmissions == SysSpec => Adm!GrantsSpec
<1> DEFINE Left == {r \in Calls : place[r] = "left"}
<1>1. Adm!Init => AdmP!Init
  BY DEF Adm!Init, AdmP!Init
<1>2. [Adm!Next]_(Adm!vars) => [AdmP!Next]_(AdmP!vars)
  <2>1. Adm!Next => (\E c \in Calls : AdmStep(c)) \/ UNCHANGED Adm!vars
    BY Zenon DEF Adm!Next, Adm!Task, Adm!Terminated, AdmStep
  <2>2. UNCHANGED Adm!vars => UNCHANGED AdmP!vars
    BY DEF Adm!vars, AdmP!vars
  <2> QED BY <2>1, <2>2, AdmSame
<1>3. AdmP!GateAssumption
  BY Assumptions
<1>4. AdmP!Grants!Init => Adm!Grants!Init
  BY Zenon DEF AdmP!Grants!Init, Adm!Grants!Init, AdmP!In, Adm!In
<1>5. /\ AdmP!In = Adm!In
      /\ \A S : AdmP!Grants!Cardinality(S) = Adm!Grants!Cardinality(S)
  BY Zenon DEF AdmP!In, Adm!In, AdmP!Grants!Cardinality, Adm!Grants!Cardinality
<1>6. ASSUME NEW c
      PROVE  /\ AdmP!Grants!Grant(c) => Adm!Grants!Grant(c)
             /\ AdmP!Grants!GiveBack(c) => Adm!Grants!GiveBack(c)
  BY <1>5, Zenon DEF AdmP!Grants!Grant, Adm!Grants!Grant, AdmP!Grants!GiveBack,
     Adm!Grants!GiveBack, Adm!In, AdmP!In
<1>7. [AdmP!Grants!Next]_<<AdmP!In, Left>> => [Adm!Grants!Next]_<<Adm!In, Left>>
  BY <1>6, Zenon DEF AdmP!Grants!Next, Adm!Grants!Next, Adm!In, AdmP!In
<1>8. SysSpec => AdmP!GrantsSpec
  BY <1>1, <1>2, <1>3, ImplementsGate, AdmP!ImplementsGrants, PTL DEF Adm!Spec, AdmP!Spec
<1> QED BY <1>4, <1>7, <1>8, PTL
        DEF AdmP!GrantsSpec, AdmP!Grants!Spec, Adm!GrantsSpec, Adm!Grants!Spec
=============================================================================
