------------------------ MODULE AdmissionGate_proofs ------------------------
(***************************************************************************)
(* AdmissionGate's accounting, for every finite set of requests and every  *)
(* capacity.  Types, the shape of the queue and the accounting are one     *)
(* induction: a slot can be handed out only because the semaphore counts   *)
(* right, and only parked requests are in the queue it is handed to.       *)
(***************************************************************************)
EXTENDS AdmissionGate, FiniteSetTheorems, TLAPS

IInv == TypeOK /\ QueueOfParked /\ SlotAccounting

Elements(q) == {q[i] : i \in DOMAIN q}
Injective(q) == \A i, j \in DOMAIN q : q[i] = q[j] => i = j

-----------------------------------------------------------------------------
(* Removing the waiter at i removes that waiter and nobody else. *)
LEMMA WithoutOne ==
  ASSUME NEW q \in Seq(Requests), NEW i \in DOMAIN q, Injective(q)
  PROVE  /\ Without(q, i) \in Seq(Requests)
         /\ Elements(Without(q, i)) = Elements(q) \ {q[i]}
         /\ Injective(Without(q, i))
<1> DEFINE n == Len(q)  w == Without(q, i)
<1>1. n \in Nat /\ DOMAIN q = 1..n /\ i \in 1..n /\ \A j \in 1..n : q[j] \in Requests
  OBVIOUS
<1>2. w = [j \in 1..(n - 1) |-> IF j < i THEN q[j] ELSE q[j + 1]]
  BY DEF Without
<1>3. n - 1 \in Nat /\ \A j \in 1..(n - 1) : w[j] \in Requests
  BY <1>1, <1>2
<1>4. w \in [1..(n - 1) -> Requests] /\ DOMAIN w = 1..(n - 1)
  BY <1>2, <1>3
<1>5. w \in Seq(Requests)
  BY <1>3, <1>4
<1> HIDE DEF n, w
<1>6. Injective(w)
  <2>1. SUFFICES ASSUME NEW j \in 1..(n - 1), NEW k \in 1..(n - 1), w[j] = w[k]
                 PROVE  j = k
    BY <1>4 DEF Injective
  <2> DEFINE At(m) == IF m < i THEN m ELSE m + 1
  <2>2. At(j) \in 1..n /\ At(k) \in 1..n
    BY <1>1
  <2>3. w[j] = q[At(j)] /\ w[k] = q[At(k)]
    BY <1>2
  <2>4. At(j) = At(k)
    <3> HIDE DEF At
    <3> QED BY <1>1, <2>1, <2>2, <2>3 DEF Injective
  <2> QED BY <1>1, <2>4
<1>7. ASSUME NEW x PROVE x \in Elements(w) <=> x \in Elements(q) /\ x # q[i]
  <2>1. ASSUME x \in Elements(w) PROVE x \in Elements(q) /\ x # q[i]
    BY <1>1, <1>2, <1>4, <2>1 DEF Elements, Injective
  <2>2. ASSUME x \in Elements(q), x # q[i] PROVE x \in Elements(w)
    <3>1. PICK j \in 1..n : q[j] = x
      BY <1>1, <2>2 DEF Elements
    <3>2. CASE j < i
      <4>1. j \in 1..(n - 1) /\ w[j] = x
        BY <1>1, <1>2, <3>1, <3>2
      <4> QED BY <1>4, <4>1 DEF Elements
    <3>3. CASE j > i
      <4>1. j - 1 \in 1..(n - 1) /\ w[j - 1] = x
        BY <1>1, <1>2, <3>1, <3>3
      <4> QED BY <1>4, <4>1 DEF Elements
    <3> QED BY <1>1, <2>2, <3>1, <3>2, <3>3
  <2> QED BY <2>1, <2>2
<1> QED BY <1>5, <1>6, <1>7 DEF w

(* Handing out up to k of v slots keeps their sum with those handed out.   *)
LEMMA HandOutCount ==
  ASSUME NEW v \in Nat, NEW k \in 0..v, NEW q \in Seq(Requests), NEW g \in SUBSET Requests,
         HandOut(v, k, q, g)
  PROVE  /\ slots' \in 0..v
         /\ slots' + Cardinality(granted') = v + Cardinality(g)
         /\ g \subseteq granted' /\ granted' \subseteq g \cup Elements(q)
         /\ granted' \subseteq Requests
<1>1. PICK W \in SUBSET Open(q, g) :
        /\ Cardinality(W) = k \/ (Cardinality(W) < k /\ W = Open(q, g))
        /\ slots' = v - Cardinality(W) /\ granted' = g \cup W
  BY DEF HandOut
<1>2. W \subseteq Elements(q) /\ W \cap g = {} /\ Elements(q) \subseteq Requests
  BY DEF Open, Elements
<1>3. IsFiniteSet(W) /\ IsFiniteSet(g)
  BY <1>2, GateAssumption, FS_Subset
<1>4. Cardinality(W) \in Nat /\ Cardinality(g) \in Nat
  BY <1>3, FS_CardinalityType
<1>5. Cardinality(granted') = Cardinality(g) + Cardinality(W)
  <2>1. Cardinality(g \cap W) = 0
    BY <1>2, FS_EmptySet, g \cap W = {}
  <2>2. Cardinality(g \cup W) = Cardinality(g) + Cardinality(W) - Cardinality(g \cap W)
    BY <1>3, FS_Union
  <2> QED BY <1>1, <1>4, <2>1, <2>2
<1>6. slots' \in 0..v /\ slots' + Cardinality(granted') = v + Cardinality(g)
  BY <1>1, <1>4, <1>5
<1> QED BY <1>1, <1>2, <1>6
-----------------------------------------------------------------------------
(* Changing one request's place changes one count by at most one. *)
LEMMA MoveCount ==
  ASSUME place \in [Requests -> Places], NEW r \in Requests, NEW p \in Places, Put(r, p),
         NEW c \in Places
  PROVE  LET S == {s \in Requests : place[s] = c}
             T == {s \in Requests : place'[s] = c}
         IN  /\ Cardinality(S) \in Nat /\ Cardinality(T) \in Nat
             /\ (c = p /\ place[r] # p) => Cardinality(T) = Cardinality(S) + 1
             /\ (c # p /\ place[r] = c) => Cardinality(T) = Cardinality(S) - 1
             /\ (c # p /\ place[r] # c) => T = S
<1> DEFINE S == {s \in Requests : place[s] = c}
           T == {s \in Requests : place'[s] = c}
<1>1. IsFiniteSet(S) /\ IsFiniteSet(T)
  <2>1. S \subseteq Requests /\ T \subseteq Requests
    OBVIOUS
  <2> QED BY <2>1, GateAssumption, FS_Subset
<1>2. Cardinality(S) \in Nat /\ Cardinality(T) \in Nat
  BY <1>1, FS_CardinalityType
<1>3. place'[r] = p /\ \A s \in Requests : s # r => place'[s] = place[s]
  BY DEF Put
<1>4. ASSUME c = p, place[r] # p PROVE Cardinality(T) = Cardinality(S) + 1
  <2>1. T = S \cup {r} /\ r \notin S
    BY <1>3, <1>4
  <2> QED BY <1>1, <2>1, FS_AddElement
<1>5. ASSUME c # p, place[r] = c PROVE Cardinality(T) = Cardinality(S) - 1
  <2>1. T = S \ {r} /\ r \in S
    BY <1>3, <1>5
  <2> QED BY <1>1, <2>1, FS_RemoveElement
<1>6. ASSUME c # p, place[r] # c PROVE T = S
  BY <1>3, <1>6
<1> QED BY <1>2, <1>4, <1>5, <1>6

(* The invariant holds initially: nobody is anywhere and every slot is free. *)
LEMMA InitIInv == Init => IInv
<1> SUFFICES ASSUME Init PROVE IInv
  OBVIOUS
<1>1. In = {} /\ CountedWaiters = {}
  BY DEF Init, In, CountedWaiters
<1>2. Cardinality(In) = 0 /\ Cardinality(CountedWaiters) = 0 /\ Cardinality(granted) = 0
  BY <1>1, FS_EmptySet DEF Init
<1>3. TypeOK
  <2>1. queue \in Seq(Requests)
    BY DEF Init
  <2> QED BY <2>1, GateAssumption DEF Init, TypeOK, Places
<1>4. QueueOfParked
  <2>1. DOMAIN queue = {}
    BY DEF Init
  <2> QED BY <2>1 DEF Init, QueueOfParked, Parked
<1>5. SlotAccounting
  BY <1>2, GateAssumption DEF SlotAccounting, Init
<1> QED BY <1>3, <1>4, <1>5 DEF IInv

(* What a move does to the counts the accounting is about. *)
LEMMA Moved ==
  ASSUME IInv, NEW r \in Requests, NEW p \in Places, Put(r, p), place[r] # p
  PROVE  /\ place' \in [Requests -> Places]
         /\ place'[r] = p /\ \A s \in Requests : s # r => place'[s] = place[s]
         /\ Cardinality(In) \in Nat /\ Cardinality(In') \in Nat
         /\ Cardinality(CountedWaiters) \in Nat /\ Cardinality(CountedWaiters') \in Nat
         /\ p = "in" => Cardinality(In') = Cardinality(In) + 1
         /\ place[r] = "in" => Cardinality(In') = Cardinality(In) - 1
         /\ (p # "in" /\ place[r] # "in") => Cardinality(In') = Cardinality(In)
         /\ p = "counted" => Cardinality(CountedWaiters') = Cardinality(CountedWaiters) + 1
         /\ place[r] = "counted" =>
                Cardinality(CountedWaiters') = Cardinality(CountedWaiters) - 1
         /\ (p # "counted" /\ place[r] # "counted") =>
                Cardinality(CountedWaiters') = Cardinality(CountedWaiters)
<1>1. place \in [Requests -> Places]
  BY DEF IInv, TypeOK
<1>2. "in" \in Places /\ "counted" \in Places
  BY DEF Places
<1>3. /\ Cardinality(In) \in Nat /\ Cardinality(In') \in Nat
      /\ p = "in" => Cardinality(In') = Cardinality(In) + 1
      /\ place[r] = "in" => Cardinality(In') = Cardinality(In) - 1
      /\ (p # "in" /\ place[r] # "in") => Cardinality(In') = Cardinality(In)
  <2> DEFINE c == "in"
  <2>1. LET S == {s \in Requests : place[s] = c}
            T == {s \in Requests : place'[s] = c}
        IN  /\ Cardinality(S) \in Nat /\ Cardinality(T) \in Nat
            /\ (c = p /\ place[r] # p) => Cardinality(T) = Cardinality(S) + 1
            /\ (c # p /\ place[r] = c) => Cardinality(T) = Cardinality(S) - 1
            /\ (c # p /\ place[r] # c) => T = S
    <3> HIDE DEF c
    <3> QED BY <1>1, <1>2, MoveCount DEF c
  <2> QED BY <2>1 DEF In
<1>4. /\ Cardinality(CountedWaiters) \in Nat /\ Cardinality(CountedWaiters') \in Nat
      /\ p = "counted" => Cardinality(CountedWaiters') = Cardinality(CountedWaiters) + 1
      /\ place[r] = "counted" =>
            Cardinality(CountedWaiters') = Cardinality(CountedWaiters) - 1
      /\ (p # "counted" /\ place[r] # "counted") =>
            Cardinality(CountedWaiters') = Cardinality(CountedWaiters)
  <2> DEFINE c == "counted"
  <2>1. LET S == {s \in Requests : place[s] = c}
            T == {s \in Requests : place'[s] = c}
        IN  /\ Cardinality(S) \in Nat /\ Cardinality(T) \in Nat
            /\ (c = p /\ place[r] # p) => Cardinality(T) = Cardinality(S) + 1
            /\ (c # p /\ place[r] = c) => Cardinality(T) = Cardinality(S) - 1
            /\ (c # p /\ place[r] # c) => T = S
    <3> HIDE DEF c
    <3> QED BY <1>1, <1>2, MoveCount DEF c
  <2> QED BY <2>1 DEF CountedWaiters
<1>5. place' \in [Requests -> Places] /\ place'[r] = p
      /\ \A s \in Requests : s # r => place'[s] = place[s]
  BY <1>1 DEF Put
<1> QED BY <1>3, <1>4, <1>5

(* What the invariant says of the numbers, for the steps to compute with. *)
LEMMA Numbers ==
  ASSUME IInv
  PROVE  /\ slots \in Nat /\ inUse \in Nat /\ waiting \in Nat /\ Capacity \in Nat
         /\ Cardinality(granted) \in Nat /\ IsFiniteSet(granted)
         /\ Cardinality(In) \in Nat /\ Cardinality(CountedWaiters) \in Nat
         /\ slots + Cardinality(granted) + Cardinality(In) = Capacity
         /\ inUse = Cardinality(In) /\ waiting = Cardinality(CountedWaiters)
<1>1. granted \subseteq Requests /\ In \subseteq Requests /\ CountedWaiters \subseteq Requests
  BY DEF IInv, TypeOK, In, CountedWaiters
<1>2. IsFiniteSet(granted) /\ IsFiniteSet(In) /\ IsFiniteSet(CountedWaiters)
  BY <1>1, GateAssumption, FS_Subset
<1> QED BY <1>2, GateAssumption, FS_CardinalityType DEF IInv, TypeOK, SlotAccounting

(* The counters keep their ranges when the accounting holds after a step. *)
LEMMA Ranges ==
  ASSUME slots' \in Nat, inUse' \in Nat, waiting' \in Nat,
         granted' \subseteq Requests, SlotAccounting'
  PROVE  slots' \in 0..Capacity /\ inUse' \in 0..Capacity
<1>1. Cardinality(granted') \in Nat
  <2>1. IsFiniteSet(granted')
    BY GateAssumption, FS_Subset
  <2> QED BY <2>1, FS_CardinalityType
<1> QED BY <1>1, GateAssumption DEF SlotAccounting

(* A step that leaves the queue and who is parked alone keeps it in shape. *)
LEMMA SameQueue ==
  ASSUME IInv, UNCHANGED <<queue, expired>>,
         \A s \in Requests : Parked(s)' <=> Parked(s),
         granted' \subseteq granted \cup Elements(queue)
  PROVE  QueueOfParked'
<1>1. \A s \in granted' : s \in Requests /\ Parked(s)'
  BY DEF IInv, TypeOK, QueueOfParked, Elements
<1>2. \A s \in expired' : Parked(s)'
  BY DEF IInv, TypeOK, QueueOfParked
<1>3. {s \in Requests : Parked(s)'} = {s \in Requests : Parked(s)}
  OBVIOUS
<1> QED BY <1>1, <1>2, <1>3 DEF IInv, QueueOfParked

(* A step that takes r out of the queue and out of the parked does too. *)
LEMMA LeftQueue ==
  ASSUME IInv, NEW r \in Requests, NEW i \in DOMAIN queue, queue[i] = r,
         queue' = Without(queue, i), expired' = expired \ {r}, ~Parked(r)',
         \A s \in Requests : s # r => (Parked(s)' <=> Parked(s)),
         granted' \subseteq (granted \ {r}) \cup Elements(queue')
  PROVE  QueueOfParked' /\ queue' \in Seq(Requests)
<1>1. queue \in Seq(Requests) /\ Injective(queue)
      /\ Elements(queue) = {s \in Requests : Parked(s)}
      /\ granted \subseteq Requests /\ expired \subseteq Requests
      /\ \A s \in granted \cup expired : Parked(s)
  BY DEF IInv, TypeOK, QueueOfParked, Elements, Injective
<1>2. /\ queue' \in Seq(Requests) /\ Injective(queue')
      /\ Elements(queue') = Elements(queue) \ {r}
  BY <1>1, WithoutOne
<1>3. Elements(queue') = {s \in Requests : Parked(s)'}
  BY <1>1, <1>2
<1>4. \A s \in granted' \cup expired' : Parked(s)'
  BY <1>1, <1>2, <1>3
<1> QED BY <1>2, <1>3, <1>4 DEF QueueOfParked, Elements, Injective

-----------------------------------------------------------------------------
(* Each step preserves the invariant. *)
LEMMA AdmitStep == ASSUME IInv, NEW r \in Requests, Admit(r) PROVE IInv'
<1>1. place[r] = "out" /\ Put(r, "in") /\ slots # 0 /\ "in" \in Places
  BY DEF Admit, Locked, Places
<1>2. SlotAccounting' /\ slots' \in Nat /\ inUse' \in Nat /\ waiting' \in Nat
  BY <1>1, Moved, Numbers DEF Admit, SlotAccounting
<1>3. QueueOfParked'
  <2>1. \A s \in Requests : Parked(s)' <=> Parked(s)
    BY <1>1, Moved DEF Parked
  <2> QED BY <2>1, SameQueue DEF Admit
<1>4. TypeOK'
  BY <1>1, <1>2, Moved, Ranges DEF Admit, TypeOK, IInv
<1> QED BY <1>2, <1>3, <1>4 DEF IInv

LEMMA ReleaseStep == ASSUME IInv, NEW r \in Requests, Release(r) PROVE IInv'
<1>1. place[r] = "in" /\ Put(r, "left") /\ "left" \in Places
  BY DEF Release, Places
<1>2. queue \in Seq(Requests) /\ granted \in SUBSET Requests
      /\ slots + 1 \in Nat /\ 1 \in 0..(slots + 1)
  BY Numbers DEF IInv, TypeOK
<1>3. /\ slots' \in 0..(slots + 1) /\ granted' \subseteq Requests
      /\ slots' + Cardinality(granted') = slots + 1 + Cardinality(granted)
      /\ granted' \subseteq granted \cup Elements(queue)
  BY <1>2, HandOutCount DEF Release
<1>4. Cardinality(granted') \in Nat
  BY <1>3, GateAssumption, FS_Subset, FS_CardinalityType
<1>5. SlotAccounting' /\ slots' \in Nat /\ inUse' \in Nat /\ waiting' \in Nat
  BY <1>1, <1>3, <1>4, Moved, Numbers DEF Release, SlotAccounting
<1>6. QueueOfParked'
  <2>1. \A s \in Requests : Parked(s)' <=> Parked(s)
    BY <1>1, Moved DEF Parked
  <2> QED BY <1>3, <2>1, SameQueue DEF Release
<1>7. TypeOK'
  BY <1>1, <1>3, <1>5, Moved, Ranges DEF Release, TypeOK, IInv
<1> QED BY <1>5, <1>6, <1>7 DEF IInv

LEMMA ParkStep == ASSUME IInv, NEW r \in Requests, Park(r) PROVE IInv'
<1>1. place[r] = "out" /\ queue' = Append(queue, r)
      /\ UNCHANGED <<slots, inUse, granted, expired>>
  BY DEF Park
<1>2. PICK p \in {"counted", "silent"} :
        /\ Put(r, p)
        /\ waiting' = IF p = "counted" THEN waiting + 1 ELSE waiting
  BY DEF Park
<1>3. p \in Places
  BY DEF Places
<1>4. SlotAccounting' /\ waiting' \in Nat
  BY <1>1, <1>2, <1>3, Moved, Numbers DEF SlotAccounting
<1>5. QueueOfParked' /\ queue' \in Seq(Requests)
  <2>1. queue \in Seq(Requests) /\ Elements(queue) = {s \in Requests : Parked(s)}
        /\ Injective(queue) /\ \A s \in granted \cup expired : s \in Requests /\ Parked(s)
    BY DEF IInv, TypeOK, QueueOfParked, Elements, Injective
  <2>2. ~Parked(r) /\ \A s \in Requests : Parked(s)' <=> (Parked(s) \/ s = r)
    BY <1>1, <1>2, <1>3, Moved DEF Parked
  <2>3. r \notin Elements(queue)
    BY <2>1, <2>2
  <2>4. queue' \in Seq(Requests) /\ DOMAIN queue' = 1..(Len(queue) + 1)
        /\ DOMAIN queue = 1..Len(queue) /\ Len(queue) \in Nat
        /\ queue'[Len(queue) + 1] = r /\ \A i \in 1..Len(queue) : queue'[i] = queue[i]
    BY <1>1, <2>1
  <2>5. Injective(queue')
    BY <2>1, <2>3, <2>4 DEF Injective, Elements
  <2>6. Elements(queue') = Elements(queue) \cup {r}
    BY <2>4 DEF Elements
  <2>7. \A s \in granted' \cup expired' : Parked(s)'
    BY <1>1, <2>1, <2>2
  <2>8. Elements(queue') = {s \in Requests : Parked(s)'}
    BY <2>1, <2>2, <2>6
  <2> QED BY <2>4, <2>5, <2>7, <2>8 DEF QueueOfParked, Elements, Injective
<1>6. TypeOK'
  BY <1>1, <1>2, <1>3, <1>4, <1>5, Moved DEF TypeOK, IInv
<1> QED BY <1>4, <1>5, <1>6 DEF IInv

LEMMA TimerStep == ASSUME IInv, NEW r \in Requests, TimerFires(r) PROVE IInv'
<1>1. In' = In /\ CountedWaiters' = CountedWaiters /\ \A s : Parked(s)' <=> Parked(s)
  BY DEF TimerFires, In, CountedWaiters, Parked
<1> QED BY <1>1 DEF TimerFires, IInv, TypeOK, QueueOfParked, SlotAccounting

LEMMA ResumeStep == ASSUME IInv, NEW r \in Requests, Resume(r) PROVE IInv'
<1>1. Parked(r) /\ r \in granted /\ r \notin expired /\ Put(r, "in") /\ "in" \in Places
      /\ Uncount(r) /\ inUse' = inUse + 1 /\ expired' = expired \ {r}
  BY DEF Resume, Places
<1>2. PICK i \in DOMAIN queue :
        /\ queue[i] = r /\ queue' = Without(queue, i)
        /\ HandOut(slots, slots, queue', granted \ {r})
  BY DEF Resume
<1>3. queue' \in Seq(Requests)
  <2>1. Injective(queue) /\ queue \in Seq(Requests)
    BY DEF IInv, TypeOK, QueueOfParked, Injective
  <2> QED BY <1>2, <2>1, WithoutOne
<1>4. /\ slots' \in 0..slots /\ granted' \subseteq Requests
      /\ slots' + Cardinality(granted') = slots + Cardinality(granted \ {r})
      /\ granted' \subseteq (granted \ {r}) \cup Elements(queue')
  <2>1. granted \ {r} \in SUBSET Requests /\ slots \in Nat /\ slots \in 0..slots
    BY Numbers DEF IInv, TypeOK
  <2> QED BY <1>2, <1>3, <2>1, HandOutCount
<1>5. Cardinality(granted') \in Nat /\ Cardinality(granted \ {r}) = Cardinality(granted) - 1
  BY <1>1, <1>4, Numbers, GateAssumption, FS_Subset, FS_CardinalityType, FS_RemoveElement
<1>6. SlotAccounting' /\ slots' \in Nat /\ inUse' \in Nat /\ waiting' \in Nat
  BY <1>1, <1>4, <1>5, Moved, Numbers DEF Uncount, SlotAccounting, Parked
<1>7. QueueOfParked'
  <2>1. ~Parked(r)' /\ \A s \in Requests : s # r => (Parked(s)' <=> Parked(s))
    BY <1>1, Moved DEF Parked
  <2> QED BY <1>1, <1>2, <1>4, <2>1, LeftQueue
<1>8. TypeOK'
  BY <1>1, <1>3, <1>4, <1>6, Moved, Ranges DEF TypeOK, IInv, Parked
<1> QED BY <1>6, <1>7, <1>8 DEF IInv

LEMMA GiveUpStep == ASSUME IInv, NEW r \in Requests, GiveUp(r) PROVE IInv'
<1> DEFINE v == IF r \in granted THEN slots + 1 ELSE slots
<1>1. Parked(r) /\ r \in expired /\ Put(r, "shed") /\ "shed" \in Places
      /\ Uncount(r) /\ inUse' = inUse /\ expired' = expired \ {r}
  BY DEF GiveUp, Places
<1>2. PICK i \in DOMAIN queue :
        /\ queue[i] = r /\ queue' = Without(queue, i)
        /\ HandOut(v, v, queue', granted \ {r})
  BY DEF GiveUp
<1>3. queue' \in Seq(Requests)
  <2>1. Injective(queue) /\ queue \in Seq(Requests)
    BY DEF IInv, TypeOK, QueueOfParked, Injective
  <2> QED BY <1>2, <2>1, WithoutOne
<1>4. v + Cardinality(granted \ {r}) = slots + Cardinality(granted) /\ v \in Nat
  <2>1. CASE r \in granted
    <3>1. Cardinality(granted \ {r}) = Cardinality(granted) - 1
      BY <2>1, Numbers, FS_RemoveElement
    <3>2. v = slots + 1
      BY <2>1
    <3> QED BY <3>1, <3>2, Numbers
  <2>2. CASE r \notin granted
    <3>1. granted \ {r} = granted
      BY <2>2
    <3> QED BY <2>2, <3>1, Numbers
  <2> QED BY <2>1, <2>2
<1> HIDE DEF v
<1>5. /\ slots' \in 0..v /\ granted' \subseteq Requests
      /\ slots' + Cardinality(granted') = v + Cardinality(granted \ {r})
      /\ granted' \subseteq (granted \ {r}) \cup Elements(queue')
  <2>1. granted \ {r} \in SUBSET Requests /\ v \in 0..v
    BY <1>4 DEF IInv, TypeOK
  <2> QED BY <1>2, <1>3, <1>4, <2>1, HandOutCount
<1>6. Cardinality(granted') \in Nat
  BY <1>5, GateAssumption, FS_Subset, FS_CardinalityType
<1>7. SlotAccounting' /\ slots' \in Nat /\ inUse' \in Nat /\ waiting' \in Nat
  BY <1>1, <1>4, <1>5, <1>6, Moved, Numbers DEF Uncount, SlotAccounting, Parked
<1>8. QueueOfParked'
  <2>1. ~Parked(r)' /\ \A s \in Requests : s # r => (Parked(s)' <=> Parked(s))
    BY <1>1, Moved DEF Parked
  <2> QED BY <1>1, <1>2, <1>5, <2>1, LeftQueue
<1>9. TypeOK'
  BY <1>1, <1>3, <1>5, <1>7, Moved, Ranges DEF TypeOK, IInv, Parked
<1> QED BY <1>7, <1>8, <1>9 DEF IInv

LEMMA Stutters == ASSUME IInv, UNCHANGED vars PROVE IInv'
  BY DEF vars, IInv, TypeOK, QueueOfParked, SlotAccounting, Parked, In, CountedWaiters

LEMMA NextIInv == IInv /\ [Next]_vars => IInv'
<1> SUFFICES ASSUME IInv, [Next]_vars PROVE IInv'
  OBVIOUS
<1>1. CASE \E r \in Requests : Admit(r) \/ Park(r) \/ TimerFires(r) \/ Task(r) \/ Release(r)
  BY <1>1, AdmitStep, ParkStep, TimerStep, ResumeStep, GiveUpStep, ReleaseStep DEF Task
<1>2. CASE UNCHANGED vars
  BY <1>2, Stutters
<1> QED BY <1>1, <1>2 DEF Next, Terminated

-----------------------------------------------------------------------------
(* Types, the accounting of the slots and the shape of the queue hold of   *)
(* every run of the gate: saturated and idle are right about the holders.  *)
THEOREM Invariance == Spec => []IInv
  BY InitIInv, NextIInv, PTL DEF Spec

THEOREM TypeCorrect == Spec => []TypeOK
<1>1. IInv => TypeOK
  BY DEF IInv
<1> QED BY <1>1, Invariance, PTL

(* The counters and the semaphore agree about the slots whatever timers    *)
(* race the hand-over.                                                     *)
THEOREM Accounting == Spec => []SlotAccounting
<1>1. IInv => SlotAccounting
  BY DEF IInv
<1> QED BY <1>1, Invariance, PTL

(* Only parked callers are in the queue, granted or expired. *)
THEOREM Queueing == Spec => []QueueOfParked
<1>1. IInv => QueueOfParked
  BY DEF IInv
<1> QED BY <1>1, Invariance, PTL

(* What HandOut leaves behind: either no slot is free or nobody waits. *)
LEMMA HandOutServes ==
  ASSUME NEW v \in Nat, NEW q, NEW g \in SUBSET Requests,
         HandOut(v, v, q, g), NEW u \in Elements(q), u \notin granted', u \notin expired
  PROVE  slots' = 0
<1>1. PICK W \in SUBSET Open(q, g) :
        /\ Cardinality(W) = v \/ (Cardinality(W) < v /\ W = Open(q, g))
        /\ slots' = v - Cardinality(W) /\ granted' = g \cup W
  BY DEF HandOut
<1>2. u \in Open(q, g) /\ u \notin W
  BY <1>1 DEF Open, Elements
<1> QED BY <1>1, <1>2

(* A step that frees a slot finds the waiter it is for. *)
LEMMA WakeStep == IInv /\ NoLostWakeup /\ [Next]_vars => NoLostWakeup'
<1> SUFFICES ASSUME IInv, NoLostWakeup, [Next]_vars, slots' > 0,
                    NEW u \in Elements(queue'), Waiting(u)'
             PROVE  granted' # {}
  BY DEF NoLostWakeup, Elements
<1>0. slots \in Nat /\ granted \in SUBSET Requests
      /\ queue \in Seq(Requests) /\ Injective(queue)
  BY Numbers DEF IInv, TypeOK, QueueOfParked, Injective
<1>1. ASSUME NEW r \in Requests, Admit(r) PROVE FALSE
  BY <1>1 DEF Admit, Locked, Cancelled, Waiting, Elements
<1>2. ASSUME NEW r \in Requests, Park(r) PROVE granted' # {}
  BY <1>0, <1>2 DEF Park, Locked, Cancelled, Waiting, NoLostWakeup
<1>3. ASSUME NEW r \in Requests, TimerFires(r) PROVE granted' # {}
  BY <1>3 DEF TimerFires, Waiting, NoLostWakeup, Elements
<1>4. ASSUME NEW r \in Requests, Resume(r) PROVE FALSE
  <2>1. HandOut(slots, slots, queue', granted \ {r}) /\ expired' = expired
    BY <1>4 DEF Resume
  <2>2. u \notin granted' /\ u \notin expired
    BY <2>1 DEF Waiting
  <2> QED BY <1>0, <2>1, <2>2, HandOutServes
<1>5. ASSUME NEW r \in Requests, GiveUp(r) PROVE FALSE
  <2> DEFINE v == IF r \in granted THEN slots + 1 ELSE slots
  <2>1. PICK i \in DOMAIN queue :
          /\ queue[i] = r /\ queue' = Without(queue, i)
          /\ HandOut(v, v, queue', granted \ {r})
    BY <1>5 DEF GiveUp
  <2>2. v \in Nat
    BY <1>0
  <2> HIDE DEF v
  <2>3. u # r
    BY <1>0, <2>1, WithoutOne
  <2>4. u \notin granted' /\ u \notin expired
    BY <1>5, <2>3 DEF GiveUp, Waiting
  <2> QED BY <1>0, <2>1, <2>2, <2>4, HandOutServes
<1>6. ASSUME NEW r \in Requests, Release(r) PROVE granted' # {}
  <2>1. HandOut(slots + 1, 1, queue, granted) /\ UNCHANGED <<queue, expired>>
    BY <1>6 DEF Release
  <2>2. PICK W \in SUBSET Open(queue, granted) :
          /\ Cardinality(W) = 1 \/ W = Open(queue, granted)
          /\ granted' = granted \cup W
    BY <2>1 DEF HandOut
  <2>3. CASE Cardinality(W) = 1
    BY <2>2, <2>3, FS_EmptySet
  <2>4. CASE W = Open(queue, granted)
    BY <2>1, <2>2, <2>4 DEF Open, Elements, Waiting
  <2> QED BY <2>2, <2>3, <2>4
<1>7. CASE UNCHANGED vars
  BY <1>7 DEF vars, Waiting, NoLostWakeup, Elements
<1> QED BY <1>1, <1>2, <1>3, <1>4, <1>5, <1>6, <1>7 DEF Next, Task, Terminated

(* Every slot is passed on: while one is free and somebody waits, a waiter *)
(* that was granted one has yet to run.                                    *)
THEOREM WakeUps == Spec => []NoLostWakeup
<1>1. Init => NoLostWakeup
  BY DEF Init, NoLostWakeup
<1>2. IInv /\ NoLostWakeup /\ [Next]_vars => NoLostWakeup'
  BY WakeStep
<1> QED BY <1>1, <1>2, Invariance, PTL DEF Spec

(* The gate implements BoundedGrants: admit() grants below the capacity    *)
(* and release() gives back, each request once.                            *)
THEOREM ImplementsGrants == Spec => GrantsSpec
<1> DEFINE Left == {r \in Requests : place[r] = "left"}
<1>1. Init => Grants!Init
  BY DEF Init, Grants!Init, In
<1>2. IInv /\ IInv' /\ [Next]_vars => [Grants!Next]_<<In, Left>>
  <2> SUFFICES ASSUME IInv, IInv', [Next]_vars PROVE Grants!Next \/ UNCHANGED <<In, Left>>
    OBVIOUS
  <2>0. place \in [Requests -> Places]
    BY DEF IInv, TypeOK
  <2>1. ASSUME NEW r \in Requests, Put(r, "in"), place[r] # "in", place[r] # "left"
        PROVE  Grants!Next
    <3>1. In' = In \cup {r} /\ Left' = Left /\ r \in Requests \ (In \cup Left)
      BY <2>0, <2>1 DEF Put, In
    <3>2. Cardinality(In) < Capacity
      <4>1. "in" \in Places
        BY DEF Places
      <4>2. Cardinality(In') = Cardinality(In) + 1 /\ Cardinality(In) \in Nat
        BY <2>1, <4>1, Moved
      <4>3. Cardinality(In') <= Capacity
        BY <4>2, GateAssumption DEF IInv, TypeOK, SlotAccounting
      <4> QED BY <4>2, <4>3, GateAssumption
    <3>3. Grants!Cardinality(In) = Cardinality(In)
      BY Zenon DEF Grants!Cardinality, Cardinality
    <3>4. Grants!Grant(r)
      BY <3>1, <3>2, <3>3 DEF Grants!Grant
    <3> QED BY <3>4 DEF Grants!Next
  <2>2. ASSUME NEW r \in Requests, Release(r) PROVE Grants!Next
    <3>1. r \in In /\ In' = In \ {r} /\ Left' = Left \cup {r}
      BY <2>0, <2>2 DEF Release, Put, In
    <3>2. Grants!GiveBack(r)
      BY <3>1 DEF Grants!GiveBack
    <3> QED BY <3>2 DEF Grants!Next
  <2>3. ASSUME NEW r \in Requests, Admit(r) \/ Resume(r) PROVE Grants!Next
    BY <2>1, <2>3 DEF Admit, Resume, Parked
  <2>4. ASSUME NEW r \in Requests, Park(r) \/ GiveUp(r) PROVE UNCHANGED <<In, Left>>
    BY <2>0, <2>4 DEF Park, GiveUp, Put, Parked, In
  <2>5. CASE UNCHANGED place
    BY <2>5 DEF In
  <2> QED BY <2>2, <2>3, <2>4, <2>5 DEF Next, Task, TimerFires, Terminated, vars
<1> QED BY <1>1, <1>2, Invariance, PTL DEF Spec, GrantsSpec, Grants!Spec
=============================================================================
