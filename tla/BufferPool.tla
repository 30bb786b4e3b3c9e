----------------------------- MODULE BufferPool -----------------------------
(***************************************************************************)
(* BufferPool of infrastructure/memory/pool.py: at most Capacity sinks,    *)
(* lent to one request at a time and reused.  Which free buffer is lent is *)
(* left open.                                                              *)
(***************************************************************************)
EXTENDS Integers, FiniteSets

CONSTANTS Requests, Capacity

Buffers == 1..Capacity
Empty == "empty"

VARIABLES
    free,     \* _free
    created,  \* _created; the buffers made so far are 1..created
    lent,     \* requests that have a buffer
    sink,     \* the buffer a request had last, 0 before its first
    content   \* whose document is in a buffer

vars == <<free, created, lent, sink, content>>

Init == /\ free = {} /\ created = 0 /\ lent = {}
        /\ sink = [r \in Requests |-> 0]
        /\ content = [b \in Buffers |-> Empty]

(* A plausible wrong version: the free list is read but not popped. *)
BugLend(r, b) ==
    /\ r \notin lent
    /\ \/ b \in free /\ UNCHANGED <<free, created>>
       \/ free = {} /\ created < Capacity /\ b = created + 1
          /\ created' = b /\ UNCHANGED free
    /\ lent' = lent \cup {r} /\ sink' = [sink EXCEPT ![r] = b]
    /\ content' = [content EXCEPT ![b] = Empty]

(* acquire() finds a buffer: a free one first, else a new one. *)
Lend(r, b) ==
    /\ r \notin lent
    /\ \/ b \in free /\ free' = free \ {b} /\ UNCHANGED created
       \/ free = {} /\ created < Capacity /\ b = created + 1
          /\ created' = b /\ UNCHANGED free
    /\ lent' = lent \cup {r} /\ sink' = [sink EXCEPT ![r] = b]
    /\ content' = [content EXCEPT ![b] = Empty]

(* acquire() answers None. *)
Refuses == free = {} /\ created >= Capacity

(* The reader fills the sink with r's upload. *)
Fill(r) ==
    /\ r \in lent
    /\ content' = [content EXCEPT ![sink[r]] = r]
    /\ UNCHANGED <<free, created, lent, sink>>

GiveBack(r) ==
    /\ r \in lent /\ lent' = lent \ {r}
    /\ free' = IF Cardinality(free) < Capacity THEN free \cup {sink[r]} ELSE free
    /\ UNCHANGED <<created, sink, content>>

Next == \E r \in Requests : GiveBack(r) \/ Fill(r) \/ \E b \in Buffers : Lend(r, b)
Spec == Init /\ [][Next]_vars

-----------------------------------------------------------------------------
(* Every variable has its type. *)
TypeOK == /\ free \subseteq Buffers /\ created \in 0..Capacity /\ lent \subseteq Requests
          /\ sink \in [Requests -> 0..Capacity]
          /\ content \in [Buffers -> Requests \cup {Empty}]

(* A buffer is free or lent to exactly one request, and none is lost: so   *)
(* two uploads never share a sink and the free list never overflows.       *)
BuffersConserved ==
    /\ \A r \in lent : sink[r] \in 1..created /\ sink[r] \notin free
    /\ \A r, s \in lent : sink[r] = sink[s] => r = s
    /\ free \subseteq 1..created
    /\ Cardinality(free) + Cardinality(lent) = created

(* acquire() refuses only when every one of the buffers is in a request's  *)
(* hands.                                                                  *)
RefusesOnlyWhenLentOut == Refuses => Cardinality(lent) = Capacity
=============================================================================
