------------------------ MODULE LogDispatcher_proofs ------------------------
(***************************************************************************)
(* For any number of records, flushes and restarts of the log thread: what *)
(* was put before a flush is on the stream when the flush returns.         *)
(***************************************************************************)
EXTENDS LogDispatcher, TLAPS

(* The sentinel is no record: it is an object of the dispatcher's own.     *)
StopIsNoRecord == Stop \notin Records

(* The record the thread has got and not written yet. *)
InHand == IF worker = "got" /\ hand # Stop THEN 1 ELSE 0

(* The stream holds a prefix of what was put, in order. *)
Prefix ==
    /\ Len(written) <= Len(put)
    /\ \A i \in 1..Len(written) : written[i] = put[i]

(* unfinished counts what is not done. *)
Accounting == unfinished = Len(entries) + (IF worker \in {"got", "handled"} THEN 1 ELSE 0)

(* Before the sentinel: the queue is what is neither written nor in hand.  *)
Running ==
    /\ attached /\ worker \in {"idle", "got", "handled"}
    /\ worker # "idle" => hand # Stop
    /\ Len(put) = Len(written) + InHand + Len(entries)
    /\ \A i \in 1..Len(entries) : entries[i] = put[Len(written) + InHand + i]
    /\ InHand = 1 => hand = put[Len(written) + 1]
    /\ owner = "up" => due <= Len(written)

(* After it: the thread will get nothing else, so the stream is final.     *)
Stopping ==
    /\ due <= Len(written)
    /\ \/ worker = "idle" /\ entries # <<>> /\ Head(entries) = Stop
       \/ worker \in {"got", "handled", "dead"} /\ hand = Stop
       \/ worker = "unborn"
    /\ owner = "off" => ~attached

LogInv ==
    /\ TypeOK /\ Prefix /\ Accounting
    /\ IF owner \in {"up", "flushing", "draining"} THEN Running ELSE Stopping

LEMMA LogInit == Init => LogInv
<1> SUFFICES ASSUME Init PROVE LogInv
  OBVIOUS
<1>1. TypeOK
  <2>1. <<>> \in Seq(Entries) /\ <<>> \in Seq(Records) /\ Len(<<>>) = 0
    OBVIOUS
  <2>2. due \in 0..Len(put)
    BY <2>1 DEF Init
  <2>3. hand \in Entries /\ entries \in Seq(Entries)
    BY <2>1, Zenon DEF Init, Entries
  <2> QED BY <2>1, <2>2, <2>3 DEF Init, TypeOK, Owners
<1> QED BY <1>1 DEF Init, LogInv, Prefix, Accounting, Stopping

LEMMA EmitStep ==
  ASSUME StopIsNoRecord, LogInv, NEW r \in Records, Emit(r) PROVE LogInv'
<1>1. CASE ~attached
  BY <1>1 DEF Emit, vars, LogInv, TypeOK, Prefix, Accounting, Running, Stopping, InHand
<1>2. CASE attached
  <2> USE StopIsNoRecord DEF StopIsNoRecord
  <2>0. /\ entries' = Append(entries, r) /\ unfinished' = unfinished + 1
        /\ put' = Append(put, r)
        /\ UNCHANGED <<worker, hand, written, attached, owner, due>>
    BY <1>2 DEF Emit
  <2>1. TypeOK'
    BY <2>0 DEF LogInv, TypeOK, Entries
  <2>2. Prefix' /\ Accounting'
    BY <2>0 DEF LogInv, TypeOK, Prefix, Accounting, Entries
  <2>3. CASE owner \in {"up", "flushing", "draining"}
    <3>1. Running
      BY <2>3 DEF LogInv
    <3>0. /\ Len(put') = Len(put) + 1 /\ Len(entries') = Len(entries) + 1
          /\ Len(written) \in Nat /\ Len(entries) \in Nat /\ Len(put) \in Nat
      BY <2>0 DEF LogInv, TypeOK
    <3>1a. InHand' = InHand /\ InHand \in {0, 1}
      BY <2>0 DEF InHand
    <3>2. Len(put') = Len(written) + InHand + Len(entries') /\ InHand' = InHand /\ InHand \in {0, 1}
      BY <3>0, <3>1, <3>1a DEF Running
    <3>3. ASSUME NEW i \in 1..Len(entries') PROVE entries'[i] = put'[Len(written) + InHand + i]
      <4>1. CASE i = Len(entries')
        BY <4>1, <3>0, <3>1, <3>2, <2>0 DEF Running, LogInv, TypeOK
      <4>2. CASE i \in 1..Len(entries)
        <5>1. entries'[i] = entries[i] /\ Len(written) + InHand + i \in 1..Len(put)
          BY <4>2, <3>0, <3>1, <3>2, <2>0 DEF Running, LogInv, TypeOK
        <5>2. put'[Len(written) + InHand + i] = put[Len(written) + InHand + i]
          BY <5>1, <2>0 DEF LogInv, TypeOK
        <5> QED BY <4>2, <5>1, <5>2, <3>1 DEF Running
      <4> QED BY <3>0, <4>1, <4>2
    <3>4. InHand' = 1 => hand' = put'[Len(written') + 1]
      BY <3>1, <3>2, <2>0 DEF Running, LogInv, TypeOK
    <3>5. Running'
      BY <3>1, <3>2, <3>3, <3>4, <2>0 DEF Running
    <3> QED BY <2>0, <2>1, <2>2, <2>3, <3>5 DEF LogInv
  <2>4. CASE owner \notin {"up", "flushing", "draining"}
    <3>1. Stopping
      BY <2>4 DEF LogInv
    <3>2. Stopping'
      BY <3>1, <2>0 DEF Stopping, LogInv, TypeOK, Entries
    <3> QED BY <2>0, <2>1, <2>2, <2>4, <3>2 DEF LogInv
  <2> QED BY <2>3, <2>4
<1> QED BY <1>1, <1>2

LEMMA WorkStep ==
  ASSUME StopIsNoRecord, LogInv, Work PROVE LogInv'
<1> USE StopIsNoRecord DEF StopIsNoRecord
<1>1. CASE Get
  <2>1. TypeOK' /\ Prefix' /\ Accounting'
    BY <1>1 DEF Get, LogInv, TypeOK, Prefix, Accounting, Entries
  <2>2. CASE owner \in {"up", "flushing", "draining"}
    <3>1. Running /\ entries # <<>> /\ worker = "idle"
      BY <2>2, <1>1 DEF LogInv, Get
    <3>2. entries[1] \in Entries /\ entries[1] = put[Len(written) + 1] /\ Len(written) + 1 \in 1..Len(put)
      BY <3>1 DEF Running, InHand, LogInv, TypeOK
    <3>3. hand' = put[Len(written) + 1] /\ hand' # Stop
      BY <3>2, <1>1, <3>1 DEF Get, LogInv, TypeOK
    <3>4. Running'
      BY <3>1, <3>3, <1>1 DEF Running, Get, InHand, LogInv, TypeOK
    <3> QED BY <2>1, <2>2, <3>4, <1>1 DEF LogInv, Get
  <2>3. CASE owner \notin {"up", "flushing", "draining"}
    <3>1. Stopping'
      BY <2>3, <1>1 DEF LogInv, Get, Stopping, TypeOK
    <3> QED BY <2>1, <2>3, <3>1, <1>1 DEF LogInv, Get
  <2> QED BY <2>2, <2>3
<1>2. CASE Handle
  <2>1. CASE owner \in {"up", "flushing", "draining"}
    <3>1. Running /\ hand \in Records /\ worker = "got"
      BY <2>1, <1>2 DEF LogInv, Handle, Running, TypeOK, Entries
    <3>2. written' = Append(written, hand) /\ hand # Stop /\ worker' = "handled"
      BY <3>1, <1>2 DEF Handle
    <3>3. TypeOK' /\ Prefix' /\ Accounting'
      BY <3>1, <3>2, <1>2 DEF Handle, LogInv, TypeOK, Prefix, Accounting, Running, InHand
    <3>4. Running'
      BY <3>1, <3>2, <1>2 DEF Handle, Running, InHand, LogInv, TypeOK
    <3> QED BY <2>1, <3>3, <3>4, <1>2 DEF LogInv, Handle
  <2>2. CASE owner \notin {"up", "flushing", "draining"}
    <3>1. Stopping /\ hand = Stop
      BY <2>2, <1>2 DEF LogInv, Handle, Stopping
    <3> QED BY <2>2, <3>1, <1>2 DEF LogInv, Handle, Stopping, TypeOK, Prefix, Accounting
  <2> QED BY <2>1, <2>2
<1>3. CASE TaskDone
  <2>1. CASE owner \in {"up", "flushing", "draining"}
    <3>1. Running /\ hand # Stop /\ worker = "handled" /\ worker' = "idle"
      BY <2>1, <1>3 DEF LogInv, TaskDone, Running
    <3> QED BY <2>1, <3>1, <1>3 DEF LogInv, TaskDone, Running, InHand, TypeOK, Prefix, Accounting
  <2>2. CASE owner \notin {"up", "flushing", "draining"}
    <3>1. Stopping /\ hand = Stop /\ worker' = "dead"
      BY <2>2, <1>3 DEF LogInv, TaskDone, Stopping
    <3> QED BY <2>2, <3>1, <1>3 DEF LogInv, TaskDone, Stopping, TypeOK, Prefix, Accounting
  <2> QED BY <2>1, <2>2
<1> QED BY <1>1, <1>2, <1>3 DEF Work

LEMMA OwnerStep ==
  ASSUME LogInv, Own \/ Configure \/ Flush \/ Shutdown PROVE LogInv'
<1> USE DEF LogInv, TypeOK, Prefix, Accounting, Entries, Owners
<1>1. CASE FlushEnd
  <2>1. Running /\ Len(entries) = 0 /\ worker = "idle"
    BY <1>1 DEF FlushEnd, Running
  <2> QED BY <1>1, <2>1 DEF FlushEnd, Running, InHand
<1>2. CASE Sentinel
  <2>1. Running /\ entries = <<>> /\ worker = "idle"
    BY <1>2 DEF Sentinel, Running
  <2>2. due <= Len(written) /\ entries' = <<Stop>>
    BY <1>2, <2>1 DEF Sentinel, Running, InHand
  <2> QED BY <1>2, <2>1, <2>2 DEF Sentinel, Stopping
<1>3. CASE Join
  BY <1>3 DEF Join, Stopping
<1>4. CASE Detach
  BY <1>4 DEF Detach, Stopping
<1>5. CASE Configure
  BY <1>5 DEF Configure, Running, InHand
<1>6. CASE Flush \/ Shutdown
  <2>1. /\ Running /\ owner' \in {"flushing", "draining"} /\ due' = Len(put)
        /\ UNCHANGED <<entries, unfinished, worker, hand, written, attached, put>>
    BY <1>6 DEF Flush, Shutdown
  <2>2. Running'
    BY <2>1 DEF Running, InHand
  <2> QED BY <2>1, <2>2
<1> QED BY <1>1, <1>2, <1>3, <1>4, <1>5, <1>6 DEF Own

LEMMA LogStep ==
  ASSUME StopIsNoRecord, LogInv, [Next]_vars PROVE LogInv'
<1>1. CASE UNCHANGED vars
  BY <1>1 DEF vars, LogInv, TypeOK, Prefix, Accounting, Running, Stopping, InHand
<1> QED BY <1>1, EmitStep, WorkStep, OwnerStep DEF Next

(* join() returns: everything that was put is on the stream.               *)
LEMMA Joined ==
  ASSUME LogInv, owner \in {"up", "flushing", "draining"}, unfinished = 0
  PROVE  Len(written) = Len(put)
BY DEF LogInv, TypeOK, Accounting, Running, InHand

(* What is wanted of the dispatcher follows. *)
LEMMA FlushedFollows == LogInv => FlushedIsWritten
<1> SUFFICES ASSUME LogInv PROVE FlushedIsWritten
  OBVIOUS
<1>1. Len(written) <= Len(put) /\ Len(written) \in 0..Len(put)
  BY DEF LogInv, TypeOK, Prefix
<1>2. /\ SubSeq(put, 1, Len(written)) \in Seq(Records)
      /\ Len(SubSeq(put, 1, Len(written))) = Len(written)
      /\ \A i \in 1..Len(written) : SubSeq(put, 1, Len(written))[i] = put[i]
  BY <1>1 DEF LogInv, TypeOK
<1>3. written = SubSeq(put, 1, Len(written))
  BY <1>2 DEF LogInv, TypeOK, Prefix
<1>4. owner \in {"up", "detaching", "off"} => due <= Len(written)
  BY DEF LogInv, TypeOK, Running, Stopping
<1> QED BY <1>1, <1>3, <1>4 DEF FlushedIsWritten

(* However records are logged while it flushes: the stream shows them in   *)
(* the order of the calls, and those before a flush once it returns.       *)
THEOREM Flushed ==
  ASSUME StopIsNoRecord PROVE Spec => []FlushedIsWritten
<1>1. Init => LogInv
  BY LogInit
<1>2. LogInv /\ [Next]_vars => LogInv'
  BY LogStep
<1>3. LogInv => FlushedIsWritten
  BY FlushedFollows
<1> QED BY <1>1, <1>2, <1>3, PTL DEF Spec
=============================================================================
