---------------------------- MODULE LogDispatcher ----------------------------
(***************************************************************************)
(* _AsyncDispatcher of infrastructure/telemetry/logging_.py, the handlers  *)
(* configure_logging attaches and the main thread that configures, flushes *)
(* and shuts it down.                                                      *)
(*                                                                         *)
(* emit() puts a record on a queue.Queue; a daemon thread gets it, writes  *)
(* it and calls task_done(); flush() is the queue's join().  The two app   *)
(* loggers are one here: they share the dispatcher.                        *)
(***************************************************************************)
EXTENDS Naturals, Sequences

CONSTANT Records  \* what may be logged

VARIABLES
    entries,     \* the queue: records and the sentinel
    unfinished,  \* the queue's unfinished_tasks
    worker,      \* "unborn", "idle", "got", "handled" or "dead"
    hand,        \* the entry it got last
    written,     \* the lines on the stream, in order
    attached,    \* a _DispatchHandler is attached
    owner,       \* what the main thread does
    put,         \* history: the records put on the queue, in order
    due          \* history: how many there were when the owner last began to flush

vars == <<entries, unfinished, worker, hand, written, attached, owner, put, due>>

Stop == "stop"
Entries == Records \cup {Stop}
Owners == {"off", "up", "flushing", "draining", "joining", "detaching"}

Init ==
    /\ entries = <<>> /\ unfinished = 0 /\ worker = "unborn" /\ hand = Stop
    /\ written = <<>> /\ attached = FALSE /\ owner = "off" /\ put = <<>> /\ due = 0

-----------------------------------------------------------------------------
(* Plausible wrong versions of the steps below: the thread marks a record  *)
(* done as it gets it, or only marks the sentinel.                         *)
BugGet ==
    /\ worker = "idle" /\ entries # <<>>
    /\ worker' = "got" /\ hand' = Head(entries) /\ entries' = Tail(entries)
    /\ unfinished' = unfinished - 1
    /\ UNCHANGED <<written, attached, owner, put, due>>
BugTaskDone ==
    /\ worker = "handled"
    /\ worker' = (IF hand = Stop THEN "dead" ELSE "idle")
    /\ unfinished' = (IF hand = Stop THEN unfinished - 1 ELSE unfinished)
    /\ UNCHANGED <<entries, hand, written, attached, owner, put, due>>

-----------------------------------------------------------------------------
(* A logger call: one put, or nothing if no handler is attached. *)
Emit(r) ==
    \/ /\ attached
       /\ entries' = Append(entries, r) /\ unfinished' = unfinished + 1
       /\ put' = Append(put, r)
       /\ UNCHANGED <<worker, hand, written, attached, owner, due>>
    \/ ~attached /\ UNCHANGED vars

(* The daemon thread: get, handle (nothing for the sentinel), task_done. *)
Get ==
    /\ worker = "idle" /\ entries # <<>>
    /\ worker' = "got" /\ hand' = Head(entries) /\ entries' = Tail(entries)
    /\ UNCHANGED <<unfinished, written, attached, owner, put, due>>

Handle ==
    /\ worker = "got" /\ worker' = "handled"
    /\ written' = IF hand = Stop THEN written ELSE Append(written, hand)
    /\ UNCHANGED <<entries, unfinished, hand, attached, owner, put, due>>

TaskDone ==
    /\ worker = "handled"
    /\ worker' = IF hand = Stop THEN "dead" ELSE "idle"
    /\ unfinished' = unfinished - 1
    /\ UNCHANGED <<entries, hand, written, attached, owner, put, due>>

Work == Get \/ Handle \/ TaskDone

-----------------------------------------------------------------------------
(* configure_logging: a dispatcher, unless there is one.                   *)
Configure ==
    /\ owner = "off" /\ ~attached
    /\ owner' = "up" /\ attached' = TRUE /\ worker' = "idle" /\ hand' = Stop
    /\ entries' = <<>> /\ unfinished' = 0 /\ written' = <<>> /\ put' = <<>> /\ due' = 0

(* flush_logging: join the queue. *)
Flush ==
    /\ owner = "up" /\ owner' = "flushing" /\ due' = Len(put)
    /\ UNCHANGED <<entries, unfinished, worker, hand, written, attached, put>>
FlushEnd ==
    /\ owner = "flushing" /\ unfinished = 0 /\ owner' = "up"
    /\ UNCHANGED <<entries, unfinished, worker, hand, written, attached, put, due>>

(* shutdown_logging: flush, the sentinel, join the thread, detach. *)
Shutdown ==
    /\ owner = "up" /\ owner' = "draining" /\ due' = Len(put)
    /\ UNCHANGED <<entries, unfinished, worker, hand, written, attached, put>>
Sentinel ==
    /\ owner = "draining" /\ unfinished = 0 /\ owner' = "joining"
    /\ entries' = Append(entries, Stop) /\ unfinished' = unfinished + 1
    /\ UNCHANGED <<worker, hand, written, attached, put, due>>
Join ==
    /\ owner = "joining" /\ worker = "dead" /\ owner' = "detaching"
    /\ UNCHANGED <<entries, unfinished, worker, hand, written, attached, put, due>>
Detach ==
    /\ owner = "detaching" /\ owner' = "off" /\ attached' = FALSE
    /\ UNCHANGED <<entries, unfinished, worker, hand, written, put, due>>

Own == FlushEnd \/ Sentinel \/ Join \/ Detach

Next == \/ \E r \in Records : Emit(r)
        \/ Work \/ Own \/ Configure \/ Flush \/ Shutdown

Spec == Init /\ [][Next]_vars

-----------------------------------------------------------------------------
(* Every variable has its type. *)
TypeOK ==
    /\ entries \in Seq(Entries) /\ unfinished \in Nat
    /\ worker \in {"unborn", "idle", "got", "handled", "dead"} /\ hand \in Entries
    /\ written \in Seq(Records) /\ put \in Seq(Records) /\ due \in 0..Len(put)
    /\ attached \in BOOLEAN /\ owner \in Owners

(* What flush_logging and shutdown_logging promise (logging_.py 138, 144): *)
(* when they return, every record put before they were called is on the    *)
(* stream, and lines appear in the order of the calls.                     *)
FlushedIsWritten ==
    /\ Len(written) <= Len(put) /\ written = SubSeq(put, 1, Len(written))
    /\ owner \in {"up", "detaching", "off"} => due <= Len(written)
=============================================================================
