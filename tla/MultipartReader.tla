--------------------------- MODULE MultipartReader ---------------------------
(***************************************************************************)
(* _MultipartReader of infrastructure/http/multipart_reader.py, fed by     *)
(* read_multipart_file with a body cut into chunks at arbitrary places.    *)
(*                                                                         *)
(* A body is a sequence of bytes of which only these matter: "CR", "LF",   *)
(* "D" (the dash), those of the boundary, and "f", which stands for the    *)
(* Content-Disposition line that names the part file.  A step is one       *)
(* _step(); the reader asks for a chunk when a step returned False.        *)
(***************************************************************************)
EXTENDS Integers, Sequences

CONSTANTS
    Bytes,      \* the bytes told apart
    Bodies,     \* the bodies that may arrive
    Boundary,   \* the boundary, a sequence of bytes
    MaxBytes,   \* max_bytes
    MaxHeader   \* _MAX_PART_HEADER_BYTES

ASSUME ReaderAssumption ==
    /\ {"CR", "LF", "D"} \subseteq Bytes
    /\ Bodies \subseteq Seq(Bytes) /\ Boundary \in Seq(Bytes)
    /\ MaxBytes \in Nat \ {0} /\ MaxHeader \in Nat

VARIABLES
    body,     \* what the client sends
    fed,      \* how much of it was fed
    buf,      \* _buf
    state,    \* _state
    sink,     \* _sink
    outcome,  \* "open", "done" or the error raised
    hungry    \* the last _step() returned False

vars == <<body, fed, buf, state, sink, outcome, hungry>>

Marker == <<"D", "D">> \o Boundary
Delimiter == <<"LF">> \o Marker
HeaderEnds == {<<"CR", "LF", "CR", "LF">>, <<"LF", "LF">>}

(* bytearray.find, 0 if the pattern is not there; startswith; del s[:n];   *)
(* _prune.                                                                 *)
IsAt(s, p, i) == i + Len(p) - 1 <= Len(s) /\ SubSeq(s, i, i + Len(p) - 1) = p
Find(s, p) == LET I == {i \in 1..Len(s) : IsAt(s, p, i)}
              IN  IF I = {} THEN 0 ELSE CHOOSE i \in I : \A j \in I : i <= j
Drop(s, n) == SubSeq(s, n + 1, Len(s))
Prune(s, keep) == IF Len(s) > keep THEN Drop(s, Len(s) - keep) ELSE s

(* _part_name(...) == "file". *)
NamesFile(block) == \E i \in 1..Len(block) : block[i] = "f"

(* What precedes a delimiter found at i, without the CR of a CRLF. *)
Before(s, i) == IF i > 1 /\ s[i - 1] = "CR" THEN SubSeq(s, 1, i - 2) ELSE SubSeq(s, 1, i - 1)

Init ==
    /\ body \in Bodies /\ fed = 0
    /\ buf = <<>> /\ state = "preamble" /\ sink = <<>>
    /\ outcome = "open" /\ hungry = TRUE

-----------------------------------------------------------------------------
Stepping(s) == outcome = "open" /\ ~hungry /\ state = s
Starve == hungry' = TRUE /\ UNCHANGED <<state, outcome>>
Raise(error) == outcome' = error /\ UNCHANGED <<state, buf, hungry>>
Advance(s, n) == state' = s /\ buf' = Drop(buf, n) /\ UNCHANGED <<outcome, hungry>>

(* Plausible wrong versions of the steps below, none part of Next: a chunk *)
(* is buffered again, the file keeps back a byte too few or has its budget *)
(* checked only at its end, the preamble is dropped whole, a skipped part  *)
(* is kept.                                                                *)
BugFeed ==
    /\ outcome = "open" /\ hungry /\ fed < Len(body)
    /\ \E n \in 1..(Len(body) - fed) :
          fed' = fed + n /\ buf' = buf \o SubSeq(body, 1, fed + n)
    /\ hungry' = FALSE
    /\ UNCHANGED <<body, state, sink, outcome>>
BugReadFile ==
    /\ Stepping("file") /\ UNCHANGED <<body, fed>>
    /\ LET i == Find(buf, Delimiter)
           n == IF i > 0 THEN Len(Before(buf, i)) ELSE Len(buf) - Len(Delimiter) + 1
       IN  IF Len(sink) + n > MaxBytes THEN Raise("oversized") /\ UNCHANGED sink
           ELSE /\ sink' = sink \o SubSeq(buf, 1, n)
                /\ IF i > 0 THEN Raise(IF sink' = <<>> THEN "empty" ELSE "done")
                            ELSE Starve /\ buf' = IF n > 0 THEN Drop(buf, n) ELSE buf
BugBudget ==
    /\ Stepping("file") /\ UNCHANGED <<body, fed>>
    /\ LET i == Find(buf, Delimiter)
           n == IF i > 0 THEN Len(Before(buf, i)) ELSE Len(buf) - Len(Delimiter)
       IN  /\ sink' = sink \o SubSeq(buf, 1, n)
           /\ IF i > 0 THEN Raise(IF Len(sink') > MaxBytes THEN "oversized" ELSE "done")
                       ELSE Starve /\ buf' = IF n > 0 THEN Drop(buf, n) ELSE buf
BugSeekBoundary ==
    /\ Stepping("preamble") /\ UNCHANGED <<body, fed, sink>>
    /\ LET i == Find(buf, Marker)
       IN  IF i > 0 THEN Advance("boundaryEnd", i + Len(Marker) - 1)
                    ELSE Starve /\ buf' = <<>>
BugSkipPart ==
    /\ Stepping("skip") /\ UNCHANGED <<body, fed, sink>>
    /\ LET i == Find(buf, Delimiter)
       IN  IF i > 0 THEN Advance("boundaryEnd", i + Len(Delimiter) - 1)
                    ELSE Starve /\ UNCHANGED buf

-----------------------------------------------------------------------------
(* feed(): one more chunk, of any length. *)
Feed ==
    /\ outcome = "open" /\ hungry /\ fed < Len(body)
    /\ \E n \in 1..(Len(body) - fed) :
          fed' = fed + n /\ buf' = buf \o SubSeq(body, fed + 1, fed + n)
    /\ hungry' = FALSE
    /\ UNCHANGED <<body, state, sink, outcome>>

(* finish(): the stream ends before the file part does. *)
Finish ==
    /\ outcome = "open" /\ hungry /\ fed = Len(body)
    /\ Raise("malformed") /\ UNCHANGED <<body, fed, sink>>

SeekBoundary ==
    /\ Stepping("preamble") /\ UNCHANGED <<body, fed, sink>>
    /\ LET i == Find(buf, Marker)
       IN  IF i > 0 THEN Advance("boundaryEnd", i + Len(Marker) - 1)
                    ELSE Starve /\ buf' = Prune(buf, Len(Marker) - 1)

EndBoundary ==
    /\ Stepping("boundaryEnd") /\ UNCHANGED <<body, fed, sink>>
    /\ CASE buf \in {<<>>, <<"D">>, <<"CR">>} -> Starve /\ UNCHANGED buf
         [] IsAt(buf, <<"D", "D">>, 1)   -> Raise("missing")
         [] IsAt(buf, <<"LF">>, 1)       -> Advance("headers", 1)
         [] IsAt(buf, <<"CR", "LF">>, 1) -> Advance("headers", 2)
         [] OTHER                        -> Raise("malformed")

(* The header block ends at the first blank line, of either kind. *)
ReadHeaders ==
    /\ Stepping("headers") /\ UNCHANGED <<body, fed, sink>>
    /\ \/ /\ \A e \in HeaderEnds : Find(buf, e) = 0
          /\ IF Len(buf) > MaxHeader THEN Raise("malformed") ELSE Starve /\ UNCHANGED buf
       \/ \E e \in HeaderEnds :
             /\ Find(buf, e) > 0
             /\ \A o \in HeaderEnds : Find(buf, o) = 0 \/ Find(buf, e) <= Find(buf, o)
             /\ LET block == SubSeq(buf, 1, Find(buf, e) - 1)
                IN  IF Len(block) > MaxHeader THEN Raise("malformed")
                    ELSE Advance(IF NamesFile(block) THEN "file" ELSE "skip",
                                 Len(block) + Len(e))

(* The file part: up to the delimiter, or as much as cannot belong to one; *)
(* _append refuses what would exceed the budget.                           *)
ReadFile ==
    /\ Stepping("file") /\ UNCHANGED <<body, fed>>
    /\ LET i == Find(buf, Delimiter)
           n == IF i > 0 THEN Len(Before(buf, i)) ELSE Len(buf) - Len(Delimiter)
       IN  \/ n > MaxBytes - Len(sink) /\ Raise("oversized") /\ UNCHANGED sink
           \/ /\ n <= MaxBytes - Len(sink) /\ sink' = sink \o SubSeq(buf, 1, n)
              /\ IF i > 0 THEN Raise(IF sink' = <<>> THEN "empty" ELSE "done")
                          ELSE Starve /\ buf' = IF n > 0 THEN Drop(buf, n) ELSE buf

SkipPart ==
    /\ Stepping("skip") /\ UNCHANGED <<body, fed, sink>>
    /\ LET i == Find(buf, Delimiter)
       IN  IF i > 0 THEN Advance("boundaryEnd", i + Len(Delimiter) - 1)
                    ELSE Starve /\ buf' = Prune(buf, Len(Delimiter))

Over == outcome # "open" /\ UNCHANGED vars

Next == Feed \/ Finish \/ SeekBoundary \/ EndBoundary \/ ReadHeaders \/ ReadFile
        \/ SkipPart \/ Over

Spec == Init /\ [][Next]_vars

-----------------------------------------------------------------------------
(* The reference: what a body holds, read in one piece, under a header cap *)
(* of h bytes.  A part is known by i, the byte after its marker.           *)
First(b, patterns, i) ==
    LET I == {j \in i..Len(b) : \E p \in patterns : IsAt(b, p, j)}
    IN  IF I = {} THEN 0 ELSE CHOOSE j \in I : \A k \in I : j <= k
Error(e) == [outcome |-> e, file |-> <<>>]

EndsLine(b, i) == IsAt(b, <<"LF">>, i) \/ IsAt(b, <<"CR", "LF">>, i)
HeadersAt(b, i) == IF IsAt(b, <<"LF">>, i) THEN i + 1 ELSE i + 2
BlankAt(b, i) == First(b, HeaderEnds, HeadersAt(b, i))
ContentAt(b, i) == BlankAt(b, i) + IF IsAt(b, <<"LF", "LF">>, BlankAt(b, i)) THEN 2 ELSE 4
Readable(b, h, i) ==
    EndsLine(b, i) /\ BlankAt(b, i) > 0 /\ BlankAt(b, i) - HeadersAt(b, i) <= h
IsFile(b, i) == NamesFile(SubSeq(b, HeadersAt(b, i), BlankAt(b, i) - 1))

(* The file whose first byte would be at c. *)
FileAt(b, c) ==
    LET d == First(b, {Delimiter}, c)
        file == Before(SubSeq(b, c, Len(b)), d - c + 1)
    IN  IF Len(IF d > 0 THEN file ELSE SubSeq(b, c + Len(Delimiter), Len(b))) > MaxBytes
        THEN Error("oversized")
        ELSE IF d = 0 THEN Error("malformed")
        ELSE [outcome |-> IF file = <<>> THEN "empty" ELSE "done", file |-> file]

(* A part that is not the file is skipped to the next delimiter. *)
Skips(b, h, i) ==
    Readable(b, h, i) /\ ~IsFile(b, i) /\ First(b, {Delimiter}, ContentAt(b, i)) > 0
Resume(b, i) == First(b, {Delimiter}, ContentAt(b, i)) + Len(Delimiter)
Answer(b, h, i) ==
    CASE IsAt(b, <<"D", "D">>, i)            -> Error("missing")
      [] Readable(b, h, i) /\ IsFile(b, i)   -> FileAt(b, ContentAt(b, i))
      [] OTHER                               -> Error("malformed")
Parse(b, h) ==
    LET Part[i \in 1..(Len(b) + 1)] ==
            IF Skips(b, h, i) THEN Part[Resume(b, i)] ELSE Answer(b, h, i)
    IN  Part
Reference(b, h) ==
    LET m == First(b, {Marker}, 1)
    IN  IF m = 0 THEN Error("malformed") ELSE Parse(b, h)[m + Len(Marker)]

-----------------------------------------------------------------------------
(* Every variable has its type. *)
TypeOK ==
    /\ body \in Bodies /\ fed \in 0..Len(body)
    /\ buf \in Seq(Bytes) /\ Len(buf) <= fed /\ sink \in Seq(Bytes)
    /\ state \in {"preamble", "boundaryEnd", "headers", "file", "skip"}
    /\ outcome \in {"open", "done", "empty", "oversized", "missing", "malformed"}
    /\ hungry \in BOOLEAN

(* How the body was cut into chunks does not show: the file and the error  *)
(* are those of the whole body, but for a header block that ends within    *)
(* three bytes of the cap, which is refused if a chunk ends in its blank   *)
(* line (multipart_reader.py 148 compares the buffer, 152 the block).      *)
ChunksDoNotShow ==
    outcome # "open" =>
        \E h \in {MaxHeader, MaxHeader - 3} :
            /\ outcome = Reference(body, h).outcome
            /\ outcome = "done" => sink = Reference(body, h).file

(* The sink never exceeds the budget, which is all the memory an upload    *)
(* may take.                                                               *)
SinkWithinBudget == Len(sink) <= MaxBytes

(* Nothing is framed into the sink that has to be taken back: it holds at  *)
(* every instant a beginning of the file.                                  *)
SinkHoldsTheFile ==
    LET r == Reference(body, MaxHeader)
    IN  r.outcome = "done" => IsAt(r.file, sink, 1)

(* Between two chunks the parse buffer is bounded, whatever the body.      *)
BufferBounded ==
    outcome = "open" /\ hungry =>
        Len(buf) <= IF MaxHeader > Len(Delimiter) THEN MaxHeader ELSE Len(Delimiter)
=============================================================================
