----------------------- MODULE MultipartReader_proofs -----------------------
(***************************************************************************)
(* The reader of multipart bodies, for every body, boundary and way of     *)
(* cutting it into chunks: what it keeps in memory is bounded, and it      *)
(* reads what one would read in the body in one piece.                     *)
(***************************************************************************)
EXTENDS MultipartReader, WellFoundedInduction, SequenceTheorems, TLAPS

(* The constants as sequences and numbers. *)
LEMMA Patterns ==
  /\ Marker \in Seq(Bytes) /\ Delimiter \in Seq(Bytes)
  /\ <<"D", "D">> \in Seq(Bytes) /\ <<"LF">> \in Seq(Bytes) /\ <<"CR", "LF">> \in Seq(Bytes)
  /\ <<"LF", "LF">> \in Seq(Bytes) /\ <<"CR", "LF", "CR", "LF">> \in Seq(Bytes)
  /\ Len(Delimiter) = Len(Marker) + 1 /\ Len(Marker) >= 2 /\ Len(Marker) \in Nat
  /\ Len(Delimiter) \in Nat /\ MaxBytes \in Nat /\ MaxHeader \in Nat
<1>1. Boundary \in Seq(Bytes) /\ "CR" \in Bytes /\ "LF" \in Bytes /\ "D" \in Bytes
  BY ReaderAssumption
<1>2. /\ <<"D", "D">> \in Seq(Bytes) /\ <<"LF">> \in Seq(Bytes) /\ <<"CR", "LF">> \in Seq(Bytes)
      /\ <<"LF", "LF">> \in Seq(Bytes) /\ <<"CR", "LF", "CR", "LF">> \in Seq(Bytes)
  BY <1>1
<1>3. Marker \in Seq(Bytes) /\ Len(Marker) = 2 + Len(Boundary)
  BY <1>1, <1>2 DEF Marker
<1>4. Delimiter \in Seq(Bytes) /\ Len(Delimiter) = 1 + Len(Marker)
  BY <1>2, <1>3 DEF Delimiter
<1> QED BY <1>1, <1>2, <1>3, <1>4, ReaderAssumption

(* Dropping a beginning and keeping an end leave sequences. *)
LEMMA Dropping ==
  ASSUME NEW s \in Seq(Bytes), NEW n \in Nat
  PROVE  Drop(s, n) \in Seq(Bytes) /\ Len(Drop(s, n)) <= Len(s)
         /\ (n <= Len(s) => Len(Drop(s, n)) = Len(s) - n)
  BY DEF Drop

LEMMA Pruning ==
  ASSUME NEW s \in Seq(Bytes), NEW k \in Nat
  PROVE  Prune(s, k) \in Seq(Bytes) /\ Len(Prune(s, k)) <= Len(s) /\ Len(Prune(s, k)) <= k
<1>1. CASE Len(s) > k
  <2>1. Len(s) - k \in Nat /\ Len(s) - k <= Len(s)
    BY <1>1
  <2> QED BY <1>1, <2>1, Dropping DEF Prune
<1>2. CASE ~(Len(s) > k)
  BY <1>2 DEF Prune
<1> QED BY <1>1, <1>2

(* A set of positions has a first one, so that find returns a position.    *)
LEMMA FirstPosition ==
  ASSUME NEW I, I \subseteq Nat, I # {}
  PROVE  \E i \in I : \A j \in I : i <= j
<1>1. PICK i \in I : \A j \in I : ~(<<j, i>> \in OpToRel(<, Nat))
  BY NatLessThanWellFounded, WFMin
<1>2. ASSUME NEW j \in I PROVE i <= j
  <2>1. ~(j < i)
    BY <1>1 DEF OpToRel
  <2> QED BY <2>1
<1> QED BY <1>2

LEMMA Finding ==
  ASSUME NEW s \in Seq(Bytes), NEW p PROVE Find(s, p) \in 0..Len(s)
<1> DEFINE I == {i \in 1..Len(s) : IsAt(s, p, i)}
<1>1. CASE I = {}
  BY <1>1 DEF Find
<1>2. CASE I # {}
  <2>0. I \subseteq Nat
    OBVIOUS
  <2>1. \E i \in I : \A j \in I : i <= j
    <3> HIDE DEF I
    <3> QED BY <1>2, <2>0, FirstPosition
  <2>2. Find(s, p) \in I
    BY <1>2, <2>1 DEF Find
  <2> QED BY <2>2
<1> QED BY <1>1, <1>2

(* What the file part hands to the sink is a beginning of the buffer. *)
LEMMA Handing ==
  ASSUME NEW s \in Seq(Bytes), NEW n \in Int, n <= Len(s)
  PROVE  /\ SubSeq(s, 1, n) \in Seq(Bytes)
         /\ Len(SubSeq(s, 1, n)) = IF n > 0 THEN n ELSE 0
  OBVIOUS

LEMMA Preceding ==
  ASSUME NEW s \in Seq(Bytes), NEW i \in 1..Len(s)
  PROVE  Before(s, i) \in Seq(Bytes) /\ Len(Before(s, i)) \in 0..Len(s)
<1>1. CASE i > 1 /\ s[i - 1] = "CR"
  <2>1. i - 2 \in Int /\ i - 2 <= Len(s)
    BY <1>1
  <2>2. Before(s, i) = SubSeq(s, 1, i - 2)
    BY <1>1 DEF Before
  <2> QED BY <2>1, <2>2, Handing
<1>2. CASE ~(i > 1 /\ s[i - 1] = "CR")
  <2>1. i - 1 \in Int /\ i - 1 <= Len(s)
    OBVIOUS
  <2>2. Before(s, i) = SubSeq(s, 1, i - 1)
    BY <1>2 DEF Before
  <2> QED BY <2>1, <2>2, Handing
<1> QED BY <1>1, <1>2

(***************************************************************************)
(* The two bounds are inductive together with the types: every step that   *)
(* asks for another chunk has just cut the buffer, or found it short.      *)
(***************************************************************************)
Keeps == TypeOK /\ SinkWithinBudget /\ BufferBounded

(* The bound on the buffer, from what a starving step leaves in it. *)
LEMMA Starved ==
  ASSUME Len(buf') \in Nat, Len(buf') <= MaxHeader \/ Len(buf') <= Len(Delimiter)
  PROVE  BufferBounded'
  BY Patterns DEF BufferBounded

LEMMA Initially == Init => Keeps
<1> SUFFICES ASSUME Init PROVE Keeps
  OBVIOUS
<1>1. body \in Seq(Bytes)
  BY ReaderAssumption DEF Init
<1>2. TypeOK
  BY <1>1 DEF Init, TypeOK
<1>3. SinkWithinBudget /\ BufferBounded
  BY Patterns DEF Init, SinkWithinBudget, BufferBounded
<1> QED BY <1>2, <1>3 DEF Keeps

LEMMA Feeding == Keeps /\ Feed => Keeps'
<1> SUFFICES ASSUME Keeps, Feed PROVE Keeps'
  OBVIOUS
<1>1. PICK n \in 1..(Len(body) - fed) :
        fed' = fed + n /\ buf' = buf \o SubSeq(body, fed + 1, fed + n)
  BY DEF Feed
<1>2. body \in Seq(Bytes) /\ fed \in 0..Len(body) /\ buf \in Seq(Bytes) /\ Len(buf) <= fed
  BY ReaderAssumption DEF Keeps, TypeOK
<1>3. SubSeq(body, fed + 1, fed + n) \in Seq(Bytes) /\ Len(SubSeq(body, fed + 1, fed + n)) = n
  BY <1>2
<1>4. fed' \in 0..Len(body) /\ buf' \in Seq(Bytes) /\ Len(buf') <= fed'
  BY <1>1, <1>2, <1>3
<1>5. TypeOK'
  BY <1>4 DEF Keeps, TypeOK, Feed
<1>6. SinkWithinBudget' /\ BufferBounded'
  BY DEF Keeps, Feed, SinkWithinBudget, BufferBounded
<1> QED BY <1>5, <1>6 DEF Keeps

(* Raising ends the reading; the sink is as it was, or within its budget.  *)
LEMMA Raising ==
  ASSUME Keeps, NEW e \in {"done", "empty", "oversized", "missing", "malformed"}, Raise(e),
         UNCHANGED <<body, fed>>, sink' \in Seq(Bytes), Len(sink') <= MaxBytes
  PROVE  Keeps'
<1>1. TypeOK'
  BY DEF Keeps, TypeOK, Raise
<1>2. SinkWithinBudget' /\ BufferBounded'
  BY DEF Raise, SinkWithinBudget, BufferBounded
<1> QED BY <1>1, <1>2 DEF Keeps

(* Advancing past what was recognised goes on without asking for a chunk.  *)
LEMMA Advancing ==
  ASSUME Keeps, NEW s \in {"boundaryEnd", "headers", "file", "skip"}, NEW n \in Nat,
         Advance(s, n), outcome = "open", ~hungry, UNCHANGED <<body, fed, sink>>
  PROVE  Keeps'
<1>1. Drop(buf, n) \in Seq(Bytes) /\ Len(Drop(buf, n)) <= Len(buf)
  BY Dropping DEF Keeps, TypeOK
<1>2. Len(Drop(buf, n)) \in Nat /\ Len(buf) \in Nat /\ fed \in Nat
  BY <1>1, ReaderAssumption DEF Keeps, TypeOK
<1>3. TypeOK'
  BY <1>1, <1>2 DEF Keeps, TypeOK, Advance
<1>4. SinkWithinBudget' /\ BufferBounded'
  BY DEF Keeps, Advance, SinkWithinBudget, BufferBounded
<1> QED BY <1>3, <1>4 DEF Keeps

(* Asking for a chunk with a buffer no longer than before, and short.      *)
LEMMA Starving ==
  ASSUME Keeps, Starve, UNCHANGED <<body, fed>>, buf' \in Seq(Bytes), Len(buf') <= Len(buf),
         Len(buf') <= MaxHeader \/ Len(buf') <= Len(Delimiter),
         sink' \in Seq(Bytes), Len(sink') <= MaxBytes
  PROVE  Keeps'
<1>1. Len(buf') \in Nat /\ Len(buf) \in Nat /\ fed \in Nat
  BY ReaderAssumption DEF Keeps, TypeOK
<1>2. TypeOK'
  BY <1>1 DEF Keeps, TypeOK, Starve
<1>3. SinkWithinBudget' /\ BufferBounded'
  BY <1>1, Starved DEF SinkWithinBudget
<1> QED BY <1>2, <1>3 DEF Keeps

LEMMA Framing ==
  ASSUME Keeps
  PROVE  /\ buf \in Seq(Bytes) /\ Len(buf) \in Nat
         /\ sink \in Seq(Bytes) /\ Len(sink) \in Nat /\ Len(sink) <= MaxBytes
  BY DEF Keeps, TypeOK, SinkWithinBudget

LEMMA Seeking == Keeps /\ SeekBoundary => Keeps'
<1> SUFFICES ASSUME Keeps, SeekBoundary PROVE Keeps'
  OBVIOUS
<1> DEFINE i == Find(buf, Marker)
<1>1. i \in 0..Len(buf)
  BY Framing, Finding
<1>2. CASE i > 0
  <2>1. i + Len(Marker) - 1 \in Nat
    BY <1>1, <1>2, Patterns, Framing
  <2>2. Advance("boundaryEnd", i + Len(Marker) - 1)
    BY <1>2 DEF SeekBoundary
  <2> QED BY <2>1, <2>2, Advancing DEF SeekBoundary, Stepping
<1>3. CASE ~(i > 0)
  <2>1. Starve /\ buf' = Prune(buf, Len(Marker) - 1)
    BY <1>3 DEF SeekBoundary
  <2>2. Len(Marker) - 1 \in Nat /\ Len(Marker) - 1 <= Len(Delimiter)
    BY Patterns
  <2>3. /\ buf' \in Seq(Bytes) /\ Len(buf') <= Len(buf)
        /\ Len(buf') <= Len(Marker) - 1
    BY <2>1, <2>2, Pruning, Framing
  <2>4. Len(buf') <= Len(Delimiter)
    BY <2>2, <2>3, Patterns
  <2> QED BY <2>1, <2>3, <2>4, Framing, Starving DEF SeekBoundary
<1> QED BY <1>2, <1>3

LEMMA Ending == Keeps /\ EndBoundary => Keeps'
<1> SUFFICES ASSUME Keeps, EndBoundary PROVE Keeps'
  OBVIOUS
<1>1. \/ buf \in {<<>>, <<"D">>, <<"CR">>} /\ Starve /\ UNCHANGED buf
      \/ Raise("missing")
      \/ Advance("headers", 1)
      \/ Advance("headers", 2)
      \/ Raise("malformed")
  BY DEF EndBoundary
<1>2. CASE buf \in {<<>>, <<"D">>, <<"CR">>} /\ Starve /\ UNCHANGED buf
  <2>0. Len(<<>>) = 0 /\ Len(<<"D">>) = 1 /\ Len(<<"CR">>) = 1
    OBVIOUS
  <2>1. Len(buf) <= 1
    <3>1. buf = <<>> \/ buf = <<"D">> \/ buf = <<"CR">>
      BY <1>2
    <3>2. CASE buf = <<>>
      BY <3>2
    <3>3. CASE buf = <<"D">>
      BY <3>3, <2>0
    <3>4. CASE buf = <<"CR">>
      BY <3>4, <2>0
    <3> QED BY <3>1, <3>2, <3>3, <3>4
  <2>2. Len(buf') <= Len(Delimiter)
    BY <1>2, <2>1, Patterns, Framing
  <2> QED BY <1>2, <2>2, Framing, Starving DEF EndBoundary
<1>3. CASE Raise("missing") \/ Raise("malformed")
  BY <1>3, Framing, Raising DEF EndBoundary
<1>4. CASE Advance("headers", 1) \/ Advance("headers", 2)
  BY <1>4, Advancing DEF EndBoundary, Stepping
<1> QED BY <1>1, <1>2, <1>3, <1>4

LEMMA Heading == Keeps /\ ReadHeaders => Keeps'
<1> SUFFICES ASSUME Keeps, ReadHeaders PROVE Keeps'
  OBVIOUS
<1>1. UNCHANGED <<body, fed, sink>> /\ outcome = "open" /\ ~hungry
  BY DEF ReadHeaders, Stepping
<1>2. CASE Raise("malformed")
  BY <1>1, <1>2, Framing, Raising
<1>3. CASE Len(buf) <= MaxHeader /\ Starve /\ UNCHANGED buf
  BY <1>1, <1>3, Framing, Starving
<1>4. ASSUME NEW e \in HeaderEnds, Find(buf, e) > 0, ~Raise("malformed"),
             NEW block, block = SubSeq(buf, 1, Find(buf, e) - 1),
             Advance(IF NamesFile(block) THEN "file" ELSE "skip", Len(block) + Len(e))
      PROVE  Keeps'
  <2>1. Find(buf, e) \in 0..Len(buf)
    BY Framing, Finding
  <2>2. Find(buf, e) - 1 \in Int /\ Find(buf, e) - 1 <= Len(buf)
    BY <2>1, Framing
  <2>3. block \in Seq(Bytes)
    BY <1>4, <2>2, Framing, Handing
  <2>4. Len(block) \in Nat /\ Len(e) \in Nat
    BY <2>3 DEF HeaderEnds
  <2>5. Len(block) + Len(e) \in Nat
    BY <2>4
  <2>6. (IF NamesFile(block) THEN "file" ELSE "skip") \in {"boundaryEnd", "headers", "file", "skip"}
    OBVIOUS
  <2> QED BY <1>1, <1>4, <2>5, <2>6, Advancing
<1>5. \/ Raise("malformed")
      \/ Len(buf) <= MaxHeader /\ Starve /\ UNCHANGED buf
      \/ \E e \in HeaderEnds :
            /\ Find(buf, e) > 0
            /\ LET block == SubSeq(buf, 1, Find(buf, e) - 1)
               IN  Advance(IF NamesFile(block) THEN "file" ELSE "skip", Len(block) + Len(e))
  <2>1. CASE \A e \in HeaderEnds : Find(buf, e) = 0
    BY <2>1, Framing, Patterns DEF ReadHeaders
  <2>2. CASE ~(\A e \in HeaderEnds : Find(buf, e) = 0)
    BY <2>2 DEF ReadHeaders
  <2> QED BY <2>1, <2>2
<1> QED BY <1>2, <1>3, <1>4, <1>5

LEMMA Skipping == Keeps /\ SkipPart => Keeps'
<1> SUFFICES ASSUME Keeps, SkipPart PROVE Keeps'
  OBVIOUS
<1> DEFINE i == Find(buf, Delimiter)
<1>1. i \in 0..Len(buf)
  BY Framing, Finding
<1>2. CASE i > 0
  <2>1. i + Len(Delimiter) - 1 \in Nat
    BY <1>1, <1>2, Patterns, Framing
  <2>2. Advance("boundaryEnd", i + Len(Delimiter) - 1)
    BY <1>2 DEF SkipPart
  <2> QED BY <2>1, <2>2, Advancing DEF SkipPart, Stepping
<1>3. CASE ~(i > 0)
  <2>1. Starve /\ buf' = Prune(buf, Len(Delimiter))
    BY <1>3 DEF SkipPart
  <2>2. buf' \in Seq(Bytes) /\ Len(buf') <= Len(buf) /\ Len(buf') <= Len(Delimiter)
    BY <2>1, Patterns, Pruning, Framing
  <2> QED BY <2>1, <2>2, Framing, Starving DEF SkipPart
<1> QED BY <1>2, <1>3

LEMMA Reading == Keeps /\ ReadFile => Keeps'
<1> SUFFICES ASSUME Keeps, ReadFile PROVE Keeps'
  OBVIOUS
<1> DEFINE i == Find(buf, Delimiter)
           n == IF i > 0 THEN Len(Before(buf, i)) ELSE Len(buf) - Len(Delimiter)
<1>1. i \in 0..Len(buf)
  BY Framing, Finding
<1>2. n \in Int /\ n <= Len(buf)
  <2>1. CASE i > 0
    BY <1>1, <2>1, Framing, Preceding
  <2>2. CASE ~(i > 0)
    BY <2>2, Framing, Patterns
  <2> QED BY <2>1, <2>2
<1>3. UNCHANGED <<body, fed>>
  BY DEF ReadFile
<1>4. CASE n > MaxBytes - Len(sink) /\ Raise("oversized") /\ UNCHANGED sink
  BY <1>3, <1>4, Framing, Raising
<1>5. CASE /\ n <= MaxBytes - Len(sink) /\ sink' = sink \o SubSeq(buf, 1, n)
           /\ IF i > 0 THEN Raise(IF sink' = <<>> THEN "empty" ELSE "done")
                       ELSE Starve /\ buf' = IF n > 0 THEN Drop(buf, n) ELSE buf
  <2> HIDE DEF n
  <2>1. SubSeq(buf, 1, n) \in Seq(Bytes) /\ Len(SubSeq(buf, 1, n)) = IF n > 0 THEN n ELSE 0
    BY <1>2, Framing, Handing
  <2>2. sink' \in Seq(Bytes) /\ Len(sink') = Len(sink) + Len(SubSeq(buf, 1, n))
    BY <1>5, <2>1, Framing
  <2>3. Len(sink') <= MaxBytes
    BY <1>2, <1>5, <2>1, <2>2, Framing, Patterns
  <2>4. CASE i > 0
    <3>1. Raise("empty") \/ Raise("done")
      BY <1>5, <2>4
    <3> QED BY <1>3, <2>2, <2>3, <3>1, Raising
  <2>5. CASE ~(i > 0)
    <3>1. Starve /\ buf' = IF n > 0 THEN Drop(buf, n) ELSE buf
      BY <1>5, <2>5
    <3>2. n = Len(buf) - Len(Delimiter)
      BY <2>5 DEF n
    <3>3. buf' \in Seq(Bytes) /\ Len(buf') <= Len(buf) /\ Len(buf') <= Len(Delimiter)
      <4>1. CASE n > 0
        <5>1. n \in Nat
          BY <1>2, <4>1
        <5>2. Drop(buf, n) \in Seq(Bytes) /\ Len(Drop(buf, n)) = Len(buf) - n
          BY <1>2, <5>1, Framing, Dropping
        <5> QED BY <3>1, <3>2, <4>1, <5>1, <5>2, Framing, Patterns
      <4>2. CASE ~(n > 0)
        BY <1>2, <3>1, <3>2, <4>2, Framing, Patterns
      <4> QED BY <4>1, <4>2
    <3> QED BY <1>3, <2>2, <2>3, <3>1, <3>3, Starving
  <2> QED BY <2>4, <2>5
<1> QED BY <1>4, <1>5 DEF ReadFile

LEMMA Stuttering == Keeps /\ UNCHANGED vars => Keeps'
  BY DEF Keeps, TypeOK, SinkWithinBudget, BufferBounded, vars

(* Every behaviour keeps the types and the two bounds. *)
THEOREM Invariance == Spec => []Keeps
<1>1. Keeps /\ [Next]_vars => Keeps'
  <2> SUFFICES ASSUME Keeps, [Next]_vars PROVE Keeps'
    OBVIOUS
  <2>1. CASE Feed
    BY <2>1, Feeding
  <2>2. CASE Finish
    BY <2>2, Framing, Raising DEF Finish
  <2>3. CASE SeekBoundary
    BY <2>3, Seeking
  <2>4. CASE EndBoundary
    BY <2>4, Ending
  <2>5. CASE ReadHeaders
    BY <2>5, Heading
  <2>6. CASE ReadFile
    BY <2>6, Reading
  <2>7. CASE SkipPart
    BY <2>7, Skipping
  <2>8. CASE Over \/ UNCHANGED vars
    BY <2>8, Stuttering DEF Over
  <2> QED BY <2>1, <2>2, <2>3, <2>4, <2>5, <2>6, <2>7, <2>8 DEF Next
<1> QED BY <1>1, Initially, PTL DEF Spec

(* The memory an upload may take is its budget, however it is cut (_append *)
(* checks before it extends).                                              *)
THEOREM Budget == Spec => []SinkWithinBudget
  BY Invariance, PTL DEF Keeps

(* Between chunks the parse buffer holds at most a header block or a       *)
(* delimiter, however long the preamble, a skipped part or the file.       *)
THEOREM Memory == Spec => []BufferBounded
  BY Invariance, PTL DEF Keeps

(***************************************************************************)
(* Finding patterns in sequences of bytes.                                 *)
(***************************************************************************)
(* IsAt byte by byte. *)
LEMMA AtPointwise ==
  ASSUME NEW s \in Seq(Bytes), NEW p \in Seq(Bytes), NEW i \in Nat \ {0}
  PROVE  IsAt(s, p, i) <=> /\ i + Len(p) - 1 <= Len(s)
                           /\ \A k \in 1..Len(p) : s[i + k - 1] = p[k]
<1> SUFFICES ASSUME i + Len(p) - 1 <= Len(s)
             PROVE  SubSeq(s, i, i + Len(p) - 1) = p
                    <=> \A k \in 1..Len(p) : s[i + k - 1] = p[k]
  BY DEF IsAt
<1> DEFINE q == SubSeq(s, i, i + Len(p) - 1)
<1>1. q \in Seq(Bytes) /\ Len(q) = Len(p) /\ \A k \in 1..Len(p) : q[k] = s[i + k - 1]
  OBVIOUS
<1>2. ASSUME q = p PROVE \A k \in 1..Len(p) : s[i + k - 1] = p[k]
  BY <1>1, <1>2
<1>3. ASSUME \A k \in 1..Len(p) : s[i + k - 1] = p[k] PROVE q = p
  <2> HIDE DEF q
  <2> QED BY <1>1, <1>3, SeqEqual
<1> QED BY <1>2, <1>3

(* What is at a place of a slice is at the shifted place of the whole. *)
LEMMA Windowed ==
  ASSUME NEW s \in Seq(Bytes), NEW p \in Seq(Bytes), NEW lo \in Nat, NEW hi \in lo..Len(s),
         NEW k \in Nat \ {0}
  PROVE  IsAt(SubSeq(s, lo + 1, hi), p, k) <=> lo + k + Len(p) - 1 <= hi /\ IsAt(s, p, lo + k)
<1> DEFINE w == SubSeq(s, lo + 1, hi)
<1>1. w \in Seq(Bytes) /\ Len(w) = hi - lo /\ \A j \in 1..(hi - lo) : w[j] = s[lo + j]
  OBVIOUS
<1>2. lo + k \in Nat \ {0} /\ Len(p) \in Nat /\ Len(s) \in Nat
  OBVIOUS
<1>3. IsAt(w, p, k) <=> k + Len(p) - 1 <= Len(w) /\ \A j \in 1..Len(p) : w[k + j - 1] = p[j]
  BY <1>1, AtPointwise
<1>4. IsAt(s, p, lo + k) <=> /\ lo + k + Len(p) - 1 <= Len(s)
                             /\ \A j \in 1..Len(p) : s[lo + k + j - 1] = p[j]
  BY <1>2, AtPointwise
<1>5. ASSUME lo + k + Len(p) - 1 <= hi, NEW j \in 1..Len(p)
      PROVE  w[k + j - 1] = s[lo + k + j - 1]
  <2>1. k + j - 1 \in 1..(hi - lo)
    BY <1>2, <1>5
  <2>2. lo + (k + j - 1) = lo + k + j - 1
    BY <1>2
  <2> QED BY <1>1, <2>1, <2>2
<1> HIDE DEF w
<1>6. CASE lo + k + Len(p) - 1 <= hi
  <2>1. k + Len(p) - 1 <= Len(w) /\ lo + k + Len(p) - 1 <= Len(s)
    BY <1>1, <1>2, <1>6
  <2> QED BY <1>3, <1>4, <1>5, <1>6, <2>1 DEF w
<1>7. CASE ~(lo + k + Len(p) - 1 <= hi)
  <2>1. ~(k + Len(p) - 1 <= Len(w))
    BY <1>1, <1>2, <1>7
  <2> QED BY <1>3, <1>7, <2>1 DEF w
<1> QED BY <1>6, <1>7

(* First is the least position where one of the patterns is, 0 if there is *)
(* none.                                                                   *)
LEMMA FirstIs ==
  ASSUME NEW b \in Seq(Bytes), NEW P, NEW i \in Nat \ {0}
  PROVE  \/ /\ First(b, P, i) = 0
            /\ \A j \in i..Len(b) : \A p \in P : ~IsAt(b, p, j)
         \/ /\ First(b, P, i) \in i..Len(b)
            /\ \E p \in P : IsAt(b, p, First(b, P, i))
            /\ \A j \in i..(First(b, P, i) - 1) : \A p \in P : ~IsAt(b, p, j)
<1> DEFINE I == {j \in i..Len(b) : \E p \in P : IsAt(b, p, j)}
<1>1. CASE I = {}
  <2>1. First(b, P, i) = 0
    BY <1>1 DEF First
  <2> QED BY <1>1, <2>1
<1>2. CASE I # {}
  <2>0. I \subseteq Nat /\ I \subseteq i..Len(b)
    OBVIOUS
  <2>1. \E j \in I : \A k \in I : j <= k
    <3> HIDE DEF I
    <3> QED BY <1>2, <2>0, FirstPosition
  <2>2. First(b, P, i) \in I /\ \A k \in I : First(b, P, i) <= k
    <3>1. First(b, P, i) = CHOOSE j \in I : \A k \in I : j <= k
      BY <1>2 DEF First
    <3> HIDE DEF I
    <3> QED BY <2>1, <3>1
  <2>3. ASSUME NEW j \in i..(First(b, P, i) - 1), NEW p \in P, IsAt(b, p, j) PROVE FALSE
    <3>1. j \in i..Len(b) /\ ~(First(b, P, i) <= j)
      BY <2>0, <2>2
    <3> QED BY <2>2, <2>3, <3>1
  <2> QED BY <2>2, <2>3
<1> QED BY <1>1, <1>2

(* A position that is shown to be the first is what First returns. *)
LEMMA FirstIsAt ==
  ASSUME NEW b \in Seq(Bytes), NEW P, NEW i \in Nat \ {0}, NEW d \in i..Len(b),
         NEW p \in P, IsAt(b, p, d),
         \A j \in i..(d - 1) : \A q \in P : ~IsAt(b, q, j)
  PROVE  First(b, P, i) = d
<1> DEFINE f == First(b, P, i)
<1>1. \/ \A j \in i..Len(b) : \A q \in P : ~IsAt(b, q, j)
      \/ /\ f \in i..Len(b)
         /\ \E q \in P : IsAt(b, q, f)
         /\ \A j \in i..(f - 1) : \A q \in P : ~IsAt(b, q, j)
  BY FirstIs
<1> HIDE DEF f
<1>2. f \in i..Len(b) /\ f \notin i..(d - 1) /\ d \notin i..(f - 1)
  BY <1>1
<1>3. f = d
  BY <1>2
<1> QED BY <1>3 DEF f

(* Starting further on finds the same, if nothing is passed over. *)
LEMMA FirstFurther ==
  ASSUME NEW b \in Seq(Bytes), NEW P, NEW i \in Nat \ {0}, NEW k \in Nat, i <= k,
         \A j \in i..(k - 1) : j <= Len(b) => \A p \in P : ~IsAt(b, p, j)
  PROVE  First(b, P, i) = First(b, P, k)
<1> DEFINE I == {j \in i..Len(b) : \E p \in P : IsAt(b, p, j)}
           K == {j \in k..Len(b) : \E p \in P : IsAt(b, p, j)}
<1>1. I = K
  <2>1. ASSUME NEW j \in i..Len(b), NEW p \in P, IsAt(b, p, j) PROVE j \in k..Len(b)
    <3>1. j \notin i..(k - 1)
      BY <2>1
    <3> QED BY <3>1
  <2>2. k..Len(b) \subseteq i..Len(b)
    OBVIOUS
  <2> QED BY <2>1, <2>2
<1>2. First(b, P, i) = IF I = {} THEN 0 ELSE CHOOSE j \in I : \A l \in I : j <= l
  BY DEF First
<1>3. First(b, P, k) = IF K = {} THEN 0 ELSE CHOOSE j \in K : \A l \in K : j <= l
  BY DEF First
<1> HIDE DEF I, K
<1> QED BY <1>1, <1>2, <1>3

(* bytearray.find is First from the first byte. *)
LEMMA FindIsFirst ==
  ASSUME NEW s, NEW p PROVE Find(s, p) = First(s, {p}, 1)
  BY DEF Find, First


(***************************************************************************)
(* The parse of the reference is a recursive function on the positions of  *)
(* a body.  It is well defined because each part resumes further on, which *)
(* is an induction on positions: by least counterexample, from the well-   *)
(* foundedness of < on Nat.                                                *)
(***************************************************************************)
Solves(f, k, n, G, R, A) == f = [i \in k..n |-> IF i \in G THEN f[R[i]] ELSE A[i]]

(* A recursion that only ever looks further on has a solution.  By the     *)
(* least k from which it has one: the same step defines it at k - 1, so    *)
(* that k is 1.                                                            *)
LEMMA Unfolding ==
  ASSUME NEW n \in Nat, NEW G, NEW R, NEW A,
         \A i \in 1..n : i \in G => R[i] \in (i + 1)..n
  PROVE  \E f : Solves(f, 1, n, G, R, A)
<1> DEFINE K == {k \in 1..(n + 1) : \E f : Solves(f, k, n, G, R, A)}
<1>1. n + 1 \in K
  <2>1. Solves([i \in (n + 1)..n |-> 0], n + 1, n, G, R, A)
    <3>1. (n + 1)..n = {}
      OBVIOUS
    <3> QED BY <3>1, Zenon DEF Solves
  <2> QED BY <2>1
<1>2. K \subseteq Nat /\ K # {}
  BY <1>1
<1>3. PICK k \in K : \A l \in K : k <= l
  <2> HIDE DEF K
  <2> QED BY <1>2, FirstPosition
<1>4. k \in 1..(n + 1) /\ \E f : Solves(f, k, n, G, R, A)
  OBVIOUS
<1>5. PICK f : Solves(f, k, n, G, R, A)
  BY <1>4
<1>6. k = 1
  <2> SUFFICES ASSUME k # 1 PROVE FALSE
    OBVIOUS
  <2> DEFINE l == k - 1
             v == IF l \in G THEN f[R[l]] ELSE A[l]
             g == [i \in l..n |-> IF i = l THEN v ELSE f[i]]
  <2>1. l \in 1..n /\ l \in 1..(n + 1) /\ k..n \subseteq l..n /\ ~(k <= l)
        /\ \A i \in l..n : i = l \/ i \in k..n
    BY <1>4
  <2>2. ASSUME NEW i \in k..n PROVE g[i] = f[i] /\ i # l /\ i \in l..n /\ i \in 1..n
    BY <1>4, <2>1
  <2>3. ASSUME NEW i \in l..n, i \in G PROVE R[i] \in k..n
    <3>1. i \in 1..n
      BY <2>1
    <3>2. R[i] \in (i + 1)..n
      BY <2>3, <3>1
    <3> QED BY <3>2, <1>4
  <2>4. ASSUME NEW i \in k..n PROVE f[i] = IF i \in G THEN f[R[i]] ELSE A[i]
    <3> HIDE DEF l
    <3> QED BY <1>5 DEF Solves
  <2>5. ASSUME NEW i \in l..n
        PROVE  (IF i = l THEN v ELSE f[i]) = IF i \in G THEN g[R[i]] ELSE A[i]
    <3>1. i \in G => g[R[i]] = f[R[i]]
      BY <2>2, <2>3
    <3>2. CASE i = l
      <4> HIDE DEF g, l
      <4> QED BY <3>1, <3>2
    <3>3. CASE i # l
      <4>1. i \in k..n
        BY <2>1, <3>3
      <4> HIDE DEF g, l
      <4> QED BY <2>4, <3>1, <3>3, <4>1
    <3> QED BY <3>2, <3>3
  <2>6. Solves(g, l, n, G, R, A)
    <3> HIDE DEF v, l
    <3>1. g = [i \in l..n |-> IF i \in G THEN g[R[i]] ELSE A[i]]
      BY <2>5, Zenon
    <3> QED BY <3>1 DEF Solves
  <2>7. l \in K
    <3> HIDE DEF g, l
    <3> QED BY <2>1, <2>6
  <2> QED BY <1>3, <2>1, <2>7
<1> QED BY <1>5, <1>6

(* A readable part lies before its content. *)
LEMMA Forward ==
  ASSUME NEW b \in Seq(Bytes), NEW h, NEW i \in Nat \ {0}, Readable(b, h, i)
  PROVE  /\ HeadersAt(b, i) \in (i + 1)..(i + 2)
         /\ BlankAt(b, i) \in HeadersAt(b, i)..Len(b)
         /\ ContentAt(b, i) \in (BlankAt(b, i) + 2)..(BlankAt(b, i) + 4)
<1>1. HeadersAt(b, i) \in (i + 1)..(i + 2) /\ HeadersAt(b, i) \in Nat \ {0}
  BY DEF HeadersAt
<1>2. BlankAt(b, i) \in HeadersAt(b, i)..Len(b)
  BY <1>1, FirstIs DEF BlankAt, Readable
<1>3. BlankAt(b, i) \in Int
  BY <1>1, <1>2
<1> QED BY <1>1, <1>2, <1>3 DEF ContentAt

(* The part after a skipped one begins further on, within the body. *)
LEMMA Resuming ==
  ASSUME NEW b \in Seq(Bytes), NEW h, NEW j \in 1..(Len(b) + 1), Skips(b, h, j)
  PROVE  Resume(b, j) \in (j + 1)..(Len(b) + 1)
<1>1. Readable(b, h, j) /\ First(b, {Delimiter}, ContentAt(b, j)) > 0
  BY DEF Skips
<1>2. ContentAt(b, j) \in Nat \ {0} /\ j + 1 <= ContentAt(b, j)
  BY <1>1, Forward
<1>3. /\ First(b, {Delimiter}, ContentAt(b, j)) \in ContentAt(b, j)..Len(b)
      /\ IsAt(b, Delimiter, First(b, {Delimiter}, ContentAt(b, j)))
  BY <1>1, <1>2, FirstIs
<1>4. First(b, {Delimiter}, ContentAt(b, j)) + Len(Delimiter) - 1 <= Len(b)
  BY <1>3 DEF IsAt
<1> QED BY <1>2, <1>3, <1>4, Patterns DEF Resume

(* Parse satisfies the equation it is declared with. *)
LEMMA ParseStep ==
  ASSUME NEW b \in Seq(Bytes), NEW h, NEW i \in 1..(Len(b) + 1)
  PROVE  Parse(b, h)[i] = IF Skips(b, h, i) THEN Parse(b, h)[Resume(b, i)] ELSE Answer(b, h, i)
<1> DEFINE n == Len(b) + 1
           G == {j \in 1..n : Skips(b, h, j)}
           R == [j \in 1..n |-> Resume(b, j)]
           A == [j \in 1..n |-> Answer(b, h, j)]
<1>1. ASSUME NEW j \in 1..n, j \in G PROVE R[j] \in (j + 1)..n
  BY <1>1, Resuming
<1>2. \E f : Solves(f, 1, n, G, R, A)
  <2>1. n \in Nat
    OBVIOUS
  <2>2. \A j \in 1..n : j \in G => R[j] \in (j + 1)..n
    BY <1>1
  <2> HIDE DEF n, G, R, A
  <2> QED BY <2>1, <2>2, Unfolding
<1>3. PICK f : Solves(f, 1, n, G, R, A)
  BY <1>2
<1>4. ASSUME NEW j \in 1..n
      PROVE  f[j] = IF Skips(b, h, j) THEN f[Resume(b, j)] ELSE Answer(b, h, j)
  <2>1. f[j] = IF j \in G THEN f[R[j]] ELSE A[j]
    <3> HIDE DEF n, G, R, A
    <3> QED BY <1>3 DEF Solves
  <2> QED BY <2>1
<1>5. f = [j \in 1..n |-> IF Skips(b, h, j) THEN f[Resume(b, j)] ELSE Answer(b, h, j)]
  <2>1. f = [j \in 1..n |-> f[j]]
    BY <1>3 DEF Solves
  <2> QED BY <1>4, <2>1, Zenon
<1>6. Parse(b, h) = [j \in 1..n |-> IF Skips(b, h, j) THEN Parse(b, h)[Resume(b, j)]
                                                     ELSE Answer(b, h, j)]
  BY <1>5 DEF Parse
<1> HIDE DEF G, R, A
<1> QED BY <1>6


(***************************************************************************)
(* What the reference makes of the rest of a body, from a place the reader *)
(* may stand at.                                                           *)
(***************************************************************************)
(* The patterns of the boundary line and of the header block, byte by      *)
(* byte.                                                                   *)
LEMMA Bytewise ==
  ASSUME NEW b \in Seq(Bytes), NEW i \in Nat \ {0}
  PROVE  /\ IsAt(b, <<"LF">>, i) <=> i <= Len(b) /\ b[i] = "LF"
         /\ IsAt(b, <<"D", "D">>, i) <=> i + 1 <= Len(b) /\ b[i] = "D" /\ b[i + 1] = "D"
         /\ IsAt(b, <<"CR", "LF">>, i) <=> i + 1 <= Len(b) /\ b[i] = "CR" /\ b[i + 1] = "LF"
         /\ IsAt(b, <<"LF", "LF">>, i) <=> i + 1 <= Len(b) /\ b[i] = "LF" /\ b[i + 1] = "LF"
         /\ IsAt(b, <<"CR", "LF", "CR", "LF">>, i)
               => i + 3 <= Len(b) /\ b[i] = "CR" /\ b[i + 1] = "LF" /\ b[i + 2] = "CR"
<1>1. IsAt(b, <<"LF">>, i) <=> i <= Len(b) /\ b[i] = "LF"
  <2>1. IsAt(b, <<"LF">>, i) <=> /\ i + Len(<<"LF">>) - 1 <= Len(b)
                                 /\ \A k \in 1..Len(<<"LF">>) : b[i + k - 1] = <<"LF">>[k]
    BY Patterns, AtPointwise
  <2>2. Len(<<"LF">>) = 1 /\ <<"LF">>[1] = "LF" /\ 1..1 = {1}
    OBVIOUS
  <2>3. i + 1 - 1 = i /\ Len(b) \in Nat
    OBVIOUS
  <2> QED BY <2>1, <2>2, <2>3
<1>2. ASSUME NEW x \in Bytes, NEW y \in Bytes
      PROVE  IsAt(b, <<x, y>>, i) <=> i + 1 <= Len(b) /\ b[i] = x /\ b[i + 1] = y
  <2> DEFINE p == <<x, y>>
  <2>1. p \in Seq(Bytes) /\ Len(p) = 2 /\ p[1] = x /\ p[2] = y /\ 1..2 = {1, 2}
    OBVIOUS
  <2>2. i + 1 - 1 = i /\ i + 2 - 1 = i + 1 /\ Len(b) \in Nat
    OBVIOUS
  <2> HIDE DEF p
  <2>3. IsAt(b, p, i) <=> /\ i + Len(p) - 1 <= Len(b)
                          /\ \A k \in 1..Len(p) : b[i + k - 1] = p[k]
    BY <2>1, AtPointwise
  <2>4. IsAt(b, p, i) <=> i + 1 <= Len(b) /\ b[i] = x /\ b[i + 1] = y
    BY <2>1, <2>2, <2>3
  <2> QED BY <2>4 DEF p
<1>3. ASSUME IsAt(b, <<"CR", "LF", "CR", "LF">>, i)
      PROVE  i + 3 <= Len(b) /\ b[i] = "CR" /\ b[i + 1] = "LF" /\ b[i + 2] = "CR"
  <2> DEFINE p == <<"CR", "LF", "CR", "LF">>
  <2>1. p \in Seq(Bytes) /\ Len(p) = 4 /\ p[1] = "CR" /\ p[2] = "LF" /\ p[3] = "CR"
    BY Patterns
  <2>2. IsAt(b, p, i)
    BY <1>3
  <2> HIDE DEF p
  <2>3. i + Len(p) - 1 <= Len(b) /\ \A k \in 1..Len(p) : b[i + k - 1] = p[k]
    BY <2>1, <2>2, AtPointwise
  <2>4. 1 \in 1..Len(p) /\ 2 \in 1..Len(p) /\ 3 \in 1..Len(p)
    BY <2>1
  <2>5. b[i + 1 - 1] = "CR" /\ b[i + 2 - 1] = "LF" /\ b[i + 3 - 1] = "CR"
    BY <2>1, <2>3, <2>4
  <2>6. i + 1 - 1 = i /\ i + 2 - 1 = i + 1 /\ i + 3 - 1 = i + 2 /\ i + 4 - 1 = i + 3
    OBVIOUS
  <2> QED BY <2>1, <2>3, <2>5, <2>6
<1>4. "CR" \in Bytes /\ "LF" \in Bytes /\ "D" \in Bytes
  BY ReaderAssumption
<1> QED BY <1>1, <1>2, <1>3, <1>4

(* What comes after the first p from i on; where the reader stands, with   *)
(* its next byte at i and n bytes in the sink; nothing of p ends among the *)
(* bytes up to hi.                                                         *)
AfterFirst(b, h, p, i) ==
    LET d == First(b, {p}, i)
    IN  IF d = 0 THEN Error("malformed") ELSE Parse(b, h)[d + Len(p)]

StandsAt(b, h, s, i, n) ==
    /\ s = "preamble" => Reference(b, h) = AfterFirst(b, h, Marker, i)
    /\ s = "boundaryEnd" => i <= Len(b) + 1 /\ Reference(b, h) = Parse(b, h)[i]
    /\ s = "headers" => \E j \in 1..Len(b) : /\ EndsLine(b, j) /\ HeadersAt(b, j) = i
                                             /\ Reference(b, h) = Parse(b, h)[j]
    /\ s = "file" => Reference(b, h) = FileAt(b, i - n)
    /\ s = "skip" => Reference(b, h) = AfterFirst(b, h, Delimiter, i)

NoneIn(b, p, lo, hi) == \A j \in lo..Len(b) : IsAt(b, p, j) => j + Len(p) - 1 > hi

(* What is not in the part of the body seen so far is not the first, or    *)
(* ends beyond it.                                                         *)
LEMMA FirstUnseen ==
  ASSUME NEW b \in Seq(Bytes), NEW p, NEW i \in Nat \ {0}, NEW hi, NoneIn(b, p, i, hi)
  PROVE  \/ First(b, {p}, i) = 0
         \/ First(b, {p}, i) \in i..Len(b) /\ First(b, {p}, i) + Len(p) - 1 > hi
  BY FirstIs DEF NoneIn

(* Dropping bytes in which the pattern cannot begin changes nothing. *)
LEMMA AfterFurther ==
  ASSUME NEW b \in Seq(Bytes), NEW h, NEW p \in Seq(Bytes), NEW i \in Nat \ {0},
         NEW k \in Nat, i <= k, NEW hi \in Int, NoneIn(b, p, i, hi), k + Len(p) - 2 <= hi
  PROVE  AfterFirst(b, h, p, i) = AfterFirst(b, h, p, k)
<1>1. ASSUME NEW j \in i..(k - 1), j <= Len(b), IsAt(b, p, j) PROVE FALSE
  <2>1. j + Len(p) - 1 > hi
    BY <1>1 DEF NoneIn
  <2> QED BY <2>1
<1>2. First(b, {p}, i) = First(b, {p}, k)
  BY <1>1, FirstFurther
<1> QED BY <1>2 DEF AfterFirst

(* The parse of a part whose boundary ends its line. *)
LEMMA ParseHeaders ==
  ASSUME NEW b \in Seq(Bytes), NEW h, NEW i \in 1..(Len(b) + 1), EndsLine(b, i)
  PROVE  /\ ~Readable(b, h, i) => Parse(b, h)[i] = Error("malformed")
         /\ Readable(b, h, i) /\ IsFile(b, i) => Parse(b, h)[i] = FileAt(b, ContentAt(b, i))
         /\ Readable(b, h, i) /\ ~IsFile(b, i) =>
               Parse(b, h)[i] = AfterFirst(b, h, Delimiter, ContentAt(b, i))
<1>1. ~IsAt(b, <<"D", "D">>, i)
  BY Bytewise DEF EndsLine
<1>2. ASSUME ~Readable(b, h, i) PROVE Parse(b, h)[i] = Error("malformed")
  <2>1. ~Skips(b, h, i) /\ Answer(b, h, i) = Error("malformed")
    BY <1>1, <1>2 DEF Skips, Answer
  <2> QED BY <2>1, ParseStep
<1>3. ASSUME Readable(b, h, i), IsFile(b, i) PROVE Parse(b, h)[i] = FileAt(b, ContentAt(b, i))
  <2>1. ~Skips(b, h, i) /\ Answer(b, h, i) = FileAt(b, ContentAt(b, i))
    BY <1>1, <1>3 DEF Skips, Answer
  <2> QED BY <2>1, ParseStep
<1>4. ASSUME Readable(b, h, i), ~IsFile(b, i)
      PROVE  Parse(b, h)[i] = AfterFirst(b, h, Delimiter, ContentAt(b, i))
  <2> DEFINE d == First(b, {Delimiter}, ContentAt(b, i))
  <2>0. ContentAt(b, i) \in Nat \ {0}
    BY <1>4, Forward
  <2>1. d = 0 \/ d > 0
    BY <2>0, FirstIs
  <2>2. CASE d = 0
    <3>1. ~Skips(b, h, i) /\ Answer(b, h, i) = Error("malformed")
      BY <1>1, <1>4, <2>2 DEF Skips, Answer
    <3> QED BY <2>2, <3>1, ParseStep DEF AfterFirst
  <2>3. CASE d > 0
    <3>1. Skips(b, h, i) /\ Resume(b, i) = d + Len(Delimiter)
      BY <1>4, <2>3 DEF Skips, Resume
    <3>2. d # 0
      BY <2>3
    <3> QED BY <3>1, <3>2, ParseStep DEF AfterFirst
  <2> QED BY <2>1, <2>2, <2>3
<1> QED BY <1>2, <1>3, <1>4

(* The parse after a boundary that does not end its line. *)
LEMMA ParseOther ==
  ASSUME NEW b \in Seq(Bytes), NEW h, NEW i \in 1..(Len(b) + 1), ~EndsLine(b, i)
  PROVE  Parse(b, h)[i] = IF IsAt(b, <<"D", "D">>, i) THEN Error("missing") ELSE Error("malformed")
<1>1. ~Readable(b, h, i) /\ ~Skips(b, h, i)
  BY DEF Readable, Skips
<1>2. Answer(b, h, i) = IF IsAt(b, <<"D", "D">>, i) THEN Error("missing") ELSE Error("malformed")
  BY <1>1 DEF Answer
<1> QED BY <1>1, <1>2, ParseStep

(***************************************************************************)
(* Slices of the body, and the file that ends before a delimiter.          *)
(***************************************************************************)
(* Dropping a beginning of a slice leaves the slice that starts later. *)
LEMMA Dropped ==
  ASSUME NEW b \in Seq(Bytes), NEW lo \in Nat, NEW hi \in lo..Len(b), NEW n \in 0..(hi - lo)
  PROVE  Drop(SubSeq(b, lo + 1, hi), n) = SubSeq(b, lo + n + 1, hi)
<1> DEFINE w == SubSeq(b, lo + 1, hi)
           u == SubSeq(w, n + 1, Len(w))
           v == SubSeq(b, lo + n + 1, hi)
<1>1. w \in Seq(Bytes) /\ Len(w) = hi - lo /\ \A j \in 1..(hi - lo) : w[j] = b[lo + j]
  OBVIOUS
<1>2. v \in Seq(Bytes) /\ Len(v) = hi - lo - n /\ \A j \in 1..(hi - lo - n) : v[j] = b[lo + n + j]
  OBVIOUS
<1> HIDE DEF w, v
<1>3. u \in Seq(Bytes) /\ Len(u) = hi - lo - n /\ \A j \in 1..(hi - lo - n) : u[j] = w[n + j]
  BY <1>1
<1>4. ASSUME NEW j \in 1..(hi - lo - n) PROVE u[j] = v[j]
  <2>1. n + j \in 1..(hi - lo) /\ lo + (n + j) = lo + n + j
    OBVIOUS
  <2> QED BY <1>1, <1>2, <1>3, <2>1
<1> HIDE DEF u
<1>5. u = v
  BY <1>2, <1>3, <1>4, SeqEqual
<1> QED BY <1>5 DEF u, v, w, Drop

(* Two adjacent slices are one. *)
LEMMA Joined ==
  ASSUME NEW b \in Seq(Bytes), NEW lo \in Nat, NEW mid \in lo..Len(b), NEW hi \in mid..Len(b)
  PROVE  SubSeq(b, lo + 1, mid) \o SubSeq(b, mid + 1, hi) = SubSeq(b, lo + 1, hi)
<1> DEFINE u == SubSeq(b, lo + 1, mid)
           v == SubSeq(b, mid + 1, hi)
           w == SubSeq(b, lo + 1, hi)
           x == u \o v
<1>1. u \in Seq(Bytes) /\ Len(u) = mid - lo /\ \A j \in 1..(mid - lo) : u[j] = b[lo + j]
  OBVIOUS
<1>2. v \in Seq(Bytes) /\ Len(v) = hi - mid /\ \A j \in 1..(hi - mid) : v[j] = b[mid + j]
  OBVIOUS
<1>3. w \in Seq(Bytes) /\ Len(w) = hi - lo /\ \A j \in 1..(hi - lo) : w[j] = b[lo + j]
  OBVIOUS
<1> HIDE DEF u, v, w
<1>4. x \in Seq(Bytes) /\ Len(x) = hi - lo
  BY <1>1, <1>2
<1>5. ASSUME NEW j \in 1..(hi - lo) PROVE x[j] = w[j]
  <2>1. CASE j <= mid - lo
    BY <1>1, <1>2, <1>3, <2>1
  <2>2. CASE ~(j <= mid - lo)
    <3>1. x[j] = v[j - (mid - lo)] /\ j - (mid - lo) \in 1..(hi - mid)
      BY <1>1, <1>2, <2>2
    <3>2. mid + (j - (mid - lo)) = lo + j
      OBVIOUS
    <3> QED BY <1>2, <1>3, <3>1, <3>2
  <2> QED BY <2>1, <2>2
<1> HIDE DEF x
<1>6. x = w
  BY <1>3, <1>4, <1>5, SeqEqual
<1> QED BY <1>6 DEF x, u, v, w


(* The last byte of a file that begins at c and has its delimiter at d. *)
End(b, c, d) == IF d > c /\ b[d - 1] = "CR" THEN d - 2 ELSE d - 1

(* A beginning of a slice is the slice that ends earlier. *)
LEMMA Beginning ==
  ASSUME NEW b \in Seq(Bytes), NEW c \in Nat \ {0}, NEW hi \in (c - 1)..Len(b),
         NEW k \in 0..(hi - c + 1)
  PROVE  SubSeq(SubSeq(b, c, hi), 1, k) = SubSeq(b, c, c + k - 1)
<1> DEFINE w == SubSeq(b, c, hi)
           u == SubSeq(w, 1, k)
           v == SubSeq(b, c, c + k - 1)
<1>1. w \in Seq(Bytes) /\ Len(w) = hi - c + 1 /\ \A j \in 1..(hi - c + 1) : w[j] = b[c + j - 1]
  OBVIOUS
<1>2. v \in Seq(Bytes) /\ Len(v) = k /\ \A j \in 1..k : v[j] = b[c + j - 1]
  OBVIOUS
<1> HIDE DEF w, v
<1>3. u \in Seq(Bytes) /\ Len(u) = k /\ \A j \in 1..k : u[j] = w[j]
  BY <1>1
<1> HIDE DEF u
<1>4. ASSUME NEW j \in 1..k PROVE u[j] = v[j]
  <2>1. j \in 1..(hi - c + 1)
    OBVIOUS
  <2>2. u[j] = w[j] /\ w[j] = b[c + j - 1]
    BY <1>1, <1>3, <2>1
  <2> QED BY <1>2, <2>2
<1>5. u = v
  BY <1>2, <1>3, <1>4, SeqEqual
<1> QED BY <1>5 DEF u, v, w

(* The file ends before the delimiter found at d, and before the CR of a   *)
(* CRLF.                                                                   *)
LEMMA BeforeIs ==
  ASSUME NEW b \in Seq(Bytes), NEW c \in Nat \ {0}, NEW hi \in c..Len(b), NEW d \in c..hi
  PROVE  /\ Before(SubSeq(b, c, hi), d - c + 1) = SubSeq(b, c, End(b, c, d))
         /\ End(b, c, d) \in (c - 1)..(d - 1) /\ End(b, c, d) >= d - 2
         /\ SubSeq(b, c, End(b, c, d)) \in Seq(Bytes)
         /\ Len(SubSeq(b, c, End(b, c, d))) = End(b, c, d) - c + 1
<1> DEFINE w == SubSeq(b, c, hi)
<1>1. \A j \in 1..(hi - c + 1) : w[j] = b[c + j - 1]
  OBVIOUS
<1>2. End(b, c, d) \in (c - 1)..(d - 1) /\ End(b, c, d) >= d - 2
  BY DEF End
<1>3. CASE d > c
  <2>1. w[d - c + 1 - 1] = b[d - 1]
    <3>1. d - c + 1 - 1 \in 1..(hi - c + 1) /\ c + (d - c + 1 - 1) - 1 = d - 1
      BY <1>3
    <3> QED BY <1>1, <3>1
  <2>2. d - c + 1 > 1
    BY <1>3
  <2> HIDE DEF w
  <2>3. Before(w, d - c + 1) = IF b[d - 1] = "CR" THEN SubSeq(w, 1, d - c + 1 - 2)
                                                  ELSE SubSeq(w, 1, d - c + 1 - 1)
    BY <2>1, <2>2 DEF Before
  <2>4. SubSeq(w, 1, d - c + 1 - 2) = SubSeq(b, c, d - 2)
    <3>1. d - c + 1 - 2 \in 0..(hi - c + 1) /\ c + (d - c + 1 - 2) - 1 = d - 2
      BY <1>3
    <3> QED BY <3>1, Beginning DEF w
  <2>5. SubSeq(w, 1, d - c + 1 - 1) = SubSeq(b, c, d - 1)
    <3>1. d - c + 1 - 1 \in 0..(hi - c + 1) /\ c + (d - c + 1 - 1) - 1 = d - 1
      BY <1>3
    <3> QED BY <3>1, Beginning DEF w
  <2>6. Before(w, d - c + 1) = SubSeq(b, c, End(b, c, d))
    BY <1>3, <2>3, <2>4, <2>5 DEF End
  <2> QED BY <1>2, <2>6 DEF w
<1>4. CASE ~(d > c)
  <2>1. d = c /\ d - c + 1 = 1
    BY <1>4
  <2> HIDE DEF w
  <2>2. Before(w, d - c + 1) = SubSeq(w, 1, 0)
    BY <2>1 DEF Before
  <2>3. SubSeq(w, 1, 0) = SubSeq(b, c, d - 1)
    <3>1. 0 \in 0..(hi - c + 1) /\ c + 0 - 1 = d - 1
      BY <2>1
    <3> QED BY <3>1, Beginning DEF w
  <2>4. Before(w, d - c + 1) = SubSeq(b, c, End(b, c, d))
    BY <1>4, <2>2, <2>3 DEF End
  <2> QED BY <1>2, <2>4 DEF w
<1> QED BY <1>3, <1>4

(* What FileAt says of a file that is ended, and of one that is not. *)
LEMMA FileEnded ==
  ASSUME NEW b \in Seq(Bytes), NEW c \in Nat \ {0}, NEW d \in c..Len(b),
         First(b, {Delimiter}, c) = d
  PROVE  FileAt(b, c) =
           IF End(b, c, d) - c + 1 > MaxBytes THEN Error("oversized")
           ELSE [outcome |-> IF SubSeq(b, c, End(b, c, d)) = <<>> THEN "empty" ELSE "done",
                 file |-> SubSeq(b, c, End(b, c, d))]
<1>0. Len(b) \in c..Len(b)
  OBVIOUS
<1>1. /\ Before(SubSeq(b, c, Len(b)), d - c + 1) = SubSeq(b, c, End(b, c, d))
      /\ Len(SubSeq(b, c, End(b, c, d))) = End(b, c, d) - c + 1
  BY <1>0, BeforeIs
<1>2. d > 0 /\ d # 0
  OBVIOUS
<1> QED BY <1>1, <1>2 DEF FileAt

LEMMA FileUnended ==
  ASSUME NEW b \in Seq(Bytes), NEW c \in Nat \ {0}, First(b, {Delimiter}, c) = 0
  PROVE  FileAt(b, c) = IF Len(b) - Len(Delimiter) - c + 1 > MaxBytes
                        THEN Error("oversized") ELSE Error("malformed")
<1> DEFINE t == SubSeq(b, c + Len(Delimiter), Len(b))
<1>1. Len(t) = IF Len(b) - Len(Delimiter) - c + 1 > 0 THEN Len(b) - Len(Delimiter) - c + 1 ELSE 0
  BY Patterns
<1>2. Len(t) > MaxBytes <=> Len(b) - Len(Delimiter) - c + 1 > MaxBytes
  BY <1>1, Patterns
<1>3. ~(0 > 0)
  OBVIOUS
<1> QED BY <1>2, <1>3 DEF FileAt

(* The budget refuses, before a delimiter is seen, only what is too large. *)
LEMMA TooLarge ==
  ASSUME NEW b \in Seq(Bytes), NEW c \in Nat \ {0}, NEW hi \in 0..Len(b),
         NoneIn(b, Delimiter, c, hi), hi - Len(Delimiter) - c + 1 > MaxBytes
  PROVE  FileAt(b, c) = Error("oversized")
<1> DEFINE d == First(b, {Delimiter}, c)
<1>1. CASE d = 0
  <2>1. Len(b) - Len(Delimiter) - c + 1 > MaxBytes
    BY Patterns
  <2> QED BY <1>1, <2>1, FileUnended
<1>2. CASE d # 0
  <2>1. d \in c..Len(b) /\ d + Len(Delimiter) - 1 > hi
    BY <1>2, FirstUnseen
  <2> HIDE DEF d
  <2>2. End(b, c, d) \in Int /\ End(b, c, d) >= d - 2
    BY <2>1, BeforeIs
  <2>3. End(b, c, d) - c + 1 > MaxBytes
    BY <2>1, <2>2, Patterns
  <2> QED BY <2>1, <2>3, FileEnded DEF d
<1> QED BY <1>1, <1>2

(* What lies before the first delimiter, a marker's length short of it,    *)
(* begins the file.                                                        *)
LEMMA BeginsTheFile ==
  ASSUME NEW b \in Seq(Bytes), NEW c \in Nat \ {0}, NEW m \in (c - 1)..Len(b),
         m = c - 1 \/ \A j \in c..(m + 1) : ~IsAt(b, Delimiter, j),
         FileAt(b, c).outcome = "done"
  PROVE  IsAt(FileAt(b, c).file, SubSeq(b, c, m), 1)
<1> DEFINE d == First(b, {Delimiter}, c)
<1>1. d # 0
  <2> SUFFICES ASSUME d = 0 PROVE FALSE
    OBVIOUS
  <2>1. FileAt(b, c) = Error("oversized") \/ FileAt(b, c) = Error("malformed")
    BY FileUnended
  <2> QED BY <2>1 DEF Error
<1>2. d \in c..Len(b) /\ IsAt(b, Delimiter, d)
  BY <1>1, FirstIs
<1> DEFINE e == End(b, c, d)
           f == SubSeq(b, c, e)
<1> HIDE DEF d
<1>3. e \in (c - 1)..(d - 1) /\ e >= d - 2 /\ f \in Seq(Bytes) /\ Len(f) = e - c + 1
  BY <1>2, BeforeIs
<1>4. FileAt(b, c).file = f
  <2>1. FileAt(b, c) = IF e - c + 1 > MaxBytes THEN Error("oversized")
                       ELSE [outcome |-> IF f = <<>> THEN "empty" ELSE "done", file |-> f]
    BY <1>2, FileEnded DEF d
  <2> HIDE DEF e, f
  <2> QED BY <2>1 DEF Error
<1>5. m <= e
  <2>1. CASE m = c - 1
    BY <1>3, <2>1
  <2>2. CASE \A j \in c..(m + 1) : ~IsAt(b, Delimiter, j)
    <3>1. d \notin c..(m + 1)
      BY <1>2, <2>2
    <3> QED BY <1>2, <1>3, <3>1
  <2> QED BY <2>1, <2>2
<1> DEFINE p == SubSeq(b, c, m)
<1>6. p \in Seq(Bytes) /\ Len(p) = m - c + 1
  OBVIOUS
<1>7. SubSeq(f, 1, m - c + 1) = p
  <2>1. m - c + 1 \in 0..(e - c + 1) /\ c + (m - c + 1) - 1 = m /\ e \in (c - 1)..Len(b)
    BY <1>2, <1>3, <1>5
  <2> HIDE DEF e
  <2> QED BY <2>1, Beginning
<1>8. 1 + Len(p) - 1 = m - c + 1 /\ m - c + 1 <= Len(f)
  BY <1>2, <1>3, <1>5, <1>6
<1> HIDE DEF f, p
<1>9. IsAt(f, p, 1)
  BY <1>7, <1>8 DEF IsAt
<1> QED BY <1>4, <1>9 DEF p


(***************************************************************************)
(* The reader follows the reference.  Base is how much of the body is past *)
(* the buffer, which holds the bytes from there to what was fed (Window).  *)
(* Wherever the reader stands, what the whole body holds is what the       *)
(* reference makes of it from there (Stands), for the cap itself and,      *)
(* unless it has refused already (Refuses), for the cap less three bytes.  *)
(* When the reader asks for a chunk it has seen all it could (Quiet), so   *)
(* that a stream that ends then ends early for the reference too.  The     *)
(* file handed over so far ends where the buffer begins, and no delimiter  *)
(* does in it (Filling).                                                   *)
(***************************************************************************)
Base == fed - Len(buf)
Window == buf = SubSeq(body, Base + 1, fed)
Filling ==
    IF state = "file"
    THEN /\ Len(sink) <= Base /\ sink = SubSeq(body, Base + 1 - Len(sink), Base)
         /\ sink = <<>> \/ \A j \in (Base + 1 - Len(sink))..(Base + 1) : ~IsAt(body, Delimiter, j)
    ELSE sink = <<>>
Stands(h) == StandsAt(body, h, state, Base + 1, Len(sink))
Refuses == Reference(body, MaxHeader - 3) = Error("malformed")
Quiet ==
    /\ state = "preamble" => NoneIn(body, Marker, Base + 1, fed)
    /\ state = "boundaryEnd" => buf \in {<<>>, <<"D">>, <<"CR">>}
    /\ state = "headers" => \A e \in HeaderEnds : NoneIn(body, e, Base + 1, fed)
    /\ state \in {"file", "skip"} => NoneIn(body, Delimiter, Base + 1, fed)
    /\ state = "file" => Len(buf) <= Len(Delimiter)
Open ==
    /\ Window /\ Filling
    /\ Stands(MaxHeader)
    /\ Stands(MaxHeader - 3) \/ Refuses
    /\ hungry => Quiet
Follows == (outcome = "open" => Open) /\ ChunksDoNotShow /\ SinkHoldsTheFile

(* Where the reader stands, as numbers. *)
LEMMA Places ==
  ASSUME Keeps
  PROVE  /\ body \in Seq(Bytes) /\ fed \in 0..Len(body) /\ Base \in 0..fed /\ Base + 1 \in Nat \ {0}
         /\ buf \in Seq(Bytes) /\ sink \in Seq(Bytes) /\ Len(buf) \in Nat /\ Len(buf) = fed - Base
         /\ Len(sink) \in 0..MaxBytes /\ MaxHeader \in Nat /\ Len(body) \in Nat /\ fed \in Nat
  BY ReaderAssumption DEF Keeps, TypeOK, SinkWithinBudget, Base

(* What is in the buffer is in the body, among the bytes fed. *)
LEMMA Seen ==
  ASSUME Keeps, Window, NEW p \in Seq(Bytes), NEW k \in Nat \ {0}
  PROVE  IsAt(buf, p, k) <=> Base + k + Len(p) - 1 <= fed /\ IsAt(body, p, Base + k)
<1>1. Base \in Nat /\ fed \in Base..Len(body) /\ body \in Seq(Bytes)
  BY Places
<1>2. IsAt(SubSeq(body, Base + 1, fed), p, k)
        <=> Base + k + Len(p) - 1 <= fed /\ IsAt(body, p, Base + k)
  BY <1>1, Windowed
<1> QED BY <1>2 DEF Window

(* What Find returns. *)
LEMMA FindIs ==
  ASSUME NEW s \in Seq(Bytes), NEW p
  PROVE  \/ Find(s, p) = 0 /\ \A j \in 1..Len(s) : ~IsAt(s, p, j)
         \/ /\ Find(s, p) \in 1..Len(s) /\ IsAt(s, p, Find(s, p))
            /\ \A j \in 1..(Find(s, p) - 1) : ~IsAt(s, p, j)
<1>1. 1 \in Nat \ {0}
  OBVIOUS
<1>2. \/ /\ First(s, {p}, 1) = 0
         /\ \A j \in 1..Len(s) : \A q \in {p} : ~IsAt(s, q, j)
      \/ /\ First(s, {p}, 1) \in 1..Len(s)
         /\ \E q \in {p} : IsAt(s, q, First(s, {p}, 1))
         /\ \A j \in 1..(First(s, {p}, 1) - 1) : \A q \in {p} : ~IsAt(s, q, j)
  BY <1>1, FirstIs
<1>3. Find(s, p) = First(s, {p}, 1)
  BY FindIsFirst
<1> QED BY <1>2, <1>3, Zenon

(* A pattern the buffer does not hold does not end among the bytes fed. *)
LEMMA NotFound ==
  ASSUME Keeps, Window, NEW p \in Seq(Bytes), Len(p) > 0, Find(buf, p) = 0
  PROVE  NoneIn(body, p, Base + 1, fed)
<1> SUFFICES ASSUME NEW j \in (Base + 1)..Len(body), IsAt(body, p, j), ~(j + Len(p) - 1 > fed)
             PROVE  FALSE
  BY DEF NoneIn
<1> DEFINE k == j - Base
<1>1. k \in 1..Len(buf) /\ Base + k = j /\ Base + k + Len(p) - 1 <= fed /\ k \in Nat \ {0}
  BY Places
<1>2. ~IsAt(buf, p, k)
  BY <1>1, FindIs, Places, SMTT(20)
<1> HIDE DEF k
<1> QED BY <1>1, <1>2, Seen

(* The first the buffer holds is the first in the rest of the body. *)
LEMMA Found ==
  ASSUME Keeps, Window, NEW p \in Seq(Bytes), Find(buf, p) # 0
  PROVE  /\ Find(buf, p) \in 1..Len(buf)
         /\ Find(buf, p) + Len(p) - 1 <= Len(buf)
         /\ Base + Find(buf, p) \in (Base + 1)..Len(body)
         /\ IsAt(body, p, Base + Find(buf, p))
         /\ First(body, {p}, Base + 1) = Base + Find(buf, p)
<1> DEFINE i == Find(buf, p)
<1>1. i \in 1..Len(buf) /\ IsAt(buf, p, i) /\ \A j \in 1..(i - 1) : ~IsAt(buf, p, j)
  BY FindIs, Places
<1>2. i \in Nat \ {0}
  BY <1>1, Places
<1> HIDE DEF i
<1>3. Base + i + Len(p) - 1 <= fed /\ IsAt(body, p, Base + i)
  BY <1>1, <1>2, Seen
<1>4. i + Len(p) - 1 <= Len(buf) /\ Base + i \in (Base + 1)..Len(body)
  BY <1>1, <1>3, Places
<1>5. ASSUME NEW j \in (Base + 1)..(Base + i - 1), IsAt(body, p, j) PROVE FALSE
  <2> DEFINE k == j - Base
  <2>1. k \in 1..(i - 1) /\ k \in Nat \ {0} /\ Base + k = j
    BY <1>2, Places
  <2> HIDE DEF k
  <2>2. Base + k + Len(p) - 1 <= fed
    <3>1. Len(p) \in Nat /\ Base \in Nat /\ fed \in Nat
      BY Places
    <3> QED BY <1>2, <1>3, <2>1, <3>1
  <2> QED BY <1>1, <1>5, <2>1, <2>2, Seen
<1>6. First(body, {p}, Base + 1) = Base + i
  <2>1. \A j \in (Base + 1)..((Base + i) - 1) : \A q \in {p} : ~IsAt(body, q, j)
    <3>1. (Base + i) - 1 = Base + i - 1
      BY <1>2, Places
    <3> QED BY <1>5, <3>1
  <2> DEFINE lo == Base + 1
             d == Base + i
  <2>2. lo \in Nat \ {0} /\ d \in lo..Len(body) /\ IsAt(body, p, d) /\ p \in {p}
    BY <1>3, <1>4, Places
  <2>3. \A j \in lo..(d - 1) : \A q \in {p} : ~IsAt(body, q, j)
    BY <2>1
  <2>4. body \in Seq(Bytes)
    BY Places
  <2> HIDE DEF lo, d
  <2>5. First(body, {p}, lo) = d
    BY <2>2, <2>3, <2>4, FirstIsAt
  <2> QED BY <2>5 DEF lo, d
<1> QED BY <1>1, <1>3, <1>4, <1>6 DEF i

(* A refusal that one of the references agrees with. *)
LEMMA Refusing ==
  ASSUME Follows, NEW e \in {"empty", "oversized", "missing", "malformed"}, outcome' = e,
         UNCHANGED <<body, sink>>,
         NEW h \in {MaxHeader, MaxHeader - 3}, Reference(body, h).outcome = e
  PROVE  Follows'
<1>1. SinkHoldsTheFile'
  BY DEF Follows, SinkHoldsTheFile
<1>2. ChunksDoNotShow'
  BY DEF ChunksDoNotShow
<1> QED BY <1>1, <1>2 DEF Follows

(* A step that drops n bytes and appends nothing to the sink: it is enough *)
(* that the reference stands at the new place.                             *)
LEMMA Onward ==
  ASSUME Keeps, Follows, Open, outcome' = "open", UNCHANGED <<body, fed, sink>>, sink = <<>>,
         NEW n \in 0..Len(buf), buf' = Drop(buf, n), hungry' => Quiet',
         \A h \in {MaxHeader, MaxHeader - 3} :
             Stands(h) => \/ StandsAt(body, h, state', Base + n + 1, 0)
                          \/ h = MaxHeader - 3 /\ Refuses
  PROVE  Follows'
<1>1. buf' = SubSeq(body, Base + n + 1, fed)
  <2>1. Base \in Nat /\ fed \in Base..Len(body) /\ n \in 0..(fed - Base) /\ body \in Seq(Bytes)
    BY Places
  <2> QED BY <2>1, Dropped DEF Open, Window
<1>2. Len(buf') = fed - Base - n
  BY <1>1, Places
<1>3. Base' = Base + n /\ Base' \in Nat
  BY <1>2, Places, SMTT(20) DEF Base
<1>4. Window'
  BY <1>1, <1>3 DEF Window
<1>5. Filling'
  <2>1. SubSeq(body, Base' + 1, Base') = <<>>
    BY <1>3, Places
  <2>2. Len(sink') = 0 /\ Base' + 1 - 0 = Base' + 1 /\ 0 <= Base'
    BY <1>3
  <2> QED BY <2>1, <2>2 DEF Filling
<1>6. \A h : StandsAt(body, h, state', Base + n + 1, 0) => Stands(h)'
  <2>1. Len(sink') = 0
    OBVIOUS
  <2> QED BY <1>3, <2>1 DEF Stands
<1>7. Stands(MaxHeader)'
  <2>1. MaxHeader # MaxHeader - 3
    BY Places
  <2> QED BY <1>6, <2>1 DEF Open
<1>8. (Stands(MaxHeader - 3) \/ Refuses)'
  <2>1. Refuses' <=> Refuses
    BY DEF Refuses
  <2> QED BY <1>6, <2>1 DEF Open
<1>9. Open'
  BY <1>4, <1>5, <1>7, <1>8 DEF Open
<1> QED BY <1>9 DEF Follows, ChunksDoNotShow, SinkHoldsTheFile


(* Nothing seen from lo on is nothing seen from a later place on. *)
LEMMA NoneFurther ==
  ASSUME NEW b \in Seq(Bytes), NEW p, NEW lo \in Int, NEW hi, NoneIn(b, p, lo, hi),
         NEW k \in Int, lo <= k
  PROVE  NoneIn(b, p, k, hi)
<1>1. k..Len(b) \subseteq lo..Len(b)
  OBVIOUS
<1> QED BY <1>1 DEF NoneIn

(* Dropping n bytes moves the reader n bytes on. *)
LEMMA Shifted ==
  ASSUME Keeps, Window, NEW n \in 0..Len(buf), buf' = Drop(buf, n), UNCHANGED fed
  PROVE  Base' = Base + n /\ Len(buf') = Len(buf) - n
<1>1. Len(buf') = Len(buf) - n
  BY Dropping, Places
<1> QED BY <1>1, Places DEF Base

(* _prune keeps enough for a pattern that is cut by the chunk. *)
LEMMA Pruned ==
  ASSUME Keeps, Window, NEW p \in Seq(Bytes), Len(p) > 0, Find(buf, p) = 0,
         NEW keep \in Nat, keep >= Len(p) - 1
  PROVE  \E n \in 0..Len(buf) :
            /\ Prune(buf, keep) = Drop(buf, n)
            /\ \A h : AfterFirst(body, h, p, Base + 1) = AfterFirst(body, h, p, Base + n + 1)
            /\ NoneIn(body, p, Base + n + 1, fed)
<1>1. NoneIn(body, p, Base + 1, fed)
  BY NotFound
<1>2. CASE Len(buf) > keep
  <2> DEFINE n == Len(buf) - keep
             k == Base + n + 1
             i == Base + 1
  <2>1. /\ n \in 0..Len(buf) /\ Prune(buf, keep) = Drop(buf, n)
    BY <1>2, Places DEF Prune
  <2>2. k + Len(p) - 2 <= fed /\ k \in Nat /\ i <= k /\ i \in Nat \ {0} /\ fed \in Int
    BY <1>2, Places, SMTT(20)
  <2>3. body \in Seq(Bytes)
    BY Places
  <2>5. NoneIn(body, p, i, fed)
    BY <1>1
  <2> HIDE DEF n, k, i
  <2>4. \A h : AfterFirst(body, h, p, i) = AfterFirst(body, h, p, k)
    BY <2>2, <2>3, <2>5, AfterFurther
  <2>6. NoneIn(body, p, k, fed)
    BY <2>2, <2>3, <2>5, NoneFurther
  <2> QED BY <2>1, <2>4, <2>6 DEF k, i
<1>3. CASE ~(Len(buf) > keep)
  <2>1. Prune(buf, keep) = Drop(buf, 0)
    BY <1>3, Places DEF Prune, Drop
  <2>2. Base + 0 + 1 = Base + 1 /\ 0 \in 0..Len(buf)
    BY Places
  <2> QED BY <1>1, <2>1, <2>2
<1> QED BY <1>2, <1>3

(* Past the first pattern the parse goes on with the byte after it. *)
LEMMA Passed ==
  ASSUME Keeps, Window, NEW p \in Seq(Bytes), Len(p) > 0, NEW i, i = Find(buf, p), i > 0
  PROVE  /\ i + Len(p) - 1 \in 0..Len(buf)
         /\ \A h : AfterFirst(body, h, p, Base + 1) = Parse(body, h)[Base + (i + Len(p) - 1) + 1]
         /\ Base + (i + Len(p) - 1) + 1 <= Len(body) + 1
<1>1. /\ i \in 1..Len(buf) /\ i + Len(p) - 1 <= Len(buf)
      /\ First(body, {p}, Base + 1) = Base + i
  <2>1. Find(buf, p) # 0
    OBVIOUS
  <2> QED BY <2>1, Found
<1>2. Base + i # 0 /\ (Base + i) + Len(p) = Base + (i + Len(p) - 1) + 1
  BY <1>1, Places
<1>3. \A h : AfterFirst(body, h, p, Base + 1) = Parse(body, h)[(Base + i) + Len(p)]
  BY <1>1, <1>2 DEF AfterFirst
<1>4. i + Len(p) - 1 \in 0..Len(buf) /\ Base + (i + Len(p) - 1) + 1 <= Len(body) + 1
  <2>1. Len(p) \in Nat /\ Len(p) > 0 /\ i \in Nat
    BY <1>1, Places
  <2>2. Base \in Nat /\ Len(buf) \in Nat /\ Len(body) \in Nat /\ Base + Len(buf) <= Len(body)
    BY Places
  <2> QED BY <1>1, <2>1, <2>2
<1> QED BY <1>2, <1>3, <1>4

(* One lemma per step, after which the reader stands where the reference   *)
(* does.  First, a chunk fed.                                              *)
LEMMA FollowFeed == Keeps /\ Follows /\ Feed => Follows'
<1> SUFFICES ASSUME Keeps, Follows, Feed PROVE Follows'
  OBVIOUS
<1>0. Open /\ UNCHANGED <<body, state, sink, outcome>> /\ hungry' = FALSE
  BY DEF Follows, Feed
<1>1. PICK n \in 1..(Len(body) - fed) :
        fed' = fed + n /\ buf' = buf \o SubSeq(body, fed + 1, fed + n)
  BY DEF Feed
<1>2. buf' = SubSeq(body, Base + 1, fed + n)
  <2>1. Base \in Nat /\ fed \in Base..Len(body) /\ fed + n \in fed..Len(body) /\ body \in Seq(Bytes)
    BY Places
  <2> QED BY <1>0, <1>1, <2>1, Joined DEF Open, Window
<1>3. Base' = Base
  <2>1. Len(buf') = fed + n - Base
    BY <1>2, Places, SMTT(20)
  <2>2. fed' - Len(buf') = Base
    <3>1. fed \in Nat /\ n \in Nat /\ Base \in Nat
      BY Places
    <3> QED BY <1>1, <2>1, <3>1
  <2> QED BY <2>2 DEF Base
<1>4. Window'
  BY <1>0, <1>1, <1>2, <1>3 DEF Window
<1>5. Filling'
  BY <1>0, <1>3 DEF Open, Filling
<1>6. Stands(MaxHeader)' /\ (Stands(MaxHeader - 3) \/ Refuses)'
  BY <1>0, <1>3 DEF Open, Stands, Refuses
<1>7. Open'
  BY <1>0, <1>4, <1>5, <1>6 DEF Open
<1> QED BY <1>0, <1>7 DEF Follows, ChunksDoNotShow, SinkHoldsTheFile

(* The preamble, and a part that is not the file, whose bytes are dropped. *)
LEMMA FollowSeek == Keeps /\ Follows /\ SeekBoundary => Follows'
<1> SUFFICES ASSUME Keeps, Follows, SeekBoundary PROVE Follows'
  OBVIOUS
<1>0. /\ Open /\ Window /\ state = "preamble" /\ UNCHANGED <<body, fed, sink>> /\ outcome = "open"
      /\ ~hungry /\ sink = <<>>
  BY DEF Follows, Open, Filling, SeekBoundary, Stepping
<1>1. Marker \in Seq(Bytes) /\ Len(Marker) > 0 /\ Len(Marker) - 1 \in Nat /\ Len(Marker) \in Nat
  BY Patterns
<1>2. ASSUME NEW h, Stands(h) PROVE Reference(body, h) = AfterFirst(body, h, Marker, Base + 1)
  BY <1>0, <1>2 DEF Stands, StandsAt
<1> DEFINE i == Find(buf, Marker)
<1>3. CASE i > 0
  <2> DEFINE n == i + Len(Marker) - 1
  <2>1. n \in 0..Len(buf) /\ Base + n + 1 <= Len(body) + 1
        /\ \A h : AfterFirst(body, h, Marker, Base + 1) = Parse(body, h)[Base + n + 1]
    BY <1>0, <1>1, <1>3, Passed
  <2>2. state' = "boundaryEnd" /\ buf' = Drop(buf, n) /\ outcome' = "open" /\ ~hungry'
    BY <1>0, <1>3 DEF SeekBoundary, Advance
  <2> HIDE DEF n, i
  <2>3. ASSUME NEW h, Stands(h) PROVE StandsAt(body, h, state', Base + n + 1, 0)
    BY <1>2, <2>1, <2>2, <2>3 DEF StandsAt
  <2> QED BY <1>0, <2>1, <2>2, <2>3, Onward
<1>4. CASE ~(i > 0)
  <2>0. Find(buf, Marker) = 0
    BY <1>4, Finding, Places
  <2>1. Starve /\ buf' = Prune(buf, Len(Marker) - 1)
    BY <1>4 DEF SeekBoundary
  <2>2. PICK n \in 0..Len(buf) :
            /\ Prune(buf, Len(Marker) - 1) = Drop(buf, n)
            /\ \A h : AfterFirst(body, h, Marker, Base + 1)
                        = AfterFirst(body, h, Marker, Base + n + 1)
            /\ NoneIn(body, Marker, Base + n + 1, fed)
    BY <1>0, <1>1, <2>0, Pruned
  <2>3. state' = "preamble" /\ buf' = Drop(buf, n) /\ outcome' = "open"
    BY <1>0, <2>1, <2>2 DEF Starve
  <2>4. ASSUME NEW h, Stands(h) PROVE StandsAt(body, h, state', Base + n + 1, 0)
    BY <1>2, <2>2, <2>3, <2>4 DEF StandsAt
  <2>5. Base' = Base + n
    BY <1>0, <2>3, Shifted
  <2>6. Quiet'
    BY <1>0, <2>2, <2>3, <2>5 DEF Quiet
  <2> QED BY <1>0, <2>3, <2>4, <2>6, Onward
<1> QED BY <1>3, <1>4

(* A skipped part, up to its delimiter. *)
LEMMA FollowSkip == Keeps /\ Follows /\ SkipPart => Follows'
<1> SUFFICES ASSUME Keeps, Follows, SkipPart PROVE Follows'
  OBVIOUS
<1>0. /\ Open /\ Window /\ state = "skip" /\ UNCHANGED <<body, fed, sink>> /\ outcome = "open"
      /\ ~hungry /\ sink = <<>>
  BY DEF Follows, Open, Filling, SkipPart, Stepping
<1>1. Delimiter \in Seq(Bytes) /\ Len(Delimiter) > 0 /\ Len(Delimiter) \in Nat
  BY Patterns
<1>2. ASSUME NEW h, Stands(h) PROVE Reference(body, h) = AfterFirst(body, h, Delimiter, Base + 1)
  BY <1>0, <1>2 DEF Stands, StandsAt
<1> DEFINE i == Find(buf, Delimiter)
<1>3. CASE i > 0
  <2> DEFINE n == i + Len(Delimiter) - 1
  <2>1. n \in 0..Len(buf) /\ Base + n + 1 <= Len(body) + 1
        /\ \A h : AfterFirst(body, h, Delimiter, Base + 1) = Parse(body, h)[Base + n + 1]
    BY <1>0, <1>1, <1>3, Passed
  <2>2. state' = "boundaryEnd" /\ buf' = Drop(buf, n) /\ outcome' = "open" /\ ~hungry'
    BY <1>0, <1>3 DEF SkipPart, Advance
  <2> HIDE DEF n, i
  <2>3. ASSUME NEW h, Stands(h) PROVE StandsAt(body, h, state', Base + n + 1, 0)
    BY <1>2, <2>1, <2>2, <2>3 DEF StandsAt
  <2> QED BY <1>0, <2>1, <2>2, <2>3, Onward
<1>4. CASE ~(i > 0)
  <2>0. Find(buf, Delimiter) = 0
    BY <1>4, Finding, Places
  <2>1. Starve /\ buf' = Prune(buf, Len(Delimiter))
    BY <1>4 DEF SkipPart
  <2>2. PICK n \in 0..Len(buf) :
            /\ Prune(buf, Len(Delimiter)) = Drop(buf, n)
            /\ \A h : AfterFirst(body, h, Delimiter, Base + 1)
                        = AfterFirst(body, h, Delimiter, Base + n + 1)
            /\ NoneIn(body, Delimiter, Base + n + 1, fed)
    BY <1>0, <1>1, <2>0, Pruned
  <2>3. state' = "skip" /\ buf' = Drop(buf, n) /\ outcome' = "open"
    BY <1>0, <2>1, <2>2 DEF Starve
  <2>4. ASSUME NEW h, Stands(h) PROVE StandsAt(body, h, state', Base + n + 1, 0)
    BY <1>2, <2>2, <2>3, <2>4 DEF StandsAt
  <2>5. Base' = Base + n
    BY <1>0, <2>3, Shifted
  <2>6. Quiet'
    BY <1>0, <2>2, <2>3, <2>5 DEF Quiet
  <2> QED BY <1>0, <2>3, <2>4, <2>6, Onward
<1> QED BY <1>3, <1>4


(* The line of a boundary, which may be cut in the middle. *)
LEMMA FollowEnd == Keeps /\ Follows /\ EndBoundary => Follows'
<1> SUFFICES ASSUME Keeps, Follows, EndBoundary PROVE Follows'
  OBVIOUS
<1> DEFINE k == Base + 1
<1>0. /\ Open /\ Window /\ state = "boundaryEnd" /\ UNCHANGED <<body, fed, sink>>
      /\ outcome = "open" /\ ~hungry /\ sink = <<>> /\ Stands(MaxHeader)
  BY DEF Follows, Open, Filling, EndBoundary, Stepping
<1>1. k \in Nat \ {0} /\ body \in Seq(Bytes) /\ Base \in Nat /\ 1 \in Nat \ {0} /\ Len(body) \in Nat
  BY Places
<1>2. ASSUME NEW h, Stands(h)
      PROVE  k \in 1..(Len(body) + 1) /\ Reference(body, h) = Parse(body, h)[k]
  BY <1>0, <1>1, <1>2 DEF Stands, StandsAt
<1>3. ASSUME NEW p \in Seq(Bytes)
      PROVE  IsAt(buf, p, 1) <=> Base + Len(p) <= fed /\ IsAt(body, p, k)
  <2>1. IsAt(buf, p, 1) <=> Base + 1 + Len(p) - 1 <= fed /\ IsAt(body, p, Base + 1)
    BY <1>0, <1>1, <1>3, Seen
  <2>2. Base + 1 + Len(p) - 1 = Base + Len(p)
    BY <1>1, <1>3
  <2> QED BY <2>1, <2>2
<1>4. /\ <<"D", "D">> \in Seq(Bytes) /\ <<"LF">> \in Seq(Bytes) /\ <<"CR", "LF">> \in Seq(Bytes)
  BY Patterns
<1> HIDE DEF k
<1>5. CASE buf \in {<<>>, <<"D">>, <<"CR">>} /\ Starve /\ UNCHANGED buf
  <2>1. buf' = Drop(buf, 0) /\ 0 \in 0..Len(buf)
    BY <1>5, Places DEF Drop
  <2>2. state' = state /\ outcome' = "open" /\ Quiet'
    BY <1>0, <1>5 DEF Starve, Quiet
  <2>3. ASSUME NEW h, Stands(h) PROVE StandsAt(body, h, state', Base + 0 + 1, 0)
    BY <1>0, <1>1, <1>2, <2>2, <2>3 DEF StandsAt, k
  <2> QED BY <1>0, <2>1, <2>2, <2>3, Onward
<1>6. CASE IsAt(buf, <<"D", "D">>, 1) /\ Raise("missing")
  <2>1. IsAt(body, <<"D", "D">>, k)
    BY <1>3, <1>4, <1>6
  <2>2. ~EndsLine(body, k)
    BY <1>1, <2>1, Bytewise DEF EndsLine
  <2>3. Reference(body, MaxHeader) = Error("missing")
    BY <1>0, <1>1, <1>2, <2>1, <2>2, ParseOther
  <2>4. Reference(body, MaxHeader).outcome = "missing"
    BY <2>3 DEF Error
  <2> QED BY <1>0, <1>6, <2>4, Refusing DEF Raise
<1>7. ASSUME NEW n \in {1, 2}, Advance("headers", n), n <= Len(buf),
             EndsLine(body, k), HeadersAt(body, k) = k + n
      PROVE  Follows'
  <2>1. /\ state' = "headers" /\ buf' = Drop(buf, n) /\ outcome' = "open" /\ ~hungry'
        /\ n \in 0..Len(buf)
    BY <1>0, <1>7, Places DEF Advance
  <2>2. k \in 1..Len(body)
    BY <1>1, <1>4, <1>7 DEF EndsLine, IsAt
  <2>3. Base + n + 1 = k + n
    BY <1>1 DEF k
  <2>4. ASSUME NEW h, Stands(h) PROVE StandsAt(body, h, state', Base + n + 1, 0)
    BY <1>2, <1>7, <2>1, <2>2, <2>3, <2>4 DEF StandsAt
  <2> QED BY <1>0, <2>1, <2>4, Onward
<1>8. CASE IsAt(buf, <<"LF">>, 1) /\ Advance("headers", 1)
  <2>1. IsAt(body, <<"LF">>, k)
    BY <1>3, <1>4, <1>8
  <2>2. EndsLine(body, k) /\ HeadersAt(body, k) = k + 1
    BY <2>1 DEF EndsLine, HeadersAt
  <2>3. 1 <= Len(buf)
    BY <1>8, Bytewise, <1>1, Places
  <2> QED BY <1>7, <1>8, <2>2, <2>3
<1>9. CASE IsAt(buf, <<"CR", "LF">>, 1) /\ Advance("headers", 2)
  <2>1. IsAt(body, <<"CR", "LF">>, k)
    BY <1>3, <1>4, <1>9
  <2>2. EndsLine(body, k) /\ HeadersAt(body, k) = k + 2
    BY <1>1, <2>1, Bytewise DEF EndsLine, HeadersAt
  <2>3. 2 <= Len(buf)
    BY <1>9, Bytewise, <1>1, Places
  <2> QED BY <1>7, <1>9, <2>2, <2>3
<1>10. CASE /\ buf \notin {<<>>, <<"D">>, <<"CR">>} /\ Raise("malformed")
            /\ ~IsAt(buf, <<"D", "D">>, 1) /\ ~IsAt(buf, <<"LF">>, 1)
            /\ ~IsAt(buf, <<"CR", "LF">>, 1)
  <2>1. ~IsAt(body, <<"D", "D">>, k) /\ ~EndsLine(body, k)
    <3>1. CASE Len(buf) >= 2
      <4>1. Base + 2 <= fed /\ Base + 1 <= fed
        BY <3>1, Places
      <4>2. Len(<<"D", "D">>) = 2 /\ Len(<<"LF">>) = 1 /\ Len(<<"CR", "LF">>) = 2
        OBVIOUS
      <4> QED BY <1>3, <1>4, <1>10, <4>1, <4>2 DEF EndsLine
    <3>2. CASE ~(Len(buf) >= 2)
      <4>1. Len(buf) = 1 /\ buf = <<buf[1]>>
        <5>1. Len(buf) # 0
          BY <1>10, Places
        <5>2. Len(buf) = 1
          BY <3>2, <5>1, Places
        <5> QED BY <5>2, Places
      <4>2. buf[1] \notin {"D", "CR"}
        BY <1>10, <4>1
      <4>3. buf[1] # "LF"
        <5>1. IsAt(buf, <<"LF">>, 1) <=> 1 <= Len(buf) /\ buf[1] = "LF"
          BY <1>1, Places, Bytewise
        <5>2. 1 <= Len(buf)
          BY <4>1
        <5> QED BY <1>10, <5>1, <5>2
      <4>4. buf[1] = body[k]
        <5>1. buf = SubSeq(body, Base + 1, fed) /\ fed = Base + 1 /\ fed <= Len(body)
          BY <1>0, <4>1, Places DEF Window
        <5>2. buf = SubSeq(body, k, k) /\ k \in 1..Len(body)
          BY <1>1, <5>1 DEF k
        <5> QED BY <1>1, <5>2
      <4> QED BY <1>1, <4>2, <4>3, <4>4, Bytewise DEF EndsLine
    <3> QED BY <3>1, <3>2
  <2>2. Reference(body, MaxHeader) = Error("malformed")
    BY <1>0, <1>1, <1>2, <2>1, ParseOther
  <2>3. Reference(body, MaxHeader).outcome = "malformed"
    BY <2>2 DEF Error
  <2> QED BY <1>0, <1>10, <2>3, Refusing DEF Raise
<1> QED BY <1>5, <1>6, <1>8, <1>9, <1>10 DEF EndBoundary

(* A stream that ends early: the reference finds no end either. *)
LEMMA FollowFinish == Keeps /\ Follows /\ Finish => Follows'
<1> SUFFICES ASSUME Keeps, Follows, Finish PROVE Follows'
  OBVIOUS
<1>0. /\ Open /\ Window /\ Filling /\ Quiet /\ Stands(MaxHeader) /\ UNCHANGED <<body, sink>>
      /\ fed = Len(body) /\ outcome' = "malformed"
  BY DEF Follows, Open, Finish, Raise
<1> DEFINE k == Base + 1
<1>1. /\ k \in Nat \ {0} /\ k <= Len(body) + 1 /\ body \in Seq(Bytes) /\ Base \in Nat
      /\ Len(body) \in Nat /\ Len(buf) = Len(body) - Base
  BY <1>0, Places
<1>2. ASSUME NEW p \in Seq(Bytes), NoneIn(body, p, k, fed)
      PROVE  \A j \in k..Len(body) : ~IsAt(body, p, j)
  BY <1>0, <1>2, SMTT(20) DEF NoneIn, IsAt
<1>3. Marker \in Seq(Bytes) /\ Delimiter \in Seq(Bytes)
  BY Patterns
<1>4. ASSUME NEW p \in Seq(Bytes), NoneIn(body, p, k, fed)
      PROVE  First(body, {p}, k) = 0
  BY <1>1, <1>2, <1>4, FirstIs
<1>5. Reference(body, MaxHeader) = Error("malformed")
  <2>1. CASE state = "preamble" \/ state = "skip"
    <3>1. \E p \in {Marker, Delimiter} :
             /\ NoneIn(body, p, k, fed)
             /\ Reference(body, MaxHeader) = AfterFirst(body, MaxHeader, p, k)
      BY <1>0, <2>1 DEF Quiet, Stands, StandsAt
    <3> HIDE DEF k
    <3> QED BY <1>3, <1>4, <3>1 DEF AfterFirst
  <2>2. CASE state = "boundaryEnd"
    <3>1. k \in 1..(Len(body) + 1) /\ Reference(body, MaxHeader) = Parse(body, MaxHeader)[k]
      BY <1>0, <1>1, <2>2 DEF Stands, StandsAt
    <3>2. buf \in {<<>>, <<"D">>, <<"CR">>}
      BY <1>0, <2>2 DEF Quiet
    <3>3. buf # <<>> => body[k] = buf[1] /\ k = Len(body)
      <4> SUFFICES ASSUME buf # <<>> PROVE body[k] = buf[1] /\ k = Len(body)
        OBVIOUS
      <4>1. Len(buf) = 1
        BY <3>2
      <4>2. buf = SubSeq(body, Base + 1, Len(body)) /\ Base + 1 = Len(body)
        BY <1>0, <1>1, <4>1 DEF Window
      <4> QED BY <1>1, <4>2
    <3>4. buf = <<>> => k = Len(body) + 1
      BY <1>1
    <3> HIDE DEF k
    <3>5. ~EndsLine(body, k) /\ ~IsAt(body, <<"D", "D">>, k)
      BY <1>1, <3>2, <3>3, <3>4, Bytewise DEF EndsLine
    <3> QED BY <1>1, <3>1, <3>5, ParseOther
  <2>3. CASE state = "headers"
    <3>1. PICK i \in 1..Len(body) : /\ EndsLine(body, i) /\ HeadersAt(body, i) = k
                                    /\ Reference(body, MaxHeader) = Parse(body, MaxHeader)[i]
      BY <1>0, <2>3 DEF Stands, StandsAt
    <3>2. \A e \in HeaderEnds : e \in Seq(Bytes) /\ NoneIn(body, e, k, fed)
      BY <1>0, <2>3, Patterns DEF Quiet, HeaderEnds
    <3> HIDE DEF k
    <3>3. First(body, HeaderEnds, k) = 0
      BY <1>1, <1>2, <3>2, FirstIs
    <3>4. ~Readable(body, MaxHeader, i)
      BY <3>1, <3>3 DEF Readable, BlankAt
    <3>5. i \in 1..(Len(body) + 1)
      BY <1>1
    <3> QED BY <1>1, <3>1, <3>4, <3>5, ParseHeaders
  <2>4. CASE state = "file"
    <3> DEFINE c == Base + 1 - Len(sink)
    <3>1. /\ c \in Nat \ {0} /\ c <= k /\ Reference(body, MaxHeader) = FileAt(body, c)
          /\ sink = <<>> \/ \A j \in c..k : ~IsAt(body, Delimiter, j)
      <4>1. Len(sink) <= Base /\ (sink = <<>> \/ \A j \in c..k : ~IsAt(body, Delimiter, j))
        BY <1>0, <2>4 DEF Filling
      <4>2. Reference(body, MaxHeader) = FileAt(body, (Base + 1) - Len(sink))
        BY <1>0, <2>4 DEF Stands, StandsAt
      <4>3. (Base + 1) - Len(sink) = c /\ c \in Nat \ {0} /\ c <= k
        BY <4>1, Places
      <4> QED BY <4>1, <4>2, <4>3
    <3>2. sink = <<>> => c = k
      BY Places
    <3>3. NoneIn(body, Delimiter, k, fed)
      BY <1>0, <2>4 DEF Quiet
    <3>4. \A j \in k..Len(body) : ~IsAt(body, Delimiter, j)
      BY <1>2, <1>3, <3>3
    <3>5. Len(body) - Len(Delimiter) - c + 1 <= MaxBytes
      <4>1. Len(buf) <= Len(Delimiter) /\ Len(Delimiter) \in Nat
        BY <1>0, <2>4, Patterns DEF Quiet
      <4>2. Len(sink) \in Nat /\ Len(sink) <= MaxBytes /\ MaxBytes \in Nat
        BY Places, Patterns
      <4> QED BY <1>1, <4>1, <4>2
    <3> HIDE DEF c, k
    <3>6. \A j \in c..Len(body) : ~IsAt(body, Delimiter, j)
      <4>1. \A j \in c..Len(body) : j \in c..k \/ j \in k..Len(body)
        BY <1>1, <3>1
      <4> QED BY <3>1, <3>2, <3>4, <4>1
    <3>7. First(body, {Delimiter}, c) = 0
      BY <1>1, <3>1, <3>6, FirstIs
    <3>8. ~(Len(body) - Len(Delimiter) - c + 1 > MaxBytes)
      BY <1>1, <3>1, <3>5, Patterns
    <3> QED BY <1>1, <3>1, <3>7, <3>8, FileUnended
  <2> QED BY <2>1, <2>2, <2>3, <2>4 DEF Keeps, TypeOK
<1>6. Reference(body, MaxHeader).outcome = "malformed"
  BY <1>5 DEF Error
<1> QED BY <1>0, <1>6, Refusing


(* The two header ends. *)
LEMMA Lengths ==
  /\ Len(<<"LF", "LF">>) = 2 /\ Len(<<"CR", "LF", "CR", "LF">>) = 4
  /\ HeaderEnds \subseteq Seq(Bytes)
  /\ \A e \in HeaderEnds : Len(e) = 2 \/ Len(e) = 4
  /\ <<"LF", "LF">> # <<"CR", "LF", "CR", "LF">>
<1>1. Len(<<"LF", "LF">>) = 2 /\ Len(<<"CR", "LF", "CR", "LF">>) = 4
  OBVIOUS
<1> QED BY <1>1, Patterns DEF HeaderEnds

(* The parse of a part in terms of its blank line. *)
LEMMA HeaderResult ==
  ASSUME NEW b \in Seq(Bytes), NEW h, NEW j \in 1..Len(b), EndsLine(b, j),
         NEW k, HeadersAt(b, j) = k, NEW e, First(b, HeaderEnds, k) = e
  PROVE  /\ ~(e > 0 /\ e - k <= h) => Parse(b, h)[j] = Error("malformed")
         /\ e > 0 /\ e - k <= h =>
               Parse(b, h)[j] =
                 IF NamesFile(SubSeq(b, k, e - 1))
                 THEN FileAt(b, e + IF IsAt(b, <<"LF", "LF">>, e) THEN 2 ELSE 4)
                 ELSE AfterFirst(b, h, Delimiter, e + IF IsAt(b, <<"LF", "LF">>, e) THEN 2 ELSE 4)
<1>1. BlankAt(b, j) = e /\ ContentAt(b, j) = e + IF IsAt(b, <<"LF", "LF">>, e) THEN 2 ELSE 4
  BY DEF BlankAt, ContentAt
<1>2. Readable(b, h, j) <=> e > 0 /\ e - k <= h
  BY <1>1 DEF Readable
<1>3. IsFile(b, j) <=> NamesFile(SubSeq(b, k, e - 1))
  BY <1>1 DEF IsFile
<1>4. j \in 1..(Len(b) + 1)
  OBVIOUS
<1> QED BY <1>1, <1>2, <1>3, <1>4, ParseHeaders

(* The first blank line the buffer holds is the first of the body.  A CRLF *)
(* CRLF that begins earlier and is not yet complete would have to begin    *)
(* one byte before an LF LF, which its bytes exclude.                      *)
LEMMA FirstEnd ==
  ASSUME Keeps, Window, NEW e \in HeaderEnds, NEW i, i = Find(buf, e), i > 0,
         \A o \in HeaderEnds : Find(buf, o) = 0 \/ i <= Find(buf, o)
  PROVE  /\ i \in 1..Len(buf) /\ i + Len(e) - 1 <= Len(buf)
         /\ First(body, HeaderEnds, Base + 1) = Base + i
         /\ Base + i \in (Base + 1)..Len(body)
         /\ (IF IsAt(body, <<"LF", "LF">>, Base + i) THEN 2 ELSE 4) = Len(e)
<1> DEFINE d == Base + i
           k == Base + 1
<1>0. e \in Seq(Bytes) /\ Find(buf, e) # 0 /\ (Len(e) = 2 \/ Len(e) = 4)
  BY Lengths
<1>1. /\ i \in 1..Len(buf) /\ i + Len(e) - 1 <= Len(buf)
      /\ d \in k..Len(body) /\ IsAt(body, e, d)
  BY <1>0, Found
<1>2. /\ Base \in Nat /\ k \in Nat \ {0} /\ d \in Nat \ {0} /\ body \in Seq(Bytes) /\ fed \in Nat
      /\ buf \in Seq(Bytes) /\ Base + Len(buf) = fed /\ Len(body) \in Nat
  BY <1>1, Places, SMTT(20)
<1>3. (IF IsAt(body, <<"LF", "LF">>, d) THEN 2 ELSE 4) = Len(e)
  <2>1. CASE e = <<"LF", "LF">>
    BY <1>1, <2>1, Lengths
  <2>2. CASE e = <<"CR", "LF", "CR", "LF">>
    BY <1>1, <1>2, <2>2, Lengths, Bytewise
  <2> QED BY <2>1, <2>2 DEF HeaderEnds
<1>4. ASSUME NEW j \in k..(d - 1), NEW q \in HeaderEnds, IsAt(body, q, j) PROVE FALSE
  <2>0. q \in Seq(Bytes) /\ (Len(q) = 2 \/ Len(q) = 4) /\ j \in Nat \ {0}
    BY <1>2, Lengths
  <2>1. CASE j + Len(q) - 1 <= fed
    <3> DEFINE l == j - Base
    <3>1. l \in Nat \ {0} /\ Base + l = j /\ l < i /\ Base + l + Len(q) - 1 <= fed
      BY <1>1, <1>2, <2>0, <2>1, SMTT(20)
    <3> HIDE DEF l
    <3>2. IsAt(buf, q, l)
      BY <1>4, <2>0, <3>1, Seen
    <3>3. l \in 1..Len(buf)
      BY <1>1, <3>1, <1>2
    <3>4. Find(buf, q) # 0 /\ l \notin 1..(Find(buf, q) - 1)
      BY <1>2, <3>2, <3>3, FindIs, SMTT(20)
    <3>5. Find(buf, q) \in 1..Len(buf)
      BY <1>2, <3>4, FindIs
    <3>6. Find(buf, q) <= l
      BY <3>1, <3>4, <3>5, <1>2
    <3>7. i <= Find(buf, q)
      BY <3>4
    <3> QED BY <1>1, <1>2, <3>1, <3>5, <3>6, <3>7
  <2>2. CASE ~(j + Len(q) - 1 <= fed)
    <3>1. d + Len(e) - 1 <= fed
      <4>1. i \in Nat /\ Len(buf) \in Nat /\ Len(e) \in Nat
        BY <1>0, <1>1, <1>2, SMTT(20)
      <4> QED BY <1>1, <1>2, <4>1
    <3> HIDE DEF d, k
    <3>0. j < d
      BY <1>2
    <3>2. Len(q) = 4 /\ Len(e) = 2 /\ d = j + 1
      <4>1. d + Len(e) <= j + Len(q) - 1 /\ j + 1 <= d
        <5>1. Len(e) \in Nat /\ Len(q) \in Nat
          BY <1>0, <2>0
        <5> QED BY <1>2, <2>0, <2>2, <3>0, <3>1, <5>1
      <4>2. CASE Len(e) = 2 /\ Len(q) = 4
        BY <1>2, <2>0, <4>1, <4>2
      <4>3. CASE Len(e) = 4 \/ Len(q) = 2
        <5>1. Len(q) <= Len(e) + 2 /\ (Len(q) = 2 \/ Len(q) = Len(e)) /\ Len(e) \in Nat
          BY <1>0, <2>0, <4>3
        <5> QED BY <1>0, <1>2, <2>0, <4>1, <5>1
      <4> QED BY <1>0, <2>0, <4>2, <4>3
    <3>3. q = <<"CR", "LF", "CR", "LF">> /\ e = <<"LF", "LF">>
      BY <3>2, Lengths DEF HeaderEnds
    <3>4. body[j + 2] = "CR"
      BY <1>2, <1>4, <2>0, <3>3, Bytewise
    <3>5. body[(j + 1) + 1] = "LF"
      BY <1>1, <1>2, <3>2, <3>3, Bytewise
    <3>6. (j + 1) + 1 = j + 2
      BY <2>0
    <3> QED BY <3>4, <3>5, <3>6
  <2> QED BY <2>1, <2>2
<1> HIDE DEF d, k
<1>5. First(body, HeaderEnds, k) = d
  BY <1>1, <1>2, <1>4, FirstIsAt
<1> QED BY <1>1, <1>3, <1>5 DEF d, k

(* The header block, with the two comparisons against the cap. *)
LEMMA FollowHeaders == Keeps /\ Follows /\ ReadHeaders => Follows'
<1> SUFFICES ASSUME Keeps, Follows, ReadHeaders PROVE Follows'
  OBVIOUS
<1> DEFINE k == Base + 1
           low == MaxHeader - 3
<1>0. /\ Open /\ Window /\ state = "headers" /\ UNCHANGED <<body, fed, sink>> /\ outcome = "open"
      /\ ~hungry /\ sink = <<>> /\ Stands(MaxHeader) /\ (Stands(low) \/ Refuses)
  BY DEF Follows, Open, Filling, ReadHeaders, Stepping
<1>1. /\ k \in Nat \ {0} /\ body \in Seq(Bytes) /\ Base \in Nat /\ fed \in Nat
      /\ Len(buf) = fed - Base /\ Len(body) \in Nat /\ MaxHeader \in Nat
  BY Places
<1>2. ASSUME NEW h, Stands(h)
      PROVE  \E j \in 1..Len(body) : /\ EndsLine(body, j) /\ HeadersAt(body, j) = k
                                     /\ Reference(body, h) = Parse(body, h)[j]
  BY <1>0, <1>2 DEF Stands, StandsAt
<1> DEFINE d == First(body, HeaderEnds, k)
<1> HIDE DEF k
<1>3. ASSUME NEW h, Stands(h), ~(d > 0 /\ d - k <= h)
      PROVE  Reference(body, h) = Error("malformed")
  BY <1>1, <1>2, <1>3, HeaderResult
<1>4. CASE /\ \A e \in HeaderEnds : Find(buf, e) = 0
           /\ Len(buf) > MaxHeader /\ Raise("malformed")
  <2>1. ASSUME NEW e \in HeaderEnds PROVE NoneIn(body, e, k, fed)
    <3>1. Find(buf, e) = 0
      BY <1>4
    <3>2. e \in Seq(Bytes) /\ Len(e) > 0
      BY Lengths
    <3> QED BY <1>0, <3>1, <3>2, NotFound DEF k
  <2>2. d = 0 \/ (d \in k..Len(body) /\ d + 3 > fed)
    <3>1. \/ d = 0
          \/ d \in k..Len(body) /\ \E e \in HeaderEnds : IsAt(body, e, d)
      BY <1>1, FirstIs
    <3> HIDE DEF d
    <3>2. ASSUME d \in k..Len(body), NEW e \in HeaderEnds, IsAt(body, e, d) PROVE d + 3 > fed
      <4>1. d + Len(e) - 1 > fed
        BY <2>1, <3>2 DEF NoneIn
      <4>2. (Len(e) = 2 \/ Len(e) = 4) /\ d \in Nat
        BY <1>1, <3>2, Lengths
      <4>3. CASE Len(e) = 2
        BY <1>1, <4>1, <4>2, <4>3
      <4>4. CASE Len(e) = 4
        BY <1>1, <4>1, <4>2, <4>4
      <4> QED BY <4>2, <4>3, <4>4
    <3> QED BY <3>1, <3>2
  <2> HIDE DEF d
  <2>3. ~(d > 0 /\ d - k <= low)
    BY <1>1, <1>4, <2>2 DEF k
  <2>4. Reference(body, low) = Error("malformed")
    BY <1>0, <1>3, <2>3 DEF d, Refuses
  <2>5. Reference(body, low).outcome = "malformed"
    BY <2>4 DEF Error
  <2> QED BY <1>0, <1>4, <2>5, Refusing DEF Raise
<1>5. CASE /\ \A e \in HeaderEnds : Find(buf, e) = 0
           /\ Starve /\ UNCHANGED buf
  <2>1. buf' = Drop(buf, 0) /\ 0 \in 0..Len(buf)
    BY <1>5, Places DEF Drop
  <2>2. state' = state /\ outcome' = "open" /\ Base' = Base
    BY <1>0, <1>5 DEF Starve, Base
  <2>3. ASSUME NEW e \in HeaderEnds PROVE NoneIn(body, e, Base + 1, fed)
    <3>1. e \in Seq(Bytes) /\ Len(e) > 0 /\ Find(buf, e) = 0
      BY <1>5, Lengths
    <3> QED BY <1>0, <3>1, NotFound
  <2>4. Quiet'
    BY <1>0, <2>2, <2>3 DEF Quiet
  <2>5. ASSUME NEW h, Stands(h) PROVE StandsAt(body, h, state', Base + 0 + 1, 0)
    <3>1. Base + 0 + 1 = Base + 1 /\ Len(sink) = 0
      BY <1>0, <1>1
    <3> QED BY <2>2, <2>5, <3>1 DEF Stands
  <2> QED BY <1>0, <2>1, <2>2, <2>4, <2>5, Onward
<1>6. ASSUME NEW e \in HeaderEnds, Find(buf, e) > 0,
             \A o \in HeaderEnds : Find(buf, o) = 0 \/ Find(buf, e) <= Find(buf, o),
             NEW block, block = SubSeq(buf, 1, Find(buf, e) - 1),
             IF Len(block) > MaxHeader THEN Raise("malformed")
             ELSE Advance(IF NamesFile(block) THEN "file" ELSE "skip", Len(block) + Len(e))
      PROVE  Follows'
  <2> DEFINE i == Find(buf, e)
  <2>1. /\ i \in 1..Len(buf) /\ i + Len(e) - 1 <= Len(buf)
        /\ d = Base + i /\ d \in k..Len(body)
        /\ (IF IsAt(body, <<"LF", "LF">>, d) THEN 2 ELSE 4) = Len(e)
    BY <1>0, <1>6, FirstEnd DEF k
  <2>2. Len(e) = 2 \/ Len(e) = 4
    BY Lengths
  <2>3. block = SubSeq(body, k, d - 1) /\ Len(block) = i - 1
    <3>1. fed \in (k - 1)..Len(body) /\ i - 1 \in 0..(fed - k + 1) /\ k + (i - 1) - 1 = d - 1
      BY <1>1, <2>1, Places, SMTT(20) DEF k
    <3>2. block = SubSeq(SubSeq(body, k, fed), 1, i - 1)
      BY <1>0, <1>6 DEF Window, k
    <3> HIDE DEF d, i
    <3>3. block = SubSeq(body, k, d - 1)
      BY <1>1, <3>1, <3>2, Beginning
    <3>4. Len(block) = i - 1
      BY <1>6, <2>1, Places, Handing, SMTT(20) DEF i
    <3> QED BY <3>3, <3>4
  <2> HIDE DEF i, d
  <2>4. d - k = Len(block) /\ d > 0
    BY <1>1, <2>1, <2>3 DEF k
  <2>5. CASE Len(block) > MaxHeader /\ Raise("malformed")
    <3>1. ~(d > 0 /\ d - k <= MaxHeader)
      BY <1>1, <2>1, <2>3, <2>4, <2>5
    <3>2. Reference(body, MaxHeader) = Error("malformed")
      BY <1>0, <1>3, <3>1 DEF d
    <3>3. Reference(body, MaxHeader).outcome = "malformed"
      BY <3>2 DEF Error
    <3> QED BY <1>0, <2>5, <3>3, Refusing DEF Raise
  <2>6. CASE Len(block) <= MaxHeader
             /\ Advance(IF NamesFile(block) THEN "file" ELSE "skip", Len(block) + Len(e))
    <3> DEFINE n == Len(block) + Len(e)
    <3>1. n \in 0..Len(buf) /\ Base + n + 1 = d + Len(e) /\ d \in Nat
      BY <1>1, <2>1, <2>2, <2>3 DEF k
    <3>2. /\ state' = (IF NamesFile(block) THEN "file" ELSE "skip") /\ buf' = Drop(buf, n)
          /\ outcome' = "open" /\ ~hungry'
      BY <1>0, <2>6 DEF Advance
    <3> HIDE DEF n
    <3>3. ASSUME NEW h, Stands(h), d - k <= h
          PROVE  StandsAt(body, h, state', Base + n + 1, 0)
      <4>1. PICK j \in 1..Len(body) : /\ EndsLine(body, j) /\ HeadersAt(body, j) = k
                                      /\ Reference(body, h) = Parse(body, h)[j]
        BY <1>2, <3>3
      <4>2. Parse(body, h)[j] = IF NamesFile(block) THEN FileAt(body, d + Len(e))
                                ELSE AfterFirst(body, h, Delimiter, d + Len(e))
        <5>1. First(body, HeaderEnds, k) = d
          BY DEF d
        <5>2. Parse(body, h)[j] =
                 IF NamesFile(SubSeq(body, k, d - 1))
                 THEN FileAt(body, d + IF IsAt(body, <<"LF", "LF">>, d) THEN 2 ELSE 4)
                 ELSE AfterFirst(body, h, Delimiter,
                                 d + IF IsAt(body, <<"LF", "LF">>, d) THEN 2 ELSE 4)
          BY <1>1, <2>4, <3>3, <4>1, <5>1, HeaderResult
        <5> QED BY <2>1, <2>3, <5>2
      <4>3. Reference(body, h) = IF NamesFile(block) THEN FileAt(body, Base + n + 1)
                                 ELSE AfterFirst(body, h, Delimiter, Base + n + 1)
        BY <3>1, <4>1, <4>2
      <4>4. (Base + n + 1) - 0 = Base + n + 1
        BY <1>1, <3>1
      <4> QED BY <3>2, <4>3, <4>4 DEF StandsAt
    <3>4. \A h \in {MaxHeader, MaxHeader - 3} :
             Stands(h) => \/ StandsAt(body, h, state', Base + n + 1, 0)
                          \/ h = MaxHeader - 3 /\ Refuses
      <4>1. Stands(MaxHeader) => StandsAt(body, MaxHeader, state', Base + n + 1, 0)
        BY <2>4, <2>6, <3>3
      <4>2. Stands(low) => StandsAt(body, low, state', Base + n + 1, 0) \/ Refuses
        BY <1>3, <3>3 DEF d, Refuses
      <4> QED BY <4>1, <4>2
    <3> QED BY <1>0, <3>1, <3>2, <3>4, Onward
  <2>7. Len(block) <= MaxHeader \/ Len(block) > MaxHeader
    BY <1>1, <2>1, <2>3
  <2> QED BY <1>6, <2>5, <2>6, <2>7
<1>7. CASE \A e \in HeaderEnds : Find(buf, e) = 0
  BY <1>4, <1>5, <1>7 DEF ReadHeaders
<1>8. CASE ~(\A e \in HeaderEnds : Find(buf, e) = 0)
  <2>1. PICK e \in HeaderEnds :
             /\ Find(buf, e) > 0
             /\ \A o \in HeaderEnds : Find(buf, o) = 0 \/ Find(buf, e) <= Find(buf, o)
             /\ LET block == SubSeq(buf, 1, Find(buf, e) - 1)
                IN  IF Len(block) > MaxHeader THEN Raise("malformed")
                    ELSE Advance(IF NamesFile(block) THEN "file" ELSE "skip",
                                 Len(block) + Len(e))
    BY <1>8 DEF ReadHeaders
  <2> QED BY <1>6, <2>1
<1> QED BY <1>7, <1>8


(* What is refused has an empty file. *)
LEMMA ErrorType ==
  ASSUME NEW e PROVE Error(e).file \in Seq(Bytes) /\ Error(e).outcome = e
<1>1. <<>> \in Seq(Bytes)
  OBVIOUS
<1>2. Error(e).file = <<>> /\ Error(e).outcome = e
  BY Zenon DEF Error
<1> QED BY <1>1, <1>2

(* The file of a reference is a sequence of bytes: of one part, of the     *)
(* parse (by the last part of which it would not be), of the body.         *)
LEMMA FileType ==
  ASSUME NEW b \in Seq(Bytes), NEW c \in Nat \ {0}
  PROVE  FileAt(b, c).file \in Seq(Bytes)
<1>1. CASE First(b, {Delimiter}, c) = 0
  BY <1>1, FileUnended, ErrorType
<1>2. CASE First(b, {Delimiter}, c) # 0
  <2> DEFINE d == First(b, {Delimiter}, c)
  <2>1. d \in c..Len(b) /\ Len(b) \in c..Len(b)
    BY <1>2, FirstIs
  <2> HIDE DEF d
  <2>2. SubSeq(b, c, End(b, c, d)) \in Seq(Bytes)
    BY <2>1, BeforeIs
  <2>3. FileAt(b, c) = IF End(b, c, d) - c + 1 > MaxBytes THEN Error("oversized")
           ELSE [outcome |-> IF SubSeq(b, c, End(b, c, d)) = <<>> THEN "empty" ELSE "done",
                 file |-> SubSeq(b, c, End(b, c, d))]
    BY <2>1, FileEnded DEF d
  <2> DEFINE f == SubSeq(b, c, End(b, c, d))
             o == IF f = <<>> THEN "empty" ELSE "done"
  <2>4. [outcome |-> o, file |-> f].file = f
    BY Zenon
  <2>5. FileAt(b, c) = Error("oversized") \/ FileAt(b, c) = [outcome |-> o, file |-> f]
    BY <2>3, Zenon
  <2>6. f \in Seq(Bytes)
    BY <2>2
  <2> HIDE DEF f, o
  <2> QED BY <2>4, <2>5, <2>6, ErrorType
<1> QED BY <1>1, <1>2

LEMMA ParseType ==
  ASSUME NEW b \in Seq(Bytes), NEW h, NEW i \in 1..(Len(b) + 1)
  PROVE  Parse(b, h)[i].file \in Seq(Bytes)
<1> DEFINE N == Len(b) + 1
           P == Parse(b, h)
           I == {k \in 0..N : N - k \in 1..N /\ P[N - k].file \notin Seq(Bytes)}
<1>0. N \in Nat
  OBVIOUS
<1> SUFFICES ASSUME I # {} PROVE FALSE
  <2>1. N - i \in 0..N /\ N - (N - i) = i
    OBVIOUS
  <2> QED BY <2>1
<1>1. PICK k \in I : \A l \in I : k <= l
  <2>1. I \subseteq Nat
    OBVIOUS
  <2> HIDE DEF I
  <2> QED BY <2>1, FirstPosition
<1> DEFINE j == N - k
<1>2. j \in 1..N /\ P[j].file \notin Seq(Bytes) /\ k \in Nat
  BY <1>1
<1>3. P[j] = IF Skips(b, h, j) THEN P[Resume(b, j)] ELSE Answer(b, h, j)
  BY <1>2, ParseStep
<1>4. CASE Skips(b, h, j)
  <2> DEFINE r == Resume(b, j)
  <2>1. r \in (j + 1)..N
    BY <1>2, <1>4, Resuming
  <2> HIDE DEF r, P, N
  <2>2. N - r \in 0..N /\ N - (N - r) = r /\ r \in 1..N /\ N - r < k
    BY <1>0, <1>2, <2>1
  <2>3. P[r].file \notin Seq(Bytes)
    BY <1>2, <1>3, <1>4 DEF r
  <2>4. N - r \in I
    BY <2>2, <2>3
  <2>5. k <= N - r
    <3> HIDE DEF I
    <3> QED BY <1>1, <2>4
  <2> HIDE DEF I, j
  <2> QED BY <1>0, <1>2, <2>1, <2>2, <2>5
<1>5. CASE ~Skips(b, h, j)
  <2>1. Answer(b, h, j).file \in Seq(Bytes)
    <3>1. CASE Readable(b, h, j) /\ IsFile(b, j)
      <4>1. ~IsAt(b, <<"D", "D">>, j)
        BY <1>2, <3>1, Bytewise DEF Readable, EndsLine
      <4>2. ContentAt(b, j) \in Nat \ {0}
        BY <1>2, <3>1, Forward
      <4>3. Answer(b, h, j) = FileAt(b, ContentAt(b, j))
        BY <3>1, <4>1 DEF Answer
      <4> QED BY <4>2, <4>3, FileType
    <3>2. CASE ~(Readable(b, h, j) /\ IsFile(b, j))
      <4>1. Answer(b, h, j) = Error("missing") \/ Answer(b, h, j) = Error("malformed")
        BY <3>2 DEF Answer
      <4> QED BY <4>1, ErrorType
    <3> QED BY <3>1, <3>2
  <2> QED BY <1>2, <1>3, <1>5, <2>1
<1> QED BY <1>4, <1>5

LEMMA ReferenceType ==
  ASSUME NEW b \in Seq(Bytes), NEW h
  PROVE  Reference(b, h).file \in Seq(Bytes)
<1> DEFINE m == First(b, {Marker}, 1)
<1>1. 1 \in Nat \ {0}
  OBVIOUS
<1>2. CASE m = 0
  BY <1>2, ErrorType DEF Reference
<1>3. CASE m # 0
  <2>1. m \in 1..Len(b) /\ IsAt(b, Marker, m)
    BY <1>1, <1>3, FirstIs
  <2> HIDE DEF m
  <2>2. m + Len(Marker) \in 1..(Len(b) + 1)
    BY <2>1, Patterns DEF IsAt
  <2> QED BY <1>3, <2>2, ParseType DEF Reference, m
<1> QED BY <1>2, <1>3

(* The file part: what is appended is the file, or a beginning of it. *)
LEMMA FollowFile == Keeps /\ Follows /\ ReadFile => Follows'
<1> SUFFICES ASSUME Keeps, Follows, ReadFile PROVE Follows'
  OBVIOUS
<1> DEFINE k == Base + 1
           c == (Base + 1) - Len(sink)
           i == Find(buf, Delimiter)
           n == IF i > 0 THEN Len(Before(buf, i)) ELSE Len(buf) - Len(Delimiter)
<1>0. /\ Open /\ Window /\ state = "file" /\ UNCHANGED <<body, fed>> /\ outcome = "open"
      /\ Filling /\ Stands(MaxHeader) /\ (Stands(MaxHeader - 3) \/ Refuses)
  BY DEF Follows, Open, ReadFile, Stepping
<1>1. /\ k \in Nat \ {0} /\ body \in Seq(Bytes) /\ Base \in Nat /\ fed \in Nat
      /\ Len(buf) = fed - Base /\ Len(body) \in Nat /\ fed <= Len(body) /\ Base <= fed
      /\ k = Base + 1 /\ sink \in Seq(Bytes)
      /\ Len(sink) \in Nat /\ Len(buf) \in Nat /\ MaxBytes \in Nat /\ buf \in Seq(Bytes)
  BY Places, Patterns
<1>2. /\ Len(Delimiter) \in Nat /\ Len(Delimiter) > 0 /\ Delimiter \in Seq(Bytes)
  BY Patterns
<1>3. /\ Len(sink) <= Base /\ (sink = <<>> \/ \A j \in c..k : ~IsAt(body, Delimiter, j))
      /\ sink = SubSeq(body, c, Base)
  <2>1. c = Base + 1 - Len(sink)
    BY <1>1
  <2> QED BY <1>0, <2>1 DEF Filling
<1>4. /\ c \in Nat \ {0} /\ c <= k /\ c + Len(sink) = k
  BY <1>1, <1>3
<1>5. ASSUME NEW h, Stands(h) PROVE Reference(body, h) = FileAt(body, c)
  BY <1>0, <1>5 DEF Stands, StandsAt
<1>6. sink = <<>> => c = k
  BY <1>1
<1>7. buf = SubSeq(body, k, fed)
  BY <1>0 DEF Window
<1>8. \/ n > MaxBytes - Len(sink) /\ Raise("oversized") /\ UNCHANGED sink
      \/ /\ n <= MaxBytes - Len(sink) /\ sink' = sink \o SubSeq(buf, 1, n)
         /\ IF i > 0 THEN Raise(IF sink' = <<>> THEN "empty" ELSE "done")
                     ELSE Starve /\ buf' = IF n > 0 THEN Drop(buf, n) ELSE buf
  BY DEF ReadFile
<1> HIDE DEF k, c
<1>9. ASSUME FileAt(body, c) = Error("oversized"), Raise("oversized"), UNCHANGED sink
      PROVE  Follows'
  <2>1. Reference(body, MaxHeader).outcome = "oversized"
    BY <1>0, <1>5, <1>9 DEF Error
  <2> QED BY <1>0, <1>9, <2>1, Refusing DEF Raise
<1>10. CASE i > 0
  <2> DEFINE d == Base + i
             e == End(body, c, d)
             f == SubSeq(body, c, e)
  <2>1. /\ i \in 1..Len(buf) /\ d \in k..Len(body) /\ IsAt(body, Delimiter, d)
        /\ First(body, {Delimiter}, k) = d /\ d <= fed
    <3>1. Find(buf, Delimiter) # 0
      BY <1>10
    <3>2. /\ i \in 1..Len(buf) /\ d \in (Base + 1)..Len(body) /\ IsAt(body, Delimiter, d)
          /\ First(body, {Delimiter}, Base + 1) = d
      BY <1>0, <1>2, <3>1, Found
    <3>3. d <= fed
      BY <1>1, <3>2
    <3> QED BY <3>2, <3>3 DEF k
  <2> HIDE DEF d
  <2>2. First(body, {Delimiter}, c) = d
    <3>1. \A j \in c..(k - 1) : j <= Len(body) => \A p \in {Delimiter} : ~IsAt(body, p, j)
      <4>1. \A j \in c..(k - 1) : j \in c..k /\ c # k
        BY <1>1, <1>4
      <4> QED BY <1>3, <1>6, <4>1
    <3> QED BY <1>1, <1>4, <2>1, <3>1, FirstFurther
  <2>3. End(body, k, d) = e
    <3>1. CASE d > k
      BY <1>1, <1>4, <2>1, <3>1 DEF End
    <3>2. CASE ~(d > k)
      <4>1. d = k
        BY <1>1, <2>1, <3>2
      <4>2. c = k
        BY <1>3, <1>4, <1>6, <2>1, <4>1
      <4> QED BY <4>2
    <3> QED BY <3>1, <3>2
  <2>4. /\ e \in (c - 1)..(d - 1) /\ f \in Seq(Bytes) /\ Len(f) = e - c + 1
    <3>1. d \in c..Len(body) /\ Len(body) \in c..Len(body)
      BY <1>1, <1>4, <2>1
    <3> QED BY <1>1, <1>4, <3>1, BeforeIs
  <2>5. n = e - k + 1 /\ e \in (k - 1)..(d - 1) /\ n \in 0..(fed - k + 1)
    <3>1. d \in k..fed /\ fed \in k..Len(body) /\ d - k + 1 = i
      BY <1>1, <2>1 DEF d
    <3>2. /\ Before(buf, i) = SubSeq(body, k, End(body, k, d))
          /\ End(body, k, d) \in (k - 1)..(d - 1)
          /\ Len(SubSeq(body, k, End(body, k, d))) = End(body, k, d) - k + 1
      <4>1. /\ Before(SubSeq(body, k, fed), d - k + 1) = SubSeq(body, k, End(body, k, d))
            /\ End(body, k, d) \in (k - 1)..(d - 1)
            /\ Len(SubSeq(body, k, End(body, k, d))) = End(body, k, d) - k + 1
        <5>1. /\ body \in Seq(Bytes) /\ k \in Nat \ {0} /\ fed \in k..Len(body) /\ d \in k..fed
          BY <1>1, <3>1
        <5> HIDE DEF i, n, e, f
        <5> QED BY <5>1, BeforeIs
      <4> HIDE DEF i
      <4> QED BY <1>7, <3>1, <4>1
    <3>3. n = Len(Before(buf, i))
      BY <1>10
    <3> HIDE DEF n, e, i
    <3> QED BY <1>1, <2>3, <3>1, <3>2, <3>3
  <2>6. FileAt(body, c) = IF e - c + 1 > MaxBytes THEN Error("oversized")
                          ELSE [outcome |-> IF f = <<>> THEN "empty" ELSE "done", file |-> f]
    <3>1. d \in c..Len(body)
      BY <1>1, <1>4, <2>1
    <3> QED BY <1>1, <1>4, <2>2, <3>1, FileEnded
  <2> HIDE DEF n, e, i
  <2>7. e - c + 1 = n + Len(sink) /\ n \in Nat
    BY <1>1, <1>4, <2>4, <2>5
  <2>8. CASE n > MaxBytes - Len(sink) /\ Raise("oversized") /\ UNCHANGED sink
    <3>1. e - c + 1 > MaxBytes
      BY <1>1, <2>7, <2>8
    <3> QED BY <1>9, <2>6, <2>8, <3>1
  <2>9. CASE /\ n <= MaxBytes - Len(sink) /\ sink' = sink \o SubSeq(buf, 1, n)
             /\ Raise(IF sink' = <<>> THEN "empty" ELSE "done")
    <3>1. SubSeq(buf, 1, n) = SubSeq(body, k, e)
      <4>1. fed \in (k - 1)..Len(body) /\ k + n - 1 = e
        BY <1>1, <2>4, <2>5
      <4> QED BY <1>1, <1>7, <2>5, <4>1, Beginning
    <3>2. sink' = f
      <4> DEFINE lo == c - 1
      <4>1. lo \in Nat /\ Base \in lo..Len(body) /\ e \in Base..Len(body) /\ c = lo + 1
        BY <1>1, <1>4, <2>1, <2>4, <2>5
      <4> HIDE DEF lo
      <4>2. SubSeq(body, lo + 1, Base) \o SubSeq(body, Base + 1, e) = SubSeq(body, lo + 1, e)
        BY <1>1, <4>1, Joined
      <4> QED BY <1>1, <1>3, <2>9, <3>1, <4>1, <4>2
    <3>3. ~(e - c + 1 > MaxBytes)
      BY <1>1, <2>7, <2>9
    <3> HIDE DEF f
    <3>4. Reference(body, MaxHeader)
            = [outcome |-> IF f = <<>> THEN "empty" ELSE "done", file |-> f]
      BY <1>0, <1>5, <2>6, <3>3
    <3>5. outcome' = (IF f = <<>> THEN "empty" ELSE "done")
      BY <2>9, <3>2 DEF Raise
    <3>6. ChunksDoNotShow'
      BY <1>0, <3>2, <3>4, <3>5 DEF ChunksDoNotShow
    <3>7. IsAt(f, f, 1)
      BY <2>4 DEF IsAt
    <3>8. SinkHoldsTheFile'
      BY <1>0, <3>2, <3>4, <3>7 DEF SinkHoldsTheFile
    <3> QED BY <3>5, <3>6, <3>8 DEF Follows
  <2> QED BY <1>8, <1>10, <2>8, <2>9 DEF i
<1>11. CASE ~(i > 0)
  <2>0. n = Len(buf) - Len(Delimiter)
    BY <1>11
  <2>1. NoneIn(body, Delimiter, k, fed)
    <3>1. Find(buf, Delimiter) = 0
      BY <1>1, <1>11, Finding
    <3> QED BY <1>0, <1>2, <3>1, NotFound DEF k
  <2> HIDE DEF n, i
  <2>2. NoneIn(body, Delimiter, c, fed)
    <3> SUFFICES ASSUME NEW j \in c..Len(body), IsAt(body, Delimiter, j), j \notin k..Len(body)
                 PROVE  FALSE
      BY <2>1 DEF NoneIn
    <3>1. j \in c..k /\ c # k
      BY <1>1, <1>4
    <3> QED BY <1>3, <1>6, <3>1
  <2>3. n \in Int /\ fed - Len(Delimiter) - c + 1 = n + Len(sink)
    <3>1. n = fed - Base - Len(Delimiter) /\ n \in Int
      BY <1>1, <1>2, <2>0
    <3>2. Len(sink) = Base + 1 - c
      BY <1>1, <1>4
    <3> QED BY <1>1, <1>2, <1>4, <3>1, <3>2
  <2>4. CASE n > MaxBytes - Len(sink) /\ Raise("oversized") /\ UNCHANGED sink
    <3>1. fed - Len(Delimiter) - c + 1 > MaxBytes
      BY <1>1, <2>3, <2>4
    <3>2. fed \in 0..Len(body)
      BY <1>1
    <3>3. FileAt(body, c) = Error("oversized")
      BY <1>1, <1>4, <2>2, <3>1, <3>2, TooLarge
    <3> QED BY <1>9, <2>4, <3>3
  <2>5. CASE /\ sink' = sink \o SubSeq(buf, 1, n) /\ Starve
             /\ buf' = IF n > 0 THEN Drop(buf, n) ELSE buf
    <3> DEFINE m == IF n > 0 THEN n ELSE 0
    <3>1. m \in 0..Len(buf) /\ buf' = Drop(buf, m) /\ fed - Base - m <= Len(Delimiter)
      <4>1. CASE n > 0
        BY <1>1, <1>2, <2>0, <2>3, <2>5, <4>1
      <4>2. CASE ~(n > 0)
        <5>1. buf = Drop(buf, 0)
          BY <1>1 DEF Drop
        <5> QED BY <1>1, <1>2, <2>0, <2>3, <2>5, <4>2, <5>1
      <4> QED BY <4>1, <4>2
    <3>2. m > 0 => m = fed - Base - Len(Delimiter)
      BY <1>1, <2>0
    <3>3. sink' = sink \o SubSeq(buf, 1, m)
      <4>1. CASE n > 0
        BY <2>5, <4>1
      <4>2. CASE ~(n > 0)
        <5>1. SubSeq(buf, 1, n) = <<>> /\ SubSeq(buf, 1, 0) = <<>>
          BY <1>1, <2>3, <4>2
        <5> QED BY <2>5, <4>2, <5>1
      <4> QED BY <4>1, <4>2
    <3> HIDE DEF m
    <3>4. m \in Nat /\ Base + m <= fed
      BY <1>1, <3>1
    <3>5. Base' = Base + m /\ Len(buf') = Len(buf) - m
      BY <1>0, <3>1, Shifted
    <3>6. sink' = SubSeq(body, c, Base + m)
      <4> DEFINE lo == c - 1
      <4>1. lo \in Nat /\ Base \in lo..Len(body) /\ Base + m \in Base..Len(body) /\ c = lo + 1
        BY <1>1, <1>4, <3>4
      <4> HIDE DEF lo
      <4>2. SubSeq(body, lo + 1, Base) \o SubSeq(body, Base + 1, Base + m)
              = SubSeq(body, lo + 1, Base + m)
        BY <1>1, <4>1, Joined
      <4>3. SubSeq(buf, 1, m) = SubSeq(body, k, k + m - 1)
        <5>1. fed \in (k - 1)..Len(body) /\ m \in 0..(fed - k + 1)
          BY <1>1, <3>4
        <5> QED BY <1>1, <1>7, <5>1, Beginning
      <4>4. k + m - 1 = Base + m
        BY <1>1, <3>4
      <4> QED BY <1>1, <1>3, <3>3, <4>1, <4>2, <4>3, <4>4
    <3>7. Len(sink') = Len(sink) + m /\ (Base' + 1) - Len(sink') = c /\ Len(sink') <= Base'
      <4>1. Len(sink') = Len(sink) + m
        BY <1>1, <3>1, <3>3
      <4> QED BY <1>1, <1>3, <1>4, <3>4, <3>5, <4>1
    <3>8. sink' = <<>> \/ \A j \in c..(Base' + 1) : ~IsAt(body, Delimiter, j)
      <4>1. CASE m = 0
        <5>1. sink' = sink /\ Base' + 1 = k
          <6>1. SubSeq(buf, 1, 0) = <<>>
            BY <1>1
          <6> QED BY <1>1, <3>3, <3>5, <4>1, <6>1
        <5> QED BY <1>3, <5>1
      <4>2. CASE m # 0
        <5> SUFFICES ASSUME NEW j \in c..(Base' + 1), IsAt(body, Delimiter, j) PROVE FALSE
          OBVIOUS
        <5>1. j \in Int /\ c <= j /\ j <= fed - Len(Delimiter) + 1
          BY <1>1, <1>2, <1>4, <3>2, <3>4, <3>5, <4>2
        <5>2. j + Len(Delimiter) - 1 <= fed /\ j \in c..Len(body)
          BY <1>1, <1>2, <1>4, <5>1
        <5>3. j + Len(Delimiter) - 1 > fed
          BY <2>2, <5>2 DEF NoneIn
        <5> QED BY <1>1, <1>2, <5>1, <5>2, <5>3
      <4> QED BY <4>1, <4>2
    <3>9. state' = "file" /\ outcome' = "open"
      BY <1>0, <2>5 DEF Starve
    <3>10. Window'
      <4>1. Base \in Nat /\ fed \in Base..Len(body) /\ m \in 0..(fed - Base) /\ body \in Seq(Bytes)
        BY <1>1, <3>1
      <4>2. Drop(SubSeq(body, Base + 1, fed), m) = SubSeq(body, Base + m + 1, fed)
        BY <4>1, Dropped
      <4> QED BY <1>0, <3>1, <3>5, <4>2 DEF Window
    <3>11. Filling'
      <4>1. Base' + 1 - Len(sink') = c
        BY <1>1, <3>4, <3>5, <3>7
      <4>2. sink' = SubSeq(body', Base' + 1 - Len(sink'), Base')
        BY <1>0, <3>5, <3>6, <4>1
      <4>3. \/ sink' = <<>>
            \/ \A j \in (Base' + 1 - Len(sink'))..(Base' + 1) : ~IsAt(body', Delimiter, j)
        BY <1>0, <3>8, <4>1
      <4> QED BY <3>7, <3>9, <4>2, <4>3 DEF Filling
    <3>12. ASSUME NEW h, Stands(h) PROVE Stands(h)'
      BY <1>0, <1>5, <3>7, <3>9, <3>12 DEF Stands, StandsAt
    <3>13. Stands(MaxHeader)' /\ (Stands(MaxHeader - 3) \/ Refuses)'
      BY <1>0, <3>12 DEF Refuses
    <3>14. Quiet'
      <4>1. Base \in Int /\ k \in Int /\ Base' + 1 \in Int /\ k <= Base' + 1
        BY <1>1, <3>4, <3>5
      <4>2. NoneIn(body, Delimiter, Base' + 1, fed)
        BY <1>1, <2>1, <4>1, NoneFurther
      <4>3. Len(buf') <= Len(Delimiter)
        BY <1>1, <3>1, <3>5
      <4> QED BY <1>0, <3>9, <4>2, <4>3 DEF Quiet
    <3>15. Open'
      BY <3>10, <3>11, <3>13, <3>14 DEF Open
    <3>16. SinkHoldsTheFile'
      <4> SUFFICES ASSUME Reference(body, MaxHeader).outcome = "done"
                   PROVE  IsAt(Reference(body, MaxHeader).file, sink', 1)
        BY <1>0 DEF SinkHoldsTheFile
      <4>1. Reference(body, MaxHeader) = FileAt(body, c)
        BY <1>0, <1>5
      <4>2. Base + m \in (c - 1)..Len(body)
        BY <1>1, <1>4, <3>4
      <4>3. Base + m = c - 1 \/ \A j \in c..((Base + m) + 1) : ~IsAt(body, Delimiter, j)
        <5>1. sink' = <<>> => Base + m = c - 1
          BY <1>1, <3>4, <3>5, <3>7
        <5> QED BY <3>5, <3>8, <5>1
      <4> QED BY <1>1, <1>4, <3>6, <4>1, <4>2, <4>3, BeginsTheFile
    <3> QED BY <3>9, <3>15, <3>16 DEF Follows, ChunksDoNotShow
  <2> QED BY <1>8, <1>11, <2>4, <2>5 DEF i
<1> QED BY <1>10, <1>11

(* At the start the reference is all ahead. *)
LEMMA FollowInitially == Init => Follows
<1> SUFFICES ASSUME Init PROVE Follows
  OBVIOUS
<1>0. Keeps
  BY Initially
<1>1. /\ body \in Seq(Bytes) /\ fed = 0 /\ buf = <<>> /\ state = "preamble" /\ sink = <<>>
      /\ outcome = "open" /\ Len(body) \in Nat
  BY <1>0, Places DEF Init
<1>2. Base = 0 /\ Len(<<>>) = 0
  <2>1. Len(<<>>) = 0 /\ 0 - 0 = 0
    OBVIOUS
  <2>2. Base = 0 - Len(<<>>)
    BY <1>1 DEF Base
  <2> QED BY <2>1, <2>2
<1>3. Window /\ Filling
  BY <1>1, <1>2 DEF Window, Filling
<1>4. \A h : Stands(h)
  <2>1. \A h : Reference(body, h) = AfterFirst(body, h, Marker, 1)
    BY DEF Reference, AfterFirst
  <2> QED BY <1>1, <1>2, <2>1 DEF Stands, StandsAt
<1>5. Quiet
  <2>1. NoneIn(body, Marker, 1, 0)
    BY <1>1, Patterns DEF NoneIn
  <2> QED BY <1>1, <1>2, <2>1 DEF Quiet
<1>6. ChunksDoNotShow
  BY <1>1 DEF ChunksDoNotShow
<1>7. SinkHoldsTheFile
  <2> DEFINE f == Reference(body, MaxHeader).file
  <2> SUFFICES ASSUME TRUE PROVE IsAt(f, <<>>, 1)
    BY <1>1 DEF SinkHoldsTheFile
  <2>1. f \in Seq(Bytes)
    BY <1>1, ReferenceType
  <2> HIDE DEF f
  <2> QED BY <1>2, <2>1 DEF IsAt
<1> QED BY <1>3, <1>4, <1>5, <1>6, <1>7 DEF Follows, Open

(* Every behaviour keeps the reader where the reference stands. *)
THEOREM Following == Spec => []Follows
<1>1. Keeps /\ Follows /\ [Next]_vars => Follows'
  <2> SUFFICES ASSUME Keeps, Follows, [Next]_vars PROVE Follows'
    OBVIOUS
  <2>1. CASE Over \/ UNCHANGED vars
    BY <2>1 DEF Over, vars, Follows, Open, Window, Filling, Stands, Refuses, Quiet, Base,
                ChunksDoNotShow, SinkHoldsTheFile
  <2> QED BY <2>1, FollowFeed, FollowFinish, FollowSeek, FollowEnd, FollowHeaders, FollowFile,
             FollowSkip DEF Next
<1> QED BY <1>1, FollowInitially, Invariance, PTL DEF Spec

(* How the body was cut into chunks does not show in the file or the error *)
(* (feed and _step, whose buffer is pruned, cut and compared with the cap  *)
(* in every state).                                                        *)
THEOREM Uncut == Spec => []ChunksDoNotShow
  BY Following, PTL DEF Follows

(* At every instant the sink holds a beginning of the file, if there is    *)
(* one (what _append was given is never taken back).                       *)
THEOREM Prefix == Spec => []SinkHoldsTheFile
  BY Following, PTL DEF Follows
=============================================================================
