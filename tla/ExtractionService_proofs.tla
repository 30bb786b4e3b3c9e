----------------------- MODULE ExtractionService_proofs -----------------------
(***************************************************************************)
(* What ExtractionService.extract delivers, for every environment, every   *)
(* document and every alphabet: within the limits, with every letter, no   *)
(* stray blank, and headings where the sizes say so.                       *)
(*                                                                         *)
(* FlattenSeq, FoldLeft and MapThenSumSet of the community modules are     *)
(* unfolded first; then the lemmas go up from a character to a span, a     *)
(* line, a page, the document and its normalised text.                     *)
(***************************************************************************)
EXTENDS ExtractionService, SequenceTheorems, FiniteSetTheorems, WellFoundedInduction, TLAPS

-----------------------------------------------------------------------------
(* A set of naturals has a least element. *)
LEMMA Least ==
  ASSUME NEW I, I \subseteq Nat, I # {}
  PROVE  \E i \in I : \A j \in I : i <= j
<1>1. PICK i \in I : \A j \in I : ~(<<j, i>> \in OpToRel(<, Nat))
  BY NatLessThanWellFounded, WFMin
<1>2. ASSUME NEW j \in I PROVE i <= j
  <2>1. ~(j < i)
    BY <1>1 DEF OpToRel
  <2> QED BY <2>1
<1> QED BY <1>2

(* What holds of 0 and passes from each number to the next holds up to n. *)
LEMMA Induction ==
  ASSUME NEW n \in Nat, NEW K, 0 \in K, \A k \in 0..n : k \in K /\ k < n => k + 1 \in K
  PROVE  0..n \subseteq K
<1> DEFINE I == (0..n) \ K
<1> SUFFICES ASSUME I # {} PROVE FALSE
  OBVIOUS
<1>1. I \subseteq Nat
  OBVIOUS
<1>2. PICK i \in I : \A j \in I : i <= j
  <2> HIDE DEF I
  <2> QED BY <1>1, Least
<1>3. i \in 0..n /\ i # 0 /\ i - 1 \in 0..n /\ ~(i <= i - 1)
  OBVIOUS
<1>4. i - 1 \in K
  BY <1>2, <1>3
<1> QED BY <1>3, <1>4

(* What holds of the empty sequence and survives appending holds of every  *)
(* sequence.  Induction is stated with sets, which the provers can         *)
(* instantiate.                                                            *)
LEMMA Appending ==
  ASSUME NEW S, NEW P, <<>> \in P, \A s \in Seq(S), x \in S : s \in P => Append(s, x) \in P
  PROVE  Seq(S) \subseteq P
<1> SUFFICES ASSUME NEW t \in Seq(S) PROVE t \in P
  OBVIOUS
<1> DEFINE K == {k \in Nat : \A s \in Seq(S) : Len(s) = k => s \in P}
<1>1. 0 \in K
  BY EmptySeq
<1>2. ASSUME NEW k \in Nat, k \in K PROVE k + 1 \in K
  <2> SUFFICES ASSUME NEW s \in Seq(S), Len(s) = k + 1 PROVE s \in P
    OBVIOUS
  <2>1. s # <<>>
    OBVIOUS
  <2>2. PICK u \in Seq(S), x \in S : s = Append(u, x)
    BY <2>1, SequenceEmptyOrAppend
  <2>3. Len(u) = k
    BY <2>2, AppendProperties
  <2> QED BY <1>2, <2>2, <2>3
<1> DEFINE n == Len(t)
<1>3. n \in Nat /\ \A k \in 0..n : k \in Nat
  OBVIOUS
<1>4. 0..n \subseteq K
  <2> HIDE DEF K, n
  <2> QED BY <1>1, <1>2, <1>3, Induction
<1>5. n \in 0..n
  BY <1>3
<1> QED BY <1>4, <1>5

(* FlattenSeq recurs on the length of what it flattens. *)
Joins(f, q, n) == f = [i \in 1..n |-> IF i = 1 THEN q[i] ELSE f[i - 1] \o q[i]]

(* The recursive function that joins one sequence after the other exists. *)
LEMMA JoinsExists == ASSUME NEW q, NEW n \in Nat PROVE \E f : Joins(f, q, n)
<1> DEFINE K == {k \in Nat : \E f : Joins(f, q, k)}
<1>1. 0 \in K
  <2>1. Joins([i \in 1..0 |-> 0], q, 0)
    <3>1. 1..0 = {}
      OBVIOUS
    <3> QED BY <3>1, Zenon DEF Joins
  <2> QED BY <2>1
<1>2. ASSUME NEW k \in Nat, k \in K PROVE k + 1 \in K
  <2>1. PICK f : Joins(f, q, k)
    BY <1>2
  <2> DEFINE v == IF k = 0 THEN q[1] ELSE f[k] \o q[k + 1]
             g == [i \in 1..(k + 1) |-> IF i = k + 1 THEN v ELSE f[i]]
  <2>2. ASSUME NEW i \in 1..(k + 1)
        PROVE  (IF i = k + 1 THEN v ELSE f[i]) = IF i = 1 THEN q[i] ELSE g[i - 1] \o q[i]
    <3>1. CASE i = k + 1
      <4>1. i # 1 => k # 0 /\ g[k] = f[k] /\ i - 1 = k
        BY <3>1
      <4> QED BY <3>1, <4>1
    <3>2. CASE i # k + 1
      <4>0. i \in 1..k
        BY <3>2
      <4>1. f[i] = IF i = 1 THEN q[i] ELSE f[i - 1] \o q[i]
        BY <2>1, <4>0 DEF Joins
      <4>2. i # 1 => g[i - 1] = f[i - 1]
        BY <3>2
      <4> QED BY <3>2, <4>0, <4>1, <4>2
    <3> QED BY <3>1, <3>2
  <2>3. g = [i \in 1..(k + 1) |-> IF i = 1 THEN q[i] ELSE g[i - 1] \o q[i]]
    <3> HIDE DEF v
    <3> QED BY <2>2, Zenon
  <2>4. Joins(g, q, k + 1)
    <3> HIDE DEF g
    <3> QED BY <2>3 DEF Joins
  <2> QED BY <2>4
<1>3. \A k \in 0..n : k \in Nat
  OBVIOUS
<1>4. 0..n \subseteq K
  <2> HIDE DEF K
  <2> QED BY <1>1, <1>2, <1>3, Induction
<1> QED BY <1>4

(* FlattenSeq is that function. *)
LEMMA FlattenJoins ==
  ASSUME NEW S, NEW q \in Seq(Seq(S)), q # <<>>
  PROVE  \E f : Joins(f, q, Len(q)) /\ FlattenSeq(q) = f[Len(q)]
<1> DEFINE f == CHOOSE f : Joins(f, q, Len(q))
<1>1. Joins(f, q, Len(q))
  BY JoinsExists, LenProperties
<1>2. FlattenSeq(q) = f[Len(q)]
  BY EmptySeq DEF FlattenSeq, Joins
<1> QED BY <1>1, <1>2

(* Flattening nothing leaves nothing. *)
LEMMA FlattenEmpty == FlattenSeq(<<>>) = <<>>
BY EmptySeq DEF FlattenSeq

(* Flattened, sequences over S are one sequence over S. *)
LEMMA FlattenType == ASSUME NEW S, NEW q \in Seq(Seq(S)) PROVE FlattenSeq(q) \in Seq(S)
<1>1. CASE q = <<>>
  BY <1>1, FlattenEmpty, EmptySeq
<1>2. CASE q # <<>>
  <2>1. PICK f : Joins(f, q, Len(q)) /\ FlattenSeq(q) = f[Len(q)]
    BY <1>2, FlattenJoins
  <2> DEFINE K == {k \in Nat : k \in 1..Len(q) => f[k] \in Seq(S)}
  <2>2. 0 \in K
    OBVIOUS
  <2>3. ASSUME NEW k \in 0..Len(q), k \in K, k < Len(q) PROVE k + 1 \in K
    <3>1. k + 1 \in 1..Len(q) /\ q[k + 1] \in Seq(S) /\ (k + 1) - 1 = k
      BY <2>3, ElementOfSeq
    <3>2. f[k + 1] = IF k + 1 = 1 THEN q[k + 1] ELSE f[k] \o q[k + 1]
      BY <2>1, <3>1 DEF Joins
    <3>3. k + 1 # 1 => k \in 1..Len(q)
      BY <2>3
    <3>4. f[k + 1] \in Seq(S)
      <4>1. k + 1 # 1 => f[k] \in Seq(S)
        BY <2>3, <3>3
      <4> HIDE DEF K
      <4> QED BY <3>1, <3>2, <4>1, ConcatProperties
    <3> QED BY <2>3, <3>4
  <2>4. Len(q) \in Nat /\ Len(q) # 0
    BY <1>2, EmptySeq
  <2>5. 0..Len(q) \subseteq K
    <3> HIDE DEF K
    <3> QED BY <2>2, <2>3, <2>4, Induction
  <2> QED BY <2>1, <2>4, <2>5
<1> QED BY <1>1, <1>2

(* One more sequence is flattened onto the end. *)
LEMMA FlattenAppend ==
  ASSUME NEW S, NEW q \in Seq(Seq(S)), NEW x \in Seq(S)
  PROVE  FlattenSeq(Append(q, x)) = FlattenSeq(q) \o x
<1> DEFINE r == Append(q, x)
           n == Len(q)
<1>0. r \in Seq(Seq(S)) /\ r # <<>> /\ Len(r) = n + 1 /\ r[n + 1] = x /\ n \in Nat
      /\ \A i \in 1..n : r[i] = q[i]
  BY AppendProperties
<1>1. PICK g : Joins(g, r, n + 1) /\ FlattenSeq(r) = g[n + 1]
  BY <1>0, FlattenJoins
<1>2. CASE q = <<>>
  <2>1. n = 0 /\ n + 1 = 1 /\ 1 \in 1..1
    BY <1>2
  <2>2. g[1] = r[1]
    <3> HIDE DEF r, n
    <3> QED BY <1>1, <2>1 DEF Joins
  <2> QED BY <1>0, <1>1, <1>2, <2>1, <2>2, FlattenEmpty, ConcatEmptySeq
<1>3. CASE q # <<>>
  <2>1. PICK f : Joins(f, q, n) /\ FlattenSeq(q) = f[n]
    BY <1>3, FlattenJoins
  <2> DEFINE K == {k \in Nat : k \in 1..n => f[k] = g[k]}
  <2>2. 0 \in K
    OBVIOUS
  <2>3. ASSUME NEW k \in 0..n, k \in K, k < n PROVE k + 1 \in K
    <3>1. k + 1 \in 1..n /\ k + 1 \in 1..(n + 1) /\ (k + 1) - 1 = k /\ (k + 1 # 1 => k \in 1..n)
      BY <1>0, <2>3
    <3>2. f[k + 1] = IF k + 1 = 1 THEN q[k + 1] ELSE f[k] \o q[k + 1]
      <4> HIDE DEF r, n
      <4> QED BY <2>1, <3>1 DEF Joins
    <3>3. g[k + 1] = IF k + 1 = 1 THEN r[k + 1] ELSE g[k] \o r[k + 1]
      <4> HIDE DEF r, n
      <4> QED BY <1>1, <3>1 DEF Joins
    <3> HIDE DEF r, n
    <3> QED BY <1>0, <2>3, <3>1, <3>2, <3>3
  <2>4. n \in 1..n
    <3>1. n # 0
      BY <1>3, EmptySeq
    <3> QED BY <1>0, <3>1
  <2>5. 0..n \subseteq K
    <3> HIDE DEF K, n
    <3> QED BY <1>0, <2>2, <2>3, Induction
  <2>6. g[n] = f[n]
    <3> HIDE DEF n
    <3> QED BY <1>0, <2>4, <2>5
  <2>7. g[n + 1] = g[n] \o r[n + 1]
    <3> HIDE DEF r, n
    <3>1. n + 1 \in 1..(n + 1) /\ n + 1 # 1 /\ (n + 1) - 1 = n
      BY <1>0, <2>4
    <3> QED BY <1>1, <3>1 DEF Joins
  <2> QED BY <1>0, <1>1, <2>1, <2>6, <2>7
<1> QED BY <1>2, <1>3

-----------------------------------------------------------------------------
(* A non-empty bounded set of numbers has a largest. *)
LEMMA Largest ==
  ASSUME NEW n \in Nat, NEW I, I \subseteq 0..n, I # {}
  PROVE  Max(I) \in I /\ \A j \in I : Max(I) >= j
<1> DEFINE J == {n - i : i \in I}
<1>1. J \subseteq Nat /\ J # {}
  <2>1. \A i \in I : i \in 0..n /\ n - i \in Nat
    OBVIOUS
  <2> QED BY <2>1
<1>2. PICK j \in J : \A k \in J : j <= k
  <2> HIDE DEF J
  <2> QED BY <1>1, Least
<1>3. PICK i \in I : j = n - i
  BY <1>2
<1>4. \A k \in I : i >= k
  <2> SUFFICES ASSUME NEW k \in I PROVE i >= k
    OBVIOUS
  <2>1. n - i <= n - k
    BY <1>2, <1>3
  <2> QED BY <2>1
<1> QED BY <1>3, <1>4 DEF Max

(* So does a set of positions. *)
LEMMA Greatest ==
  ASSUME NEW n \in Nat, NEW I, I \subseteq 1..n, I # {}
  PROVE  Max(I) \in I /\ \A j \in I : Max(I) >= j
<1>1. I \subseteq 0..n
  OBVIOUS
<1> QED BY <1>1, Largest

(* Only one position is the last. *)
LEMMA GreatestIs ==
  ASSUME NEW n \in Nat, NEW I, I \subseteq 1..n, NEW m \in I, \A j \in I : m >= j
  PROVE  Max(I) = m
<1>1. Max(I) \in I /\ \A j \in I : Max(I) >= j
  BY Greatest
<1>2. Max(I) \in 1..n /\ m \in 1..n /\ Max(I) >= m /\ m >= Max(I)
  BY <1>1
<1> HIDE DEF Max
<1> QED BY <1>2

(* FoldLeft recurs on the positions it folds, the last one first. *)
Folds(f, n, base, t, op) ==
  f = [s \in SUBSET (1..n) |-> IF s = {} THEN base ELSE op[f[s \ {Max(s)}], t[Max(s)]]]

(* The recursive function on sets of positions exists. *)
LEMMA FoldsExists ==
  ASSUME NEW n \in Nat, NEW S, NEW T, NEW base \in T,
         NEW op \in [T \X S -> T], NEW t \in [1..n -> S]
  PROVE  \E f \in [SUBSET (1..n) -> T] : Folds(f, n, base, t, op)
<1> DEFINE K == {k \in Nat : \E f \in [SUBSET (1..k) -> T] : Folds(f, k, base, t, op)}
<1>1. 0 \in K
  <2> DEFINE f == [s \in SUBSET (1..0) |-> base]
  <2>1. \A s \in SUBSET (1..0) : s = {}
    OBVIOUS
  <2>2. f = [s \in SUBSET (1..0) |-> IF s = {} THEN base ELSE op[f[s \ {Max(s)}], t[Max(s)]]]
    BY <2>1, Zenon
  <2>3. f \in [SUBSET (1..0) -> T]
    OBVIOUS
  <2> HIDE DEF f
  <2> QED BY <2>2, <2>3 DEF Folds
<1>2. ASSUME NEW k \in 0..n, k \in K, k < n PROVE k + 1 \in K
  <2>1. PICK f \in [SUBSET (1..k) -> T] : Folds(f, k, base, t, op)
    BY <1>2
  <2> DEFINE m == k + 1
             g == [s \in SUBSET (1..m) |-> IF m \in s THEN op[f[s \ {m}], t[m]] ELSE f[s]]
  <2>2. m \in 1..n /\ t[m] \in S /\ m \in Nat
    BY <1>2
  <2>3. ASSUME NEW s \in SUBSET (1..m)
        PROVE  /\ m \in s => Max(s) = m /\ s \ {m} \in SUBSET (1..k)
               /\ m \notin s => s \in SUBSET (1..k)
    <3>0. \A j \in s : m >= j
      BY <1>2
    <3>1. m \in s => Max(s) = m
      <4> HIDE DEF m
      <4> QED BY <2>2, <3>0, GreatestIs
    <3> QED BY <3>1, <1>2
  <2>4. ASSUME NEW s \in SUBSET (1..m)
        PROVE  (IF m \in s THEN op[f[s \ {m}], t[m]] ELSE f[s])
               = IF s = {} THEN base ELSE op[g[s \ {Max(s)}], t[Max(s)]]
    <3>1. CASE m \in s
      <4>1. g[s \ {m}] = f[s \ {m}]
        OBVIOUS
      <4> HIDE DEF g, m
      <4> QED BY <2>3, <3>1, <4>1
    <3>2. CASE m \notin s
      <4>1. s \in SUBSET (1..k)
        BY <2>3, <3>2
      <4>2. f[s] = IF s = {} THEN base ELSE op[f[s \ {Max(s)}], t[Max(s)]]
        BY <2>1, <4>1 DEF Folds
      <4>3. g[s \ {Max(s)}] = f[s \ {Max(s)}]
        BY <3>2
      <4> HIDE DEF g, m
      <4> QED BY <3>2, <4>2, <4>3
    <3> QED BY <3>1, <3>2
  <2>5. g = [s \in SUBSET (1..m) |-> IF s = {} THEN base ELSE op[g[s \ {Max(s)}], t[Max(s)]]]
    <3> HIDE DEF m
    <3> QED BY <2>4, Zenon
  <2>6. g \in [SUBSET (1..m) -> T]
    <3>1. ASSUME NEW s \in SUBSET (1..m)
          PROVE  (IF m \in s THEN op[f[s \ {m}], t[m]] ELSE f[s]) \in T
      <4> HIDE DEF m
      <4> QED BY <2>2, <2>3
    <3> HIDE DEF m
    <3> QED BY <3>1
  <2>7. Folds(g, m, base, t, op)
    <3> HIDE DEF g, m
    <3> QED BY <2>5 DEF Folds
  <2> HIDE DEF g
  <2> QED BY <2>2, <2>6, <2>7
<1>4. 0..n \subseteq K
  <2> HIDE DEF K
  <2> QED BY <1>1, <1>2, Induction
<1>5. n \in K
  <2> HIDE DEF K
  <2> QED BY <1>4
<1> QED BY <1>5

(* The folds of a sequence and of what it is the beginning of go the same way. *)
Chained(f, t, base, op, T) ==
  /\ f[{}] = base
  /\ \A k \in 1..Len(t) : f[1..(k - 1)] \in T => f[1..k] = op[f[1..(k - 1)], t[k]]

Folded(f, n) == f[1..n]  \* what is made of the first n elements

Binary(op, S, T) == op \in [T \X S -> T]
Begins(t, r) == Len(t) <= Len(r) /\ \A k \in 1..Len(t) : r[k] = t[k]

(* The fold of a longer text passes through the fold of what it begins     *)
(* with.                                                                   *)
LEMMA Chain ==
  ASSUME NEW S, NEW T, NEW base \in T, NEW op, Binary(op, S, T),
         NEW t \in Seq(S), NEW r \in Seq(S), Begins(t, r),
         NEW f, NEW g, Chained(f, t, base, op, T), Chained(g, r, base, op, T)
  PROVE  Folded(f, Len(t)) \in T /\ Folded(g, Len(t)) = Folded(f, Len(t))
<1> DEFINE n == Len(t)
           K == {k \in Nat : f[1..k] \in T /\ g[1..k] = f[1..k]}
<1>1. /\ n \in Nat /\ Len(r) \in Nat /\ n <= Len(r)
      /\ \A k \in 1..n : t[k] \in S /\ r[k] = t[k]
  BY LenProperties, ElementOfSeq DEF Begins
<1> HIDE DEF n
<1>2. 0 \in K
  <2>1. 1..0 = {} /\ 0 \in Nat
    OBVIOUS
  <2>2. f[1..0] \in T /\ g[1..0] = f[1..0]
    BY <2>1 DEF Chained
  <2> QED BY <2>2
<1>3. ASSUME NEW k \in 0..n, k \in K, k < n PROVE k + 1 \in K
  <2> DEFINE m == k + 1
  <2>1. m \in 1..n /\ m \in 1..Len(r) /\ m - 1 = k /\ m \in Nat
    BY <1>1, <1>3
  <2> HIDE DEF m
  <2>2. f[1..m] = op[f[1..k], t[m]] /\ g[1..m] = op[g[1..k], t[m]]
    <3>1. f[1..(m - 1)] \in T /\ g[1..(m - 1)] \in T
      BY <1>3, <2>1
    <3>2. f[1..m] = op[f[1..(m - 1)], t[m]]
      BY <2>1, <3>1 DEF Chained, n
    <3>3. g[1..m] = op[g[1..(m - 1)], r[m]]
      BY <1>1, <2>1, <3>1 DEF Chained
    <3> QED BY <1>1, <2>1, <3>2, <3>3
  <2>3. op[f[1..k], t[m]] \in T
    BY <1>1, <1>3, <2>1 DEF Binary
  <2>4. m \in K
    BY <1>3, <2>1, <2>2, <2>3
  <2> QED BY <2>4 DEF m
<1>4. 0..n \subseteq K
  <2> HIDE DEF K
  <2> QED BY <1>1, <1>2, <1>3, Induction
<1>5. f[1..n] \in T /\ g[1..n] = f[1..n]
  <2>1. n \in K
    <3> HIDE DEF K
    <3> QED BY <1>1, <1>4
  <2> QED BY <2>1
<1> QED BY <1>5 DEF n, Folded

-----------------------------------------------------------------------------
Chars == Alphabet \cup {Space, NL, "#", "bullet", "*", "-",
                         "e", "acute", "eacute", "s", "dagesh", "dot"}

ComposeAll(d) == FoldLeft(Compose, <<>>, d)
KeepAll(t) == FoldLeft(KeepTwo, <<>>, t)

(* A step of either fold makes a text of a text and a character. *)
LEMMA Typed ==
  ASSUME NEW t \in Seq(Chars), NEW c \in Chars
  PROVE  Compose(t, c) \in Seq(Chars) /\ KeepTwo(t, c) \in Seq(Chars)
<1>1. Append(t, c) \in Seq(Chars)
  BY AppendProperties
<1>2. t # <<>> => Append(Front(t), "eacute") \in Seq(Chars)
  <2> SUFFICES ASSUME t # <<>> PROVE Append(Front(t), "eacute") \in Seq(Chars)
    OBVIOUS
  <2>1. Front(t) \in Seq(Chars)
    BY DEF Front
  <2>2. "eacute" \in Chars
    BY DEF Chars
  <2> QED BY <2>1, <2>2, AppendProperties
<1> QED BY <1>1, <1>2 DEF Compose, KeepTwo

(* The folds of the service unfold. *)
ComposeOp == [x \in Seq(Chars) \X Chars |-> Compose(x[1], x[2])]
KeepOp == [x \in Seq(Chars) \X Chars |-> KeepTwo(x[1], x[2])]

(* The steps as functions, for the folds above. *)
LEMMA Ops ==
  /\ ComposeOp \in [Seq(Chars) \X Chars -> Seq(Chars)]
  /\ KeepOp \in [Seq(Chars) \X Chars -> Seq(Chars)]
  /\ \A t \in Seq(Chars), c \in Chars :
        ComposeOp[t, c] = Compose(t, c) /\ KeepOp[t, c] = KeepTwo(t, c)
<1>1. \A x \in Seq(Chars) \X Chars :
         Compose(x[1], x[2]) \in Seq(Chars) /\ KeepTwo(x[1], x[2]) \in Seq(Chars)
  <2> SUFFICES ASSUME NEW x \in Seq(Chars) \X Chars
               PROVE  Compose(x[1], x[2]) \in Seq(Chars) /\ KeepTwo(x[1], x[2]) \in Seq(Chars)
    OBVIOUS
  <2>1. x[1] \in Seq(Chars) /\ x[2] \in Chars
    OBVIOUS
  <2> QED BY <2>1, Typed
<1>2. ComposeOp \in [Seq(Chars) \X Chars -> Seq(Chars)]
  BY <1>1 DEF ComposeOp
<1>3. KeepOp \in [Seq(Chars) \X Chars -> Seq(Chars)]
  BY <1>1 DEF KeepOp
<1>4. ASSUME NEW t \in Seq(Chars), NEW c \in Chars
      PROVE  ComposeOp[t, c] = Compose(t, c) /\ KeepOp[t, c] = KeepTwo(t, c)
  BY DEF ComposeOp, KeepOp
<1> QED BY <1>2, <1>3, <1>4

Composes(f, d) ==
  f = [s \in SUBSET DOMAIN d |-> IF s = {} THEN <<>> ELSE Compose(f[s \ {Max(s)}], d[Max(s)])]
Keeps(f, d) ==
  f = [s \in SUBSET DOMAIN d |-> IF s = {} THEN <<>> ELSE KeepTwo(f[s \ {Max(s)}], d[Max(s)])]

(* Both recursions have their functions. *)
LEMMA Unfold ==
  ASSUME NEW d \in Seq(Chars)
  PROVE  (\E f : Composes(f, d)) /\ \E f : Keeps(f, d)
<1> DEFINE n == Len(d)
           T == Seq(Chars)
<1>1. n \in Nat /\ d \in [1..n -> Chars] /\ DOMAIN d = 1..n /\ <<>> \in T
  BY LenProperties, EmptySeq
<1>2. \E f \in [SUBSET (1..n) -> T] : Folds(f, n, <<>>, d, ComposeOp)
  <2> HIDE DEF n, T
  <2>1. ComposeOp \in [T \X Chars -> T]
    BY Ops DEF T
  <2> QED BY <1>1, <2>1, FoldsExists
<1>3. \E f \in [SUBSET (1..n) -> T] : Folds(f, n, <<>>, d, KeepOp)
  <2> HIDE DEF n, T
  <2>1. KeepOp \in [T \X Chars -> T]
    BY Ops DEF T
  <2> QED BY <1>1, <2>1, FoldsExists
<1>4. ASSUME NEW f \in [SUBSET (1..n) -> T], NEW s \in SUBSET (1..n), s # {}
      PROVE  /\ ComposeOp[f[s \ {Max(s)}], d[Max(s)]] = Compose(f[s \ {Max(s)}], d[Max(s)])
             /\ KeepOp[f[s \ {Max(s)}], d[Max(s)]] = KeepTwo(f[s \ {Max(s)}], d[Max(s)])
  <2>1. Max(s) \in 1..n
    <3> HIDE DEF n
    <3> QED BY <1>1, <1>4, Greatest
  <2>2. f[s \ {Max(s)}] \in T /\ d[Max(s)] \in Chars
    <3> HIDE DEF n, T
    <3> QED BY <1>1, <1>4, <2>1
  <2> QED BY <2>2, Ops
<1> HIDE DEF n, T
<1>5. \E f : Composes(f, d)
  <2>1. PICK f \in [SUBSET (1..n) -> T] : Folds(f, n, <<>>, d, ComposeOp)
    BY <1>2
  <2>2. f = [s \in SUBSET (1..n) |-> IF s = {} THEN <<>> ELSE Compose(f[s \ {Max(s)}], d[Max(s)])]
    <3>1. f = [s \in SUBSET (1..n) |-> IF s = {} THEN <<>>
                                       ELSE ComposeOp[f[s \ {Max(s)}], d[Max(s)]]]
      BY <2>1 DEF Folds
    <3> QED BY <1>4, <3>1, Zenon
  <2> QED BY <1>1, <2>2 DEF Composes
<1>6. \E f : Keeps(f, d)
  <2>1. PICK f \in [SUBSET (1..n) -> T] : Folds(f, n, <<>>, d, KeepOp)
    BY <1>3
  <2>2. f = [s \in SUBSET (1..n) |-> IF s = {} THEN <<>> ELSE KeepTwo(f[s \ {Max(s)}], d[Max(s)])]
    <3>1. f = [s \in SUBSET (1..n) |-> IF s = {} THEN <<>>
                                       ELSE KeepOp[f[s \ {Max(s)}], d[Max(s)]]]
      BY <2>1 DEF Folds
    <3> QED BY <1>4, <3>1, Zenon
  <2> QED BY <1>1, <2>2 DEF Keeps
<1> QED BY <1>5, <1>6

(* Without its last position, 1..k is 1..(k - 1). *)
LEMMA Upto ==
  ASSUME NEW n \in Nat, NEW k \in 1..n
  PROVE  /\ 1..k \in SUBSET (1..n) /\ 1..k # {} /\ Max(1..k) = k
         /\ (1..k) \ {Max(1..k)} = 1..(k - 1)
<1>1. k \in 1..k /\ (\A j \in 1..k : k >= j) /\ 1..k \subseteq 1..n /\ k \in Nat
  OBVIOUS
<1>2. Max(1..k) = k
  BY <1>1, GreatestIs
<1>3. (1..k) \ {k} = 1..(k - 1)
  OBVIOUS
<1> QED BY <1>1, <1>2, <1>3

(* Composing a text is a fold from left to right. *)
LEMMA ComposeChain ==
  ASSUME NEW d \in Seq(Chars)
  PROVE  \E f : Chained(f, d, <<>>, ComposeOp, Seq(Chars)) /\ ComposeAll(d) = f[1..Len(d)]
<1> DEFINE f == CHOOSE f : Composes(f, d)
           n == Len(d)
<1>1. Composes(f, d)
  BY Unfold
<1>2. ComposeAll(d) = f[DOMAIN d]
  BY DEF ComposeAll, FoldLeft, MapThenFoldSet, Composes
<1>3. n \in Nat /\ DOMAIN d = 1..n /\ \A k \in 1..n : d[k] \in Chars
  BY LenProperties, ElementOfSeq
<1> HIDE DEF f, n
<1>4. f[{}] = <<>>
  BY <1>1, Zenon DEF Composes
<1>5. ASSUME NEW k \in 1..n, f[1..(k - 1)] \in Seq(Chars)
      PROVE  f[1..k] = ComposeOp[f[1..(k - 1)], d[k]]
  <2>1. f[1..k] = Compose(f[(1..k) \ {Max(1..k)}], d[Max(1..k)])
    BY <1>1, <1>3, Upto, Zenon DEF Composes
  <2>2. f[1..k] = Compose(f[1..(k - 1)], d[k])
    BY <1>3, <2>1, Upto
  <2>3. d[k] \in Chars
    BY <1>3
  <2> QED BY <1>5, <2>2, <2>3, Ops
<1>6. Chained(f, d, <<>>, ComposeOp, Seq(Chars))
  BY <1>4, <1>5 DEF Chained, n
<1> QED BY <1>2, <1>3, <1>6 DEF n

(* So is dropping the third newline. *)
LEMMA KeepChain ==
  ASSUME NEW d \in Seq(Chars)
  PROVE  \E f : Chained(f, d, <<>>, KeepOp, Seq(Chars)) /\ KeepAll(d) = f[1..Len(d)]
<1> DEFINE f == CHOOSE f : Keeps(f, d)
           n == Len(d)
<1>1. Keeps(f, d)
  BY Unfold
<1>2. KeepAll(d) = f[DOMAIN d]
  BY DEF KeepAll, FoldLeft, MapThenFoldSet, Keeps
<1>3. n \in Nat /\ DOMAIN d = 1..n /\ \A k \in 1..n : d[k] \in Chars
  BY LenProperties, ElementOfSeq
<1> HIDE DEF f, n
<1>4. f[{}] = <<>>
  BY <1>1, Zenon DEF Keeps
<1>5. ASSUME NEW k \in 1..n, f[1..(k - 1)] \in Seq(Chars)
      PROVE  f[1..k] = KeepOp[f[1..(k - 1)], d[k]]
  <2>1. f[1..k] = KeepTwo(f[(1..k) \ {Max(1..k)}], d[Max(1..k)])
    BY <1>1, <1>3, Upto, Zenon DEF Keeps
  <2>2. f[1..k] = KeepTwo(f[1..(k - 1)], d[k])
    BY <1>3, <2>1, Upto
  <2>3. d[k] \in Chars
    BY <1>3
  <2> QED BY <1>5, <2>2, <2>3, Ops
<1>6. Chained(f, d, <<>>, KeepOp, Seq(Chars))
  BY <1>4, <1>5 DEF Chained, n
<1> QED BY <1>2, <1>3, <1>6 DEF n

(* Nothing folds to nothing. *)
LEMMA Started0 == ComposeAll(<<>>) = <<>> /\ KeepAll(<<>>) = <<>>
<1>1. <<>> \in Seq(Chars) /\ Len(<<>>) = 0 /\ 1..0 = {}
  BY EmptySeq
<1>2. PICK f : Chained(f, <<>>, <<>>, ComposeOp, Seq(Chars)) /\ ComposeAll(<<>>) = f[1..Len(<<>>)]
  BY <1>1, ComposeChain
<1>3. PICK g : Chained(g, <<>>, <<>>, KeepOp, Seq(Chars)) /\ KeepAll(<<>>) = g[1..Len(<<>>)]
  BY <1>1, KeepChain
<1> QED BY <1>1, <1>2, <1>3 DEF Chained

(* Composing takes one character at a time. *)
LEMMA ComposeAppend ==
  ASSUME NEW d \in Seq(Chars), NEW c \in Chars
  PROVE  ComposeAll(d) \in Seq(Chars) /\ ComposeAll(Append(d, c)) = Compose(ComposeAll(d), c)
<1>0. <<>> \in Seq(Chars) /\ Append(d, c) \in Seq(Chars) /\ Len(Append(d, c)) = Len(d) + 1
  BY EmptySeq, AppendProperties
<1>1. PICK f : Chained(f, d, <<>>, ComposeOp, Seq(Chars)) /\ ComposeAll(d) = f[1..Len(d)]
  BY ComposeChain
<1>2. PICK g : /\ Chained(g, Append(d, c), <<>>, ComposeOp, Seq(Chars))
               /\ ComposeAll(Append(d, c)) = g[1..Len(Append(d, c))]
  BY <1>0, ComposeChain
<1>3. f[1..Len(d)] \in Seq(Chars) /\ g[1..(Len(d) + 1)] = ComposeOp[f[1..Len(d)], c]
  <2> DEFINE T == Seq(Chars)
  <2>1. Binary(ComposeOp, Chars, T) /\ <<>> \in T
    BY <1>0, Ops DEF Binary
  <2> DEFINE r == Append(d, c)
  <2>2. Chained(f, d, <<>>, ComposeOp, T) /\ Chained(g, r, <<>>, ComposeOp, T)
    BY <1>1, <1>2
  <2>3. Folded(f, Len(d)) \in T /\ Folded(g, Len(d)) = Folded(f, Len(d))
    <3>1. r \in Seq(Chars) /\ Begins(d, r)
      BY AppendProperties, LenProperties DEF Begins
    <3> HIDE DEF T, r
    <3> QED BY <2>1, <2>2, <3>1, Chain
  <2> DEFINE k == Len(d) + 1
  <2>4. k \in 1..k /\ k - 1 = Len(d) /\ Append(d, c)[k] = c
    BY LenProperties, AppendProperties
  <2>5. g[1..(k - 1)] \in T => g[1..k] = ComposeOp[g[1..(k - 1)], Append(d, c)[k]]
    <3> HIDE DEF T
    <3> QED BY <1>0, <2>2, <2>4 DEF Chained
  <2> HIDE DEF k
  <2>6. g[1..k] = ComposeOp[f[1..Len(d)], c]
    BY <2>3, <2>4, <2>5 DEF Folded
  <2> QED BY <2>3, <2>6 DEF k, Folded
<1> QED BY <1>0, <1>1, <1>2, <1>3, Ops

(* So does dropping newlines. *)
LEMMA KeepAppend ==
  ASSUME NEW d \in Seq(Chars), NEW c \in Chars
  PROVE  KeepAll(d) \in Seq(Chars) /\ KeepAll(Append(d, c)) = KeepTwo(KeepAll(d), c)
<1>0. <<>> \in Seq(Chars) /\ Append(d, c) \in Seq(Chars) /\ Len(Append(d, c)) = Len(d) + 1
  BY EmptySeq, AppendProperties
<1>1. PICK f : Chained(f, d, <<>>, KeepOp, Seq(Chars)) /\ KeepAll(d) = f[1..Len(d)]
  BY KeepChain
<1>2. PICK g : /\ Chained(g, Append(d, c), <<>>, KeepOp, Seq(Chars))
               /\ KeepAll(Append(d, c)) = g[1..Len(Append(d, c))]
  BY <1>0, KeepChain
<1>3. f[1..Len(d)] \in Seq(Chars) /\ g[1..(Len(d) + 1)] = KeepOp[f[1..Len(d)], c]
  <2> DEFINE T == Seq(Chars)
  <2>1. Binary(KeepOp, Chars, T) /\ <<>> \in T
    BY <1>0, Ops DEF Binary
  <2> DEFINE r == Append(d, c)
  <2>2. Chained(f, d, <<>>, KeepOp, T) /\ Chained(g, r, <<>>, KeepOp, T)
    BY <1>1, <1>2
  <2>3. Folded(f, Len(d)) \in T /\ Folded(g, Len(d)) = Folded(f, Len(d))
    <3>1. r \in Seq(Chars) /\ Begins(d, r)
      BY AppendProperties, LenProperties DEF Begins
    <3> HIDE DEF T, r
    <3> QED BY <2>1, <2>2, <3>1, Chain
  <2> DEFINE k == Len(d) + 1
  <2>4. k \in 1..k /\ k - 1 = Len(d) /\ Append(d, c)[k] = c
    BY LenProperties, AppendProperties
  <2>5. g[1..(k - 1)] \in T => g[1..k] = KeepOp[g[1..(k - 1)], Append(d, c)[k]]
    <3> HIDE DEF T
    <3> QED BY <1>0, <2>2, <2>4 DEF Chained
  <2> HIDE DEF k
  <2>6. g[1..k] = KeepOp[f[1..Len(d)], c]
    BY <2>3, <2>4, <2>5 DEF Folded
  <2> QED BY <2>3, <2>6 DEF k, Folded
<1> QED BY <1>0, <1>1, <1>2, <1>3, Ops

-----------------------------------------------------------------------------
(* A sequence mapped element by element, and flattened. *)
Maps(e, S, T) == e \in [S -> T]
Mapped(e, q) == [i \in DOMAIN q |-> e[q[i]]]
FlatMap(e, q) == FlattenSeq(Mapped(e, q))

(* A map keeps the length and takes S to T. *)
LEMMA MappedType ==
  ASSUME NEW S, NEW T, NEW e, Maps(e, S, T), NEW q \in Seq(S)
  PROVE  Mapped(e, q) \in Seq(T) /\ Len(Mapped(e, q)) = Len(q)
<1>1. DOMAIN q = 1..Len(q) /\ Len(q) \in Nat /\ \A i \in 1..Len(q) : e[q[i]] \in T
  BY LenProperties, ElementOfSeq DEF Maps
<1> QED BY <1>1 DEF Mapped

(* One more element is mapped onto the end. *)
LEMMA MappedAppend ==
  ASSUME NEW S, NEW T, NEW e, Maps(e, S, T), NEW q \in Seq(S), NEW x \in S
  PROVE  Mapped(e, Append(q, x)) = Append(Mapped(e, q), e[x])
<1> DEFINE r == Append(q, x)
           m == Mapped(e, q)
           n == Len(q)
<1>1. r \in Seq(S) /\ Len(r) = n + 1 /\ n \in Nat /\ r[n + 1] = x /\ \A i \in 1..n : r[i] = q[i]
  BY LenProperties, AppendProperties
<1>2. m \in Seq(T) /\ Len(m) = n /\ e[x] \in T
  <2>1. m \in Seq(T) /\ Len(m) = n
    BY MappedType
  <2> QED BY <2>1 DEF Maps
<1>3. /\ Mapped(e, r) \in Seq(T) /\ Len(Mapped(e, r)) = n + 1
      /\ Append(m, e[x]) \in Seq(T) /\ Len(Append(m, e[x])) = n + 1
      /\ Append(m, e[x])[n + 1] = e[x] /\ \A i \in 1..n : Append(m, e[x])[i] = m[i]
  <2>1. Mapped(e, r) \in Seq(T) /\ Len(Mapped(e, r)) = Len(r)
    <3> HIDE DEF r
    <3> QED BY <1>1, MappedType
  <2> HIDE DEF m
  <2> QED BY <1>1, <1>2, <2>1, AppendProperties
<1>4. \A i \in 1..n : m[i] = e[q[i]]
  BY DEF Mapped
<1>5. \A i \in 1..(n + 1) : Mapped(e, r)[i] = e[r[i]]
  <2>1. DOMAIN r = 1..(n + 1)
    BY <1>1, LenProperties
  <2> QED BY <2>1 DEF Mapped
<1>6. \A i \in 1..(n + 1) : Mapped(e, r)[i] = Append(m, e[x])[i]
  <2> HIDE DEF m, r, n
  <2> SUFFICES ASSUME NEW i \in 1..(n + 1) PROVE Mapped(e, r)[i] = Append(m, e[x])[i]
    OBVIOUS
  <2>1. i \in 1..n \/ i = n + 1
    BY <1>1
  <2> QED BY <1>1, <1>3, <1>4, <1>5, <2>1
<1> HIDE DEF r, m, n
<1> QED BY <1>3, <1>6, SeqEqual DEF r, m

(* Nothing maps to nothing. *)
LEMMA MappedEmpty == \A e : Mapped(e, <<>>) = <<>>
BY DEF Mapped

(* Nothing maps to nothing, flattened too. *)
LEMMA FlatMapEmpty == \A e : FlatMap(e, <<>>) = <<>>
BY MappedEmpty, FlattenEmpty DEF FlatMap

(* A flattened map makes a sequence over T. *)
LEMMA FlatMapType ==
  ASSUME NEW S, NEW T, NEW e, Maps(e, S, Seq(T)), NEW q \in Seq(S)
  PROVE  FlatMap(e, q) \in Seq(T)
<1>1. Mapped(e, q) \in Seq(Seq(T))
  BY MappedType
<1> QED BY <1>1, FlattenType DEF FlatMap

(* One more element adds what it maps to. *)
LEMMA FlatMapAppend ==
  ASSUME NEW S, NEW T, NEW e, Maps(e, S, Seq(T)), NEW q \in Seq(S), NEW x \in S
  PROVE  FlatMap(e, Append(q, x)) = FlatMap(e, q) \o e[x]
<1>1. Mapped(e, q) \in Seq(Seq(T)) /\ e[x] \in Seq(T)
  BY MappedType DEF Maps
<1>2. Mapped(e, Append(q, x)) = Append(Mapped(e, q), e[x])
  BY MappedAppend
<1> QED BY <1>1, <1>2, FlattenAppend DEF FlatMap

(* A flattened map respects concatenation. *)
LEMMA FlatMapConcat ==
  ASSUME NEW S, NEW T, NEW e, Maps(e, S, Seq(T)), NEW q \in Seq(S), NEW r \in Seq(S)
  PROVE  FlatMap(e, q \o r) = FlatMap(e, q) \o FlatMap(e, r)
<1> DEFINE P == {s \in Seq(S) : FlatMap(e, q \o s) = FlatMap(e, q) \o FlatMap(e, s)}
<1>0. FlatMap(e, q) \in Seq(T)
  BY FlatMapType
<1>1. <<>> \in P
  BY <1>0, FlatMapEmpty, ConcatEmptySeq, EmptySeq
<1>2. ASSUME NEW s \in Seq(S), NEW x \in S, s \in P PROVE Append(s, x) \in P
  <2>1. q \o Append(s, x) = Append(q \o s, x) /\ q \o s \in Seq(S) /\ Append(s, x) \in Seq(S)
    <3>1. q \o s \in Seq(S) /\ Append(s, x) \in Seq(S) /\ <<x>> \in Seq(S)
      BY ConcatProperties, AppendProperties
    <3>2. Append(s, x) = s \o <<x>> /\ Append(q \o s, x) = (q \o s) \o <<x>>
      BY <3>1, AppendIsConcat
    <3> QED BY <3>1, <3>2, ConcatAssociative
  <2>2. FlatMap(e, Append(q \o s, x)) = FlatMap(e, q \o s) \o e[x]
    <3> DEFINE t == q \o s
    <3>1. t \in Seq(S)
      BY <2>1
    <3> HIDE DEF t
    <3>2. FlatMap(e, Append(t, x)) = FlatMap(e, t) \o e[x]
      BY <3>1, FlatMapAppend
    <3> QED BY <3>2 DEF t
  <2>3. FlatMap(e, Append(s, x)) = FlatMap(e, s) \o e[x]
    BY FlatMapAppend
  <2>4. FlatMap(e, s) \in Seq(T) /\ e[x] \in Seq(T)
    BY FlatMapType DEF Maps
  <2>5. (FlatMap(e, q) \o FlatMap(e, s)) \o e[x] = FlatMap(e, q) \o (FlatMap(e, s) \o e[x])
    <3> DEFINE a == FlatMap(e, q)
               b == FlatMap(e, s)
               c == e[x]
    <3>1. a \in Seq(T) /\ b \in Seq(T) /\ c \in Seq(T)
      BY <1>0, <2>4
    <3> HIDE DEF a, b, c
    <3>2. (a \o b) \o c = a \o (b \o c)
      BY <3>1, ConcatAssociative, SMTT(20)
    <3> QED BY <3>2 DEF a, b, c
  <2> QED BY <1>2, <2>1, <2>2, <2>3, <2>5
<1>3. Seq(S) \subseteq P
  <2> HIDE DEF P
  <2> QED BY <1>1, <1>2, Appending
<1> QED BY <1>3

(* What respects concatenation goes through a flattened map. *)
Respects(h, T, U) ==
  /\ h \in [Seq(T) -> Seq(U)] /\ h[<<>>] = <<>>
  /\ \A x, y \in Seq(T) : h[x \o y] = h[x] \o h[y]

After(h, e, S) == [x \in S |-> h[e[x]]]

(* Mapping and then applying h is mapping with h applied to each. *)
LEMMA Through ==
  ASSUME NEW S, NEW T, NEW U, NEW e, Maps(e, S, Seq(T)), NEW h, Respects(h, T, U), NEW q \in Seq(S)
  PROVE  h[FlatMap(e, q)] = FlatMap(After(h, e, S), q)
<1> DEFINE g == After(h, e, S)
           P == {s \in Seq(S) : h[FlatMap(e, s)] = FlatMap(g, s)}
<1>0. Maps(g, S, Seq(U)) /\ \A x \in S : g[x] = h[e[x]]
  BY DEF Maps, Respects, After
<1>1. <<>> \in P
  BY FlatMapEmpty, EmptySeq DEF Respects
<1>2. ASSUME NEW s \in Seq(S), NEW x \in S, s \in P PROVE Append(s, x) \in P
  <2>1. FlatMap(g, Append(s, x)) = FlatMap(g, s) \o g[x]
    <3> HIDE DEF g
    <3> QED BY <1>0, FlatMapAppend
  <2>2. FlatMap(e, Append(s, x)) = FlatMap(e, s) \o e[x]
    BY FlatMapAppend
  <2>3. FlatMap(e, s) \in Seq(T) /\ e[x] \in Seq(T) /\ Append(s, x) \in Seq(S)
    BY FlatMapType, AppendProperties DEF Maps
  <2> HIDE DEF g
  <2>4. h[FlatMap(e, s) \o e[x]] = h[FlatMap(e, s)] \o h[e[x]]
    BY <2>3 DEF Respects
  <2> QED BY <1>0, <1>2, <2>1, <2>2, <2>3, <2>4
<1>3. Seq(S) \subseteq P
  <2> HIDE DEF P, g
  <2> QED BY <1>1, <1>2, Appending
<1> QED BY <1>3

-----------------------------------------------------------------------------
(* What was appended is last, and the rest is in front. *)
LEMMA Splitting ==
  ASSUME NEW S, NEW u \in Seq(S), NEW c \in S
  PROVE  /\ Append(u, c) \in Seq(S) /\ Append(u, c) # <<>> /\ Len(Append(u, c)) = Len(u) + 1
         /\ Last(Append(u, c)) = c /\ Front(Append(u, c)) = u
<1>1. /\ Append(u, c) \in Seq(S) /\ Append(u, c) # <<>> /\ Len(Append(u, c)) = Len(u) + 1
      /\ Append(u, c)[Len(u) + 1] = c
  BY AppendProperties
<1>2. Front(Append(u, c)) = u
  <2>1. SubSeq(Append(u, c), 1, Len(u)) = u
    <3> DEFINE s == SubSeq(Append(u, c), 1, Len(u))
    <3>1. s \in Seq(S) /\ Len(s) = Len(u) /\ \A i \in 1..Len(u) : s[i] = u[i]
      BY <1>1, AppendProperties
    <3> HIDE DEF s
    <3>2. s = u
      BY <3>1, SeqEqual
    <3> QED BY <3>2 DEF s
  <2>2. (Len(u) + 1) - 1 = Len(u)
    OBVIOUS
  <2> QED BY <1>1, <2>1, <2>2 DEF Front
<1> QED BY <1>1, <1>2 DEF Last

(* Two characters, one after the other. *)
LEMMA Pairs == \A x, y : Append(<<x>>, y) = <<x, y>>
<1> TAKE x, y
<1> DEFINE S == {x, y}
           a == Append(<<x>>, y)
           b == <<x, y>>
<1>1. <<x>> \in Seq(S) /\ Len(<<x>>) = 1 /\ <<x>>[1] = x /\ y \in S
  OBVIOUS
<1>2. a \in Seq(S) /\ Len(a) = 2 /\ a[1] = x /\ a[2] = y
  BY <1>1, AppendProperties
<1>3. b \in Seq(S) /\ Len(b) = 2 /\ b[1] = x /\ b[2] = y
  OBVIOUS
<1>4. \A i \in 1..2 : a[i] = b[i]
  <2> HIDE DEF a, b
  <2> QED BY <1>2, <1>3
<1> HIDE DEF a, b, S
<1>5. a = b
  BY <1>2, <1>3, <1>4, SeqEqual
<1> QED BY <1>5 DEF a, b

(* What a character is taken apart into; what cannot be is plain. *)
Apart == [c \in Chars |-> IF c \in DOMAIN Decomposition THEN Decomposition[c] ELSE <<c>>]
Plain == Chars \ {"eacute", "shin"}

(* A character falls into one to three, none of which falls further. *)
LEMMA ApartIs ==
  /\ Maps(Apart, Chars, Seq(Plain)) /\ Plain \subseteq Chars
  /\ \A c \in Chars : Len(Apart[c]) \in 1..3
  /\ \A c \in Plain : Apart[c] = <<c>>
  /\ Apart["eacute"] = <<"e", "acute">>
<1>1. DOMAIN Decomposition = {"eacute", "shin"} /\ Decomposition["eacute"] = <<"e", "acute">>
      /\ Decomposition["shin"] = <<"s", "dagesh", "dot">>
  BY DEF Decomposition
<1>2. "e" \in Plain /\ "acute" \in Plain /\ "s" \in Plain /\ "dagesh" \in Plain /\ "dot" \in Plain
      /\ "eacute" \in Chars
  BY DEF Plain, Chars
<1>3. ASSUME NEW c \in Chars PROVE Apart[c] \in Seq(Plain) /\ Len(Apart[c]) \in 1..3
  <2>1. CASE c \in {"eacute", "shin"}
    <3>1. CASE c = "eacute"
      <4>1. Apart[c] = <<"e", "acute">>
        BY <1>1, <3>1 DEF Apart
      <4> QED BY <1>2, <4>1
    <3>2. CASE c = "shin"
      <4>1. Apart[c] = <<"s", "dagesh", "dot">>
        BY <1>1, <3>2 DEF Apart
      <4> QED BY <1>2, <4>1
    <3> QED BY <2>1, <3>1, <3>2
  <2>2. CASE c \notin {"eacute", "shin"}
    <3>1. Apart[c] = <<c>> /\ c \in Plain
      BY <1>1, <2>2 DEF Apart, Plain
    <3> QED BY <3>1
  <2> QED BY <2>1, <2>2
<1>4. \A c \in Plain : Apart[c] = <<c>>
  BY <1>1 DEF Apart, Plain
<1>5. Apart["eacute"] = <<"e", "acute">>
  BY <1>1, <1>2 DEF Apart
<1>6. Apart \in [Chars -> Seq(Plain)]
  <2>1. Apart = [c \in Chars |-> Apart[c]]
    BY DEF Apart
  <2> QED BY <1>3, <2>1
<1> QED BY <1>3, <1>4, <1>5, <1>6 DEF Maps, Plain

(* Decomposition is that, character by character. *)
LEMMA DecomposedIs == ASSUME NEW t \in Seq(Chars) PROVE Decomposed(t) = FlatMap(Apart, t)
<1>1. \A i \in DOMAIN t : t[i] \in Chars
  BY LenProperties, ElementOfSeq
<1>2. \A i \in DOMAIN t : Apart[t[i]] = IF t[i] \in DOMAIN Decomposition THEN Decomposition[t[i]]
                                        ELSE <<t[i]>>
  BY <1>1 DEF Apart
<1>3. Mapped(Apart, t) = [i \in DOMAIN t |-> IF t[i] \in DOMAIN Decomposition
                                             THEN Decomposition[t[i]] ELSE <<t[i]>>]
  BY <1>2, Zenon DEF Mapped
<1> QED BY <1>3, Zenon DEF FlatMap, Decomposed, Each

(* Decomposition of nothing, of a longer text and of two texts. *)
LEMMA DecomposedStep ==
  /\ Decomposed(<<>>) = <<>>
  /\ \A t \in Seq(Chars) : Decomposed(t) \in Seq(Plain) /\ Decomposed(t) \in Seq(Chars)
  /\ \A t \in Seq(Chars), c \in Chars : Decomposed(Append(t, c)) = Decomposed(t) \o Apart[c]
  /\ \A t, u \in Seq(Chars) : Decomposed(t \o u) = Decomposed(t) \o Decomposed(u)
<1>1. Decomposed(<<>>) = <<>>
  BY DecomposedIs, FlatMapEmpty, EmptySeq
<1>2. ASSUME NEW t \in Seq(Chars) PROVE Decomposed(t) \in Seq(Plain) /\ Decomposed(t) \in Seq(Chars)
  <2>1. Decomposed(t) \in Seq(Plain)
    BY DecomposedIs, FlatMapType, ApartIs
  <2> QED BY <2>1, ApartIs, SeqMonotonic
<1>3. ASSUME NEW t \in Seq(Chars), NEW c \in Chars
      PROVE  Decomposed(Append(t, c)) = Decomposed(t) \o Apart[c]
  <2>1. Append(t, c) \in Seq(Chars)
    BY AppendProperties
  <2>2. FlatMap(Apart, Append(t, c)) = FlatMap(Apart, t) \o Apart[c]
    BY FlatMapAppend, ApartIs
  <2> QED BY <2>1, <2>2, DecomposedIs
<1>4. ASSUME NEW t \in Seq(Chars), NEW u \in Seq(Chars)
      PROVE  Decomposed(t \o u) = Decomposed(t) \o Decomposed(u)
  <2>1. t \o u \in Seq(Chars)
    BY ConcatProperties
  <2>2. FlatMap(Apart, t \o u) = FlatMap(Apart, t) \o FlatMap(Apart, u)
    BY FlatMapConcat, ApartIs
  <2> QED BY <2>1, <2>2, DecomposedIs
<1> QED BY <1>1, <1>2, <1>3, <1>4

-----------------------------------------------------------------------------
(* Composition is undone by decomposition. *)
LEMMA Undone == \A d \in Seq(Plain) : Decomposed(ComposeAll(d)) = d
<1> DEFINE P == {d \in Seq(Plain) : Decomposed(ComposeAll(d)) = d}
<1>1. <<>> \in P
  BY Started0, DecomposedStep, EmptySeq
<1>2. ASSUME NEW d \in Seq(Plain), NEW c \in Plain, d \in P PROVE Append(d, c) \in P
  <2> DEFINE x == ComposeAll(d)
  <2>0. d \in Seq(Chars) /\ c \in Chars /\ Append(d, c) \in Seq(Plain)
    BY ApartIs, SeqMonotonic, AppendProperties
  <2>1. x \in Seq(Chars) /\ Decomposed(x) = d /\ ComposeAll(Append(d, c)) = Compose(x, c)
    BY <1>2, <2>0, ComposeAppend
  <2> HIDE DEF x
  <2>2. Append(d, c) = d \o <<c>>
    BY AppendIsConcat
  <2>3. CASE x # <<>> /\ Last(x) = "e" /\ c = "acute"
    <3>1. PICK y \in Seq(Chars), z \in Chars : x = Append(y, z)
      BY <2>1, <2>3, SequenceEmptyOrAppend
    <3>2. z = "e" /\ Front(x) = y
      BY <2>3, <3>1, Splitting
    <3>3. Compose(x, c) = Append(y, "eacute")
      BY <2>3, <3>2 DEF Compose
    <3>4. "e" \in Plain /\ "eacute" \in Chars
      BY DEF Plain, Chars
    <3>5. d = Decomposed(y) \o <<"e">>
      <4>1. Apart["e"] = <<"e">> /\ "e" \in Chars
        BY <3>4, ApartIs
      <4>2. Decomposed(Append(y, "e")) = Decomposed(y) \o Apart["e"]
        BY <4>1, DecomposedStep
      <4> QED BY <2>1, <3>1, <3>2, <4>1, <4>2
    <3>6. Decomposed(Append(y, "eacute")) = Decomposed(y) \o <<"e", "acute">>
      BY <3>4, DecomposedStep, ApartIs
    <3>7. Decomposed(y) \o <<"e", "acute">> = (Decomposed(y) \o <<"e">>) \o <<"acute">>
      <4> DEFINE w == Decomposed(y)
      <4>1. w \in Seq(Chars) /\ <<"e">> \in Seq(Chars) /\ <<"acute">> \in Seq(Chars)
        BY DecomposedStep DEF Chars
      <4>2. <<"e">> \o <<"acute">> = <<"e", "acute">>
        <5>1. Append(<<"e">>, "acute") = <<"e">> \o <<"acute">>
          BY <4>1, AppendIsConcat
        <5>2. Append(<<"e">>, "acute") = <<"e", "acute">>
          BY Pairs
        <5> QED BY <5>1, <5>2
      <4> HIDE DEF w
      <4>3. w \o (<<"e">> \o <<"acute">>) = (w \o <<"e">>) \o <<"acute">>
        BY <4>1, ConcatAssociative
      <4> QED BY <4>2, <4>3 DEF w
    <3> QED BY <2>0, <2>1, <2>2, <2>3, <3>3, <3>5, <3>6, <3>7
  <2>4. CASE ~(x # <<>> /\ Last(x) = "e" /\ c = "acute")
    <3>1. Compose(x, c) = Append(x, c)
      BY <2>4 DEF Compose
    <3>2. Decomposed(Append(x, c)) = Decomposed(x) \o Apart[c] /\ Apart[c] = <<c>>
      BY <2>0, <2>1, DecomposedStep, ApartIs
    <3> QED BY <2>0, <2>1, <2>2, <3>1, <3>2
  <2> QED BY <2>3, <2>4
<1>3. Seq(Plain) \subseteq P
  <2> HIDE DEF P
  <2> QED BY <1>1, <1>2, Appending
<1> QED BY <1>3

(* NFC changes how a text is written, never what it decomposes into. *)
LEMMA NFCKeepsDecomposition ==
  ASSUME NEW t \in Seq(Chars)
  PROVE  NFC(t) \in Seq(Chars) /\ Decomposed(NFC(t)) = Decomposed(t)
<1>1. Decomposed(t) \in Seq(Plain) /\ Decomposed(t) \in Seq(Chars)
  BY DecomposedStep
<1>2. NFC(t) = ComposeAll(Decomposed(t))
  BY DEF NFC, ComposeAll
<1>3. \A d \in Seq(Chars) : ComposeAll(d) \in Seq(Chars)
  <2> TAKE d \in Seq(Chars)
  <2>1. Space \in Chars
    BY DEF Chars
  <2> QED BY <2>1, ComposeAppend
<1> QED BY <1>1, <1>2, <1>3, Undone

(* Composed text stays as it is. *)
Composed(t) ==
  \A i \in 1..Len(t) : t[i] # "shin" /\ (t[i] = "e" /\ i < Len(t) => t[i + 1] # "acute")

Merges(u, c) == u # <<>> /\ Last(u) = "e" /\ c = "acute"

(* One more character keeps a text composed unless it belongs to the last. *)
LEMMA ComposedAppend ==
  ASSUME NEW u \in Seq(Chars), NEW c \in Chars
  PROVE  Composed(Append(u, c)) <=> Composed(u) /\ c # "shin" /\ ~Merges(u, c)
<1> DEFINE t == Append(u, c)
           n == Len(u)
<1>1. /\ t \in Seq(Chars) /\ Len(t) = n + 1 /\ t[n + 1] = c /\ n \in Nat
      /\ \A i \in 1..n : t[i] = u[i]
  BY LenProperties, AppendProperties
<1>2. Merges(u, c) <=> n # 0 /\ u[n] = "e" /\ c = "acute"
  BY EmptySeq DEF Merges, Last
<1> HIDE DEF t, n
<1>3. ASSUME Composed(t) PROVE Composed(u) /\ c # "shin" /\ ~Merges(u, c)
  <2>1. ASSUME NEW i \in 1..n
        PROVE  u[i] # "shin" /\ (u[i] = "e" /\ i < n => u[i + 1] # "acute")
    <3>1. i \in 1..Len(t) /\ t[i] = u[i] /\ (i < n => i + 1 \in 1..n) /\ (i < n => i < Len(t))
      BY <1>1
    <3> QED BY <1>1, <1>3, <3>1 DEF Composed
  <2>2. c # "shin"
    <3>1. n + 1 \in 1..Len(t)
      BY <1>1
    <3> QED BY <1>1, <1>3, <3>1 DEF Composed
  <2>3. ~Merges(u, c)
    <3> SUFFICES ASSUME n # 0, u[n] = "e", c = "acute" PROVE FALSE
      BY <1>2
    <3>1. n \in 1..n /\ n \in 1..Len(t) /\ n < Len(t)
      BY <1>1
    <3> QED BY <1>1, <1>3, <3>1 DEF Composed
  <2> QED BY <2>1, <2>2, <2>3 DEF Composed, n
<1>4. ASSUME Composed(u), c # "shin", ~Merges(u, c) PROVE Composed(t)
  <2> SUFFICES ASSUME NEW i \in 1..Len(t)
               PROVE  t[i] # "shin" /\ (t[i] = "e" /\ i < Len(t) => t[i + 1] # "acute")
    BY DEF Composed
  <2>1. CASE i = n + 1
    BY <1>1, <1>4, <2>1
  <2>2. CASE i = n
    <3>1. n # 0 /\ i \in 1..n
      BY <1>1, <2>2
    <3>2. t[i] = u[i] /\ u[i] # "shin"
      BY <1>1, <1>4, <3>1 DEF Composed, n
    <3> QED BY <1>1, <1>2, <1>4, <2>2, <3>1, <3>2
  <2>3. CASE i < n
    <3>1. i \in 1..n /\ i + 1 \in 1..n
      BY <1>1, <2>3
    <3>2. u[i] # "shin" /\ (u[i] = "e" => u[i + 1] # "acute")
      BY <1>4, <2>3, <3>1 DEF Composed, n
    <3> QED BY <1>1, <3>1, <3>2
  <2> QED BY <1>1, <2>1, <2>2, <2>3
<1> QED BY <1>3, <1>4 DEF t

(* Nothing is composed. *)
LEMMA ComposedEmpty == Composed(<<>>)
BY DEF Composed

(* Composing makes composed text. *)
LEMMA MakesComposed == \A d \in Seq(Plain) : Composed(ComposeAll(d))
<1> DEFINE P == {d \in Seq(Plain) : Composed(ComposeAll(d))}
<1>1. <<>> \in P
  BY Started0, ComposedEmpty, EmptySeq
<1>2. ASSUME NEW d \in Seq(Plain), NEW c \in Plain, d \in P PROVE Append(d, c) \in P
  <2> DEFINE x == ComposeAll(d)
  <2>0. d \in Seq(Chars) /\ c \in Chars /\ Append(d, c) \in Seq(Plain)
    BY ApartIs, SeqMonotonic, AppendProperties
  <2>1. x \in Seq(Chars) /\ Composed(x) /\ ComposeAll(Append(d, c)) = Compose(x, c)
    BY <1>2, <2>0, ComposeAppend
  <2> HIDE DEF x
  <2>2. CASE Merges(x, c)
    <3>1. PICK y \in Seq(Chars), z \in Chars : x = Append(y, z)
      BY <2>1, <2>2, SequenceEmptyOrAppend DEF Merges
    <3>2. Front(x) = y
      BY <3>1, Splitting
    <3>3. Compose(x, c) = Append(y, "eacute")
      BY <2>2, <3>2 DEF Compose, Merges
    <3>4. Composed(y)
      BY <2>1, <3>1, ComposedAppend
    <3>5. Composed(Append(y, "eacute"))
      <4>1. "eacute" \in Chars /\ "eacute" # "shin" /\ ~Merges(y, "eacute")
        BY DEF Chars, Merges
      <4> QED BY <3>4, <4>1, ComposedAppend
    <3> QED BY <2>0, <2>1, <3>3, <3>5
  <2>3. CASE ~Merges(x, c)
    <3>1. Compose(x, c) = Append(x, c) /\ c # "shin"
      BY <2>3 DEF Compose, Merges, Plain
    <3> QED BY <2>0, <2>1, <2>3, <3>1, ComposedAppend
  <2> QED BY <2>2, <2>3
<1>3. Seq(Plain) \subseteq P
  <2> HIDE DEF P
  <2> QED BY <1>1, <1>2, Appending
<1> QED BY <1>3

(* NFC leaves composed text alone. *)
LEMMA ComposedStays == \A t \in Seq(Chars) : Composed(t) => NFC(t) = t
<1> DEFINE P == {t \in Seq(Chars) : Composed(t) => ComposeAll(Decomposed(t)) = t}
<1>1. <<>> \in P
  BY Started0, DecomposedStep, EmptySeq
<1>2. ASSUME NEW u \in Seq(Chars), NEW c \in Chars, u \in P PROVE Append(u, c) \in P
  <2>0. Append(u, c) \in Seq(Chars)
    BY AppendProperties
  <2> SUFFICES ASSUME Composed(Append(u, c))
               PROVE  ComposeAll(Decomposed(Append(u, c))) = Append(u, c)
    BY <2>0
  <2>1. Composed(u) /\ c # "shin" /\ ~Merges(u, c)
    BY ComposedAppend
  <2> DEFINE d == Decomposed(u)
  <2>2. d \in Seq(Chars) /\ ComposeAll(d) = u /\ Decomposed(Append(u, c)) = d \o Apart[c]
    BY <1>2, <2>1, DecomposedStep
  <2> HIDE DEF d
  <2>3. CASE c # "eacute"
    <3>1. Apart[c] = <<c>> /\ d \o <<c>> = Append(d, c)
      BY <2>1, <2>2, <2>3, ApartIs, AppendIsConcat DEF Plain
    <3>2. ComposeAll(Append(d, c)) = Compose(u, c)
      BY <2>2, ComposeAppend
    <3> QED BY <2>1, <2>2, <3>1, <3>2 DEF Compose, Merges
  <2>4. CASE c = "eacute"
    <3>0. "e" \in Chars /\ "acute" \in Chars
      BY DEF Chars
    <3> DEFINE f == Append(d, "e")
    <3>1. f \in Seq(Chars) /\ d \o <<"e", "acute">> = Append(f, "acute")
      <4>1. f = d \o <<"e">> /\ f \in Seq(Chars) /\ Append(<<"e">>, "acute") = <<"e", "acute">>
            /\ <<"e">> \in Seq(Chars) /\ <<"acute">> \in Seq(Chars)
        BY <2>2, <3>0, AppendIsConcat, AppendProperties, Pairs
      <4> HIDE DEF f
      <4>2. Append(f, "acute") = f \o <<"acute">> /\ Append(<<"e">>, "acute") = <<"e">> \o <<"acute">>
        BY <3>0, <4>1, AppendIsConcat
      <4>3. (d \o <<"e">>) \o <<"acute">> = d \o (<<"e">> \o <<"acute">>)
        BY <2>2, <4>1, ConcatAssociative
      <4> QED BY <4>1, <4>2, <4>3
    <3>2. ComposeAll(f) = Compose(u, "e")
      BY <2>2, <3>0, ComposeAppend
    <3> HIDE DEF f
    <3>3. ComposeAll(Append(f, "acute")) = Compose(ComposeAll(f), "acute")
      BY <3>0, <3>1, ComposeAppend
    <3>4. Compose(u, "e") = Append(u, "e")
      BY DEF Compose
    <3>5. Compose(Append(u, "e"), "acute") = Append(u, "eacute")
      BY <3>0, Splitting DEF Compose
    <3> QED BY <2>2, <2>4, <3>1, <3>2, <3>3, <3>4, <3>5, ApartIs
  <2> QED BY <2>3, <2>4
<1>3. Seq(Chars) \subseteq P
  <2> HIDE DEF P
  <2> QED BY <1>1, <1>2, Appending
<1> QED BY <1>3 DEF NFC, ComposeAll

-----------------------------------------------------------------------------
(* Newlines: no three in a row. *)
TwoAtEnd(t) == Len(t) >= 2 /\ t[Len(t)] = NL /\ t[Len(t) - 1] = NL
Sparse(t) == \A i \in 1..(Len(t) - 2) : ~(t[i] = NL /\ t[i + 1] = NL /\ t[i + 2] = NL)

(* A newline is dropped after two newlines, nothing else is. *)
LEMMA KeepTwoIs ==
  ASSUME NEW t \in Seq(Chars), NEW c \in Chars
  PROVE  KeepTwo(t, c) = IF c = NL /\ TwoAtEnd(t) THEN t ELSE Append(t, c)
<1> DEFINE p == <<NL, NL>>
           n == Len(t)
           a == SubSeq(Reverse(p), 1, Len(Reverse(p)))
           b == SubSeq(Reverse(t), 1, Len(Reverse(p)))
<1>1. NL \in Chars /\ n \in Nat
  BY DEF Chars
<1>2. Reverse(p) \in Seq(Chars) /\ Len(Reverse(p)) = 2 /\ Reverse(p)[1] = NL /\ Reverse(p)[2] = NL
  <2>1. p \in Seq(Chars) /\ Len(p) = 2 /\ p[1] = NL /\ p[2] = NL
    BY <1>1
  <2> HIDE DEF p
  <2>2. Reverse(p) = [i \in 1..2 |-> p[(2 - i) + 1]]
    BY <2>1 DEF Reverse
  <2>3. \A i \in 1..2 : p[(2 - i) + 1] = NL
    <3> SUFFICES ASSUME NEW i \in 1..2 PROVE p[(2 - i) + 1] = NL
      OBVIOUS
    <3>1. (2 - i) + 1 = 1 \/ (2 - i) + 1 = 2
      OBVIOUS
    <3> QED BY <2>1, <3>1
  <2>4. Reverse(p) = [i \in 1..2 |-> NL]
    BY <2>2, <2>3, Zenon
  <2>5. [i \in 1..2 |-> NL] \in Seq(Chars) /\ Len([i \in 1..2 |-> NL]) = 2
        /\ [i \in 1..2 |-> NL][1] = NL /\ [i \in 1..2 |-> NL][2] = NL
    BY <1>1
  <2> QED BY <2>4, <2>5
<1>3. /\ Reverse(t) \in Seq(Chars) /\ Len(Reverse(t)) = n
      /\ \A i \in 1..n : Reverse(t)[i] = t[(n - i) + 1]
  <2>1. \A i \in 1..n : (n - i) + 1 \in 1..n
    BY <1>1
  <2>2. \A i \in 1..n : t[(n - i) + 1] \in Chars
    BY <2>1, ElementOfSeq
  <2> QED BY <1>1, <2>2 DEF Reverse
<1> HIDE DEF p, n
<1>4. n >= 2 => (a = b <=> TwoAtEnd(t))
  <2> SUFFICES ASSUME n >= 2 PROVE a = b <=> TwoAtEnd(t)
    OBVIOUS
  <2>1. a \in Seq(Chars) /\ Len(a) = 2 /\ a[1] = NL /\ a[2] = NL
    <3> DEFINE r == Reverse(p)
    <3>1. r \in Seq(Chars) /\ Len(r) = 2 /\ r[1] = NL /\ r[2] = NL
      BY <1>2
    <3> HIDE DEF r
    <3>2. SubSeq(r, 1, Len(r)) = r
      BY <3>1, SubSeqFull
    <3> QED BY <3>1, <3>2 DEF r
  <2>2. b \in Seq(Chars) /\ Len(b) = 2 /\ b[1] = t[n] /\ b[2] = t[n - 1]
    <3>1. b \in Seq(Chars) /\ Len(b) = 2 /\ b[1] = Reverse(t)[1] /\ b[2] = Reverse(t)[2]
      BY <1>1, <1>2, <1>3
    <3>2. (n - 1) + 1 = n /\ (n - 2) + 1 = n - 1 /\ 1 \in 1..n /\ 2 \in 1..n
      BY <1>1
    <3> QED BY <1>3, <3>1, <3>2
  <2> HIDE DEF a, b
  <2>3. a = b <=> t[n] = NL /\ t[n - 1] = NL
    <3>1. ASSUME t[n] = NL, t[n - 1] = NL PROVE a = b
      <4>1. \A i \in 1..2 : a[i] = b[i]
        BY <2>1, <2>2, <3>1
      <4> QED BY <2>1, <2>2, <4>1, SeqEqual
    <3> QED BY <2>1, <2>2, <3>1
  <2> QED BY <2>3 DEF TwoAtEnd, n
<1>5. IsSuffix(<<NL, NL>>, t) <=> 2 <= n /\ a = b
  BY <1>2, <1>3 DEF IsSuffix, IsPrefix, p
<1>6. TwoAtEnd(t) => n >= 2
  BY DEF TwoAtEnd, n
<1> HIDE DEF a, b
<1>7. IsSuffix(<<NL, NL>>, t) <=> TwoAtEnd(t)
  BY <1>1, <1>4, <1>5, <1>6
<1> QED BY <1>7 DEF KeepTwo

(* One more character keeps newlines sparse unless it is the third. *)
LEMMA SparseAppend ==
  ASSUME NEW u \in Seq(Chars), NEW c \in Chars
  PROVE  Sparse(Append(u, c)) <=> Sparse(u) /\ ~(c = NL /\ TwoAtEnd(u))
<1> DEFINE t == Append(u, c)
           n == Len(u)
<1>1. /\ Len(t) = n + 1 /\ t[n + 1] = c /\ n \in Nat /\ \A i \in 1..n : t[i] = u[i]
  BY LenProperties, AppendProperties
<1> HIDE DEF t, n
<1>2. ASSUME Sparse(t) PROVE Sparse(u) /\ ~(c = NL /\ TwoAtEnd(u))
  <2>1. ASSUME NEW i \in 1..(n - 2) PROVE ~(u[i] = NL /\ u[i + 1] = NL /\ u[i + 2] = NL)
    <3>1. i \in 1..(Len(t) - 2) /\ i \in 1..n /\ i + 1 \in 1..n /\ i + 2 \in 1..n
      BY <1>1
    <3>2. ~(t[i] = NL /\ t[i + 1] = NL /\ t[i + 2] = NL)
      BY <1>2, <3>1 DEF Sparse
    <3> QED BY <1>1, <3>1, <3>2
  <2>2. ~(c = NL /\ TwoAtEnd(u))
    <3> SUFFICES ASSUME c = NL, n >= 2, u[n] = NL, u[n - 1] = NL PROVE FALSE
      BY DEF TwoAtEnd, n
    <3>1. n - 1 \in 1..(Len(t) - 2) /\ n - 1 \in 1..n /\ n \in 1..n /\ (n - 1) + 1 = n
          /\ (n - 1) + 2 = n + 1
      BY <1>1
    <3>2. ~(t[n - 1] = NL /\ t[(n - 1) + 1] = NL /\ t[(n - 1) + 2] = NL)
      BY <1>2, <3>1 DEF Sparse
    <3> QED BY <1>1, <3>1, <3>2
  <2> QED BY <2>1, <2>2 DEF Sparse, n
<1>3. ASSUME Sparse(u), ~(c = NL /\ TwoAtEnd(u)) PROVE Sparse(t)
  <2> SUFFICES ASSUME NEW i \in 1..(Len(t) - 2), t[i] = NL, t[i + 1] = NL, t[i + 2] = NL PROVE FALSE
    BY DEF Sparse
  <2>1. CASE i = n - 1
    <3>1. i \in 1..n /\ i + 1 \in 1..n /\ i + 1 = n /\ i + 2 = n + 1 /\ n >= 2
      BY <1>1, <2>1
    <3>2. c = NL /\ u[n] = NL /\ u[n - 1] = NL
      BY <1>1, <2>1, <3>1
    <3> QED BY <1>3, <3>1, <3>2 DEF TwoAtEnd, n
  <2>2. CASE i # n - 1
    <3>1. i \in 1..(n - 2) /\ i \in 1..n /\ i + 1 \in 1..n /\ i + 2 \in 1..n
      BY <1>1, <2>2
    <3>2. u[i] = NL /\ u[i + 1] = NL /\ u[i + 2] = NL
      BY <1>1, <3>1
    <3> QED BY <1>3, <3>1, <3>2 DEF Sparse, n
  <2> QED BY <2>1, <2>2
<1> QED BY <1>2, <1>3 DEF t

(* Nothing has no newlines. *)
LEMMA SparseEmpty == Sparse(<<>>)
BY DEF Sparse

(* What is kept of a text is a text. *)
LEMMA KeepAllType == \A t \in Seq(Chars) : KeepAll(t) \in Seq(Chars)
<1>1. Space \in Chars
  BY DEF Chars
<1> QED BY <1>1, KeepAppend

(* The last character survives, or ends what is kept as it ended the text. *)
LEMMA SameEnd ==
  \A t \in Seq(Chars) : KeepAll(t) # <<>> => t # <<>> /\ Last(KeepAll(t)) = Last(t)
<1> DEFINE P == {t \in Seq(Chars) : KeepAll(t) # <<>> => t # <<>> /\ Last(KeepAll(t)) = Last(t)}
<1>1. <<>> \in P
  BY Started0, EmptySeq
<1>2. ASSUME NEW t \in Seq(Chars), NEW c \in Chars, t \in P PROVE Append(t, c) \in P
  <2>1. /\ Append(t, c) \in Seq(Chars) /\ Append(t, c) # <<>> /\ Last(Append(t, c)) = c
        /\ KeepAll(t) \in Seq(Chars) /\ KeepAll(Append(t, c)) = KeepTwo(KeepAll(t), c)
    BY Splitting, KeepAppend
  <2> DEFINE k == KeepAll(t)
  <2>2. KeepTwo(k, c) = IF c = NL /\ TwoAtEnd(k) THEN k ELSE Append(k, c)
    BY <2>1, KeepTwoIs
  <2>3. Last(Append(k, c)) = c
    BY <2>1, Splitting
  <2>4. TwoAtEnd(k) => Last(k) = NL
    BY DEF TwoAtEnd, Last
  <2> HIDE DEF k
  <2>5. Last(KeepTwo(k, c)) = c
    BY <2>2, <2>3, <2>4
  <2> QED BY <2>1, <2>5 DEF k
<1>3. Seq(Chars) \subseteq P
  <2> HIDE DEF P
  <2> QED BY <1>1, <1>2, Appending
<1> QED BY <1>3

(* Dropping newlines brings nothing together that composes. *)
LEMMA KeepsComposed == \A t \in Seq(Chars) : Composed(t) => Composed(KeepAll(t))
<1> DEFINE P == {t \in Seq(Chars) : Composed(t) => Composed(KeepAll(t))}
<1>1. <<>> \in P
  BY Started0, EmptySeq
<1>2. ASSUME NEW t \in Seq(Chars), NEW c \in Chars, t \in P PROVE Append(t, c) \in P
  <2>1. /\ Append(t, c) \in Seq(Chars)
        /\ KeepAll(t) \in Seq(Chars) /\ KeepAll(Append(t, c)) = KeepTwo(KeepAll(t), c)
    BY AppendProperties, KeepAppend
  <2> SUFFICES ASSUME Composed(Append(t, c)) PROVE Composed(KeepAll(Append(t, c)))
    BY <2>1
  <2>2. Composed(t) /\ c # "shin" /\ ~Merges(t, c)
    BY ComposedAppend
  <2> DEFINE k == KeepAll(t)
  <2>3. KeepTwo(k, c) = k \/ KeepTwo(k, c) = Append(k, c)
    BY <2>1, KeepTwoIs
  <2>4. Composed(k) /\ ~Merges(k, c)
    BY <1>2, <2>2, SameEnd DEF Merges
  <2>5. Composed(Append(k, c))
    <3> HIDE DEF k
    <3>1. k \in Seq(Chars)
      BY <2>1 DEF k
    <3> QED BY <2>2, <2>4, <3>1, ComposedAppend
  <2> QED BY <2>1, <2>3, <2>4, <2>5
<1>3. Seq(Chars) \subseteq P
  <2> HIDE DEF P
  <2> QED BY <1>1, <1>2, Appending
<1> QED BY <1>3

(* What is kept has no three newlines in a row. *)
LEMMA MakesSparse == \A t \in Seq(Chars) : Sparse(KeepAll(t))
<1> DEFINE P == {t \in Seq(Chars) : Sparse(KeepAll(t))}
<1>1. <<>> \in P
  BY Started0, SparseEmpty, EmptySeq
<1>2. ASSUME NEW t \in Seq(Chars), NEW c \in Chars, t \in P PROVE Append(t, c) \in P
  <2> DEFINE k == KeepAll(t)
  <2>1. /\ Append(t, c) \in Seq(Chars) /\ k \in Seq(Chars) /\ Sparse(k)
        /\ KeepAll(Append(t, c)) = KeepTwo(k, c)
    BY <1>2, AppendProperties, KeepAppend
  <2> HIDE DEF k
  <2>2. Sparse(KeepTwo(k, c))
    <3>1. CASE c = NL /\ TwoAtEnd(k)
      BY <2>1, <3>1, KeepTwoIs
    <3>2. CASE ~(c = NL /\ TwoAtEnd(k))
      <4>1. KeepTwo(k, c) = Append(k, c)
        BY <2>1, <3>2, KeepTwoIs
      <4> QED BY <2>1, <3>2, <4>1, SparseAppend
    <3> QED BY <3>1, <3>2
  <2> QED BY <2>1, <2>2
<1>3. Seq(Chars) \subseteq P
  <2> HIDE DEF P
  <2> QED BY <1>1, <1>2, Appending
<1> QED BY <1>3

(* Text without three in a row is kept whole. *)
LEMMA SparseStays == \A t \in Seq(Chars) : Sparse(t) => KeepAll(t) = t
<1> DEFINE P == {t \in Seq(Chars) : Sparse(t) => KeepAll(t) = t}
<1>1. <<>> \in P
  BY Started0, EmptySeq
<1>2. ASSUME NEW t \in Seq(Chars), NEW c \in Chars, t \in P PROVE Append(t, c) \in P
  <2>1. Append(t, c) \in Seq(Chars) /\ KeepAll(Append(t, c)) = KeepTwo(KeepAll(t), c)
    BY AppendProperties, KeepAppend
  <2>2. Sparse(Append(t, c)) => Sparse(t) /\ ~(c = NL /\ TwoAtEnd(t))
    BY SparseAppend
  <2> QED BY <1>2, <2>1, <2>2, KeepTwoIs
<1>3. Seq(Chars) \subseteq P
  <2> HIDE DEF P
  <2> QED BY <1>1, <1>2, Appending
<1> QED BY <1>3

(* Normalisation is NFC, then the newlines. *)
LEMMA NormalizeIs == \A t : Normalize(t) = KeepAll(NFC(t))
BY DEF Normalize, KeepAll

(* Normalised text is composed, has no three newlines in a row, and is     *)
(* left alone by another normalisation.                                    *)
LEMMA Normalized ==
  ASSUME NEW t \in Seq(Chars)
  PROVE  /\ Normalize(t) \in Seq(Chars) /\ Sparse(Normalize(t))
         /\ Normalize(Normalize(t)) = Normalize(t)
<1> DEFINE u == NFC(t)
           v == KeepAll(u)
<1>1. u \in Seq(Chars)
  BY NFCKeepsDecomposition
<1>2. Composed(u)
  <2>1. Decomposed(t) \in Seq(Plain)
    BY DecomposedStep
  <2> QED BY <2>1, MakesComposed DEF NFC, ComposeAll
<1> HIDE DEF u
<1>3. v \in Seq(Chars) /\ Composed(v) /\ Sparse(v)
  BY <1>1, <1>2, KeepAllType, KeepsComposed, MakesSparse
<1> HIDE DEF v
<1>4. NFC(v) = v /\ KeepAll(v) = v
  BY <1>3, ComposedStays, SparseStays
<1>5. Normalize(t) = v
  BY NormalizeIs DEF u, v
<1> QED BY <1>3, <1>4, <1>5, NormalizeIs

-----------------------------------------------------------------------------
(* Normalisation makes three characters of one at most. *)
LEMMA DecomposedLength == \A t \in Seq(Chars) : Len(Decomposed(t)) <= 3 * Len(t)
<1> DEFINE P == {t \in Seq(Chars) : Len(Decomposed(t)) <= 3 * Len(t)}
<1>1. <<>> \in P
  BY DecomposedStep, EmptySeq
<1>2. ASSUME NEW t \in Seq(Chars), NEW c \in Chars, t \in P PROVE Append(t, c) \in P
  <2> DEFINE d == Decomposed(t)
             a == Apart[c]
  <2>1. /\ Append(t, c) \in Seq(Chars) /\ Len(Append(t, c)) = Len(t) + 1
        /\ d \in Seq(Plain) /\ Decomposed(Append(t, c)) = d \o a
    BY AppendProperties, DecomposedStep
  <2>2. a \in Seq(Plain) /\ Len(a) \in 1..3
    BY ApartIs DEF Maps
  <2>3. Len(d) <= 3 * Len(t)
    BY <1>2
  <2> HIDE DEF d, a
  <2>4. Len(d \o a) = Len(d) + Len(a) /\ Len(d) \in Nat /\ Len(t) \in Nat
    BY <2>1, <2>2, ConcatProperties, LenProperties
  <2>5. Len(d \o a) <= 3 * (Len(t) + 1)
    <3>1. \A l, m, n \in Nat : m <= 3 * l /\ n <= 3 => m + n <= 3 * (l + 1)
      OBVIOUS
    <3>2. Len(a) \in Nat /\ Len(a) <= 3
      <4>1. \A x \in 1..3 : x \in Nat /\ x <= 3
        OBVIOUS
      <4> QED BY <2>2, <4>1, Zenon
    <3> QED BY <2>3, <2>4, <3>1, <3>2
  <2> QED BY <2>1, <2>5
<1>3. Seq(Chars) \subseteq P
  <2> HIDE DEF P
  <2> QED BY <1>1, <1>2, Appending
<1> QED BY <1>3

(* Neither fold makes a text longer. *)
LEMMA FoldsShorten ==
  \A t \in Seq(Chars) : Len(ComposeAll(t)) <= Len(t) /\ Len(KeepAll(t)) <= Len(t)
<1> DEFINE P == {t \in Seq(Chars) : Len(ComposeAll(t)) <= Len(t) /\ Len(KeepAll(t)) <= Len(t)}
<1>1. <<>> \in P
  BY Started0, EmptySeq
<1>2. ASSUME NEW t \in Seq(Chars), NEW c \in Chars, t \in P PROVE Append(t, c) \in P
  <2> DEFINE x == ComposeAll(t)
             k == KeepAll(t)
  <2>1. /\ Append(t, c) \in Seq(Chars) /\ Len(Append(t, c)) = Len(t) + 1 /\ Len(t) \in Nat
        /\ x \in Seq(Chars) /\ k \in Seq(Chars) /\ Len(x) <= Len(t) /\ Len(k) <= Len(t)
        /\ ComposeAll(Append(t, c)) = Compose(x, c) /\ KeepAll(Append(t, c)) = KeepTwo(k, c)
    BY <1>2, AppendProperties, ComposeAppend, KeepAppend, LenProperties
  <2> HIDE DEF x, k
  <2>2. Len(KeepTwo(k, c)) <= Len(t) + 1
    BY <2>1, KeepTwoIs, AppendProperties, LenProperties
  <2>3. Len(Compose(x, c)) <= Len(t) + 1
    <3>1. CASE Merges(x, c)
      <4>1. Compose(x, c) = Append(Front(x), "eacute") /\ "eacute" \in Chars
        BY <3>1 DEF Compose, Merges, Chars
      <4>2. Front(x) \in Seq(Chars) /\ Len(Front(x)) <= Len(x)
        BY <2>1, <3>1 DEF Front, Merges
      <4>3. Len(Append(Front(x), "eacute")) = Len(Front(x)) + 1
        BY <4>1, <4>2, AppendProperties
      <4> QED BY <2>1, <4>1, <4>2, <4>3, LenProperties
    <3>2. CASE ~Merges(x, c)
      <4>1. Compose(x, c) = Append(x, c) /\ Len(Append(x, c)) = Len(x) + 1
        BY <2>1, <3>2, AppendProperties DEF Compose, Merges
      <4> QED BY <2>1, <4>1, LenProperties
    <3> QED BY <3>1, <3>2
  <2> QED BY <2>1, <2>2, <2>3
<1>3. Seq(Chars) \subseteq P
  <2> HIDE DEF P
  <2> QED BY <1>1, <1>2, Appending
<1> QED BY <1>3

(* So normalised text is three times as long at most. *)
LEMMA NormalizeLength == \A t \in Seq(Chars) : Len(Normalize(t)) <= 3 * Len(t)
<1> TAKE t \in Seq(Chars)
<1> DEFINE d == Decomposed(t)
           u == ComposeAll(d)
           v == KeepAll(u)
<1>1. d \in Seq(Chars) /\ Len(d) <= 3 * Len(t)
  BY DecomposedStep, DecomposedLength
<1>2. u \in Seq(Chars)
  BY NFCKeepsDecomposition DEF NFC, ComposeAll
<1>3. Len(u) <= Len(d) /\ Len(v) <= Len(u) /\ v \in Seq(Chars)
  BY <1>1, <1>2, FoldsShorten, KeepAllType
<1>4. Normalize(t) = v
  BY NormalizeIs DEF NFC, ComposeAll
<1> HIDE DEF d, u, v
<1> QED BY <1>1, <1>2, <1>3, <1>4, LenProperties

-----------------------------------------------------------------------------
(* Stripping takes blanks off both ends, and leaves none there. *)
Trim(t) == t # <<>> => t[1] # Space /\ t[Len(t)] # Space

(* A non-empty set of positions has a first and a last. *)
LEMMA Edges ==
  ASSUME NEW I, NEW n \in Nat, I \subseteq 1..n, I # {}
  PROVE  /\ Min(I) \in I /\ \A i \in I : Min(I) <= i
         /\ Max(I) \in I /\ \A i \in I : Max(I) >= i
<1>1. I \subseteq Nat
  OBVIOUS
<1>2. \E i \in I : \A j \in I : i <= j
  BY <1>1, Least
<1> QED BY <1>2, Greatest DEF Min

(* Cutting a sequence in two. *)
LEMMA Slice ==
  ASSUME NEW S, NEW t \in Seq(S), NEW m \in 1..(Len(t) + 1), NEW n \in (m - 1)..Len(t)
  PROVE  /\ SubSeq(t, m, n) \in Seq(S) /\ Len(SubSeq(t, m, n)) = (n - m) + 1
         /\ \A i \in 1..((n - m) + 1) : SubSeq(t, m, n)[i] = t[(m + i) - 1]
<1>0. Len(t) \in Nat /\ \A i \in 1..Len(t) : t[i] \in S
  BY LenProperties, ElementOfSeq
<1>1. /\ Len(SubSeq(t, m, n)) = (n - m) + 1
      /\ \A i \in 1..((n - m) + 1) : SubSeq(t, m, n)[i] = t[(m + i) - 1]
  <2>1. CASE m <= n
    BY <1>0, <2>1
  <2>2. CASE n < m
    <3>1. SubSeq(t, m, n) = <<>> /\ (n - m) + 1 = 0
      BY <1>0, <2>2, SubSeqEmpty
    <3> QED BY <3>1
  <2> QED BY <1>0, <2>1, <2>2
<1>2. SubSeq(t, m, n) \in Seq(S)
  <2>1. CASE m <= n
    BY <1>0, <2>1, SubSeqProperties
  <2>2. CASE n < m
    <3>1. SubSeq(t, m, n) = <<>>
      BY <1>0, <2>2, SubSeqEmpty
    <3> QED BY <3>1, EmptySeq
  <2> QED BY <1>0, <2>1, <2>2
<1> QED BY <1>1, <1>2

(* Strip() cuts the text at its first and its last character that is no    *)
(* blank.                                                                  *)
LEMMA Stripped ==
  ASSUME NEW S, NEW t \in Seq(S), Core(t) # {}
  PROVE  LET m == Min(Core(t)) n == Max(Core(t))
         IN  /\ m \in 1..n /\ n \in 1..Len(t) /\ Strip(t) = SubSeq(t, m, n)
             /\ Strip(t) \in Seq(S) /\ Len(Strip(t)) = (n - m) + 1
             /\ \A i \in 1..Len(Strip(t)) : Strip(t)[i] = t[(m + i) - 1]
             /\ Strip(t) # <<>> /\ Strip(t)[1] # Space /\ Strip(t)[Len(Strip(t))] # Space
             /\ SubSeq(t, 1, m - 1) \in Seq({Space}) /\ SubSeq(t, n + 1, Len(t)) \in Seq({Space})
             /\ t = (SubSeq(t, 1, m - 1) \o Strip(t)) \o SubSeq(t, n + 1, Len(t))
<1> DEFINE m == Min(Core(t))
           n == Max(Core(t))
           l == Len(t)
           a == SubSeq(t, 1, m - 1)
           s == SubSeq(t, m, n)
           b == SubSeq(t, n + 1, Len(t))
<1>0. l \in Nat /\ DOMAIN t = 1..l /\ \A i \in 1..l : t[i] \in S
  BY LenProperties, ElementOfSeq
<1>1. Core(t) \subseteq 1..l /\ \A i \in 1..l : i \in Core(t) <=> t[i] # Space
  BY <1>0 DEF Core
<1>2. m \in Core(t) /\ n \in Core(t) /\ \A i \in Core(t) : m <= i /\ n >= i
  BY <1>0, <1>1, Edges
<1> HIDE DEF m, n, l
<1>3. m \in 1..n /\ n \in 1..l /\ t[m] # Space /\ t[n] # Space
      /\ \A i \in 1..l : i < m \/ i > n => t[i] = Space
  <2>1. ASSUME NEW i \in 1..l, i < m \/ i > n PROVE t[i] = Space
    <3>1. ~(m <= i /\ n >= i)
      BY <1>0, <1>1, <1>2, <2>1
    <3> QED BY <1>1, <1>2, <3>1
  <2> QED BY <1>0, <1>1, <1>2, <2>1
<1>4. Strip(t) = s
  BY DEF Strip, m, n
<1>5. /\ s \in Seq(S) /\ Len(s) = (n - m) + 1 /\ \A i \in 1..Len(s) : s[i] = t[(m + i) - 1]
  <2>1. \A i \in m..n : t[i] \in S
    BY <1>0, <1>3
  <2>2. Len(s) = (n - m) + 1 /\ \A i \in 1..((n - m) + 1) : s[i] = t[(m + i) - 1]
    BY <1>0, <1>3 DEF l
  <2>3. s \in Seq(S)
    BY <1>0, <1>3, SubSeqProperties DEF l
  <2> QED BY <2>2, <2>3
<1>6. s # <<>> /\ s[1] # Space /\ s[Len(s)] # Space
  <2> HIDE DEF s
  <2>1. Len(s) \in Nat /\ Len(s) >= 1 /\ (m + 1) - 1 = m /\ (m + Len(s)) - 1 = n
    BY <1>0, <1>3, <1>5
  <2> QED BY <1>3, <1>5, <2>1
<1>7. a \in Seq({Space})
  <2>1. \A i \in 1..(m - 1) : t[i] = Space
    BY <1>0, <1>3
  <2>2. a = [i \in 1..(m - 1) |-> t[i]] /\ m - 1 \in Nat
    BY <1>0, <1>3 DEF l
  <2>3. \A i \in 1..(m - 1) : t[i] \in {Space}
    BY <2>1
  <2> HIDE DEF a
  <2> QED BY <2>2, <2>3
<1>8. b \in Seq({Space})
  <2>1. Len(b) = l - n /\ l - n \in Nat /\ (\A i \in 1..(l - n) : b[i] = t[n + i]) /\ b \in Seq(S)
    <3>1. n + 1 \in 1..(l + 1) /\ l \in ((n + 1) - 1)..l /\ (l - (n + 1)) + 1 = l - n /\ l - n \in Nat
          /\ \A i \in Nat : ((n + 1) + i) - 1 = n + i
      BY <1>0, <1>3
    <3>2. /\ b \in Seq(S) /\ Len(b) = (l - (n + 1)) + 1
          /\ \A i \in 1..((l - (n + 1)) + 1) : b[i] = t[((n + 1) + i) - 1]
      BY <3>1, Slice DEF l
    <3>3. b \in Seq(S) /\ Len(b) = l - n /\ \A i \in 1..(l - n) : b[i] = t[((n + 1) + i) - 1]
      <4> HIDE DEF b
      <4> QED BY <3>1, <3>2, Zenon
    <3>4. \A i \in 1..(l - n) : ((n + 1) + i) - 1 = n + i
      BY <3>1
    <3> HIDE DEF b
    <3> QED BY <3>1, <3>3, <3>4, Zenon
  <2>3. \A i \in 1..(l - n) : t[n + i] = Space
    BY <1>0, <1>3
  <2> HIDE DEF b
  <2>4. \A i \in 1..Len(b) : b[i] \in {Space}
    BY <2>1, <2>3
  <2>5. b = [i \in 1..Len(b) |-> b[i]] /\ Len(b) \in Nat
    BY <2>1, LenProperties
  <2> QED BY <2>4, <2>5
<1>9. t = (a \o s) \o b
  <2>1. a \o s = SubSeq(t, 1, n)
    <3>1. 1 \in 1..(l + 1) /\ m - 1 \in (1 - 1)..l /\ n \in (m - 1)..l /\ (m - 1) + 1 = m
      BY <1>0, <1>3
    <3>2. SubSeq(t, 1, m - 1) \o SubSeq(t, (m - 1) + 1, n) = SubSeq(t, 1, n)
      BY <3>1, ConcatAdjacentSubSeq DEF l
    <3> QED BY <3>1, <3>2
  <2>2. SubSeq(t, 1, n) \o b = t
    <3>1. 1 \in 1..(l + 1) /\ n \in (1 - 1)..l /\ l \in n..l
      BY <1>0, <1>3
    <3>2. SubSeq(t, 1, n) \o b = SubSeq(t, 1, l)
      BY <3>1, ConcatAdjacentSubSeq DEF l
    <3> QED BY <3>2, SubSeqFull DEF l
  <2> QED BY <2>1, <2>2
<1> QED BY <1>3, <1>4, <1>5, <1>6, <1>7, <1>8, <1>9 DEF m, n, l

-----------------------------------------------------------------------------
(* The letters of a text: concatenation respects them, marks have none. *)
Visible == [c \in Chars |-> IF c \notin Marks THEN <<c>> ELSE <<>>]
L == [t \in Seq(Chars) |-> Letters(t)]

(* Every character is shown or silent; marks are plain. *)
LEMMA VisibleMaps == Maps(Visible, Chars, Seq(Chars)) /\ Marks \subseteq Plain
<1>1. \A c \in Chars : (IF c \notin Marks THEN <<c>> ELSE <<>>) \in Seq(Chars)
  BY EmptySeq
<1>2. Visible \in [Chars -> Seq(Chars)]
  BY <1>1 DEF Visible
<1>3. Marks \subseteq Plain
  BY DEF Marks, Bullets, Plain, Chars, Space, NL
<1> QED BY <1>2, <1>3 DEF Maps

(* The letters are what decomposition leaves visible. *)
LEMMA LettersIs ==
  ASSUME NEW t \in Seq(Chars)
  PROVE  Letters(t) = FlatMap(Visible, Decomposed(t)) /\ Letters(t) \in Seq(Chars)
<1> DEFINE d == Decomposed(t)
<1>1. d \in Seq(Chars)
  BY DecomposedStep
<1>2. \A i \in DOMAIN d : Visible[d[i]] = IF d[i] \notin Marks THEN <<d[i]>> ELSE <<>>
  <2>1. \A i \in DOMAIN d : d[i] \in Chars
    <3> HIDE DEF d
    <3> QED BY <1>1, LenProperties, ElementOfSeq
  <2> HIDE DEF d
  <2> QED BY <2>1 DEF Visible
<1>3. Mapped(Visible, d) = [i \in DOMAIN d |-> IF d[i] \notin Marks THEN <<d[i]>> ELSE <<>>]
  BY <1>2, Zenon DEF Mapped
<1>4. Letters(t) = FlatMap(Visible, d)
  BY <1>3, Zenon DEF FlatMap, Letters, Only, Each
<1>5. FlatMap(Visible, d) \in Seq(Chars)
  <2> HIDE DEF d
  <2> QED BY <1>1, VisibleMaps, FlatMapType
<1> QED BY <1>4, <1>5

(* Letters respect concatenation. *)
LEMMA LettersRespect == Respects(L, Chars, Chars)
<1>1. L \in [Seq(Chars) -> Seq(Chars)]
  BY LettersIs DEF L
<1>2. L[<<>>] = <<>>
  BY LettersIs, DecomposedStep, FlatMapEmpty, EmptySeq DEF L
<1>3. ASSUME NEW x \in Seq(Chars), NEW y \in Seq(Chars) PROVE L[x \o y] = L[x] \o L[y]
  <2> DEFINE c == Decomposed(x)
             d == Decomposed(y)
  <2>1. x \o y \in Seq(Chars)
    BY ConcatProperties
  <2>2. c \in Seq(Chars) /\ d \in Seq(Chars) /\ Decomposed(x \o y) = c \o d
    BY DecomposedStep
  <2>3. FlatMap(Visible, c \o d) = FlatMap(Visible, c) \o FlatMap(Visible, d)
    <3> HIDE DEF c, d
    <3> QED BY <2>2, VisibleMaps, FlatMapConcat
  <2> QED BY <2>1, <2>2, <2>3, LettersIs DEF L
<1> QED BY <1>1, <1>2, <1>3 DEF Respects

(* The same, for two texts. *)
LEMMA LettersConcat ==
  ASSUME NEW x \in Seq(Chars), NEW y \in Seq(Chars)
  PROVE  Letters(x \o y) = Letters(x) \o Letters(y)
<1>1. x \o y \in Seq(Chars)
  BY ConcatProperties
<1>2. L[x \o y] = L[x] \o L[y]
  BY LettersRespect DEF Respects
<1> QED BY <1>1, <1>2 DEF L

(* Nothing has no letters. *)
LEMMA LettersEmpty == Letters(<<>>) = <<>>
BY LettersRespect, EmptySeq DEF Respects, L

(* A mark has no letters. *)
LEMMA MarkIsSilent == ASSUME NEW c \in Marks PROVE Letters(<<c>>) = <<>>
<1>1. c \in Plain /\ c \in Chars /\ <<c>> \in Seq(Chars) /\ <<c>> = Append(<<>>, c)
  BY VisibleMaps, ApartIs
<1>2. Decomposed(<<c>>) = <<>> \o Apart[c] /\ Apart[c] = <<c>>
  BY <1>1, DecomposedStep, ApartIs, EmptySeq
<1>3. Decomposed(<<c>>) = <<c>>
  BY <1>1, <1>2, ConcatEmptySeq
<1>4. Mapped(Visible, <<c>>) = [i \in 1..1 |-> <<>>]
  BY <1>1 DEF Mapped, Visible
<1>5. FlatMap(Visible, Append(<<>>, c)) = FlatMap(Visible, <<>>) \o Visible[c] /\ Visible[c] = <<>>
  <2>1. <<>> \in Seq(Chars)
    BY EmptySeq
  <2>2. Visible[c] = <<>>
    BY <1>1 DEF Visible
  <2> DEFINE q == <<>>
  <2>3. q \in Seq(Chars)
    BY <2>1
  <2> HIDE DEF q
  <2>4. FlatMap(Visible, Append(q, c)) = FlatMap(Visible, q) \o Visible[c]
    BY <1>1, <2>3, VisibleMaps, FlatMapAppend
  <2> QED BY <2>2, <2>4 DEF q
<1>6. FlatMap(Visible, <<c>>) = <<>>
  BY <1>1, <1>5, FlatMapEmpty, ConcatEmptySeq, EmptySeq
<1> QED BY <1>1, <1>3, <1>6, LettersIs

(* Marks have no letters, however many. *)
LEMMA MarksAreSilent == \A t \in Seq(Marks) : t \in Seq(Chars) /\ Letters(t) = <<>>
<1> DEFINE P == {t \in Seq(Marks) : t \in Seq(Chars) /\ Letters(t) = <<>>}
<1>1. <<>> \in P
  BY LettersEmpty, EmptySeq
<1>2. ASSUME NEW t \in Seq(Marks), NEW c \in Marks, t \in P PROVE Append(t, c) \in P
  <2>1. c \in Chars /\ <<c>> \in Seq(Chars) /\ Append(t, c) \in Seq(Marks)
    BY VisibleMaps, ApartIs, AppendProperties
  <2>2. Append(t, c) = t \o <<c>> /\ Append(t, c) \in Seq(Chars)
    BY <1>2, <2>1, AppendIsConcat, AppendProperties
  <2>3. Letters(t \o <<c>>) = Letters(t) \o Letters(<<c>>)
    BY <1>2, <2>1, LettersConcat
  <2>4. Letters(Append(t, c)) = <<>> \o <<>>
    BY <1>2, <2>2, <2>3, MarkIsSilent
  <2> QED BY <2>1, <2>2, <2>4
<1>3. Seq(Marks) \subseteq P
  <2> HIDE DEF P
  <2> QED BY <1>1, <1>2, Appending
<1> QED BY <1>3

(* Silent text before or behind changes no letter. *)
LEMMA Around ==
  ASSUME NEW a \in Seq(Marks), NEW s \in Seq(Chars), NEW b \in Seq(Marks)
  PROVE  (a \o s) \o b \in Seq(Chars) /\ Letters((a \o s) \o b) = Letters(s)
<1>1. a \in Seq(Chars) /\ b \in Seq(Chars) /\ Letters(a) = <<>> /\ Letters(b) = <<>>
  BY MarksAreSilent
<1>2. a \o s \in Seq(Chars) /\ (a \o s) \o b \in Seq(Chars)
  BY <1>1, ConcatProperties
<1>3. Letters((a \o s) \o b) = (Letters(a) \o Letters(s)) \o Letters(b)
  BY <1>1, <1>2, LettersConcat
<1>4. Letters(s) \in Seq(Chars)
  BY LettersIs
<1> QED BY <1>1, <1>2, <1>3, <1>4, ConcatEmptySeq

-----------------------------------------------------------------------------
(* What a line is written with: its text, and what rendering adds to it. *)
Ink(T) == Alphabet \cup {Space, "*", "-"} \subseteq T /\ T \subseteq Chars

(* Stripping keeps the letters, and leaves nothing of a blank text. *)
LEMMA StripKeeps ==
  ASSUME NEW T, T \subseteq Chars, NEW t \in Seq(T)
  PROVE  Strip(t) \in Seq(T) /\ Trim(Strip(t)) /\ Letters(Strip(t)) = Letters(t)
         /\ (Strip(t) = <<>> <=> Core(t) = {})
<1>1. CASE Core(t) = {}
  <2>1. \A i \in 1..Len(t) : t[i] = Space
    BY <1>1, LenProperties DEF Core
  <2>2. t \in Seq({Space})
    <3>1. t = [i \in 1..Len(t) |-> t[i]] /\ Len(t) \in Nat
      BY LenProperties
    <3> QED BY <2>1, <3>1
  <2>3. t \in Seq(Marks)
    BY <2>2, SeqMonotonic DEF Marks
  <2>4. Strip(t) = <<>> /\ <<>> \in Seq(T)
    BY <1>1, EmptySeq DEF Strip
  <2>5. Letters(t) = <<>> /\ Letters(Strip(t)) = <<>>
    BY <2>3, <2>4, MarksAreSilent, LettersEmpty
  <2>6. Trim(Strip(t)) /\ Strip(t) \in Seq(T)
    BY <2>4 DEF Trim
  <2> QED BY <1>1, <2>4, <2>5, <2>6
<1>2. CASE Core(t) # {}
  <2> DEFINE m == Min(Core(t))
             n == Max(Core(t))
             a == SubSeq(t, 1, m - 1)
             b == SubSeq(t, n + 1, Len(t))
             s == Strip(t)
  <2>1. /\ s \in Seq(T) /\ s # <<>> /\ s[1] # Space /\ s[Len(s)] # Space
        /\ a \in Seq({Space}) /\ b \in Seq({Space}) /\ t = (a \o s) \o b
    BY <1>2, Stripped
  <2> HIDE DEF m, n, a, b, s
  <2>2. a \in Seq(Marks) /\ b \in Seq(Marks) /\ s \in Seq(Chars)
    BY <2>1, SeqMonotonic DEF Marks
  <2>3. Letters(t) = Letters(s)
    BY <2>1, <2>2, Around
  <2> QED BY <1>2, <2>1, <2>3 DEF Trim, s
<1> QED BY <1>1, <1>2

(* Stars around a text are marks. *)
LEMMA Marked ==
  ASSUME NEW T, Ink(T), NEW s \in Seq(T), NEW k \in Seq({"*"})
  PROVE  (k \o s) \o k \in Seq(T) /\ Letters((k \o s) \o k) = Letters(s)
<1>1. k \in Seq(T) /\ k \in Seq(Marks) /\ s \in Seq(Chars)
  BY SeqMonotonic DEF Ink, Marks, Bullets
<1>2. k \o s \in Seq(T) /\ (k \o s) \o k \in Seq(T)
  BY <1>1, ConcatProperties
<1> QED BY <1>1, <1>2, Around

(* A span is rendered with its letters. *)
LEMMA SpanRendered ==
  ASSUME NEW T, Ink(T), NEW span \in TextSpan
  PROVE  /\ span.text \in Seq(T) /\ RenderSpan(span) \in Seq(T)
         /\ Letters(RenderSpan(span)) = Letters(span.text)
<1> DEFINE t == span.text
           m == Min(Core(t))
           n == Max(Core(t))
           a == SubSeq(t, 1, m - 1)
           b == SubSeq(t, n + 1, Len(t))
           s == Strip(t)
           thick == IF span.bold THEN (<<"*", "*">> \o s) \o <<"*", "*">> ELSE s
           slanted == IF span.italic THEN (<<"*">> \o thick) \o <<"*">> ELSE thick
<1>1. t \in Seq(T)
  BY SeqMonotonic DEF TextSpan, Ink
<1>2. CASE Core(t) = {}
  BY <1>1, <1>2 DEF RenderSpan
<1>3. CASE Core(t) # {}
  <2>1. s \in Seq(T) /\ a \in Seq({Space}) /\ b \in Seq({Space}) /\ t = (a \o s) \o b
    <3> HIDE DEF t
    <3> QED BY <1>1, <1>3, Stripped
  <2>2. RenderSpan(span) = (a \o slanted) \o b
    BY <1>3 DEF RenderSpan
  <2>3. <<"*", "*">> \in Seq({"*"}) /\ <<"*">> \in Seq({"*"})
    OBVIOUS
  <2> HIDE DEF t, m, n, a, b, s
  <2>4. thick \in Seq(T) /\ Letters(thick) = Letters(s)
    BY <2>1, <2>3, Marked
  <2> HIDE DEF thick
  <2>5. slanted \in Seq(T) /\ Letters(slanted) = Letters(s)
    BY <2>3, <2>4, Marked
  <2> HIDE DEF slanted
  <2>6. a \in Seq(Marks) /\ b \in Seq(Marks) /\ a \in Seq(T) /\ b \in Seq(T)
        /\ slanted \in Seq(Chars) /\ s \in Seq(Chars)
    BY <2>1, <2>5, SeqMonotonic DEF Marks, Ink
  <2>7. (a \o slanted) \o b \in Seq(T)
    <3>1. a \o slanted \in Seq(T)
      BY <2>5, <2>6, ConcatProperties
    <3> QED BY <2>6, <3>1, ConcatProperties
  <2>8. Letters((a \o slanted) \o b) = Letters(slanted) /\ Letters(t) = Letters(s)
    BY <2>1, <2>6, Around
  <2> QED BY <1>1, <2>2, <2>5, <2>7, <2>8 DEF t
<1> QED BY <1>2, <1>3

(* A line is its spans, one after the other. *)
TextOf == [span \in TextSpan |-> span.text]
RenderedSpan == [span \in TextSpan |-> RenderSpan(span)]

(* So are the spans of a line, joined. *)
LEMMA LineOf ==
  ASSUME NEW T, Ink(T), NEW line \in Seq(TextSpan)
  PROVE  /\ Maps(TextOf, TextSpan, Seq(T)) /\ Maps(RenderedSpan, TextSpan, Seq(T))
         /\ Texts(line) = FlatMap(TextOf, line) /\ Texts(line) \in Seq(T)
         /\ FlattenSeq(Each(RenderSpan, line)) = FlatMap(RenderedSpan, line)
         /\ FlatMap(RenderedSpan, line) \in Seq(T)
         /\ Letters(FlatMap(RenderedSpan, line)) = Letters(Texts(line))
<1>1. Maps(TextOf, TextSpan, Seq(T)) /\ Maps(RenderedSpan, TextSpan, Seq(T))
  BY SpanRendered DEF TextOf, RenderedSpan, Maps
<1>2. \A i \in DOMAIN line : line[i] \in TextSpan
  BY LenProperties, ElementOfSeq
<1>3. Texts(line) = FlatMap(TextOf, line)
  <2>1. \A i \in DOMAIN line : TextOf[line[i]] = line[i].text
    BY <1>2 DEF TextOf
  <2>2. Mapped(TextOf, line) = [i \in DOMAIN line |-> line[i].text]
    BY <2>1, Zenon DEF Mapped
  <2> QED BY <2>2, Zenon DEF Texts, Each, FlatMap
<1>4. FlattenSeq(Each(RenderSpan, line)) = FlatMap(RenderedSpan, line)
  <2>1. \A i \in DOMAIN line : RenderedSpan[line[i]] = RenderSpan(line[i])
    BY <1>2 DEF RenderedSpan
  <2>2. Mapped(RenderedSpan, line) = [i \in DOMAIN line |-> RenderSpan(line[i])]
    BY <2>1, Zenon DEF Mapped
  <2> QED BY <2>2, Zenon DEF Each, FlatMap
<1>5. FlatMap(TextOf, line) \in Seq(T) /\ FlatMap(RenderedSpan, line) \in Seq(T)
  BY <1>1, FlatMapType
<1>6. Letters(FlatMap(RenderedSpan, line)) = Letters(FlatMap(TextOf, line))
  <2> DEFINE g == After(L, TextOf, TextSpan)
             h == After(L, RenderedSpan, TextSpan)
  <2>1. Ink(Chars) /\ T \subseteq Chars
    BY DEF Ink, Chars
  <2>2. Maps(TextOf, TextSpan, Seq(Chars)) /\ Maps(RenderedSpan, TextSpan, Seq(Chars))
    BY <2>1, SpanRendered DEF TextOf, RenderedSpan, Maps
  <2>3. \A span \in TextSpan : L[TextOf[span]] = L[RenderedSpan[span]]
    BY <2>1, SpanRendered DEF L, TextOf, RenderedSpan
  <2>4. g = h
    BY <2>3, Zenon DEF After
  <2>5. /\ L[FlatMap(TextOf, line)] = FlatMap(g, line)
        /\ L[FlatMap(RenderedSpan, line)] = FlatMap(h, line)
    BY <2>2, LettersRespect, Through
  <2>6. FlatMap(TextOf, line) \in Seq(Chars) /\ FlatMap(RenderedSpan, line) \in Seq(Chars)
    BY <1>5, <2>1, SeqMonotonic
  <2> QED BY <2>4, <2>5, <2>6 DEF L
<1> QED BY <1>1, <1>3, <1>4, <1>5, <1>6

(* A joined text begins as the first and ends as the second. *)
LEMMA ConcatEnds ==
  ASSUME NEW S, NEW a \in Seq(S), NEW b \in Seq(S)
  PROVE  /\ a \o b \in Seq(S) /\ Len(a \o b) = Len(a) + Len(b)
         /\ a # <<>> => a \o b # <<>> /\ (a \o b)[1] = a[1]
         /\ b # <<>> => a \o b # <<>> /\ (a \o b)[Len(a \o b)] = b[Len(b)]
<1> DEFINE c == a \o b
<1>1. /\ c \in Seq(S) /\ Len(c) = Len(a) + Len(b) /\ Len(a) \in Nat /\ Len(b) \in Nat
      /\ \A i \in 1..(Len(a) + Len(b)) : c[i] = IF i <= Len(a) THEN a[i] ELSE b[i - Len(a)]
  BY ConcatProperties, LenProperties
<1> HIDE DEF c
<1>2. a # <<>> => c # <<>> /\ c[1] = a[1]
  <2> SUFFICES ASSUME a # <<>> PROVE c # <<>> /\ c[1] = a[1]
    OBVIOUS
  <2>1. Len(a) \in Nat \ {0}
    BY EmptySeq
  <2>2. 1 \in 1..(Len(a) + Len(b)) /\ 1 <= Len(a)
    BY <1>1, <2>1
  <2>3. c # <<>>
    BY <1>1, <2>1, EmptySeq
  <2> QED BY <1>1, <2>2, <2>3
<1>3. b # <<>> => c # <<>> /\ c[Len(c)] = b[Len(b)]
  <2> SUFFICES ASSUME b # <<>> PROVE c # <<>> /\ c[Len(c)] = b[Len(b)]
    OBVIOUS
  <2>1. Len(b) \in Nat \ {0}
    BY EmptySeq
  <2>2. /\ Len(c) \in 1..(Len(a) + Len(b)) /\ ~(Len(c) <= Len(a)) /\ Len(c) - Len(a) = Len(b)
    BY <1>1, <2>1
  <2>3. c # <<>>
    BY <2>2, <1>1, <2>1, EmptySeq
  <2> QED BY <1>1, <2>2, <2>3
<1> QED BY <1>1, <1>2, <1>3 DEF c

(* A bullet is turned into a dash, which changes no letter. *)
LEMMA ItemRendered ==
  ASSUME NEW T, Ink(T), NEW t \in Seq(T), Trim(t)
  PROVE  AsListItem(t) \in Seq(T) /\ Trim(AsListItem(t)) /\ Letters(AsListItem(t)) = Letters(t)
<1>1. CASE ~Item(t)
  BY <1>1 DEF AsListItem
<1>2. CASE Item(t)
  <2> DEFINE n == Len(t)
             h == SubSeq(t, 1, 2)
             r == SubSeq(t, 3, n)
             k == <<"-", Space>>
             s == Strip(r)
  <2>0. n \in Nat /\ n >= 2 /\ t[1] \in Bullets /\ t[2] = Space /\ AsListItem(t) = k \o s
    BY <1>2, LenProperties DEF Item, AsListItem
  <2>1. n >= 3 /\ t[n] # Space
    <3>1. t # <<>> /\ t[n] # Space
      BY <2>0 DEF Trim
    <3>2. n # 2
      BY <2>0, <3>1
    <3> QED BY <2>0, <3>1, <3>2
  <2>2. h \in Seq(Marks) /\ h \in Seq(T)
    <3>1. 1 \in 1..(Len(t) + 1) /\ 2 \in (1 - 1)..Len(t) /\ (2 - 1) + 1 = 2
          /\ (1 + 1) - 1 = 1 /\ (1 + 2) - 1 = 2
      BY <2>0
    <3>2. /\ h \in Seq(T) /\ Len(h) = (2 - 1) + 1
          /\ \A i \in 1..((2 - 1) + 1) : h[i] = t[(1 + i) - 1]
      BY <3>1, Slice
    <3> HIDE DEF h
    <3>3. Len(h) = 2 /\ h[1] = t[1] /\ h[2] = t[2]
      BY <3>1, <3>2
    <3>4. \A i \in 1..2 : h[i] \in Marks
      BY <2>0, <3>3 DEF Marks
    <3>5. h = [i \in 1..2 |-> h[i]]
      BY <3>2, <3>3, LenProperties
    <3> QED BY <3>2, <3>4, <3>5
  <2>3. r \in Seq(T) /\ Len(r) = n - 2 /\ r[n - 2] = t[n]
    <3>1. 3 \in 1..(Len(t) + 1) /\ n \in (3 - 1)..Len(t) /\ (n - 3) + 1 = n - 2
          /\ n - 2 \in 1..(n - 2) /\ (3 + (n - 2)) - 1 = n
      BY <2>0, <2>1
    <3>2. /\ r \in Seq(T) /\ Len(r) = (n - 3) + 1
          /\ \A i \in 1..((n - 3) + 1) : r[i] = t[(3 + i) - 1]
      BY <3>1, Slice
    <3> HIDE DEF r, n
    <3>3. r[n - 2] = t[(3 + (n - 2)) - 1]
      BY <3>1, <3>2
    <3> QED BY <3>1, <3>2, <3>3
  <2>4. t = h \o r
    <3>1. 1 \in 1..(Len(t) + 1) /\ 2 \in (1 - 1)..Len(t) /\ n \in 2..Len(t) /\ 2 + 1 = 3
      BY <2>0, <2>1
    <3>2. SubSeq(t, 1, 2) \o SubSeq(t, 2 + 1, n) = SubSeq(t, 1, n)
      BY <3>1, ConcatAdjacentSubSeq
    <3> QED BY <3>1, <3>2, SubSeqFull
  <2>5. k \in Seq(Marks) /\ k \in Seq(T) /\ k # <<>> /\ k[1] # Space
    <3>1. "-" \in Marks /\ Space \in Marks /\ "-" \in T /\ Space \in T /\ "-" # Space
      BY DEF Marks, Bullets, Ink, Space
    <3> QED BY <3>1
  <2> HIDE DEF h, k
  <2>6. Core(r) # {}
    <3>1. n - 2 \in DOMAIN r
      BY <2>0, <2>1, <2>3, LenProperties
    <3> HIDE DEF r, n
    <3> QED BY <2>1, <2>3, <3>1 DEF Core
  <2> HIDE DEF r, n
  <2>7. /\ s \in Seq(T) /\ s # <<>> /\ s[Len(s)] # Space /\ Letters(s) = Letters(r)
    BY <2>3, <2>6, StripKeeps DEF Ink, Trim
  <2> HIDE DEF s
  <2>8. k \o s \in Seq(T) /\ Trim(k \o s)
    BY <2>5, <2>7, ConcatEnds DEF Trim
  <2>9. Letters(h \o r) = Letters(r) /\ Letters(k \o s) = Letters(s)
    <3>1. h \in Seq(Chars) /\ r \in Seq(Chars) /\ k \in Seq(Chars) /\ s \in Seq(Chars)
      BY <2>2, <2>3, <2>5, <2>7, SeqMonotonic DEF Ink
    <3>2. /\ Letters(h) = <<>> /\ Letters(k) = <<>>
          /\ Letters(r) \in Seq(Chars) /\ Letters(s) \in Seq(Chars)
      BY <2>2, <2>5, <3>1, MarksAreSilent, LettersIs
    <3>3. Letters(h \o r) = Letters(h) \o Letters(r) /\ Letters(k \o s) = Letters(k) \o Letters(s)
      BY <3>1, LettersConcat
    <3> QED BY <3>2, <3>3, ConcatEmptySeq
  <2> QED BY <2>0, <2>4, <2>7, <2>8, <2>9
<1> QED BY <1>1, <1>2

(* There are three levels of headings, and none. *)
LEMMA Levels == \A size, body : HeadingLevel(size, body) \in 0..3
<1> TAKE size, body
<1> DEFINE R == {l \in 1..3 : 100 * size >= HeadingRatios[l] * body}
<1>1. R # {} => Min(R) \in R
  <2>1. R \subseteq 1..3 /\ 3 \in Nat
    OBVIOUS
  <2> HIDE DEF R
  <2> QED BY <2>1, Edges
<1>2. R # {} => Min(R) \in 1..3
  BY <1>1
<1>3. HeadingLevel(size, body) = IF body <= 0 \/ R = {} THEN 0 ELSE Min(R)
  BY DEF HeadingLevel
<1> HIDE DEF R
<1>4. CASE body <= 0 \/ R = {}
  BY <1>3, <1>4
<1>5. CASE ~(body <= 0 \/ R = {})
  BY <1>2, <1>3, <1>5
<1> QED BY <1>4, <1>5

(* A line is rendered trimmed, with the letters of its spans; without a    *)
(* heading's marks, in ink.                                                *)
LEMMA LineRendered ==
  ASSUME NEW T, Ink(T), NEW line \in Seq(TextSpan), NEW body, "#" \in T \/ ~(Level(line, body) > 0)
  PROVE  /\ RenderLine(line, body) \in Seq(T) /\ Trim(RenderLine(line, body))
         /\ Letters(RenderLine(line, body)) = Letters(Texts(line))
<1> DEFINE t == Texts(line)
           v == Level(line, body)
<1>0. t \in Seq(T) /\ T \subseteq Chars
  BY LineOf DEF Ink
<1>1. CASE Core(t) = {}
  <2>1. RenderLine(line, body) = <<>> /\ <<>> \in Seq(T)
    BY <1>1, EmptySeq DEF RenderLine
  <2>2. Letters(t) = <<>>
    <3> HIDE DEF t
    <3>1. Strip(t) = <<>> /\ Letters(Strip(t)) = Letters(t)
      BY <1>0, <1>1, StripKeeps
    <3> QED BY <3>1, LettersEmpty
  <2> QED BY <2>1, <2>2, LettersEmpty DEF Trim
<1>2. CASE Core(t) # {} /\ v > 0
  <2> DEFINE k == [i \in 1..v |-> "#"] \o <<Space>>
             s == Strip(t)
  <2>1. RenderLine(line, body) = k \o s
    BY <1>2 DEF RenderLine
  <2>2. v \in Nat /\ v \in 1..3
    <3>1. v \in 0..3
      BY Levels DEF Level
    <3> HIDE DEF v
    <3> QED BY <1>2, <3>1
  <2>3. k \in Seq(Marks) /\ k \in Seq(T) /\ k # <<>> /\ k[1] = "#"
    <3> DEFINE p == [i \in 1..v |-> "#"]
    <3>1. p \in Seq({"#"}) /\ Len(p) = v /\ p[1] = "#" /\ p # <<>>
      <4> HIDE DEF v
      <4> QED BY <2>2
    <3>2. "#" \in T /\ Space \in T
      BY <1>2 DEF Ink
    <3> HIDE DEF p
    <3>3. p \in Seq(Marks) /\ p \in Seq(T) /\ <<Space>> \in Seq(Marks) /\ <<Space>> \in Seq(T)
      BY <3>1, <3>2, SeqMonotonic DEF Marks
    <3>4. p \o <<Space>> \in Seq(Marks) /\ p \o <<Space>> \in Seq(T)
      BY <3>3, ConcatProperties
    <3>5. p \o <<Space>> # <<>> /\ (p \o <<Space>>)[1] = p[1]
      BY <3>1, <3>3, ConcatEnds
    <3> QED BY <3>1, <3>4, <3>5 DEF p
  <2> HIDE DEF k, v, t
  <2>4. s \in Seq(T) /\ s # <<>> /\ s[Len(s)] # Space /\ Letters(s) = Letters(t)
    BY <1>0, <1>2, StripKeeps DEF Trim
  <2> HIDE DEF s
  <2>5. k \o s \in Seq(T) /\ Trim(k \o s)
    <3>1. "#" # Space
      BY DEF Space
    <3> QED BY <2>3, <2>4, <3>1, ConcatEnds DEF Trim
  <2>6. Letters(k \o s) = Letters(s)
    <3>1. k \in Seq(Chars) /\ s \in Seq(Chars) /\ Letters(k) = <<>>
      BY <1>0, <2>3, <2>4, SeqMonotonic, MarksAreSilent
    <3>2. Letters(k \o s) = Letters(k) \o Letters(s) /\ Letters(s) \in Seq(Chars)
      BY <3>1, LettersConcat, LettersIs
    <3> QED BY <3>1, <3>2, ConcatEmptySeq
  <2> QED BY <2>1, <2>4, <2>5, <2>6 DEF t
<1>3. CASE Core(t) # {} /\ ~(v > 0)
  <2> DEFINE f == FlattenSeq(Each(RenderSpan, line))
  <2>1. RenderLine(line, body) = AsListItem(Strip(f))
    BY <1>3 DEF RenderLine
  <2>2. f \in Seq(T) /\ Letters(f) = Letters(t)
    BY LineOf
  <2> HIDE DEF f
  <2>3. Strip(f) \in Seq(T) /\ Trim(Strip(f)) /\ Letters(Strip(f)) = Letters(f)
    BY <1>0, <2>2, StripKeeps
  <2> QED BY <2>1, <2>2, <2>3, ItemRendered
<1> QED BY <1>1, <1>2, <1>3

-----------------------------------------------------------------------------
(* join() adds one text at a time, with the separator once there is text. *)
Kept == [t \in Seq(Chars) |-> IF t # <<>> THEN <<t>> ELSE <<>>]
Chosen(ts) == FlatMap(Kept, ts)
Separated(sep, q) == [i \in DOMAIN q |-> IF i = 1 THEN q[i] ELSE sep \o q[i]]

(* A text is kept unless it is empty. *)
LEMMA KeptMaps == Maps(Kept, Seq(Chars), Seq(Seq(Chars)))
<1>1. \A t \in Seq(Chars) : (IF t # <<>> THEN <<t>> ELSE <<>>) \in Seq(Seq(Chars))
  <2> SUFFICES ASSUME NEW t \in Seq(Chars)
               PROVE  (IF t # <<>> THEN <<t>> ELSE <<>>) \in Seq(Seq(Chars))
    OBVIOUS
  <2>1. <<t>> \in Seq(Seq(Chars)) /\ <<>> \in Seq(Seq(Chars))
    BY EmptySeq
  <2> QED BY <2>1
<1> QED BY <1>1 DEF Kept, Maps

(* join() flattens the kept texts, each but the first behind a separator. *)
LEMMA JoinIs ==
  ASSUME NEW sep, NEW ts \in Seq(Seq(Chars))
  PROVE  Join(sep, ts) = FlattenSeq(Separated(sep, Chosen(ts))) /\ Chosen(ts) \in Seq(Seq(Chars))
<1>1. Only(LAMBDA t : t # <<>>, ts) = Chosen(ts)
  <2>1. \A i \in DOMAIN ts : Kept[ts[i]] = IF ts[i] # <<>> THEN <<ts[i]>> ELSE <<>>
    <3>1. \A i \in DOMAIN ts : ts[i] \in Seq(Chars)
      BY LenProperties, ElementOfSeq
    <3> QED BY <3>1 DEF Kept
  <2>2. Mapped(Kept, ts) = [i \in DOMAIN ts |-> IF ts[i] # <<>> THEN <<ts[i]>> ELSE <<>>]
    BY <2>1, Zenon DEF Mapped
  <2> QED BY <2>2, Zenon DEF Only, Each, Chosen, FlatMap
<1>2. Join(sep, ts) = FlattenSeq(Separated(sep, Chosen(ts)))
  BY <1>1, Zenon DEF Join, Separated
<1> QED BY <1>2, KeptMaps, FlatMapType DEF Chosen

(* One more text comes behind a separator, the first does not. *)
LEMMA SeparatedIs ==
  ASSUME NEW sep \in Seq(Chars), NEW q \in Seq(Seq(Chars)), NEW t \in Seq(Chars)
  PROVE  /\ Separated(sep, <<>>) = <<>> /\ Separated(sep, q) \in Seq(Seq(Chars))
         /\ Separated(sep, Append(q, t))
            = Append(Separated(sep, q), IF q = <<>> THEN t ELSE sep \o t)
<1> DEFINE n == Len(q)
           r == Append(q, t)
           p == Separated(sep, q)
           v == IF q = <<>> THEN t ELSE sep \o t
           a == Append(p, v)
           b == Separated(sep, r)
<1>0. Separated(sep, <<>>) = <<>>
  BY DEF Separated
<1>1. /\ n \in Nat /\ DOMAIN q = 1..n /\ r \in Seq(Seq(Chars)) /\ Len(r) = n + 1
      /\ DOMAIN r = 1..(n + 1) /\ r[n + 1] = t /\ (q = <<>> <=> n = 0)
      /\ \A i \in 1..n : q[i] \in Seq(Chars) /\ r[i] = q[i]
  BY LenProperties, ElementOfSeq, AppendProperties, EmptySeq
<1>2. /\ v \in Seq(Chars) /\ \A x \in Seq(Chars) : sep \o x \in Seq(Chars)
  BY ConcatProperties
<1> HIDE DEF n, r, v
<1>3. p \in Seq(Seq(Chars)) /\ Len(p) = n
      /\ \A i \in 1..n : p[i] = IF i = 1 THEN q[i] ELSE sep \o q[i]
  <2>1. \A i \in 1..n : (IF i = 1 THEN q[i] ELSE sep \o q[i]) \in Seq(Chars)
    BY <1>1, <1>2
  <2>2. p = [i \in 1..n |-> IF i = 1 THEN q[i] ELSE sep \o q[i]]
    BY <1>1 DEF Separated
  <2> HIDE DEF p
  <2> QED BY <1>1, <2>1, <2>2
<1>4. \A i \in 1..(n + 1) : r[i] \in Seq(Chars)
  BY <1>1, ElementOfSeq
<1>5. b \in Seq(Seq(Chars)) /\ Len(b) = n + 1
      /\ \A i \in 1..(n + 1) : b[i] = IF i = 1 THEN r[i] ELSE sep \o r[i]
  <2>1. \A i \in 1..(n + 1) : (IF i = 1 THEN r[i] ELSE sep \o r[i]) \in Seq(Chars)
    BY <1>2, <1>4
  <2>2. b = [i \in 1..(n + 1) |-> IF i = 1 THEN r[i] ELSE sep \o r[i]]
    BY <1>1 DEF Separated
  <2> HIDE DEF b
  <2> QED BY <1>1, <2>1, <2>2
<1> HIDE DEF p
<1>6. a \in Seq(Seq(Chars)) /\ Len(a) = n + 1 /\ a[n + 1] = v /\ \A i \in 1..n : a[i] = p[i]
  BY <1>2, <1>3, AppendProperties
<1> HIDE DEF a, b
<1>7. \A i \in 1..(n + 1) : b[i] = a[i]
  <2> SUFFICES ASSUME NEW i \in 1..(n + 1) PROVE b[i] = a[i]
    OBVIOUS
  <2>1. CASE i \in 1..n
    <3>1. a[i] = p[i] /\ r[i] = q[i]
      BY <1>1, <1>6, <2>1
    <3>2. p[i] = IF i = 1 THEN q[i] ELSE sep \o q[i]
      BY <1>3, <2>1
    <3>3. b[i] = IF i = 1 THEN r[i] ELSE sep \o r[i]
      BY <1>5
    <3> QED BY <3>1, <3>2, <3>3
  <2>2. CASE i = n + 1
    <3>1. b[i] = IF n = 0 THEN t ELSE sep \o t
      <4>1. b[i] = IF i = 1 THEN r[i] ELSE sep \o r[i]
        BY <1>5
      <4>2. i = 1 <=> n = 0
        BY <1>1, <2>2
      <4>3. r[i] = t
        BY <1>1, <2>2
      <4> QED BY <4>1, <4>2, <4>3
    <3> QED BY <1>1, <1>6, <2>2, <3>1 DEF v
  <2>3. i \in 1..n \/ i = n + 1
    BY <1>1
  <2> QED BY <2>1, <2>2, <2>3
<1>8. b = a
  BY <1>5, <1>6, <1>7, SeqEqual
<1> QED BY <1>0, <1>3, <1>8 DEF a, b, r, p, v

JoinStep(sep, ts, t) ==
  LET j == Join(sep, ts)
  IN  IF t = <<>> THEN j ELSE IF j = <<>> THEN t ELSE j \o (sep \o t)

(* join() is built up one text at a time. *)
LEMMA JoinSteps ==
  ASSUME NEW sep \in Seq(Chars), sep # <<>>
  PROVE  /\ Join(sep, <<>>) = <<>>
         /\ \A ts \in Seq(Seq(Chars)) :
               /\ Join(sep, ts) \in Seq(Chars)
               /\ \A t \in Seq(Chars) : Join(sep, Append(ts, t)) = JoinStep(sep, ts, t)
<1> DEFINE T == Seq(Seq(Chars))
           P == {ts \in T : Chosen(ts) = <<>> <=> Join(sep, ts) = <<>>}
<1>1. Join(sep, <<>>) = <<>> /\ <<>> \in P
  <2>1. <<>> \in T /\ Chosen(<<>>) = <<>>
    BY FlatMapEmpty, EmptySeq DEF Chosen
  <2>2. <<>> \in Seq(Chars)
    BY EmptySeq
  <2>3. Separated(sep, <<>>) = <<>>
    BY DEF Separated
  <2>4. Join(sep, <<>>) = <<>>
    <3>1. \A q \in T : Join(sep, q) = FlattenSeq(Separated(sep, Chosen(q)))
      BY JoinIs
    <3> HIDE DEF T
    <3> QED BY <2>1, <2>3, <3>1, FlattenEmpty, Zenon
  <2> QED BY <2>1, <2>4
<1>2. \A ts \in T : Join(sep, ts) \in Seq(Chars)
  <2> TAKE ts \in T
  <2>1. Chosen(ts) \in T /\ <<>> \in Seq(Chars)
    BY JoinIs, EmptySeq
  <2>2. Separated(sep, Chosen(ts)) \in T
    BY <2>1, SeparatedIs
  <2> QED BY <2>2, JoinIs, FlattenType
<1>3. ASSUME NEW ts \in T, NEW t \in Seq(Chars), ts \in P
      PROVE  Join(sep, Append(ts, t)) = JoinStep(sep, ts, t) /\ Append(ts, t) \in P
  <2> DEFINE c == Chosen(ts)
             j == Join(sep, ts)
             r == Append(ts, t)
  <2>1. r \in T /\ c \in T /\ j \in Seq(Chars) /\ (c = <<>> <=> j = <<>>)
        /\ j = FlattenSeq(Separated(sep, c)) /\ Join(sep, r) = FlattenSeq(Separated(sep, Chosen(r)))
    <3>1. r \in T
      BY AppendProperties
    <3> QED BY <1>2, <1>3, <3>1, JoinIs
  <2>2. Chosen(r) = c \o Kept[t]
    BY KeptMaps, FlatMapAppend DEF Chosen
  <2> HIDE DEF c, j, r
  <2>3. CASE t = <<>>
    <3>1. Kept[t] = <<>>
      BY <2>3 DEF Kept
    <3>2. Chosen(r) = c
      BY <2>1, <2>2, <3>1, ConcatEmptySeq
    <3>3. Join(sep, r) = j
      BY <2>1, <3>2
    <3> QED BY <2>1, <2>3, <3>2, <3>3 DEF JoinStep, j, r
  <2>4. CASE t # <<>>
    <3> DEFINE v == IF c = <<>> THEN t ELSE sep \o t
    <3>1. Kept[t] = <<t>>
      BY <2>4 DEF Kept
    <3>2. Chosen(r) = Append(c, t) /\ Append(c, t) # <<>>
      BY <2>1, <2>2, <3>1, AppendIsConcat, AppendProperties
    <3>3. Separated(sep, Append(c, t)) = Append(Separated(sep, c), v) /\ Separated(sep, c) \in T
      BY <2>1, SeparatedIs
    <3>4. v \in Seq(Chars) /\ v # <<>>
      BY <2>4, ConcatEnds
    <3> HIDE DEF v
    <3>5. Join(sep, r) = j \o v
      BY <2>1, <3>2, <3>3, <3>4, FlattenAppend
    <3>6. j \o v # <<>>
      BY <2>1, <3>4, ConcatEnds
    <3>7. j \o v = JoinStep(sep, ts, t)
      <4>1. CASE c = <<>>
        <5>1. j = <<>> /\ v = t
          BY <2>1, <4>1 DEF v
        <5>2. j \o v = t
          BY <5>1, ConcatEmptySeq
        <5> QED BY <2>4, <5>1, <5>2 DEF JoinStep, j
      <4>2. CASE c # <<>>
        <5>1. j # <<>> /\ v = sep \o t
          BY <2>1, <4>2 DEF v
        <5> QED BY <2>4, <5>1 DEF JoinStep, j
      <4> QED BY <4>1, <4>2
    <3> QED BY <2>1, <3>2, <3>5, <3>6, <3>7 DEF r
  <2> QED BY <2>3, <2>4
<1>4. T \subseteq P
  <2>1. \A ts \in Seq(Seq(Chars)), t \in Seq(Chars) : ts \in P => Append(ts, t) \in P
    BY <1>3
  <2> HIDE DEF P
  <2> QED BY <1>1, <2>1, Appending
<1> QED BY <1>1, <1>2, <1>3, <1>4

(* join() with newlines adds no letters. *)
LEMMA JoinLetters ==
  ASSUME NEW sep \in Seq({NL}), sep # <<>>
  PROVE  \A ts \in Seq(Seq(Chars)) : Letters(Join(sep, ts)) = FlatMap(L, ts)
<1> DEFINE P == {ts \in Seq(Seq(Chars)) : Letters(Join(sep, ts)) = FlatMap(L, ts)}
<1>0. sep \in Seq(Marks) /\ sep \in Seq(Chars) /\ Letters(sep) = <<>>
  BY SeqMonotonic, MarksAreSilent DEF Marks
<1>1. <<>> \in P
  BY <1>0, JoinSteps, LettersEmpty, FlatMapEmpty, EmptySeq
<1>2. ASSUME NEW ts \in Seq(Seq(Chars)), NEW t \in Seq(Chars), ts \in P PROVE Append(ts, t) \in P
  <2> DEFINE j == Join(sep, ts)
             r == Append(ts, t)
  <2>1. r \in Seq(Seq(Chars)) /\ j \in Seq(Chars) /\ Join(sep, r) = JoinStep(sep, ts, t)
    BY <1>0, JoinSteps, AppendProperties
  <2>2. FlatMap(L, r) = FlatMap(L, ts) \o Letters(t)
    <3>1. Maps(L, Seq(Chars), Seq(Chars)) /\ L[t] = Letters(t)
      BY LettersRespect DEF Respects, Maps, L
    <3> QED BY <3>1, FlatMapAppend, ZenonT(40)
  <2>3. Letters(j) = FlatMap(L, ts) /\ Letters(j) \in Seq(Chars) /\ Letters(t) \in Seq(Chars)
    BY <1>2, <2>1, LettersIs
  <2> HIDE DEF r
  <2>4. Letters(JoinStep(sep, ts, t)) = Letters(j) \o Letters(t)
    <3>1. CASE t = <<>>
      BY <2>3, <3>1, LettersEmpty, ConcatEmptySeq DEF JoinStep
    <3>2. CASE t # <<>> /\ j = <<>>
      <4>1. JoinStep(sep, ts, t) = t /\ Letters(j) = <<>>
        BY <3>2, LettersEmpty DEF JoinStep
      <4> HIDE DEF j
      <4> QED BY <2>3, <4>1, ConcatEmptySeq
    <3>3. CASE t # <<>> /\ j # <<>>
      <4>1. JoinStep(sep, ts, t) = j \o (sep \o t)
        BY <3>3 DEF JoinStep
      <4> HIDE DEF j
      <4>2. sep \o t \in Seq(Chars)
        BY <1>0, ConcatProperties
      <4>3. Letters(j \o (sep \o t)) = Letters(j) \o Letters(sep \o t)
        BY <2>1, <4>2, LettersConcat
      <4>4. Letters(sep \o t) = Letters(sep) \o Letters(t)
        BY <1>0, LettersConcat
      <4> QED BY <1>0, <2>3, <4>1, <4>3, <4>4, ConcatEmptySeq
    <3> QED BY <3>1, <3>2, <3>3
  <2> QED BY <2>1, <2>2, <2>3, <2>4 DEF r
<1>3. Seq(Seq(Chars)) \subseteq P
  <2> HIDE DEF P
  <2> QED BY <1>1, <1>2, Appending
<1> QED BY <1>3

-----------------------------------------------------------------------------
(* Tidy text: no blank at its ends, no space beside a newline. *)
Blank == {NL, Space}
NoClash(t) == \A i \in 1..(Len(t) - 1) : {t[i], t[i + 1]} # Blank
Opens(t) == t # <<>> => t[1] \notin Blank
Closes(t) == t # <<>> => t[Len(t)] \notin Blank
Tidy(t) == NoClash(t) /\ Opens(t) /\ Closes(t)
Clash(a, b) == a # <<>> /\ b # <<>> /\ {a[Len(a)], b[1]} = Blank

(* Two texts joined clash nowhere but where they meet. *)
LEMMA NoClashConcat ==
  ASSUME NEW S, NEW a \in Seq(S), NEW b \in Seq(S)
  PROVE  NoClash(a \o b) <=> NoClash(a) /\ NoClash(b) /\ ~Clash(a, b)
<1> DEFINE c == a \o b
           m == Len(a)
           n == Len(b)
<1>1. /\ Len(c) = m + n /\ m \in Nat /\ n \in Nat
      /\ \A i \in 1..(m + n) : c[i] = IF i <= m THEN a[i] ELSE b[i - m]
  BY ConcatProperties, LenProperties
<1>2. (a # <<>> <=> m # 0) /\ (b # <<>> <=> n # 0)
  BY EmptySeq
<1> HIDE DEF c, m, n
<1>3. ASSUME NoClash(c) PROVE NoClash(a) /\ NoClash(b) /\ ~Clash(a, b)
  <2>1. ASSUME NEW i \in 1..(m - 1) PROVE {a[i], a[i + 1]} # Blank
    <3>1. i \in 1..(Len(c) - 1) /\ i \in 1..(m + n) /\ i + 1 \in 1..(m + n) /\ i <= m /\ i + 1 <= m
      BY <1>1
    <3>2. c[i] = a[i] /\ c[i + 1] = a[i + 1]
      BY <1>1, <3>1
    <3> QED BY <1>3, <3>1, <3>2 DEF NoClash
  <2>2. ASSUME NEW i \in 1..(n - 1) PROVE {b[i], b[i + 1]} # Blank
    <3> DEFINE k == m + i
    <3>1. k \in 1..(Len(c) - 1) /\ k \in 1..(m + n) /\ k + 1 \in 1..(m + n) /\ ~(k <= m)
          /\ ~(k + 1 <= m) /\ k - m = i /\ (k + 1) - m = i + 1
      BY <1>1
    <3> HIDE DEF k
    <3>2. c[k] = b[k - m] /\ c[k + 1] = b[(k + 1) - m]
      BY <1>1, <3>1
    <3>3. c[k] = b[i] /\ c[k + 1] = b[i + 1]
      BY <3>1, <3>2
    <3> QED BY <1>3, <3>1, <3>3 DEF NoClash
  <2>3. ~Clash(a, b)
    <3> SUFFICES ASSUME m # 0, n # 0, {a[m], b[1]} = Blank PROVE FALSE
      BY <1>2 DEF Clash, m
    <3>1. m \in 1..(Len(c) - 1) /\ m \in 1..(m + n) /\ m + 1 \in 1..(m + n) /\ m <= m
          /\ ~(m + 1 <= m) /\ (m + 1) - m = 1
      BY <1>1
    <3>2. c[m] = a[m] /\ c[m + 1] = b[1]
      BY <1>1, <3>1
    <3> QED BY <1>3, <3>1, <3>2 DEF NoClash
  <2> QED BY <2>1, <2>2, <2>3 DEF NoClash, m, n
<1>4. ASSUME NoClash(a), NoClash(b), ~Clash(a, b) PROVE NoClash(c)
  <2> SUFFICES ASSUME NEW i \in 1..(Len(c) - 1) PROVE {c[i], c[i + 1]} # Blank
    BY DEF NoClash
  <2>0. i \in Nat /\ i \in 1..(m + n) /\ i + 1 \in 1..(m + n)
    BY <1>1
  <2>1. CASE i + 1 <= m
    <3>1. i \in 1..(m - 1) /\ i <= m
      BY <1>1, <2>0, <2>1
    <3>2. c[i] = a[i] /\ c[i + 1] = a[i + 1]
      BY <1>1, <2>0, <2>1, <3>1
    <3> QED BY <1>4, <3>1, <3>2 DEF NoClash, m
  <2>2. CASE i = m
    <3>1. c[i] = a[m] /\ ~(i + 1 <= m) /\ (i + 1) - m = 1 /\ m # 0 /\ n # 0
      BY <1>1, <2>0, <2>2
    <3>2. c[i + 1] = b[1]
      BY <1>1, <2>0, <3>1
    <3> QED BY <1>2, <1>4, <3>1, <3>2 DEF Clash, m
  <2>3. CASE i > m
    <3> DEFINE k == i - m
    <3>1. k \in 1..(n - 1) /\ ~(i <= m) /\ ~(i + 1 <= m) /\ (i + 1) - m = k + 1
      BY <1>1, <2>0, <2>3
    <3>2. c[i] = b[k] /\ c[i + 1] = b[(i + 1) - m]
      BY <1>1, <2>0, <3>1
    <3> HIDE DEF k
    <3>3. c[i] = b[k] /\ c[i + 1] = b[k + 1]
      BY <3>1, <3>2
    <3> QED BY <1>4, <3>1, <3>3 DEF NoClash, n
  <2>4. i + 1 <= m \/ i = m \/ i > m
    BY <1>1, <2>0
  <2> QED BY <2>1, <2>2, <2>3, <2>4
<1> QED BY <1>3, <1>4 DEF c

(* Text with one kind of blank cannot clash. *)
LEMMA Unmixed ==
  /\ NoClash(<<>>) /\ Tidy(<<>>) /\ \A c : NoClash(<<c>>)
  /\ \A x, y : x \notin Blank \/ y \notin Blank \/ x = y => {x, y} # Blank
  /\ \A t \in Seq(Chars \ {NL}) : NoClash(t)
  /\ \A t \in Seq({NL}) : NoClash(t)
<1>1. NoClash(<<>>) /\ Tidy(<<>>) /\ \A c : NoClash(<<c>>)
  BY DEF NoClash, Tidy, Opens, Closes
<1>2. \A x, y : x \notin Blank \/ y \notin Blank \/ x = y => {x, y} # Blank
  <2> SUFFICES ASSUME NEW x, NEW y, {x, y} = Blank PROVE x \in Blank /\ y \in Blank /\ x # y
    OBVIOUS
  <2>1. NL \in {x, y} /\ Space \in {x, y} /\ NL # Space
    BY DEF Blank, NL, Space
  <2> QED BY <2>1
<1>3. ASSUME NEW t \in Seq(Chars \ {NL}) PROVE NoClash(t)
  <2> SUFFICES ASSUME NEW i \in 1..(Len(t) - 1) PROVE {t[i], t[i + 1]} # Blank
    BY DEF NoClash
  <2>1. i \in 1..Len(t) /\ i + 1 \in 1..Len(t)
    BY LenProperties
  <2>2. t[i] # NL /\ t[i + 1] # NL
    BY <2>1, ElementOfSeq
  <2> QED BY <2>2 DEF Blank
<1>4. ASSUME NEW t \in Seq({NL}) PROVE NoClash(t)
  <2> SUFFICES ASSUME NEW i \in 1..(Len(t) - 1) PROVE {t[i], t[i + 1]} # Blank
    BY DEF NoClash
  <2>1. i \in 1..Len(t) /\ i + 1 \in 1..Len(t)
    BY LenProperties
  <2>2. t[i] = NL /\ t[i + 1] = NL
    BY <2>1, ElementOfSeq
  <2> QED BY <1>2, <2>2
<1> QED BY <1>1, <1>2, <1>3, <1>4

(* A trimmed line is tidy. *)
LEMMA TrimIsTidy == ASSUME NEW t \in Seq(Chars \ {NL}), Trim(t) PROVE Tidy(t)
<1> SUFFICES ASSUME t # <<>> PROVE t[1] # NL /\ t[Len(t)] # NL
  BY Unmixed DEF Tidy, Trim, Opens, Closes, Blank
<1>1. 1 \in 1..Len(t) /\ Len(t) \in 1..Len(t)
  BY EmptySeq
<1> QED BY <1>1, ElementOfSeq

(* Tidy texts joined by newlines are tidy. *)
LEMMA JoinTidy ==
  ASSUME NEW sep \in Seq({NL}), sep # <<>>
  PROVE  \A ts \in Seq({t \in Seq(Chars) : Tidy(t)}) :
            ts \in Seq(Seq(Chars)) /\ Tidy(Join(sep, ts))
<1> DEFINE S == {t \in Seq(Chars) : Tidy(t)}
           P == {ts \in Seq(S) : ts \in Seq(Seq(Chars)) /\ Tidy(Join(sep, ts))}
<1>0. sep \in Seq(Chars) /\ NoClash(sep) /\ sep[1] = NL /\ sep[Len(sep)] = NL
  <2>1. sep \in Seq(Chars) /\ NoClash(sep)
    BY SeqMonotonic, Unmixed DEF Chars
  <2>2. 1 \in 1..Len(sep) /\ Len(sep) \in 1..Len(sep)
    BY EmptySeq
  <2>3. sep[1] \in {NL} /\ sep[Len(sep)] \in {NL}
    BY <2>2, ElementOfSeq
  <2> QED BY <2>1, <2>3
<1>1. <<>> \in P
  BY <1>0, JoinSteps, Unmixed, EmptySeq
<1>2. ASSUME NEW ts \in Seq(S), NEW t \in S, ts \in P PROVE Append(ts, t) \in P
  <2> DEFINE j == Join(sep, ts)
             r == Append(ts, t)
             v == sep \o t
  <2>0. t \in Seq(Chars) /\ Tidy(t) /\ ts \in Seq(Seq(Chars)) /\ Tidy(j)
    BY <1>2
  <2>1. /\ r \in Seq(S) /\ r \in Seq(Seq(Chars)) /\ j \in Seq(Chars)
        /\ Join(sep, r) = JoinStep(sep, ts, t)
    <3>1. r \in Seq(S)
      BY <1>2, AppendProperties
    <3> HIDE DEF S
    <3> QED BY <1>0, <2>0, <3>1, JoinSteps, AppendProperties
  <2> HIDE DEF r, j, S
  <2>2. ASSUME t = <<>> \/ j = <<>> PROVE Tidy(JoinStep(sep, ts, t))
    BY <2>0, <2>2 DEF JoinStep, j
  <2>3. ASSUME t # <<>> /\ j # <<>> PROVE Tidy(JoinStep(sep, ts, t))
    <3>0. JoinStep(sep, ts, t) = j \o v
      BY <2>3 DEF JoinStep, j
    <3>1. /\ v \in Seq(Chars) /\ v # <<>> /\ v[1] = NL
          /\ v[Len(v)] = t[Len(t)] /\ v[Len(v)] \notin Blank
      BY <1>0, <2>0, <2>3, ConcatEnds DEF Tidy, Closes
    <3>2. NoClash(v)
      <4>1. ~Clash(sep, t)
        BY <1>0, <2>0, Unmixed DEF Tidy, Opens, Clash
      <4> QED BY <1>0, <2>0, <4>1, NoClashConcat DEF Tidy
    <3> HIDE DEF v
    <3>3. NoClash(j \o v)
      <4>1. ~Clash(j, v)
        BY <2>0, Unmixed DEF Tidy, Closes, Clash
      <4> QED BY <2>0, <2>1, <3>1, <3>2, <4>1, NoClashConcat DEF Tidy
    <3>4. (j \o v)[1] = j[1] /\ (j \o v)[Len(j \o v)] = v[Len(v)]
      BY <2>1, <2>3, <3>1, ConcatEnds
    <3> QED BY <2>0, <2>3, <3>0, <3>1, <3>3, <3>4 DEF Tidy, Opens, Closes
  <2>4. Tidy(JoinStep(sep, ts, t))
    BY <2>2, <2>3
  <2> QED BY <2>1, <2>4 DEF r, j
<1>3. Seq(S) \subseteq P
  <2> HIDE DEF P, S
  <2> QED BY <1>1, <1>2, Appending
<1> QED BY <1>3

-----------------------------------------------------------------------------
(* The document: tidy text with the letters of its lines. *)
TidyText == {t \in Seq(Chars) : Tidy(t)}
Inline == Chars \ {NL}
Parting(sep) == sep \in Seq({NL}) /\ sep # <<>>

(* So a joined map of tidy texts is tidy, with the letters of its parts. *)
LEMMA JoinOf ==
  ASSUME NEW sep, Parting(sep), NEW S, NEW e, Maps(e, S, TidyText), NEW q \in Seq(S)
  PROVE  /\ Join(sep, Mapped(e, q)) \in TidyText
         /\ Letters(Join(sep, Mapped(e, q))) = FlatMap(After(L, e, S), q)
<1> DEFINE m == Mapped(e, q)
<1>0. sep \in Seq({NL}) /\ sep # <<>> /\ sep \in Seq(Chars)
  BY SeqMonotonic DEF Parting, Chars
<1>1. m \in Seq(TidyText)
  BY MappedType
<1>2. m \in Seq(Seq(Chars)) /\ Tidy(Join(sep, m))
  <2> HIDE DEF m
  <2> QED BY <1>0, <1>1, JoinTidy DEF TidyText
<1>3. Join(sep, m) \in Seq(Chars) /\ Letters(Join(sep, m)) = FlatMap(L, m)
  <2> HIDE DEF m
  <2> QED BY <1>0, <1>2, JoinSteps, JoinLetters
<1>4. Mapped(L, m) = Mapped(After(L, e, S), q)
  <2>1. DOMAIN m = DOMAIN q /\ \A i \in DOMAIN q : m[i] = e[q[i]] /\ q[i] \in S
    BY LenProperties, ElementOfSeq DEF Mapped
  <2> HIDE DEF m
  <2>2. \A i \in DOMAIN q : L[m[i]] = After(L, e, S)[q[i]]
    BY <2>1 DEF After
  <2> QED BY <2>1, <2>2, Zenon DEF Mapped
<1> HIDE DEF m
<1> QED BY <1>2, <1>3, <1>4 DEF TidyText, FlatMap, m

RenderedLine(body) == [line \in Seq(TextSpan) |-> RenderLine(line, body)]
RenderedBlock(body) == [block \in LayoutBlock |-> RenderBlock(block, body)]
RenderedPage == [page \in Seq(LayoutBlock) |-> PageToMarkdown(page)]
Word == [line \in Seq(TextSpan) |-> Letters(Texts(line))]
BlockWords == [block \in LayoutBlock |-> IF block.image THEN <<>> ELSE FlatMap(Word, block.lines)]

(* Everything but a newline may be on a line. *)
LEMMA InlineIsInk == Ink(Inline) /\ "#" \in Inline
<1>1. Alphabet \subseteq Inline
  BY ServiceAssumption DEF Inline, Chars
<1>2. {Space, "*", "-", "#"} \subseteq Inline
  BY DEF Inline, Chars, NL, Space
<1> QED BY <1>1, <1>2 DEF Ink, Inline

(* Every line is rendered tidy, with its letters. *)
LEMMA LinesRendered ==
  ASSUME NEW body
  PROVE  /\ Maps(RenderedLine(body), Seq(TextSpan), TidyText)
         /\ Maps(Word, Seq(TextSpan), Seq(Chars))
         /\ After(L, RenderedLine(body), Seq(TextSpan)) = Word
<1>1. ASSUME NEW line \in Seq(TextSpan)
      PROVE  /\ RenderLine(line, body) \in TidyText /\ Letters(Texts(line)) \in Seq(Chars)
             /\ L[RenderLine(line, body)] = Letters(Texts(line))
  <2>1. /\ RenderLine(line, body) \in Seq(Inline) /\ Trim(RenderLine(line, body))
        /\ Letters(RenderLine(line, body)) = Letters(Texts(line))
    BY InlineIsInk, LineRendered
  <2>2. Tidy(RenderLine(line, body)) /\ RenderLine(line, body) \in Seq(Chars)
    BY <2>1, TrimIsTidy, SeqMonotonic DEF Inline
  <2>3. Texts(line) \in Seq(Chars)
    BY InlineIsInk, LineOf, SeqMonotonic DEF Inline
  <2> QED BY <2>1, <2>2, <2>3, LettersIs DEF TidyText, L
<1>2. Maps(RenderedLine(body), Seq(TextSpan), TidyText)
  BY <1>1 DEF Maps, RenderedLine
<1>3. Maps(Word, Seq(TextSpan), Seq(Chars))
  BY <1>1 DEF Maps, Word
<1>4. \A line \in Seq(TextSpan) : L[RenderedLine(body)[line]] = Letters(Texts(line))
  BY <1>1 DEF RenderedLine
<1>5. After(L, RenderedLine(body), Seq(TextSpan)) = Word
  BY <1>4, Zenon DEF After, Word
<1> QED BY <1>2, <1>3, <1>5

(* So is every block; an image has none. *)
LEMMA BlocksRendered ==
  ASSUME NEW body
  PROVE  /\ Maps(RenderedBlock(body), LayoutBlock, TidyText)
         /\ Maps(BlockWords, LayoutBlock, Seq(Chars))
         /\ After(L, RenderedBlock(body), LayoutBlock) = BlockWords
<1>1. ASSUME NEW block \in LayoutBlock
      PROVE  /\ RenderBlock(block, body) \in TidyText /\ BlockWords[block] \in Seq(Chars)
             /\ L[RenderBlock(block, body)] = BlockWords[block]
  <2>0. block.lines \in Seq(Seq(TextSpan))
    BY DEF LayoutBlock
  <2>1. CASE block.image
    <3>1. RenderBlock(block, body) = <<>> /\ BlockWords[block] = <<>>
      BY <2>1 DEF RenderBlock, BlockWords
    <3>2. <<>> \in TidyText /\ L[<<>>] = <<>> /\ <<>> \in Seq(Chars)
      BY Unmixed, LettersEmpty, EmptySeq DEF TidyText, L
    <3> QED BY <3>1, <3>2
  <2>2. CASE ~block.image
    <3> DEFINE q == block.lines
    <3>1. Each(LAMBDA line : RenderLine(line, body), q) = Mapped(RenderedLine(body), q)
      <4>1. \A i \in DOMAIN q : RenderedLine(body)[q[i]] = RenderLine(q[i], body)
        <5>1. \A i \in DOMAIN q : q[i] \in Seq(TextSpan)
          <6> HIDE DEF q
          <6> QED BY <2>0, LenProperties, ElementOfSeq DEF q
        <5> QED BY <5>1 DEF RenderedLine
      <4> QED BY <4>1, Zenon DEF Each, Mapped
    <3>2. RenderBlock(block, body) = Join(<<NL>>, Mapped(RenderedLine(body), q))
      BY <2>2, <3>1 DEF RenderBlock
    <3>3. BlockWords[block] = FlatMap(Word, q)
      BY <2>2 DEF BlockWords
    <3>4. Parting(<<NL>>)
      BY DEF Parting
    <3> HIDE DEF q
    <3>5. q \in Seq(Seq(TextSpan))
      BY <2>0 DEF q
    <3>6. /\ Join(<<NL>>, Mapped(RenderedLine(body), q)) \in TidyText
          /\ Letters(Join(<<NL>>, Mapped(RenderedLine(body), q))) = FlatMap(Word, q)
      BY <3>4, <3>5, LinesRendered, JoinOf
    <3>7. FlatMap(Word, q) \in Seq(Chars)
      BY <3>5, LinesRendered, FlatMapType
    <3> QED BY <3>2, <3>3, <3>6, <3>7 DEF TidyText, L
  <2> QED BY <2>1, <2>2
<1>2. Maps(RenderedBlock(body), LayoutBlock, TidyText)
  BY <1>1 DEF Maps, RenderedBlock
<1>3. Maps(BlockWords, LayoutBlock, Seq(Chars))
  <2>1. BlockWords = [block \in LayoutBlock |-> BlockWords[block]]
    BY DEF BlockWords
  <2> QED BY <1>1, <2>1 DEF Maps
<1>4. After(L, RenderedBlock(body), LayoutBlock) = BlockWords
  <2>1. \A block \in LayoutBlock : L[RenderedBlock(body)[block]] = BlockWords[block]
    BY <1>1 DEF RenderedBlock
  <2>2. BlockWords = [block \in LayoutBlock |-> BlockWords[block]]
    BY DEF BlockWords
  <2> QED BY <2>1, <2>2, Zenon DEF After
<1> QED BY <1>2, <1>3, <1>4

(* The lines of a page, a block at a time. *)
LinesOf == [block \in LayoutBlock |-> block.lines]
Textual == [block \in LayoutBlock |-> IF ~block.image THEN <<block>> ELSE <<>>]

(* The lines of a page, without its images. *)
LEMMA LinesIs ==
  ASSUME NEW page \in Seq(LayoutBlock)
  PROVE  /\ Maps(LinesOf, LayoutBlock, Seq(Seq(TextSpan)))
         /\ Maps(Textual, LayoutBlock, Seq(LayoutBlock))
         /\ FlatMap(Textual, page) \in Seq(LayoutBlock)
         /\ Lines(page) = FlatMap(LinesOf, FlatMap(Textual, page))
         /\ Lines(page) \in Seq(Seq(TextSpan))
<1>1. Maps(LinesOf, LayoutBlock, Seq(Seq(TextSpan)))
  BY DEF LayoutBlock, LinesOf, Maps
<1>2. Maps(Textual, LayoutBlock, Seq(LayoutBlock))
  <2>1. \A block \in LayoutBlock : (IF ~block.image THEN <<block>> ELSE <<>>) \in Seq(LayoutBlock)
    BY EmptySeq
  <2> QED BY <2>1 DEF Textual, Maps
<1>3. Only(LAMBDA block : ~block.image, page) = FlatMap(Textual, page)
  <2>1. \A i \in DOMAIN page : Textual[page[i]] = IF ~page[i].image THEN <<page[i]>> ELSE <<>>
    <3>1. \A i \in DOMAIN page : page[i] \in LayoutBlock
      BY LenProperties, ElementOfSeq
    <3> QED BY <3>1 DEF Textual
  <2>2. Mapped(Textual, page) = [i \in DOMAIN page |-> IF ~page[i].image THEN <<page[i]>> ELSE <<>>]
    BY <2>1, Zenon DEF Mapped
  <2> QED BY <2>2, Zenon DEF Only, Each, FlatMap
<1> DEFINE q == FlatMap(Textual, page)
<1>4. q \in Seq(LayoutBlock)
  BY <1>2, FlatMapType
<1>5. Lines(page) = FlatMap(LinesOf, q)
  <2>1. \A i \in DOMAIN q : LinesOf[q[i]] = q[i].lines
    <3>1. \A i \in DOMAIN q : q[i] \in LayoutBlock
      <4> HIDE DEF q
      <4> QED BY <1>4, LenProperties, ElementOfSeq
    <3> QED BY <3>1 DEF LinesOf
  <2>2. Mapped(LinesOf, q) = [i \in DOMAIN q |-> q[i].lines]
    BY <2>1, Zenon DEF Mapped
  <2>3. Lines(page) = FlattenSeq(Each(LAMBDA block : block.lines, q))
    BY <1>3, Zenon DEF Lines
  <2> QED BY <2>2, <2>3, Zenon DEF Each, FlatMap
<1>6. FlatMap(LinesOf, q) \in Seq(Seq(TextSpan))
  <2> HIDE DEF q
  <2> QED BY <1>1, <1>4, FlatMapType
<1> QED BY <1>1, <1>2, <1>4, <1>5, <1>6

(* One more block adds its lines. *)
LEMMA LinesAppend ==
  /\ Lines(<<>>) = <<>>
  /\ \A page \in Seq(LayoutBlock), block \in LayoutBlock :
        Lines(Append(page, block)) = IF block.image THEN Lines(page) ELSE Lines(page) \o block.lines
<1>1. Lines(<<>>) = <<>>
  <2>1. \A q \in Seq(LayoutBlock) : Lines(q) = FlatMap(LinesOf, FlatMap(Textual, q))
    BY LinesIs
  <2>2. <<>> \in Seq(LayoutBlock) /\ FlatMap(Textual, <<>>) = <<>> /\ FlatMap(LinesOf, <<>>) = <<>>
    BY EmptySeq, FlatMapEmpty
  <2> QED BY <2>1, <2>2, Zenon
<1>2. ASSUME NEW page \in Seq(LayoutBlock), NEW block \in LayoutBlock
      PROVE  Lines(Append(page, block))
             = IF block.image THEN Lines(page) ELSE Lines(page) \o block.lines
  <2> DEFINE r == Append(page, block)
             q == FlatMap(Textual, page)
  <2>1. /\ r \in Seq(LayoutBlock) /\ q \in Seq(LayoutBlock)
        /\ FlatMap(Textual, r) = q \o Textual[block]
    BY LinesIs, FlatMapAppend, AppendProperties
  <2>2. Lines(page) = FlatMap(LinesOf, q) /\ Lines(r) = FlatMap(LinesOf, FlatMap(Textual, r))
    <3> HIDE DEF r
    <3> QED BY <2>1, LinesIs
  <2> HIDE DEF r, q
  <2>3. CASE block.image
    <3>1. Textual[block] = <<>>
      BY <2>3 DEF Textual
    <3>2. FlatMap(Textual, r) = q
      BY <2>1, <3>1, ConcatEmptySeq
    <3> QED BY <2>2, <2>3, <3>2 DEF r
  <2>4. CASE ~block.image
    <3>1. Textual[block] = <<block>> /\ LinesOf[block] = block.lines
      BY <2>4 DEF Textual, LinesOf
    <3>2. FlatMap(Textual, r) = Append(q, block)
      BY <2>1, <3>1, AppendIsConcat
    <3>3. FlatMap(LinesOf, Append(q, block)) = FlatMap(LinesOf, q) \o LinesOf[block]
      <4>1. Maps(LinesOf, LayoutBlock, Seq(Seq(TextSpan)))
        BY LinesIs
      <4> QED BY <2>1, <4>1, FlatMapAppend
    <3> QED BY <2>2, <2>4, <3>1, <3>2, <3>3 DEF r
  <2> QED BY <2>3, <2>4
<1> QED BY <1>1, <1>2

(* The letters of the blocks are those of the lines. *)
LEMMA PageWords ==
  \A page \in Seq(LayoutBlock) : FlatMap(BlockWords, page) = FlatMap(Word, Lines(page))
<1> DEFINE P == {page \in Seq(LayoutBlock) : FlatMap(BlockWords, page) = FlatMap(Word, Lines(page))}
<1>0. Maps(BlockWords, LayoutBlock, Seq(Chars)) /\ Maps(Word, Seq(TextSpan), Seq(Chars))
  BY BlocksRendered, LinesRendered
<1>1. <<>> \in P
  BY LinesAppend, FlatMapEmpty, EmptySeq
<1>2. ASSUME NEW page \in Seq(LayoutBlock), NEW block \in LayoutBlock, page \in P
      PROVE  Append(page, block) \in P
  <2> DEFINE r == Append(page, block)
             l == Lines(page)
  <2>1. /\ r \in Seq(LayoutBlock)
        /\ FlatMap(BlockWords, r) = FlatMap(BlockWords, page) \o BlockWords[block]
        /\ FlatMap(BlockWords, page) = FlatMap(Word, l) /\ l \in Seq(Seq(TextSpan))
        /\ Lines(r) = IF block.image THEN l ELSE l \o block.lines
    BY <1>0, <1>2, FlatMapAppend, AppendProperties, LinesAppend, LinesIs
  <2>2. block.lines \in Seq(Seq(TextSpan))
    BY DEF LayoutBlock
  <2> HIDE DEF r, l
  <2>3. FlatMap(BlockWords, r) = FlatMap(Word, Lines(r))
    <3>1. CASE block.image
      <4>1. BlockWords[block] = <<>>
        BY <3>1 DEF BlockWords
      <4>2. FlatMap(Word, l) \in Seq(Chars)
        BY <1>0, <2>1, FlatMapType
      <4> QED BY <2>1, <3>1, <4>1, <4>2, ConcatEmptySeq
    <3>2. CASE ~block.image
      <4>1. BlockWords[block] = FlatMap(Word, block.lines)
        BY <3>2 DEF BlockWords
      <4>2. FlatMap(Word, l \o block.lines) = FlatMap(Word, l) \o FlatMap(Word, block.lines)
        <5> DEFINE w == block.lines
                   S == Seq(TextSpan)
        <5>1. w \in Seq(S) /\ l \in Seq(S) /\ Maps(Word, S, Seq(Chars))
          BY <1>0, <2>1, <2>2
        <5> HIDE DEF w, S
        <5>2. FlatMap(Word, l \o w) = FlatMap(Word, l) \o FlatMap(Word, w)
          BY <5>1, FlatMapConcat
        <5> QED BY <5>2 DEF w
      <4> QED BY <2>1, <3>2, <4>1, <4>2
    <3> QED BY <3>1, <3>2
  <2> QED BY <2>1, <2>3 DEF r
<1>3. Seq(LayoutBlock) \subseteq P
  <2> HIDE DEF P
  <2> QED BY <1>1, <1>2, Appending
<1> QED BY <1>3

PageLetters == [page \in Seq(LayoutBlock) |-> FlatMap(Word, Lines(page))]

(* Every page is rendered tidy, with the letters of its lines. *)
LEMMA PagesRendered ==
  /\ Maps(RenderedPage, Seq(LayoutBlock), TidyText)
  /\ Maps(PageLetters, Seq(LayoutBlock), Seq(Chars))
  /\ After(L, RenderedPage, Seq(LayoutBlock)) = PageLetters
<1>1. ASSUME NEW page \in Seq(LayoutBlock)
      PROVE  /\ PageToMarkdown(page) \in TidyText /\ FlatMap(Word, Lines(page)) \in Seq(Chars)
             /\ L[PageToMarkdown(page)] = FlatMap(Word, Lines(page))
  <2> DEFINE body == BodySize(page)
  <2>1. Each(LAMBDA block : RenderBlock(block, body), page) = Mapped(RenderedBlock(body), page)
    <3>1. \A i \in DOMAIN page : RenderedBlock(body)[page[i]] = RenderBlock(page[i], body)
      <4>1. \A i \in DOMAIN page : page[i] \in LayoutBlock
        BY LenProperties, ElementOfSeq
      <4> HIDE DEF body
      <4> QED BY <4>1 DEF RenderedBlock
    <3> HIDE DEF body
    <3> QED BY <3>1, Zenon DEF Each, Mapped
  <2>2. PageToMarkdown(page) = Join(<<NL, NL>>, Mapped(RenderedBlock(body), page))
    BY <2>1 DEF PageToMarkdown
  <2>3. Parting(<<NL, NL>>)
    BY DEF Parting
  <2> HIDE DEF body
  <2>4. /\ Join(<<NL, NL>>, Mapped(RenderedBlock(body), page)) \in TidyText
        /\ Letters(Join(<<NL, NL>>, Mapped(RenderedBlock(body), page))) = FlatMap(BlockWords, page)
    BY <2>3, BlocksRendered, JoinOf
  <2>5. /\ FlatMap(BlockWords, page) = FlatMap(Word, Lines(page))
        /\ FlatMap(BlockWords, page) \in Seq(Chars)
    BY PageWords, BlocksRendered, FlatMapType
  <2> QED BY <2>2, <2>4, <2>5 DEF TidyText, L
<1>2. Maps(RenderedPage, Seq(LayoutBlock), TidyText)
  BY <1>1 DEF Maps, RenderedPage
<1>3. Maps(PageLetters, Seq(LayoutBlock), Seq(Chars))
  BY <1>1 DEF Maps, PageLetters
<1>4. \A page \in Seq(LayoutBlock) : L[RenderedPage[page]] = FlatMap(Word, Lines(page))
  BY <1>1 DEF RenderedPage
<1> QED BY <1>2, <1>3, <1>4, Zenon DEF After, PageLetters

(* So is the document. *)
LEMMA DocumentRendered ==
  ASSUME NEW pages \in Seq(Seq(LayoutBlock))
  PROVE  /\ DocumentToMarkdown(pages) \in Seq(Chars) /\ Tidy(DocumentToMarkdown(pages))
         /\ Letters(DocumentToMarkdown(pages)) = FlatMap(PageLetters, pages)
<1>1. Each(PageToMarkdown, pages) = Mapped(RenderedPage, pages)
  <2>1. \A i \in DOMAIN pages : RenderedPage[pages[i]] = PageToMarkdown(pages[i])
    <3>1. \A i \in DOMAIN pages : pages[i] \in Seq(LayoutBlock)
      BY LenProperties, ElementOfSeq
    <3> QED BY <3>1 DEF RenderedPage
  <2> QED BY <2>1, Zenon DEF Each, Mapped
<1>2. DocumentToMarkdown(pages) = Join(<<NL, NL>>, Mapped(RenderedPage, pages))
  BY <1>1 DEF DocumentToMarkdown
<1>3. Parting(<<NL, NL>>)
  BY DEF Parting
<1>4. /\ Join(<<NL, NL>>, Mapped(RenderedPage, pages)) \in TidyText
      /\ Letters(Join(<<NL, NL>>, Mapped(RenderedPage, pages))) = FlatMap(PageLetters, pages)
  BY <1>3, PagesRendered, JoinOf
<1> QED BY <1>2, <1>4 DEF TidyText

(* Uploads have pages of this structure. *)
LEMMA UploadRenders ==
  ASSUME NEW f \in Files
  PROVE  f.pages \in Seq(Seq(LayoutBlock)) /\ Len(f.pages) \in Nat
<1>1. f \in Upload
  BY ServiceAssumption
<1>2. f.pages \in Seq(Seq(LayoutBlock))
  BY <1>1 DEF Upload
<1> QED BY <1>2, LenProperties

-----------------------------------------------------------------------------
(* The service: where a call is tells what it has, and what it answers. *)
Rendered == DocumentToMarkdown(file.pages)
Result == [error |-> "none", text |-> Normalize(Rendered), pages |-> Len(file.pages)]

(* Where the call is, and what it has in its hands there. *)
Started == settings \in Environments /\ Accepted(settings)
WithinCaps == /\ Len(file.pages) <= settings.max_pages
              /\ Len(Rendered) <= settings.max_extracted_chars
Course ==
  /\ stage \in {"off", "refused", "idle", "received", "opened", "rendered", "normalised", "over"}
  /\ settings = None \/ Started
  /\ stage \notin {"off", "refused"} => Started
  /\ stage \in {"received", "opened", "rendered", "normalised", "over"} => file \in Files
  /\ handles = IF stage = "opened" THEN {"buffer", "document"} ELSE {}
  /\ stage = "rendered" => text = Rendered
  /\ stage = "normalised" => text = Normalize(Rendered) /\ WithinCaps
  /\ stage # "over" => answer = None
  /\ stage = "over" => /\ answer.error \in {"none", "Exception", "BrokenProcessPool"} \cup Unprocessable
                       /\ answer.error = "Exception" => file.raises \in Unguarded
                       /\ answer.error = "none"
                              => /\ answer = Result /\ WithinCaps
                                 /\ Len(Normalize(Rendered)) >= settings.min_text_length

(* The start is before everything. *)
LEMMA CourseBegins == Init => Course
BY DEF Init, Course

(* Every step keeps the course: an error path closes what it opened. *)
LEMMA CourseStays == ASSUME Course, [Next]_vars PROVE Course'
<1> USE DEF Goto, Started, WithinCaps, Result, Rendered
<1>1. ASSUME NEW s \in Environments, Configure(s) \/ Refuse(s) PROVE Course'
  BY <1>1 DEF Configure, Refuse, Course
<1>2. ASSUME NEW f \in Files, Receive(f) PROVE Course'
  BY <1>2 DEF Receive, Course
<1>3. ASSUME NEW e \in {"Exception", "BrokenProcessPool"} \cup Unprocessable, Raise(e), handles' = {},
             stage \in {"received", "opened", "rendered", "normalised"},
             e = "Exception" => file.raises \in Unguarded
      PROVE  Course'
  <2>1. answer'.error = e /\ e # "none" /\ file' = file
    BY <1>3 DEF Raise, Unprocessable
  <2> QED BY <1>3, <2>1 DEF Raise, Course
<1>4. CASE RefuseEmpty \/ RefuseOpen
  BY <1>4, <1>3 DEF RefuseEmpty, RefuseOpen, Course, Unprocessable
<1>5. CASE RefuseLocked \/ RefuseNoPages \/ RefuseBroken
  BY <1>5, <1>3 DEF RefuseLocked, RefuseNoPages, RefuseBroken, Unprocessable
<1>6. CASE RefusePages \/ RefuseLong \/ RefuseShort
  BY <1>6, <1>3 DEF RefusePages, RefuseLong, RefuseShort, Course, Unprocessable
<1>7. CASE Open
  BY <1>7 DEF Open, Course
<1>8. CASE Render
  BY <1>8 DEF Render, Course
<1>9. CASE Normalise
  BY <1>9 DEF Normalise, Course
<1>10. CASE Deliver
  BY <1>10 DEF Deliver, Course
<1>11. CASE Escape
  <2>1. file.raises \in Unguarded
    BY <1>11 DEF Escape, Unguarded
  <2> QED BY <1>11, <2>1, <1>3 DEF Escape
<1>12. CASE WorkerDies
  BY <1>12, <1>3 DEF WorkerDies
<1>13. CASE UNCHANGED vars
  BY <1>13 DEF vars, Course
<1> QED BY <1>1, <1>2, <1>4, <1>5, <1>6, <1>7, <1>8, <1>9, <1>10, <1>11, <1>12, <1>13
        DEF Next, Serve, Extract, Terminated

(* extract() keeps its course whatever is uploaded under whatever          *)
(* settings: where it is tells what it has open, what the text is, and     *)
(* what it may answer (extraction_service.py 57-72, pymupdf_extractor.py   *)
(* 38-60).                                                                 *)
THEOREM Courses == Spec => []Course
BY CourseBegins, CourseStays, PTL DEF Spec

(* What Settings leaves to be worked out comes out positive. *)
LEMMA Defaults ==
  ASSUME NEW s, Environment(s), Accepted(s)
  PROVE  /\ effective_workers(s) \in Nat \ {0}
         /\ effective_max_concurrent_extractions(s) \in Nat \ {0}
         /\ effective_max_inflight_requests(s) \in Nat \ {0}
<1>1. cpu_count \in Nat \ {0}
  BY SettingsAssumption DEF cpu_count
<1>2. ASSUME NEW f \in Capacities, s[f] # None PROVE s[f] \in Nat \ {0}
  BY <1>2 DEF Environment, Accepted, validate_workers
<1>3. s.workers # None => s.workers \in Nat \ {0}
  BY <1>2 DEF Capacities
<1>4. ASSUME NEW f \in Capacities, NEW d \in Nat \ {0} PROVE Or(s[f], d) \in Nat \ {0}
  BY <1>2 DEF Or
<1>5. effective_workers(s) \in Nat \ {0}
  BY <1>1, <1>3 DEF effective_workers
<1>6. effective_max_concurrent_extractions(s) \in Nat \ {0}
  BY <1>4, <1>5 DEF effective_max_concurrent_extractions, Capacities
<1>7. effective_max_inflight_requests(s) \in Nat \ {0}
  BY <1>4, <1>6 DEF effective_max_inflight_requests, Capacities
<1> QED BY <1>5, <1>6, <1>7

(* Settings that are accepted build the parts: gates, buffers and pool get *)
(* positive sizes, in agreement with each other (settings.py, main.py).    *)
THEOREM Buildable == Spec => []SettingsBuildTheParts
<1>1. Course => SettingsBuildTheParts
  <2> SUFFICES ASSUME Started PROVE PartsCanBeBuilt(settings)
    BY DEF Course, SettingsBuildTheParts
  <2> DEFINE w == Wiring(settings)
  <2>0. Environment(settings) /\ Accepted(settings)
    BY ServiceAssumption DEF Started
  <2>1. /\ w.slots \in Nat \ {0} /\ w.buffers \in Nat \ {0} /\ w.threads \in Nat \ {0}
        /\ w.permits \in Nat \ {0} /\ w.workers \in Nat \ {0} /\ w.door \in Nat \ {0}
        /\ w.warm \in Nat \ {0}
    BY <2>0, Defaults DEF Wiring
  <2>2. w.level \in LogLevels
    BY <2>0 DEF Wiring, Accepted, validate_log_level
  <2>3. settings.max_upload_bytes \in Nat
    BY <2>0 DEF Accepted, validate_max_upload_bytes, Environment, Numbers
  <2> HIDE DEF w
  <2>4. \A part \in {"slots", "buffers", "threads", "permits", "workers", "door", "warm"} :
           w[part] \in Nat \ {0}
    BY <2>1
  <2> QED BY <2>2, <2>3, <2>4 DEF w, PartsCanBeBuilt
<1> QED BY <1>1, Courses, PTL

(* However the adapter's call ends, also by an exception no try surrounds  *)
(* or with its worker, the document and the buffer it opened are closed by *)
(* then; and only those two ends are answered 500 (pymupdf_extractor.py    *)
(* 44-60, pool.py 162-164, errors.py).                                     *)
THEOREM Closed == Spec => []NothingStaysOpen
<1>1. Course => NothingStaysOpen
  <2> SUFFICES ASSUME Course PROVE NothingStaysOpen
    OBVIOUS
  <2>1. stage # "opened" => handles = {}
    BY DEF Course
  <2>2. ASSUME answer # None, Status(answer.error) = 500
        PROVE  file.raises \in Unguarded \/ answer.error = "BrokenProcessPool"
    <3>1. answer.error \notin {"none"} \cup Unprocessable
      BY <2>2 DEF Status, Unprocessable
    <3>2. stage = "over"
      BY <2>2 DEF Course
    <3> QED BY <3>1, <3>2 DEF Course
  <2> QED BY <2>1, <2>2 DEF NothingStaysOpen
<1> QED BY <1>1, Courses, PTL

(* What is delivered is the normalised text of the document. *)
LEMMA DeliveredIs ==
  ASSUME Course, Delivered
  PROVE  /\ file.pages \in Seq(Seq(LayoutBlock)) /\ Rendered \in Seq(Chars) /\ Len(Rendered) \in Nat
         /\ answer.text = Normalize(Rendered) /\ answer.pages = Len(file.pages) /\ WithinCaps
         /\ Len(Normalize(Rendered)) >= settings.min_text_length
         /\ settings.max_extracted_chars \in Nat
<1>1. stage = "over" /\ answer.error = "none"
  BY DEF Course, Delivered
<1>2. /\ file \in Files /\ answer = Result /\ WithinCaps /\ Started
      /\ Len(Normalize(Rendered)) >= settings.min_text_length
  BY <1>1 DEF Course
<1>3. file.pages \in Seq(Seq(LayoutBlock))
  BY <1>2, UploadRenders
<1>4. Rendered \in Seq(Chars) /\ Len(Rendered) \in Nat
  BY <1>3, DocumentRendered, LenProperties DEF Rendered
<1>5. settings.max_extracted_chars \in Nat
  <2>1. Environment(settings) /\ Accepted(settings)
    BY <1>2, ServiceAssumption DEF Started
  <2>2. "max_extracted_chars" \in Caps /\ "max_extracted_chars" \in Numbers
    BY DEF Caps, Numbers
  <2>3. settings["max_extracted_chars"] > 0 /\ settings["max_extracted_chars"] \in Int
    BY <2>1, <2>2 DEF Environment, Accepted, validate_output_caps
  <2> QED BY <2>3
<1> QED BY <1>2, <1>3, <1>4, <1>5 DEF Result

(* A result is within every cap: the pages and characters allowed, and at  *)
(* least the text asked for; normalisation runs after the cap on           *)
(* characters and makes the text three times as long at most; normalising  *)
(* it again changes nothing (extraction_service.py 61-72).                 *)
THEOREM Limited == Spec => []ResultWithinLimits
<1>1. Course => ResultWithinLimits
  <2> SUFFICES ASSUME Course, Delivered
               PROVE  /\ Len(answer.text) >= settings.min_text_length
                      /\ Len(answer.text) <= 3 * settings.max_extracted_chars
                      /\ answer.pages <= settings.max_pages
                      /\ Normalize(answer.text) = answer.text
    BY DEF ResultWithinLimits
  <2> DEFINE t == Rendered
             n == Normalize(t)
  <2>1. /\ t \in Seq(Chars) /\ Len(t) \in Nat /\ answer.text = n /\ answer.pages = Len(file.pages)
        /\ Len(file.pages) <= settings.max_pages /\ Len(t) <= settings.max_extracted_chars
        /\ Len(n) >= settings.min_text_length /\ settings.max_extracted_chars \in Nat
    BY DeliveredIs DEF WithinCaps
  <2> HIDE DEF t
  <2>2. n \in Seq(Chars) /\ Normalize(n) = n /\ Len(n) <= 3 * Len(t) /\ Len(n) \in Nat
    BY <2>1, Normalized, NormalizeLength, LenProperties
  <2> HIDE DEF n
  <2>3. Len(n) <= 3 * settings.max_extracted_chars
    <3>1. \A a, b, c \in Nat : a <= 3 * b /\ b <= c => a <= 3 * c
      OBVIOUS
    <3> QED BY <2>1, <2>2, <3>1
  <2> QED BY <2>1, <2>2, <2>3
<1> QED BY <1>1, Courses, PTL

-----------------------------------------------------------------------------
(* Normalisation keeps letters. *)
LEMMA NormalizeKeepsLetters == \A t \in Seq(Chars) : Letters(Normalize(t)) = Letters(t)
<1> DEFINE P == {t \in Seq(Chars) : Letters(KeepAll(t)) = Letters(t)}
<1>1. <<>> \in P
  BY Started0, EmptySeq
<1>2. ASSUME NEW t \in Seq(Chars), NEW c \in Chars, t \in P PROVE Append(t, c) \in P
  <2> DEFINE k == KeepAll(t)
             r == Append(t, c)
  <2>1. /\ r \in Seq(Chars) /\ k \in Seq(Chars)
        /\ KeepAll(r) = KeepTwo(k, c) /\ Letters(k) = Letters(t)
    BY <1>2, KeepAppend, AppendProperties
  <2>2. Letters(r) = Letters(t) \o Letters(<<c>>) /\ <<c>> \in Seq(Chars)
    <3>1. r = t \o <<c>> /\ <<c>> \in Seq(Chars)
      BY AppendIsConcat
    <3>2. Letters(t \o <<c>>) = Letters(t) \o Letters(<<c>>)
      BY <3>1, LettersConcat
    <3> QED BY <3>1, <3>2
  <2> HIDE DEF k, r
  <2>3. Letters(KeepTwo(k, c)) = Letters(k) \o Letters(<<c>>)
    <3>1. CASE c = NL /\ TwoAtEnd(k)
      <4>1. KeepTwo(k, c) = k
        BY <2>1, <3>1, KeepTwoIs
      <4>2. Letters(<<c>>) = <<>> /\ Letters(k) \in Seq(Chars)
        BY <2>1, <3>1, MarkIsSilent, LettersIs DEF Marks
      <4> QED BY <4>1, <4>2, ConcatEmptySeq
    <3>2. CASE ~(c = NL /\ TwoAtEnd(k))
      <4>1. KeepTwo(k, c) = k \o <<c>>
        BY <2>1, <3>2, KeepTwoIs, AppendIsConcat
      <4> QED BY <2>1, <2>2, <4>1, LettersConcat
    <3> QED BY <3>1, <3>2
  <2> QED BY <2>1, <2>2, <2>3 DEF r
<1>3. Seq(Chars) \subseteq P
  <2> HIDE DEF P
  <2> QED BY <1>1, <1>2, Appending
<1>4. ASSUME NEW t \in Seq(Chars) PROVE Letters(Normalize(t)) = Letters(t)
  <2> DEFINE u == NFC(t)
  <2>1. u \in Seq(Chars) /\ Decomposed(u) = Decomposed(t)
    BY NFCKeepsDecomposition
  <2> HIDE DEF u
  <2>2. Letters(u) = Letters(t)
    BY <2>1, LettersIs
  <2>3. Letters(KeepAll(u)) = Letters(u)
    BY <1>3, <2>1
  <2> QED BY <2>2, <2>3, NormalizeIs DEF u
<1> QED BY <1>4

(* The letters of the document are delivered, in order, each once:         *)
(* rendering adds marks and blanks, normalisation changes how letters are  *)
(* written, neither drops or doubles one (markdown.py,                     *)
(* extraction_service.py 65).                                              *)
THEOREM Words == Spec => []WordsKept
<1>1. Course => WordsKept
  <2> SUFFICES ASSUME Course, Delivered
               PROVE  Letters(answer.text) = FlattenSeq(Each(
                        LAMBDA page : FlattenSeq(Each(LAMBDA line : Letters(Texts(line)), Lines(page))),
                        file.pages))
    BY Zenon DEF WordsKept
  <2> DEFINE p == file.pages
  <2>1. p \in Seq(Seq(LayoutBlock)) /\ Rendered \in Seq(Chars) /\ answer.text = Normalize(Rendered)
    BY DeliveredIs
  <2>2. Letters(answer.text) = FlatMap(PageLetters, p)
    BY <2>1, NormalizeKeepsLetters, DocumentRendered DEF Rendered
  <2> HIDE DEF p
  <2>3. ASSUME NEW i \in DOMAIN p
        PROVE  PageLetters[p[i]] = FlattenSeq(Each(LAMBDA line : Letters(Texts(line)), Lines(p[i])))
    <3> DEFINE q == Lines(p[i])
    <3>1. p[i] \in Seq(LayoutBlock)
      BY <2>1, LenProperties, ElementOfSeq
    <3>2. q \in Seq(Seq(TextSpan)) /\ PageLetters[p[i]] = FlatMap(Word, q)
      BY <3>1, LinesIs DEF PageLetters
    <3> HIDE DEF q
    <3>3. \A j \in DOMAIN q : Word[q[j]] = Letters(Texts(q[j]))
      <4>1. \A j \in DOMAIN q : q[j] \in Seq(TextSpan)
        BY <3>2, LenProperties, ElementOfSeq
      <4> QED BY <4>1 DEF Word
    <3>4. Mapped(Word, q) = [j \in DOMAIN q |-> Letters(Texts(q[j]))]
      BY <3>3, Zenon DEF Mapped
    <3> QED BY <3>2, <3>4, Zenon DEF Each, FlatMap, q
  <2>4. Mapped(PageLetters, p)
        = [i \in DOMAIN p |-> FlattenSeq(Each(LAMBDA line : Letters(Texts(line)), Lines(p[i])))]
    BY <2>3, Zenon DEF Mapped
  <2>5. FlatMap(PageLetters, p)
        = FlattenSeq(Each(LAMBDA page : FlattenSeq(Each(LAMBDA line : Letters(Texts(line)), Lines(page))), p))
    BY <2>4, Zenon DEF Each, FlatMap
  <2> QED BY <2>2, <2>5, Zenon DEF p
<1> QED BY <1>1, Courses, PTL

-----------------------------------------------------------------------------
(* Normalisation keeps text tidy: it ends what it makes as the text ends,  *)
(* and brings no space and newline together.                               *)
Clean(t) == NoClash(t) /\ Opens(t)
Same(x, y) == (x = NL <=> y = NL) /\ (x = Space <=> y = Space)
Tracks(r, t) == /\ r = <<>> <=> t = <<>>
                /\ t # <<>> => Same(Last(r), Last(t))
                /\ Clean(t) => Clean(r)

(* One more character keeps a text clean unless it clashes with the last. *)
LEMMA CleanAppend ==
  ASSUME NEW u \in Seq(Chars), NEW c \in Chars
  PROVE  Clean(Append(u, c)) <=> /\ Clean(u) /\ (u = <<>> => c \notin Blank)
                                 /\ u # <<>> => {Last(u), c} # Blank
<1> DEFINE v == <<c>>
<1>1. v \in Seq(Chars) /\ v # <<>> /\ v[1] = c /\ NoClash(v) /\ Append(u, c) = u \o v
  BY Unmixed, AppendIsConcat
<1> HIDE DEF v
<1>2. NoClash(u \o v) <=> NoClash(u) /\ ~Clash(u, v)
  BY <1>1, NoClashConcat
<1>3. Clash(u, v) <=> u # <<>> /\ {Last(u), c} = Blank
  BY <1>1 DEF Clash, Last
<1>4. Opens(u \o v) <=> Opens(u) /\ (u = <<>> => c \notin Blank)
  <2>1. CASE u = <<>>
    <3>1. u \o v = v
      BY <1>1, <2>1, ConcatEmptySeq
    <3> QED BY <1>1, <2>1, <3>1 DEF Opens
  <2>2. CASE u # <<>>
    <3>1. u \o v # <<>> /\ (u \o v)[1] = u[1]
      BY <1>1, <2>2, ConcatEnds
    <3> QED BY <2>2, <3>1 DEF Opens
  <2> QED BY <2>1, <2>2
<1> QED BY <1>1, <1>2, <1>3, <1>4 DEF Clean

(* Nothing tracks nothing. *)
LEMMA TracksEmpty == Tracks(<<>>, <<>>)
BY DEF Tracks

(* Like characters appended to both keep the track. *)
LEMMA TracksStep ==
  ASSUME NEW r \in Seq(Chars), NEW t \in Seq(Chars), Tracks(r, t),
         NEW x \in Chars, NEW c \in Chars, Same(x, c)
  PROVE  Tracks(Append(r, x), Append(t, c))
<1>1. /\ Append(r, x) # <<>> /\ Append(t, c) # <<>>
      /\ Last(Append(r, x)) = x /\ Last(Append(t, c)) = c
  BY Splitting
<1>2. ASSUME Clean(Append(t, c)) PROVE Clean(Append(r, x))
  <2>1. Clean(t) /\ (t = <<>> => c \notin Blank) /\ (t # <<>> => {Last(t), c} # Blank)
    BY <1>2, CleanAppend
  <2>2. Clean(r) /\ (r = <<>> <=> t = <<>>) /\ (t # <<>> => Same(Last(r), Last(t)))
    BY <2>1 DEF Tracks
  <2>3. r = <<>> => x \notin Blank
    BY <2>1, <2>2 DEF Same, Blank
  <2>4. r # <<>> => {Last(r), x} # Blank
    <3> DEFINE a == Last(r)
               b == Last(t)
    <3> SUFFICES ASSUME {a, x} = Blank, {b, c} # Blank, Same(a, b) PROVE FALSE
      BY <2>1, <2>2
    <3> HIDE DEF a, b
    <3>1. (a = NL /\ x = Space) \/ (a = Space /\ x = NL)
      <4>1. NL \in {a, x} /\ Space \in {a, x} /\ NL # Space
        BY DEF Blank, NL, Space
      <4> QED BY <4>1
    <3>2. (b = NL /\ c = Space) \/ (b = Space /\ c = NL)
      BY <3>1 DEF Same
    <3> QED BY <3>2 DEF Blank
  <2> QED BY <2>2, <2>3, <2>4, CleanAppend
<1> QED BY <1>1, <1>2 DEF Tracks

(* What tracks tidy text is tidy. *)
LEMMA TracksTidy ==
  ASSUME NEW r \in Seq(Chars), NEW t \in Seq(Chars), Tracks(r, t), Tidy(t) PROVE Tidy(r)
<1>1. Clean(r) /\ (r = <<>> <=> t = <<>>) /\ (t # <<>> => Same(Last(r), Last(t)))
  BY DEF Tracks, Tidy, Clean
<1>2. Closes(r)
  BY <1>1 DEF Same, Last, Tidy, Closes, Blank
<1> QED BY <1>1, <1>2 DEF Clean, Tidy

(* Dropping newlines keeps the track. *)
LEMMA KeepTracks == \A t \in Seq(Chars) : Tracks(KeepAll(t), t)
<1> DEFINE P == {t \in Seq(Chars) : Tracks(KeepAll(t), t)}
<1>1. <<>> \in P
  BY Started0, TracksEmpty, EmptySeq
<1>2. ASSUME NEW t \in Seq(Chars), NEW c \in Chars, t \in P PROVE Append(t, c) \in P
  <2> DEFINE k == KeepAll(t)
             r == Append(t, c)
  <2>1. r \in Seq(Chars) /\ k \in Seq(Chars) /\ KeepAll(r) = KeepTwo(k, c) /\ Tracks(k, t)
    BY <1>2, KeepAppend, AppendProperties
  <2> HIDE DEF k
  <2>2. Tracks(KeepTwo(k, c), r)
    <3>1. CASE c = NL /\ TwoAtEnd(k)
      <4>1. KeepTwo(k, c) = k /\ k # <<>> /\ Last(k) = c
        <5>1. KeepTwo(k, c) = k
          BY <2>1, <3>1, KeepTwoIs
        <5>2. k # <<>>
          BY <2>1, <3>1, EmptySeq DEF TwoAtEnd
        <5> QED BY <3>1, <5>1, <5>2 DEF TwoAtEnd, Last
      <4>2. r # <<>> /\ Last(r) = c /\ (Clean(r) => Clean(t))
        BY Splitting, CleanAppend
      <4> HIDE DEF r
      <4> QED BY <2>1, <4>1, <4>2 DEF Tracks, Same
    <3>2. CASE ~(c = NL /\ TwoAtEnd(k))
      <4>1. KeepTwo(k, c) = Append(k, c) /\ Same(c, c)
        BY <2>1, <3>2, KeepTwoIs DEF Same
      <4> QED BY <2>1, <4>1, TracksStep
    <3> QED BY <3>1, <3>2
  <2> QED BY <2>1, <2>2
<1>3. Seq(Chars) \subseteq P
  <2> HIDE DEF P
  <2> QED BY <1>1, <1>2, Appending
<1> QED BY <1>3

(* Composing keeps it. *)
LEMMA ComposeTracks == \A t \in Seq(Chars) : Tracks(ComposeAll(t), t)
<1> DEFINE P == {t \in Seq(Chars) : Tracks(ComposeAll(t), t)}
<1>1. <<>> \in P
  BY Started0, TracksEmpty, EmptySeq
<1>2. ASSUME NEW t \in Seq(Chars), NEW c \in Chars, t \in P PROVE Append(t, c) \in P
  <2> DEFINE k == ComposeAll(t)
             r == Append(t, c)
  <2>1. r \in Seq(Chars) /\ k \in Seq(Chars) /\ ComposeAll(r) = Compose(k, c) /\ Tracks(k, t)
    BY <1>2, ComposeAppend, AppendProperties
  <2> HIDE DEF k
  <2>2. Tracks(Compose(k, c), r)
    <3>1. CASE Merges(k, c)
      <4>1. PICK y \in Seq(Chars), z \in Chars : k = Append(y, z)
        BY <2>1, <3>1, SequenceEmptyOrAppend DEF Merges
      <4> DEFINE m == Append(y, "eacute")
      <4>2. "eacute" \in Chars /\ "eacute" \notin Blank /\ c = "acute" /\ Same("eacute", "acute")
        BY <3>1 DEF Merges, Chars, Blank, Same, NL, Space
      <4>3. Compose(k, c) = m
        <5>1. Front(k) = y
          BY <4>1, Splitting
        <5> QED BY <3>1, <5>1 DEF Compose, Merges
      <4>4. m # <<>> /\ Last(m) = "eacute" /\ r # <<>> /\ Last(r) = c
        BY <4>2, Splitting
      <4>5. Clean(r) => Clean(m)
        <5>1. Clean(r) => Clean(t)
          BY CleanAppend
        <5>2. Clean(t) => Clean(k)
          BY <2>1 DEF Tracks
        <5>3. Clean(k) => Clean(y)
          BY <4>1, CleanAppend
        <5>4. {Last(y), "eacute"} # Blank
          BY <4>2
        <5>5. Clean(y) => Clean(m)
          BY <4>2, <5>4, CleanAppend
        <5> HIDE DEF r, m
        <5> QED BY <5>1, <5>2, <5>3, <5>5
      <4> HIDE DEF r, m
      <4> QED BY <4>2, <4>3, <4>4, <4>5 DEF Tracks
    <3>2. CASE ~Merges(k, c)
      <4>1. Compose(k, c) = Append(k, c) /\ Same(c, c)
        BY <3>2 DEF Compose, Merges, Same
      <4> QED BY <2>1, <4>1, TracksStep
    <3> QED BY <3>1, <3>2
  <2> QED BY <2>1, <2>2
<1>3. Seq(Chars) \subseteq P
  <2> HIDE DEF P
  <2> QED BY <1>1, <1>2, Appending
<1> QED BY <1>3

(* Decomposing keeps it. *)
LEMMA DecomposedTracks == \A t \in Seq(Chars) : Tracks(Decomposed(t), t)
<1> DEFINE P == {t \in Seq(Chars) : Tracks(Decomposed(t), t)}
<1>1. <<>> \in P
  BY DecomposedStep, TracksEmpty, EmptySeq
<1>2. ASSUME NEW t \in Seq(Chars), NEW c \in Chars, t \in P PROVE Append(t, c) \in P
  <2> DEFINE d == Decomposed(t)
             r == Append(t, c)
             a == Apart[c]
  <2>1. r \in Seq(Chars) /\ d \in Seq(Chars) /\ Decomposed(r) = d \o a /\ Tracks(d, t)
    BY <1>2, DecomposedStep, AppendProperties
  <2> HIDE DEF d, a
  <2>2. Tracks(d \o a, r)
    <3>1. CASE c \in Plain
      <4>1. d \o a = Append(d, c) /\ Same(c, c)
        BY <2>1, <3>1, ApartIs, AppendIsConcat DEF a, Same
      <4> QED BY <2>1, <4>1, TracksStep
    <3>2. CASE c \notin Plain
      <4>1. c \in {"eacute", "shin"} /\ c \notin Blank
        BY <3>2 DEF Plain, Blank, NL, Space
      <4>2. a \in Seq(Chars \ Blank) /\ a # <<>>
        <5>1. Chars \ Blank = Chars \ {NL, Space}
          BY DEF Blank
        <5>2. /\ "e" \in Chars \ Blank /\ "acute" \in Chars \ Blank /\ "s" \in Chars \ Blank
              /\ "dagesh" \in Chars \ Blank /\ "dot" \in Chars \ Blank
          BY DEF Chars, Blank, NL, Space
        <5>3. CASE c = "eacute"
          <6>1. a = <<"e", "acute">>
            BY <5>3, ApartIs DEF a
          <6> QED BY <5>2, <6>1
        <5>4. CASE c = "shin"
          <6>1. a = <<"s", "dagesh", "dot">>
            BY <5>4 DEF a, Apart, Decomposition
          <6> QED BY <5>2, <6>1
        <5> QED BY <4>1, <5>3, <5>4
      <4>3. 1 \in 1..Len(a) /\ Len(a) \in 1..Len(a)
        BY <4>2, EmptySeq
      <4>4. a[1] \notin Blank /\ a[Len(a)] \notin Blank
        <5>1. a[1] \in Chars \ Blank /\ a[Len(a)] \in Chars \ Blank
          BY <4>2, <4>3, ElementOfSeq
        <5> QED BY <5>1
      <4>5. a \in Seq(Chars) /\ NoClash(a)
        <5>1. a \in Seq(Chars \ {NL})
          BY <4>2, SeqMonotonic DEF Blank
        <5> QED BY <5>1, Unmixed, SeqMonotonic
      <4>6. d \o a # <<>> /\ Last(d \o a) = a[Len(a)]
        BY <2>1, <4>2, <4>5, ConcatEnds DEF Last
      <4>7. r # <<>> /\ Last(r) = c
        BY Splitting
      <4>8. Clean(r) => Clean(d \o a)
        <5>1. Clean(r) => Clean(d)
          BY <2>1, CleanAppend DEF Tracks
        <5>2. ASSUME Clean(d) PROVE Clean(d \o a)
          <6>1. NoClash(d \o a)
            <7>1. ~Clash(d, a)
              BY <4>4 DEF Clash
            <7> QED BY <2>1, <4>5, <5>2, <7>1, NoClashConcat DEF Clean
          <6>2. Opens(d \o a)
            <7>1. CASE d = <<>>
              <8>1. d \o a = a
                BY <4>5, <7>1, ConcatEmptySeq
              <8> QED BY <4>4, <8>1 DEF Opens
            <7>2. CASE d # <<>>
              <8>1. (d \o a)[1] = d[1]
                BY <2>1, <4>5, <7>2, ConcatEnds
              <8> QED BY <5>2, <7>2, <8>1 DEF Opens, Clean
            <7> QED BY <7>1, <7>2
          <6> QED BY <6>1, <6>2 DEF Clean
        <5> HIDE DEF r
        <5> QED BY <5>1, <5>2
      <4> HIDE DEF r
      <4> QED BY <4>1, <4>4, <4>6, <4>7, <4>8 DEF Tracks, Same, Blank
    <3> QED BY <3>1, <3>2
  <2> QED BY <2>1, <2>2
<1>3. Seq(Chars) \subseteq P
  <2> HIDE DEF P
  <2> QED BY <1>1, <1>2, Appending
<1> QED BY <1>3

(* So normalised tidy text is tidy. *)
LEMMA NormalizeTidy ==
  ASSUME NEW t \in Seq(Chars), Tidy(t)
  PROVE  Normalize(t) \in Seq(Chars) /\ Tidy(Normalize(t))
<1> DEFINE d == Decomposed(t)
           u == ComposeAll(d)
           v == KeepAll(u)
<1>1. d \in Seq(Chars) /\ Tidy(d)
  BY DecomposedStep, DecomposedTracks, TracksTidy
<1>2. u \in Seq(Chars)
  BY NFCKeepsDecomposition DEF NFC, ComposeAll
<1>3. Normalize(t) = v
  BY NormalizeIs DEF NFC, ComposeAll
<1> HIDE DEF d
<1>4. Tidy(u)
  BY <1>1, <1>2, ComposeTracks, TracksTidy
<1> HIDE DEF u
<1>5. v \in Seq(Chars) /\ Tidy(v)
  BY <1>2, <1>4, KeepAllType, KeepTracks, TracksTidy
<1> QED BY <1>3, <1>5

(* Between two empty lines, tidy sparse text shows no blank that separates *)
(* nothing.                                                                *)
LEMMA Framed ==
  ASSUME NEW x \in Seq(Chars), Tidy(x), Sparse(x)
  PROVE  LET t == (<<NL, NL>> \o x) \o <<NL, NL>>
         IN  /\ NoClash(t)
             /\ x # <<>> => ~\E i \in 1..(Len(t) - 2) : t[i] = NL /\ t[i + 1] = NL /\ t[i + 2] = NL
<1> DEFINE p == <<NL, NL>>
           f == p \o x
           t == f \o p
           n == Len(x)
<1>1. p \in Seq(Chars) /\ p \in Seq({NL}) /\ Len(p) = 2 /\ p[1] = NL /\ p[2] = NL /\ p # <<>>
  BY DEF Chars
<1> HIDE DEF p
<1>2. NoClash(p)
  BY <1>1, Unmixed
<1>3. /\ f \in Seq(Chars) /\ Len(f) = 2 + n /\ n \in Nat
      /\ \A i \in 1..(2 + n) : f[i] = IF i <= 2 THEN p[i] ELSE x[i - 2]
      /\ f # <<>> /\ (x # <<>> => f[Len(f)] = x[n]) /\ (x = <<>> => f = p)
  BY <1>1, ConcatProperties, ConcatEnds, LenProperties, ConcatEmptySeq
<1>4. NoClash(f)
  <2>1. ~Clash(p, x)
    BY <1>1, Unmixed DEF Clash, Tidy, Opens
  <2> QED BY <1>1, <1>2, <2>1, NoClashConcat DEF Tidy
<1> HIDE DEF f
<1>5. NoClash(t)
  <2>1. ~Clash(f, p)
    <3>1. CASE x = <<>>
      <4>1. f = p /\ p[Len(p)] = NL /\ p[1] = NL
        BY <1>1, <1>3, <3>1
      <4>2. {NL, NL} # Blank
        BY Unmixed
      <4> QED BY <4>1, <4>2 DEF Clash
    <3>2. CASE x # <<>>
      BY <1>1, <1>3, <3>2, Unmixed DEF Clash, Tidy, Closes, n
    <3> QED BY <3>1, <3>2
  <2> QED BY <1>1, <1>2, <1>3, <1>4, <2>1, NoClashConcat
<1>6. Len(t) = n + 4 /\ \A i \in 1..(n + 2) : t[i] = f[i]
  <2>0. Len(f) = 2 + n /\ Len(p) = 2 /\ f \in Seq(Chars) /\ p \in Seq(Chars)
    BY <1>1, <1>3
  <2> HIDE DEF n
  <2>1. /\ Len(t) = (2 + n) + 2
        /\ \A i \in 1..((2 + n) + 2) : t[i] = IF i <= 2 + n THEN f[i] ELSE p[i - (2 + n)]
    <3>1. /\ Len(t) = Len(f) + Len(p)
          /\ \A i \in 1..(Len(f) + Len(p)) : t[i] = IF i <= Len(f) THEN f[i] ELSE p[i - Len(f)]
      BY <2>0, ConcatProperties
    <3> HIDE DEF t
    <3> QED BY <2>0, <3>1
  <2> HIDE DEF t
  <2>2. \A i \in 1..(n + 2) : i \in 1..((2 + n) + 2) /\ i <= 2 + n
    BY <1>3
  <2> QED BY <1>3, <2>1, <2>2
<1> HIDE DEF t
<1>7. \A k \in 1..n : t[k + 2] = x[k]
  <2> SUFFICES ASSUME NEW k \in 1..n PROVE t[k + 2] = x[k]
    OBVIOUS
  <2> HIDE DEF n
  <2>1. k + 2 \in 1..(n + 2) /\ k + 2 \in 1..(2 + n) /\ ~(k + 2 <= 2) /\ (k + 2) - 2 = k
    BY <1>3
  <2>2. f[k + 2] = x[(k + 2) - 2]
    BY <1>3, <2>1
  <2> QED BY <1>6, <2>1, <2>2
<1>8. ASSUME x # <<>>, NEW i \in 1..(Len(t) - 2), t[i] = NL, t[i + 1] = NL, t[i + 2] = NL
      PROVE  FALSE
  <2>0. n \in Nat \ {0} /\ x[1] # NL /\ x[n] # NL
    BY <1>8, EmptySeq DEF Tidy, Opens, Closes, Blank
  <2>00. \A j \in 1..(n - 2) : ~(x[j] = NL /\ x[j + 1] = NL /\ x[j + 2] = NL)
    BY DEF Sparse
  <2> HIDE DEF n
  <2>1. t[3] # NL /\ t[n + 2] # NL
    <3>1. 1 \in 1..n /\ n \in 1..n /\ 1 + 2 = 3
      BY <2>0
    <3>2. t[1 + 2] = x[1] /\ t[n + 2] = x[n]
      BY <1>7, <3>1
    <3> QED BY <2>0, <3>1, <3>2
  <2>2. i \in Nat /\ i # 3 /\ i + 1 # 3 /\ i + 2 # 3 /\ i # n + 2 /\ i + 1 # n + 2 /\ i + 2 # n + 2
        /\ i <= n + 2 /\ i >= 1
    <3>1. i \in 1..(n + 2)
      BY <1>6, <2>0
    <3> QED BY <1>8, <2>0, <2>1, <3>1
  <2> DEFINE j == i - 2
  <2>3. j \in 1..(n - 2) /\ j \in 1..n /\ j + 1 \in 1..n /\ j + 2 \in 1..n
        /\ j + 2 = i /\ (j + 1) + 2 = i + 1 /\ (j + 2) + 2 = i + 2
    BY <2>0, <2>2
  <2> HIDE DEF j
  <2>4. x[j] = t[j + 2] /\ x[j + 1] = t[(j + 1) + 2] /\ x[j + 2] = t[(j + 2) + 2]
    BY <1>7, <2>3
  <2>5. x[j] = NL /\ x[j + 1] = NL /\ x[j + 2] = NL
    BY <1>8, <2>3, <2>4
  <2> QED BY <2>00, <2>3, <2>5
<1>9. ASSUME x # <<>>
      PROVE  ~\E i \in 1..(Len(t) - 2) : t[i] = NL /\ t[i + 1] = NL /\ t[i + 2] = NL
  BY <1>8, <1>9
<1> QED BY <1>5, <1>9 DEF t, f, p

(* What is delivered neither begins nor ends with a blank, has no space at *)
(* either end of a line and no two empty lines in a row (markdown.py,      *)
(* extraction_service.py 65).                                              *)
THEOREM Blanks == Spec => []BlanksLeaveNoTrace
<1>1. Course => BlanksLeaveNoTrace
  <2> SUFFICES ASSUME Course, Delivered PROVE BlanksLeaveNoTrace
    BY DEF BlanksLeaveNoTrace
  <2> DEFINE x == answer.text
  <2>1. x \in Seq(Chars) /\ Tidy(x) /\ Sparse(x)
    <3> DEFINE r == Rendered
    <3>1. r \in Seq(Chars) /\ x = Normalize(r) /\ file.pages \in Seq(Seq(LayoutBlock))
      BY DeliveredIs
    <3>2. Tidy(r)
      BY <3>1, DocumentRendered DEF Rendered
    <3> HIDE DEF r
    <3> QED BY <3>1, <3>2, NormalizeTidy, Normalized
  <2> DEFINE t == (<<NL, NL>> \o x) \o <<NL, NL>>
  <2>2. /\ NoClash(t)
        /\ x # <<>> => ~\E i \in 1..(Len(t) - 2) : t[i] = NL /\ t[i + 1] = NL /\ t[i + 2] = NL
    <3> HIDE DEF x
    <3> QED BY <2>1, Framed
  <2>3. ~\E i \in 1..(Len(t) - 1) : {t[i], t[i + 1]} = {NL, Space}
    <3> HIDE DEF t
    <3> QED BY <2>2 DEF NoClash, Blank
  <2> HIDE DEF t
  <2> QED BY <2>2, <2>3 DEF BlanksLeaveNoTrace, NoText, t
<1> QED BY <1>1, Courses, PTL

-----------------------------------------------------------------------------
(* MapThenSumSet adds in the order CHOOSE takes: it is any additive total. *)
Additive(h, n, w) ==
  h[{}] = 0 /\ \A s \in SUBSET (1..n) : h[s] \in Nat /\ \A x \in s : h[s] = w[x] + h[s \ {x}]
Weights(w, n) == \A i \in 1..n : w[i] \in Nat

(* An additive total exists. *)
LEMMA AdditiveExists ==
  ASSUME NEW n \in Nat, NEW w, Weights(w, n)
  PROVE  \E h : Additive(h, n, w)
<1> DEFINE K == {k \in Nat : \E h : Additive(h, k, w)}
<1>1. 0 \in K
  <2> DEFINE h == [s \in SUBSET (1..0) |-> 0]
  <2>1. \A s \in SUBSET (1..0) : s = {}
    OBVIOUS
  <2>2. Additive(h, 0, w)
    BY <2>1 DEF Additive
  <2> QED BY <2>2
<1>2. ASSUME NEW k \in 0..n, k \in K, k < n PROVE k + 1 \in K
  <2>1. PICK h : Additive(h, k, w)
    BY <1>2
  <2> DEFINE m == k + 1
             g == [s \in SUBSET (1..m) |-> IF m \in s THEN w[m] + h[s \ {m}] ELSE h[s]]
  <2>2. m \in 1..n /\ w[m] \in Nat /\ m \in Nat
    BY <1>2 DEF Weights
  <2>3. \A s \in SUBSET (1..m) : s \ {m} \in SUBSET (1..k)
    BY <1>2
  <2> HIDE DEF m
  <2>4. \A s \in SUBSET (1..m) : m \notin s => s \in SUBSET (1..k)
    <3> TAKE s \in SUBSET (1..m)
    <3>1. m \notin s => s \ {m} = s
      OBVIOUS
    <3> QED BY <2>3, <3>1
  <2>5. \A s \in SUBSET (1..m) : g[s] \in Nat
    <3> TAKE s \in SUBSET (1..m)
    <3>1. h[s \ {m}] \in Nat /\ (m \notin s => h[s] \in Nat)
      BY <2>1, <2>3, <2>4 DEF Additive
    <3> QED BY <2>2, <3>1
  <2>6. g[{}] = 0
    BY <2>1 DEF Additive
  <2>7. ASSUME NEW s \in SUBSET (1..m), NEW x \in s PROVE g[s] = w[x] + g[s \ {x}]
    <3>0. s \ {x} \in SUBSET (1..m) /\ x \in 1..m
      OBVIOUS
    <3>1. CASE x = m
      BY <3>0, <3>1
    <3>2. CASE x # m /\ m \in s
      <4> DEFINE a == s \ {m}
                 b == (s \ {x}) \ {m}
      <4>1. a \in SUBSET (1..k) /\ x \in a /\ a \ {x} = b /\ b \in SUBSET (1..k) /\ m \in s \ {x}
        BY <2>3, <3>0, <3>2
      <4>2. g[s] = w[m] + h[a] /\ g[s \ {x}] = w[m] + h[b]
        BY <3>0, <3>2, <4>1
      <4> HIDE DEF a, b, g
      <4>3. h[a] = w[x] + h[b] /\ h[b] \in Nat
        BY <2>1, <4>1 DEF Additive
      <4>4. w[x] \in Nat
        <5>1. x \in 1..n
          BY <1>2, <4>1
        <5> QED BY <5>1 DEF Weights
      <4> QED BY <2>2, <4>2, <4>3, <4>4
    <3>3. CASE m \notin s
      <4>1. s \in SUBSET (1..k) /\ g[s] = h[s] /\ g[s \ {x}] = h[s \ {x}]
        BY <2>4, <3>0, <3>3
      <4> HIDE DEF g
      <4> QED BY <2>1, <4>1 DEF Additive
    <3> QED BY <3>1, <3>2, <3>3
  <2> HIDE DEF g
  <2>8. Additive(g, m, w)
    BY <2>5, <2>6, <2>7 DEF Additive
  <2> QED BY <2>2, <2>8 DEF m
<1>3. 0..n \subseteq K
  <2> HIDE DEF K
  <2> QED BY <1>1, <1>2, Induction
<1>4. n \in K
  <2> HIDE DEF K
  <2> QED BY <1>3
<1> QED BY <1>4

(* What obeys the recursion is the additive total. *)
Adds(f, S, w) ==
  f[{}] = 0 /\ \A s \in SUBSET S : s # {} => \E x \in s : f[s] = w[x] + f[s \ {x}]

(* There is one only, whatever element is taken first. *)
LEMMA AddsIs ==
  ASSUME NEW n \in Nat, NEW w, NEW h, Additive(h, n, w),
         NEW S \in SUBSET (1..n), NEW f, Adds(f, S, w)
  PROVE  f[S] = h[S]
<1> DEFINE K == {k \in Nat : \A s \in SUBSET S : Cardinality(s) = k => f[s] = h[s]}
<1>0. IsFiniteSet(S) /\ \A s \in SUBSET S : IsFiniteSet(s) /\ Cardinality(s) \in Nat
  <2>1. IsFiniteSet(1..n)
    BY FS_Interval
  <2>2. IsFiniteSet(S)
    BY <2>1, FS_Subset
  <2> QED BY <2>2, FS_Subset, FS_CardinalityType
<1>1. 0 \in K
  <2>1. ASSUME NEW s \in SUBSET S, Cardinality(s) = 0 PROVE s = {}
    BY <1>0, <2>1, FS_EmptySet
  <2> QED BY <2>1 DEF Adds, Additive
<1>2. ASSUME NEW k \in Nat, k \in K PROVE k + 1 \in K
  <2>0. k + 1 \in Nat /\ (k + 1) - 1 = k /\ k + 1 # 0
    OBVIOUS
  <2>1. ASSUME NEW s \in SUBSET S, Cardinality(s) = k + 1 PROVE f[s] = h[s]
    <3>1. s # {}
      BY <2>0, <2>1, FS_EmptySet
    <3>2. PICK x \in s : f[s] = w[x] + f[s \ {x}]
      BY <3>1 DEF Adds
    <3>3. s \ {x} \in SUBSET S /\ Cardinality(s \ {x}) = k
      <4>1. IsFiniteSet(s) /\ x \in s
        BY <1>0
      <4>2. Cardinality(s \ {x}) = Cardinality(s) - 1
        BY <4>1, FS_RemoveElement
      <4> QED BY <2>0, <2>1, <4>2
    <3>4. f[s \ {x}] = h[s \ {x}]
      BY <1>2, <3>3
    <3>5. h[s] = w[x] + h[s \ {x}]
      BY DEF Additive
    <3> QED BY <3>2, <3>4, <3>5
  <2>2. \A s \in SUBSET S : Cardinality(s) = k + 1 => f[s] = h[s]
    BY <2>1, Zenon
  <2> QED BY <2>0, <2>2, Zenon
<1> DEFINE c == Cardinality(S)
<1>3. c \in Nat
  BY <1>0
<1>4. 0..c \subseteq K
  <2> HIDE DEF K, c
  <2>1. \A k \in 0..c : k \in Nat
    OBVIOUS
  <2> QED BY <1>1, <1>2, <1>3, <2>1, Induction
<1>5. c \in K
  <2> HIDE DEF K, c
  <2> QED BY <1>3, <1>4
<1> QED BY <1>5

(* The characters of some spans. *)
Tally(spans, I) == MapThenSumSet(LAMBDA i : Len(Strip(spans[i].text)), I)
Lengths(spans) == [i \in DOMAIN spans |-> Len(Strip(spans[i].text))]
Sums(f, spans, S) ==
  f = [s \in SUBSET S |->
         IF s = {} THEN 0
         ELSE Len(Strip(spans[CHOOSE x \in s : TRUE].text)) + f[s \ {CHOOSE x \in s : TRUE}]]

(* Stripped texts have lengths. *)
LEMMA LengthsAre ==
  ASSUME NEW spans \in Seq(TextSpan)
  PROVE  Weights(Lengths(spans), Len(spans)) /\ DOMAIN spans = 1..Len(spans) /\ Len(spans) \in Nat
         /\ \A span \in TextSpan : Len(Strip(span.text)) \in Nat
<1>1. ASSUME NEW span \in TextSpan PROVE Len(Strip(span.text)) \in Nat
  <2> DEFINE t == span.text
  <2>1. t \in Seq(Alphabet) /\ Alphabet \subseteq Chars
    BY DEF TextSpan, Chars
  <2> HIDE DEF t
  <2>2. Strip(t) \in Seq(Alphabet)
    BY <2>1, StripKeeps
  <2> QED BY <2>2, LenProperties DEF t
<1>2. /\ DOMAIN spans = 1..Len(spans) /\ Len(spans) \in Nat
      /\ \A i \in 1..Len(spans) : spans[i] \in TextSpan
  BY LenProperties, ElementOfSeq
<1> QED BY <1>1, <1>2 DEF Weights, Lengths

(* Adding up lengths gives the additive total. *)
LEMMA TallyIs ==
  ASSUME NEW spans \in Seq(TextSpan), NEW h, Additive(h, Len(spans), Lengths(spans)),
         NEW S \in SUBSET (1..Len(spans))
  PROVE  Tally(spans, S) = h[S]
<1> DEFINE w == Lengths(spans)
           n == Len(spans)
           f == CHOOSE f : Sums(f, spans, S)
<1>0. n \in Nat /\ DOMAIN spans = 1..n /\ \A i \in 1..n : w[i] = Len(Strip(spans[i].text))
  BY LengthsAre DEF Lengths
<1>1. Tally(spans, S) = f[S]
  BY DEF Tally, MapThenSumSet, MapThenFoldSet, Sums
<1>2. \E g : Sums(g, spans, S)
  <2> DEFINE g == [s \in SUBSET S |-> h[s]]
  <2>1. ASSUME NEW s \in SUBSET S
        PROVE  h[s] = IF s = {} THEN 0
                      ELSE Len(Strip(spans[CHOOSE x \in s : TRUE].text)) + g[s \ {CHOOSE x \in s : TRUE}]
    <3>1. CASE s = {}
      BY <3>1 DEF Additive
    <3>2. CASE s # {}
      <4> DEFINE c == CHOOSE x \in s : TRUE
      <4>1. c \in s
        BY <3>2
      <4> HIDE DEF c
      <4>2. s \in SUBSET (1..n) /\ c \in 1..n /\ s \ {c} \in SUBSET S
        BY <4>1
      <4>3. h[s] = w[c] + h[s \ {c}]
        BY <4>1, <4>2 DEF Additive
      <4>4. h[s] = Len(Strip(spans[c].text)) + g[s \ {c}]
        BY <1>0, <4>2, <4>3
      <4> QED BY <3>2, <4>4 DEF c
    <3> QED BY <3>1, <3>2
  <2>2. g = [s \in SUBSET S |->
               IF s = {} THEN 0
               ELSE Len(Strip(spans[CHOOSE x \in s : TRUE].text)) + g[s \ {CHOOSE x \in s : TRUE}]]
    BY <2>1, Zenon
  <2> HIDE DEF g
  <2>3. Sums(g, spans, S)
    BY <2>2, Zenon DEF Sums
  <2> QED BY <2>3
<1>3. Sums(f, spans, S)
  BY <1>2
<1> HIDE DEF f, n, w
<1>4. Adds(f, S, w)
  <2>1. \A s \in SUBSET S :
           f[s] = IF s = {} THEN 0
                  ELSE Len(Strip(spans[CHOOSE x \in s : TRUE].text)) + f[s \ {CHOOSE x \in s : TRUE}]
    BY <1>3, Zenon DEF Sums
  <2>2. f[{}] = 0
    BY <2>1
  <2>3. ASSUME NEW s \in SUBSET S, s # {} PROVE \E x \in s : f[s] = w[x] + f[s \ {x}]
    <3> DEFINE c == CHOOSE x \in s : TRUE
    <3>1. c \in s
      BY <2>3
    <3>2. f[s] = Len(Strip(spans[c].text)) + f[s \ {c}]
      BY <2>1, <2>3
    <3> HIDE DEF c
    <3>3. c \in 1..n
      BY <3>1 DEF n
    <3> QED BY <1>0, <3>1, <3>2, <3>3
  <2> QED BY <2>2, <2>3 DEF Adds
<1> QED BY <1>0, <1>1, <1>4, AddsIs DEF n, w

-----------------------------------------------------------------------------
InSizes(spans, Z) == {i \in DOMAIN spans : spans[i].size \in Z}
Count(spans, Z) == Tally(spans, InSizes(spans, Z))
Ink1(span) == Len(Strip(span.text))

(* One more span adds its characters, if its size is counted. *)
LEMMA CountAppend ==
  ASSUME NEW spans \in Seq(TextSpan), NEW span \in TextSpan, NEW Z
  PROVE  /\ Count(spans, Z) \in Nat /\ Ink1(span) \in Nat
         /\ (InSizes(spans, Z) = {} => Count(spans, Z) = 0)
         /\ Count(Append(spans, span), Z)
            = Count(spans, Z) + IF span.size \in Z THEN Ink1(span) ELSE 0
<1> DEFINE r == Append(spans, span)
           n == Len(spans)
           m == n + 1
           I == InSizes(spans, Z)
           J == InSizes(r, Z)
           w == Lengths(spans)
           v == Lengths(r)
<1>1. /\ r \in Seq(TextSpan) /\ Len(r) = m /\ n \in Nat /\ m \in Nat /\ r[m] = span
      /\ DOMAIN r = 1..m /\ DOMAIN spans = 1..n /\ \A i \in 1..n : r[i] = spans[i]
  BY LenProperties, AppendProperties
<1>2. Weights(v, m) /\ Ink1(span) \in Nat
  <2> HIDE DEF r
  <2> QED BY <1>1, LengthsAre DEF Ink1
<1> HIDE DEF r, n
<1>3. v[m] = Ink1(span) /\ \A i \in 1..n : v[i] = w[i]
  <2>1. m \in 1..m /\ \A i \in 1..n : i \in 1..m
    BY <1>1
  <2> QED BY <1>1, <2>1 DEF Lengths, Ink1
<1>4. J = IF span.size \in Z THEN I \cup {m} ELSE I
  <2>1. \A i \in 1..m : i \in 1..n \/ i = m
    BY <1>1
  <2>2. \A i \in 1..n : i \in 1..m
    BY <1>1
  <2>3. m \in 1..m
    BY <1>1
  <2>4. \A i : i \in J <=> i \in I \/ (i = m /\ span.size \in Z)
    BY <1>1, <2>1, <2>2, <2>3 DEF InSizes
  <2> HIDE DEF I, J, m
  <2> QED BY <2>4
<1> HIDE DEF w, v
<1>5. PICK h : Additive(h, m, v)
  BY <1>1, <1>2, AdditiveExists
<1>6. Additive(h, n, w)
  <2>1. ASSUME NEW s \in SUBSET (1..n) PROVE h[s] \in Nat /\ \A x \in s : h[s] = w[x] + h[s \ {x}]
    <3>1. s \in SUBSET (1..m)
      BY <1>1
    <3>2. h[s] \in Nat /\ \A x \in s : h[s] = v[x] + h[s \ {x}]
      <4> HIDE DEF m
      <4> QED BY <1>5, <3>1 DEF Additive
    <3> QED BY <1>3, <3>2
  <2> QED BY <1>5, <2>1 DEF Additive
<1>7. I \in SUBSET (1..n) /\ J \in SUBSET (1..m) /\ m \notin I
  BY <1>1 DEF InSizes
<1> HIDE DEF I, J, m
<1>8. Tally(spans, I) = h[I] /\ Tally(r, J) = h[J]
  <2>1. Tally(spans, I) = h[I]
    BY <1>6, <1>7, TallyIs DEF n, w
  <2>2. Tally(r, J) = h[J]
    BY <1>1, <1>5, <1>7, TallyIs DEF v
  <2> QED BY <2>1, <2>2
<1>9. h[I] \in Nat /\ (I = {} => h[I] = 0)
  BY <1>6, <1>7 DEF Additive
<1>10. h[J] = h[I] + IF span.size \in Z THEN Ink1(span) ELSE 0
  <2>1. CASE span.size \in Z
    <3>1. m \in J /\ J \ {m} = I
      BY <1>4, <1>7, <2>1
    <3>2. h[J] = v[m] + h[J \ {m}]
      BY <1>5, <1>7, <3>1 DEF Additive
    <3> HIDE DEF Ink1
    <3>3. \A a, b \in Nat : a + b = b + a
      OBVIOUS
    <3> QED BY <1>2, <1>3, <1>9, <2>1, <3>1, <3>2, <3>3
  <2>2. CASE span.size \notin Z
    <3>1. h[J] = h[I] /\ h[I] + 0 = h[I]
      BY <1>4, <1>9, <2>2
    <3> QED BY <2>2, <3>1
  <2> QED BY <2>1, <2>2
<1> QED BY <1>2, <1>8, <1>9, <1>10 DEF Count, I, J, r

(* No spans, no characters. *)
LEMMA CountEmpty == \A Z : Count(<<>>, Z) = 0
<1> SUFFICES ASSUME NEW Z PROVE Count(<<>>, Z) = 0
  OBVIOUS
<1> DEFINE q == <<>>
           span == [text |-> <<>>, size |-> 0, bold |-> FALSE, italic |-> FALSE]
<1>1. q \in Seq(TextSpan) /\ InSizes(q, Z) = {}
  BY EmptySeq DEF InSizes
<1>2. span \in TextSpan
  <2>1. <<>> \in Seq(Alphabet)
    BY EmptySeq
  <2> QED BY <2>1 DEF TextSpan
<1> HIDE DEF q, span
<1>3. Count(q, Z) = 0
  BY <1>1, <1>2, CountAppend
<1> QED BY <1>3 DEF q

(* Apart from each other, two groups of sizes share what there is. *)
LEMMA CountApart ==
  ASSUME NEW X, NEW Y, NEW Z, Y \cup Z \subseteq X, Y \cap Z = {}
  PROVE  \A spans \in Seq(TextSpan) :
            /\ Count(spans, X) \in Nat /\ Count(spans, Y) \in Nat /\ Count(spans, Z) \in Nat
            /\ Count(spans, Y) + Count(spans, Z) <= Count(spans, X)
<1> DEFINE Holds(s) == /\ Count(s, X) \in Nat /\ Count(s, Y) \in Nat /\ Count(s, Z) \in Nat
                       /\ Count(s, Y) + Count(s, Z) <= Count(s, X)
           P == {s \in Seq(TextSpan) : Holds(s)}
<1>1. <<>> \in P
  BY CountEmpty, EmptySeq
<1>2. ASSUME NEW s \in Seq(TextSpan), NEW span \in TextSpan, s \in P PROVE Append(s, span) \in P
  <2> DEFINE r == Append(s, span)
             g(S) == IF span.size \in S THEN Ink1(span) ELSE 0
  <2>1. r \in Seq(TextSpan) /\ Ink1(span) \in Nat
        /\ Count(r, X) = Count(s, X) + g(X) /\ Count(r, Y) = Count(s, Y) + g(Y)
        /\ Count(r, Z) = Count(s, Z) + g(Z)
    BY CountAppend, AppendProperties
  <2>2. g(X) \in Nat /\ g(Y) \in Nat /\ g(Z) \in Nat /\ g(Y) + g(Z) <= g(X)
    <3> HIDE DEF Ink1
    <3>1. Ink1(span) \in Nat
      BY <2>1
    <3> QED BY <3>1
  <2> HIDE DEF r, g
  <2>3. Holds(s)
    BY <1>2
  <2>4. Holds(r)
    <3>1. \A a, b, c, d, e, f \in Nat : a + b <= c /\ d + e <= f => (a + d) + (b + e) <= c + f
      OBVIOUS
    <3> QED BY <2>1, <2>2, <2>3, <3>1, SMTT(20)
  <2> HIDE DEF Holds
  <2> QED BY <2>1, <2>4 DEF r
<1>3. Seq(TextSpan) \subseteq P
  <2> HIDE DEF P
  <2> QED BY <1>1, <1>2, Appending
<1> QED BY <1>3

(* Blank spans weigh nothing. *)
InkedOf == [span \in TextSpan |-> IF Core(span.text) # {} THEN <<span>> ELSE <<>>]
Inked(spans) == FlatMap(InkedOf, spans)

(* A span is kept unless it is blank. *)
LEMMA InkedMaps == Maps(InkedOf, TextSpan, Seq(TextSpan))
<1>1. \A span \in TextSpan : (IF Core(span.text) # {} THEN <<span>> ELSE <<>>) \in Seq(TextSpan)
  BY EmptySeq
<1> QED BY <1>1 DEF InkedOf, Maps

(* So leaving them out changes no count. *)
LEMMA CountInked ==
  ASSUME NEW Z
  PROVE  \A spans \in Seq(TextSpan) :
            Inked(spans) \in Seq(TextSpan) /\ Count(Inked(spans), Z) = Count(spans, Z)
<1> DEFINE P == {s \in Seq(TextSpan) : Count(Inked(s), Z) = Count(s, Z)}
<1>0. \A s \in Seq(TextSpan) : Inked(s) \in Seq(TextSpan)
  BY InkedMaps, FlatMapType DEF Inked
<1>1. <<>> \in P
  BY FlatMapEmpty, EmptySeq DEF Inked
<1>2. ASSUME NEW s \in Seq(TextSpan), NEW span \in TextSpan, s \in P PROVE Append(s, span) \in P
  <2> DEFINE r == Append(s, span)
             q == Inked(s)
  <2>1. r \in Seq(TextSpan) /\ q \in Seq(TextSpan) /\ Inked(r) = q \o InkedOf[span]
        /\ Count(q, Z) = Count(s, Z) /\ Count(s, Z) \in Nat
        /\ Count(r, Z) = Count(s, Z) + IF span.size \in Z THEN Ink1(span) ELSE 0
    <3>1. Inked(r) = q \o InkedOf[span]
      BY InkedMaps, FlatMapAppend DEF Inked
    <3> QED BY <1>0, <1>2, <3>1, CountAppend, AppendProperties
  <2> HIDE DEF r, q
  <2>2. Count(Inked(r), Z) = Count(r, Z)
    <3>1. CASE Core(span.text) # {}
      <4>1. Inked(r) = Append(q, span)
        BY <2>1, <3>1, AppendIsConcat DEF InkedOf
      <4>2. Count(Append(q, span), Z) = Count(q, Z) + IF span.size \in Z THEN Ink1(span) ELSE 0
        BY <2>1, CountAppend
      <4> QED BY <2>1, <4>1, <4>2
    <3>2. CASE Core(span.text) = {}
      <4>1. InkedOf[span] = <<>> /\ Ink1(span) = 0
        BY <3>2 DEF InkedOf, Ink1, Strip
      <4>2. Inked(r) = q
        BY <2>1, <4>1, ConcatEmptySeq
      <4> QED BY <2>1, <4>1, <4>2
    <3> QED BY <3>1, <3>2
  <2> QED BY <2>1, <2>2 DEF r
<1>3. Seq(TextSpan) \subseteq P
  <2> HIDE DEF P
  <2> QED BY <1>1, <1>2, Appending
<1> QED BY <1>0, <1>3

-----------------------------------------------------------------------------
(* The body size is the size most characters of the page have, rounded. *)
SpansOf(page) == FlattenSeq(Lines(page))
OfSize(r) == {x \in Nat : Rounded(x) = r}

(* The spans of a page are spans. *)
LEMMA SpansOfPage == ASSUME NEW page \in Seq(LayoutBlock) PROVE SpansOf(page) \in Seq(TextSpan)
BY LinesIs, FlattenType DEF SpansOf

(* A size weighs as many characters as round to it. *)
LEMMA WeightIs ==
  ASSUME NEW spans \in Seq(TextSpan), NEW r
  PROVE  Weight(spans, r) = Count(spans, OfSize(r))
<1>1. \A i \in DOMAIN spans : spans[i].size \in Nat
  <2>1. \A i \in DOMAIN spans : spans[i] \in TextSpan
    BY LenProperties, ElementOfSeq
  <2> QED BY <2>1 DEF TextSpan
<1>2. {i \in DOMAIN spans : Rounded(spans[i].size) = r} = InSizes(spans, OfSize(r))
  BY <1>1 DEF InSizes, OfSize
<1> QED BY <1>2, Zenon DEF Weight, Count, Tally

(* The spans that are weighed are those that are not blank. *)
LEMMA InkedIs ==
  ASSUME NEW all \in Seq(TextSpan)
  PROVE  Only(LAMBDA span : Core(span.text) # {}, all) = Inked(all)
<1>1. \A i \in DOMAIN all : InkedOf[all[i]] = IF Core(all[i].text) # {} THEN <<all[i]>> ELSE <<>>
  <2>1. \A i \in DOMAIN all : all[i] \in TextSpan
    BY LenProperties, ElementOfSeq
  <2> QED BY <2>1 DEF InkedOf
<1>2. Mapped(InkedOf, all)
      = [i \in DOMAIN all |-> IF Core(all[i].text) # {} THEN <<all[i]>> ELSE <<>>]
  BY <1>1, Zenon DEF Mapped
<1> QED BY <1>2, Zenon DEF Only, Each, Inked, FlatMap

(* What is mostly in one size has more characters in it than in all        *)
(* others.                                                                 *)
LEMMA MostlyIs ==
  ASSUME NEW page \in Seq(LayoutBlock), NEW z \in Nat, MostlyIn(page, z)
  PROVE  2 * Count(SpansOf(page), {z}) > Count(SpansOf(page), Nat)
<1> DEFINE all == SpansOf(page)
<1>1. \A i \in DOMAIN all : all[i].size \in Nat
  <2>1. \A i \in DOMAIN all : all[i] \in TextSpan
    <3> HIDE DEF all
    <3> QED BY SpansOfPage, LenProperties, ElementOfSeq DEF all
  <2> HIDE DEF all
  <2> QED BY <2>1 DEF TextSpan
<1>2. /\ {i \in DOMAIN all : all[i].size = z} = InSizes(all, {z})
      /\ {i \in DOMAIN all : TRUE} = InSizes(all, Nat)
  <2> HIDE DEF all
  <2> QED BY <1>1 DEF InSizes
<1>3. Characters(page, LAMBDA size : size = z) = Tally(all, {i \in DOMAIN all : all[i].size = z})
  BY Zenon DEF Characters, Tally, SpansOf
<1>4. Characters(page, LAMBDA size : TRUE) = Tally(all, {i \in DOMAIN all : TRUE})
  BY Zenon DEF Characters, Tally, SpansOf
<1>5. 2 * Characters(page, LAMBDA size : size = z) > Characters(page, LAMBDA size : TRUE)
  BY Zenon DEF MostlyIn
<1> QED BY <1>2, <1>3, <1>4, <1>5 DEF Count

(* The most frequent size is the body size, whatever ties the rest have. *)
LEMMA BodySizeIs ==
  ASSUME NEW page \in Seq(LayoutBlock), NEW z \in Nat, MostlyIn(page, z)
  PROVE  BodySize(page) = Rounded(z)
<1> DEFINE all == SpansOf(page)
           kept == Inked(all)
           A == Count(kept, {z})
           T == Count(kept, Nat)
           of(i) == Weight(kept, Rounded(kept[i].size))
           heaviest == {i \in DOMAIN kept : \A j \in DOMAIN kept : of(j) <= of(i)}
<1>1. all \in Seq(TextSpan) /\ kept \in Seq(TextSpan) /\ 2 * A > T
  <2>1. all \in Seq(TextSpan)
    BY SpansOfPage
  <2>2. 2 * Count(all, {z}) > Count(all, Nat)
    BY MostlyIs
  <2> HIDE DEF all
  <2>3. kept \in Seq(TextSpan) /\ A = Count(all, {z}) /\ T = Count(all, Nat)
    BY <2>1, CountInked
  <2> QED BY <2>1, <2>2, <2>3
<1>2. BodySize(page) = IF kept = <<>> THEN 0 ELSE Rounded(kept[Min(heaviest)].size)
  <2>1. Only(LAMBDA span : Core(span.text) # {}, all) = kept
    <3> HIDE DEF all
    <3> QED BY <1>1, InkedIs
  <2> QED BY <2>1, Zenon DEF BodySize, SpansOf
<1> HIDE DEF all, kept
<1>3. A \in Nat /\ T \in Nat /\ (InSizes(kept, {z}) = {} => A = 0)
  <2>1. A \in Nat /\ T \in Nat
    <3>1. {z} \cup {} \subseteq Nat /\ {z} \cap {} = {}
      OBVIOUS
    <3> QED BY <1>1, <3>1, CountApart
  <2>2. InSizes(kept, {z}) = {} => A = 0
    <3>1. ASSUME NEW span \in TextSpan PROVE InSizes(kept, {z}) = {} => A = 0
      BY <1>1, CountAppend
    <3>2. TextSpan # {}
      <4>1. [text |-> <<>>, size |-> 0, bold |-> FALSE, italic |-> FALSE] \in TextSpan
        <5>1. <<>> \in Seq(Alphabet)
          BY EmptySeq
        <5> QED BY <5>1 DEF TextSpan
      <4> QED BY <4>1
    <3> QED BY <3>1, <3>2
  <2> QED BY <2>1, <2>2
<1> HIDE DEF A, T
<1>4. A > 0
  BY <1>1, <1>3
<1>5. /\ Weight(kept, Rounded(z)) \in Nat /\ A <= Weight(kept, Rounded(z))
      /\ \A r : r # Rounded(z) => Weight(kept, r) \in Nat /\ Weight(kept, r) < A
  <2>1. {z} \cup {} \subseteq OfSize(Rounded(z)) /\ {z} \cap {} = {}
    BY DEF OfSize
  <2>2. /\ Count(kept, OfSize(Rounded(z))) \in Nat /\ Count(kept, {}) \in Nat
        /\ Count(kept, {z}) + Count(kept, {}) <= Count(kept, OfSize(Rounded(z)))
    BY <1>1, <2>1, CountApart
  <2>3. ASSUME NEW r, r # Rounded(z) PROVE Weight(kept, r) \in Nat /\ Weight(kept, r) < A
    <3>1. {z} \cup OfSize(r) \subseteq Nat /\ {z} \cap OfSize(r) = {}
      BY <2>3 DEF OfSize
    <3>2. /\ Count(kept, OfSize(r)) \in Nat
          /\ Count(kept, {z}) + Count(kept, OfSize(r)) <= Count(kept, Nat)
      BY <1>1, <3>1, CountApart
    <3>3. Weight(kept, r) = Count(kept, OfSize(r))
      BY <1>1, WeightIs
    <3>4. Weight(kept, r) \in Nat /\ A + Weight(kept, r) <= T
      BY <3>2, <3>3 DEF A, T
    <3> QED BY <1>1, <1>3, <3>4
  <2>4. Weight(kept, Rounded(z)) = Count(kept, OfSize(Rounded(z)))
    BY <1>1, WeightIs
  <2>5. Weight(kept, Rounded(z)) \in Nat /\ A <= Weight(kept, Rounded(z))
    <3>1. A + Count(kept, {}) <= Weight(kept, Rounded(z))
      BY <2>2, <2>4 DEF A
    <3> QED BY <1>3, <2>2, <2>4, <3>1
  <2> QED BY <2>3, <2>5
<1>6. PICK k \in DOMAIN kept : kept[k].size = z
  BY <1>3, <1>4 DEF InSizes
<1>7. of(k) = Weight(kept, Rounded(z)) /\ \A j \in DOMAIN kept : of(j) \in Nat /\ of(j) <= of(k)
  <2>1. of(k) = Weight(kept, Rounded(z))
    BY <1>6
  <2>2. ASSUME NEW j \in DOMAIN kept PROVE of(j) \in Nat /\ of(j) <= of(k)
    <3>1. CASE Rounded(kept[j].size) = Rounded(z)
      BY <1>5, <2>1, <3>1
    <3>2. CASE Rounded(kept[j].size) # Rounded(z)
      <4>1. of(j) \in Nat /\ of(j) < A
        BY <1>5, <3>2
      <4> HIDE DEF of
      <4> QED BY <1>3, <1>5, <2>1, <4>1
    <3> QED BY <3>1, <3>2
  <2> QED BY <2>1, <2>2
<1>8. \A i \in heaviest : Rounded(kept[i].size) = Rounded(z)
  <2> SUFFICES ASSUME NEW i \in heaviest, Rounded(kept[i].size) # Rounded(z) PROVE FALSE
    OBVIOUS
  <2>1. of(k) <= of(i)
    OBVIOUS
  <2>2. of(i) \in Nat /\ of(i) < A
    BY <1>5
  <2> HIDE DEF of
  <2> QED BY <1>3, <1>5, <1>7, <2>1, <2>2
<1>9. k \in heaviest
  BY <1>7
<1>10. Min(heaviest) \in heaviest
  <2>1. heaviest \subseteq 1..Len(kept) /\ Len(kept) \in Nat
    BY <1>1, LenProperties
  <2> HIDE DEF heaviest
  <2> QED BY <1>9, <2>1, Edges
<1> HIDE DEF heaviest
<1>11. kept # <<>>
  BY <1>6
<1> QED BY <1>2, <1>8, <1>10, <1>11

-----------------------------------------------------------------------------
(* Rounded to a tenth, a size of at least LeastSize stays between what     *)
(* makes a heading of twice the size and of the size itself.               *)
LEMMA Rounding ==
  ASSUME NEW z \in Nat, z >= LeastSize
  PROVE  /\ Rounded(z) \in Nat /\ Rounded(z) > 0
         /\ 125 * Rounded(z) > 100 * z /\ 125 * Rounded(z) <= 200 * z
<1> DEFINE q == (z + 5) \div 10
<1>1. q \in Nat /\ 10 * q <= z + 5 /\ z + 5 < 10 * q + 10 /\ z >= 20 /\ Rounded(z) = q * 10
  BY DEF LeastSize, Rounded
<1> HIDE DEF q
<1>2. CASE z = 20
  <2>1. q = 2
    BY <1>1, <1>2
  <2> QED BY <1>1, <1>2, <2>1
<1>3. CASE z > 20
  BY <1>1, <1>3
<1> QED BY <1>1, <1>2, <1>3

SizesOf(line) == {line[i].size : i \in DOMAIN line}

(* A line has finitely many sizes. *)
LEMMA SizesBounded == \A line \in Seq(TextSpan) : \E n \in Nat : SizesOf(line) \subseteq 0..n
<1> DEFINE P == {line \in Seq(TextSpan) : \E n \in Nat : SizesOf(line) \subseteq 0..n}
<1>1. <<>> \in P
  <2>1. SizesOf(<<>>) \subseteq 0..0
    BY DEF SizesOf
  <2> QED BY <2>1, EmptySeq
<1>2. ASSUME NEW line \in Seq(TextSpan), NEW span \in TextSpan, line \in P
      PROVE  Append(line, span) \in P
  <2> DEFINE r == Append(line, span)
  <2>1. PICK n \in Nat : SizesOf(line) \subseteq 0..n
    BY <1>2
  <2> DEFINE m == n + span.size
  <2>2. m \in Nat /\ span.size \in 0..m /\ 0..n \subseteq 0..m
    BY DEF TextSpan
  <2>3. SizesOf(r) \subseteq 0..m
    <3>1. /\ r \in Seq(TextSpan) /\ DOMAIN r = 1..(Len(line) + 1) /\ r[Len(line) + 1] = span
          /\ DOMAIN line = 1..Len(line) /\ Len(line) \in Nat
          /\ \A i \in 1..Len(line) : r[i] = line[i]
      BY AppendProperties, LenProperties
    <3> HIDE DEF r, m
    <3>2. ASSUME NEW i \in DOMAIN r PROVE r[i].size \in 0..m
      <4>1. i \in DOMAIN line \/ i = Len(line) + 1
        BY <3>1
      <4>2. i \in DOMAIN line => line[i].size \in 0..n
        BY <2>1 DEF SizesOf
      <4> QED BY <2>2, <3>1, <4>1, <4>2
    <3> QED BY <3>2 DEF SizesOf
  <2>4. r \in Seq(TextSpan)
    BY AppendProperties
  <2> HIDE DEF r, m
  <2> QED BY <2>2, <2>3, <2>4 DEF r
<1>3. Seq(TextSpan) \subseteq P
  <2> HIDE DEF P
  <2> QED BY <1>1, <1>2, Appending
<1> QED BY <1>3

(* A line no larger than the body is no heading, one twice as large is. *)
LEMMA LevelIs ==
  ASSUME NEW line \in Seq(TextSpan), line # <<>>, NEW z \in Nat, z >= LeastSize
  PROVE  LET body == Rounded(z)
         IN  /\ (\A i \in DOMAIN line : line[i].size <= z) => Level(line, body) = 0
             /\ (\E i \in DOMAIN line : line[i].size >= 2 * z) => Level(line, body) > 0
<1> DEFINE body == Rounded(z)
           S == SizesOf(line)
           m == Max(S)
           R == {l \in 1..3 : 100 * m >= HeadingRatios[l] * body}
<1>1. DOMAIN line # {}
  <2>1. DOMAIN line = 1..Len(line) /\ Len(line) \in Nat \ {0}
    BY LenProperties, EmptySeq
  <2>2. 1 \in 1..Len(line)
    BY <2>1
  <2> QED BY <2>1, <2>2
<1>2. m \in S /\ \A s \in S : m >= s /\ s \in Nat
  <2>1. PICK n \in Nat : S \subseteq 0..n
    BY SizesBounded
  <2>2. S # {}
    BY <1>1 DEF SizesOf
  <2>3. \A s \in S : s \in Nat
    BY <2>1
  <2> HIDE DEF S
  <2>4. Max(S) \in S /\ \A s \in S : Max(S) >= s
    BY <2>1, <2>2, Largest
  <2> QED BY <2>3, <2>4
<1>3. m \in Nat
  BY <1>2
<1>4. Level(line, body) = IF body <= 0 \/ R = {} THEN 0 ELSE Min(R)
  BY Zenon DEF Level, HeadingLevel, SizesOf
<1>5. /\ body \in Nat /\ body > 0 /\ 125 * body > 100 * z /\ 125 * body <= 200 * z
  BY Rounding
<1> HIDE DEF body, m, S
<1>6. HeadingRatios[1] = 180 /\ HeadingRatios[2] = 150 /\ HeadingRatios[3] = 125
  BY DEF HeadingRatios
<1>7. ASSUME \A i \in DOMAIN line : line[i].size <= z PROVE Level(line, body) = 0
  <2>1. m <= z
    <3>1. PICK i \in DOMAIN line : m = line[i].size
      BY <1>2 DEF S, SizesOf
    <3> QED BY <1>7, <3>1
  <2>2. ASSUME NEW l \in 1..3 PROVE ~(100 * m >= HeadingRatios[l] * body)
    <3>1. l = 1 \/ l = 2 \/ l = 3
      OBVIOUS
    <3>2. ~(100 * m >= 180 * body) /\ ~(100 * m >= 150 * body) /\ ~(100 * m >= 125 * body)
      BY <1>3, <1>5, <2>1
    <3> QED BY <1>6, <3>1, <3>2
  <2>3. R = {}
    BY <2>2
  <2> HIDE DEF R
  <2> QED BY <1>4, <2>3
<1>8. ASSUME NEW i \in DOMAIN line, line[i].size >= 2 * z PROVE Level(line, body) > 0
  <2>1. m >= 2 * z
    <3>1. line[i].size \in S
      BY DEF S, SizesOf
    <3>2. m >= line[i].size /\ line[i].size \in Nat
      BY <1>2, <3>1
    <3> QED BY <1>3, <1>8, <3>2
  <2>2. 3 \in R
    <3>1. 100 * m >= 125 * body
      BY <1>3, <1>5, <2>1
    <3> QED BY <1>6, <3>1
  <2>3. R \subseteq 1..3 /\ 3 \in Nat
    OBVIOUS
  <2> HIDE DEF R
  <2>4. Min(R) \in R
    BY <2>2, <2>3, Edges
  <2>5. Level(line, body) = Min(R)
    BY <1>4, <1>5, <2>2
  <2>6. Min(R) \in 1..3
    BY <2>3, <2>4
  <2>7. \A x \in 1..3 : x > 0
    OBVIOUS
  <2> QED BY <2>5, <2>6, <2>7
<1> QED BY <1>7, <1>8 DEF body

(* A line with a character in it is not blank. *)
LEMMA CoreConcat ==
  ASSUME NEW S, NEW a \in Seq(S), NEW b \in Seq(S), Core(a) # {} \/ Core(b) # {}
  PROVE  Core(a \o b) # {}
<1> DEFINE c == a \o b
           m == Len(a)
           n == Len(b)
<1>1. /\ DOMAIN c = 1..(m + n) /\ m \in Nat /\ n \in Nat /\ DOMAIN a = 1..m /\ DOMAIN b = 1..n
      /\ \A i \in 1..(m + n) : c[i] = IF i <= m THEN a[i] ELSE b[i - m]
  BY ConcatProperties, LenProperties
<1> HIDE DEF c, m, n
<1>2. CASE Core(a) # {}
  <2>1. PICK i \in 1..m : a[i] # Space
    BY <1>1, <1>2 DEF Core
  <2>2. i \in 1..(m + n) /\ i <= m
    BY <1>1
  <2>3. c[i] # Space /\ i \in DOMAIN c
    BY <1>1, <2>1, <2>2
  <2> QED BY <2>3 DEF Core, c
<1>3. CASE Core(b) # {}
  <2>1. PICK j \in 1..n : b[j] # Space
    BY <1>1, <1>3 DEF Core
  <2> DEFINE i == m + j
  <2>2. i \in 1..(m + n) /\ ~(i <= m) /\ i - m = j
    BY <1>1
  <2> HIDE DEF i
  <2>3. c[i] # Space /\ i \in DOMAIN c
    BY <1>1, <2>1, <2>2
  <2> QED BY <2>3 DEF Core, c
<1> QED BY <1>2, <1>3

(* So a line with a span that is not blank is not blank. *)
LEMMA TextsInked ==
  \A line \in Seq(TextSpan) :
     (\E i \in DOMAIN line : Core(line[i].text) # {}) => Core(Texts(line)) # {}
<1> DEFINE Shown(line) == \E i \in DOMAIN line : Core(line[i].text) # {}
           P == {line \in Seq(TextSpan) : Shown(line) => Core(FlatMap(TextOf, line)) # {}}
<1>0. Maps(TextOf, TextSpan, Seq(Inline))
  <2>1. <<>> \in Seq(TextSpan)
    BY EmptySeq
  <2> QED BY <2>1, InlineIsInk, LineOf
<1>1. <<>> \in P
  BY EmptySeq
<1>2. ASSUME NEW line \in Seq(TextSpan), NEW span \in TextSpan, line \in P
      PROVE  Append(line, span) \in P
  <2> DEFINE r == Append(line, span)
             a == FlatMap(TextOf, line)
             b == TextOf[span]
  <2>1. r \in Seq(TextSpan) /\ FlatMap(TextOf, r) = a \o b /\ a \in Seq(Inline) /\ b \in Seq(Inline)
    <3>1. FlatMap(TextOf, r) = a \o b /\ a \in Seq(Inline)
      BY <1>0, FlatMapAppend, FlatMapType
    <3> QED BY <1>0, <3>1, AppendProperties DEF Maps
  <2>2. Shown(r) => Shown(line) \/ Core(b) # {}
    <3>1. /\ DOMAIN r = 1..(Len(line) + 1) /\ r[Len(line) + 1] = span
          /\ DOMAIN line = 1..Len(line) /\ Len(line) \in Nat
          /\ \A i \in 1..Len(line) : r[i] = line[i]
      BY AppendProperties, LenProperties
    <3>2. b = span.text
      BY DEF TextOf
    <3> HIDE DEF r, b
    <3> QED BY <3>1, <3>2
  <2>3. Shown(line) => Core(a) # {}
    BY <1>2
  <2> HIDE DEF Shown, r, a, b
  <2>4. Shown(r) => Core(FlatMap(TextOf, r)) # {}
    BY <2>1, <2>2, <2>3, CoreConcat
  <2> QED BY <2>1, <2>4 DEF r
<1>3. Seq(TextSpan) \subseteq P
  <2> HIDE DEF P
  <2> QED BY <1>1, <1>2, Appending
<1>4. ASSUME NEW line \in Seq(TextSpan), Shown(line) PROVE Core(Texts(line)) # {}
  <2>1. Texts(line) = FlatMap(TextOf, line)
    BY InlineIsInk, LineOf
  <2> HIDE DEF Shown
  <2> QED BY <1>3, <1>4, <2>1
<1> QED BY <1>4

(* A heading begins with a number sign. *)
LEMMA HeadingIs ==
  ASSUME NEW line \in Seq(TextSpan), NEW body, Core(Texts(line)) # {}, Level(line, body) > 0
  PROVE  RenderLine(line, body) # <<>> /\ RenderLine(line, body)[1] = "#"
<1> DEFINE t == Texts(line)
           v == Level(line, body)
           p == [i \in 1..v |-> "#"]
           s == Strip(t)
           b == <<Space>>
<1>1. RenderLine(line, body) = (p \o b) \o s
  BY DEF RenderLine
<1>2. s \in Seq(Chars)
  <2>1. t \in Seq(Inline) /\ Inline \subseteq Chars
    BY InlineIsInk, LineOf DEF Inline
  <2> HIDE DEF t
  <2>2. s \in Seq(Inline)
    BY <2>1, StripKeeps
  <2> QED BY <2>1, <2>2, SeqMonotonic
<1>3. v \in 1..3
  <2>1. v \in 0..3
    BY Levels DEF Level
  <2> HIDE DEF v
  <2> QED BY <2>1 DEF v
<1>4. p \in Seq(Chars) /\ p # <<>> /\ p[1] = "#" /\ b \in Seq(Chars)
  <2>1. "#" \in Chars /\ Space \in Chars
    BY DEF Chars
  <2> HIDE DEF v
  <2> QED BY <1>3, <2>1
<1> HIDE DEF p, s, b
<1>5. p \o b \in Seq(Chars) /\ p \o b # <<>> /\ (p \o b)[1] = "#"
  BY <1>4, ConcatEnds
<1> DEFINE q == p \o b
<1> HIDE DEF q
<1>6. q \o s # <<>> /\ (q \o s)[1] = "#"
  BY <1>2, <1>5, ConcatEnds DEF q
<1> QED BY <1>1, <1>6 DEF q

(* A line that is no heading does not, if no text has a number sign. *)
LEMMA PlainLineIs ==
  ASSUME "#" \notin Alphabet, NEW line \in Seq(TextSpan), NEW body, ~(Level(line, body) > 0),
         RenderLine(line, body) # <<>>
  PROVE  RenderLine(line, body)[1] # "#"
<1> DEFINE T == Chars \ {"#"}
           r == RenderLine(line, body)
<1>1. Ink(T)
  <2>1. Alphabet \subseteq T
    BY DEF Chars
  <2>2. {Space, "*", "-"} \subseteq T
    BY DEF Chars, Space
  <2> QED BY <2>1, <2>2 DEF Ink
<1>2. r \in Seq(T)
  <2> HIDE DEF T
  <2> QED BY <1>1, LineRendered
<1>3. 1 \in 1..Len(r)
  BY <1>2, EmptySeq
<1>4. r[1] \in T
  <2> HIDE DEF T, r
  <2> QED BY <1>2, <1>3, ElementOfSeq
<1> QED BY <1>4

(* Wherever no text has a number sign of its own, headings stand out on    *)
(* every page that is set like the document (markdown.py 39-63, 90-114).   *)
THEOREM Headings == ASSUME "#" \notin Alphabet PROVE Spec => []HeadingsStandOut
<1>1. Course => HeadingsStandOut
  <2> SUFFICES ASSUME Course, Delivered,
                      NEW page \in ToSet(file.pages), NEW line \in ToSet(Lines(page)),
                      NEW body \in ToSet(Lines(page)), NEW z \in {body[i].size : i \in DOMAIN body},
                      MostlyIn(page, z), MostlyIn(FlattenSeq(file.pages), z), z >= LeastSize
               PROVE  /\ (\A i \in DOMAIN line : line[i].size <= z) => ~IsHeading(line, page)
                      /\ (\E i \in DOMAIN line : Core(line[i].text) # {} /\ line[i].size >= 2 * z)
                             => IsHeading(line, page)
    BY Zenon DEF HeadingsStandOut
  <2>1. page \in Seq(LayoutBlock)
    <3>1. file.pages \in Seq(Seq(LayoutBlock))
      BY DeliveredIs
    <3> QED BY <3>1, LenProperties, ElementOfSeq DEF ToSet
  <2>2. line \in Seq(TextSpan) /\ body \in Seq(TextSpan)
    <3>1. Lines(page) \in Seq(Seq(TextSpan))
      BY <2>1, LinesIs
    <3> QED BY <3>1, LenProperties, ElementOfSeq DEF ToSet
  <2>3. z \in Nat
    <3>1. \A i \in DOMAIN body : body[i] \in TextSpan
      BY <2>2, LenProperties, ElementOfSeq
    <3> QED BY <3>1 DEF TextSpan
  <2> DEFINE b == Rounded(z)
             r == RenderLine(line, b)
  <2>4. BodySize(page) = b
    BY <2>1, <2>3, BodySizeIs
  <2> HIDE DEF b
  <2>5. IsHeading(line, page) <=> r # <<>> /\ r[1] = "#"
    BY <2>4 DEF IsHeading
  <2> HIDE DEF r
  <2>6. ASSUME \A i \in DOMAIN line : line[i].size <= z PROVE ~IsHeading(line, page)
    <3>1. CASE line = <<>>
      <4>1. Texts(line) = <<>>
        BY <3>1, InlineIsInk, LineOf, FlatMapEmpty, <2>2
      <4>2. Core(<<>>) = {}
        BY DEF Core
      <4>3. r = <<>>
        BY <4>1, <4>2 DEF r, RenderLine
      <4> QED BY <2>5, <4>3
    <3>2. CASE line # <<>>
      <4>1. Level(line, b) = 0
        BY <2>2, <2>3, <2>6, <3>2, LevelIs DEF b
      <4>2. ~(Level(line, b) > 0)
        BY <4>1
      <4> QED BY <2>2, <2>5, <4>2, PlainLineIs DEF r
    <3> QED BY <3>1, <3>2
  <2>7. ASSUME NEW i \in DOMAIN line, Core(line[i].text) # {}, line[i].size >= 2 * z
        PROVE  IsHeading(line, page)
    <3>1. line # <<>>
      BY <2>7
    <3>2. Level(line, b) > 0
      BY <2>2, <2>3, <2>7, <3>1, LevelIs DEF b
    <3>3. Core(Texts(line)) # {}
      BY <2>2, <2>7, TextsInked
    <3> QED BY <2>2, <2>5, <3>2, <3>3, HeadingIs DEF r
  <2> QED BY <2>6, <2>7
<1> QED BY <1>1, Courses, PTL
===============================================================================
