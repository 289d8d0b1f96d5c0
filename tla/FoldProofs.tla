------------------------------ MODULE FoldProofs ------------------------------
(***************************************************************************)
(* What a fold over a sequence computes, for sequences of every length,    *)
(* and with it the duration of a scenario.  The induction theorems of the  *)
(* library take an operator and are out of reach of the provers; the       *)
(* induction here is over the set of the numbers that have a property, and *)
(* comes from the well-foundedness of the natural numbers.                 *)
(***************************************************************************)
EXTENDS WorkloadLevel, TLAPS, FiniteSetTheorems, SequenceTheorems

(* Induction: a set of numbers that has zero and with every number the     *)
(* next one has them all.                                                  *)
LEMMA SetInduction ==
    ASSUME NEW S, 0 \in S, \A n \in Nat : n \in S => n + 1 \in S
    PROVE  \A n \in Nat : n \in S
<1> SUFFICES ASSUME NEW k \in Nat, k \notin S PROVE FALSE
  OBVIOUS
<1> DEFINE R == OpToRel(<, Nat)
           T == {n \in Nat : n \notin S}
<1>1. IsWellFoundedOn(R, Nat)
  BY NatLessThanWellFounded
<1>2. T \subseteq Nat /\ T # {}
  OBVIOUS
<1>3. \A i, j \in Nat : i < j => <<i, j>> \in R
  BY DEF OpToRel
<1> HIDE DEF R
<1>4. PICK m \in T : \A y \in T : ~(<<y, m>> \in R)
  <2> HIDE DEF T
  <2> QED
    BY <1>1, <1>2, WFMin
<1>5. m \in Nat /\ m # 0
  BY <1>4
<1>6. m - 1 \in Nat /\ m - 1 < m /\ (m - 1) + 1 = m
  BY <1>5
<1>7. m - 1 \in S
  BY <1>3, <1>4, <1>5, <1>6
<1> QED
  BY <1>4, <1>6, <1>7

(* The recursion below FoldLeft has a solution: a function on all the sets *)
(* of positions, as the fold takes the greatest position out of a set.     *)
FoldsTo(f, n, base, op, seq) ==
    \A s \in SUBSET (1 .. n) :
        f[s] = IF s = {} THEN base ELSE op[f[s \ {Max(s)}]][seq[Max(s)]]

LEMMA FoldExists ==
    ASSUME NEW G, NEW S, NEW base \in G, NEW op \in [G -> [S -> G]], NEW seq \in Seq(S)
    PROVE  \E f \in [SUBSET (1 .. Len(seq)) -> G] : FoldsTo(f, Len(seq), base, op, seq)
<1> DEFINE Solved(n) == \E f \in [SUBSET (1 .. n) -> G] : FoldsTo(f, n, base, op, seq)
           N == {n \in Nat : n <= Len(seq) => Solved(n)}
<1>0. Len(seq) \in Nat /\ \A i \in 1 .. Len(seq) : seq[i] \in S
  BY LenProperties, ElementOfSeq
<1>1. Solved(0)
  <2> DEFINE f == [s \in SUBSET (1 .. 0) |-> base]
  <2>1. 1 .. 0 = {}
    OBVIOUS
  <2>2. f \in [SUBSET (1 .. 0) -> G]
    OBVIOUS
  <2>3. FoldsTo(f, 0, base, op, seq)
    BY <2>1 DEF FoldsTo
  <2> QED
    BY <2>2, <2>3
<1>2. ASSUME NEW n \in Nat, Solved(n), n + 1 <= Len(seq)
      PROVE  Solved(n + 1)
  <2>1. PICK g \in [SUBSET (1 .. n) -> G] : FoldsTo(g, n, base, op, seq)
    BY <1>2
  <2> DEFINE D == SUBSET (1 .. n + 1)
             f == [s \in D |-> IF n + 1 \in s THEN op[g[s \ {n + 1}]][seq[n + 1]] ELSE g[s]]
  <2>2. \A s \in D : s \ {n + 1} \in SUBSET (1 .. n)
    OBVIOUS
  <2>3. \A s \in D : n + 1 \notin s => s \in SUBSET (1 .. n)
    OBVIOUS
  <2>4. seq[n + 1] \in S
    BY <1>0, <1>2
  <2>5. f \in [D -> G]
    <3> HIDE DEF D
    <3>1. \A s \in D : op[g[s \ {n + 1}]][seq[n + 1]] \in G
      BY <2>2, <2>4
    <3>2. \A s \in D : n + 1 \notin s => g[s] \in G
      BY <2>3
    <3> QED
      BY <3>1, <3>2
  <2>f. \A s \in D : f[s] = IF n + 1 \in s THEN op[g[s \ {n + 1}]][seq[n + 1]] ELSE g[s]
    OBVIOUS
  <2> HIDE DEF f
  <2>6. ASSUME NEW s \in D, n + 1 \in s
        PROVE  f[s] = op[f[s \ {Max(s)}]][seq[Max(s)]]
    <3>1. Max(s) = n + 1
      <4>1. \A y \in s : n + 1 >= y
        OBVIOUS
      <4>2. \A x \in s : (\A y \in s : x >= y) => x = n + 1
        BY <2>6
      <4> QED
        BY <2>6, <4>1, <4>2 DEF Max
    <3>2. f[s \ {n + 1}] = g[s \ {n + 1}]
      BY <2>f
    <3> QED
      BY <2>6, <2>f, <3>1, <3>2
  <2>7. ASSUME NEW s \in D, n + 1 \notin s, s # {}
        PROVE  f[s] = op[f[s \ {Max(s)}]][seq[Max(s)]]
    <3>1. s \in SUBSET (1 .. n) /\ s \ {Max(s)} \in SUBSET (1 .. n) /\ s \ {Max(s)} \in D
      BY <2>3, <2>7
    <3>2. f[s] = g[s] /\ f[s \ {Max(s)}] = g[s \ {Max(s)}]
      BY <2>7, <2>f, <3>1
    <3> QED
      BY <2>1, <2>7, <3>1, <3>2 DEF FoldsTo
  <2>8. f[{}] = base
    <3>1. {} \in SUBSET (1 .. n) /\ {} \in D
      OBVIOUS
    <3>2. g[{}] = base
      BY <2>1, <3>1 DEF FoldsTo
    <3> QED
      BY <2>f, <3>1, <3>2
  <2>9. FoldsTo(f, n + 1, base, op, seq)
    BY <2>6, <2>7, <2>8 DEF FoldsTo
  <2> QED
    BY <2>5, <2>9
<1> HIDE DEF Solved
<1>3. \A n \in Nat : n \in N
  <2>1. 0 \in N
    BY <1>1
  <2>2. \A n \in Nat : n \in N => n + 1 \in N
    <3> SUFFICES ASSUME NEW n \in Nat, n \in N, n + 1 <= Len(seq) PROVE Solved(n + 1)
      OBVIOUS
    <3>1. n <= Len(seq)
      BY <1>0
    <3> QED
      BY <1>2, <3>1
  <2> HIDE DEF N
  <2> QED
    BY <2>1, <2>2, SetInduction
<1>4. Solved(Len(seq))
  BY <1>0, <1>3
<1> QED
  BY <1>4 DEF Solved

(* The greatest position of a set of positions, and of an initial segment. *)
LEMMA MaxOfPositions ==
    ASSUME NEW n \in Nat
    PROVE  \A s \in SUBSET (1 .. n) : s # {} => Max(s) \in s /\ \A y \in s : Max(s) >= y
<1> DEFINE Greatest(s) == Max(s) \in s /\ \A y \in s : Max(s) >= y
           N == {k \in Nat : \A s \in SUBSET (1 .. k) : s # {} => Greatest(s)}
<1>1. 0 \in N
  <2>1. 1 .. 0 = {}
    OBVIOUS
  <2> QED
    BY <2>1
<1>2. ASSUME NEW k \in Nat, k \in N
      PROVE  k + 1 \in N
  <2> SUFFICES ASSUME NEW s \in SUBSET (1 .. k + 1), s # {} PROVE Greatest(s)
    OBVIOUS
  <2>1. CASE k + 1 \in s
    <3>1. \A y \in s : k + 1 >= y
      OBVIOUS
    <3> QED
      BY <2>1, <3>1 DEF Max
  <2>2. CASE k + 1 \notin s
    <3>1. s \in SUBSET (1 .. k)
      BY <2>2
    <3> QED
      BY <1>2, <3>1
  <2> QED
    BY <2>1, <2>2
<1>3. \A k \in Nat : k \in N
  <2> HIDE DEF N
  <2> QED
    BY <1>1, <1>2, SetInduction
<1> QED
  BY <1>3

(* The positions up to j without the greatest are those up to j - 1.       *)
LEMMA MaxOfSegment ==
    ASSUME NEW j \in Nat, j # 0
    PROVE  1 .. j # {} /\ Max(1 .. j) = j /\ (1 .. j) \ {j} = 1 .. j - 1
<1>1. j \in 1 .. j /\ \A y \in 1 .. j : j >= y
  OBVIOUS
<1>2. \A x \in 1 .. j : (\A y \in 1 .. j : x >= y) => x = j
  BY <1>1
<1> QED
  BY <1>1, <1>2 DEF Max

(* Two runs of a recursion that agree at the start and step alike agree.   *)
LEMMA SameRun ==
    ASSUME NEW A, NEW B, NEW n \in Nat, A[0] = B[0],
           \A j \in 1 .. n : A[j - 1] = B[j - 1] => A[j] = B[j]
    PROVE  \A j \in 0 .. n : A[j] = B[j]
<1> DEFINE N == {j \in Nat : j <= n => A[j] = B[j]}
<1>1. 0 \in N
  OBVIOUS
<1>2. ASSUME NEW j \in Nat, j \in N
      PROVE  j + 1 \in N
  <2> SUFFICES ASSUME j + 1 <= n PROVE A[j + 1] = B[j + 1]
    OBVIOUS
  <2>1. j + 1 \in 1 .. n /\ (j + 1) - 1 = j /\ j <= n
    OBVIOUS
  <2> QED
    BY <1>2, <2>1
<1>3. \A j \in Nat : j \in N
  <2> HIDE DEF N
  <2> QED
    BY <1>1, <1>2, SetInduction
<1> QED
  BY <1>3

-----------------------------------------------------------------------------
(* The sum of the weights of the members of a sequence, and its partial    *)
(* sums.                                                                   *)
SumOf(w, seq) == FoldLeft(LAMBDA sum, x : sum + w[x], 0, seq)

Sums(sum, w, seq) ==
    /\ sum \in [0 .. Len(seq) -> Nat]
    /\ sum[0] = 0
    /\ \A j \in 1 .. Len(seq) : sum[j] = sum[j - 1] + w[seq[j]]

(* The fold of FoldLeft has the running sums as its values.                *)
LEMMA FoldIsSum ==
    ASSUME NEW S, NEW w \in [S -> Nat], NEW seq \in Seq(S)
    PROVE  \E sum : Sums(sum, w, seq) /\ SumOf(w, seq) = sum[Len(seq)]
<1> DEFINE n == Len(seq)
           D == SUBSET (1 .. n)
           op == [a \in Nat |-> [x \in S |-> a + w[x]]]
           Solves(f) == f = [s \in D |-> IF s = {} THEN 0 ELSE f[s \ {Max(s)}] + w[seq[Max(s)]]]
           iter == CHOOSE f : Solves(f)
           sum == [j \in 0 .. n |-> iter[1 .. j]]
<1>0. n \in Nat /\ DOMAIN seq = 1 .. n /\ \A i \in 1 .. n : seq[i] \in S
  BY LenProperties, ElementOfSeq
<1>1. SumOf(w, seq) = iter[1 .. n]
  BY <1>0 DEF SumOf, FoldLeft, MapThenFoldSet
<1>2. \E f : Solves(f)
  <2>1. op \in [Nat -> [S -> Nat]]
    OBVIOUS
  <2>2. PICK f \in [D -> Nat] : FoldsTo(f, n, 0, op, seq)
    BY <2>1, FoldExists
  <2>3. ASSUME NEW s \in D, s # {}
        PROVE  f[s] = f[s \ {Max(s)}] + w[seq[Max(s)]]
    <3>1. Max(s) \in 1 .. n /\ s \ {Max(s)} \in D
      BY <1>0, <2>3, MaxOfPositions
    <3>2. f[s] = op[f[s \ {Max(s)}]][seq[Max(s)]]
      BY <2>2, <2>3 DEF FoldsTo
    <3> QED
      BY <1>0, <3>1, <3>2
  <2>4. f[{}] = 0
    BY <2>2 DEF FoldsTo
  <2>5. f = [s \in D |-> IF s = {} THEN 0 ELSE f[s \ {Max(s)}] + w[seq[Max(s)]]]
    <3> HIDE DEF D
    <3> QED
      BY <2>3, <2>4
  <2> QED
    BY <2>5
<1>3. Solves(iter)
  <2> HIDE DEF Solves
  <2> QED
    BY <1>2
<1>4. \A s \in D : iter[s] = IF s = {} THEN 0 ELSE iter[s \ {Max(s)}] + w[seq[Max(s)]]
  <2> HIDE DEF iter
  <2> QED
    BY <1>3
<1> HIDE DEF iter
<1>5. sum[0] = 0
  <2>1. 1 .. 0 = {} /\ {} \in D /\ 0 \in 0 .. n
    BY <1>0
  <2>2. iter[{}] = 0
    BY <1>4, <2>1
  <2> QED
    BY <2>1, <2>2
<1>6. \A j \in 1 .. n : sum[j] = sum[j - 1] + w[seq[j]]
  <2> SUFFICES ASSUME NEW j \in 1 .. n PROVE sum[j] = sum[j - 1] + w[seq[j]]
    OBVIOUS
  <2>1. 1 .. j \in D /\ j \in Nat /\ j # 0 /\ j \in 0 .. n /\ j - 1 \in 0 .. n
    BY <1>0
  <2>2. 1 .. j # {} /\ Max(1 .. j) = j /\ (1 .. j) \ {j} = 1 .. j - 1
    BY <2>1, MaxOfSegment
  <2>3. iter[1 .. j] = iter[1 .. j - 1] + w[seq[j]]
    BY <1>4, <2>1, <2>2
  <2> QED
    BY <2>1, <2>3
<1> HIDE DEF sum
<1>7. \A j \in 0 .. n : sum[j] \in Nat
  <2> DEFINE N == {j \in Nat : j <= n => sum[j] \in Nat}
  <2>1. 0 \in N
    BY <1>5
  <2>2. ASSUME NEW j \in Nat, j \in N
        PROVE  j + 1 \in N
    <3> SUFFICES ASSUME j + 1 <= n PROVE sum[j + 1] \in Nat
      OBVIOUS
    <3>1. j + 1 \in 1 .. n /\ (j + 1) - 1 = j /\ j <= n
      BY <1>0
    <3>2. w[seq[j + 1]] \in Nat
      BY <1>0, <3>1
    <3>3. sum[j] \in Nat
      BY <2>2, <3>1
    <3> QED
      BY <1>6, <3>1, <3>2, <3>3
  <2>3. \A j \in Nat : j \in N
    <3> HIDE DEF N
    <3> QED
      BY <2>1, <2>2, SetInduction
  <2> QED
    BY <2>3
<1>8. sum \in [0 .. n -> Nat] /\ sum[n] = iter[1 .. n]
  BY <1>0, <1>7 DEF sum
<1> QED
  BY <1>1, <1>5, <1>6, <1>8 DEF Sums

(* A sum of weights is a number, nothing adds up to nothing, and every     *)
(* member of the sequence adds its weight.                                 *)
LEMMA SumType ==
    ASSUME NEW S, NEW w \in [S -> Nat], NEW seq \in Seq(S)
    PROVE  SumOf(w, seq) \in Nat
<1>1. PICK sum : Sums(sum, w, seq) /\ SumOf(w, seq) = sum[Len(seq)]
  BY FoldIsSum
<1> QED
  BY <1>1, LenProperties DEF Sums

(* The sum over no element.                                                *)
LEMMA SumOfNone ==
    ASSUME NEW S, NEW w \in [S -> Nat]
    PROVE  SumOf(w, << >>) = 0
<1>1. << >> \in Seq(S) /\ Len(<< >>) = 0
  BY EmptySeq
<1>2. PICK sum : Sums(sum, w, << >>) /\ SumOf(w, << >>) = sum[0]
  BY <1>1, FoldIsSum
<1> QED
  BY <1>2 DEF Sums

(* One more element adds its own weight.                                   *)
LEMMA SumStep ==
    ASSUME NEW S, NEW w \in [S -> Nat], NEW seq \in Seq(S), NEW k \in 1 .. Len(seq)
    PROVE  SumOf(w, SubSeq(seq, 1, k)) = SumOf(w, SubSeq(seq, 1, k - 1)) + w[seq[k]]
<1> DEFINE p == SubSeq(seq, 1, k)
           q == SubSeq(seq, 1, k - 1)
<1>0. Len(seq) \in Nat /\ \A i \in 1 .. Len(seq) : seq[i] \in S
  BY LenProperties, ElementOfSeq
<1>1. p \in Seq(S) /\ Len(p) = k /\ \A i \in 1 .. k : p[i] = seq[i]
  BY <1>0, SubSeqProperties
<1>2. q \in Seq(S) /\ Len(q) = k - 1 /\ \A i \in 1 .. k - 1 : q[i] = seq[i]
  BY <1>0, SubSeqProperties
<1> HIDE DEF p, q
<1>3. PICK A : Sums(A, w, p) /\ SumOf(w, p) = A[k]
  BY <1>1, FoldIsSum
<1>4. PICK B : Sums(B, w, q) /\ SumOf(w, q) = B[k - 1]
  BY <1>2, FoldIsSum
<1>5. ASSUME NEW j \in 1 .. k - 1, A[j - 1] = B[j - 1]
      PROVE  A[j] = B[j]
  <2>0. j \in 1 .. k
    BY <1>0
  <2>1. p[j] = q[j] /\ j \in 1 .. Len(p) /\ j \in 1 .. Len(q)
    BY <1>1, <1>2, <2>0
  <2> QED
    BY <1>3, <1>4, <1>5, <2>1 DEF Sums
<1>6. A[k - 1] = B[k - 1]
  <2>1. A[0] = B[0] /\ k - 1 \in Nat
    BY <1>3, <1>4 DEF Sums
  <2>2. \A j \in 0 .. k - 1 : A[j] = B[j]
    BY <1>5, <2>1, SameRun
  <2> QED
    BY <2>1, <2>2
<1>7. A[k] = A[k - 1] + w[p[k]]
  BY <1>1, <1>3 DEF Sums
<1> QED
  BY <1>1, <1>3, <1>4, <1>6, <1>7 DEF p, q

-----------------------------------------------------------------------------
(* The duration of a scenario is the sum of the durations of its levels.   *)
Durations == [level \in Levels |-> level.dur]

(* The fold over the levels adds what Durations says of each.              *)
LEMMA DurationIsSum ==
    ASSUME NEW levels \in Seq(Levels)
    PROVE  DurationOf(levels) = SumOf(Durations, levels)
<1> DEFINE D == SUBSET (DOMAIN levels)
           Solves(f) == f = [s \in D |-> IF s = {} THEN 0 ELSE f[s \ {Max(s)}] + levels[Max(s)].dur]
           Adds(f) == f = [s \in D |-> IF s = {} THEN 0
                                       ELSE f[s \ {Max(s)}] + Durations[levels[Max(s)]]]
<1>1. \A s \in D : s # {} => Durations[levels[Max(s)]] = levels[Max(s)].dur
  BY LenProperties, ElementOfSeq, MaxOfPositions DEF Durations
<1>2. \A f : Solves(f) <=> Adds(f)
  <2> HIDE DEF D
  <2> QED
    BY <1>1
<1>3. (CHOOSE f : Solves(f)) = (CHOOSE f : Adds(f))
  <2> HIDE DEF Solves, Adds
  <2> QED
    BY <1>2
<1>4. DurationOf(levels) = (CHOOSE f : Solves(f))[DOMAIN levels]
  BY DEF DurationOf, FoldLeft, MapThenFoldSet
<1>5. SumOf(Durations, levels) = (CHOOSE f : Adds(f))[DOMAIN levels]
  BY DEF SumOf, FoldLeft, MapThenFoldSet
<1> QED
  BY <1>3, <1>4, <1>5

(* So the duration of a scenario is a number, and every level adds its own.*)
THEOREM DurationType ==
    ASSUME NEW levels \in Seq(Levels)
    PROVE  DurationOf(levels) \in Nat
<1>1. Durations \in [Levels -> Nat]
  BY DEF Durations, Levels
<1> QED
  BY <1>1, SumType, DurationIsSum

(* One more level adds its own duration.                                   *)
THEOREM DurationStep ==
    ASSUME NEW levels \in Seq(Levels), NEW k \in 1 .. Len(levels)
    PROVE  DurationOf(SubSeq(levels, 1, k)) = DurationOf(SubSeq(levels, 1, k - 1)) + levels[k].dur
<1>1. Durations \in [Levels -> Nat]
  BY DEF Durations, Levels
<1>2. levels[k] \in Levels /\ Len(levels) \in Nat /\ \A i \in 1 .. Len(levels) : levels[i] \in Levels
  BY LenProperties, ElementOfSeq
<1>3. SubSeq(levels, 1, k) \in Seq(Levels) /\ SubSeq(levels, 1, k - 1) \in Seq(Levels)
  BY <1>2, SubSeqProperties
<1>4. Durations[levels[k]] = levels[k].dur
  BY <1>2 DEF Durations
<1>5. PICK p, q : p = SubSeq(levels, 1, k) /\ q = SubSeq(levels, 1, k - 1)
  OBVIOUS
<1>6. DurationOf(p) = SumOf(Durations, p) /\ DurationOf(q) = SumOf(Durations, q)
  BY <1>3, <1>5, DurationIsSum
<1>7. SumOf(Durations, p) = SumOf(Durations, q) + Durations[levels[k]]
  BY <1>1, <1>5, SumStep
<1> QED
  BY <1>4, <1>5, <1>6, <1>7

(* No level takes no time.                                                 *)
LEMMA DurationOfNone == DurationOf(<< >>) = 0
<1>1. Durations \in [Levels -> Nat]
  BY DEF Durations, Levels
<1>2. << >> \in Seq(Levels)
  BY EmptySeq
<1> QED
  BY <1>1, <1>2, SumOfNone, DurationIsSum
=============================================================================
