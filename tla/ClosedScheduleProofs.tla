------------------------- MODULE ClosedScheduleProofs -------------------------
(***************************************************************************)
(* Proofs about the generator of the closed schedule, for every scenario:  *)
(* it sends a sequence of offsets in ascending order, and on a scenario    *)
(* that does not fall the offsets follow the levels.                       *)
(***************************************************************************)
EXTENDS ClosedSchedule, FoldProofs

-----------------------------------------------------------------------------
(* The offsets come in order                                               *)

(* The offsets so far are in order, and none is beyond the level reached.  *)
InOrder(offsets, limit) ==
    /\ \A i, j \in 1 .. Len(offsets) : i <= j => offsets[i] <= offsets[j]
    /\ \A j \in 1 .. Len(offsets) : offsets[j] <= limit

Progress ==
    {g \in [curLevel : Nat, curOffset : Nat, offsets : Seq(Nat)] : InOrder(g.offsets, g.curOffset)}

(* Two sequences in order, the second beyond the first, are in order.      *)
LEMMA ConcatInOrder ==
    ASSUME NEW s \in Seq(Nat), NEW t \in Seq(Nat), NEW a \in Nat, NEW b \in Nat, a <= b,
           InOrder(s, a), InOrder(t, b), \A j \in 1 .. Len(t) : a <= t[j]
    PROVE  s \o t \in Seq(Nat) /\ InOrder(s \o t, b)
<1> DEFINE u == s \o t
           m == Len(s)
           n == Len(t)
<1>0. m \in Nat /\ n \in Nat
      /\ (\A j \in 1 .. m : s[j] \in Nat) /\ (\A j \in 1 .. n : t[j] \in Nat)
  BY LenProperties, ElementOfSeq
<1>1. u \in Seq(Nat) /\ Len(u) = m + n
      /\ \A j \in 1 .. m + n : u[j] = IF j <= m THEN s[j] ELSE t[j - m]
  BY ConcatProperties
<1> HIDE DEF u
<1>2. \A j \in 1 .. m + n : j <= m => u[j] = s[j] /\ u[j] <= a /\ u[j] \in Nat
  BY <1>0, <1>1 DEF InOrder
<1>3. \A j \in 1 .. m + n : ~(j <= m) =>
          j - m \in 1 .. n /\ u[j] = t[j - m] /\ a <= u[j] /\ u[j] <= b /\ u[j] \in Nat
  BY <1>0, <1>1 DEF InOrder
<1>4. ASSUME NEW i \in 1 .. m + n, NEW j \in 1 .. m + n, i <= j
      PROVE  u[i] <= u[j]
  <2>1. CASE j <= m
    <3>1. i \in 1 .. m /\ j \in 1 .. m
      BY <1>0, <1>4, <2>1
    <3> QED
      BY <1>2, <1>4, <2>1, <3>1 DEF InOrder
  <2>2. CASE i <= m /\ ~(j <= m)
    <3>1. u[i] <= a /\ a <= u[j] /\ u[i] \in Nat /\ u[j] \in Nat
      BY <1>2, <1>3, <2>2
    <3> QED
      BY ONLY <3>1, a \in Nat
  <2>3. CASE ~(i <= m)
    <3>1. ~(j <= m) /\ i - m <= j - m
      BY <1>0, <1>4, <2>3
    <3> QED
      BY <1>3, <2>3, <3>1 DEF InOrder
  <2> QED
    BY <2>1, <2>2, <2>3
<1>5. \A j \in 1 .. m + n : u[j] <= b
  BY <1>2, <1>3
<1> QED
  BY <1>1, <1>4, <1>5 DEF InOrder, u

(* The workers that start at once, and those that start one by one, the    *)
(* last of them not after the end of the level.                            *)
LEMMA JumpType ==
    ASSUME NEW level \in Levels, NEW curLevel \in Nat
    PROVE  Jump(curLevel, level) \in Nat
<1>1. level.start \in Nat /\ LevelUnit \in Nat \ {0}
  BY ClosedScheduleAssumption DEF Levels
<1> QED
  BY <1>1 DEF Jump

(* The starts of a climbing level are in order, within the level.          *)
LEMMA ClimbType ==
    ASSUME NEW level \in Levels
    PROVE  /\ Climb(level) \in Nat
           /\ \A i \in 1 .. Climb(level) :
                /\ ClimbOffset(level, i) \in Nat /\ ClimbOffset(level, i) <= level.dur
                /\ \A j \in 1 .. Climb(level) :
                       i <= j => ClimbOffset(level, i) <= ClimbOffset(level, j)
<1>1. level.start \in Nat /\ level.end \in Nat /\ level.dur \in Nat /\ LevelUnit \in Nat \ {0}
  BY ClosedScheduleAssumption DEF Levels
<1>2. CASE ~(level.start < level.end)
  BY <1>2 DEF Climb
<1>3. CASE level.start < level.end
  <2> DEFINE d == level.end - level.start
             c == d \div LevelUnit
             D == level.dur
  <2>0. d \in Nat \ {0} /\ D \in Nat
    BY <1>1, <1>3
  <2>1. c \in Nat /\ c * LevelUnit <= d /\ Climb(level) = c
    BY <1>1, <1>3, <2>0 DEF Climb
  <2>2. \A i \in 1 .. c : ClimbOffset(level, i) = (D * i * LevelUnit) \div d
    BY <1>1 DEF ClimbOffset
  <2> HIDE DEF c, D, d
  <2>3. ASSUME NEW i \in 1 .. c
        PROVE  /\ D * i * LevelUnit \in Nat
               /\ (D * i * LevelUnit) \div d \in Nat
               /\ (D * i * LevelUnit) \div d <= D
    <3>1. i * LevelUnit \in Nat /\ i * LevelUnit <= c * LevelUnit
      BY <1>1, <2>1
    <3>2. i * LevelUnit <= d
      BY <1>1, <2>0, <2>1, <3>1
    <3> DEFINE x == i * LevelUnit
    <3>3. D * i * LevelUnit = D * x
      BY <1>1, <2>0, <2>1
    <3>4. x \in Nat /\ x <= d
      BY <3>1, <3>2
    <3> HIDE DEF x
    <3>5. D * x \in Nat /\ D * x <= D * d
      BY <2>0, <3>4
    <3>6. (D * x) \div d \in Nat /\ (D * x) \div d <= D
      BY <2>0, <3>5
    <3> QED
      BY <3>3, <3>5, <3>6
  <2>4. ASSUME NEW i \in 1 .. c, NEW j \in 1 .. c, i <= j
        PROVE  (D * i * LevelUnit) \div d <= (D * j * LevelUnit) \div d
    <3>1. D * i \in Nat /\ D * j \in Nat /\ D * i <= D * j
      BY <2>0, <2>1, <2>4
    <3>2. D * i * LevelUnit <= D * j * LevelUnit
      BY <1>1, <3>1
    <3>3. D * i * LevelUnit \in Nat /\ D * j * LevelUnit \in Nat
      BY <2>3
    <3> QED
      BY <2>0, <3>2, <3>3
  <2> QED
    BY <2>1, <2>2, <2>3, <2>4 DEF D
<1> QED
  BY <1>2, <1>3

(* A level adds its offsets at the end.                                    *)
LEMMA AfterLevelType ==
    ASSUME NEW g \in Progress, NEW level \in Levels
    PROVE  AfterLevel(g, level) \in Progress
<1>0. /\ g.curLevel \in Nat /\ g.curOffset \in Nat /\ g.offsets \in Seq(Nat)
      /\ InOrder(g.offsets, g.curOffset)
      /\ level.end \in Nat /\ level.dur \in Nat
  BY DEF Progress, Levels
<1> DEFINE m == Jump(g.curLevel, level)
           n == Climb(level)
           b == g.curOffset + level.dur
           s == [i \in 1 .. m |-> g.curOffset]
           t == [i \in 1 .. n |-> g.curOffset + ClimbOffset(level, i)]
<1>1. m \in Nat /\ n \in Nat /\ b \in Nat /\ g.curOffset <= b
  <2>1. m \in Nat
    BY <1>0, JumpType
  <2>2. n \in Nat
    BY ClimbType
  <2> QED
    BY <1>0, <2>1, <2>2
<1>2. s \in Seq(Nat) /\ Len(s) = m /\ InOrder(s, g.curOffset)
      /\ \A j \in 1 .. Len(s) : g.curOffset <= s[j]
  <2> HIDE DEF m
  <2>1. s \in Seq(Nat) /\ Len(s) = m
    BY <1>0, <1>1
  <2>2. \A j \in 1 .. m : s[j] = g.curOffset
    OBVIOUS
  <2>3. g.curOffset \in Nat /\ m \in Nat
    BY <1>0, <1>1
  <2> HIDE DEF s, b, n
  <2>4. InOrder(s, g.curOffset)
    BY <2>1, <2>2, <2>3 DEF InOrder
  <2> QED
    BY <2>1, <2>2, <2>3, <2>4
<1>3. t \in Seq(Nat) /\ Len(t) = n /\ InOrder(t, b)
      /\ \A j \in 1 .. Len(t) : g.curOffset <= t[j]
  <2>0. \A i \in 1 .. n :
            /\ ClimbOffset(level, i) \in Nat /\ ClimbOffset(level, i) <= level.dur
            /\ \A j \in 1 .. n : i <= j => ClimbOffset(level, i) <= ClimbOffset(level, j)
    BY ClimbType
  <2> HIDE DEF n
  <2>1. t \in Seq(Nat) /\ Len(t) = n
    BY <1>0, <1>1, <2>0
  <2>2. \A j \in 1 .. n : t[j] = g.curOffset + ClimbOffset(level, j)
    OBVIOUS
  <2> HIDE DEF t
  <2>3. \A i, j \in 1 .. n : i <= j => t[i] <= t[j]
    <3> SUFFICES ASSUME NEW i \in 1 .. n, NEW j \in 1 .. n, i <= j PROVE t[i] <= t[j]
      OBVIOUS
    <3>1. PICK x, y : x = ClimbOffset(level, i) /\ y = ClimbOffset(level, j)
      OBVIOUS
    <3>2. x \in Nat /\ y \in Nat /\ x <= y
      BY <2>0, <3>1
    <3>3. t[i] = g.curOffset + x /\ t[j] = g.curOffset + y
      BY <2>2, <3>1
    <3> QED
      BY <1>0, <3>2, <3>3
  <2>4. \A j \in 1 .. n : t[j] <= b /\ g.curOffset <= t[j]
    <3> SUFFICES ASSUME NEW j \in 1 .. n PROVE t[j] <= b /\ g.curOffset <= t[j]
      OBVIOUS
    <3>1. PICK y : y = ClimbOffset(level, j)
      OBVIOUS
    <3>2. y \in Nat /\ y <= level.dur /\ t[j] = g.curOffset + y
      BY <2>0, <2>2, <3>1
    <3> QED
      BY <1>0, <3>2
  <2> HIDE DEF b
  <2> QED
    BY <2>1, <2>3, <2>4 DEF InOrder
<1> DEFINE u == g.offsets \o s
<1> HIDE DEF s, t, m, n
<1>4. u \in Seq(Nat) /\ InOrder(u, g.curOffset)
  BY <1>0, <1>2, ConcatInOrder
<1> HIDE DEF u
<1>5. u \o t \in Seq(Nat) /\ InOrder(u \o t, b)
  BY <1>0, <1>1, <1>3, <1>4, ConcatInOrder
<1>6. AfterLevel(g, level) = [curLevel |-> level.end, curOffset |-> b, offsets |-> u \o t]
  BY DEF AfterLevel, u, s, t, m, n
<1> DEFINE v == u \o t
<1> HIDE DEF b, v
<1>7. AfterLevel(g, level) = [curLevel |-> level.end, curOffset |-> b, offsets |-> v]
  BY <1>6 DEF v
<1>8. v \in Seq(Nat) /\ InOrder(v, b)
  BY <1>5 DEF v
<1> QED
  BY <1>0, <1>1, <1>7, <1>8 DEF Progress

(* The goroutine after each of the levels.                                 *)
Start == [curLevel |-> 0, curOffset |-> 0, offsets |-> << >>]

Runs(g, levels) ==
    /\ g \in [0 .. Len(levels) -> Progress]
    /\ g[0] = Start
    /\ \A j \in 1 .. Len(levels) : g[j] = AfterLevel(g[j - 1], levels[j])

(* The fold of ClosedOffsets goes through the levels one after the other.  *)
LEMMA GeneratorRuns ==
    ASSUME NEW levels \in Seq(Levels)
    PROVE  \E g : Runs(g, levels) /\ ClosedOffsets(levels) = g[Len(levels)].offsets
<1> DEFINE n == Len(levels)
           D == SUBSET (1 .. n)
           op == [g \in Progress |-> [level \in Levels |-> AfterLevel(g, level)]]
           Solves(f) == f = [s \in D |-> IF s = {} THEN Start
                                         ELSE AfterLevel(f[s \ {Max(s)}], levels[Max(s)])]
           iter == CHOOSE f : Solves(f)
           run == [j \in 0 .. n |-> iter[1 .. j]]
<1>0. n \in Nat /\ DOMAIN levels = 1 .. n /\ \A i \in 1 .. n : levels[i] \in Levels
  BY LenProperties, ElementOfSeq
<1>1. ClosedOffsets(levels) = iter[1 .. n].offsets
  BY <1>0 DEF ClosedOffsets, FoldLeft, MapThenFoldSet, Start
<1>2. Start \in Progress
  <2>1. << >> \in Seq(Nat) /\ Len(<< >>) = 0
    BY EmptySeq
  <2> QED
    BY <2>1 DEF Progress, InOrder, Start
<1>3. \E f : Solves(f)
  <2>1. op \in [Progress -> [Levels -> Progress]]
    BY AfterLevelType
  <2>2. PICK f \in [D -> Progress] : FoldsTo(f, n, Start, op, levels)
    BY <1>2, <2>1, FoldExists
  <2>3. ASSUME NEW s \in D, s # {}
        PROVE  f[s] = AfterLevel(f[s \ {Max(s)}], levels[Max(s)])
    <3>1. Max(s) \in 1 .. n /\ s \ {Max(s)} \in D
      BY <1>0, <2>3, MaxOfPositions
    <3>2. f[s] = op[f[s \ {Max(s)}]][levels[Max(s)]]
      BY <2>2, <2>3 DEF FoldsTo
    <3>3. f[s \ {Max(s)}] \in Progress /\ levels[Max(s)] \in Levels
      BY <1>0, <3>1
    <3> QED
      BY <3>2, <3>3
  <2>4. f[{}] = Start
    BY <2>2 DEF FoldsTo
  <2>5. f = [s \in D |-> IF s = {} THEN Start ELSE AfterLevel(f[s \ {Max(s)}], levels[Max(s)])]
    <3> HIDE DEF D
    <3> QED
      BY <2>3, <2>4
  <2> QED
    BY <2>5
<1>4. Solves(iter)
  <2> HIDE DEF Solves
  <2> QED
    BY <1>3
<1>5. \A s \in D : iter[s] = IF s = {} THEN Start
                             ELSE AfterLevel(iter[s \ {Max(s)}], levels[Max(s)])
  <2> HIDE DEF iter
  <2> QED
    BY <1>4
<1> HIDE DEF iter
<1>6. run[0] = Start
  <2>1. 1 .. 0 = {} /\ {} \in D /\ 0 \in 0 .. n
    BY <1>0
  <2>2. iter[{}] = Start
    BY <1>5, <2>1
  <2> QED
    BY <2>1, <2>2
<1>7. \A j \in 1 .. n : run[j] = AfterLevel(run[j - 1], levels[j])
  <2> SUFFICES ASSUME NEW j \in 1 .. n PROVE run[j] = AfterLevel(run[j - 1], levels[j])
    OBVIOUS
  <2>1. 1 .. j \in D /\ j \in Nat /\ j # 0 /\ j \in 0 .. n /\ j - 1 \in 0 .. n
    BY <1>0
  <2>2. 1 .. j # {} /\ Max(1 .. j) = j /\ (1 .. j) \ {j} = 1 .. j - 1
    BY <2>1, MaxOfSegment
  <2>3. iter[1 .. j] = AfterLevel(iter[1 .. j - 1], levels[j])
    <3> HIDE DEF D
    <3> QED
      BY <1>5, <2>1, <2>2
  <2> QED
    BY <2>1, <2>3
<1>8. run[n] = iter[1 .. n] /\ DOMAIN run = 0 .. n /\ run = [j \in 0 .. n |-> run[j]]
  BY <1>0
<1> HIDE DEF run
<1>9. \A j \in 0 .. n : run[j] \in Progress
  <2> DEFINE N == {j \in Nat : j <= n => run[j] \in Progress}
  <2>1. 0 \in N
    BY <1>2, <1>6
  <2>2. ASSUME NEW j \in Nat, j \in N
        PROVE  j + 1 \in N
    <3> SUFFICES ASSUME j + 1 <= n PROVE run[j + 1] \in Progress
      OBVIOUS
    <3>1. j + 1 \in 1 .. n /\ (j + 1) - 1 = j /\ j <= n
      BY <1>0
    <3>2. run[j + 1] = AfterLevel(run[j], levels[j + 1])
      BY <1>7, <3>1
    <3> QED
      BY <1>0, <2>2, <3>1, <3>2, AfterLevelType
  <2>3. \A j \in Nat : j \in N
    <3> HIDE DEF N
    <3> QED
      BY <2>1, <2>2, SetInduction
  <2> QED
    BY <2>3
<1>10. Runs(run, levels)
  BY <1>6, <1>7, <1>8, <1>9 DEF Runs
<1> QED
  BY <1>1, <1>8, <1>10

(* So the offsets of a scenario are a sequence of times in order.          *)
THEOREM OffsetsInOrder ==
    ASSUME NEW levels \in Seq(Levels)
    PROVE  /\ ClosedOffsets(levels) \in Seq(Nat)
           /\ \A i, j \in 1 .. Len(ClosedOffsets(levels)) :
                  i <= j => ClosedOffsets(levels)[i] <= ClosedOffsets(levels)[j]
<1>1. PICK g : Runs(g, levels) /\ ClosedOffsets(levels) = g[Len(levels)].offsets
  BY GeneratorRuns
<1>2. g[Len(levels)] \in Progress
  BY <1>1, LenProperties DEF Runs
<1> QED
  BY <1>1, <1>2 DEF Progress, InOrder
-----------------------------------------------------------------------------
(* Quotients rounded down                                                  *)

(* The quotient is the greatest number that the divisor goes into.         *)
LEMMA Floors ==
    ASSUME NEW n \in Nat, NEW d \in Nat \ {0}
    PROVE  /\ n \div d \in Nat
           /\ (n \div d) * d <= n /\ n < (n \div d + 1) * d
<1>1. n = d * (n \div d) + (n % d) /\ n % d \in 0 .. d - 1 /\ n \div d \in Nat
  OBVIOUS
<1> DEFINE q == n \div d
           r == n % d
<1> HIDE DEF q, r
<1>2. q \in Nat /\ r \in 0 .. d - 1 /\ n = d * q + r
  BY <1>1 DEF q, r
<1>3. q * d <= n /\ n < (q + 1) * d
  BY <1>2
<1> QED
  BY <1>2, <1>3 DEF q

(* What the divisor goes into is not beyond the quotient.                  *)
LEMMA FloorAtLeast ==
    ASSUME NEW n \in Nat, NEW d \in Nat \ {0}, NEW x \in Nat, x * d <= n
    PROVE  x <= n \div d
<1>1. PICK q : q = n \div d
  OBVIOUS
<1>2. q \in Nat /\ n < (q + 1) * d
  BY <1>1, Floors
<1>3. x * d < (q + 1) * d
  BY <1>2
<1>4. ~(q + 1 <= x)
  <2> SUFFICES ASSUME q + 1 <= x PROVE FALSE
    OBVIOUS
  <2>1. (q + 1) * d <= x * d
    BY <1>2
  <2> QED
    BY <1>2, <1>3, <2>1
<1> QED
  BY <1>1, <1>2, <1>4

(* A number whose successor the divisor does not go into is not below it.  *)
LEMMA FloorAtMost ==
    ASSUME NEW n \in Nat, NEW d \in Nat \ {0}, NEW x \in Nat, n < (x + 1) * d
    PROVE  n \div d <= x
<1>1. PICK q : q = n \div d
  OBVIOUS
<1>2. q \in Nat /\ q * d <= n
  BY <1>1, Floors
<1>3. ~(x + 1 <= q)
  <2> SUFFICES ASSUME x + 1 <= q PROVE FALSE
    OBVIOUS
  <2>1. (x + 1) * d <= q * d
    BY <1>2
  <2> QED
    BY <1>2, <2>1
<1> QED
  BY <1>1, <1>2, <1>3

(* Whole multiples of the divisor stay whole.                              *)
LEMMA FloorOfSum ==
    ASSUME NEW x \in Nat, NEW d \in Nat \ {0}, NEW n \in Nat
    PROVE  (x * d + n) \div d = x + n \div d
<1>1. PICK q : q = n \div d
  OBVIOUS
<1>2. q \in Nat /\ q * d <= n /\ n < (q + 1) * d
  BY <1>1, Floors
<1>3. x * d + n \in Nat /\ x + q \in Nat
  BY <1>2
<1>4. (x + q) * d = x * d + q * d /\ (x + q + 1) * d = x * d + (q + 1) * d
  BY <1>2
<1>5. PICK y, z, m : y = x * d /\ z = q * d /\ m = (q + 1) * d
  OBVIOUS
<1>6. y \in Nat /\ z \in Nat /\ m \in Nat
  BY <1>2, <1>5
<1>7. (x + q) * d <= x * d + n /\ x * d + n < (x + q + 1) * d
  BY <1>2, <1>4, <1>5, <1>6
<1>8. x + q <= (x * d + n) \div d /\ (x * d + n) \div d <= x + q
  BY <1>3, <1>7, FloorAtLeast, FloorAtMost
<1>9. (x * d + n) \div d \in Nat
  BY <1>3, Floors
<1> QED
  BY <1>1, <1>3, <1>8, <1>9

-----------------------------------------------------------------------------

(* What a level adds, offset by offset                                     *)
LEMMA LevelAdds ==
    ASSUME NEW g \in Progress, NEW level \in Levels
    PROVE  LET n == Len(g.offsets)
               m == Jump(g.curLevel, level)
               h == AfterLevel(g, level)
           IN  /\ n \in Nat /\ m \in Nat /\ Climb(level) \in Nat
               /\ h.curLevel = level.end /\ h.curOffset = g.curOffset + level.dur
               /\ Len(h.offsets) = n + m + Climb(level)
               /\ \A i \in 1 .. n : h.offsets[i] = g.offsets[i]
               /\ \A i \in 1 .. m : h.offsets[n + i] = g.curOffset
               /\ \A i \in 1 .. Climb(level) :
                      h.offsets[n + m + i] = g.curOffset + ClimbOffset(level, i)
<1> DEFINE n == Len(g.offsets)
           m == Jump(g.curLevel, level)
           c == Climb(level)
           h == AfterLevel(g, level)
           s == [i \in 1 .. m |-> g.curOffset]
           t == [i \in 1 .. c |-> g.curOffset + ClimbOffset(level, i)]
<1>0. n \in Nat /\ m \in Nat /\ c \in Nat /\ g.offsets \in Seq(Nat) /\ g.curOffset \in Nat
  <2>1. g.offsets \in Seq(Nat) /\ g.curLevel \in Nat /\ g.curOffset \in Nat
    BY DEF Progress
  <2>2. m \in Nat
    BY <2>1, JumpType
  <2>3. c \in Nat
    BY ClimbType
  <2> QED
    BY <2>1, <2>2, <2>3, LenProperties
<1>1. h.curLevel = level.end /\ h.curOffset = g.curOffset + level.dur
      /\ h.offsets = (g.offsets \o s) \o t
  BY DEF AfterLevel
<1>2. s \in Seq(Nat) /\ Len(s) = m /\ \A i \in 1 .. m : s[i] = g.curOffset
  <2> HIDE DEF m
  <2> QED
    BY <1>0
<1>3. t \in Seq(Nat) /\ Len(t) = c
      /\ \A i \in 1 .. c : t[i] = g.curOffset + ClimbOffset(level, i)
  <2>1. \A i \in 1 .. c : ClimbOffset(level, i) \in Nat
    BY ClimbType
  <2> HIDE DEF c
  <2> QED
    BY <1>0, <2>1
<1> DEFINE u == g.offsets \o s
           v == u \o t
<1> HIDE DEF n, m, c, s, t, h
<1>4. /\ u \in Seq(Nat) /\ Len(u) = n + m
      /\ \A i \in 1 .. n + m : u[i] = IF i <= n THEN g.offsets[i] ELSE s[i - n]
  <2>1. PICK r : r = g.offsets
    OBVIOUS
  <2>2. r \in Seq(Nat) /\ s \in Seq(Nat)
    BY <1>0, <1>2, <2>1
  <2>3. /\ r \o s \in Seq(Nat) /\ Len(r \o s) = Len(r) + Len(s)
        /\ \A i \in 1 .. Len(r) + Len(s) : (r \o s)[i] = IF i <= Len(r) THEN r[i] ELSE s[i - Len(r)]
    BY <2>2, ConcatProperties
  <2>4. Len(r) = n /\ Len(s) = m
    BY <1>2, <2>1 DEF n
  <2> QED
    BY <2>1, <2>3, <2>4
<1> HIDE DEF u
<1>5. /\ Len(v) = (n + m) + c
      /\ \A i \in 1 .. (n + m) + c : v[i] = IF i <= n + m THEN u[i] ELSE t[i - (n + m)]
  <2>1. u \in Seq(Nat) /\ t \in Seq(Nat)
    BY <1>3, <1>4
  <2>2. /\ Len(u \o t) = Len(u) + Len(t)
        /\ \A i \in 1 .. Len(u) + Len(t) : (u \o t)[i] = IF i <= Len(u) THEN u[i] ELSE t[i - Len(u)]
    BY <2>1, ConcatProperties
  <2>3. Len(u) = n + m /\ Len(t) = c
    BY <1>3, <1>4
  <2> QED
    BY <2>2, <2>3
<1>6. h.offsets = v
  BY <1>1 DEF u
<1> HIDE DEF v
<1>7. \A i \in 1 .. n : v[i] = g.offsets[i]
  BY <1>0, <1>4, <1>5
<1>8. \A i \in 1 .. m : v[n + i] = g.curOffset
  <2> SUFFICES ASSUME NEW i \in 1 .. m PROVE v[n + i] = g.curOffset
    OBVIOUS
  <2>1. n + i \in 1 .. n + m /\ n + i \in 1 .. (n + m) + c /\ ~(n + i <= n) /\ (n + i) - n = i
    BY <1>0
  <2> QED
    BY <1>2, <1>4, <1>5, <2>1
<1>9. \A i \in 1 .. c : v[n + m + i] = g.curOffset + ClimbOffset(level, i)
  <2> SUFFICES ASSUME NEW i \in 1 .. c
               PROVE  v[n + m + i] = g.curOffset + ClimbOffset(level, i)
    OBVIOUS
  <2>1. /\ n + m + i \in 1 .. (n + m) + c /\ ~(n + m + i <= n + m)
        /\ (n + m + i) - (n + m) = i
    BY <1>0
  <2> QED
    BY <1>3, <1>5, <2>1
<1>10. Len(v) = n + m + c
  BY <1>0, <1>5
<1> QED
  BY <1>0, <1>1, <1>6, <1>7, <1>8, <1>9, <1>10 DEF n, m, c, h

-----------------------------------------------------------------------------

(* The whole run over the levels                                           *)

(* Induction over the levels.                                              *)
LEMMA RunInduction ==
    ASSUME NEW n \in Nat, NEW S, 0 \in S, \A j \in 0 .. n - 1 : j \in S => j + 1 \in S
    PROVE  \A j \in 0 .. n : j \in S
<1> DEFINE N == {j \in Nat : j <= n => j \in S}
<1>1. 0 \in N
  OBVIOUS
<1>2. ASSUME NEW j \in Nat, j \in N
      PROVE  j + 1 \in N
  <2> SUFFICES ASSUME j + 1 <= n PROVE j + 1 \in S
    OBVIOUS
  <2>1. j \in 0 .. n - 1
    OBVIOUS
  <2> QED
    BY <1>2, <2>1
<1>3. \A j \in Nat : j \in N
  <2> HIDE DEF N
  <2> QED
    BY <1>1, <1>2, SetInduction
<1> QED
  BY <1>3

(* What a level does to the locals of the goroutine.                       *)
LEMMA AfterLevelLocals ==
    ASSUME NEW g, NEW level
    PROVE  /\ AfterLevel(g, level).curOffset = g.curOffset + level.dur
           /\ AfterLevel(g, level).curLevel = level.end
BY DEF AfterLevel

(* After some levels the generator is at the end of the last of them, and  *)
(* has added up their durations.                                           *)
LEMMA RunTotals ==
    ASSUME NEW levels \in Seq(Levels), NEW g, Runs(g, levels)
    PROVE  \A j \in 0 .. Len(levels) :
               /\ g[j].curOffset = DurationOf(SubSeq(levels, 1, j))
               /\ g[j].curLevel = IF j = 0 THEN 0 ELSE levels[j].end
<1> DEFINE n == Len(levels)
           S == {j \in 0 .. n : /\ g[j].curOffset = DurationOf(SubSeq(levels, 1, j))
                                /\ g[j].curLevel = IF j = 0 THEN 0 ELSE levels[j].end}
<1>0. n \in Nat /\ \A j \in 1 .. n : levels[j] \in Levels
  BY LenProperties, ElementOfSeq
<1>1. 0 \in S
  <2>1. SubSeq(levels, 1, 0) = << >>
    BY EmptySeq, SubSeqProperties
  <2>2. g[0].curOffset = 0 /\ g[0].curLevel = 0
    BY DEF Runs, Start
  <2>3. DurationOf(SubSeq(levels, 1, 0)) = 0
    BY <2>1, DurationOfNone, Zenon
  <2>4. 0 \in 0 .. n
    BY <1>0
  <2> QED
    BY <2>2, <2>3, <2>4, Zenon
<1>2. ASSUME NEW j \in 0 .. n - 1, j \in S
      PROVE  j + 1 \in S
  <2>1. j + 1 \in 1 .. n /\ j + 1 \in 0 .. n /\ (j + 1) - 1 = j /\ j \in 0 .. n /\ j + 1 # 0
    BY <1>0
  <2>2. g[j + 1] = AfterLevel(g[j], levels[j + 1]) /\ g[j] \in Progress
    BY <2>1 DEF Runs
  <2>3. /\ g[j + 1].curOffset = g[j].curOffset + levels[j + 1].dur
        /\ g[j + 1].curLevel = levels[j + 1].end
    <3>1. /\ AfterLevel(g[j], levels[j + 1]).curOffset = g[j].curOffset + levels[j + 1].dur
          /\ AfterLevel(g[j], levels[j + 1]).curLevel = levels[j + 1].end
      BY AfterLevelLocals, Zenon
    <3> QED
      BY <2>2, <3>1, Zenon
  <2>4. DurationOf(SubSeq(levels, 1, j + 1)) = DurationOf(SubSeq(levels, 1, j)) + levels[j + 1].dur
    BY <2>1, DurationStep
  <2> QED
    BY <1>2, <2>1, <2>3, <2>4
<1> HIDE DEF S
<1>3. \A j \in 0 .. n : j \in S
  BY <1>0, <1>1, <1>2, RunInduction
<1> QED
  BY <1>3 DEF S

(* What is sent stays sent, and what comes after a level is not before the *)
(* end of it.                                                              *)
LEMMA RunKeeps ==
    ASSUME NEW levels \in Seq(Levels), NEW g, Runs(g, levels), NEW k \in 0 .. Len(levels)
    PROVE  LET all == g[Len(levels)].offsets
               n == Len(g[k].offsets)
           IN  /\ n \in Nat /\ Len(all) \in Nat /\ n <= Len(all)
               /\ \A i \in 1 .. n : all[i] = g[k].offsets[i]
               /\ \A i \in n + 1 .. Len(all) : all[i] \in Nat /\ g[k].curOffset <= all[i]
<1> DEFINE m == Len(levels) - k
           n == Len(g[k].offsets)
           Kept(a) == /\ n <= Len(a.offsets) /\ g[k].curOffset <= a.curOffset
                      /\ \A i \in 1 .. n : a.offsets[i] = g[k].offsets[i]
                      /\ \A i \in n + 1 .. Len(a.offsets) :
                             a.offsets[i] \in Nat /\ g[k].curOffset <= a.offsets[i]
           S == {j \in 0 .. m : Kept(g[k + j])}
<1>0. /\ m \in Nat /\ k \in Nat /\ k + m = Len(levels)
      /\ \A j \in 1 .. Len(levels) : levels[j] \in Levels
  BY LenProperties, ElementOfSeq
<1>1. g[k] \in Progress /\ n \in Nat /\ g[k].curOffset \in Nat
  <2>1. g[k] \in Progress
    BY DEF Runs
  <2> QED
    BY <2>1, LenProperties DEF Progress
<1>2. 0 \in S
  <2>1. Kept(g[k])
    BY <1>1
  <2> HIDE DEF Kept
  <2> QED
    BY <1>0, <2>1
<1>3. ASSUME NEW j \in 0 .. m - 1, j \in S
      PROVE  j + 1 \in S
  <2>1. /\ k + j + 1 \in 1 .. Len(levels) /\ (k + j + 1) - 1 = k + j /\ k + (j + 1) = k + j + 1
        /\ k + j \in 0 .. Len(levels) /\ j + 1 \in 0 .. m
    BY <1>0
  <2> DEFINE a == g[k + j]
             level == levels[k + j + 1]
             b == AfterLevel(a, level)
             c == Len(a.offsets)
             jump == Jump(a.curLevel, level)
  <2>2. g[k + (j + 1)] = b /\ a \in Progress /\ level \in Levels
    BY <1>0, <2>1 DEF Runs
  <2>3. Kept(a)
    BY <1>3
  <2> HIDE DEF a, level
  <2>4. /\ c \in Nat /\ jump \in Nat /\ Climb(level) \in Nat
        /\ b.curOffset = a.curOffset + level.dur
        /\ Len(b.offsets) = c + jump + Climb(level)
        /\ \A i \in 1 .. c : b.offsets[i] = a.offsets[i]
        /\ \A i \in 1 .. jump : b.offsets[c + i] = a.curOffset
        /\ \A i \in 1 .. Climb(level) :
               b.offsets[c + jump + i] = a.curOffset + ClimbOffset(level, i)
    BY <2>2, LevelAdds
  <2>5. \A i \in 1 .. Climb(level) : ClimbOffset(level, i) \in Nat
    BY <2>2, ClimbType
  <2>6. a.curOffset \in Nat /\ level.dur \in Nat
    BY <2>2 DEF Progress, Levels
  <2> HIDE DEF b, c, jump
  <2>7. \A i \in c + 1 .. Len(b.offsets) : b.offsets[i] \in Nat /\ a.curOffset <= b.offsets[i]
    <3> SUFFICES ASSUME NEW i \in c + 1 .. Len(b.offsets)
                 PROVE  b.offsets[i] \in Nat /\ a.curOffset <= b.offsets[i]
      OBVIOUS
    <3>1. CASE i <= c + jump
      <4>1. i - c \in 1 .. jump /\ c + (i - c) = i
        BY <2>4, <3>1
      <4>2. b.offsets[c + (i - c)] = a.curOffset
        BY <2>4, <4>1
      <4> QED
        BY <2>6, <4>1, <4>2
    <3>2. CASE ~(i <= c + jump)
      <4>1. PICK x : x = i - (c + jump)
        OBVIOUS
      <4>2. x \in 1 .. Climb(level) /\ c + jump + x = i
        BY <2>4, <3>2, <4>1
      <4>3. b.offsets[i] = a.curOffset + ClimbOffset(level, x) /\ ClimbOffset(level, x) \in Nat
        BY <2>4, <2>5, <4>2
      <4> QED
        BY <2>6, <4>3
    <3> QED
      BY <3>1, <3>2
  <2>8. n <= c /\ g[k].curOffset <= a.curOffset
        /\ (\A i \in 1 .. n : a.offsets[i] = g[k].offsets[i])
        /\ \A i \in n + 1 .. c : a.offsets[i] \in Nat /\ g[k].curOffset <= a.offsets[i]
    BY <2>3 DEF c
  <2> HIDE DEF n
  <2>9. n <= Len(b.offsets) /\ g[k].curOffset <= b.curOffset
    BY <1>1, <2>4, <2>6, <2>8
  <2>10. \A i \in 1 .. n : b.offsets[i] = g[k].offsets[i]
    BY <1>1, <2>4, <2>8
  <2>11. \A i \in n + 1 .. Len(b.offsets) : b.offsets[i] \in Nat /\ g[k].curOffset <= b.offsets[i]
    <3> SUFFICES ASSUME NEW i \in n + 1 .. Len(b.offsets)
                 PROVE  b.offsets[i] \in Nat /\ g[k].curOffset <= b.offsets[i]
      OBVIOUS
    <3>1. CASE i <= c
      <4>1. i \in 1 .. c /\ i \in n + 1 .. c
        BY <1>1, <2>4, <3>1
      <4>2. b.offsets[i] = a.offsets[i]
        BY <2>4, <4>1, Zenon
      <4> QED
        BY <2>8, <4>1, <4>2, Zenon
    <3>2. CASE ~(i <= c)
      <4>1. i \in c + 1 .. Len(b.offsets)
        BY <1>1, <2>4, <3>2
      <4> QED
        BY <1>1, <2>6, <2>7, <2>8, <4>1
    <3> QED
      BY <3>1, <3>2
  <2>12. Kept(b)
    BY <2>9, <2>10, <2>11
  <2> HIDE DEF Kept
  <2> QED
    BY <2>1, <2>2, <2>12
<1> HIDE DEF S
<1>4. \A j \in 0 .. m : j \in S
  BY <1>0, <1>2, <1>3, RunInduction
<1>5. Kept(g[Len(levels)])
  <2>1. m \in S
    BY <1>0, <1>4
  <2> HIDE DEF Kept
  <2> QED
    BY <1>0, <2>1 DEF S
<1>6. Len(g[Len(levels)].offsets) \in Nat
  <2>1. g[Len(levels)] \in Progress
    BY LenProperties DEF Runs
  <2> QED
    BY <2>1, LenProperties DEF Progress
<1> QED
  BY <1>1, <1>5, <1>6

-----------------------------------------------------------------------------

(* Scenarios that do not fall: what Supported says of the levels           *)
Whole(n) == n % LevelUnit = 0

Rises(levels) ==
    /\ \A k \in DOMAIN levels :
           /\ levels[k].start <= levels[k].end
           /\ Whole(levels[k].start) /\ Whole(levels[k].end)
    /\ \A k \in 2 .. Len(levels) : levels[k-1].end <= levels[k].start

(* A number of whole workers.                                              *)
LEMMA WholeWorkers ==
    ASSUME NEW n \in Nat, Whole(n)
    PROVE  \E a \in Nat : n = a * LevelUnit
<1>1. LevelUnit \in Nat \ {0}
  BY ClosedScheduleAssumption
<1>2. n = LevelUnit * (n \div LevelUnit) + (n % LevelUnit) /\ n \div LevelUnit \in Nat
  BY <1>1
<1>3. n = (n \div LevelUnit) * LevelUnit
  BY <1>1, <1>2 DEF Whole
<1> QED
  BY <1>2, <1>3

(* Between whole numbers of workers the generator starts the difference.   *)
LEMMA WholeLevel ==
    ASSUME NEW level \in Levels, NEW p \in Nat, NEW a \in Nat, NEW b \in Nat, p <= a, a <= b,
           level.start = a * LevelUnit, level.end = b * LevelUnit
    PROVE  Jump(p * LevelUnit, level) = a - p /\ Climb(level) = b - a
<1> DEFINE U == LevelUnit
<1>1. U \in Nat \ {0}
  BY ClosedScheduleAssumption
<1>2. PICK m \in Nat, n \in Nat : a = p + m /\ b = a + n
  <2>1. a - p \in Nat /\ b - a \in Nat /\ a = p + (a - p) /\ b = a + (b - a)
    OBVIOUS
  <2> QED
    BY <2>1
<1> HIDE DEF U
<1>3. a * U = p * U + m * U /\ b * U = a * U + n * U
      /\ m * U \in Nat /\ n * U \in Nat /\ p * U \in Nat /\ a * U \in Nat
  BY <1>1, <1>2
<1>4. /\ m = 0 => m * U = 0
      /\ m # 0 => m * U > 0
      /\ n = 0 => n * U = 0
      /\ n # 0 => n * U > 0
  BY <1>1
<1>5. (m * U + (U - 1)) \div U = m /\ (n * U + 0) \div U = n
  <2>1. (U - 1) \div U = 0 /\ 0 \div U = 0 /\ U - 1 \in Nat
    BY <1>1
  <2>2. PICK r \in Nat : r = U - 1
    BY <2>1
  <2>3. (m * U + r) \div U = m + r \div U
    BY <1>1, FloorOfSum
  <2>4. (n * U + 0) \div U = n + 0 \div U
    <3>1. 0 \in Nat /\ n \in Nat
      BY <1>2
    <3> QED
      BY <1>1, <3>1, FloorOfSum, Zenon
  <2> QED
    BY <2>1, <2>2, <2>3, <2>4
<1>6. Jump(p * U, level) = m
  <2>1. Jump(p * U, level) = IF p * U < a * U THEN (a * U - p * U + U - 1) \div U ELSE 0
    BY DEF Jump, U
  <2>2. PICK x, y, z : x = p * U /\ y = a * U /\ z = m * U
    OBVIOUS
  <2>3. x \in Nat /\ y = x + z /\ z \in Nat
    BY <1>3, <2>2
  <2>4. y - x + U - 1 = z + (U - 1)
    BY ONLY <1>1, <2>3
  <2>5. x < y <=> z > 0
    BY ONLY <2>3
  <2> QED
    BY <1>2, <1>4, <1>5, <2>1, <2>2, <2>4, <2>5
<1>7. Climb(level) = n
  <2>1. Climb(level) = IF a * U < b * U THEN (b * U - a * U) \div U ELSE 0
    BY DEF Climb, U
  <2>2. PICK x, y, z : x = a * U /\ y = b * U /\ z = n * U
    OBVIOUS
  <2>3. x \in Nat /\ y = x + z /\ z \in Nat
    BY <1>3, <2>2
  <2>4. y - x = z + 0 /\ (x < y <=> z > 0)
    BY ONLY <2>3
  <2> QED
    BY <1>2, <1>4, <1>5, <2>1, <2>2, <2>4
<1>8. a - p = m /\ b - a = n
  BY <1>2
<1> QED
  BY <1>6, <1>7, <1>8 DEF U

(* Multiplying by the unit keeps the order, and loses none of it.          *)
LEMMA UnitsOrder ==
    ASSUME NEW a \in Nat, NEW b \in Nat, a * LevelUnit <= b * LevelUnit
    PROVE  a <= b
<1>1. LevelUnit \in Nat \ {0}
  BY ClosedScheduleAssumption
<1>2. ~(b + 1 <= a)
  <2> SUFFICES ASSUME b + 1 <= a PROVE FALSE
    OBVIOUS
  <2>1. (b + 1) * LevelUnit <= a * LevelUnit
    BY <1>1
  <2>2. (b + 1) * LevelUnit = b * LevelUnit + LevelUnit /\ b * LevelUnit \in Nat
        /\ a * LevelUnit \in Nat
    BY <1>1
  <2> QED
    BY <1>1, <2>1, <2>2
<1> QED
  BY <1>2

(* After some levels of a scenario that does not fall there are as many    *)
(* offsets as the last of these levels ends with.                          *)
LEMMA RunWorkers ==
    ASSUME NEW levels \in Seq(Levels), Rises(levels), NEW g, Runs(g, levels)
    PROVE  \A j \in 0 .. Len(levels) : Len(g[j].offsets) * LevelUnit = g[j].curLevel
<1> DEFINE n == Len(levels)
           S == {j \in 0 .. n : Len(g[j].offsets) * LevelUnit = g[j].curLevel}
<1>0. n \in Nat /\ DOMAIN levels = 1 .. n /\ \A j \in 1 .. n : levels[j] \in Levels
  BY LenProperties, ElementOfSeq
<1>1. 0 \in S
  <2>1. g[0].curLevel = 0 /\ g[0].offsets = << >> /\ Len(<< >>) = 0
    BY EmptySeq DEF Runs, Start
  <2>2. 0 * LevelUnit = 0 /\ 0 \in 0 .. n
    BY <1>0, ClosedScheduleAssumption
  <2> QED
    BY <2>1, <2>2
<1>2. ASSUME NEW j \in 0 .. n - 1, j \in S
      PROVE  j + 1 \in S
  <2>1. /\ j + 1 \in 1 .. n /\ j + 1 \in 0 .. n /\ (j + 1) - 1 = j /\ j \in 0 .. n
        /\ j # 0 => j + 1 \in 2 .. n
    BY <1>0
  <2> DEFINE level == levels[j + 1]
             c == Len(g[j].offsets)
  <2>2. g[j + 1] = AfterLevel(g[j], level) /\ g[j] \in Progress /\ level \in Levels
    BY <1>0, <2>1 DEF Runs
  <2>3. /\ level.start <= level.end /\ Whole(level.start) /\ Whole(level.end)
        /\ j # 0 => levels[j].end <= level.start
    BY <1>0, <2>1 DEF Rises
  <2>4. g[j].curLevel = IF j = 0 THEN 0 ELSE levels[j].end
    BY <2>1, RunTotals
  <2>5. level.start \in Nat /\ level.end \in Nat
    BY <2>2 DEF Levels
  <2>6. c * LevelUnit <= level.start /\ g[j].curLevel = c * LevelUnit /\ c \in Nat
    <3>1. g[j].curLevel <= level.start
      BY <2>3, <2>4, <2>5
    <3> QED
      BY <1>2, <2>2, <3>1, LenProperties DEF Progress
  <2>7. PICK a \in Nat : level.start = a * LevelUnit
    BY <2>3, <2>5, WholeWorkers
  <2>8. PICK b \in Nat : level.end = b * LevelUnit
    BY <2>3, <2>5, WholeWorkers
  <2>9. c <= a /\ a <= b
    BY <2>3, <2>6, <2>7, <2>8, UnitsOrder
  <2>10. Jump(g[j].curLevel, level) = a - c /\ Climb(level) = b - a
    BY <2>2, <2>6, <2>7, <2>8, <2>9, WholeLevel
  <2>11. /\ Len(g[j + 1].offsets) = c + Jump(g[j].curLevel, level) + Climb(level)
         /\ g[j + 1].curLevel = level.end
    BY <2>2, LevelAdds
  <2>12. Len(g[j + 1].offsets) = b
    BY <2>6, <2>9, <2>10, <2>11
  <2> QED
    BY <2>1, <2>8, <2>11, <2>12
<1> HIDE DEF S
<1>3. \A j \in 0 .. n : j \in S
  BY <1>0, <1>1, <1>2, RunInduction
<1> QED
  BY <1>3 DEF S

(* The number of workers that a level asks for after t ticks of it: those  *)

(* are started by then, and the next one is not before.                    *)
LEMMA RampAsked ==
    ASSUME NEW level \in Levels, NEW a \in Nat, NEW b \in Nat, a <= b,
           level.start = a * LevelUnit, level.end = b * LevelUnit,
           NEW t \in 0 .. level.dur, level.dur # 0
    PROVE  \E x \in 0 .. b - a :
               /\ Asked(level, t) = a + x
               /\ x # 0 => ClimbOffset(level, x) <= t
               /\ x # b - a => t <= ClimbOffset(level, x + 1)
<1> DEFINE U == LevelUnit
           D == level.dur
           d == level.end - level.start
           y == (d * t) \div D
           x == y \div U
<1>1. /\ U \in Nat \ {0} /\ D \in Nat \ {0} /\ t \in Nat /\ t <= D
      /\ level.start \in Nat /\ level.end \in Nat
  BY ClosedScheduleAssumption DEF Levels
<1>2. d \in Nat /\ d = (b - a) * U /\ b - a \in Nat /\ a * U \in Nat
  <2> HIDE DEF U
  <2>1. b * U = a * U + (b - a) * U /\ b - a \in Nat /\ a * U \in Nat /\ (b - a) * U \in Nat
    BY <1>1
  <2> QED
    BY <2>1 DEF U
<1>3. Asked(level, t) = (level.start + y) \div U
  BY DEF Asked
<1>4. \A i \in Nat : ClimbOffset(level, i) = (D * i * U) \div d
  BY DEF ClimbOffset
<1> HIDE DEF d, D, U
<1>5. d * t \in Nat /\ y \in Nat /\ y * D <= d * t /\ d * t < (y + 1) * D
  <2>1. PICK p \in Nat : p = d * t
    BY <1>1, <1>2
  <2> QED
    BY <1>1, <2>1, Floors
<1> HIDE DEF y
<1>6. x \in Nat /\ x * U <= y /\ y < (x + 1) * U
  BY <1>1, <1>5, Floors
<1>7. Asked(level, t) = a + x
  <2>1. (a * U + y) \div U = a + y \div U
    BY <1>1, <1>5, FloorOfSum
  <2>2. level.start = a * U
    BY DEF U
  <2> QED
    BY <1>3, <2>1, <2>2
<1> HIDE DEF x
<1>8. y <= d
  <2>1. d * t <= d * D /\ d * t < (d + 1) * D
    <3>1. d * t <= d * D /\ d * D \in Nat /\ (d + 1) * D = d * D + D
      BY <1>1, <1>2
    <3> QED
      BY <1>1, <1>5, <3>1
  <2> QED
    BY <1>1, <1>2, <1>5, <2>1, FloorAtMost DEF y
<1>9. x <= b - a
  <2>1. x * U <= (b - a) * U
    <3>1. PICK p, q : p = x * U /\ q = (b - a) * U
      OBVIOUS
    <3>2. p \in Nat /\ q \in Nat
      BY <1>1, <1>2, <1>6, <3>1
    <3> QED
      BY <1>2, <1>5, <1>6, <1>8, <3>1, <3>2
  <2> QED
    BY <1>2, <1>6, <2>1, UnitsOrder DEF U
<1>10. x # 0 => ClimbOffset(level, x) <= t
  <2> SUFFICES ASSUME x # 0 PROVE (D * x * U) \div d <= t
    BY <1>4, <1>6
  <2>1. d # 0
    <3>1. b - a # 0
      BY <1>2, <1>6, <1>9
    <3> QED
      BY <1>1, <1>2, <3>1
  <2>2. PICK p \in Nat : p = x * U
    BY <1>1, <1>6
  <2>3. D * x * U = D * p
    BY <1>1, <1>6, <2>2
  <2>4. D * p \in Nat /\ D * p <= y * D
    BY <1>1, <1>5, <1>6, <2>2
  <2>5. (t + 1) * d = d * t + d
    BY <1>1, <1>2
  <2>6. D * p < (t + 1) * d
    <3>1. PICK m, n, o : m = D * p /\ n = y * D /\ o = d * t
      OBVIOUS
    <3>2. m \in Nat /\ n \in Nat /\ o \in Nat
      BY <1>1, <1>5, <2>4, <3>1
    <3> QED
      BY <1>2, <1>5, <2>1, <2>4, <2>5, <3>1, <3>2
  <2>7. (D * p) \div d <= t
    BY <1>1, <1>2, <2>1, <2>4, <2>6, FloorAtMost
  <2> QED
    BY <2>3, <2>7
<1>11. x # b - a => t <= ClimbOffset(level, x + 1)
  <2> SUFFICES ASSUME x # b - a PROVE t <= (D * (x + 1) * U) \div d
    BY <1>4, <1>6
  <2>1. d # 0
    <3>1. b - a # 0
      BY <1>2, <1>6, <1>9
    <3> QED
      BY <1>1, <1>2, <3>1
  <2>2. PICK p \in Nat : p = (x + 1) * U
    BY <1>1, <1>6
  <2>3. D * (x + 1) * U = D * p
    BY <1>1, <1>6, <2>2
  <2>4. y + 1 <= p
    BY <1>5, <1>6, <2>2
  <2>5. D * p \in Nat /\ (y + 1) * D <= D * p
    BY <1>1, <1>5, <2>4
  <2>6. t * d <= D * p
    <3>1. PICK m, n, o : m = D * p /\ n = (y + 1) * D /\ o = d * t
      OBVIOUS
    <3>2. m \in Nat /\ n \in Nat /\ o \in Nat /\ t * d = o
      BY <1>1, <1>2, <1>5, <2>5, <3>1
    <3> QED
      BY <1>5, <2>5, <3>1, <3>2
  <2>7. t <= (D * p) \div d
    BY <1>1, <1>2, <2>1, <2>5, <2>6, FloorAtLeast
  <2> QED
    BY <2>3, <2>7
<1> QED
  BY <1>2, <1>6, <1>7, <1>9, <1>10, <1>11

(* So in the whole schedule the offset of the last worker that is asked    *)

(* for is not late, and that of the next one not early.                    *)
LEMMA LevelFollowed ==
    ASSUME NEW levels \in Seq(Levels), Rises(levels), NEW g, Runs(g, levels),
           NEW k \in 1 .. Len(levels), levels[k].dur # 0, NEW t \in 0 .. levels[k].dur
    PROVE  LET all == g[Len(levels)].offsets
               asked == Asked(levels[k], t)
               time == DurationOf(SubSeq(levels, 1, k - 1)) + t
           IN  /\ asked \in 0 .. Len(all)
               /\ asked # 0 => all[asked] <= time
               /\ asked # Len(all) => time <= all[asked + 1]
<1> DEFINE level == levels[k]
           h == g[k - 1]
           all == g[Len(levels)].offsets
           asked == Asked(level, t)
           time == h.curOffset + t
           c == Len(h.offsets)
<1>0. /\ Len(levels) \in Nat /\ DOMAIN levels = 1 .. Len(levels) /\ level \in Levels
      /\ k - 1 \in 0 .. Len(levels) /\ k \in 0 .. Len(levels) /\ k # 0
  BY LenProperties, ElementOfSeq
<1>1. g[k] = AfterLevel(h, level) /\ h \in Progress /\ g[k] \in Progress
  BY <1>0 DEF Runs
<1>2. /\ h.curOffset = DurationOf(SubSeq(levels, 1, k - 1))
      /\ c * LevelUnit = h.curLevel /\ c \in Nat /\ h.curOffset \in Nat
  <2>1. c \in Nat /\ h.curOffset \in Nat
    BY <1>1, LenProperties DEF Progress
  <2> QED
    BY <1>0, <2>1, RunTotals, RunWorkers
<1>3. level.start \in Nat /\ level.end \in Nat /\ level.dur \in Nat
  BY <1>0 DEF Levels
<1>4. PICK a \in Nat, b \in Nat : level.start = a * LevelUnit /\ level.end = b * LevelUnit
  BY <1>0, <1>3, WholeWorkers DEF Rises
<1>5. c <= a /\ a <= b
  <2>1. a <= b
    BY <1>0, <1>4, UnitsOrder DEF Rises
  <2>2. h.curLevel <= level.start
    <3>1. h.curLevel = IF k - 1 = 0 THEN 0 ELSE levels[k - 1].end
      BY <1>0, RunTotals
    <3>2. CASE k = 1
      BY <1>3, <3>1, <3>2
    <3>3. CASE k # 1
      <4>1. k \in 2 .. Len(levels) /\ k - 1 # 0
        BY <1>0, <3>3
      <4> QED
        BY <3>1, <4>1 DEF Rises
    <3> QED
      BY <3>2, <3>3
  <2> QED
    BY <1>2, <1>4, <2>1, <2>2, UnitsOrder
<1>6. Jump(h.curLevel, level) = a - c /\ Climb(level) = b - a
  <2>1. Jump(c * LevelUnit, level) = a - c /\ Climb(level) = b - a
    BY <1>0, <1>2, <1>4, <1>5, WholeLevel
  <2> QED
    BY <1>2, <2>1
<1>7. /\ Len(g[k].offsets) = b
      /\ g[k].curOffset = h.curOffset + level.dur
      /\ \A i \in 1 .. a - c : g[k].offsets[c + i] = h.curOffset
      /\ \A i \in 1 .. b - a : g[k].offsets[a + i] = h.curOffset + ClimbOffset(level, i)
      /\ \A i \in 1 .. c : g[k].offsets[i] = h.offsets[i]
  <2> DEFINE m == Jump(h.curLevel, level)
             e == Climb(level)
  <2> HIDE DEF h, level
  <2>1. LET f == AfterLevel(h, level)
        IN  /\ f.curOffset = h.curOffset + level.dur
            /\ Len(f.offsets) = c + m + e
            /\ \A i \in 1 .. c : f.offsets[i] = h.offsets[i]
            /\ \A i \in 1 .. m : f.offsets[c + i] = h.curOffset
            /\ \A i \in 1 .. e : f.offsets[c + m + i] = h.curOffset + ClimbOffset(level, i)
    BY <1>0, <1>1, LevelAdds, Zenon
  <2>2. m = a - c /\ e = b - a
    BY <1>6
  <2> HIDE DEF m, e, c
  <2>3. c + m = a /\ c + m + e = b
    BY <1>2, <1>4, <1>5, <2>2
  <2> QED
    BY <1>1, <2>1, <2>2, <2>3
<1>8. PICK x \in 0 .. b - a : /\ asked = a + x
                              /\ x # 0 => ClimbOffset(level, x) <= t
                              /\ x # b - a => t <= ClimbOffset(level, x + 1)
  BY <1>0, <1>4, <1>5, RampAsked
<1> DEFINE p == g[k].offsets
<1>9. /\ b <= Len(all) /\ Len(all) \in Nat
      /\ \A i \in 1 .. b : all[i] = p[i]
      /\ \A i \in b + 1 .. Len(all) : all[i] \in Nat /\ g[k].curOffset <= all[i]
  BY <1>0, <1>7, RunKeeps
<1> HIDE DEF h
<1>10. \A i \in 1 .. a : p[i] \in Nat /\ p[i] <= h.curOffset
  <2> SUFFICES ASSUME NEW i \in 1 .. a PROVE p[i] \in Nat /\ p[i] <= h.curOffset
    OBVIOUS
  <2>1. CASE i <= c
    <3>1. i \in 1 .. c
      BY <1>2, <2>1
    <3>2. h.offsets[i] \in Nat /\ h.offsets[i] <= h.curOffset
      BY <1>1, <3>1, ElementOfSeq DEF Progress, InOrder
    <3> QED
      BY <1>7, <3>1, <3>2
  <2>2. CASE ~(i <= c)
    <3> HIDE DEF c
    <3>1. PICK y \in 1 .. a - c : c + y = i
      <4>1. i - c \in 1 .. a - c /\ c + (i - c) = i
        BY <1>2, <1>4, <2>2
      <4> QED
        BY <4>1
    <3>2. g[k].offsets[c + y] = h.curOffset
      BY <1>7
    <3> QED
      BY <1>2, <3>1, <3>2
  <2> QED
    BY <2>1, <2>2
<1>11. \A i \in 1 .. b - a : ClimbOffset(level, i) \in Nat
  BY <1>0, <1>6, ClimbType
<1>12. t \in Nat /\ t <= level.dur
  BY <1>3
<1> HIDE DEF c, p, all, asked, level
<1>13. asked \in 0 .. Len(all)
  BY <1>4, <1>5, <1>8, <1>9
<1>14. asked # 0 => all[asked] <= time
  <2> SUFFICES ASSUME asked # 0 PROVE all[asked] <= time
    OBVIOUS
  <2>1. asked \in 1 .. b /\ all[asked] = p[asked]
    BY <1>4, <1>5, <1>8, <1>9
  <2>2. CASE x = 0
    <3>1. asked \in 1 .. a
      BY <1>4, <1>8, <2>1, <2>2
    <3>2. p[asked] \in Nat /\ p[asked] <= h.curOffset
      BY <1>10, <3>1
    <3> QED
      BY <1>2, <1>12, <2>1, <3>2
  <2>3. CASE x # 0
    <3>1. x \in 1 .. b - a
      BY <1>4, <1>5, <2>3
    <3>2. p[asked] = h.curOffset + ClimbOffset(level, x) /\ ClimbOffset(level, x) \in Nat
          /\ ClimbOffset(level, x) <= t
      BY <1>7, <1>8, <1>11, <2>3, <3>1 DEF p
    <3> QED
      BY <1>2, <1>12, <2>1, <3>2
  <2> QED
    BY <2>2, <2>3
<1>15. asked # Len(all) => time <= all[asked + 1]
  <2> SUFFICES ASSUME asked # Len(all) PROVE time <= all[asked + 1]
    OBVIOUS
  <2>1. CASE x # b - a
    <3>1. x + 1 \in 1 .. b - a /\ asked + 1 = a + (x + 1) /\ asked + 1 \in 1 .. b
      BY <1>4, <1>5, <1>8, <2>1
    <3>2. all[asked + 1] = h.curOffset + ClimbOffset(level, x + 1)
      BY <1>7, <1>9, <3>1 DEF p
    <3>3. ClimbOffset(level, x + 1) \in Nat /\ t <= ClimbOffset(level, x + 1)
      BY <1>8, <1>11, <2>1, <3>1
    <3> QED
      BY <1>2, <1>12, <3>2, <3>3
  <2>2. CASE x = b - a
    <3>1. asked + 1 \in b + 1 .. Len(all)
      BY <1>4, <1>5, <1>8, <1>9, <1>13, <2>2
    <3>2. all[asked + 1] \in Nat /\ h.curOffset + level.dur <= all[asked + 1]
      BY <1>7, <1>9, <3>1
    <3> QED
      BY <1>2, <1>3, <1>12, <3>2
  <2> QED
    BY <2>1, <2>2
<1> QED
  BY <1>2, <1>13, <1>14, <1>15 DEF asked, all, level

(* The offsets of a sequence in order that are not later than a time are   *)
(* at least as many as there are up to one that is not later, and at most  *)
(* as many as there are before one that is later.                          *)
LEMMA StartedBy ==
    ASSUME NEW all, NEW n \in Nat, \A i \in 1 .. n : all[i] \in Nat, NEW time \in Nat,
           \A i, j \in 1 .. n : i <= j => all[i] <= all[j]
    PROVE  LET set == {i \in 1 .. n : all[i] <= time}
           IN  /\ Cardinality(set) \in Nat
               /\ \A m \in 0 .. n : (m # 0 /\ all[m] <= time) => m <= Cardinality(set)
               /\ \A m \in 0 .. n : (m # n => time < all[m + 1]) => Cardinality(set) <= m
<1> DEFINE set == {i \in 1 .. n : all[i] <= time}
<1>0. IsFiniteSet(set) /\ Cardinality(set) \in Nat
  <2>1. IsFiniteSet(1 .. n) /\ set \subseteq 1 .. n
    BY FS_Interval
  <2> QED
    BY <2>1, FS_Subset, FS_CardinalityType
<1>1. \A m \in 0 .. n : IsFiniteSet(1 .. m) /\ Cardinality(1 .. m) = m
  <2> TAKE m \in 0 .. n
  <2>1. 0 \in Int /\ 1 \in Int /\ m \in Int
    OBVIOUS
  <2>2. IsFiniteSet(1 .. m) /\ Cardinality(1 .. m) = IF 1 > m THEN 0 ELSE m - 1 + 1
    BY <2>1, FS_Interval
  <2> QED
    BY <2>1, <2>2
<1>2. ASSUME NEW m \in 0 .. n, m # 0, all[m] <= time
      PROVE  m <= Cardinality(set)
  <2>1. 1 .. m \subseteq set
    <3> SUFFICES ASSUME NEW i \in 1 .. m PROVE i \in 1 .. n /\ all[i] <= time
      OBVIOUS
    <3>1. i \in 1 .. n /\ m \in 1 .. n /\ i <= m
      BY <1>2
    <3>2. all[i] <= all[m] /\ all[i] \in Nat /\ all[m] \in Nat
      BY <3>1
    <3> QED
      BY <1>2, <3>1, <3>2
  <2> HIDE DEF set
  <2>2. Cardinality(1 .. m) <= Cardinality(set)
    BY <1>0, <2>1, FS_Subset
  <2> QED
    BY <1>1, <2>2
<1>3. ASSUME NEW m \in 0 .. n, m # n => time < all[m + 1]
      PROVE  Cardinality(set) <= m
  <2>1. set \subseteq 1 .. m
    <3> SUFFICES ASSUME NEW i \in 1 .. n, all[i] <= time, ~(i <= m) PROVE FALSE
      OBVIOUS
    <3>1. m # n /\ m + 1 \in 1 .. n /\ m + 1 <= i
      OBVIOUS
    <3>2. all[m + 1] <= all[i] /\ all[m + 1] \in Nat /\ all[i] \in Nat
      BY <3>1
    <3> QED
      BY <1>3, <3>1, <3>2
  <2> HIDE DEF set
  <2>2. Cardinality(set) <= Cardinality(1 .. m)
    BY <1>1, <2>1, FS_Subset
  <2> QED
    BY <1>1, <2>2
<1> QED
  BY <1>0, <1>2, <1>3

(* Every scenario that is supported is followed by its schedule.           *)
THEOREM SupportedFollowed ==
    ASSUME scenario \in Scenarios
    PROVE  StartsFollowLevels
<1> SUFFICES ASSUME AllSent, Supported, NEW k \in DOMAIN scenario,
                    NEW t \in 0 .. scenario[k].dur - 1
             PROVE  /\ Asked(scenario[k], t) <= Started(StartOf(k) + t)
                    /\ Started(StartOf(k) + t) <= Asked(scenario[k], t + 1)
  BY DEF StartsFollowLevels
<1>0. scenario \in Seq(Levels)
  BY ScenarioAssumption
<1>1. PICK g : Runs(g, scenario) /\ Offsets = g[Len(scenario)].offsets
  BY <1>0, GeneratorRuns DEF Offsets
<1>2. Rises(scenario)
  BY DEF Supported, Rises, Whole
<1>3. k \in 1 .. Len(scenario) /\ scenario[k] \in Levels
  BY <1>0, ElementOfSeq, LenProperties
<1>4. /\ t \in 0 .. scenario[k].dur /\ t + 1 \in 0 .. scenario[k].dur /\ scenario[k].dur # 0
      /\ t \in Nat
  BY <1>3 DEF Levels
<1> DEFINE all == Offsets
           n == Len(Offsets)
           a == Asked(scenario[k], t)
           b == Asked(scenario[k], t + 1)
           time == StartOf(k) + t
<1>5. StartOf(k) \in Nat
  <2>1. SubSeq(scenario, 1, k - 1) \in Seq(Levels)
    <3>1. \A i \in 1 .. k - 1 : scenario[i] \in Levels
      BY <1>0, <1>3, ElementOfSeq, LenProperties
    <3> QED
      BY <1>0, <1>3, <3>1, SubSeqProperties, LenProperties
  <2> QED
    BY <2>1, DurationType DEF StartOf
<1>6. a \in 0 .. n /\ (a # 0 => all[a] <= time)
  BY <1>0, <1>1, <1>2, <1>3, <1>4, LevelFollowed DEF StartOf
<1>7. b \in 0 .. n /\ (b # n => StartOf(k) + (t + 1) <= all[b + 1])
  BY <1>0, <1>1, <1>2, <1>3, <1>4, LevelFollowed DEF StartOf
<1>8. /\ all \in Seq(Nat) /\ \A i, j \in 1 .. n : i <= j => all[i] <= all[j]
  BY <1>0, OffsetsInOrder DEF Offsets
<1>9. n \in Nat /\ \A i \in 1 .. n : all[i] \in Nat
  BY <1>8, LenProperties, ElementOfSeq
<1>10. sent = n
  BY DEF AllSent
<1> HIDE DEF all, n, a, b
<1> DEFINE count == Cardinality({i \in 1 .. n : all[i] <= time})
<1>11. Started(StartOf(k) + t) = count
  BY <1>10 DEF Started, all
<1>12. time \in Nat
  BY <1>4, <1>5
<1>13. b # n => time < all[b + 1]
  <2> SUFFICES ASSUME b # n PROVE time < all[b + 1]
    OBVIOUS
  <2>1. b + 1 \in 1 .. n
    BY <1>7, <1>9
  <2>2. all[b + 1] \in Nat /\ StartOf(k) + (t + 1) <= all[b + 1]
    BY <1>7, <1>9, <2>1
  <2> QED
    BY <1>4, <1>5, <2>2
<1> HIDE DEF time
<1>14. /\ count \in Nat
       /\ a # 0 => a <= count
       /\ count <= b
  BY <1>6, <1>7, <1>8, <1>9, <1>12, <1>13, StartedBy
<1> HIDE DEF count
<1>15. a <= count
  BY <1>6, <1>14
<1> QED
  BY <1>11, <1>14, <1>15 DEF a, b

(* So when the generator has sent its whole schedule the workers that have *)
(* been started by any time are as many as the scenario asks for.          *)
THEOREM ScheduleFollowsLevels == ClosedScheduleSpec => []StartsFollowLevels
<1> DEFINE Chosen == scenario \in Scenarios
<1>1. ClosedScheduleInit => Chosen
  BY DEF ClosedScheduleInit
<1>2. Chosen /\ [ClosedScheduleNext]_closedSchedVars => Chosen'
  BY DEF ClosedScheduleNext, SendStart, closedSchedVars
<1>3. Chosen => StartsFollowLevels
  BY SupportedFollowed
<1> HIDE DEF Chosen
<1> QED
  BY <1>1, <1>2, <1>3, PTL DEF ClosedScheduleSpec
=============================================================================
