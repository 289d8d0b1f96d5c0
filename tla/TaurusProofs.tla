----------------------------- MODULE TaurusProofs -----------------------------
(***************************************************************************)
(* Proofs about the loads of Taurus, for every load: a closed schedule     *)
(* starts as many workers as it was asked for, within the ramp-up.         *)
(***************************************************************************)
EXTENDS TaurusSchedules, ClosedScheduleProofs

-----------------------------------------------------------------------------
(* Rounding                                                                *)

(* How x comes of a quotient q and a remainder r.                          *)
Up(q, r, d) == 2 * r >= d /\ ~(2 * r = d /\ q % 2 = 0)
RoundsTo(n, d, q, r, x) ==
    n = q * d + r /\ r < d /\ x = IF Up(q, r, d) THEN q + 1 ELSE q

(* A rounded quotient is made of these.                                    *)
LEMMA RoundedIs ==
    ASSUME NEW n \in Nat, NEW d \in Nat \ {0}
    PROVE  \E q \in Nat, r \in Nat : RoundsTo(n, d, q, r, Rounded(n, d))
<1> DEFINE q == n \div d
           r == n % d
<1>1. q \in Nat /\ r \in Nat /\ r < d /\ n = q * d + r
  OBVIOUS
<1>2. Rounded(n, d) = IF 2 * r < d \/ (2 * r = d /\ q % 2 = 0) THEN q ELSE q + 1
  BY DEF Rounded
<1> HIDE DEF q, r
<1>3. Rounded(n, d) = IF Up(q, r, d) THEN q + 1 ELSE q
  BY <1>1, <1>2 DEF Up
<1>4. RoundsTo(n, d, q, r, Rounded(n, d))
  BY <1>1, <1>3, Zenon DEF RoundsTo
<1> QED
  BY <1>1, <1>4, Zenon

(* Rounding moves by half at most.                                         *)
LEMMA RoundedNear ==
    ASSUME NEW n \in Nat, NEW d \in Nat \ {0}
    PROVE  Rounded(n, d) \in Nat /\ 2 * (d * Rounded(n, d)) <= 2 * n + d
<1>0. PICK q \in Nat, r \in Nat : RoundsTo(n, d, q, r, Rounded(n, d))
  BY RoundedIs, Zenon
<1>1. /\ n = q * d + r /\ r < d
      /\ Rounded(n, d) = q \/ (Rounded(n, d) = q + 1 /\ 2 * r >= d)
  BY <1>0 DEF RoundsTo, Up
<1>2. q * d \in Nat /\ d * q = q * d /\ d * (q + 1) = q * d + d
  OBVIOUS
<1>3. CASE Rounded(n, d) = q
  <2>1. 2 * (d * q) <= 2 * n + d
    BY ONLY <1>1, <1>2, q \in Nat, r \in Nat, d \in Nat
  <2> QED
    BY <1>3, <2>1
<1>4. CASE Rounded(n, d) = q + 1 /\ 2 * r >= d
  <2>1. 2 * (d * (q + 1)) <= 2 * n + d
    BY ONLY <1>1, <1>2, <1>4, q \in Nat, r \in Nat, d \in Nat
  <2> QED
    BY <1>4, <2>1
<1> QED
  BY <1>1, <1>3, <1>4

(* Rounding keeps the order.                                               *)
LEMMA RoundedGrows ==
    ASSUME NEW m \in Nat, NEW n \in Nat, m <= n, NEW d \in Nat \ {0}
    PROVE  Rounded(m, d) <= Rounded(n, d)
<1>1. PICK p \in Nat, s \in Nat : RoundsTo(m, d, p, s, Rounded(m, d))
  BY RoundedIs, Zenon
<1>2. PICK q \in Nat, r \in Nat : RoundsTo(n, d, q, r, Rounded(n, d))
  BY RoundedIs, Zenon
<1>3. /\ m = p * d + s /\ s < d
      /\ Rounded(m, d) = p \/ (Rounded(m, d) = p + 1 /\ Up(p, s, d))
  BY <1>1 DEF RoundsTo
<1>4. /\ n = q * d + r /\ r < d
      /\ (Rounded(n, d) = q /\ ~Up(q, r, d)) \/ Rounded(n, d) = q + 1
  BY <1>2 DEF RoundsTo
<1>5. p <= q
  <2> SUFFICES ASSUME q + 1 <= p PROVE FALSE
    BY <1>3, <1>4
  <2>1. (q + 1) * d <= p * d
    BY ONLY q \in Nat, p \in Nat, d \in Nat, q + 1 <= p
  <2>2. (q + 1) * d = q * d + d /\ q * d \in Nat /\ p * d \in Nat
    BY ONLY q \in Nat, p \in Nat, d \in Nat
  <2> QED
    BY ONLY <1>3, <1>4, <2>1, <2>2, m <= n, m \in Nat, n \in Nat, d \in Nat, s \in Nat, r \in Nat
<1>6. CASE p = q
  <2>1. s <= r
    <3>1. p * d \in Nat
      OBVIOUS
    <3> QED
      BY ONLY <1>3, <1>4, <1>6, <3>1, m <= n, m \in Nat, n \in Nat, s \in Nat, r \in Nat
  <2>2. CASE Rounded(n, d) = q /\ ~Up(q, r, d)
    <3>1. ~Up(q, s, d)
      BY ONLY <2>1, <2>2, s \in Nat, r \in Nat, d \in Nat DEF Up
    <3>2. Rounded(m, d) = p
      BY ONLY <1>3, <1>6, <3>1
    <3> QED
      BY <1>6, <2>2, <3>2
  <2>3. CASE Rounded(n, d) = q + 1
    BY ONLY <1>3, <1>6, <2>3, p \in Nat, q \in Nat
  <2> QED
    BY <1>4, <2>2, <2>3
<1>7. CASE p # q
  <2>1. p + 1 <= q
    BY <1>5, <1>7
  <2> QED
    BY ONLY <1>3, <1>4, <2>1, p \in Nat, q \in Nat
<1> QED
  BY <1>6, <1>7

(* What is whole is not moved.                                             *)
LEMMA RoundedWhole ==
    ASSUME NEW c \in Nat, NEW d \in Nat \ {0}
    PROVE  Rounded(c * d, d) = c
<1>1. c * d \in Nat
  OBVIOUS
<1>0. PICK q \in Nat, r \in Nat : RoundsTo(c * d, d, q, r, Rounded(c * d, d))
  BY <1>1, RoundedIs, Zenon
<1>2. /\ c * d = q * d + r /\ r < d
      /\ Rounded(c * d, d) = q \/ (Rounded(c * d, d) = q + 1 /\ 2 * r >= d)
  BY <1>0 DEF RoundsTo, Up
<1>3. q = c
  <2>1. ~(q + 1 <= c)
    <3> SUFFICES ASSUME q + 1 <= c PROVE FALSE
      OBVIOUS
    <3>1. (q + 1) * d <= c * d /\ (q + 1) * d = q * d + d /\ q * d \in Nat
      BY ONLY q \in Nat, c \in Nat, d \in Nat, q + 1 <= c
    <3> QED
      BY ONLY <1>1, <1>2, <3>1, r \in Nat, d \in Nat
  <2>2. ~(c + 1 <= q)
    <3> SUFFICES ASSUME c + 1 <= q PROVE FALSE
      OBVIOUS
    <3>1. (c + 1) * d <= q * d /\ (c + 1) * d = c * d + d /\ q * d \in Nat
      BY ONLY q \in Nat, c \in Nat, d \in Nat, c + 1 <= q
    <3> QED
      BY ONLY <1>1, <1>2, <3>1, r \in Nat, d \in Nat, d # 0
  <2> QED
    BY <2>1, <2>2
<1>4. r = 0
  <2>1. q * d \in Nat
    OBVIOUS
  <2> QED
    BY ONLY <1>2, <1>3, <2>1, r \in Nat
<1> QED
  BY ONLY <1>2, <1>3, <1>4, d \in Nat \ {0}

-----------------------------------------------------------------------------
(* The levels of a load                                                    *)

(* How many levels the ramp has, and how long each of them is.             *)
Rungs(l) == IF l.rampUp = 0 THEN 0 ELSE IF l.steps = 0 THEN 1 ELSE l.steps
Rung(l) == IF l.steps = 0 THEN l.rampUp ELSE Rounded(l.rampUp, l.steps)

(* The levels of a load climb in rungs of the same length to what is asked *)
(* for, and then are flat.                                                 *)
Climbs(l, levels) ==
    /\ levels \in Seq(Levels)
    /\ Len(levels) \in Rungs(l) .. Rungs(l) + 1
    /\ \A k \in 1 .. Len(levels) : levels[k].start <= levels[k].end
    /\ \A k \in 2 .. Len(levels) : levels[k - 1].end <= levels[k].start
    /\ \A k \in 1 .. Rungs(l) : levels[k].dur = Rung(l)
    /\ Len(levels) # 0 => levels[Len(levels)].end = LevelOf(l)
    /\ Len(levels) = Rungs(l) + 1 => levels[Len(levels)].start = levels[Len(levels)].end

(* The parts of a load.                                                    *)
LEMMA LoadTypes ==
    ASSUME NEW l \in Loads
    PROVE  /\ l.rampUp \in Nat /\ l.steps \in Nat /\ l.hold \in Nat
           /\ l.throughput \in Nat /\ l.concurrency \in Nat
           /\ LevelOf(l) \in Nat
BY DEF Loads, LevelOf

(* The rungs are numbers, and all of them together are half a tick for     *)
(* each longer than the ramp-up at most.                                   *)
LEMMA RungTypes ==
    ASSUME NEW l \in Loads
    PROVE  /\ Rungs(l) \in Nat /\ Rung(l) \in Nat
           /\ 2 * (Rungs(l) * Rung(l)) <= 2 * l.rampUp + l.steps
<1>1. l.rampUp \in Nat /\ l.steps \in Nat
  BY LoadTypes
<1>2. CASE l.rampUp = 0
  <2>1. Rungs(l) = 0
    BY <1>2 DEF Rungs
  <2>2. Rung(l) \in Nat
    BY <1>1, RoundedNear DEF Rung
  <2>3. 0 * Rung(l) = 0
    BY <2>2
  <2> QED
    BY <1>1, <2>1, <2>2, <2>3
<1>3. CASE l.rampUp # 0 /\ l.steps = 0
  <2>1. Rungs(l) = 1 /\ Rung(l) = l.rampUp
    BY <1>3 DEF Rungs, Rung
  <2> QED
    BY <1>1, <2>1
<1>4. CASE l.rampUp # 0 /\ l.steps # 0
  <2>1. Rungs(l) = l.steps /\ Rung(l) = Rounded(l.rampUp, l.steps)
    BY <1>4 DEF Rungs, Rung
  <2> QED
    BY <1>1, <1>4, <2>1, RoundedNear
<1> QED
  BY <1>2, <1>3, <1>4

(* The steps of a ramp do not fall, and the last is at the level asked for.*)
LEMMA StepLevels ==
    ASSUME NEW l \in Loads, l.steps # 0
    PROVE  /\ \A k \in 1 .. l.steps : StepLevel(l, k) \in Nat
           /\ \A k \in 2 .. l.steps : StepLevel(l, k - 1) <= StepLevel(l, k)
           /\ StepLevel(l, l.steps) = LevelOf(l)
<1> DEFINE s == l.steps
           c == LevelOf(l)
<1>0. s \in Nat \ {0} /\ c \in Nat
  BY LoadTypes
<1>1. \A k : StepLevel(l, k) = Rounded(c * k, s)
  BY DEF StepLevel
<1> HIDE DEF s, c
<1>2. \A k \in 1 .. s : StepLevel(l, k) \in Nat
  BY <1>0, <1>1, RoundedNear
<1>3. ASSUME NEW k \in 2 .. s PROVE StepLevel(l, k - 1) <= StepLevel(l, k)
  <2>1. c * (k - 1) \in Nat /\ c * k \in Nat /\ c * (k - 1) <= c * k
    <3>1. k \in Nat /\ k - 1 \in Nat
      BY <1>0
    <3>2. c * k = c * (k - 1) + c
      BY ONLY <1>0, <3>1
    <3>3. c * (k - 1) \in Nat
      BY ONLY <1>0, <3>1
    <3> QED
      BY ONLY <1>0, <3>2, <3>3
  <2> QED
    BY <1>0, <1>1, <2>1, RoundedGrows
<1>4. StepLevel(l, s) = c
  BY <1>0, <1>1, RoundedWhole
<1> QED
  BY <1>2, <1>3, <1>4 DEF s, c

(* The ramp of a load alone.                                               *)
LEMMA RampClimbs ==
    ASSUME NEW l \in Loads
    PROVE  Climbs(l, RampLevels(l)) /\ Len(RampLevels(l)) = Rungs(l)
<1> DEFINE levels == RampLevels(l)
<1>0. /\ l.rampUp \in Nat /\ l.steps \in Nat /\ LevelOf(l) \in Nat
      /\ Rungs(l) \in Nat /\ Rung(l) \in Nat
  BY LoadTypes, RungTypes
<1>1. CASE l.rampUp = 0
  <2>1. levels = << >> /\ Rungs(l) = 0
    BY <1>1 DEF RampLevels, Rungs
  <2>2. levels \in Seq(Levels) /\ Len(levels) = 0
    BY <2>1, EmptySeq
  <2> HIDE DEF levels
  <2> QED
    BY <1>0, <2>1, <2>2 DEF Climbs, levels
<1>2. CASE l.rampUp # 0 /\ l.steps = 0
  <2> DEFINE level == [start |-> 0, end |-> LevelOf(l), dur |-> l.rampUp]
  <2>1. levels = << level >> /\ Rungs(l) = 1 /\ Rung(l) = l.rampUp
    BY <1>2 DEF RampLevels, Rungs, Rung
  <2>2. level \in Levels
    BY <1>0 DEF Levels
  <2>3. level.start = 0 /\ level.end = LevelOf(l) /\ level.dur = l.rampUp
    OBVIOUS
  <2> HIDE DEF level, levels
  <2>4. levels \in Seq(Levels) /\ Len(levels) = 1 /\ levels[1] = level
    BY <2>1, <2>2
  <2> QED
    BY <1>0, <2>1, <2>3, <2>4 DEF Climbs, levels
<1>3. CASE l.rampUp # 0 /\ l.steps # 0
  <2>1. /\ levels = [k \in 1 .. l.steps |-> Flat(StepLevel(l, k), Rung(l))]
        /\ Rungs(l) = l.steps
    BY <1>3 DEF RampLevels, Rungs, Rung
  <2>2. ASSUME NEW k \in 1 .. l.steps
        PROVE  /\ levels[k] \in Levels
               /\ levels[k].start = StepLevel(l, k) /\ levels[k].end = StepLevel(l, k)
               /\ levels[k].dur = Rung(l)
    <3>1. levels[k] = [start |-> StepLevel(l, k), end |-> StepLevel(l, k), dur |-> Rung(l)]
      BY <2>1 DEF Flat
    <3>2. StepLevel(l, k) \in Nat
      BY <1>3, StepLevels
    <3> QED
      BY <1>0, <3>1, <3>2 DEF Levels
  <2> HIDE DEF levels
  <2>3. levels \in Seq(Levels) /\ Len(levels) = l.steps
    <3>1. levels \in [1 .. l.steps -> Levels]
      BY <2>1, <2>2
    <3> QED
      BY <1>0, <3>1
  <2>4. \A k \in 1 .. l.steps : levels[k].start <= levels[k].end
    <3>1. \A k \in 1 .. l.steps : StepLevel(l, k) \in Nat
      BY <1>3, StepLevels
    <3> QED
      BY <2>2, <3>1
  <2>5. ASSUME NEW k \in 2 .. l.steps PROVE levels[k - 1].end <= levels[k].start
    <3>1. k \in 1 .. l.steps /\ k - 1 \in 1 .. l.steps
      BY <1>0
    <3>2. StepLevel(l, k - 1) <= StepLevel(l, k)
      BY <1>3, StepLevels
    <3> QED
      BY <2>2, <3>1, <3>2
  <2>6. levels[l.steps].end = LevelOf(l)
    <3>1. l.steps \in 1 .. l.steps
      BY <1>0, <1>3
    <3>2. StepLevel(l, l.steps) = LevelOf(l)
      BY <1>3, StepLevels
    <3> QED
      BY <2>2, <3>1, <3>2
  <2>7. Rungs(l) # Rungs(l) + 1 /\ Rungs(l) \in Rungs(l) .. Rungs(l) + 1
    BY <1>0
  <2> QED
    BY <2>1, <2>2, <2>3, <2>4, <2>5, <2>6, <2>7 DEF Climbs, levels
<1> QED
  BY <1>1, <1>2, <1>3

(* The whole scenario of a load.                                           *)
LEMMA LoadClimbs ==
    ASSUME NEW l \in Loads
    PROVE  /\ Climbs(l, TranslateLoad(l))
           /\ l.rampUp + l.hold > 0 => Len(TranslateLoad(l)) # 0
<1>0. /\ l.rampUp \in Nat /\ l.steps \in Nat /\ l.hold \in Nat /\ LevelOf(l) \in Nat
      /\ Rungs(l) \in Nat /\ (l.rampUp # 0 => Rungs(l) # 0)
  BY LoadTypes, RungTypes DEF Rungs
<1>1. PICK ramp : ramp = RampLevels(l)
  OBVIOUS
<1>2. Climbs(l, ramp) /\ Len(ramp) = Rungs(l) /\ ramp \in Seq(Levels)
  BY <1>1, RampClimbs DEF Climbs
<1>3. PICK n \in Nat : n = Rungs(l)
  BY <1>0
<1>4. CASE l.hold = 0
  <2>1. TranslateLoad(l) = ramp \o << >>
    BY <1>1, <1>4 DEF TranslateLoad, HoldLevels
  <2>2. ramp \o << >> = ramp
    BY <1>2, ConcatEmptySeq
  <2> QED
    BY <1>0, <1>2, <1>4, <2>1, <2>2
<1>5. CASE l.hold # 0
  <2>1. PICK last : last = Flat(LevelOf(l), l.hold)
    OBVIOUS
  <2>2. last \in Levels /\ last.start = LevelOf(l) /\ last.end = LevelOf(l)
    BY <1>0, <2>1 DEF Flat, Levels
  <2>3. TranslateLoad(l) = ramp \o << last >>
    BY <1>1, <1>5, <2>1 DEF TranslateLoad, HoldLevels
  <2>4. PICK one : one = << last >>
    OBVIOUS
  <2>5. one \in Seq(Levels) /\ Len(one) = 1 /\ one[1] = last
    BY <2>2, <2>4
  <2>6. PICK levels : levels = TranslateLoad(l)
    OBVIOUS
  <2>7. /\ levels \in Seq(Levels) /\ Len(levels) = n + 1
        /\ \A k \in 1 .. n + 1 : levels[k] = IF k <= n THEN ramp[k] ELSE one[k - n]
    <3>1. levels = ramp \o one
      BY <2>3, <2>4, <2>6
    <3> QED
      <4>1. /\ ramp \o one \in Seq(Levels) /\ Len(ramp \o one) = Len(ramp) + Len(one)
            /\ \A k \in 1 .. Len(ramp) + Len(one) :
                   (ramp \o one)[k] = IF k <= Len(ramp) THEN ramp[k] ELSE one[k - Len(ramp)]
        BY <1>2, <2>5, ConcatProperties, Zenon
      <4> QED
        BY <1>2, <1>3, <2>5, <3>1, <4>1
  <2>8. /\ \A k \in 1 .. n : levels[k] = ramp[k]
        /\ levels[n + 1] = last
    <3>1. n + 1 \in 1 .. n + 1 /\ ~(n + 1 <= n) /\ (n + 1) - n = 1
      BY ONLY n \in Nat
    <3>2. \A k \in 1 .. n : k \in 1 .. n + 1 /\ k <= n
      BY ONLY n \in Nat
    <3> QED
      BY <2>5, <2>7, <3>1, <3>2
  <2>9. /\ \A k \in 1 .. n : ramp[k].start <= ramp[k].end /\ ramp[k].dur = Rung(l)
        /\ \A k \in 2 .. n : ramp[k - 1].end <= ramp[k].start
        /\ n # 0 => ramp[n].end = LevelOf(l)
    BY <1>2, <1>3 DEF Climbs
  <2>10. \A k \in 1 .. n + 1 : levels[k].start <= levels[k].end
    <3> SUFFICES ASSUME NEW k \in 1 .. n + 1 PROVE levels[k].start <= levels[k].end
      OBVIOUS
    <3>1. k \in 1 .. n \/ k = n + 1
      BY ONLY n \in Nat, k \in 1 .. n + 1
    <3>2. LevelOf(l) <= LevelOf(l)
      BY <1>0
    <3> QED
      BY <2>2, <2>8, <2>9, <3>1, <3>2
  <2>11. ASSUME NEW k \in 2 .. n + 1 PROVE levels[k - 1].end <= levels[k].start
    <3>1. \/ k \in 2 .. n /\ k \in 1 .. n /\ k - 1 \in 1 .. n
          \/ k = n + 1 /\ k - 1 = n /\ n # 0 /\ n \in 1 .. n
      BY ONLY n \in Nat, k \in 2 .. n + 1
    <3>2. LevelOf(l) <= LevelOf(l)
      BY <1>0
    <3>3. CASE k \in 2 .. n /\ k \in 1 .. n /\ k - 1 \in 1 .. n
      BY <2>8, <2>9, <3>3
    <3>4. CASE k = n + 1 /\ k - 1 = n /\ n # 0 /\ n \in 1 .. n
      BY <2>2, <2>8, <2>9, <3>2, <3>4
    <3> QED
      BY <3>1, <3>3, <3>4
  <2>12. n + 1 \in n .. n + 1 /\ n + 1 # 0
    BY ONLY n \in Nat
  <2> QED
    BY <1>3, <2>2, <2>6, <2>7, <2>8, <2>9, <2>10, <2>11, <2>12 DEF Climbs
<1> QED
  BY <1>4, <1>5

-----------------------------------------------------------------------------
(* The workers of a load                                                   *)

(* The levels in units of a worker have the same order and durations.      *)
LEMMA UnitLevels ==
    ASSUME NEW l \in Loads, NEW levels, Climbs(l, levels)
    PROVE  /\ InUnits(levels) \in Seq(Levels) /\ Len(InUnits(levels)) = Len(levels)
           /\ Rises(InUnits(levels))
           /\ \A k \in 1 .. Len(levels) :
                  /\ InUnits(levels)[k].start = LevelUnit * levels[k].start
                  /\ InUnits(levels)[k].end = LevelUnit * levels[k].end
                  /\ InUnits(levels)[k].dur = levels[k].dur
<1> DEFINE U == LevelUnit
           n == Len(levels)
           units == InUnits(levels)
<1>1. /\ U \in Nat \ {0} /\ n \in Nat /\ levels \in Seq(Levels)
      /\ DOMAIN levels = 1 .. n
      /\ \A k \in 1 .. n : levels[k] \in Levels
  BY ClosedScheduleAssumption, LenProperties, ElementOfSeq DEF Climbs
<1>2. \A k \in 1 .. n :
          /\ levels[k].start \in Nat /\ levels[k].end \in Nat /\ levels[k].dur \in Nat
          /\ levels[k].start <= levels[k].end
  BY <1>1 DEF Climbs, Levels
<1>3. units = [k \in 1 .. n |-> [start |-> U * levels[k].start, end |-> U * levels[k].end,
                                 dur |-> levels[k].dur]]
  BY <1>1 DEF InUnits
<1> HIDE DEF units, n, U
<1>4. ASSUME NEW k \in 1 .. n
      PROVE  /\ units[k] \in Levels
             /\ units[k].start = U * levels[k].start /\ units[k].end = U * levels[k].end
             /\ units[k].dur = levels[k].dur
  <2>1. units[k] = [start |-> U * levels[k].start, end |-> U * levels[k].end,
                    dur |-> levels[k].dur]
    BY <1>3
  <2>2. U * levels[k].start \in Nat /\ U * levels[k].end \in Nat
    BY <1>1, <1>2
  <2> QED
    BY <1>2, <2>1, <2>2 DEF Levels
<1>5. units \in Seq(Levels) /\ Len(units) = n /\ DOMAIN units = 1 .. n
  <2>1. units \in [1 .. n -> Levels]
    BY <1>3, <1>4
  <2> QED
    BY <1>1, <2>1
<1>6. \A a, b \in Nat : a <= b => U * a <= U * b
  BY <1>1
<1>7. \A a \in Nat : (U * a) % U = 0
  BY <1>1
<1>8. \A k \in 1 .. n : units[k].start <= units[k].end
                        /\ Whole(units[k].start) /\ Whole(units[k].end)
  BY <1>2, <1>4, <1>6, <1>7 DEF Whole, U
<1>9. ASSUME NEW k \in 2 .. n PROVE units[k - 1].end <= units[k].start
  <2>1. k \in 1 .. n /\ k - 1 \in 1 .. n
    BY <1>1
  <2>2. levels[k - 1].end <= levels[k].start
    BY DEF Climbs, n
  <2> QED
    BY <1>2, <1>4, <1>6, <2>1, <2>2
<1>10. Rises(units)
  BY <1>5, <1>8, <1>9 DEF Rises
<1> QED
  BY <1>4, <1>5, <1>10 DEF units, n, U

(* All through the ramp the offset of a level is the rungs before it.      *)
LEMMA RampOffsets ==
    ASSUME NEW levels \in Seq(Levels), NEW g, Runs(g, levels), NEW r \in 0 .. Len(levels),
           NEW d \in Nat, \A k \in 1 .. r : levels[k].dur = d
    PROVE  g[r].curOffset = r * d
<1>0. Len(levels) \in Nat /\ r \in Nat
  BY LenProperties
<1> DEFINE S == {j \in 0 .. r : g[j].curOffset = j * d}
<1>1. 0 \in S
  <2>1. g[0].curOffset = 0 /\ 0 \in 0 .. r /\ 0 * d = 0
    BY <1>0 DEF Runs, Start
  <2> QED
    BY <2>1
<1>2. ASSUME NEW j \in 0 .. r - 1, j \in S PROVE j + 1 \in S
  <2>1. /\ j \in Nat /\ j + 1 \in 0 .. r /\ j + 1 \in 1 .. r
        /\ j + 1 \in 1 .. Len(levels) /\ (j + 1) - 1 = j
    BY <1>0
  <2>2. g[j + 1] = AfterLevel(g[j], levels[j + 1])
    BY <2>1 DEF Runs
  <2>3. g[j + 1].curOffset = g[j].curOffset + levels[j + 1].dur
    <3>1. AfterLevel(g[j], levels[j + 1]).curOffset = g[j].curOffset + levels[j + 1].dur
      BY AfterLevelLocals, Zenon
    <3> QED
      BY <2>2, <3>1, Zenon
  <2>4. g[j].curOffset = j * d /\ levels[j + 1].dur = d
    BY <1>2, <2>1
  <2>5. j * d + d = (j + 1) * d
    BY ONLY <2>1, d \in Nat
  <2> QED
    BY <2>1, <2>3, <2>4, <2>5
<1> HIDE DEF S
<1>3. \A j \in 0 .. r : j \in S
  BY <1>0, <1>1, <1>2, RunInduction
<1> QED
  BY <1>0, <1>3 DEF S

(* What the generator sends for the levels of a load.                      *)
LEMMA LoadReached ==
    ASSUME NEW l \in Loads, l.throughput = 0, l.rampUp + l.hold > 0
    PROVE  LET all == ClosedOffsets(ScenarioOf(l))
           IN  /\ Len(all) = l.concurrency
               /\ \A k \in DOMAIN all : 2 * all[k] <= 2 * l.rampUp + l.steps
<1>1. PICK levels : levels = TranslateLoad(l)
  OBVIOUS
<1>2. PICK units : units = InUnits(levels)
  OBVIOUS
<1>3. ScenarioOf(l) = units
  BY <1>1, <1>2, LoadTypes DEF ScenarioOf, ModeOf
<1>4. Climbs(l, levels) /\ Len(levels) # 0
  BY <1>1, LoadClimbs
<1>5. /\ units \in Seq(Levels) /\ Len(units) = Len(levels) /\ Rises(units)
      /\ \A k \in 1 .. Len(levels) :
             /\ units[k].start = LevelUnit * levels[k].start
             /\ units[k].end = LevelUnit * levels[k].end
             /\ units[k].dur = levels[k].dur
  BY <1>2, <1>4, UnitLevels
<1>6. PICK n, r, d, c : n = Len(levels) /\ r = Rungs(l) /\ d = Rung(l) /\ c = LevelOf(l)
  OBVIOUS
<1>7. /\ n \in Nat /\ n # 0 /\ r \in Nat /\ d \in Nat /\ c \in Nat /\ c = l.concurrency
      /\ (n = r \/ n = r + 1) /\ r \in 0 .. n /\ n \in 1 .. n /\ n \in 0 .. n
      /\ LevelUnit \in Nat \ {0}
  <2>1. levels \in Seq(Levels) /\ n \in r .. r + 1
    BY <1>4, <1>6 DEF Climbs
  <2>2. n \in Nat /\ r \in Nat /\ d \in Nat /\ c \in Nat /\ LevelUnit \in Nat \ {0}
    BY <1>6, <2>1, LenProperties, LoadTypes, RungTypes, ClosedScheduleAssumption
  <2>3. c = l.concurrency
    BY <1>6, LoadTypes DEF LevelOf
  <2>4. (n = r \/ n = r + 1) /\ r \in 0 .. n /\ n \in 1 .. n /\ n \in 0 .. n
    <3>1. n # 0
      BY <1>4, <1>6
    <3> QED
      BY ONLY <2>1, <2>2, <3>1
  <2> QED
    BY <1>4, <1>6, <2>2, <2>3, <2>4
<1>8. /\ \A k \in 1 .. r : levels[k].dur = d
      /\ levels[n].end = c
      /\ n = r + 1 => levels[n].start = levels[n].end
      /\ levels[n] \in Levels
  BY <1>4, <1>6, <1>7, ElementOfSeq DEF Climbs
<1>9. PICK g : Runs(g, units) /\ ClosedOffsets(units) = g[n].offsets
  BY <1>5, <1>6, GeneratorRuns
<1>10. PICK all : all = ClosedOffsets(units)
  OBVIOUS
<1>11. Len(all) = c
  <2>1. Len(all) * LevelUnit = g[n].curLevel
    <3>1. \A j \in 0 .. Len(units) : Len(g[j].offsets) * LevelUnit = g[j].curLevel
      BY <1>5, <1>9, RunWorkers, Zenon
    <3>2. n \in 0 .. Len(units) /\ all = g[n].offsets
      BY <1>5, <1>6, <1>7, <1>9, <1>10
    <3> QED
      BY <3>1, <3>2, Zenon
  <2>2. g[n].curLevel = units[n].end
    BY <1>5, <1>6, <1>7, <1>9, RunTotals
  <2>3. units[n].end = LevelUnit * c
    BY <1>5, <1>6, <1>7, <1>8
  <2>4. Len(all) \in Nat
    BY <1>5, <1>10, OffsetsInOrder, LenProperties
  <2>5. Len(all) * LevelUnit = c * LevelUnit
    BY ONLY <1>7, <2>1, <2>2, <2>3
  <2>6. Len(all) * LevelUnit <= c * LevelUnit /\ c * LevelUnit <= Len(all) * LevelUnit
    BY ONLY <1>7, <2>4, <2>5
  <2>7. Len(all) <= c /\ c <= Len(all)
    BY <1>7, <2>4, <2>6, UnitsOrder
  <2> QED
    BY <1>7, <2>4, <2>7
<1>12. g[r].curOffset = r * d /\ g[r] \in Progress
  <2>1. ASSUME NEW k \in 1 .. r PROVE units[k].dur = d
    <3>1. k \in 1 .. n
      BY ONLY <1>7, k \in 1 .. r
    <3>2. units[k].dur = levels[k].dur
      BY ONLY <1>5, <1>6, <3>1
    <3> QED
      BY <1>8, <3>2
  <2>2. g[r] \in Progress
    BY <1>5, <1>6, <1>7, <1>9 DEF Runs
  <2>3. r \in 0 .. Len(units)
    BY <1>5, <1>6, <1>7
  <2>4. g[r].curOffset = r * d
    <3>1. units \in Seq(Levels) /\ Runs(g, units) /\ d \in Nat
      BY <1>5, <1>7, <1>9
    <3>2. \A k \in 1 .. r : units[k].dur = d
      BY <2>1
    <3> QED
      BY ONLY <2>3, <3>1, <3>2, r \in Nat, RampOffsets
  <2> QED
    BY <2>2, <2>4, Zenon
<1>13. 2 * (r * d) <= 2 * l.rampUp + l.steps /\ r * d \in Nat
       /\ 2 * l.rampUp + l.steps \in Nat
  <2>1. 2 * (Rungs(l) * Rung(l)) <= 2 * l.rampUp + l.steps
    BY RungTypes, Zenon
  <2>2. l.rampUp \in Nat /\ l.steps \in Nat
    BY LoadTypes, Zenon
  <2>3. 2 * (r * d) <= 2 * l.rampUp + l.steps
    BY <1>6, <2>1, Zenon
  <2>4. r * d \in Nat
    BY ONLY <1>7
  <2>5. 2 * l.rampUp + l.steps \in Nat
    BY ONLY <2>2
  <2> QED
    BY <2>3, <2>4, <2>5, Zenon
<1>14. \A k \in 1 .. Len(g[r].offsets) : g[r].offsets[k] <= r * d /\ g[r].offsets[k] \in Nat
  BY <1>12, ElementOfSeq DEF Progress, InOrder
<1>15. \A k \in 1 .. Len(all) : all[k] <= r * d /\ all[k] \in Nat
  <2>1. CASE n = r
    BY <1>9, <1>10, <1>14, <2>1
  <2>2. CASE n = r + 1
    <3> DEFINE p == Len(g[r].offsets)
               m == Jump(g[r].curLevel, units[n])
    <3>1. g[n] = AfterLevel(g[r], units[n])
      <4>1. n \in 1 .. Len(units) /\ n - 1 = r
        BY <1>5, <1>6, <1>7, <2>2
      <4> QED
        BY <1>9, <4>1 DEF Runs
    <3>2. units[n] \in Levels
      BY <1>5, <1>6, <1>7, ElementOfSeq
    <3>3. Climb(units[n]) = 0
      <4>1. units[n].start = units[n].end
        BY <1>5, <1>6, <1>7, <1>8, <2>2
      <4>2. units[n].end \in Nat
        BY <3>2 DEF Levels
      <4> QED
        BY <4>1, <4>2 DEF Climb
    <3>4. /\ p \in Nat /\ m \in Nat
          /\ Len(all) = p + m + Climb(units[n])
          /\ \A i \in 1 .. p : all[i] = g[r].offsets[i]
          /\ \A i \in 1 .. m : all[p + i] = g[r].curOffset
      <4>1. all = AfterLevel(g[r], units[n]).offsets
        BY <1>9, <1>10, <3>1
      <4>2. LET h == AfterLevel(g[r], units[n])
            IN  /\ p \in Nat /\ m \in Nat
                /\ Len(h.offsets) = p + m + Climb(units[n])
                /\ \A i \in 1 .. p : h.offsets[i] = g[r].offsets[i]
                /\ \A i \in 1 .. m : h.offsets[p + i] = g[r].curOffset
        BY <1>12, <3>2, LevelAdds
      <4> QED
        BY <4>1, <4>2, Zenon
    <3> HIDE DEF p, m
    <3>5. SUFFICES ASSUME NEW k \in 1 .. Len(all) PROVE all[k] <= r * d /\ all[k] \in Nat
      OBVIOUS
    <3>6. k \in 1 .. p \/ (k - p \in 1 .. m /\ p + (k - p) = k)
      BY <3>3, <3>4
    <3>7. CASE k \in 1 .. p
      BY <1>14, <3>4, <3>7 DEF p
    <3>8. CASE k - p \in 1 .. m /\ p + (k - p) = k
      <4>1. all[k] = r * d
        BY <1>12, <3>4, <3>8
      <4> QED
        BY <1>13, <4>1
    <3> QED
      BY <3>6, <3>7, <3>8
  <2> QED
    BY <1>7, <2>1, <2>2
<1>16. \A k \in DOMAIN all : 2 * all[k] <= 2 * l.rampUp + l.steps
  <2>1. DOMAIN all = 1 .. Len(all)
    BY <1>5, <1>10, OffsetsInOrder, LenProperties
  <2> SUFFICES ASSUME NEW k \in 1 .. Len(all) PROVE 2 * all[k] <= 2 * l.rampUp + l.steps
    BY <2>1
  <2>2. PICK x, y, z : x = all[k] /\ y = r * d /\ z = 2 * l.rampUp + l.steps
    OBVIOUS
  <2>3. x \in Nat /\ y \in Nat /\ z \in Nat /\ x <= y /\ 2 * y <= z
    BY <1>13, <1>15, <2>2
  <2>4. 2 * x <= z
    BY ONLY <2>3
  <2> QED
    BY <2>2, <2>4
<1> QED
  BY <1>3, <1>7, <1>10, <1>11, <1>16

(* The mode and the scenario are those of the load all the time.           *)
LoadInv ==
    \/ load = NoLoad
    \/ load \in AskedLoads /\ mode = ModeOf(load) /\ scenario = ScenarioOf(load)

(* A load that Taurus is asked for, whatever its numbers, starts exactly   *)
(* as many workers as its concurrency, none lost to the rounding of the    *)
(* levels, and the last by the end of the ramp-up, up to the rounding of   *)
(* the durations to ticks.                                                 *)
THEOREM LoadReachesConcurrency == Spec => []ConcurrencyReached
<1>1. Init => LoadInv
  BY DEF Init, LoadInv
<1>2. LoadInv /\ [Next]_vars => LoadInv'
  <2> SUFFICES ASSUME LoadInv, [Next]_vars PROVE LoadInv'
    OBVIOUS
  <2>1. UNCHANGED <<mode, load, scenario>>
    BY DEF Next, vars, ScheduleNext, GenerateOffset, GeneratorEnds, SendOffset, GeneratorDone,
           schedVars, ClosedScheduleNext, SendStart, closedSchedVars
  <2> QED
    BY <2>1 DEF LoadInv
<1>3. LoadInv => ConcurrencyReached
  <2> SUFFICES ASSUME LoadInv, mode = "closed", load # NoLoad, load.rampUp + load.hold > 0,
                      AllSent
               PROVE  /\ sent = load.concurrency
                      /\ \A k \in DOMAIN Offsets : 2 * Offsets[k] <= 2 * load.rampUp + load.steps
    BY DEF ConcurrencyReached
  <2>1. load \in Loads /\ ModeOf(load) = "closed" /\ scenario = ScenarioOf(load)
    BY TaurusAssumption DEF LoadInv
  <2>2. load.throughput = 0
    <3>1. load.throughput \in Nat /\ ~(load.throughput > 0)
      BY <2>1, LoadTypes DEF ModeOf
    <3> QED
      BY <3>1
  <2>3. Offsets = ClosedOffsets(ScenarioOf(load))
    BY <2>1 DEF Offsets
  <2>4. sent = Len(Offsets)
    BY DEF AllSent
  <2> QED
    BY <2>1, <2>2, <2>3, <2>4, LoadReached
<1> QED
  BY <1>1, <1>2, <1>3, PTL DEF Spec

=============================================================================
