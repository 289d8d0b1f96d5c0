--------------------------- MODULE WorkerPoolProofs ---------------------------
(***************************************************************************)
(* Proofs about the workers, for any number of them, any schedule and any  *)
(* moment of Stop: they hold of PoolSpec, and so of every workload that    *)
(* implements it.                                                          *)
(***************************************************************************)
EXTENDS WorkerPool, FiniteSetTheorems, TLAPS

-----------------------------------------------------------------------------
(* Types                                                                   *)

(* The Inc and Dec methods keep the type of the counters, and each changes *)
(* only its own counter.                                                   *)
LEMMA CounterTypes ==
    ASSUME NEW st \in Counters
    PROVE  /\ IncWaiting(st) \in Counters
           /\ DecWaiting(st) \in Counters
           /\ IncWorking(st) \in Counters
           /\ DecWorking(st) \in Counters
           /\ IncSleeping(st) \in Counters
           /\ DecSleeping(st) \in Counters
           /\ IncBusy(st) \in Counters
           /\ DecBusy(st) \in Counters
BY DEF Counters, IncWaiting, DecWaiting, IncWorking, DecWorking, IncSleeping,
       DecSleeping, IncBusy, DecBusy

(* The actions of one worker keep the types; they are told apart by what   *)
(* they change.                                                            *)
LEMMA WorkerStepType ==
    ASSUME PoolTypeOK, NEW w \in Workers, WorkerStep(w)
    PROVE  PoolTypeOK'
<1> USE CounterTypes DEF PoolTypeOK, PCs, Goto, PanicIfNegative
<1>0. Unscheduled \in Slots
  BY DEF Unscheduled, Slots
<1>1. CASE BeginIteration(w)
  BY <1>1 DEF BeginIteration
<1>2. CASE Finish(w)
  BY <1>2 DEF Finish
<1>3. CASE TakePayload(w)
  <2>1. InputOf(w) \in Workers
    BY PoolAssumption DEF InputOf, Workers
  <2>2. CASE IterationLimit = 0
    BY <1>3, <2>2 DEF TakePayload
  <2>3. CASE IterationLimit # 0
    <3>1. left[InputOf(w)] - 1 \in Nat
      BY <1>3, <2>1, <2>3 DEF TakePayload, Delivers
    <3> QED
      BY <1>3, <2>1, <2>3, <3>1 DEF TakePayload
  <2> QED
    BY <2>2, <2>3
<1>4. CASE Starve(w)
  BY <1>4 DEF Starve
<1>5. CASE FallAsleep(w)
  BY <1>5 DEF FallAsleep
<1>6. CASE NoDelay(w)
  BY <1>6 DEF NoDelay
<1>7. CASE Wake(w)
  BY <1>7 DEF Wake
<1>8. CASE Skip(w)
  BY <1>0, <1>8 DEF Skip
<1>9. CASE BeginBusy(w)
  BY <1>9 DEF BeginBusy
<1>10. CASE Punch(w)
  BY <1>10 DEF Punch
<1>11. CASE Measure(w)
  BY <1>11 DEF Measure, Counters
<1>12. CASE EndBusy(w)
  BY <1>12 DEF EndBusy
<1>13. CASE PushResult(w)
  <2>1. slot[w].entry \in Nat /\ 0 \in Int
    BY DEF Slots
  <2> QED
    BY <1>13, <2>1 DEF PushResult
<1>14. CASE EndIteration(w)
  BY <1>0, <1>14 DEF EndIteration
<1> QED
  BY <1>1, <1>2, <1>3, <1>4, <1>5, <1>6, <1>7, <1>8, <1>9, <1>10, <1>11,
     <1>12, <1>13, <1>14 DEF WorkerStep

(* So do the steps of everything around the workers.                       *)
LEMMA PoolStepType ==
    ASSUME PoolTypeOK, [PoolNext]_poolVars
    PROVE  PoolTypeOK'
<1> USE DEF PoolTypeOK, PCs, Goto
<1>1. CASE \E w \in Workers : WorkerStep(w)
  BY <1>1, WorkerStepType
<1>2. CASE \E w \in Workers : slot'[w] \in Slots /\ ReceiveSlot(w, slot'[w])
  <2>1. PICK w \in Workers : slot'[w] \in Slots /\ ReceiveSlot(w, slot'[w])
    BY <1>2
  <2>2. slot' = [slot EXCEPT ![w] = slot'[w]] /\ pc' = [pc EXCEPT ![w] = "payload"]
    BY <2>1 DEF ReceiveSlot
  <2>3. slot' \in [Workers -> Slots]
    BY <2>1, <2>2
  <2> QED
    BY <2>1, <2>2, <2>3 DEF ReceiveSlot
<1>3. CASE WriteResult
  BY <1>3 DEF WriteResult
<1>4. CASE SpawnWorker
  <2>1. spawned' \in 0 .. WorkerBound /\ spawned + 1 \in Workers
    BY <1>4, PoolAssumption DEF SpawnWorker, Workers
  <2> QED
    BY <1>4, <2>1 DEF SpawnWorker
<1>5. CASE \E w \in Workers : StopWorker(w)
  BY <1>5 DEF StopWorker
<1>6. CASE Tick
  <2>1. now' \in Nat
    BY <1>6 DEF Tick
  <2> QED
    BY <1>6, <2>1 DEF Tick
<1>7. CASE \E how \in Endings : ProcessEnds(how)
  BY <1>7 DEF ProcessEnds
<1>8. CASE UNCHANGED poolVars
  BY <1>8 DEF poolVars
<1> QED
  BY <1>1, <1>2, <1>3, <1>4, <1>5, <1>6, <1>7, <1>8 DEF PoolNext

(* The types hold at the start.                                            *)
LEMMA PoolInitType == PoolInit => PoolTypeOK
<1>1. Records * IterationLimit \in Nat /\ 0 \in 0 .. WorkerBound
  BY PoolAssumption
<1> QED
  BY <1>1 DEF PoolInit, PoolTypeOK, PCs, Slots, Unscheduled, Counters, Idle

(* Every variable of the pool keeps its type.                              *)
THEOREM PoolTypeCorrect == PoolSpec => []PoolTypeOK
BY PoolInitType, PoolStepType, PTL DEF PoolSpec

-----------------------------------------------------------------------------
(* The counters                                                            *)

(* The workers in a section of Iteration can be counted.                   *)
LEMMA WorkersFinite == \A S : IsFiniteSet(At(S)) /\ Cardinality(At(S)) \in Nat
<1>1. IsFiniteSet(Workers)
  BY FS_Interval, PoolAssumption DEF Workers
<1>2. TAKE S
<1>3. At(S) \subseteq Workers
  BY DEF At
<1> QED
  BY <1>1, <1>3, FS_Subset, FS_CardinalityType

Bit(b) == IF b THEN 1 ELSE 0

(* Moving one worker from one point to another changes the number of       *)
(* workers in a section by what it enters less what it leaves.             *)
LEMMA MoveCounts ==
    ASSUME pc \in [Workers -> PCs], NEW w \in Workers, NEW p, Goto(w, p), NEW S
    PROVE  Cardinality(At(S))' = Cardinality(At(S)) + Bit(p \in S) - Bit(pc[w] \in S)
<1>1. IsFiniteSet(At(S)) /\ Cardinality(At(S)) \in Nat
  BY WorkersFinite
<1>2. \A v \in Workers : pc'[v] = IF v = w THEN p ELSE pc[v]
  BY DEF Goto
<1>3. CASE p \in S /\ pc[w] \in S
  <2>1. At(S)' = At(S)
    BY <1>2, <1>3 DEF At
  <2> QED
    BY <1>1, <1>3, <2>1 DEF Bit
<1>4. CASE p \in S /\ pc[w] \notin S
  <2>1. At(S)' = At(S) \cup {w} /\ w \notin At(S)
    BY <1>2, <1>4 DEF At
  <2>2. Cardinality(At(S) \cup {w}) = Cardinality(At(S)) + 1
    BY <1>1, <2>1, FS_AddElement
  <2> QED
    BY <1>1, <1>4, <2>1, <2>2 DEF Bit
<1>5. CASE p \notin S /\ pc[w] \in S
  <2>1. At(S)' = At(S) \ {w} /\ w \in At(S)
    BY <1>2, <1>5 DEF At
  <2>2. Cardinality(At(S) \ {w}) = Cardinality(At(S)) - 1
    BY <1>1, <2>1, FS_RemoveElement
  <2> QED
    BY <1>1, <1>5, <2>1, <2>2 DEF Bit
<1>6. CASE p \notin S /\ pc[w] \notin S
  <2>1. At(S)' = At(S)
    BY <1>2, <1>6 DEF At
  <2> QED
    BY <1>1, <1>6, <2>1 DEF Bit
<1> QED
  BY <1>3, <1>4, <1>5, <1>6

(* Every step of a worker keeps the counters equal to the sections, and so *)
(* no counter is found below zero.                                         *)
LEMMA WorkerStepCounts ==
    ASSUME PoolTypeOK, CountersExact, NoCounterPanic, NEW w \in Workers, WorkerStep(w)
    PROVE  CountersExact' /\ NoCounterPanic'
<1> DEFINE Moved(p) == \A S : Cardinality(At(S))' = Cardinality(At(S)) + Bit(p \in S) - Bit(pc[w] \in S)
<1>0. /\ pc \in [Workers -> PCs]
      /\ status \in Counters
      /\ \A S : Cardinality(At(S)) \in Nat /\ Cardinality(At(S))' \in Nat
  <2>1. (\A S : IsFiniteSet(At(S)) /\ Cardinality(At(S)) \in Nat)'
    BY WorkersFinite, PTL
  <2> QED
    BY <2>1, WorkersFinite DEF PoolTypeOK
<1> USE DEF CountersExact, NoCounterPanic, PanicIfNegative, Bit, Counters,
            WaitingSection, WorkingSection, SleepingSection, BusySection
<1>1. CASE BeginIteration(w)
  <2>1. Moved("schedule")
    BY <1>0, <1>1, MoveCounts DEF BeginIteration
  <2> QED
    BY <1>0, <1>1, <2>1 DEF BeginIteration, IncWaiting
<1>2. CASE Finish(w)
  <2>1. Moved("finished")
    BY <1>0, <1>2, MoveCounts DEF Finish
  <2> QED
    BY <1>0, <1>2, <2>1 DEF Finish
<1>3. CASE TakePayload(w)
  <2>1. Moved("timed")
    BY <1>0, <1>3, MoveCounts DEF TakePayload
  <2> QED
    BY <1>0, <1>3, <2>1 DEF TakePayload, IncWorking, DecWaiting
<1>4. CASE Starve(w)
  <2>1. Moved("starved")
    BY <1>0, <1>4, MoveCounts DEF Starve
  <2> QED
    BY <1>0, <1>4, <2>1 DEF Starve
<1>5. CASE FallAsleep(w)
  <2>1. Moved("asleep")
    BY <1>0, <1>5, MoveCounts DEF FallAsleep
  <2> QED
    BY <1>0, <1>5, <2>1 DEF FallAsleep, IncSleeping
<1>6. CASE NoDelay(w)
  <2>1. Moved("awake")
    BY <1>0, <1>6, MoveCounts DEF NoDelay
  <2> QED
    BY <1>0, <1>6, <2>1 DEF NoDelay
<1>7. CASE Wake(w)
  <2>1. Moved("awake")
    BY <1>0, <1>7, MoveCounts DEF Wake
  <2> QED
    BY <1>0, <1>7, <2>1 DEF Wake, DecSleeping
<1>8. CASE Skip(w)
  <2>1. Moved("loop")
    BY <1>0, <1>8, MoveCounts DEF Skip
  <2> QED
    BY <1>0, <1>8, <2>1 DEF Skip, DecWorking
<1>9. CASE BeginBusy(w)
  <2>1. Moved("punch")
    BY <1>0, <1>9, MoveCounts DEF BeginBusy
  <2> QED
    BY <1>0, <1>9, <2>1 DEF BeginBusy, IncBusy
<1>10. CASE Punch(w)
  <2>1. Moved("inflight")
    BY <1>0, <1>10, MoveCounts DEF Punch
  <2> QED
    BY <1>0, <1>10, <2>1 DEF Punch
<1>11. CASE Measure(w)
  <2>1. Moved("measured")
    BY <1>0, <1>11, MoveCounts DEF Measure
  <2> QED
    BY <1>0, <1>11, <2>1 DEF Measure
<1>12. CASE EndBusy(w)
  <2>1. Moved("push")
    BY <1>0, <1>12, MoveCounts DEF EndBusy
  <2> QED
    BY <1>0, <1>12, <2>1 DEF EndBusy, DecBusy
<1>13. CASE PushResult(w)
  <2>1. Moved("pushed")
    BY <1>0, <1>13, MoveCounts DEF PushResult
  <2> QED
    BY <1>0, <1>13, <2>1 DEF PushResult
<1>14. CASE EndIteration(w)
  <2>1. Moved("loop")
    BY <1>0, <1>14, MoveCounts DEF EndIteration
  <2> QED
    BY <1>0, <1>14, <2>1 DEF EndIteration, DecWorking
<1> QED
  BY <1>1, <1>2, <1>3, <1>4, <1>5, <1>6, <1>7, <1>8, <1>9, <1>10, <1>11,
     <1>12, <1>13, <1>14 DEF WorkerStep

(* The other steps of the pool touch neither the counters nor the sections; *)
(* a new worker starts outside of all of them.                             *)
LEMMA PoolStepCounts ==
    ASSUME PoolTypeOK, SpawnedRun, CountersExact, NoCounterPanic, [PoolNext]_poolVars
    PROVE  CountersExact' /\ NoCounterPanic'
<1> DEFINE Moved(w, p) == \A S : Cardinality(At(S))' = Cardinality(At(S)) + Bit(p \in S) - Bit(pc[w] \in S)
           Sections == {WaitingSection, WorkingSection, SleepingSection, BusySection}
<1>0. /\ pc \in [Workers -> PCs]
      /\ status \in Counters
      /\ spawned \in 0 .. WorkerBound
      /\ \A S : Cardinality(At(S)) \in Nat
  BY WorkersFinite DEF PoolTypeOK
<1>1. CASE \E w \in Workers : WorkerStep(w)
  BY <1>1, WorkerStepCounts
<1>2. CASE \E w \in Workers : ReceiveSlot(w, slot'[w])
  <2>1. PICK w \in Workers : ReceiveSlot(w, slot'[w])
    BY <1>2
  <2>2. Moved(w, "payload")
    BY <1>0, <2>1, MoveCounts DEF ReceiveSlot
  <2> QED
    BY <1>0, <2>1, <2>2 DEF ReceiveSlot, CountersExact, NoCounterPanic, Counters, Bit,
       WaitingSection, WorkingSection, SleepingSection, BusySection
<1>3. CASE SpawnWorker
  <2>1. spawned + 1 \in Workers /\ ~(spawned + 1 <= spawned)
    BY <1>0, <1>3, PoolAssumption DEF SpawnWorker, Workers
  <2>2. Moved(spawned + 1, "loop")
    BY <1>0, <1>3, <2>1, MoveCounts DEF SpawnWorker
  <2> QED
    BY <1>0, <1>3, <2>1, <2>2 DEF SpawnWorker, SpawnedRun, CountersExact, NoCounterPanic, Counters, Bit,
       WaitingSection, WorkingSection, SleepingSection, BusySection
<1>4. CASE UNCHANGED <<pc, status>> /\ outcome' \in {outcome} \cup Endings
  <2>1. \A S : At(S)' = At(S)
    BY <1>4 DEF At
  <2> QED
    BY <1>4, <2>1 DEF CountersExact, NoCounterPanic, Endings
<1> QED
  BY <1>1, <1>2, <1>3, <1>4 DEF PoolNext, WriteResult, StopWorker, Tick, ProcessEnds, poolVars

(* A worker never goes back to being unborn.                               *)
LEMMA PoolStepRun ==
    ASSUME PoolTypeOK, SpawnedRun, [PoolNext]_poolVars
    PROVE  SpawnedRun'
<1>0. pc \in [Workers -> PCs] /\ spawned \in 0 .. WorkerBound
  BY DEF PoolTypeOK
<1>1. CASE \E w \in Workers : WorkerStep(w)
  <2>1. PICK w \in Workers : WorkerStep(w)
    BY <1>1
  <2>2. /\ UNCHANGED spawned
        /\ pc[w] # "unborn"
        /\ \E p \in PCs \ {"unborn"} : Goto(w, p)
    BY <2>1 DEF WorkerStep, BeginIteration, Finish, TakePayload, Starve, FallAsleep,
       NoDelay, Wake, Skip, BeginBusy, Punch, Measure, EndBusy, PushResult, EndIteration, PCs
  <2> QED
    BY <1>0, <2>2 DEF SpawnedRun, Goto
<1>2. CASE \E w \in Workers : ReceiveSlot(w, slot'[w])
  BY <1>0, <1>2 DEF ReceiveSlot, SpawnedRun, Goto
<1>3. CASE SpawnWorker
  <2>1. pc' = [pc EXCEPT ![spawned + 1] = "loop"] /\ spawned' = spawned + 1
    BY <1>3 DEF SpawnWorker, Goto
  <2>2. SUFFICES ASSUME NEW w \in Workers
                 PROVE  (w <= spawned') <=> (pc'[w] # "unborn")
    BY DEF SpawnedRun
  <2>3. CASE w = spawned + 1
    BY <1>0, <2>1, <2>3 DEF Workers
  <2>4. CASE w # spawned + 1
    <3>1. (w <= spawned + 1) <=> (w <= spawned)
      BY <1>0, <2>4 DEF Workers
    <3> QED
      BY <1>0, <2>1, <2>4, <3>1 DEF SpawnedRun
  <2> QED
    BY <2>3, <2>4
<1>4. CASE UNCHANGED <<pc, spawned>>
  BY <1>4 DEF SpawnedRun
<1> QED
  BY <1>1, <1>2, <1>3, <1>4 DEF PoolNext, WriteResult, StopWorker, Tick, ProcessEnds, poolVars

(* While a hit is in flight, the busy counter counts it and is bounded by  *)
(* the number of workers.                                                  *)
LEMMA BusyBounds ==
    ASSUME PoolTypeOK, SpawnedRun, CountersExact, NEW w \in Workers, pc[w] \in BusySection
    PROVE  status.busy \in 1 .. spawned
<1>1. IsFiniteSet(At(BusySection)) /\ Cardinality(At(BusySection)) \in Nat
  BY WorkersFinite
<1>2. Cardinality(At(BusySection)) # 0
  <2>1. w \in At(BusySection)
    BY DEF At
  <2> QED
    BY <1>1, <2>1, FS_EmptySet
<1>3. Cardinality(At(BusySection)) <= spawned
  <2>1. spawned \in Nat
    BY DEF PoolTypeOK
  <2>2. At(BusySection) \subseteq 1 .. spawned
    BY <2>1 DEF At, BusySection, SpawnedRun, Workers
  <2>3. IsFiniteSet(1 .. spawned) /\ Cardinality(1 .. spawned) = spawned
    BY <2>1, FS_Interval
  <2> QED
    BY <2>2, <2>3, FS_Subset
<1> QED
  BY <1>1, <1>2, <1>3 DEF CountersExact, PoolTypeOK

(* A measured concurrency stays within its bounds until it is pushed, as   *)
(* the pool never shrinks.                                                 *)
LEMMA PoolStepConcurrency ==
    ASSUME PoolTypeOK, SpawnedRun, CountersExact, ConcurrencyMeasured, [PoolNext]_poolVars
    PROVE  ConcurrencyMeasured'
<1>0. /\ pc \in [Workers -> PCs]
      /\ concurrency \in [Workers -> Int]
      /\ spawned \in Nat
  BY DEF PoolTypeOK
<1>1. CASE \E w \in Workers : Measure(w)
  <2>1. PICK w \in Workers : Measure(w)
    BY <1>1
  <2>2. status.busy \in 1 .. spawned
    BY <2>1, BusyBounds DEF Measure, BusySection
  <2> QED
    BY <1>0, <2>1, <2>2 DEF Measure, ConcurrencyMeasured, Goto
<1>2. CASE \E w \in Workers : WorkerStep(w) /\ ~Measure(w)
  <2>1. PICK w \in Workers : WorkerStep(w) /\ ~Measure(w)
    BY <1>2
  <2>2. CASE UNCHANGED concurrency /\ EndBusy(w)
    BY <1>0, <2>2 DEF EndBusy, ConcurrencyMeasured, Goto
  <2>3. CASE ~EndBusy(w)
    <3>1. /\ UNCHANGED spawned
          /\ \A v \in Workers \ {w} : concurrency'[v] = concurrency[v]
          /\ \E p \in PCs \ {"measured", "push"} : Goto(w, p)
      BY <1>0, <2>1, <2>3 DEF WorkerStep, BeginIteration, Finish, TakePayload, Starve,
         FallAsleep, NoDelay, Wake, Skip, BeginBusy, Punch, PushResult, EndIteration, PCs
    <3> QED
      BY <1>0, <3>1 DEF ConcurrencyMeasured, Goto
  <2> QED
    BY <2>1, <2>2, <2>3 DEF EndBusy
<1>3. CASE \E w \in Workers : ReceiveSlot(w, slot'[w])
  BY <1>0, <1>3 DEF ReceiveSlot, ConcurrencyMeasured, Goto
<1>4. CASE SpawnWorker
  BY <1>0, <1>4 DEF SpawnWorker, ConcurrencyMeasured, Goto, Workers
<1>5. CASE UNCHANGED <<pc, concurrency, spawned>>
  BY <1>5 DEF ConcurrencyMeasured
<1> QED
  BY <1>1, <1>2, <1>3, <1>4, <1>5 DEF PoolNext, WriteResult, StopWorker, Tick, ProcessEnds, poolVars

(* The clock only grows, and neither the entry of a worker nor its start   *)
(* time changes between the end of the delay and the end of the iteration. *)
LEMMA PoolStepDue ==
    ASSUME PoolTypeOK, SpawnedRun, DueWhenAwake, NeverEarly, [PoolNext]_poolVars
    PROVE  DueWhenAwake' /\ NeverEarly'
<1>0. /\ pc \in [Workers -> PCs]
      /\ slot \in [Workers -> Slots]
      /\ startTime \in [Workers -> Nat]
      /\ now \in Nat
      /\ \A w \in Workers : slot[w].offset \in Nat
  BY DEF PoolTypeOK, Slots
<1> USE DEF DueWhenAwake, NeverEarly, Goto
<1>1. CASE \E w \in Workers : NoDelay(w) \/ Wake(w) \/ BeginBusy(w)
  BY <1>0, <1>1 DEF NoDelay, Wake, BeginBusy
<1>2. CASE \E w \in Workers : Punch(w)
  <2>1. PICK w \in Workers : Punch(w)
    BY <1>2
  <2>2. slot[w].offset <= now
    BY <2>1 DEF Punch
  <2> QED
    BY <1>0, <2>1, <2>2 DEF Punch
<1>3. CASE \E w \in Workers : Measure(w) \/ EndBusy(w) \/ PushResult(w)
  BY <1>0, <1>3 DEF Measure, EndBusy, PushResult
<1>4. CASE \E w \in Workers : \/ BeginIteration(w) \/ Finish(w) \/ TakePayload(w) \/ Starve(w)
                              \/ FallAsleep(w) \/ Skip(w) \/ EndIteration(w)
                              \/ ReceiveSlot(w, slot'[w])
  <2>1. PICK w \in Workers : \/ BeginIteration(w) \/ Finish(w) \/ TakePayload(w) \/ Starve(w)
                             \/ FallAsleep(w) \/ Skip(w) \/ EndIteration(w)
                             \/ ReceiveSlot(w, slot'[w])
    BY <1>4
  <2>2. /\ UNCHANGED now
        /\ \A v \in Workers \ {w} : slot'[v] = slot[v] /\ startTime'[v] = startTime[v]
        /\ pc'[w] \notin {"awake", "punch", "inflight", "measured", "push", "pushed"}
        /\ \A v \in Workers \ {w} : pc'[v] = pc[v]
    BY <1>0, <2>1 DEF BeginIteration, Finish, TakePayload, Starve, FallAsleep, Skip,
       EndIteration, ReceiveSlot
  <2> QED
    BY <1>0, <2>2
<1>5. CASE SpawnWorker
  <2>1. /\ UNCHANGED <<now, slot, startTime>>
        /\ \A w \in Workers : pc'[w] = pc[w] \/ pc'[w] = "loop"
    BY <1>0, <1>5 DEF SpawnWorker
  <2> QED
    BY <2>1
<1>6. CASE Tick
  BY <1>0, <1>6 DEF Tick
<1>7. CASE UNCHANGED <<pc, slot, startTime, now>>
  BY <1>7
<1> QED
  BY <1>1, <1>2, <1>3, <1>4, <1>5, <1>6, <1>7 DEF PoolNext, WorkerStep, WriteResult,
     StopWorker, ProcessEnds, poolVars

-----------------------------------------------------------------------------
(* The invariant, and what follows from it                                 *)

(* The invariant holds before the first worker is spawned.                 *)
LEMMA PoolInitInv == PoolInit => PoolInv
<1> SUFFICES ASSUME PoolInit PROVE PoolInv
  OBVIOUS
<1>1. PoolTypeOK
  BY PoolInitType
<1>2. \A w \in Workers : pc[w] = "unborn" /\ ~(w <= 0)
  BY DEF PoolInit, Workers
<1>3. CountersExact
  <2>1. /\ At(WaitingSection) = {} /\ At(WorkingSection) = {}
        /\ At(SleepingSection) = {} /\ At(BusySection) = {}
    BY <1>2 DEF At, WaitingSection, WorkingSection, SleepingSection, BusySection
  <2> QED
    BY <2>1, FS_EmptySet DEF PoolInit, CountersExact
<1> QED
  BY <1>1, <1>2, <1>3 DEF PoolInit, PoolInv, SpawnedRun, NoCounterPanic,
     ConcurrencyMeasured, DueWhenAwake, NeverEarly

(* Every step of the pool keeps the invariant.                             *)
LEMMA PoolStepInv == PoolInv /\ [PoolNext]_poolVars => PoolInv'
BY PoolStepType, PoolStepCounts, PoolStepRun, PoolStepConcurrency, PoolStepDue DEF PoolInv

(* The invariant of the pool holds, for every number of workers, however   *)
(* they are spawned, fed and stopped.                                      *)
THEOREM PoolInvariant == PoolSpec => []PoolInv
BY PoolInitInv, PoolStepInv, PTL DEF PoolSpec

(* The counters of Status are exact and their panics unreachable.          *)
THEOREM CountersStayExact == PoolSpec => [](CountersExact /\ NoCounterPanic)
<1>1. PoolInv => CountersExact /\ NoCounterPanic
  BY DEF PoolInv
<1> QED
  BY <1>1, PoolInvariant, PTL

(* No hit starts before its offset.                                        *)
THEOREM HitsAreNeverEarly == PoolSpec => []NeverEarly
<1>1. PoolInv => NeverEarly
  BY DEF PoolInv
<1> QED
  BY <1>1, PoolInvariant, PTL

(* The concurrency of a result lies between one and the number of workers. *)
THEOREM ConcurrencyIsMeasured == PoolSpec => []ConcurrencyMeasured
<1>1. PoolInv => ConcurrencyMeasured
  BY DEF PoolInv
<1> QED
  BY <1>1, PoolInvariant, PTL

(* A hit begins in a worker that has been spawned and is not stopped.      *)
LEMMA HitNeedsLeave ==
    ASSUME PoolTypeOK, SpawnedRun, [PoolNext]_poolVars, NEW w \in Workers,
           pc[w] # "punch", pc'[w] = "punch"
    PROVE  w <= spawned /\ w \notin stopped
<1>1. pc[w] = "awake" /\ w \notin stopped
  <2>0. pc \in [Workers -> PCs]
    BY DEF PoolTypeOK
  <2>1. CASE \E v \in Workers : WorkerStep(v)
    BY <2>0, <2>1 DEF WorkerStep, BeginIteration, Finish, TakePayload, Starve,
       FallAsleep, NoDelay, Wake, Skip, BeginBusy, Punch, Measure, EndBusy, PushResult,
       EndIteration, Goto
  <2>2. CASE SpawnWorker \/ \E v \in Workers : ReceiveSlot(v, slot'[v])
    BY <2>0, <2>2 DEF SpawnWorker, ReceiveSlot, Goto
  <2>3. CASE pc' = pc
    BY <2>3
  <2> QED
    BY <2>1, <2>2, <2>3 DEF PoolNext, WriteResult, StopWorker, Tick, ProcessEnds, poolVars
<1> QED
  BY <1>1 DEF SpawnedRun
=============================================================================
