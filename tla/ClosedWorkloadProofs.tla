------------------------- MODULE ClosedWorkloadProofs -------------------------
(***************************************************************************)
(* Proofs about the closed workload, for every scenario: it implements the *)
(* worker pool, so that what is proved of the pool holds in every closed   *)
(* test; workers are started when they are due, and as many as the levels  *)
(* ask for; and without a signal the scenario runs in full.                *)
(***************************************************************************)
EXTENDS ClosedWorkload, WorkerPoolProofs, ClosedScheduleProofs

-----------------------------------------------------------------------------
(* The pool                                                                *)

(* What the steps of the pool need: its types, and that Stop has not gone  *)
(* beyond the list of workers.                                             *)
StopInv == PoolTypeOK /\ stopping \in 0 .. spawned

(* As far as the pool is concerned the closed workload takes only steps of *)
(* the pool.                                                               *)
LEMMA ClosedPoolStep ==
    ASSUME StopInv, [Next]_vars
    PROVE  [PoolNext]_poolVars
<1>0. /\ spawned \in 0 .. WorkerBound
      /\ stopping \in 0 .. spawned
      /\ slot \in [Workers -> Slots]
      /\ Unscheduled \in Slots
  BY DEF StopInv, PoolTypeOK, Slots, Unscheduled
<1>1. ASSUME outcome = "running", RunStep
      PROVE  [PoolNext]_poolVars
  <2>1. CASE SpawnWorker \/ UNCHANGED poolVars
    BY <1>1, <2>1 DEF PoolNext
  <2> QED
    BY <1>1, <2>1 DEF RunStep, StartRun, NextOffset, DelayOver, DelayInterrupted,
       StartWorker, StartFinalWait, FinalWaitOver, FinalWaitInterrupted
<1>2. ASSUME outcome = "running", WindDownStep
      PROVE  [PoolNext]_poolVars
  <2>1. CASE StopNextWorker
    <3>1. stopping + 1 \in Workers
      BY <1>0, <2>1, PoolAssumption DEF StopNextWorker, Workers
    <3> QED
      BY <1>2, <2>1, <3>1 DEF StopNextWorker, PoolNext
  <2>2. CASE MainReturns
    BY <1>2, <2>2 DEF MainReturns, PoolNext, Endings
  <2>3. CASE UNCHANGED poolVars
    BY <2>3
  <2> QED
    BY <1>2, <2>1, <2>2, <2>3 DEF WindDownStep, WindDown, StopReturns, RunReturns, CloseOutput
<1>3. ASSUME outcome = "running", NEW w \in Workers, WorkerAction(w)
      PROVE  [PoolNext]_poolVars
  <2>1. CASE WorkerStep(w)
    BY <1>3, <2>1 DEF PoolNext
  <2>2. CASE ReceiveZero(w)
    BY <1>0, <1>3, <2>2 DEF ReceiveZero, ReceiveSlot, PoolNext
  <2> QED
    BY <1>3, <2>1, <2>2 DEF WorkerAction
<1>4. ASSUME outcome = "running", Background \/ Interrupt \/ SignalStep \/ Clock
      PROVE  [PoolNext]_poolVars
  BY <1>4 DEF Background, Interrupt, SignalStep, SignalBeforeRun, InterruptReturns,
     Clock, PoolNext, Endings
<1>5. CASE UNCHANGED vars
  BY <1>5 DEF vars, poolVars
<1> QED
  BY <1>1, <1>2, <1>3, <1>4, <1>5 DEF Next, Terminated

(* Stop walks over the workers that there are, and none is spawned while   *)
(* it does.                                                                *)
LEMMA ClosedStopStep ==
    ASSUME StopInv, [Next]_vars
    PROVE  StopInv'
<1>1. [PoolNext]_poolVars
  BY ClosedPoolStep
<1>2. PoolTypeOK'
  BY <1>1, PoolStepType DEF StopInv
<1>3. spawned \in Nat /\ stopping \in 0 .. spawned
  BY DEF StopInv, PoolTypeOK
<1>4. spawned' = spawned \/ spawned' = spawned + 1
  BY <1>1 DEF PoolNext, WorkerStep, BeginIteration, Finish, ReceiveSlot, TakePayload, Starve,
     FallAsleep, NoDelay, Wake, Skip, BeginBusy, Punch, Measure, EndBusy, PushResult,
     EndIteration, WriteResult, SpawnWorker, StopWorker, Tick, ProcessEnds, poolVars
<1>5. stopping' = stopping \/ (stopping' = stopping + 1 /\ stopping < spawned)
  BY DEF Next, RunStep, StartRun, NextOffset, DelayOver, DelayInterrupted, StartWorker,
     StartFinalWait, FinalWaitOver, FinalWaitInterrupted, WindDownStep, WindDown,
     StopNextWorker, StopReturns, RunReturns, CloseOutput, MainReturns, WorkerAction,
     Background, Interrupt, SignalStep, SignalBeforeRun, InterruptReturns, SignalArrives,
     Clock, Terminated, vars, processVars
<1>6. stopping' \in 0 .. spawned'
  BY <1>3, <1>4, <1>5
<1> QED
  BY <1>2, <1>6 DEF StopInv

(* The closed workload implements the worker pool.                         *)
THEOREM ClosedImplementsPool == Spec => PoolSpec
<1>1. Init => PoolInit
  BY DEF Init
<1>2. Init => StopInv
  <2>1. Init => stopping \in 0 .. spawned
    BY DEF Init, PoolInit, ProcessInit
  <2> QED
    BY <1>1, <2>1, PoolInitType DEF StopInv
<1>3. StopInv /\ [Next]_vars => StopInv'
  BY ClosedStopStep
<1>4. StopInv /\ [Next]_vars => [PoolNext]_poolVars
  BY ClosedPoolStep
<1> QED
  BY <1>1, <1>2, <1>3, <1>4, PTL DEF Spec, PoolSpec

(* So the counters of Status are exact in every closed test as well, their *)
(* panics are unreachable and the reported concurrency is within bounds.   *)
THEOREM ClosedPoolInvariant == Spec => [](CountersExact /\ NoCounterPanic /\ ConcurrencyMeasured)
<1>1. PoolInv => CountersExact /\ NoCounterPanic /\ ConcurrencyMeasured
  BY DEF PoolInv
<1> QED
  BY <1>1, ClosedImplementsPool, PoolInvariant, PTL

-----------------------------------------------------------------------------
(* Types                                                                   *)

(* The numbers of the schedule.                                            *)
LEMMA ScheduleFacts ==
    ASSUME scenario \in Scenarios
    PROVE  /\ Offsets \in Seq(Nat) /\ Len(Offsets) \in Nat /\ Total \in Nat
           /\ \A i \in 1 .. Len(Offsets) : Offsets[i] \in Nat /\ Offsets[1] \in Nat
                                           /\ Offsets[1] <= Offsets[i]
<1>1. scenario \in Seq(Levels)
  BY ScenarioAssumption
<1>2. /\ Offsets \in Seq(Nat)
      /\ \A i, j \in 1 .. Len(Offsets) : i <= j => Offsets[i] <= Offsets[j]
  BY <1>1, OffsetsInOrder DEF Offsets
<1>3. Total \in Nat
  BY <1>1, DurationType DEF Total
<1> HIDE DEF Offsets, Total
<1>4. Len(Offsets) \in Nat /\ \A i \in 1 .. Len(Offsets) : Offsets[i] \in Nat
  BY <1>2, LenProperties, ElementOfSeq
<1>5. \A i \in 1 .. Len(Offsets) : 1 \in 1 .. Len(Offsets) /\ 1 <= i
  BY <1>4
<1> QED
  BY <1>2, <1>3, <1>4, <1>5

(* Where Run stands in the schedule: it has spawned a worker for every     *)
(* offset it has received, but the one in hand, which it counts from the   *)
(* first and waits for.  Nothing but a signal cuts a sleep short, so       *)
(* without one Run comes to Stop when all is spawned and the time is over. *)
StartInv ==
    /\ subInitial = IF sent = 0 THEN -1 ELSE Offsets[1]
    /\ ctl \in {"setup", "range", "final"} => spawned = sent
    /\ ctl \in {"delayed", "spawn"} =>
         spawned + 1 = sent /\ due = Offsets[sent] - Offsets[1]
    /\ ctl = "spawn" => due <= now
    /\ ctl = "final" => AllSent
    /\ handler = "idle" => ~interrupt /\ ~gotSignal
    /\ handler = "idle" /\ ctl \in {"stopping"} \cup AfterStop =>
         spawned = sent /\ AllSent /\ Total <= now
    /\ outcome = "returned" => ctl = "output_closed"

(* Most steps leave the schedule alone; the offsets never change.          *)
LEMMA ScenarioKept ==
    ASSUME [Next]_vars
    PROVE  scenario' = scenario /\ Offsets' = Offsets /\ Total' = Total
<1>1. scenario' = scenario
  BY DEF Next, RunStep, StartRun, NextOffset, DelayOver, DelayInterrupted, StartWorker,
     StartFinalWait, FinalWaitOver, FinalWaitInterrupted, SendStart, WindDownStep, WorkerAction,
     Background, Interrupt, SignalStep, Clock, Terminated, vars, closedSchedVars
<1> QED
  BY <1>1 DEF Offsets, Total

(* The receive of an offset.                                               *)
LEMMA NextOffsetStarts ==
    ASSUME TypeOK, StartInv, NextOffset
    PROVE  /\ sent' = sent + 1 /\ sent' \in 1 .. Len(Offsets)
           /\ subInitial' = Offsets[1]
           /\ due' = Offsets[sent'] - Offsets[1] /\ due' \in Nat
<1>0. /\ sent \in Nat /\ sent' = sent + 1 /\ sent' \in 1 .. Len(Offsets)
      /\ scenario' = scenario /\ Offsets' = Offsets
  BY ScheduleFacts DEF NextOffset, SendStart, TypeOK, ClosedScheduleTypeOK, Offsets
<1>1. Offsets[sent'] \in Nat /\ Offsets[1] \in Nat /\ Offsets[1] <= Offsets[sent']
  BY <1>0, ScheduleFacts DEF TypeOK, ClosedScheduleTypeOK
<1>2. /\ subInitial' = IF subInitial < 0 THEN Offsets[sent'] ELSE subInitial
      /\ due' = Offsets[sent'] - subInitial'
  BY DEF NextOffset
<1>3. subInitial = IF sent = 0 THEN -1 ELSE Offsets[1]
  BY DEF StartInv
<1> HIDE DEF Offsets
<1>4. subInitial' = Offsets[1]
  <2>1. CASE sent = 0
    BY <1>0, <1>2, <1>3, <2>1
  <2>2. CASE sent # 0
    BY <1>1, <1>2, <1>3, <2>2
  <2> QED
    BY <2>1, <2>2
<1> QED
  BY <1>0, <1>1, <1>2, <1>4

(* Every step keeps the types.                                             *)
LEMMA ClosedTypeStep ==
    ASSUME TypeOK, StartInv, [Next]_vars
    PROVE  TypeOK'
<1>1. PoolTypeOK' /\ stopping' \in 0 .. spawned'
  BY ClosedStopStep DEF TypeOK, StopInv
<1>2. scenario' = scenario /\ Offsets' = Offsets
  BY ScenarioKept
<1>3. /\ ctl' \in {"setup", "range", "delayed", "spawn", "final", "stopping"} \cup AfterStop
      /\ done' \in BOOLEAN /\ outputOpen' \in BOOLEAN
      /\ handler' \in {"idle", "waiting"}
      /\ interrupt' \in BOOLEAN /\ gotSignal' \in BOOLEAN
  <2>0. /\ ctl \in {"setup", "range", "delayed", "spawn", "final", "stopping"} \cup AfterStop
        /\ done \in BOOLEAN /\ outputOpen \in BOOLEAN
        /\ handler \in {"idle", "waiting"}
        /\ interrupt \in BOOLEAN /\ gotSignal \in BOOLEAN
    BY DEF TypeOK
  <2>1. CASE StartRun \/ NextOffset \/ DelayOver \/ DelayInterrupted
    BY <2>0, <2>1 DEF StartRun, NextOffset, DelayOver, DelayInterrupted, closedVars
  <2>2. CASE StartWorker \/ StartFinalWait \/ FinalWaitOver \/ FinalWaitInterrupted
    BY <2>0, <2>2 DEF StartWorker, StartFinalWait, FinalWaitOver, FinalWaitInterrupted, closedVars
  <2>3. CASE WindDownStep
    BY <2>0, <2>3 DEF WindDownStep, WindDown, StopNextWorker, StopReturns, RunReturns, CloseOutput,
       MainReturns, AfterStop, AfterRun, processVars, closedVars
  <2>4. CASE Interrupt \/ SignalStep
    BY <2>0, <2>4 DEF Interrupt, SignalArrives, SignalStep, SignalBeforeRun, InterruptReturns,
       processVars, closedVars
  <2>5. CASE UNCHANGED <<processVars, closedVars>>
    BY <2>0, <2>5 DEF processVars, closedVars
  <2>6. (\E w \in Workers : WorkerAction(w)) \/ Background \/ Clock \/ UNCHANGED vars
            => UNCHANGED <<processVars, closedVars>>
    BY DEF WorkerAction, Background, Clock, vars
  <2> QED
    BY <2>1, <2>2, <2>3, <2>4, <2>5, <2>6 DEF Next, RunStep, Terminated
<1>4. sent' \in 0 .. Len(Offsets) /\ subInitial' \in Nat \cup {-1} /\ due' \in Nat
  <2>1. CASE NextOffset
    BY <2>1, NextOffsetStarts, ScheduleFacts DEF TypeOK, ClosedScheduleTypeOK
  <2>2. CASE ~NextOffset
    <3>1. UNCHANGED <<sent, subInitial, due>>
      BY <2>2 DEF Next, RunStep, StartRun, DelayOver,
         DelayInterrupted, StartWorker, StartFinalWait, FinalWaitOver, FinalWaitInterrupted,
         WindDownStep, WorkerAction, Background, Interrupt, SignalStep, Clock, Terminated, vars,
         closedVars, closedSchedVars
    <3> QED
      BY <3>1 DEF TypeOK, ClosedScheduleTypeOK
  <2> QED
    BY <2>1, <2>2
<1> QED
  BY <1>1, <1>2, <1>3, <1>4 DEF TypeOK, ClosedScheduleTypeOK

(* The initial state has them.                                             *)
LEMMA ClosedInitType == Init => TypeOK /\ StartInv
<1> SUFFICES ASSUME Init PROVE TypeOK /\ StartInv
  OBVIOUS
<1>1. PoolTypeOK
  BY PoolInitType DEF Init
<1>2. scenario \in Scenarios /\ sent = 0 /\ spawned = 0
  BY DEF Init, ClosedScheduleInit, PoolInit
<1>3. Offsets \in Seq(Nat) /\ Len(Offsets) \in Nat
  BY <1>2, ScheduleFacts
<1>4. /\ sent = 0 /\ subInitial = -1 /\ due = 0
      /\ stopping = 0 /\ done = FALSE /\ outputOpen = TRUE /\ ctl = "setup"
      /\ handler = "idle" /\ interrupt = FALSE /\ gotSignal = FALSE
      /\ now = 0 /\ outcome = "running"
  BY DEF Init, PoolInit, ProcessInit, ClosedScheduleInit
<1> HIDE DEF Offsets
<1>5. ClosedScheduleTypeOK
  BY <1>2, <1>3, <1>4 DEF ClosedScheduleTypeOK
<1>6. TypeOK
  <2>1. stopping \in 0 .. spawned
    BY <1>2, <1>4
  <2>2. subInitial \in Nat \cup {-1} /\ due \in Nat
    BY <1>4
  <2> QED
    BY <1>1, <1>4, <1>5, <2>1, <2>2 DEF TypeOK
<1>7. StartInv
  BY <1>2, <1>3, <1>4 DEF StartInv, AfterRun, AfterStop
<1> QED
  BY <1>6, <1>7

-----------------------------------------------------------------------------
(* The start of the workers, and the length of a run                       *)

(* Every step keeps the place of Run in the schedule.                      *)
LEMMA StartStep ==
    ASSUME TypeOK, StartInv, [Next]_vars
    PROVE  StartInv'
<1>0. /\ Offsets' = Offsets /\ Total' = Total
      /\ sent \in Nat /\ spawned \in Nat /\ now \in Nat /\ due \in Nat /\ Total \in Nat
      /\ scenario \in Scenarios
  BY ScenarioKept, ScheduleFacts DEF TypeOK, ClosedScheduleTypeOK, PoolTypeOK
<1>1. CASE NextOffset
  <2>1. /\ ctl = "range" /\ ctl' = (IF due' > now THEN "delayed" ELSE "spawn")
        /\ UNCHANGED <<spawned, now, outcome, interrupt, gotSignal, handler>>
    BY <1>1 DEF NextOffset, poolVars
  <2>2. /\ sent' = sent + 1 /\ subInitial' = Offsets[1]
        /\ due' = Offsets[sent'] - Offsets[1] /\ due' \in Nat
    BY <1>1, NextOffsetStarts
  <2> HIDE DEF Offsets
  <2>3. /\ spawned + 1 = sent' /\ sent' # 0
        /\ ctl' = "spawn" => due' <= now
        /\ ctl' \in {"delayed", "spawn"}
    BY <1>0, <2>1, <2>2 DEF StartInv
  <2> QED
    BY <1>0, <2>1, <2>2, <2>3 DEF StartInv, AfterStop, AfterRun
<1>2. CASE StartWorker
  <2>1. /\ ctl = "spawn" /\ ctl' = "range" /\ spawned' = spawned + 1
        /\ UNCHANGED <<sent, subInitial, due, now, outcome, interrupt, gotSignal, handler>>
    BY <1>2 DEF StartWorker, SpawnWorker, closedVars, closedSchedVars
  <2> HIDE DEF Offsets
  <2> QED
    BY <1>0, <2>1 DEF StartInv, AfterStop, AfterRun
<1>3. CASE DelayOver
  <2>1. /\ ctl = "delayed" /\ due <= now /\ ctl' = "spawn"
        /\ UNCHANGED <<spawned, sent, subInitial, due, now, outcome, interrupt, gotSignal, handler>>
    BY <1>3 DEF DelayOver, poolVars, closedVars, closedSchedVars
  <2> HIDE DEF Offsets
  <2> QED
    BY <1>0, <2>1 DEF StartInv, AfterStop, AfterRun
<1>4. CASE DelayInterrupted \/ FinalWaitInterrupted
  <2>1. /\ ctl' = "stopping" /\ interrupt /\ ctl \in {"delayed", "final"}
        /\ UNCHANGED <<spawned, sent, subInitial, due, now, outcome, handler>>
    BY <1>4 DEF DelayInterrupted, FinalWaitInterrupted, poolVars, closedSchedVars
  <2> HIDE DEF Offsets
  <2> QED
    BY <1>0, <2>1 DEF StartInv
<1>5. CASE StartFinalWait \/ FinalWaitOver
  <2>1. /\ ctl \in {"range", "final"}
        /\ UNCHANGED <<spawned, sent, subInitial, due, now, outcome, handler, interrupt, gotSignal>>
    BY <1>5 DEF StartFinalWait, FinalWaitOver, poolVars, closedVars, closedSchedVars
  <2>2. AllSent /\ spawned = sent
    BY <1>5 DEF StartFinalWait, FinalWaitOver, StartInv
  <2>3. \/ ctl' = "final"
        \/ ctl' = "stopping" /\ (handler = "idle" => Total <= now)
    BY <1>0, <1>5 DEF StartFinalWait, FinalWaitOver, StartInv
  <2>4. AllSent'
    BY <1>0, <2>1, <2>2 DEF AllSent
  <2> HIDE DEF Offsets
  <2> QED
    BY <1>0, <2>1, <2>2, <2>3, <2>4 DEF StartInv, AfterStop, AfterRun
<1>6. CASE StartRun
  <2>1. /\ ctl = "setup" /\ ctl' = "range"
        /\ UNCHANGED <<spawned, sent, subInitial, due, now, outcome, interrupt, gotSignal, handler>>
    BY <1>6 DEF StartRun, poolVars, closedVars, closedSchedVars
  <2> HIDE DEF Offsets
  <2> QED
    BY <1>0, <2>1 DEF StartInv, AfterStop, AfterRun
<1>7. CASE WindDownStep
  <2>1. /\ ctl \in {"stopping"} \cup AfterStop /\ ctl' \in {"stopping"} \cup AfterStop
        /\ UNCHANGED <<spawned, sent, subInitial, due, now, interrupt, gotSignal, handler>>
        /\ outcome' = outcome \/ ctl' = "output_closed"
        /\ ctl = "output_closed" => ctl' = "output_closed"
    BY <1>7 DEF WindDownStep, WindDown, StopNextWorker, StopWorker, StopReturns, RunReturns,
       CloseOutput, MainReturns, ProcessEnds, poolVars, processVars, closedVars, closedSchedVars,
       AfterStop, AfterRun
  <2>2. ctl' \notin {"setup", "range", "final", "delayed", "spawn"}
    BY <2>1 DEF AfterStop, AfterRun
  <2>3. AllSent => AllSent'
    BY <1>0, <2>1 DEF AllSent
  <2> HIDE DEF Offsets
  <2> QED
    BY <1>0, <2>1, <2>2, <2>3 DEF StartInv
<1>8. CASE /\ UNCHANGED <<ctl, spawned, sent, subInitial, due>>
           /\ now' \in {now, now + 1}
           /\ outcome' = "returned" => outcome = "returned"
           /\ \/ UNCHANGED <<handler, interrupt, gotSignal>>
              \/ handler' = "waiting"
  <2>1. AllSent => AllSent'
    BY <1>0, <1>8 DEF AllSent
  <2>2. \A n \in Nat : n <= now => n <= now'
    BY <1>0, <1>8
  <2>3. handler' = "idle" => handler = "idle" /\ UNCHANGED <<interrupt, gotSignal>>
    BY <1>8
  <2> HIDE DEF Offsets
  <2> QED
    BY <1>0, <1>8, <2>1, <2>2, <2>3 DEF StartInv
<1>9. CASE \E w \in Workers : WorkerAction(w)
  <2>1. /\ UNCHANGED <<ctl, spawned, sent, subInitial, due, now, handler, interrupt, gotSignal>>
        /\ outcome' = "returned" => outcome = "returned"
    BY <1>9 DEF WorkerAction, ReceiveZero, ReceiveSlot, WorkerStep, BeginIteration, Finish,
       TakePayload, Starve, FallAsleep, NoDelay, Wake, Skip, BeginBusy, Punch, Measure, EndBusy,
       PushResult, EndIteration, PanicIfNegative, processVars, closedVars, closedSchedVars
  <2> QED
    BY <1>8, <2>1
<1>10. CASE Background \/ Clock \/ Interrupt \/ SignalStep \/ UNCHANGED vars
  <2>1. /\ UNCHANGED <<ctl, spawned, sent, subInitial, due>>
        /\ now' \in {now, now + 1}
        /\ outcome' = "returned" => outcome = "returned"
        /\ \/ UNCHANGED <<handler, interrupt, gotSignal>>
           \/ handler' = "waiting"
    BY <1>10 DEF Background, WriteResult, Clock, Tick, Interrupt, SignalArrives, SignalStep,
       SignalBeforeRun, InterruptReturns, ProcessEnds, vars, poolVars, processVars, closedVars,
       closedSchedVars
  <2> QED
    BY <1>8, <2>1
<1> QED
  BY <1>1, <1>2, <1>3, <1>4, <1>5, <1>6, <1>7, <1>9, <1>10 DEF Next, RunStep, Terminated

(* The closed workload keeps its types, for every scenario: no offset is   *)
(* negative, also counted from the first one.                              *)
THEOREM ClosedTypeCorrect == Spec => [](TypeOK /\ StartInv)
<1>1. TypeOK /\ StartInv /\ [Next]_vars => (TypeOK /\ StartInv)'
  BY ClosedTypeStep, StartStep
<1> QED
  BY <1>1, ClosedInitType, PTL DEF Spec

(* Without a signal no run ends before its scenario is over and all of its *)
(* workers have been started, however the sleeps of Run fall.              *)
THEOREM ClosedRunsInFull == Spec => []RunsInFull
<1>1. TypeOK /\ StartInv => RunsInFull
  BY ScheduleFacts DEF StartInv, RunsInFull, AllSent, AfterStop, AfterRun, TypeOK, PoolTypeOK,
     ClosedScheduleTypeOK
<1> QED
  BY <1>1, ClosedTypeCorrect, PTL

(* The schedule that Run goes through follows the levels of the scenario.  *)
THEOREM ClosedFollowsLevels == Spec => []StartsFollowLevels
<1>1. TypeOK /\ StartInv => StartsFollowLevels
  BY SupportedFollowed DEF TypeOK, ClosedScheduleTypeOK
<1> QED
  BY <1>1, ClosedTypeCorrect, PTL

(* Workers are started one for each offset, in order, and never before the *)
(* scenario has come to them.                                              *)
THEOREM ClosedStartedWhenDue == Spec => StartedWhenDue
<1>1. TypeOK /\ StartInv /\ [Next]_vars =>
          [spawned' > spawned =>
             /\ spawned' = sent
             /\ now >= Offsets[spawned'] - Offsets[1]]_<<poolVars, closedSchedVars>>
  <2> SUFFICES ASSUME TypeOK, StartInv, [Next]_vars, spawned' > spawned
               PROVE  spawned' = sent /\ now >= Offsets[spawned'] - Offsets[1]
    OBVIOUS
  <2>0. spawned \in Nat /\ now \in Nat /\ due \in Nat
    BY DEF TypeOK, PoolTypeOK
  <2>1. ASSUME spawned' = spawned PROVE FALSE
    BY <2>0, <2>1
  <2>2. StartWorker
    BY <2>1 DEF Next, RunStep, StartRun, NextOffset, DelayOver, DelayInterrupted,
       StartFinalWait, FinalWaitOver, FinalWaitInterrupted, WindDownStep, WindDown, StopNextWorker,
       StopWorker, StopReturns, RunReturns, CloseOutput, MainReturns, WorkerAction, ReceiveZero,
       ReceiveSlot, WorkerStep, BeginIteration, Finish, TakePayload, Starve, FallAsleep, NoDelay,
       Wake, Skip, BeginBusy, Punch, Measure, EndBusy, PushResult, EndIteration, Background,
       WriteResult, Interrupt, SignalStep, SignalBeforeRun, InterruptReturns, ProcessEnds, Clock,
       Tick, Terminated, vars, poolVars
  <2>3. ctl = "spawn" /\ spawned' = spawned + 1
    BY <2>2 DEF StartWorker, SpawnWorker
  <2> HIDE DEF Offsets
  <2>4. spawned' = sent /\ due = Offsets[sent] - Offsets[1] /\ due <= now
    BY <2>3 DEF StartInv
  <2> QED
    BY <2>0, <2>4
<1> QED
  BY <1>1, ClosedTypeCorrect, PTL DEF Spec, StartedWhenDue

-----------------------------------------------------------------------------
(* The end of a run                                                        *)

(* Stop has told the workers it has passed, and all of them once it has    *)
(* returned.                                                               *)
ToldInv ==
    /\ ctl = "stopping" => 1 .. stopping \subseteq stopped
    /\ ctl \in AfterStop => 1 .. spawned \subseteq stopped
    /\ ctl \notin {"stopping"} \cup AfterStop => stopping = 0

(* None is spawned behind Stop, and no flag is ever taken back.            *)
LEMMA ToldStep ==
    ASSUME StopInv, ToldInv, [Next]_vars
    PROVE  ToldInv'
<1>0. spawned \in Nat /\ stopping \in Nat
  BY DEF StopInv, PoolTypeOK
<1>1. CASE RunStep
  <2>1. /\ UNCHANGED <<stopping, stopped>>
        /\ ctl \notin {"stopping"} \cup AfterStop
        /\ ctl' \notin AfterStop
    BY <1>1 DEF RunStep, StartRun, NextOffset, DelayOver, DelayInterrupted, StartWorker,
       StartFinalWait, FinalWaitOver, FinalWaitInterrupted, SpawnWorker, poolVars, AfterStop,
       AfterRun
  <2> QED
    BY <2>1 DEF ToldInv
<1>2. CASE WindDownStep
  <2>1. CASE StopNextWorker
    <3>1. /\ ctl = "stopping" /\ ctl' = ctl /\ stopping' = stopping + 1
          /\ stopped' = stopped \cup {stopping + 1} /\ "stopping" \notin AfterStop
      BY <2>1 DEF StopNextWorker, StopWorker, AfterStop, AfterRun
    <3>2. \A w \in 1 .. stopping + 1 : w \in 1 .. stopping \/ w = stopping + 1
      BY <1>0
    <3> QED
      BY <1>0, <3>1, <3>2 DEF ToldInv
  <2>2. CASE StopReturns
    <3>1. /\ ctl = "stopping" /\ stopping = spawned /\ ctl' = "stopped"
          /\ UNCHANGED <<stopping, spawned, stopped>>
      BY <2>2 DEF StopReturns, poolVars
    <3> QED
      BY <3>1 DEF ToldInv, AfterStop
  <2>3. CASE RunReturns \/ CloseOutput \/ MainReturns
    BY <2>3 DEF RunReturns, CloseOutput, MainReturns, ProcessEnds, poolVars, processVars,
       ToldInv, AfterStop, AfterRun
  <2> QED
    BY <1>2, <2>1, <2>2, <2>3 DEF WindDownStep, WindDown
<1>3. CASE UNCHANGED <<ctl, stopping, spawned, stopped>>
  BY <1>3 DEF ToldInv
<1>4. ASSUME ~RunStep, ~WindDownStep
      PROVE  UNCHANGED <<ctl, stopping, spawned, stopped>>
  BY <1>4 DEF Next, WorkerAction, ReceiveZero, ReceiveSlot, WorkerStep,
     BeginIteration, Finish, TakePayload, Starve, FallAsleep, NoDelay, Wake, Skip, BeginBusy,
     Punch, Measure, EndBusy, PushResult, EndIteration, Background, WriteResult, Interrupt,
     SignalArrives, SignalStep, SignalBeforeRun, InterruptReturns, ProcessEnds, Clock, Tick,
     Terminated, vars, poolVars, processVars
<1> QED
  BY <1>1, <1>2, <1>3, <1>4

(* Once Stop has returned no worker starts another hit, whether the        *)
(* scenario was over or a signal cut it short.                             *)
THEOREM ClosedQuietAfterStop == Spec => QuietAfterStop
<1>1. Init => ToldInv
  BY DEF Init, ProcessInit, ToldInv, AfterStop, AfterRun
<1>2. StopInv /\ ToldInv /\ [Next]_vars => ToldInv'
  BY ToldStep
<1>3. StopInv /\ ToldInv /\ SpawnedRun /\ [Next]_vars =>
          [(ctl \in AfterStop) => \A w \in Workers : ~StartsHit(w)]_pc
  <2> SUFFICES ASSUME StopInv, ToldInv, SpawnedRun, [Next]_vars, ctl \in AfterStop,
                      NEW w \in Workers, StartsHit(w)
               PROVE  FALSE
    OBVIOUS
  <2>1. w <= spawned /\ w \notin stopped
    BY ClosedPoolStep, HitNeedsLeave DEF StartsHit, StopInv
  <2> QED
    BY <2>1 DEF ToldInv, Workers, StopInv, PoolTypeOK
<1>4. Spec => []SpawnedRun
  <2>1. PoolInv => SpawnedRun
    BY DEF PoolInv
  <2> QED
    BY <2>1, ClosedImplementsPool, PoolInvariant, PTL
<1>5. TypeOK => StopInv
  BY DEF TypeOK, StopInv
<1> QED
  BY <1>1, <1>2, <1>3, <1>4, <1>5, ClosedTypeCorrect, PTL DEF Spec, QuietAfterStop
=============================================================================
