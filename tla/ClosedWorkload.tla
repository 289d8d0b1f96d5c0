---------------------------- MODULE ClosedWorkload ----------------------------
(***************************************************************************)
(* The closed workload (pkg/scenario/closed.go): Run starts the workers at *)
(* the offsets of ClosedSchedule, lets them hit as fast as they can until  *)
(* the scenario is over, and stops them.  A signal cuts its two sleeps     *)
(* short through the channel interrupt.                                    *)
(***************************************************************************)
EXTENDS BaseWorkload, ClosedSchedule

VARIABLES
    interrupt,   \* the channel interrupt, of capacity 1, holds a value
    gotSignal,   \* the local gotSignal of Run
    subInitial,  \* the local subInitial of Run: the first offset, or -1
    due          \* when the worker that Run is about to start is due

closedVars == <<interrupt, gotSignal, subInitial, due>>
vars == <<poolVars, processVars, closedSchedVars, closedVars>>

Init ==
    /\ PoolInit
    /\ ProcessInit
    /\ ClosedScheduleInit
    /\ interrupt = FALSE
    /\ gotSignal = FALSE
    /\ subInitial = -1
    /\ due = 0

Total == DurationOf(scenario)

-----------------------------------------------------------------------------
(* The main goroutine, from main.Run to the end of ClosedWorkload.Run.     *)
StartRun ==
    /\ ctl = "setup"
    /\ ctl' = "range"
    /\ UNCHANGED <<poolVars, closedSchedVars, closedVars, stopping, done, handler, outputOpen>>

(* Mutants: the first offset and the next are exchanged; and Run does not  *)
(* sleep.                                                                  *)
NextOffset_Exchanged ==
    /\ ctl = "range"
    /\ SendStart
    /\ subInitial' = IF subInitial < 0 THEN Offsets[sent'] ELSE subInitial
    /\ due' = subInitial' - Offsets[sent']
    /\ ctl' = IF due' > now THEN "delayed" ELSE "spawn"
    /\ UNCHANGED <<poolVars, interrupt, gotSignal, stopping, done, handler, outputOpen>>

NextOffset_NoSleep ==
    /\ ctl = "range"
    /\ SendStart
    /\ subInitial' = IF subInitial < 0 THEN Offsets[sent'] ELSE subInitial
    /\ due' = Offsets[sent'] - subInitial'
    /\ ctl' = "spawn"
    /\ UNCHANGED <<poolVars, interrupt, gotSignal, stopping, done, handler, outputOpen>>

(* The next offset, counted from the first one; Run sleeps if it is ahead  *)
(* of the clock.                                                           *)
NextOffset ==
    /\ ctl = "range"
    /\ SendStart
    /\ subInitial' = IF subInitial < 0 THEN Offsets[sent'] ELSE subInitial
    /\ due' = Offsets[sent'] - subInitial'
    /\ ctl' = IF due' > now THEN "delayed" ELSE "spawn"
    /\ UNCHANGED <<poolVars, interrupt, gotSignal, stopping, done, handler, outputOpen>>

DelayOver ==
    /\ ctl = "delayed" /\ due <= now
    /\ ctl' = "spawn"
    /\ UNCHANGED <<poolVars, closedSchedVars, closedVars, stopping, done, handler, outputOpen>>

DelayInterrupted ==
    /\ ctl = "delayed" /\ interrupt
    /\ interrupt' = FALSE
    /\ gotSignal' = TRUE
    /\ ctl' = "stopping"
    /\ UNCHANGED <<poolVars, closedSchedVars, subInitial, due, stopping, done, handler, outputOpen>>

StartWorker ==
    /\ ctl = "spawn"
    /\ SpawnWorker
    /\ ctl' = "range"
    /\ UNCHANGED <<closedSchedVars, closedVars, stopping, done, handler, outputOpen>>

(* Mutant: the end is the start of the last worker.                        *)
StartFinalWait_None ==
    /\ ctl = "range" /\ AllSent
    /\ ctl' = "stopping"
    /\ UNCHANGED <<poolVars, closedSchedVars, closedVars, stopping, done, handler, outputOpen>>

(* All the workers are started: wait for the end of the scenario.          *)
StartFinalWait ==
    /\ ctl = "range" /\ AllSent
    /\ ctl' = IF ~gotSignal /\ Total > now THEN "final" ELSE "stopping"
    /\ UNCHANGED <<poolVars, closedSchedVars, closedVars, stopping, done, handler, outputOpen>>

FinalWaitOver ==
    /\ ctl = "final" /\ Total <= now
    /\ ctl' = "stopping"
    /\ UNCHANGED <<poolVars, closedSchedVars, closedVars, stopping, done, handler, outputOpen>>

FinalWaitInterrupted ==
    /\ ctl = "final" /\ interrupt
    /\ interrupt' = FALSE
    /\ ctl' = "stopping"
    /\ UNCHANGED <<poolVars, closedSchedVars, gotSignal, subInitial, due, stopping, done, handler, outputOpen>>

RunStep ==
    \/ StartRun \/ NextOffset \/ DelayOver \/ DelayInterrupted \/ StartWorker
    \/ StartFinalWait \/ FinalWaitOver \/ FinalWaitInterrupted

-----------------------------------------------------------------------------
(* The other goroutines.  One of them offers the offset zero on sched for  *)
(* ever, so a worker that asks for an offset has it.                       *)
ReceiveZero(w) == ReceiveSlot(w, Unscheduled)

WorkerAction(w) ==
    /\ WorkerStep(w) \/ ReceiveZero(w)
    /\ UNCHANGED <<processVars, closedSchedVars, closedVars>>

Background == WriteResult /\ UNCHANGED <<processVars, closedSchedVars, closedVars>>

(* Mutant: the channel interrupt has no room, and the send gives up.       *)
Interrupt_OnlyAsleep ==
    /\ SignalArrives
    /\ ~interrupt
    /\ interrupt' = (ctl \in {"delayed", "final"})
    /\ UNCHANGED <<poolVars, closedSchedVars, gotSignal, subInitial, due, ctl, stopping, done, outputOpen>>

(* Interrupt puts a value into the channel, which has room for it: there   *)
(* is one signal only.                                                     *)
Interrupt ==
    /\ SignalArrives
    /\ ~interrupt
    /\ interrupt' = TRUE
    /\ UNCHANGED <<poolVars, closedSchedVars, gotSignal, subInitial, due, ctl, stopping, done, outputOpen>>

SignalStep ==
    /\ SignalBeforeRun \/ InterruptReturns
    /\ UNCHANGED <<closedSchedVars, closedVars>>

WindDownStep == WindDown /\ UNCHANGED <<closedSchedVars, closedVars>>

Clock == Tick /\ UNCHANGED <<processVars, closedSchedVars, closedVars>>

Terminated == outcome # "running" /\ UNCHANGED vars

Next ==
    \/ /\ outcome = "running"
       /\ \/ RunStep \/ WindDownStep
          \/ \E w \in Workers : WorkerAction(w)
          \/ Background
          \/ Interrupt \/ SignalStep
          \/ Clock
    \/ Terminated

Spec == Init /\ [][Next]_vars

(* The goroutines run.  That time passes is not assumed here: it is a      *)
(* premise of Terminates, and InterruptHonoured does without.              *)
Alive(A) == outcome = "running" /\ A

Fairness ==
    /\ WF_vars(Alive(RunStep \/ WindDownStep))
    /\ WF_vars(Alive(InterruptReturns /\ UNCHANGED <<closedSchedVars, closedVars>>))
    /\ WF_vars(Alive(Background))
    /\ \A w \in Workers : WF_vars(Alive(WorkerAction(w)))

FairSpec == Spec /\ Fairness

-----------------------------------------------------------------------------
TypeOK ==
    /\ PoolTypeOK
    /\ ctl \in {"setup", "range", "delayed", "spawn", "final", "stopping"} \cup AfterStop
    /\ stopping \in 0 .. spawned
    /\ done \in BOOLEAN /\ outputOpen \in BOOLEAN
    /\ handler \in {"idle", "waiting"}
    /\ ClosedScheduleTypeOK
    /\ interrupt \in BOOLEAN /\ gotSignal \in BOOLEAN
    /\ subInitial \in Nat \cup {-1}
    /\ due \in Nat

(* A worker is started when the scenario has come to it, counted from the  *)
(* first worker, and never earlier - not after a signal either - and every *)
(* offset starts one worker.                                               *)
StartedWhenDue ==
    [][spawned' > spawned =>
         /\ spawned' = sent
         /\ now >= Offsets[spawned'] - Offsets[1]]_<<poolVars, closedSchedVars>>

(* Without a signal the workload lasts as long as its scenario, however    *)
(* early the last worker was started, and has started all of its workers.  *)
RunsInFull ==
    outcome = "returned" /\ handler = "idle" =>
        now >= Total /\ spawned = Len(Offsets)

(* A signal ends the process although it is looked for in the sleeps only: *)
(* it is not lost when it comes between them, and nothing waits for a time *)
(* of the scenario any more - the clock may stand still.                   *)
InterruptHonoured == handler = "waiting" ~> outcome # "running"

(* If time passes every run of the workload ends, though its workers never *)
(* run out of offsets and nobody waits for them.                           *)
Terminates == WF_vars(Alive(Clock)) => <>(outcome # "running")
=============================================================================
