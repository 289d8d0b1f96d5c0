----------------------------- MODULE OpenWorkload -----------------------------
(***************************************************************************)
(* The open workload (pkg/scenario/open.go): Run hands the offsets of      *)
(* OpenSchedule to the workers over the unbuffered scheduleChan, spawns a  *)
(* worker when nobody is ready to take one, and at the end of the schedule *)
(* closes the channel and stops the workers.                               *)
(***************************************************************************)
EXTENDS BaseWorkload, OpenSchedule

CONSTANTS
    MinWorkers,   \* workers.StartingWorkers
    MaxWorkers    \* workers.MaxWorkers; 0 is no limit

ASSUME OpenAssumption ==
    /\ MinWorkers \in Nat
    /\ MaxWorkers \in Nat

VARIABLES
    interrupted,  \* OpenWorkload.interrupted
    current,      \* the loop variable offset of Run, as a schedule entry
    last,         \* the local last of Run
    recorded      \* entries whose result the open output has taken

openVars == <<interrupted, current, last, recorded>>
vars == <<poolVars, processVars, schedVars, openVars>>

(* NewOpenWorkload sums the durations, Run adds a tenth.                    *)
sumDurations == DurationOf(scenario)
StopCutoff == sumDurations + sumDurations \div 10

(* SpawnInitial: a MaxWorkers of 0 is a limit here, and in Grow it is none. *)
Smaller(a, b) == IF a < b THEN a ELSE b
InitialWorkers == IF Smaller(MaxWorkers, MinWorkers) > 1
                  THEN Smaller(MaxWorkers, MinWorkers) ELSE 1

Init ==
    /\ PoolInit
    /\ ProcessInit
    /\ ScheduleInit
    /\ interrupted = FALSE
    /\ current = Unscheduled
    /\ last = 0
    /\ recorded = {}

-----------------------------------------------------------------------------
(* The main goroutine, from main.Run to the end of OpenWorkload.Run.       *)
StartRun ==
    /\ ctl = "setup"
    /\ ctl' = "spawning"
    /\ UNCHANGED <<poolVars, schedVars, openVars, stopping, done, handler, outputOpen>>

SpawnInitial ==
    /\ ctl = "spawning"
    /\ IF spawned < InitialWorkers
       THEN SpawnWorker /\ ctl' = "spawning"
       ELSE ctl' = "range" /\ UNCHANGED poolVars
    /\ UNCHANGED <<schedVars, openVars, stopping, done, handler, outputOpen>>

(* An iteration of the range loop: the next offset, or the generator has   *)
(* closed its channel.                                                     *)
NextOffset ==
    /\ ctl = "range"
    /\ \/ /\ SendOffset
          /\ current' = [offset |-> gen.accum, entry |-> gen'.cnt]
          /\ ctl' = "check"
       \/ /\ gen.pc = "closed"
          /\ ctl' = "stopping"
          /\ UNCHANGED <<schedVars, current>>
    /\ UNCHANGED <<poolVars, interrupted, last, recorded, stopping, done, handler, outputOpen>>

(* The checks before an offset is offered, in the order of the code.  A    *)
(* break goes on with close(scheduleChan): the channel is closed from      *)
(* "stopping" on.                                                          *)
CheckOffset ==
    /\ ctl = "check"
    /\ IF interrupted
       THEN ctl' = "stopping" /\ UNCHANGED <<poolVars, last>>
       ELSE IF current.offset < last
       THEN ProcessEnds("unordered_schedule") /\ UNCHANGED <<ctl, last>>
       ELSE /\ last' = current.offset
            /\ ctl' = IF now > StopCutoff THEN "stopping" ELSE "offer"
            /\ UNCHANGED poolVars
    /\ UNCHANGED <<schedVars, interrupted, current, recorded, stopping, done, handler, outputOpen>>

(* Mutant: the case of the select goes on to the plain send.               *)
HandOver_Twice(w) ==
    /\ ctl \in {"offer", "blocked"}
    /\ ReceiveSlot(w, current)
    /\ ctl' = IF ctl = "offer" THEN "blocked" ELSE "range"
    /\ UNCHANGED <<schedVars, openVars, stopping, done, handler, outputOpen>>

(* A send on scheduleChan, taken together with the receive of a worker: by *)
(* the select, or by the plain send after the default branch.              *)
HandOver(w) ==
    /\ ctl \in {"offer", "blocked"}
    /\ ReceiveSlot(w, current)
    /\ ctl' = "range"
    /\ UNCHANGED <<schedVars, openVars, stopping, done, handler, outputOpen>>

(* The select finds no receiver and takes the default branch.  A worker on *)
(* its way to the receive counts as being at "loop" here: IncWaiting may    *)
(* come late, since only the log reads that counter.                       *)
NobodyReady ==
    /\ ctl = "offer"
    /\ \A w \in Workers : pc[w] # "schedule"
    /\ ctl' = "grow"
    /\ UNCHANGED <<poolVars, schedVars, openVars, stopping, done, handler, outputOpen>>

(* Mutant: off by one.                                                     *)
NotMaxed_OneMore == MaxWorkers = 0 \/ spawned <= MaxWorkers

NotMaxed == MaxWorkers = 0 \/ spawned < MaxWorkers

(* Mutant: the entry is left to the new worker, which does not know it.    *)
Grow_Forgets ==
    /\ ctl = "grow"
    /\ IF NotMaxed /\ status.sleeping <= 0 THEN SpawnWorker ELSE UNCHANGED poolVars
    /\ ctl' = "range"
    /\ UNCHANGED <<schedVars, openVars, stopping, done, handler, outputOpen>>

Grow ==
    /\ ctl = "grow"
    /\ IF NotMaxed /\ status.sleeping <= 0 THEN SpawnWorker ELSE UNCHANGED poolVars
    /\ ctl' = "blocked"
    /\ UNCHANGED <<schedVars, openVars, stopping, done, handler, outputOpen>>

RunStep ==
    \/ StartRun \/ SpawnInitial \/ NextOffset \/ CheckOffset
    \/ \E w \in Workers : HandOver(w)
    \/ NobodyReady \/ Grow

-----------------------------------------------------------------------------
(* The other goroutines.                                                   *)
GeneratorStep ==
    /\ GenerateOffset \/ GeneratorEnds
    /\ UNCHANGED <<processVars, openVars>>
    /\ IF gen'.pc = "stuck" THEN ProcessEnds("schedule_stuck") ELSE UNCHANGED poolVars

ScheduleClosed == ctl \in {"stopping"} \cup AfterStop

(* A receive from the closed scheduleChan yields the offset zero at once.  *)
ReceiveClosed(w) ==
    /\ ScheduleClosed
    /\ ReceiveSlot(w, Unscheduled)

WorkerAction(w) ==
    /\ WorkerStep(w) \/ ReceiveClosed(w)
    /\ UNCHANGED <<processVars, schedVars, openVars>>

Background ==
    /\ WriteResult
    /\ recorded' = IF outputOpen /\ writing # 0 THEN recorded \cup {writing} ELSE recorded
    /\ UNCHANGED <<processVars, schedVars, interrupted, current, last>>

(* Mutant: the sleep of a worker is cancelled and the iteration left.      *)
Interrupt_Cancels ==
    /\ SignalArrives
    /\ interrupted' = TRUE
    /\ pc' = [w \in Workers |-> IF pc[w] = "asleep" THEN "loop" ELSE pc[w]]
    /\ UNCHANGED <<spawned, slot, stopped, startTime, concurrency, status, left, writing,
                   now, outcome>>
    /\ UNCHANGED <<schedVars, current, last, recorded, ctl, stopping, done, outputOpen>>

Interrupt ==
    /\ SignalArrives
    /\ interrupted' = TRUE
    /\ UNCHANGED <<poolVars, schedVars, current, last, recorded, ctl, stopping, done, outputOpen>>

Clock == Tick /\ UNCHANGED <<processVars, schedVars, openVars>>

WindDownStep == WindDown /\ UNCHANGED <<schedVars, openVars>>

SignalStep ==
    /\ SignalBeforeRun \/ InterruptReturns
    /\ UNCHANGED <<schedVars, openVars>>

(* The end of the process is the only place where nothing happens.         *)
Terminated == outcome # "running" /\ UNCHANGED vars

Next ==
    \/ /\ outcome = "running"
       /\ \/ RunStep \/ WindDownStep
          \/ GeneratorStep
          \/ \E w \in Workers : WorkerAction(w)
          \/ Background
          \/ Interrupt \/ SignalStep
          \/ Clock
    \/ Terminated

Spec == Init /\ [][Next]_vars

(* Goroutines are scheduled preemptively, time passes, a channel operation *)
(* whose partner is there completes.  No fairness for signals, which may   *)
(* never come.                                                             *)
Alive(A) == outcome = "running" /\ A

Fairness ==
    /\ WF_vars(Alive(RunStep \/ WindDownStep))
    /\ WF_vars(Alive(GeneratorStep))
    /\ WF_vars(Alive(Background))
    /\ WF_vars(Alive(InterruptReturns /\ UNCHANGED <<schedVars, openVars>>))
    /\ WF_vars(Alive(Clock))
    /\ \A w \in Workers : WF_vars(Alive(WorkerAction(w)))

FairSpec == Spec /\ Fairness

-----------------------------------------------------------------------------
ProcessTypeOK ==
    /\ ctl \in {"setup", "spawning", "range", "check", "offer", "grow", "blocked",
                "stopping"} \cup AfterStop
    /\ stopping \in 0 .. spawned
    /\ done \in BOOLEAN
    /\ handler \in {"idle", "waiting"}
    /\ outputOpen \in BOOLEAN

OpenTypeOK ==
    /\ interrupted \in BOOLEAN
    /\ current \in Slots
    /\ last \in Nat
    /\ recorded \subseteq Nat

TypeOK == PoolTypeOK /\ ProcessTypeOK /\ GenTypeOK /\ OpenTypeOK

(* The pool never outgrows MaxWorkers, counting the initial workers too,   *)
(* and beyond those no more workers are spawned than offsets found nobody  *)
(* ready, so the unlimited pool is limited by the schedule.                *)
WorkersWithinLimit ==
    /\ MaxWorkers > 0 => spawned <= MaxWorkers
    /\ spawned <= InitialWorkers + gen.cnt

(* The inductive form of WorkersWithinLimit: an offset that is still to be *)
(* offered may bring one more worker.                                      *)
LimitInv ==
    /\ MaxWorkers > 0 => spawned <= MaxWorkers
    /\ spawned <= InitialWorkers + gen.cnt
    /\ ctl \in {"setup", "spawning"} => spawned <= InitialWorkers
    /\ ctl \in {"check", "offer", "grow"} => spawned < InitialWorkers + gen.cnt

(* Entry e is with worker w, its result not yet pushed.                    *)
Pending(w, e) == slot[w].entry = e /\ pc[w] # "pushed"

Offering == ctl \in {"check", "offer", "grow", "blocked"}
InHand == IF Offering THEN {current.entry} ELSE {}

(* No entry of the schedule is hit twice: it is with Run, with one worker, *)
(* with Output.background or in the results, and never at two of those     *)
(* places, although the select and the send after it both offer it.        *)
AtMostOnce ==
    \A w \in Workers : LET e == slot[w].entry IN
        e # 0 /\ Pending(w, e) =>
            /\ e \notin InHand \cup {writing} \cup recorded
            /\ \A v \in Workers \ {w} : ~Pending(v, e)

(* While the schedule runs no entry is lost: every entry the generator has *)
(* sent is with Run, with a worker - which may be a worker that found the  *)
(* input closed - on its way to the output, or in the results.             *)
NoEntryLost ==
    ~ScheduleClosed => \A e \in 1 .. gen.cnt :
        \/ e \in InHand \cup {writing} \cup recorded
        \/ \E w \in Workers : Pending(w, e)

(* The inductive form of AtMostOnce: entries come in order, the one that   *)
(* Run offers is newer than all the others, and a worker holds none before *)
(* it has received one.                                                    *)
EmptyHanded == {"unborn", "loop", "schedule", "finished"}

DispatchInv ==
    /\ \A w \in Workers : slot[w].entry <= gen.cnt
    /\ writing <= gen.cnt
    /\ \A e \in recorded : e <= gen.cnt
    /\ Offering =>
        /\ current.entry = gen.cnt
        /\ \A w \in Workers : slot[w].entry < gen.cnt
        /\ writing < gen.cnt
        /\ \A e \in recorded : e < gen.cnt
    /\ \A w \in Workers : pc[w] \in EmptyHanded => slot[w].entry = 0
    /\ AtMostOnce

(* The inductive form of NoEntryLost: while the schedule runs no worker is *)
(* stopped and the output takes every result.                              *)
LossInv ==
    /\ ~ScheduleClosed => stopped = {} /\ outputOpen
    /\ NoEntryLost

(* However a run ends - at its end, by the cutoff, by a signal, and while  *)
(* the workers and the output go on or are cut off - no more is missing    *)
(* from the results than an entry for every worker, one in the output and  *)
(* one in Run: entries are lost at the end only.                           *)
TailBounded == Cardinality((1 .. gen.cnt) \ recorded) <= spawned + 2

(* The schedule never runs backwards as Run sees it, across steps as well: *)
(* the panic on offset < last is unreachable.                              *)
NeverUnordered == outcome # "unordered_schedule"

(* With an input that does not end, every run of the workload ends: the    *)
(* blocking send of Run finds a worker, the workers do not deadlock with   *)
(* the output, and the stop flags end the hits after the close.            *)
Terminates == <>(outcome # "running")

-----------------------------------------------------------------------------
(* Claims of the documentation that the code does not keep.                *)

(* Workers hit the service according to the requests schedule: every hit   *)
(* belongs to an entry of it.                                              *)
OnlyScheduledHits ==
    \A w \in Workers : pc[w] = "punch" => slot[w].entry # 0

(* A test that exceeds its expected duration is interrupted.               *)
CutoffHonoured == now > StopCutoff ~> outcome # "running"
=============================================================================
