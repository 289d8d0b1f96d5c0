------------------------------ MODULE WorkerPool ------------------------------
(***************************************************************************)
(* The workers of a load test: goroutines that loop over Worker.Iteration  *)
(* (pkg/core/worker.go), the shared counters of Status (status.go), the    *)
(* payload channels of NewInput as the workers see them, and the goroutine *)
(* Output.background that receives every result (output.go).               *)
(*                                                                         *)
(* What drives the pool - the schedule, SpawnWorker, Stop, the end of the  *)
(* process - is left open here: PoolNext allows any of it at any time, and *)
(* OpenWorkload and ClosedWorkload are shown to take only steps of this    *)
(* module as far as the pool is concerned.                                 *)
(***************************************************************************)
EXTENDS Integers, FiniteSets

CONSTANTS
    WorkerBound,     \* bound of the model on the number of SpawnWorker calls
    EnableRegexes,   \* input.EnableRegexes: one input per worker, not one for all
    Records,         \* good records in the payload file
    IterationLimit,  \* input.IterationLimit, passes over the file; 0 is no limit
    MaxNow           \* bound of the model on the clock

ASSUME PoolAssumption ==
    /\ WorkerBound \in Nat \ {0}
    /\ EnableRegexes \in BOOLEAN
    /\ Records \in Nat \ {0}
    /\ IterationLimit \in Nat
    /\ MaxNow \in Nat

Workers == 1 .. WorkerBound

(* A schedule entry: the offset that travels in the Go channel, and the     *)
(* number of the entry in the schedule, which the code does not have.      *)
(* Number 0 marks an offset that no schedule holds.                        *)
Slots == [offset : Nat, entry : Nat]
Unscheduled == [offset |-> 0, entry |-> 0]

(* Where a worker stands, in the order of Run, Iteration and DoBusy.       *)
PCs == {"unborn", "loop", "schedule", "payload", "timed", "asleep", "awake",
        "punch", "inflight", "measured", "push", "pushed",
        "finished", "starved"}

(* The sections in which a worker is counted by each counter of Status.    *)
(* "starved" is the end of a worker that found the input closed: it leaves *)
(* Iteration without DecWaiting.                                           *)
WaitingSection  == {"schedule", "payload", "starved"}
SleepingSection == {"asleep"}
BusySection     == {"punch", "inflight", "measured"}
WorkingSection  == {"timed", "asleep", "awake", "push", "pushed"} \cup BusySection

Counters == [waiting : Int, working : Int, sleeping : Int, busy : Int]

Idle == -1      \* Output.background is waiting for a result

VARIABLES
    spawned,   \* BaseWorkload.cnt, and the length of BaseWorkload.Workers
    pc,        \* pc[w]: where worker w stands
    slot,      \* slot[w]: the schedule entry worker w has received
    stopped,   \* the workers whose Worker.stopped is set
    startTime, \* startTime[w]: OutputItem.StartTime of the hit of worker w
    concurrency, \* concurrency[w]: OutputItem.Concurrency of that hit
    status,    \* the atomic counters of Status
    left,      \* left[i]: records the input i still delivers, if limited
    writing,   \* the entry whose result Output.background holds, or Idle
    now,       \* time since StartTime, in ticks
    outcome       \* "running", or how the process ended

poolVars == <<spawned, pc, slot, stopped, startTime, concurrency, status, left,
              writing, now, outcome>>

PoolInit ==
    /\ spawned = 0
    /\ pc = [w \in Workers |-> "unborn"]
    /\ slot = [w \in Workers |-> Unscheduled]
    /\ stopped = {}
    /\ startTime = [w \in Workers |-> 0]
    /\ concurrency = [w \in Workers |-> 0]
    /\ status = [waiting |-> 0, working |-> 0, sleeping |-> 0, busy |-> 0]
    /\ left = [i \in Workers |-> Records * IterationLimit]
    /\ writing = Idle
    /\ now = 0
    /\ outcome = "running"

Goto(w, p) == pc' = [pc EXCEPT ![w] = p]

(* The four Dec and Inc methods that check their result panic on a counter *)
(* below zero; DecWaiting, IncWaiting, DecSleeping, IncBusy and IncWorking *)
(* do not look.                                                            *)
PanicIfNegative(n) == outcome' = IF n < 0 THEN "negative_counter" ELSE outcome

IncWaiting(st)  == [st EXCEPT !.waiting = @ + 1]
DecWaiting(st)  == [st EXCEPT !.waiting = @ - 1]
IncWorking(st)  == [st EXCEPT !.working = @ + 1]
DecWorking(st)  == [st EXCEPT !.working = @ - 1]
IncSleeping(st) == [st EXCEPT !.sleeping = @ + 1]
DecSleeping(st) == [st EXCEPT !.sleeping = @ - 1]
IncBusy(st)     == [st EXCEPT !.busy = @ + 1]
DecBusy(st)     == [st EXCEPT !.busy = @ - 1]

-----------------------------------------------------------------------------
(* The steps of worker w.  A local of the Go function that is dead after a *)
(* step is put back to its initial value, so that states differ only in    *)
(* what the program can still read.                                        *)

BeginIteration(w) ==
    /\ pc[w] = "loop" /\ w \notin stopped
    /\ status' = IncWaiting(status)
    /\ Goto(w, "schedule")
    /\ UNCHANGED <<spawned, slot, stopped, startTime, concurrency, left, writing, now, outcome>>

Finish(w) ==
    /\ pc[w] = "loop" /\ w \in stopped
    /\ Goto(w, "finished")
    /\ UNCHANGED <<spawned, slot, stopped, startTime, concurrency, status, left, writing, now, outcome>>

(* The receive from InputSchedule, of an entry s sent by the controller or *)
(* of the zero value of a closed channel.                                  *)
ReceiveSlot(w, s) ==
    /\ pc[w] = "schedule"
    /\ slot' = [slot EXCEPT ![w] = s]
    /\ Goto(w, "payload")
    /\ UNCHANGED <<spawned, stopped, startTime, concurrency, status, left, writing, now, outcome>>

(* Input 1 is shared by all the workers unless EnableRegexes.              *)
InputOf(w) == IF EnableRegexes THEN w ELSE 1
Delivers(i) == IterationLimit = 0 \/ left[i] > 0

(* Mutant: a reader that does not stop at the iteration limit.             *)
TakePayload_Unlimited(w) ==
    /\ pc[w] = "payload"
    /\ left' = IF IterationLimit = 0 THEN left
               ELSE [left EXCEPT ![InputOf(w)] = @ - 1]
    /\ status' = IncWorking(DecWaiting(status))
    /\ Goto(w, "timed")
    /\ UNCHANGED <<spawned, slot, stopped, startTime, concurrency, writing, now, outcome>>

TakePayload(w) ==
    /\ pc[w] = "payload" /\ Delivers(InputOf(w))
    /\ left' = IF IterationLimit = 0 THEN left
               ELSE [left EXCEPT ![InputOf(w)] = @ - 1]
    /\ status' = IncWorking(DecWaiting(status))
    /\ Goto(w, "timed")
    /\ UNCHANGED <<spawned, slot, stopped, startTime, concurrency, writing, now, outcome>>

Starve(w) ==
    /\ pc[w] = "payload" /\ ~Delivers(InputOf(w))
    /\ Goto(w, "starved")
    /\ UNCHANGED <<spawned, slot, stopped, startTime, concurrency, status, left, writing, now, outcome>>

FallAsleep(w) ==
    /\ pc[w] = "timed" /\ slot[w].offset > now
    /\ status' = IncSleeping(status)
    /\ PanicIfNegative(status'.sleeping)
    /\ Goto(w, "asleep")
    /\ UNCHANGED <<spawned, slot, stopped, startTime, concurrency, left, writing, now>>

NoDelay(w) ==
    /\ pc[w] = "timed" /\ slot[w].offset <= now
    /\ Goto(w, "awake")
    /\ UNCHANGED <<spawned, slot, stopped, startTime, concurrency, status, left, writing, now, outcome>>

(* Mutant: a sleep that can be cut short.                                  *)
Wake_Early(w) ==
    /\ pc[w] = "asleep"
    /\ status' = DecSleeping(status)
    /\ Goto(w, "awake")
    /\ UNCHANGED <<spawned, slot, stopped, startTime, concurrency, left, writing, now, outcome>>

Wake(w) ==
    /\ pc[w] = "asleep" /\ slot[w].offset <= now
    /\ status' = DecSleeping(status)
    /\ Goto(w, "awake")
    /\ UNCHANGED <<spawned, slot, stopped, startTime, concurrency, left, writing, now, outcome>>

(* Mutant: the way out of a stopped worker misses DecWorking.              *)
Skip_StaysWorking(w) ==
    /\ pc[w] = "awake" /\ w \in stopped
    /\ slot' = [slot EXCEPT ![w] = Unscheduled]
    /\ Goto(w, "loop")
    /\ UNCHANGED <<spawned, stopped, startTime, concurrency, status, left, writing, now, outcome>>

(* A worker told to stop while it slept drops the entry it holds.          *)
Skip(w) ==
    /\ pc[w] = "awake" /\ w \in stopped
    /\ status' = DecWorking(status)
    /\ PanicIfNegative(status'.working)
    /\ slot' = [slot EXCEPT ![w] = Unscheduled]
    /\ Goto(w, "loop")
    /\ UNCHANGED <<spawned, stopped, startTime, concurrency, left, writing, now>>

BeginBusy(w) ==
    /\ pc[w] = "awake" /\ w \notin stopped
    /\ status' = IncBusy(status)
    /\ Goto(w, "punch")
    /\ UNCHANGED <<spawned, slot, stopped, startTime, concurrency, left, writing, now, outcome>>

(* Nib.Punch notes the start time and sends; the answer, or the error of   *)
(* the deadline, comes at any later time, before GetBusy in Measure.       *)
Punch(w) ==
    /\ pc[w] = "punch"
    /\ startTime' = [startTime EXCEPT ![w] = now]
    /\ Goto(w, "inflight")
    /\ UNCHANGED <<spawned, slot, stopped, concurrency, status, left, writing, now, outcome>>

(* Mutant: DecBusy comes before GetBusy.                                   *)
Measure_AfterDec(w) ==
    /\ pc[w] = "inflight"
    /\ status' = DecBusy(status)
    /\ concurrency' = [concurrency EXCEPT ![w] = status'.busy]
    /\ Goto(w, "measured")
    /\ UNCHANGED <<spawned, slot, stopped, startTime, left, writing, now, outcome>>

Measure(w) ==
    /\ pc[w] = "inflight"
    /\ concurrency' = [concurrency EXCEPT ![w] = status.busy]
    /\ Goto(w, "measured")
    /\ UNCHANGED <<spawned, slot, stopped, startTime, status, left, writing, now, outcome>>

EndBusy(w) ==
    /\ pc[w] = "measured"
    /\ status' = DecBusy(status)
    /\ PanicIfNegative(status'.busy)
    /\ Goto(w, "push")
    /\ UNCHANGED <<spawned, slot, stopped, startTime, concurrency, left, writing, now>>

(* Mutant: a push that gives up when Output.background is busy.            *)
PushResult_OrDrop(w) ==
    /\ pc[w] = "push"
    /\ writing' = IF writing = Idle THEN slot[w].entry ELSE writing
    /\ concurrency' = [concurrency EXCEPT ![w] = 0]
    /\ Goto(w, "pushed")
    /\ UNCHANGED <<spawned, slot, stopped, startTime, status, left, now, outcome>>

(* The pipe is unbuffered: a push happens together with the receive.       *)
PushResult(w) ==
    /\ pc[w] = "push" /\ writing = Idle
    /\ writing' = slot[w].entry
    /\ concurrency' = [concurrency EXCEPT ![w] = 0]
    /\ Goto(w, "pushed")
    /\ UNCHANGED <<spawned, slot, stopped, startTime, status, left, now, outcome>>

EndIteration(w) ==
    /\ pc[w] = "pushed"
    /\ status' = DecWorking(status)
    /\ PanicIfNegative(status'.working)
    /\ slot' = [slot EXCEPT ![w] = Unscheduled]
    /\ startTime' = [startTime EXCEPT ![w] = 0]
    /\ Goto(w, "loop")
    /\ UNCHANGED <<spawned, stopped, concurrency, left, writing, now>>

(* Everything a worker does on its own; ReceiveSlot needs a sender.        *)
WorkerStep(w) ==
    \/ BeginIteration(w) \/ Finish(w)
    \/ TakePayload(w) \/ Starve(w)
    \/ FallAsleep(w) \/ NoDelay(w) \/ Wake(w)
    \/ Skip(w) \/ BeginBusy(w)
    \/ Punch(w) \/ Measure(w) \/ EndBusy(w)
    \/ PushResult(w) \/ EndIteration(w)

-----------------------------------------------------------------------------
(* Output.background hands the result it holds to every SingleOut.         *)
WriteResult ==
    /\ writing # Idle
    /\ writing' = Idle
    /\ UNCHANGED <<spawned, pc, slot, stopped, startTime, concurrency, status, left, now, outcome>>

SpawnWorker ==
    /\ spawned < WorkerBound
    /\ spawned' = spawned + 1
    /\ Goto(spawned + 1, "loop")
    /\ UNCHANGED <<slot, stopped, startTime, concurrency, status, left, writing, now, outcome>>

StopWorker(w) ==
    /\ w <= spawned
    /\ stopped' = stopped \cup {w}
    /\ UNCHANGED <<spawned, pc, slot, startTime, concurrency, status, left, writing, now, outcome>>

Tick ==
    /\ now < MaxNow
    /\ now' = now + 1
    /\ UNCHANGED <<spawned, pc, slot, stopped, startTime, concurrency, status, left, writing, outcome>>

(* The process ends, by os.Exit, by a return from main or by a panic       *)
(* elsewhere; all its goroutines end with it.                              *)
ProcessEnds(how) ==
    /\ outcome' = how
    /\ UNCHANGED <<spawned, pc, slot, stopped, startTime, concurrency, status, left, writing, now>>

Endings == {"returned", "signalled", "unordered_schedule", "schedule_stuck"}

(* Which entry a worker receives is left to the sender.                    *)
PoolNext ==
    /\ outcome = "running"
    /\ \/ \E w \in Workers : WorkerStep(w)
       \/ \E w \in Workers : slot'[w] \in Slots /\ ReceiveSlot(w, slot'[w])
       \/ WriteResult
       \/ SpawnWorker
       \/ \E w \in Workers : StopWorker(w)
       \/ Tick
       \/ \E how \in Endings : ProcessEnds(how)

PoolSpec == PoolInit /\ [][PoolNext]_poolVars

-----------------------------------------------------------------------------
PoolTypeOK ==
    /\ spawned \in 0 .. WorkerBound
    /\ pc \in [Workers -> PCs]
    /\ slot \in [Workers -> Slots]
    /\ stopped \subseteq Workers
    /\ startTime \in [Workers -> Nat]
    /\ concurrency \in [Workers -> Int]
    /\ status \in Counters
    /\ left \in [Workers -> Nat]
    /\ writing \in Nat \cup {Idle}
    /\ now \in Nat
    /\ outcome \in {"running", "negative_counter"} \cup Endings

At(S) == {w \in Workers : pc[w] \in S}

(* Whatever the interleaving of the workers, each counter of Status equals *)
(* the number of workers in its section of Iteration and DoBusy: no update *)
(* is lost, none is made twice, and so none of the panics of DecWorking,   *)
(* IncSleeping and DecBusy can fire.  The workers that found their input   *)
(* closed stay counted as waiting for ever.                                *)
CountersExact ==
    /\ status.waiting  = Cardinality(At(WaitingSection))
    /\ status.working  = Cardinality(At(WorkingSection))
    /\ status.sleeping = Cardinality(At(SleepingSection))
    /\ status.busy     = Cardinality(At(BusySection))

(* The concurrency reported with a result counts the worker's own hit and  *)
(* never more hits than there are workers, although GetBusy is read before *)
(* DecBusy and other workers come and go in between.                       *)
ConcurrencyMeasured ==
    \A w \in Workers : pc[w] \in {"measured", "push"} =>
        concurrency[w] \in 1 .. spawned

(* No hit starts before its scheduled offset, whichever way the worker got *)
(* to Punch: without a delay or after a sleep.  So the lag that StartMissed *)
(* accumulates is never negative.                                          *)
NeverEarly ==
    \A w \in Workers : pc[w] \in {"inflight", "measured", "push", "pushed"} =>
        startTime[w] >= slot[w].offset

(* The consistency checks of Status never fire.                            *)
NoCounterPanic == outcome # "negative_counter"

(* Exactly the spawned workers have begun to run.                          *)
SpawnedRun == \A w \in Workers : (w <= spawned) <=> (pc[w] # "unborn")

(* A worker past its delay holds an entry that is due, and stays so.       *)
DueWhenAwake ==
    \A w \in Workers : pc[w] \in {"awake", "punch"} => slot[w].offset <= now

(* The inductive invariant behind the theorems of WorkerPoolProofs.        *)
PoolInv ==
    /\ PoolTypeOK
    /\ SpawnedRun
    /\ CountersExact
    /\ NoCounterPanic
    /\ ConcurrencyMeasured
    /\ DueWhenAwake
    /\ NeverEarly
=============================================================================
