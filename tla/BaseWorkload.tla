----------------------------- MODULE BaseWorkload -----------------------------
(***************************************************************************)
(* What both kinds of workload share: the process of cmd/encarno/main.go   *)
(* around WorkerSpawner.Run - the main goroutine, which closes the output  *)
(* and returns, and the signal goroutine, which interrupts the workload,   *)
(* waits for it and exits - and BaseWorkload.Stop (pkg/core/workload.go).  *)
(***************************************************************************)
EXTENDS WorkerPool

VARIABLES
    ctl,          \* where the main goroutine stands, in main.Run and in Run
    stopping,     \* workers BaseWorkload.Stop has told to stop
    done,         \* the workload's channel done, of capacity 1, holds a value
    handler,      \* the signal goroutine: "idle", or "waiting" in Interrupt
    outputOpen    \* Output.Close has not run

processVars == <<ctl, stopping, done, handler, outputOpen>>

ProcessInit ==
    /\ ctl = "setup"
    /\ stopping = 0
    /\ done = FALSE
    /\ handler = "idle"
    /\ outputOpen = TRUE

(* The points the two kinds of Run have in common, in program order; a     *)
(* workload adds its own between "setup" and "stopping".                   *)
AfterRun == {"returned", "output_closed"}
AfterStop == {"stopped"} \cup AfterRun

(* A signal that comes while the global controller is still nil.           *)
SignalBeforeRun ==
    /\ handler = "idle" /\ ctl = "setup"
    /\ ProcessEnds("signalled")
    /\ UNCHANGED processVars

(* The signal goroutine serves one signal: there is no loop around its     *)
(* select, so a second signal changes nothing.  Interrupt, which it calls, *)
(* is an action of the workload.                                           *)
SignalArrives ==
    /\ handler = "idle" /\ ctl # "setup"
    /\ handler' = "waiting"

InterruptReturns ==
    /\ handler = "waiting" /\ done
    /\ done' = FALSE
    /\ ProcessEnds("signalled")
    /\ UNCHANGED <<ctl, stopping, handler, outputOpen>>

-----------------------------------------------------------------------------
(* Mutant: Stop ends the worker where it stands.                           *)
StopNextWorker_Kill ==
    /\ ctl = "stopping" /\ stopping < spawned
    /\ pc' = [pc EXCEPT ![stopping + 1] = "finished"]
    /\ stopped' = stopped \cup {stopping + 1}
    /\ stopping' = stopping + 1
    /\ UNCHANGED <<spawned, slot, startTime, concurrency, status, left, writing, now, outcome>>
    /\ UNCHANGED <<ctl, done, handler, outputOpen>>

(* BaseWorkload.Stop walks over the workers one by one while they run.     *)
StopNextWorker ==
    /\ ctl = "stopping" /\ stopping < spawned
    /\ StopWorker(stopping + 1)
    /\ stopping' = stopping + 1
    /\ UNCHANGED <<ctl, done, handler, outputOpen>>

(* Mutant: the loop over the workers misses the last one.                  *)
StopReturns_TooSoon ==
    /\ ctl = "stopping" /\ stopping + 1 >= spawned
    /\ ctl' = "stopped"
    /\ UNCHANGED <<stopping, done, handler, outputOpen>>
    /\ UNCHANGED poolVars

StopReturns ==
    /\ ctl = "stopping" /\ stopping = spawned
    /\ ctl' = "stopped"
    /\ UNCHANGED <<stopping, done, handler, outputOpen>>
    /\ UNCHANGED poolVars

(* Mutant: the channel done has no room, and nobody waits without a signal. *)
RunReturns_Unbuffered ==
    /\ ctl = "stopped" /\ ~done /\ handler = "waiting"
    /\ done' = TRUE
    /\ ctl' = "returned"
    /\ UNCHANGED <<stopping, handler, outputOpen>>
    /\ UNCHANGED poolVars

RunReturns ==
    /\ ctl = "stopped" /\ ~done
    /\ done' = TRUE
    /\ ctl' = "returned"
    /\ UNCHANGED <<stopping, handler, outputOpen>>
    /\ UNCHANGED poolVars

(* The deferred Output.Close of main.Run.                                  *)
CloseOutput ==
    /\ ctl = "returned"
    /\ outputOpen' = FALSE
    /\ ctl' = "output_closed"
    /\ UNCHANGED <<stopping, done, handler>>
    /\ UNCHANGED poolVars

MainReturns ==
    /\ ctl = "output_closed"
    /\ ProcessEnds("returned")
    /\ UNCHANGED processVars

(* The end of every workload, from Stop on, in the main goroutine.         *)
WindDown == StopNextWorker \/ StopReturns \/ RunReturns \/ CloseOutput \/ MainReturns

-----------------------------------------------------------------------------
StartsHit(w) == pc[w] # "punch" /\ pc'[w] = "punch"

(* Once Stop has returned no worker starts another hit: what is on its way *)
(* then is all that can still be sent.  The workers run on unawaited, and  *)
(* Stop walks a list of workers, so one missed flag would do.              *)
QuietAfterStop ==
    [][(ctl \in AfterStop) => \A w \in Workers : ~StartsHit(w)]_pc
=============================================================================
