------------------------------- MODULE Process -------------------------------
(***************************************************************************)
(* The process of a load test as its input and output see it: the          *)
(* configuration, which nothing changes after LoadConfig, and whether the  *)
(* process still runs.                                                     *)
(***************************************************************************)
EXTENDS StringIndex

CONSTANTS
    Workers,        \* numbers of workers, from 1
    Confs,          \* configurations, with the files they name
    InputStrings    \* the lines of input.StringsFile

Writers == {"ldjson", "binary", "trace"}

(* Payload records: see PayloadInput.                                      *)
Records ==
    [meta : {"ok", "broken", "no_plen", "long"}, payload : {"full", "short"},
     regex : {"ok", "broken", "missing"},
     label : Strings, labelIdx : Nat, template : BOOLEAN,
     extract : {"none", "group", "no_group"}, asserts : Seq(Lines)]

Configurations ==
    [payload : Seq(Records), iterationLimit : Nat, enableRegexes : BOOLEAN,
     driver : {"http", "dummy"}, netErrors : SUBSET Strings,
     workers : Nat, hits : Nat, seconds : Nat, outs : Seq(Writers)]

(* Some output is configured, and each writer once.                        *)
ASSUME ProcessAssumption ==
    /\ Workers \subseteq Nat \ {0} /\ IsFiniteSet(Workers) /\ 1 \in Workers
    /\ InputStrings \in Seq(Lines)
    /\ Confs \subseteq Configurations
    /\ \A c \in Confs :
           /\ c.outs # << >>
           /\ \A j, k \in DOMAIN c.outs : c.outs[j] = c.outs[k] => j = k

VARIABLES
    conf,      \* the configuration of this run, with
               \*   payload: the records of the payload file
               \*   iterationLimit: passes over them, 0 for no limit
               \*   enableRegexes: one input for every worker
               \*   driver: "http" or "dummy"
               \*   netErrors: errors that the network may give
               \*   workers, hits: workers spawned and entries of the schedule
               \*   seconds: bound of the model on the clock
               \*   outs: the writers, in the order of NewOutput
    outcome    \* "running", or how the process ended

processVars == <<conf, outcome>>

Alive == outcome = "running"

Panic == outcome' = "panic"

(* os.Exit after a signal, or any other sudden end.                        *)
Kill ==
    /\ Alive
    /\ outcome' = "killed"
    /\ UNCHANGED conf
=============================================================================
