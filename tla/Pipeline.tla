------------------------------- MODULE Pipeline -------------------------------
(***************************************************************************)
(* From the payload file to the reader of the results: the inputs, the     *)
(* workers as far as a record and its result pass through them (Iteration  *)
(* and DoBusy in pkg/core/worker.go, Punch of the nibs), the output and    *)
(* the reader.  When a worker waits, sleeps and stops is the subject of    *)
(* WorkerPool; here the workers take conf.hits entries of a schedule, and  *)
(* one that was told to stop is one that takes no other entry.             *)
(***************************************************************************)
EXTENDS PayloadInput, KPIReader

CONSTANT DummyLabels    \* labels that DummyNib makes up

ASSUME PipelineAssumption ==
    /\ DummyLabels \subseteq Strings
    /\ {"NO_VALUE", "NOT_FOUND", "found", "timeout"} \subseteq Lines

VARIABLES
    worker,   \* worker[w]: its place, the record or result it holds, its value
    hits,     \* entries of the schedule not yet received
    clock     \* time.Now().Unix()

workVars == <<worker, hits, clock>>
vars == <<processVars, inputVars, logVars, reader, workVars>>

NoValue  == <<"NO_VALUE">>    \* a name that Values does not have
NotFound == <<"NOT_FOUND">>   \* nothing matched the extractor
Found    == <<"found">>       \* what it matched

Init ==
    /\ conf \in Confs
    /\ outcome = "running"
    /\ PayloadInputInit
    /\ ResultLogInit
    /\ KPIReaderInit
    /\ worker = [w \in Workers |-> [pc |-> IF w <= conf.workers THEN "loop" ELSE "finished", item |-> << >>, value |-> NoValue]]
    /\ hits = conf.hits
    /\ clock = 1

AtWorker(w, pc) == Alive /\ worker[w].pc = pc
Goto(w, pc) == worker' = [worker EXCEPT ![w].pc = pc]

(* The receive from InputSchedule.                                         *)
ReceiveSlot(w) ==
    /\ AtWorker(w, "loop") /\ hits > 0
    /\ hits' = hits - 1
    /\ Goto(w, "payload")
    /\ UNCHANGED <<processVars, inputVars, logVars, reader, clock>>

TakePayload(w) ==
    /\ AtWorker(w, "payload") /\ Offers(InputOf(w))
    /\ Taken(InputOf(w))
    /\ worker' = [worker EXCEPT ![w].pc = "hit", ![w].item = Item(InputOf(w))]
    /\ UNCHANGED <<processVars, logVars, reader, hits, clock>>

NoPayload(w) ==
    /\ AtWorker(w, "payload") /\ InputClosed(InputOf(w))
    /\ Goto(w, "finished")
    /\ UNCHANGED <<processVars, inputVars, logVars, reader, hits, clock>>

Unresolvable(w) ==
    /\ AtWorker(w, "hit") /\ ~Resolvable(worker[w].item)
    /\ Panic
    /\ UNCHANGED <<conf, inputVars, logVars, reader, workVars>>

(* Nib.Punch: DummyNib makes up a label and a status and may time out;     *)
(* the HTTP nib leaves the label alone, and EndWithError sets status 999.  *)
Punch ==
    IF conf.driver = "dummy"
    THEN [label : DummyLabels, error : {EmptyString, <<"timeout">>}, status : {200, 500}]
    ELSE {[label |-> EmptyString, error |-> EmptyString, status |-> 200]}
         \cup [label : {EmptyString}, error : conf.netErrors, status : {999}]

(* OutputItem.Assert: every failed assertion adds a line to the error.     *)
AssertedError(error, asserts, failed) ==
    FoldLeft(LAMBDA problems, a : IF a \in failed THEN Append(problems, a) ELSE problems,
             error, asserts)

(* OutputItem.ExtractValues: the value that a worker goes on with.  When   *)
(* the match has no such number or no such group the index is out of range *)
(* (see NoSuchGroup).                                                      *)
Extracted(item, value) ==
    CASE item.extract = "none"     -> {value}
      [] item.extract = "group"    -> {NotFound, Found}
      [] item.extract = "no_group" -> {NotFound}

(* Worker.DoBusy up to the push, after ReplaceValues and ResolveStrings.   *)
DoBusy(w) ==
    LET item == worker[w].item
    IN  /\ AtWorker(w, "hit") /\ Resolvable(item)
        /\ \E p \in Punch, value \in Extracted(item, worker[w].value),
              failed \in SUBSET ToSet(item.asserts) :
              worker' = [worker EXCEPT ![w] =
                  [pc |-> "push", value |-> value,
                   item |-> [label  |-> IF p.label # EmptyString THEN p.label
                                        ELSE LabelOf(item, worker[w].value),
                             error  |-> AssertedError(p.error, item.asserts, failed),
                             ts     |-> clock,
                             status |-> p.status]]]
        /\ regexCache' = regexCache \cup Replaced(item)
        /\ UNCHANGED <<processVars, input, logVars, reader, hits, clock>>

(* The same up to ExtractValues, which panics.                             *)
NoSuchGroup(w) ==
    /\ AtWorker(w, "hit") /\ Resolvable(worker[w].item)
    /\ worker[w].item.extract = "no_group"
    /\ Panic
    /\ UNCHANGED <<conf, inputVars, logVars, reader, workVars>>

(* regexCache has no lock: while one goroutine writes it and another reads *)
(* or writes it, the runtime may notice and end the process.               *)
CacheRace ==
    LET inputUses(i)    == Reading(i) /\ ~AtEnd(i) /\ Decodes(Next_(i))
        inputWrites(i)  == inputUses(i) /\ ~(Compiled(Next_(i)) \subseteq regexCache)
        workerUses(w)   == AtWorker(w, "hit") /\ worker[w].item.template
        workerWrites(w) == workerUses(w) /\ "name" \notin regexCache
    IN  /\ \/ \E i, j \in Workers : inputWrites(i) /\ inputUses(j) /\ i # j
           \/ \E v, w \in Workers : workerWrites(v) /\ workerUses(w) /\ v # w
           \/ \E i, w \in Workers : \/ inputWrites(i) /\ workerUses(w)
                                    \/ inputUses(i) /\ workerWrites(w)
        /\ Panic
        /\ UNCHANGED <<conf, inputVars, logVars, reader, workVars>>

(* Output.Push, and back to the loop of Run.                               *)
Push(w) ==
    /\ AtWorker(w, "push")
    /\ Receive(worker[w].item)
    /\ worker' = [worker EXCEPT ![w].pc = "loop", ![w].item = << >>]
    /\ UNCHANGED <<inputVars, reader, hits, clock>>

WorkerStep(w) ==
    \/ TakePayload(w) \/ NoPayload(w)
    \/ Unresolvable(w) \/ DoBusy(w) \/ NoSuchGroup(w) \/ Push(w)

Tick ==
    /\ Alive /\ clock < conf.seconds
    /\ clock' = clock + 1
    /\ UNCHANGED <<processVars, inputVars, logVars, reader, worker, hits>>

InputAction(i) == InputStep(i) /\ UNCHANGED <<logVars, reader, workVars>>
OutputAction   == BackgroundStep /\ UNCHANGED <<inputVars, reader, workVars>>
RunEnds        == RunReturns /\ UNCHANGED <<inputVars, reader, workVars>>
CloseAction    == CloseStep /\ UNCHANGED <<inputVars, reader, workVars>>
ReaderAction   == Read /\ UNCHANGED <<inputVars, workVars>>
Killed         == Kill /\ UNCHANGED <<inputVars, logVars, reader, workVars>>

Next ==
    \/ \E i \in Workers : InputAction(i)
    \/ \E w \in Workers : ReceiveSlot(w) \/ WorkerStep(w)
    \/ OutputAction \/ RunEnds \/ CloseAction \/ ReaderAction
    \/ Tick \/ CacheRace \/ Killed

(* The Go scheduler runs every goroutine that can run, and Taurus polls    *)
(* the file until it has it all.  Nothing is assumed of the clock, of      *)
(* signals, of Run, which returns when its workload is over, and of a      *)
(* worker that could take another entry, as it may have been stopped.      *)
Fairness ==
    /\ \A i \in Workers : WF_vars(InputAction(i))
    /\ \A w \in Workers : WF_vars(WorkerStep(w))
    /\ WF_vars(OutputAction) /\ WF_vars(CloseAction) /\ WF_vars(ReaderAction)

Spec == Init /\ [][Next]_vars
FairSpec == Spec /\ Fairness

-----------------------------------------------------------------------------
TypeOK ==
    /\ conf \in Confs
    /\ outcome \in {"running", "killed", "panic", "exited"}
    /\ \A i \in Workers :
           /\ input[i].pc \in {"read", "send", "closed"}
           /\ input[i].pos \in 0 .. Len(conf.payload)
           /\ input[i].good + input[i].bad \in Nat
           /\ conf.iterationLimit > 0 => input[i].iterations < conf.iterationLimit
    /\ \A w \in Workers : worker[w].pc \in {"loop", "payload", "hit", "push", "finished"}
    /\ \A o \in Writers : Len(out[o].buf) <= BufSize
    /\ bg.pc \in {"idle", "push", "write", "flushing"}
    /\ bg.k \in 1 .. Len(conf.outs) /\ bg.part \in 1 .. RecordLen + 1
    /\ closer.pc \in {"away", "close", "flushing", "fd", "exit"}
    /\ hits \in 0 .. conf.hits
    /\ promised \in 0 .. Len(taken)

(* With a limit on the passes no more hits are made than the good records  *)
(* of so many passes, over one input or, with EnableRegexes, over one for  *)
(* every worker.                                                           *)
LimitHonoured ==
    conf.iterationLimit > 0 =>
        Len(taken) + Cardinality({w \in Workers : worker[w].pc \in {"hit", "push"}})
            <= conf.iterationLimit * Cardinality({k \in DOMAIN conf.payload : Good(conf.payload[k])})
               * Cardinality(Inputs)

(* Every number in the binary file, also in a record that is still cut, is *)
(* in the strings file already: the reader never has to wait for a string, *)
(* although the two files are written and read one after the other.        *)
StringsBeforeRecords ==
    \A k \in DOMAIN out["binary"].file :
        LET rec == out["binary"].file[k].rec
        IN  rec.error <= Len(strFile) /\ rec.label <= Len(strFile)

(* While the output is open and background idle, the first result of every *)
(* second is in the binary file: a reader is never more than the results   *)
(* of the current second behind.                                           *)
SecondOnDisk ==
    Format = "binary" /\ Alive /\ closer.pc = "away" /\ ~Busy =>
        \A i \in DOMAIN taken :
            (\A j \in 1 .. i - 1 : taken[j].ts < taken[i].ts)
                => i * RecordLen <= Len(ResultsFile)

(* Result i in the data of writer o: as many records are before it there   *)
(* as there are results before it that the writer records.                 *)
Recorded(o, r) == o = "trace" => Traced(r)
Offset(o, i) == Cardinality({j \in 1 .. i - 1 : Recorded(o, taken[j])}) * RecordLen
Encoded(o, r) ==
    IF o = "binary"
    THEN [r EXCEPT !.label = Idx(index, @), !.error = Idx(index, @)]
    ELSE r
InData(o, i, data) ==
    /\ Offset(o, i) + RecordLen <= Len(data)
    /\ \A part \in 1 .. RecordLen :
           data[Offset(o, i) + part] = Units(Encoded(o, taken[i]))[part]

(* After Close every file starts with all the results that background was  *)
(* done with before it, whatever background does in the meantime.          *)
ClosedComplete ==
    outcome = "exited" =>
        \A k \in DOMAIN conf.outs, i \in 1 .. promised :
            LET o == conf.outs[k]
            IN  Recorded(o, taken[i]) => InData(o, i, out[o].file)

(* A worker that waits for a record gets one, or learns that there is none *)
(* - unless the payload file is empty: good and bad are 0 then, their      *)
(* ratio is NaN, and the input rewinds the file for ever.                  *)
InputServes ==
    \A w \in Workers :
        conf.payload # << >> => [](worker[w].pc = "payload" => <>(worker[w].pc # "payload" \/ ~Alive))

(* Once Run has returned the process ends, and when it ends by itself the  *)
(* reader gets to all the results that background was done with by then.   *)
ResultsArrive ==
    closer.pc # "away" ~>
        /\ outcome # "running"
        /\ outcome = "exited" => promised <= Len(reader.seen)

(* The pipeline implements the stream of results.                          *)
Stream == INSTANCE ResultStream WITH sealed <- closer.pc # "away", seen <- reader.seen
StreamSpec == Stream!StreamSpec

-----------------------------------------------------------------------------
(* A claim of the documentation that the code does not keep.               *)

(* The strings file is "the place to write output string index" for the    *)
(* binary file: while the output is open the reader gets for every result  *)
(* the label and the error that were pushed.                               *)
ReadAsPushed ==
    closer.pc = "away" =>
        \A i \in DOMAIN reader.seen : reader.seen[i] = taken[i]
=============================================================================
