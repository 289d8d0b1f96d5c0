------------------------------ MODULE ResultLog ------------------------------
(***************************************************************************)
(* Output (pkg/core/output.go): the goroutine background that takes the    *)
(* results one by one and gives each to every writer, the writers with     *)
(* their bufio buffers, the string index of the binary format, and Close,  *)
(* which the main goroutine calls while background may still be at work.   *)
(*                                                                         *)
(* A record is RecordLen units of bytes, a unit is what one write to bufio *)
(* puts there, and a buffer has room for BufSize units.  The reader (see   *)
(* KPIReader) may find a file cut after any unit.                          *)
(***************************************************************************)
EXTENDS Process

CONSTANTS
    RecordLen,     \* units of a record
    BufSize,       \* units that fit in a bufio.Writer
    TraceLevel     \* output.ReqRespFileLevel

ASSUME ResultLogAssumption ==
    /\ RecordLen \in Nat \ {0}
    /\ BufSize \in Nat \ {0} /\ RecordLen <= BufSize
    /\ TraceLevel \in Nat

VARIABLES
    out,        \* out[o]: buffer, file, open descriptor and sticky error of writer o
    index,      \* Output.strIndex
    strFile,    \* the lines of output.StringsFile
    lastTS,     \* BinaryOut.lastTS
    bg,         \* background: its place, the writer it is at, its locals
    closer,     \* the main goroutine in Output.Close
    taken,      \* every result background has received, in order (history)
    promised    \* those it was done with when Close began (history)

logVars == <<out, index, strFile, lastTS, bg, closer, taken, promised>>

NoResult == [label |-> EmptyString, error |-> EmptyString, ts |-> 0, status |-> 0]
IdleBackground == [pc |-> "idle", k |-> 1, part |-> 1, n |-> 0, rec |-> NoResult]

(* NewOutput, and the copy of the input strings that Run makes before it.  *)
ResultLogInit ==
    /\ out = [o \in Writers |-> [buf |-> << >>, file |-> << >>, open |-> TRUE, err |-> FALSE]]
    /\ index = Load(InputStrings)
    /\ strFile = InputStrings
    /\ lastTS = 0
    /\ bg = IdleBackground
    /\ closer = [pc |-> "away", k |-> 1, n |-> 0]
    /\ taken = << >>
    /\ promised = 0

-----------------------------------------------------------------------------
(* bufio.Writer.Flush has no lock: it writes the buffer, and then drops    *)
(* what it has written.  If another goroutine has added to the buffer in   *)
(* between, the addition is dropped too, or taken for a short write, or    *)
(* its update of the length undoes that of the flush.                      *)
FlushStart(b) ==
    IF b.err \/ b.buf = << >> THEN b
    ELSE IF b.open THEN [b EXCEPT !.file = @ \o b.buf]
    ELSE [b EXCEPT !.err = TRUE]

(* How much a flush that starts now will have written at its end.          *)
FlushLen(b) == IF b.err \/ ~b.open THEN 0 ELSE Len(b.buf)

FlushEnds(b, n) ==
    IF n = 0 THEN {b}
    ELSE {[b EXCEPT !.buf = << >>]}
         \cup IF n < Len(b.buf)
              THEN {b, [b EXCEPT !.buf = SubSeq(@, n + 1, Len(@)), !.err = TRUE]}
              ELSE {}

Units(rec) == [part \in 1 .. RecordLen |-> [part |-> part, rec |-> rec]]

(* bufio.Writer.Write of a whole record that no other goroutine disturbs.  *)
WriteLine(b, rec) ==
    LET all  == b.buf \o Units(rec)
        full == FlushStart([b EXCEPT !.buf = SubSeq(all, 1, BufSize)])
    IN  IF b.err THEN b
        ELSE IF Len(all) <= BufSize THEN [b EXCEPT !.buf = all]
        ELSE [full EXCEPT !.buf = SubSeq(all, BufSize + 1, Len(all))]

-----------------------------------------------------------------------------
(* Output.background and the Push methods of the writers.                  *)
Busy == bg.pc # "idle"
Writer == conf.outs[bg.k]
At(pc) == Alive /\ bg.pc = pc

(* The receive from pipe, of the result r of a worker in Output.Push.      *)
Receive(r) ==
    /\ At("idle")
    /\ bg' = [IdleBackground EXCEPT !.pc = "push", !.rec = r]
    /\ taken' = Append(taken, r)
    /\ UNCHANGED <<conf, outcome, out, index, strFile, lastTS, closer, promised>>

(* On to the next writer, or to the next result.                           *)
Proceed ==
    IF bg.k < Len(conf.outs)
    THEN /\ bg' = [IdleBackground EXCEPT !.pc = "push", !.k = bg.k + 1, !.rec = taken[Len(taken)]]
         /\ UNCHANGED promised
    ELSE /\ bg' = IdleBackground
         /\ promised' = IF closer.pc = "away" THEN Len(taken) ELSE promised

(* LDJSONOut.Push, under the mutex that LDJSONOut.Close takes too.         *)
PushLDJSON ==
    /\ At("push") /\ Writer = "ldjson"
    /\ out' = [out EXCEPT !["ldjson"] = WriteLine(@, bg.rec)]
    /\ IF out'["ldjson"].err
       THEN Panic /\ UNCHANGED <<bg, promised>>
       ELSE Proceed /\ UNCHANGED outcome
    /\ UNCHANGED <<conf, index, strFile, lastTS, closer, taken>>

(* BinaryOut.Push up to WriteBinary: error and label become numbers.       *)
IndexStrings ==
    /\ At("push") /\ Writer = "binary"
    /\ LET e == bg.rec.error
           l == bg.rec.label
           withError == IF e = EmptyString THEN index ELSE WithString(index, e)
           fileError == IF e = EmptyString THEN strFile ELSE AppendFile(index, strFile, e)
       IN  /\ index'   = IF l = EmptyString THEN withError ELSE WithString(withError, l)
           /\ strFile' = IF l = EmptyString THEN fileError ELSE AppendFile(withError, fileError, l)
           /\ bg' = [bg EXCEPT !.pc = "write",
                               !.rec.error = IF e = EmptyString THEN 0 ELSE Idx(index, e),
                               !.rec.label = IF l = EmptyString THEN 0 ELSE Idx(withError, l)]
    /\ UNCHANGED <<conf, outcome, out, lastTS, closer, taken, promised>>

(* ReqRespOut.Push: only results from the level on are traced.             *)
Traced(r) == r.status >= TraceLevel

PushTrace ==
    /\ At("push") /\ Writer = "trace"
    /\ IF Traced(bg.rec)
       THEN bg' = [bg EXCEPT !.pc = "write"] /\ UNCHANGED promised
       ELSE Proceed
    /\ UNCHANGED <<conf, outcome, out, index, strFile, lastTS, closer, taken>>

(* One write of WriteBinary or of the trace.  An error of bufio stays, and *)
(* ends the process; the trace looks at the error of its first write only. *)
Room == Len(out[Writer].buf) < BufSize
WriteMore == At("write") /\ bg.part <= RecordLen

WriteUnit ==
    /\ WriteMore /\ Room /\ ~out[Writer].err
    /\ out' = [out EXCEPT ![Writer].buf = Append(@, Units(bg.rec)[bg.part])]
    /\ bg' = [bg EXCEPT !.part = @ + 1]
    /\ UNCHANGED <<conf, outcome, index, strFile, lastTS, closer, taken, promised>>

WriteFails ==
    /\ WriteMore /\ out[Writer].err
    /\ IF Writer = "binary" \/ bg.part = 1
       THEN Panic /\ UNCHANGED bg
       ELSE bg' = [bg EXCEPT !.part = @ + 1] /\ UNCHANGED outcome
    /\ UNCHANGED <<conf, out, index, strFile, lastTS, closer, taken, promised>>

StartFlush ==
    /\ out' = [out EXCEPT ![Writer] = FlushStart(@)]
    /\ bg' = [bg EXCEPT !.pc = "flushing", !.n = FlushLen(out[Writer])]

WriteToFull ==
    /\ WriteMore /\ ~Room /\ ~out[Writer].err
    /\ StartFlush
    /\ UNCHANGED <<conf, outcome, index, strFile, lastTS, closer, taken, promised>>

(* A flush ends: on with the write it made room for, or with what follows  *)
(* the record.                                                             *)
FlushReturns ==
    /\ At("flushing")
    /\ \E b \in FlushEnds(out[Writer], bg.n) : out' = [out EXCEPT ![Writer] = b]
    /\ IF bg.part <= RecordLen
       THEN bg' = [bg EXCEPT !.pc = "write"] /\ UNCHANGED promised
       ELSE Proceed
    /\ UNCHANGED <<conf, outcome, index, strFile, lastTS, closer, taken>>

(* Mutant: a record flushes the buffer only two seconds after the last.    *)
NewSecond_Later == Writer = "binary" /\ bg.rec.ts > lastTS + 1

(* The record is the first one of its second and of all later ones.        *)
NewSecond == Writer = "binary" /\ bg.rec.ts > lastTS

RecordWritten ==
    /\ At("write") /\ bg.part > RecordLen
    /\ IF NewSecond
       THEN StartFlush /\ lastTS' = bg.rec.ts /\ UNCHANGED promised
       ELSE Proceed /\ UNCHANGED <<out, lastTS>>
    /\ UNCHANGED <<conf, outcome, index, strFile, closer, taken>>

BackgroundStep ==
    \/ PushLDJSON \/ IndexStrings \/ PushTrace
    \/ WriteUnit \/ WriteFails \/ WriteToFull \/ FlushReturns \/ RecordWritten

-----------------------------------------------------------------------------
(* Output.Close, called when Run of the workload has returned.             *)
Closing(pc) == Alive /\ closer.pc = pc
Closed == conf.outs[closer.k]

RunReturns ==
    /\ Closing("away")
    /\ closer' = [closer EXCEPT !.pc = "close"]
    /\ UNCHANGED <<conf, outcome, out, index, strFile, lastTS, bg, taken, promised>>

NextWriter ==
    closer' = [pc |-> IF closer.k < Len(conf.outs) THEN "close" ELSE "exit",
               k |-> closer.k + 1, n |-> 0]

(* Mutant: the descriptor is closed without a flush.                       *)
CloseLDJSON_NoFlush ==
    /\ Closing("close") /\ Closed = "ldjson"
    /\ out' = [out EXCEPT !["ldjson"].open = FALSE]
    /\ NextWriter
    /\ UNCHANGED <<conf, outcome, index, strFile, lastTS, bg, taken, promised>>

(* LDJSONOut.Close, under the mutex of Push.                               *)
CloseLDJSON ==
    /\ Closing("close") /\ Closed = "ldjson"
    /\ out' = [out EXCEPT !["ldjson"] = [FlushStart(@) EXCEPT !.buf = << >>, !.open = FALSE]]
    /\ NextWriter
    /\ UNCHANGED <<conf, outcome, index, strFile, lastTS, bg, taken, promised>>

(* Mutant: the same in the other writers.                                  *)
CloseFlushes_Not ==
    /\ Closing("close") /\ Closed # "ldjson"
    /\ closer' = [closer EXCEPT !.pc = "fd"]
    /\ UNCHANGED <<conf, outcome, out, index, strFile, lastTS, bg, taken, promised>>

(* BinaryOut.Close and ReqRespOut.Close: no lock.                          *)
CloseFlushes ==
    /\ Closing("close") /\ Closed # "ldjson"
    /\ out' = [out EXCEPT ![Closed] = FlushStart(@)]
    /\ closer' = [closer EXCEPT !.pc = "flushing", !.n = FlushLen(out[Closed])]
    /\ UNCHANGED <<conf, outcome, index, strFile, lastTS, bg, taken, promised>>

CloseFlushReturns ==
    /\ Closing("flushing")
    /\ \E b \in FlushEnds(out[Closed], closer.n) : out' = [out EXCEPT ![Closed] = b]
    /\ closer' = [closer EXCEPT !.pc = "fd"]
    /\ UNCHANGED <<conf, outcome, index, strFile, lastTS, bg, taken, promised>>

CloseDescriptor ==
    /\ Closing("fd")
    /\ out' = [out EXCEPT ![Closed].open = FALSE]
    /\ NextWriter
    /\ UNCHANGED <<conf, outcome, index, strFile, lastTS, bg, taken, promised>>

MainReturns ==
    /\ Closing("exit")
    /\ outcome' = "exited"
    /\ UNCHANGED <<conf, logVars>>

CloseStep ==
    \/ CloseLDJSON \/ CloseFlushes \/ CloseFlushReturns \/ CloseDescriptor \/ MainReturns
=============================================================================
