---------------------------- MODULE PayloadInput ----------------------------
(***************************************************************************)
(* NewInput (pkg/core/input.go): the goroutine that reads payload records, *)
(* decodes them and sends them to the workers, pass after pass over the    *)
(* file, and what a worker makes of a record.                              *)
(*                                                                         *)
(* Of a record the model keeps how its parts decode:                       *)
(*   meta: "ok", "broken" (the JSON does not parse, plen is found by       *)
(*         pLenRe), "no_plen" (nor is that), "long" (no newline in the     *)
(*         buffer);                                                        *)
(*   payload: "full" or "short";                                           *)
(*   regex: "ok", "broken" (one does not compile), "missing" (a number of  *)
(*         an expression or a name has no string);                         *)
(* and label, labelIdx, template (the label is a ${name} in Replaces),     *)
(* extract ("group": an extractor sets that name from a group of the first *)
(* match; "no_group": from a group or match that there is not; "none") and *)
(* asserts, the lines that its failing assertions add to the error.  A     *)
(* record has a label or the number of one, or neither.                    *)
(***************************************************************************)
EXTENDS Process

VARIABLES
    input,      \* input[i]: locals of the goroutine of input i
    regexCache  \* names of the regular expressions in the global regexCache

inputVars == <<input, regexCache>>

Inputs == IF conf.enableRegexes THEN Workers ELSE {1}
InputOf(w) == IF conf.enableRegexes THEN w ELSE 1

PayloadInputInit ==
    /\ input = [i \in Workers |->
                   [pc |-> "read", pos |-> 0, good |-> 0, bad |-> 0, iterations |-> 0]]
    /\ regexCache = {}

InputIndex == Load(InputStrings)

(* readPayloadRecord: a record ends the process, is skipped, or is sent.   *)
Fatal(rec) ==
    \/ rec.meta \in {"no_plen", "long"}
    \/ rec.meta = "ok" /\ (rec.payload = "short" \/ rec.regex = "missing")
Bad(rec)   == ~Fatal(rec) /\ (rec.meta = "broken" \/ rec.regex = "broken")
Good(rec)  == ~Fatal(rec) /\ ~Bad(rec)

Reading(i) == Alive /\ i \in Inputs /\ input[i].pc = "read"
AtEnd(i)   == input[i].pos = Len(conf.payload)
Next_(i)   == conf.payload[input[i].pos + 1]

(* What decodeExtracts and decodeAsserts look up in regexCache, and add    *)
(* when it is missing; what does not compile is not added.                 *)
Compiled(rec) ==
    ToSet(rec.asserts) \cup (IF rec.extract # "none" THEN {"extractor"} ELSE {})
Decodes(rec) == rec.regex = "broken" \/ Compiled(rec) # {}

ReadGood(i) ==
    /\ Reading(i) /\ ~AtEnd(i) /\ Good(Next_(i))
    /\ regexCache' = regexCache \cup Compiled(Next_(i))
    /\ input' = [input EXCEPT ![i].pc = "send", ![i].pos = @ + 1, ![i].good = @ + 1]
    /\ UNCHANGED processVars

ReadBad(i) ==
    /\ Reading(i) /\ ~AtEnd(i) /\ Bad(Next_(i))
    /\ input' = [input EXCEPT ![i].pos = @ + 1, ![i].bad = @ + 1]
    /\ UNCHANGED <<processVars, regexCache>>

ReadFatal(i) ==
    /\ Reading(i) /\ ~AtEnd(i) /\ Fatal(Next_(i))
    /\ Panic
    /\ UNCHANGED <<conf, inputVars>>

(* Mutant: one pass more than the limit.                                   *)
LastPass_OneMore(i) ==
    conf.iterationLimit > 0 /\ input[i].iterations + 1 > conf.iterationLimit

(* The pass that ends is the last one.                                     *)
LastPass(i) ==
    conf.iterationLimit > 0 /\ input[i].iterations + 1 >= conf.iterationLimit

(* float64(good)/float64(good+bad) < 0.5, which is false of 0/0.           *)
TooManyBad(i) == 2 * input[i].good < input[i].good + input[i].bad

Exhausted(i) ==
    /\ Reading(i) /\ AtEnd(i) /\ LastPass(i)
    /\ input' = [input EXCEPT ![i].pc = "closed"]
    /\ UNCHANGED <<processVars, regexCache>>

Problematic(i) ==
    /\ Reading(i) /\ AtEnd(i) /\ ~LastPass(i) /\ TooManyBad(i)
    /\ Panic
    /\ UNCHANGED <<conf, inputVars>>

(* Mutant: the file is not read again from its start.                      *)
Rewind_NoSeek(i) ==
    /\ Reading(i) /\ AtEnd(i) /\ ~LastPass(i) /\ ~TooManyBad(i)
    /\ input' = [input EXCEPT ![i].iterations = IF conf.iterationLimit > 0 THEN @ + 1 ELSE @]
    /\ UNCHANGED <<processVars, regexCache>>

(* Without a limit the code counts iterations too, but reads them nowhere. *)
Rewind(i) ==
    /\ Reading(i) /\ AtEnd(i) /\ ~LastPass(i) /\ ~TooManyBad(i)
    /\ input' = [input EXCEPT ![i].pos = 0,
                              ![i].iterations = IF conf.iterationLimit > 0 THEN @ + 1 ELSE @]
    /\ UNCHANGED <<processVars, regexCache>>

InputStep(i) ==
    \/ ReadGood(i) \/ ReadBad(i) \/ ReadFatal(i)
    \/ Exhausted(i) \/ Problematic(i) \/ Rewind(i)

(* The send and its receive: the item, which is the record read last.      *)
Offers(i) == i \in Inputs /\ input[i].pc = "send"
Item(i) == conf.payload[input[i].pos]
Taken(i) == input' = [input EXCEPT ![i].pc = "read"] /\ UNCHANGED regexCache
InputClosed(i) == input[i].pc = "closed"

-----------------------------------------------------------------------------
(* PayloadItem.ResolveStrings: a number of a string is looked up, which    *)
(* panics when there is no such string.                                    *)
Resolvable(rec) == rec.label = EmptyString => CanGet(InputIndex, rec.labelIdx)
Resolved(rec) ==
    IF rec.label = EmptyString THEN Get(InputIndex, rec.labelIdx) ELSE rec.label

(* PayloadItem.ReplaceValues: the value of the worker in the label, by a   *)
(* regular expression from regexCache.                                     *)
LabelOf(rec, value) == IF rec.template THEN value ELSE Resolved(rec)
Replaced(rec) == IF rec.template THEN {"name"} ELSE {}
=============================================================================
