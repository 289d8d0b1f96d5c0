------------------------------ MODULE KPIReader ------------------------------
(***************************************************************************)
(* KPIReaderBinary and KPIReaderLDJSON (taurus/encarno/__init__.py): the   *)
(* process that follows the results file while encarno writes it.  It      *)
(* keeps a record cut at the end of the file in partial_buffer, and reads  *)
(* the strings file only when a number is not in its map.  The FileReader  *)
(* of Taurus, which returns what the file has beyond its offset, up to a   *)
(* limit, is external.                                                     *)
(***************************************************************************)
EXTENDS ResultLog

CONSTANT ReadSize   \* units that one read of the file returns at most

ASSUME ReadSizeAssumption == ReadSize \in Nat \ {0}

VARIABLE reader   \* offset in the file, partial_buffer, str_map, results yielded

KPIReaderInit ==
    reader = [offset |-> 0, partial |-> << >>, strMap |-> <<EmptyString>>, seen |-> << >>]

Format == conf.outs[1]
ResultsFile == out[Format].file

(* Where whole records end in the data: after every CHUNK_LEN bytes, or at *)
(* a newline.                                                              *)
Ends(data) ==
    LET S == {k \in DOMAIN data : IF Format = "binary" THEN k % RecordLen = 0
                                  ELSE data[k].part = RecordLen}
        D == 1 .. Cardinality(S)
    IN  CHOOSE ends \in [D -> S] : \A i, j \in D : i < j => ends[i] < ends[j]

(* Mutant: records are cut at the end of the data.                         *)
Frames_FromEnd(data) ==
    [k \in 1 .. Len(data) \div RecordLen |->
        SubSeq(data, (Len(data) % RecordLen) + (k - 1) * RecordLen + 1,
                     (Len(data) % RecordLen) + k * RecordLen)]

Frames(data) ==
    LET ends == <<0>> \o Ends(data)
    IN  [k \in 1 .. Len(ends) - 1 |-> SubSeq(data, ends[k] + 1, ends[k + 1])]

(* partial_buffer after a read.                                            *)
Rest(data) == SubSeq(data, Last(<<0>> \o Ends(data)) + 1, Len(data))

(* _get_strindex: a number beyond the map makes it read the lines the file *)
(* has more.  The code tries ten times, the model once.                    *)
Missing(map, rec) == ~CanGet(map, rec.error) \/ ~CanGet(map, rec.label)
Lookup(map, n) == IF CanGet(map, n) THEN Get(map, n) ELSE <<"INDEX_NOT_FOUND">>

(* Bytes of several records, decoded as one.  (The LDJSON reader would     *)
(* skip them, but nothing damages its file.)                               *)
Garbage == [label |-> <<"GARBAGE">>, error |-> <<"GARBAGE">>, ts |-> 0, status |-> 0]

Decoded(map, frame) ==
    LET rec == frame[1].rec
    IN  IF frame # Units(rec) THEN Garbage
        ELSE IF Format # "binary" THEN rec
        ELSE [rec EXCEPT !.label = Lookup(map, @),
                         !.error = IF @ > 0 THEN Lookup(map, @) ELSE EmptyString]

(* FileReader.get_bytes or get_lines.                                      *)
NewData ==
    SubSeq(ResultsFile, reader.offset + 1,
           IF reader.offset + ReadSize < Len(ResultsFile)
           THEN reader.offset + ReadSize ELSE Len(ResultsFile))

(* One call of _read.  The strings that encarno adds while it runs are not *)
(* needed for the data that it has.                                        *)
Read ==
    LET data   == reader.partial \o NewData
        frames == Frames(data)
        map    == IF Format = "binary" /\ \E f \in ToSet(frames) : Missing(reader.strMap, f[1].rec)
                  THEN Load(strFile) ELSE reader.strMap
    IN  /\ NewData # << >>
        /\ reader' = [offset  |-> reader.offset + Len(NewData),
                      partial |-> Rest(data),
                      strMap  |-> map,
                      seen    |-> reader.seen \o [k \in DOMAIN frames |-> Decoded(map, frames[k])]]
        /\ UNCHANGED <<processVars, logVars>>
=============================================================================
