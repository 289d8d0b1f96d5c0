----------------------------- MODULE PipelineProofs -----------------------------
(***************************************************************************)
(* Theorems about Pipeline, for every payload file, every configuration of *)
(* outputs and any number of workers: the types, the order of the strings  *)
(* and the records that refer to them, the limit on the passes over the    *)
(* payload file, what the files hold and when, and what the reader sees of *)
(* them, which is that Pipeline implements ResultStream.                   *)
(***************************************************************************)
EXTENDS Pipeline, FoldProofs

-----------------------------------------------------------------------------
(* Strings and their numbers                                               *)

(* A string that is known has a place in the list, its last one.           *)
LEMMA PlaceFound ==
    ASSUME NEW list \in Seq(Strings), NEW s
    PROVE  /\ Place(list, s) \in 0 .. Len(list)
           /\ Place(list, s) # 0 => /\ list[Place(list, s)] = s
                                    /\ \A i \in 1 .. Len(list) : list[i] = s => i <= Place(list, s)
           /\ Place(list, s) = 0 => \A i \in 1 .. Len(list) : list[i] # s
<1> DEFINE I == {i \in 1 .. Len(list) : list[i] = s}
<1>1. Place(list, s) = IF I # {} THEN Max(I) ELSE 0
  BY DEF Place, SelectLastInSeq
<1>2. Len(list) \in Nat /\ I \in SUBSET (1 .. Len(list))
  BY LenProperties
<1>3. CASE I = {}
  BY <1>1, <1>2, <1>3
<1>4. CASE I # {}
  <2>1. Max(I) \in I /\ \A i \in I : Max(I) >= i
    <3> HIDE DEF I
    <3> QED
      BY <1>2, <1>4, MaxOfPositions
  <2> QED
    BY <1>1, <1>2, <1>4, <2>1
<1> QED
  BY <1>3, <1>4

(* The remainder of a division is no greater than what is divided.         *)
LEMMA ModShrinks ==
    ASSUME NEW x \in Nat, NEW d \in Nat \ {0}
    PROVE  x % d \in 0 .. x
OBVIOUS

(* The number of a string is one that the list has, once it has the string.*)
LEMMA IdxBound ==
    ASSUME NEW list \in Seq(Strings), NEW s \in Strings
    PROVE  /\ WithString(list, s) \in Seq(Strings)
           /\ Len(WithString(list, s)) \in Nat /\ Len(list) <= Len(WithString(list, s))
           /\ Idx(list, s) \in 0 .. Len(WithString(list, s)) - 1
<1>1. Len(list) \in Nat
  BY LenProperties
<1>2. CASE Known(list, s)
  <2>1. Place(list, s) - 1 \in 0 .. Len(list) - 1
    BY <1>1, <1>2, PlaceFound DEF Known
  <2>2. (Place(list, s) - 1) % IndexSpace \in 0 .. Place(list, s) - 1
    BY <2>1, ModShrinks, IndexSpaceAssumption
  <2> QED
    BY <1>1, <1>2, <2>1, <2>2 DEF WithString, Idx
<1>3. CASE ~Known(list, s)
  <2>1. Append(list, s) \in Seq(Strings) /\ Len(Append(list, s)) = Len(list) + 1
    BY AppendProperties
  <2>2. Len(list) % IndexSpace \in 0 .. Len(list)
    BY <1>1, ModShrinks, IndexSpaceAssumption
  <2> QED
    BY <1>1, <1>3, <2>1, <2>2 DEF WithString, Idx
<1> QED
  BY <1>2, <1>3

(* A number stays what it is when the list grows.                          *)
LEMMA IdxStable ==
    ASSUME NEW list \in Seq(Strings), NEW s \in Strings, NEW t \in Strings,
           Known(list, s) \/ s = t
    PROVE  /\ Known(WithString(list, t), s)
           /\ Idx(WithString(list, t), s) = Idx(list, s)
<1> DEFINE n == Len(list)
           longer == Append(list, t)
<1>1. n \in Nat
  BY LenProperties
<1>2. CASE Known(list, t)
  BY <1>2 DEF WithString
<1>3. CASE ~Known(list, t)
  <2>1. /\ longer \in Seq(Strings) /\ Len(longer) = n + 1
        /\ longer[n + 1] = t /\ \A i \in 1 .. n : longer[i] = list[i]
    BY AppendProperties
  <2>2. WithString(list, t) = longer
    BY <1>3 DEF WithString
  <2> HIDE DEF longer
  <2>3. \A i \in 1 .. n : list[i] # t
    BY <1>3, PlaceFound DEF Known
  <2>4. CASE s = t
    <3>1. Place(longer, s) = n + 1
      BY <1>1, <2>1, <2>4, PlaceFound
    <3> QED
      BY <1>1, <1>3, <2>2, <2>4, <3>1 DEF Known, Idx
  <2>5. CASE s # t
    <3>1. Place(list, s) \in 1 .. n /\ list[Place(list, s)] = s
      BY <1>1, <2>5, PlaceFound DEF Known
    <3>2. \A i \in 1 .. n : list[i] = s => i <= Place(list, s)
      BY <3>1, PlaceFound
    <3>3. longer[Place(list, s)] = s /\ Place(list, s) \in 1 .. n + 1
      BY <1>1, <2>1, <3>1
    <3>4. Place(longer, s) \in 1 .. n + 1 /\ longer[Place(longer, s)] = s
          /\ Place(list, s) <= Place(longer, s)
      BY <2>1, <3>3, PlaceFound
    <3>5. Place(longer, s) # n + 1
      BY <2>1, <2>5, <3>4
    <3>6. Place(longer, s) = Place(list, s)
      BY <1>1, <2>1, <3>1, <3>2, <3>4, <3>5
    <3> QED
      BY <1>1, <2>2, <3>1, <3>6 DEF Known, Idx
  <2> QED
    BY <2>4, <2>5
<1> QED
  BY <1>2, <1>3

(* The lines of a new string are in the file with it, and there is no      *)
(* string without a line.                                                  *)
LEMMA FileHasStrings ==
    ASSUME NEW list \in Seq(Strings), NEW lines \in Seq(Lines), NEW s \in Strings
    PROVE  /\ AppendFile(list, lines, s) \in Seq(Lines)
           /\ Len(AppendFile(list, lines, s)) \in Nat
           /\ Len(lines) <= Len(AppendFile(list, lines, s))
           /\ s # EmptyString /\ Len(list) <= Len(lines) + 1 =>
                Len(WithString(list, s)) <= Len(AppendFile(list, lines, s)) + 1
<1>1. Len(list) \in Nat /\ Len(lines) \in Nat /\ Len(s) \in Nat
  BY LenProperties DEF Strings
<1>2. lines \o s \in Seq(Lines) /\ Len(lines \o s) = Len(lines) + Len(s)
  BY ConcatProperties DEF Strings
<1>3. s # EmptyString => Len(s) # 0
  BY EmptySeq DEF Strings, EmptyString
<1>4. Len(Append(list, s)) = Len(list) + 1
  BY AppendProperties
<1>5. CASE Known(list, s)
  BY <1>1, <1>5 DEF AppendFile, WithString
<1>6. CASE ~Known(list, s)
  <2>1. Len(s) # 0 => Len(list) + 1 <= Len(lines) + Len(s) + 1 \/ ~(Len(list) <= Len(lines) + 1)
    BY <1>1
  <2>2. AppendFile(list, lines, s) = lines \o s /\ WithString(list, s) = Append(list, s)
    BY <1>6 DEF AppendFile, WithString
  <2>3. Len(lines) + Len(s) \in Nat /\ Len(lines) <= Len(lines) + Len(s)
    BY <1>1
  <2> QED
    BY <1>2, <1>3, <1>4, <2>1, <2>2, <2>3
<1> QED
  BY <1>5, <1>6

-----------------------------------------------------------------------------
(* The types of the output                                                 *)

Results == [label : Strings, error : Strings, ts : Nat, status : Nat]

(* Records of the binary file, with numbers that the strings file has.     *)
Numbered(lines) ==
    [label : 0 .. Len(lines), error : 0 .. Len(lines), ts : Nat, status : Nat]

Cells(R) == [part : 1 .. RecordLen, rec : R]
Buffers(R) == [buf : Seq(Cells(R)), file : Seq(Cells(R)), open : BOOLEAN, err : BOOLEAN]
RecordsOf(o) == IF o = "binary" THEN Numbered(strFile) ELSE Results

OutOK ==
    /\ out = [o \in Writers |-> out[o]]
    /\ \A o \in Writers : out[o] \in Buffers(RecordsOf(o)) /\ Len(out[o].buf) <= BufSize

IndexOK ==
    /\ index \in Seq(Strings) /\ strFile \in Seq(Lines)
    /\ Len(index) <= Len(strFile) + 1

BackgroundOK ==
    /\ bg \in [pc : {"idle", "push", "write", "flushing"}, k : 1 .. Len(conf.outs),
                part : 1 .. RecordLen + 1, n : Nat, rec : Results \cup Numbered(strFile)]
    /\ taken \in Seq(Results) /\ promised \in 0 .. Len(taken)
    /\ bg.pc # "idle" => taken # << >>
    /\ bg.pc = "push" => bg.rec = taken[Len(taken)]
    /\ bg.pc \in {"write", "flushing"} => Writer # "ldjson" /\ bg.rec \in RecordsOf(Writer)

CloserOK ==
    /\ closer \in [pc : {"away", "close", "flushing", "fd", "exit"}, k : Nat, n : Nat]
    /\ closer.pc # "exit" => closer.k \in 1 .. Len(conf.outs)
    /\ closer.pc \in {"flushing", "fd"} => Closed # "ldjson"

LogTypeOK == conf \in Confs /\ lastTS \in Nat /\ OutOK /\ IndexOK /\ BackgroundOK /\ CloserOK

(* What may happen to the output in a step of the pipeline.                *)
LogStep ==
    \/ \E r \in Results : Receive(r)
    \/ BackgroundStep \/ RunReturns \/ CloseStep
    \/ UNCHANGED <<conf, logVars>>

(* What a configuration says of the writers: each is there once.           *)
LEMMA ConfFacts ==
    ASSUME conf \in Confs
    PROVE  /\ conf \in Configurations
           /\ conf.outs \in Seq(Writers) /\ Len(conf.outs) \in Nat \ {0}
           /\ DOMAIN conf.outs = 1 .. Len(conf.outs)
           /\ \A k \in 1 .. Len(conf.outs) : conf.outs[k] \in Writers
           /\ \A j, k \in 1 .. Len(conf.outs) : conf.outs[j] = conf.outs[k] => j = k
<1>1. conf \in Configurations /\ conf.outs # << >> /\ conf.outs \in Seq(Writers)
  BY ProcessAssumption DEF Configurations
<1>2. Len(conf.outs) \in Nat \ {0} /\ DOMAIN conf.outs = 1 .. Len(conf.outs)
  BY <1>1, LenProperties, EmptySeq
<1>3. \A k \in 1 .. Len(conf.outs) : conf.outs[k] \in Writers
  BY <1>1, ElementOfSeq
<1> QED
  BY <1>1, <1>2, <1>3, ProcessAssumption

(* A record is RecordLen units.                                            *)
LEMMA UnitsType ==
    ASSUME NEW R, NEW rec \in R
    PROVE  /\ Units(rec) \in Seq(Cells(R)) /\ Len(Units(rec)) = RecordLen
           /\ \A part \in 1 .. RecordLen : Units(rec)[part] = [part |-> part, rec |-> rec]
<1>1. RecordLen \in Nat
  BY ResultLogAssumption
<1>2. Units(rec) \in [1 .. RecordLen -> Cells(R)]
  BY DEF Units, Cells
<1>3. Units(rec) \in Seq(Cells(R))
  BY <1>1, <1>2, SeqDef
<1> QED
  BY <1>1, <1>2, <1>3, LenProperties DEF Units

(* What an update of a writer leaves.                                      *)
LEMMA BufferUpdates ==
    ASSUME NEW S, NEW b \in [buf : S, file : S, open : BOOLEAN, err : BOOLEAN], NEW x \in S
    PROVE  /\ [b EXCEPT !.buf = x] \in [buf : S, file : S, open : BOOLEAN, err : BOOLEAN]
           /\ [b EXCEPT !.buf = x].buf = x /\ [b EXCEPT !.buf = x].file = b.file
           /\ [b EXCEPT !.buf = x].open = b.open /\ [b EXCEPT !.buf = x].err = b.err
           /\ [b EXCEPT !.file = x] \in [buf : S, file : S, open : BOOLEAN, err : BOOLEAN]
           /\ [b EXCEPT !.file = x].buf = b.buf /\ [b EXCEPT !.file = x].file = x
           /\ [b EXCEPT !.file = x].open = b.open /\ [b EXCEPT !.file = x].err = b.err
           /\ [b EXCEPT !.err = TRUE] \in [buf : S, file : S, open : BOOLEAN, err : BOOLEAN]
           /\ [b EXCEPT !.err = TRUE].buf = b.buf /\ [b EXCEPT !.err = TRUE].file = b.file
           /\ [b EXCEPT !.err = TRUE].open = b.open /\ [b EXCEPT !.err = TRUE].err = TRUE
           /\ [b EXCEPT !.open = FALSE] \in [buf : S, file : S, open : BOOLEAN, err : BOOLEAN]
           /\ [b EXCEPT !.open = FALSE].buf = b.buf /\ [b EXCEPT !.open = FALSE].file = b.file
           /\ [b EXCEPT !.open = FALSE].open = FALSE /\ [b EXCEPT !.open = FALSE].err = b.err
<1>1. /\ [b EXCEPT !.buf = x] \in [buf : S, file : S, open : BOOLEAN, err : BOOLEAN]
      /\ [b EXCEPT !.buf = x].buf = x /\ [b EXCEPT !.buf = x].file = b.file
      /\ [b EXCEPT !.buf = x].open = b.open /\ [b EXCEPT !.buf = x].err = b.err
  OBVIOUS
<1>2. /\ [b EXCEPT !.file = x] \in [buf : S, file : S, open : BOOLEAN, err : BOOLEAN]
      /\ [b EXCEPT !.file = x].buf = b.buf /\ [b EXCEPT !.file = x].file = x
      /\ [b EXCEPT !.file = x].open = b.open /\ [b EXCEPT !.file = x].err = b.err
  OBVIOUS
<1>3. /\ [b EXCEPT !.err = TRUE] \in [buf : S, file : S, open : BOOLEAN, err : BOOLEAN]
      /\ [b EXCEPT !.err = TRUE].buf = b.buf /\ [b EXCEPT !.err = TRUE].file = b.file
      /\ [b EXCEPT !.err = TRUE].open = b.open /\ [b EXCEPT !.err = TRUE].err = TRUE
  OBVIOUS
<1>4. /\ [b EXCEPT !.open = FALSE] \in [buf : S, file : S, open : BOOLEAN, err : BOOLEAN]
      /\ [b EXCEPT !.open = FALSE].buf = b.buf /\ [b EXCEPT !.open = FALSE].file = b.file
      /\ [b EXCEPT !.open = FALSE].open = FALSE /\ [b EXCEPT !.open = FALSE].err = b.err
  OBVIOUS
<1> QED
  BY <1>1, <1>2, <1>3, <1>4

(* Flushes move units from the buffer to the file, or drop them.           *)
LEMMA FlushStartType ==
    ASSUME NEW R, NEW b \in Buffers(R)
    PROVE  /\ FlushStart(b) \in Buffers(R) /\ FlushStart(b).buf = b.buf
           /\ FlushStart(b).open = b.open
           /\ FlushStart(b).file = IF b.err \/ b.buf = << >> \/ ~b.open THEN b.file
                                   ELSE b.file \o b.buf
           /\ b.open => FlushStart(b).err = b.err
           /\ FlushLen(b) \in 0 .. Len(b.buf)
<1>1. /\ b.buf \in Seq(Cells(R)) /\ b.file \in Seq(Cells(R)) /\ Len(b.buf) \in Nat
      /\ b.open \in BOOLEAN /\ b.err \in BOOLEAN
  BY LenProperties DEF Buffers
<1>2. b.file \o b.buf \in Seq(Cells(R))
  BY <1>1, ConcatProperties
<1>3. FlushLen(b) \in 0 .. Len(b.buf)
  BY <1>1 DEF FlushLen
<1>4. CASE b.err \/ b.buf = << >>
  BY <1>3, <1>4 DEF FlushStart
<1>5. CASE ~(b.err \/ b.buf = << >>) /\ b.open
  BY <1>2, <1>3, <1>5, BufferUpdates DEF FlushStart, Buffers
<1>6. CASE ~(b.err \/ b.buf = << >>) /\ ~b.open
  BY <1>1, <1>3, <1>6, BufferUpdates DEF FlushStart, Buffers
<1> QED
  BY <1>1, <1>4, <1>5, <1>6

(* The end of a flush leaves the file alone, and empties a buffer that     *)
(* nobody else has added to.                                               *)
LEMMA FlushEndsType ==
    ASSUME NEW R, NEW b \in Buffers(R), NEW n \in Nat, NEW c \in FlushEnds(b, n)
    PROVE  /\ c \in Buffers(R) /\ c.file = b.file /\ c.open = b.open
           /\ Len(c.buf) <= Len(b.buf)
           /\ n = 0 => c = b
           /\ n # 0 /\ n = Len(b.buf) => c.buf = << >> /\ c.err = b.err
<1>1. b.buf \in Seq(Cells(R)) /\ Len(b.buf) \in Nat
  BY LenProperties DEF Buffers
<1>2. /\ << >> \in Seq(Cells(R)) /\ Len(<< >>) = 0
  BY EmptySeq
<1> DEFINE rest == SubSeq(b.buf, n + 1, Len(b.buf))
           half == [b EXCEPT !.buf = rest]
<1>3. n < Len(b.buf) => rest \in Seq(Cells(R)) /\ Len(rest) = Len(b.buf) - n
  BY <1>1, SubSeqProperties
<1>4. /\ [b EXCEPT !.buf = << >>] \in Buffers(R) /\ [b EXCEPT !.buf = << >>].buf = << >>
      /\ [b EXCEPT !.buf = << >>].file = b.file /\ [b EXCEPT !.buf = << >>].open = b.open
      /\ [b EXCEPT !.buf = << >>].err = b.err
  BY <1>2, BufferUpdates DEF Buffers
<1>5. n < Len(b.buf) => /\ half \in Buffers(R) /\ half.buf = rest
                        /\ half.file = b.file /\ half.open = b.open
  <2> HIDE DEF rest
  <2> QED
    BY <1>3, BufferUpdates DEF Buffers
<1>6. [b EXCEPT !.buf = rest, !.err = TRUE] = [half EXCEPT !.err = TRUE]
  OBVIOUS
<1> HIDE DEF rest, half
<1>7. n < Len(b.buf) => /\ [half EXCEPT !.err = TRUE] \in Buffers(R)
                        /\ [half EXCEPT !.err = TRUE].buf = rest
                        /\ [half EXCEPT !.err = TRUE].file = b.file
                        /\ [half EXCEPT !.err = TRUE].open = b.open
  BY <1>5, BufferUpdates DEF Buffers
<1>8. \/ c = b /\ (n = 0 \/ n < Len(b.buf))
      \/ c = [b EXCEPT !.buf = << >>] /\ n # 0
      \/ n # 0 /\ n < Len(b.buf) /\ c = [half EXCEPT !.err = TRUE]
  BY <1>6 DEF FlushEnds, rest
<1>9. CASE c = b /\ (n = 0 \/ n < Len(b.buf))
  BY <1>1, <1>9
<1>10. CASE c = [b EXCEPT !.buf = << >>] /\ n # 0
  BY <1>1, <1>2, <1>4, <1>10
<1>11. CASE n # 0 /\ n < Len(b.buf) /\ c = [half EXCEPT !.err = TRUE]
  <2>1. Len(rest) <= Len(b.buf) /\ n # 0 /\ n # Len(b.buf)
    BY <1>1, <1>3, <1>11
  <2> QED
    BY <1>7, <1>11, <2>1
<1> QED
  BY <1>8, <1>9, <1>10, <1>11

(* A whole line: what does not fit in the buffer pushes what does into the *)
(* file, and nothing is lost while the file is open.                       *)
LEMMA WriteLineType ==
    ASSUME NEW R, NEW b \in Buffers(R), Len(b.buf) <= BufSize, NEW rec \in R
    PROVE  /\ WriteLine(b, rec) \in Buffers(R) /\ Len(WriteLine(b, rec).buf) <= BufSize
           /\ WriteLine(b, rec).open = b.open
           /\ b.open /\ ~b.err =>
                /\ ~WriteLine(b, rec).err
                /\ WriteLine(b, rec).file \o WriteLine(b, rec).buf
                     = b.file \o (b.buf \o Units(rec))
           /\ ~b.open \/ b.err => WriteLine(b, rec).file = b.file
<1> DEFINE all == b.buf \o Units(rec)
           fits == SubSeq(all, 1, BufSize)
           rest == SubSeq(all, BufSize + 1, Len(all))
           filled == [b EXCEPT !.buf = fits]
           full == FlushStart(filled)
<1>1. /\ b.buf \in Seq(Cells(R)) /\ b.file \in Seq(Cells(R)) /\ Len(b.buf) \in Nat
      /\ b.open \in BOOLEAN /\ b.err \in BOOLEAN
  BY LenProperties DEF Buffers
<1>2. BufSize \in Nat \ {0} /\ RecordLen \in Nat \ {0} /\ RecordLen <= BufSize
  BY ResultLogAssumption
<1>3. all \in Seq(Cells(R)) /\ Len(all) = Len(b.buf) + RecordLen
  <2>1. PICK old, new : old = b.buf /\ new = Units(rec)
    OBVIOUS
  <2>2. old \in Seq(Cells(R)) /\ new \in Seq(Cells(R)) /\ Len(new) = RecordLen
    BY <1>1, <2>1, UnitsType
  <2>3. old \o new \in Seq(Cells(R)) /\ Len(old \o new) = Len(old) + Len(new)
    BY <2>2, ConcatProperties
  <2> QED
    BY <2>1, <2>2, <2>3
<1>4. WriteLine(b, rec) = IF b.err THEN b
                          ELSE IF Len(all) <= BufSize THEN [b EXCEPT !.buf = all]
                          ELSE [full EXCEPT !.buf = rest]
  BY DEF WriteLine
<1> HIDE DEF all
<1>5. CASE b.err
  BY <1>1, <1>4, <1>5
<1>6. CASE ~b.err /\ Len(all) <= BufSize
  <2>1. WriteLine(b, rec) = [b EXCEPT !.buf = all]
    BY <1>4, <1>6
  <2> QED
    <3>1. /\ [b EXCEPT !.buf = all] \in Buffers(R) /\ [b EXCEPT !.buf = all].buf = all
          /\ [b EXCEPT !.buf = all].file = b.file
          /\ [b EXCEPT !.buf = all].open = b.open /\ [b EXCEPT !.buf = all].err = b.err
      BY <1>3, BufferUpdates DEF Buffers
    <3>2. b.file \o all = b.file \o (b.buf \o Units(rec))
      BY DEF all
    <3> QED
      BY <1>1, <1>6, <2>1, <3>1, <3>2
<1>7. CASE ~b.err /\ ~(Len(all) <= BufSize)
  <2>1. /\ Len(all) \in Nat /\ BufSize \in 1 .. Len(all) /\ \A i \in 1 .. Len(all) : all[i] \in Cells(R)
        /\ Len(all) - BufSize <= BufSize
    BY <1>1, <1>2, <1>3, <1>7, ElementOfSeq
  <2>2. fits \in Seq(Cells(R)) /\ Len(fits) = BufSize
    BY <2>1, SubSeqProperties
  <2>3. rest \in Seq(Cells(R)) /\ Len(rest) = Len(all) - BufSize
    <3>1. BufSize + 1 \in Int /\ Len(all) \in Int /\ BufSize + 1 <= Len(all)
      BY <1>2, <1>7, <2>1
    <3>2. \A i \in BufSize + 1 .. Len(all) : all[i] \in Cells(R)
      BY <1>2, <2>1
    <3>3. rest \in Seq(Cells(R)) /\ Len(rest) = Len(all) - (BufSize + 1) + 1
      BY <3>1, <3>2, SubSeqProperties
    <3> QED
      BY <2>1, <3>3
  <2>4. fits \o rest = all
    <3>1. SubSeq(all, 1, Len(all)) = all
      BY <1>3, SubSeqFull
    <3>2. 1 \in 1 .. Len(all) + 1 /\ BufSize \in 1 - 1 .. Len(all) /\ Len(all) \in BufSize .. Len(all)
      BY <2>1
    <3>3. fits \o rest = SubSeq(all, 1, Len(all))
      BY <1>3, <3>2, ConcatAdjacentSubSeq
    <3> QED
      BY <3>1, <3>3
  <2>5. WriteLine(b, rec) = [full EXCEPT !.buf = rest]
    BY <1>4, <1>7
  <2>6. fits # << >>
    BY <1>2, <2>2, EmptySeq
  <2> HIDE DEF fits, rest
  <2>7. /\ filled \in Buffers(R) /\ filled.buf = fits /\ filled.file = b.file
        /\ filled.open = b.open /\ filled.err = b.err
    BY <1>1, <2>2, BufferUpdates DEF Buffers
  <2> HIDE DEF filled
  <2>8. /\ full \in Buffers(R) /\ full.open = b.open
        /\ full.file = IF b.open THEN b.file \o fits ELSE b.file
        /\ b.open => ~full.err
    BY <1>7, <2>6, <2>7, FlushStartType
  <2> HIDE DEF full
  <2>9. /\ [full EXCEPT !.buf = rest] \in Buffers(R) /\ [full EXCEPT !.buf = rest].buf = rest
        /\ [full EXCEPT !.buf = rest].file = full.file
        /\ [full EXCEPT !.buf = rest].open = full.open /\ [full EXCEPT !.buf = rest].err = full.err
    BY <2>3, <2>8, BufferUpdates DEF Buffers
  <2>10. (b.file \o fits) \o rest = b.file \o all
    <3> DEFINE S == Seq(Cells(R))
               f == b.file
    <3>0. f \in S /\ fits \in S /\ rest \in S
      BY <1>1, <2>2, <2>3
    <3>a. \A s, t, u \in S : (s \o t) \o u = s \o (t \o u)
      BY ConcatAssociative
    <3>1. (f \o fits) \o rest = f \o (fits \o rest)
      <4> HIDE DEF S, f
      <4> QED
        BY <3>0, <3>a
    <3> QED
      BY <2>4, <3>1
  <2>11. Len(rest) <= BufSize
    BY <2>1, <2>3
  <2> QED
    BY <1>7, <2>5, <2>8, <2>9, <2>10, <2>11 DEF all
<1> QED
  BY <1>5, <1>6, <1>7

(* A step of the output on one writer.                                     *)
LEMMA OutChange ==
    ASSUME OutOK, NEW o \in Writers, NEW b \in Buffers(RecordsOf(o)), Len(b.buf) <= BufSize,
           out' = [out EXCEPT ![o] = b], strFile' = strFile
    PROVE  OutOK' /\ out'[o] = b /\ \A w \in Writers : w # o => out'[w] = out[w]
<1>1. DOMAIN out = Writers
  BY DEF OutOK
<1>2. out' = [w \in Writers |-> IF w = o THEN b ELSE out[w]]
  BY <1>1
<1>3. \A w \in Writers : out'[w] = IF w = o THEN b ELSE out[w]
  BY <1>2
<1>4. out' = [w \in Writers |-> out'[w]]
  BY <1>2
<1> QED
  BY <1>3, <1>4 DEF OutOK, RecordsOf

(* On to the next writer or result.                                        *)
LEMMA ProceedType ==
    ASSUME conf \in Confs, BackgroundOK, bg.pc # "idle", Proceed,
           UNCHANGED <<conf, strFile, closer, taken>>
    PROVE  BackgroundOK'
<1>1. Len(conf.outs) \in Nat \ {0} /\ RecordLen \in Nat \ {0} /\ Len(taken) \in Nat
  BY ConfFacts, ResultLogAssumption, LenProperties DEF BackgroundOK
<1>2. NoResult \in Results
  BY EmptySeq DEF NoResult, Results, Strings, EmptyString
<1>3. taken # << >> /\ taken[Len(taken)] \in Results
  <2>1. taken \in Seq(Results) /\ taken # << >>
    BY DEF BackgroundOK
  <2>2. Len(taken) \in 1 .. Len(taken)
    BY <2>1, EmptySeq
  <2> QED
    BY <2>1, <2>2, ElementOfSeq
<1>4. bg.k \in 1 .. Len(conf.outs) /\ promised \in 0 .. Len(taken) /\ taken \in Seq(Results)
  BY DEF BackgroundOK
<1>5. CASE bg.k < Len(conf.outs)
  <2>1. /\ bg' = [pc |-> "push", k |-> bg.k + 1, part |-> 1, n |-> 0, rec |-> taken[Len(taken)]]
        /\ promised' = promised
    BY <1>5 DEF Proceed, IdleBackground
  <2>2. bg.k + 1 \in 1 .. Len(conf.outs) /\ 1 \in 1 .. RecordLen + 1
    BY <1>1, <1>4, <1>5
  <2> QED
    BY <1>3, <1>4, <2>1, <2>2 DEF BackgroundOK
<1>6. CASE ~(bg.k < Len(conf.outs))
  <2>1. /\ bg' = [pc |-> "idle", k |-> 1, part |-> 1, n |-> 0, rec |-> NoResult]
        /\ promised' \in 0 .. Len(taken)
    BY <1>1, <1>4, <1>6 DEF Proceed, IdleBackground
  <2>2. 1 \in 1 .. Len(conf.outs) /\ 1 \in 1 .. RecordLen + 1
    BY <1>1
  <2> QED
    BY <1>2, <1>3, <1>4, <2>1, <2>2 DEF BackgroundOK
<1> QED
  BY <1>5, <1>6

(* The types, of the writer that background is at.                         *)
LEMMA LogFacts ==
    ASSUME LogTypeOK
    PROVE  /\ Writer \in Writers
           /\ Len(conf.outs) \in Nat \ {0} /\ RecordLen \in Nat \ {0} /\ BufSize \in Nat \ {0}
           /\ out[Writer] \in Buffers(RecordsOf(Writer)) /\ Len(out[Writer].buf) <= BufSize
           /\ Len(out[Writer].buf) \in Nat
           /\ bg.part \in 1 .. RecordLen + 1 /\ bg.k \in 1 .. Len(conf.outs) /\ bg.n \in Nat
           /\ closer.k \in Nat /\ closer.n \in Nat
           /\ Len(taken) \in Nat /\ promised \in 0 .. Len(taken)
           /\ Len(index) \in Nat /\ Len(strFile) \in Nat
<1>1. /\ bg.k \in 1 .. Len(conf.outs) /\ bg.part \in 1 .. RecordLen + 1 /\ bg.n \in Nat
      /\ closer.k \in Nat /\ closer.n \in Nat /\ promised \in 0 .. Len(taken)
      /\ taken \in Seq(Results) /\ index \in Seq(Strings) /\ strFile \in Seq(Lines)
  BY DEF LogTypeOK, BackgroundOK, CloserOK, IndexOK
<1>2. Len(taken) \in Nat /\ Len(index) \in Nat /\ Len(strFile) \in Nat
  BY <1>1, LenProperties
<1>3. Writer \in Writers /\ Len(conf.outs) \in Nat \ {0}
  BY <1>1, ConfFacts DEF LogTypeOK, Writer
<1>4. out[Writer] \in Buffers(RecordsOf(Writer)) /\ Len(out[Writer].buf) <= BufSize
  BY <1>3 DEF LogTypeOK, OutOK
<1>5. Len(out[Writer].buf) \in Nat
  BY <1>4, LenProperties DEF Buffers
<1> QED
  BY <1>1, <1>2, <1>3, <1>4, <1>5, ResultLogAssumption

(* The steps of background, one after the other.                           *)
LEMMA ReceiveType ==
    ASSUME LogTypeOK, NEW r \in Results, Receive(r)
    PROVE  LogTypeOK'
<1>1. /\ bg' = [pc |-> "push", k |-> 1, part |-> 1, n |-> 0, rec |-> r]
      /\ taken' = Append(taken, r) /\ promised' = promised
      /\ UNCHANGED <<conf, out, index, strFile, lastTS, closer>>
  BY DEF Receive, IdleBackground
<1>2. /\ taken' \in Seq(Results) /\ Len(taken') = Len(taken) + 1 /\ taken'[Len(taken')] = r
  <2>1. taken \in Seq(Results)
    BY DEF LogTypeOK, BackgroundOK
  <2> QED
    BY <1>1, <2>1, AppendProperties
<1>3. taken' # << >>
  <2>1. Len(taken') # 0
    BY <1>2, LogFacts
  <2> QED
    BY <2>1, EmptySeq
<1>4. 1 \in 1 .. Len(conf.outs) /\ 1 \in 1 .. RecordLen + 1 /\ promised \in 0 .. Len(taken')
  BY <1>2, LogFacts
<1>5. BackgroundOK'
  BY <1>1, <1>2, <1>3, <1>4 DEF BackgroundOK
<1> QED
  BY <1>1, <1>5 DEF LogTypeOK, OutOK, IndexOK, CloserOK, RecordsOf, Closed

(* The steps of background, one by one: the types.                         *)
LEMMA PushLDJSONType ==
    ASSUME LogTypeOK, PushLDJSON
    PROVE  LogTypeOK'
<1>1. /\ bg.pc = "push" /\ Writer = "ldjson"
      /\ out' = [out EXCEPT !["ldjson"] = WriteLine(out["ldjson"], bg.rec)]
      /\ UNCHANGED <<conf, index, strFile, lastTS, closer, taken>>
      /\ UNCHANGED <<bg, promised>> \/ Proceed
  BY DEF PushLDJSON, At
<1>2. bg.rec \in Results
  <2>1. taken \in Seq(Results) /\ taken # << >> /\ bg.rec = taken[Len(taken)]
    BY <1>1 DEF LogTypeOK, BackgroundOK
  <2>2. Len(taken) \in 1 .. Len(taken)
    BY <2>1, EmptySeq
  <2> QED
    BY <2>1, <2>2, ElementOfSeq
<1>3. /\ WriteLine(out["ldjson"], bg.rec) \in Buffers(RecordsOf("ldjson"))
      /\ Len(WriteLine(out["ldjson"], bg.rec).buf) <= BufSize
  BY <1>2, WriteLineType DEF LogTypeOK, OutOK, RecordsOf, Writers
<1>4. OutOK'
  BY <1>1, <1>3, OutChange DEF LogTypeOK, Writers
<1>5. BackgroundOK'
  <2>1. CASE UNCHANGED <<bg, promised>>
    BY <1>1, <2>1 DEF LogTypeOK, BackgroundOK, RecordsOf, Writer
  <2>2. CASE Proceed
    BY <1>1, <2>2, ProceedType DEF LogTypeOK
  <2> QED
    BY <1>1, <2>1, <2>2
<1> QED
  BY <1>1, <1>4, <1>5 DEF LogTypeOK, IndexOK, CloserOK, Closed

(* A push to the trace keeps the types.                                    *)
LEMMA PushTraceType ==
    ASSUME LogTypeOK, PushTrace
    PROVE  LogTypeOK'
<1>1. /\ bg.pc = "push" /\ Writer = "trace"
      /\ UNCHANGED <<conf, out, index, strFile, lastTS, closer, taken>>
      /\ \/ bg' = [bg EXCEPT !.pc = "write"] /\ promised' = promised
         \/ Proceed
  BY DEF PushTrace, At
<1>2. bg.rec \in Results
  <2>1. taken \in Seq(Results) /\ taken # << >> /\ bg.rec = taken[Len(taken)]
    BY <1>1 DEF LogTypeOK, BackgroundOK
  <2>2. Len(taken) \in 1 .. Len(taken)
    BY <2>1, EmptySeq
  <2> QED
    BY <2>1, <2>2, ElementOfSeq
<1>3. BackgroundOK'
  <2>1. CASE bg' = [bg EXCEPT !.pc = "write"] /\ promised' = promised
    BY <1>1, <1>2, <2>1 DEF LogTypeOK, BackgroundOK, RecordsOf, Writer
  <2>2. CASE Proceed
    BY <1>1, <2>2, ProceedType DEF LogTypeOK
  <2> QED
    BY <1>1, <2>1, <2>2
<1> QED
  BY <1>1, <1>3 DEF LogTypeOK, OutOK, IndexOK, CloserOK, RecordsOf, Closed

(* A write of one unit keeps the types.                                    *)
LEMMA WriteUnitType ==
    ASSUME LogTypeOK, WriteUnit
    PROVE  LogTypeOK'
<1> DEFINE unit == Units(bg.rec)[bg.part]
           b == [out[Writer] EXCEPT !.buf = Append(out[Writer].buf, unit)]
<1>1. /\ bg.pc = "write" /\ bg.part <= RecordLen /\ Len(out[Writer].buf) < BufSize
      /\ out' = [out EXCEPT ![Writer] = b]
      /\ bg' = [bg EXCEPT !.part = bg.part + 1]
      /\ UNCHANGED <<conf, index, strFile, lastTS, closer, taken, promised>>
  BY DEF WriteUnit, WriteMore, At, Room
<1>2. unit \in Cells(RecordsOf(Writer))
  <2>1. bg.rec \in RecordsOf(Writer) /\ bg.part \in 1 .. RecordLen
    BY <1>1, LogFacts DEF LogTypeOK, BackgroundOK
  <2> QED
    BY <2>1, UnitsType, ElementOfSeq
<1>3. /\ Append(out[Writer].buf, unit) \in Seq(Cells(RecordsOf(Writer)))
      /\ Len(Append(out[Writer].buf, unit)) = Len(out[Writer].buf) + 1
  <2>1. out[Writer].buf \in Seq(Cells(RecordsOf(Writer)))
    BY LogFacts DEF Buffers
  <2> HIDE DEF unit
  <2> QED
    BY <1>2, <2>1, AppendProperties
<1> HIDE DEF unit
<1>4. b \in Buffers(RecordsOf(Writer)) /\ b.buf = Append(out[Writer].buf, unit)
  BY <1>3, LogFacts, BufferUpdates DEF Buffers
<1> HIDE DEF b
<1>5. Len(b.buf) <= BufSize
  <2>1. Len(out[Writer].buf) \in Nat /\ BufSize \in Nat
    BY LogFacts
  <2> QED
    BY <1>1, <1>3, <1>4, <2>1
<1>6. OutOK'
  BY <1>1, <1>4, <1>5, LogFacts, OutChange DEF LogTypeOK
<1>7. bg.part + 1 \in 1 .. RecordLen + 1
  <2>1. bg.part \in 1 .. RecordLen + 1 /\ RecordLen \in Nat /\ bg.part <= RecordLen
    BY <1>1, LogFacts
  <2> QED
    BY ONLY <2>1
<1>8. BackgroundOK'
  BY <1>1, <1>7 DEF LogTypeOK, BackgroundOK, RecordsOf, Writer
<1> QED
  BY <1>1, <1>6, <1>8 DEF LogTypeOK, IndexOK, CloserOK, Closed

(* A write that fails keeps the types.                                     *)
LEMMA WriteFailsType ==
    ASSUME LogTypeOK, WriteFails
    PROVE  LogTypeOK'
<1>1. /\ bg.pc = "write" /\ bg.part <= RecordLen
      /\ \/ bg' = bg
         \/ bg' = [bg EXCEPT !.part = bg.part + 1]
      /\ UNCHANGED <<conf, out, index, strFile, lastTS, closer, taken, promised>>
  BY DEF WriteFails, WriteMore, At
<1>2. bg.part + 1 \in 1 .. RecordLen + 1
  <2>1. bg.part \in 1 .. RecordLen + 1 /\ RecordLen \in Nat /\ bg.part <= RecordLen
    BY <1>1, LogFacts
  <2> QED
    BY ONLY <2>1
<1>3. BackgroundOK'
  BY <1>1, <1>2 DEF LogTypeOK, BackgroundOK, RecordsOf, Writer
<1> QED
  BY <1>1, <1>3 DEF LogTypeOK, OutOK, IndexOK, CloserOK, RecordsOf, Closed

(* A flush of the writer that background is at.                            *)
LEMMA StartFlushType ==
    ASSUME LogTypeOK, bg.pc = "write", StartFlush,
           UNCHANGED <<conf, index, strFile, closer, taken, promised>>, lastTS' \in Nat
    PROVE  LogTypeOK'
<1>1. /\ out' = [out EXCEPT ![Writer] = FlushStart(out[Writer])]
      /\ bg' = [bg EXCEPT !.pc = "flushing", !.n = FlushLen(out[Writer])]
  BY DEF StartFlush
<1>2. /\ FlushStart(out[Writer]) \in Buffers(RecordsOf(Writer))
      /\ Len(FlushStart(out[Writer]).buf) <= BufSize
      /\ FlushLen(out[Writer]) \in Nat
  <2>1. /\ out[Writer] \in Buffers(RecordsOf(Writer)) /\ Len(out[Writer].buf) <= BufSize
        /\ Len(out[Writer].buf) \in Nat
    BY LogFacts
  <2>2. PICK o : o = out[Writer]
    OBVIOUS
  <2>3. /\ FlushStart(o) \in Buffers(RecordsOf(Writer)) /\ FlushStart(o).buf = o.buf
        /\ FlushLen(o) \in 0 .. Len(o.buf)
    BY <2>1, <2>2, FlushStartType
  <2> QED
    BY <2>1, <2>2, <2>3
<1>3. OutOK'
  BY <1>1, <1>2, LogFacts, OutChange DEF LogTypeOK
<1>4. BackgroundOK'
  BY <1>1, <1>2 DEF LogTypeOK, BackgroundOK, RecordsOf, Writer
<1> QED
  BY <1>3, <1>4 DEF LogTypeOK, IndexOK, CloserOK, Closed

(* A write that finds the buffer full keeps the types.                     *)
LEMMA WriteToFullType ==
    ASSUME LogTypeOK, WriteToFull
    PROVE  LogTypeOK'
BY StartFlushType DEF WriteToFull, WriteMore, At, LogTypeOK

(* The end of a record keeps the types.                                    *)
LEMMA RecordWrittenType ==
    ASSUME LogTypeOK, RecordWritten
    PROVE  LogTypeOK'
<1>1. bg.pc = "write" /\ UNCHANGED <<conf, index, strFile, closer, taken>>
  BY DEF RecordWritten, At
<1>2. CASE NewSecond
  <2>1. bg.rec \in RecordsOf(Writer)
    BY <1>1 DEF LogTypeOK, BackgroundOK
  <2>2. bg.rec.ts \in Nat
    BY <2>1 DEF RecordsOf, Results, Numbered
  <2>3. StartFlush /\ lastTS' = bg.rec.ts /\ promised' = promised
    BY <1>2 DEF RecordWritten
  <2> QED
    BY <1>1, <2>2, <2>3, StartFlushType
<1>3. CASE ~NewSecond
  <2>1. Proceed /\ UNCHANGED <<out, lastTS>>
    BY <1>3 DEF RecordWritten
  <2>2. BackgroundOK'
    BY <1>1, <2>1, ProceedType DEF LogTypeOK
  <2> QED
    BY <1>1, <2>1, <2>2 DEF LogTypeOK, OutOK, IndexOK, CloserOK, RecordsOf, Closed
<1> QED
  BY <1>2, <1>3

(* The end of a flush keeps the types.                                     *)
LEMMA FlushReturnsType ==
    ASSUME LogTypeOK, FlushReturns
    PROVE  LogTypeOK'
<1>1. /\ bg.pc = "flushing"
      /\ UNCHANGED <<conf, index, strFile, lastTS, closer, taken>>
      /\ \/ bg' = [bg EXCEPT !.pc = "write"] /\ promised' = promised
         \/ Proceed
  BY DEF FlushReturns, At
<1>2. PICK b \in FlushEnds(out[Writer], bg.n) : out' = [out EXCEPT ![Writer] = b]
  BY DEF FlushReturns
<1>3. b \in Buffers(RecordsOf(Writer)) /\ Len(b.buf) <= BufSize
  <2>1. b \in Buffers(RecordsOf(Writer)) /\ Len(b.buf) <= Len(out[Writer].buf)
    BY LogFacts, FlushEndsType
  <2>2. Len(b.buf) \in Nat
    BY <2>1, LenProperties DEF Buffers
  <2>3. Len(out[Writer].buf) \in Nat /\ Len(out[Writer].buf) <= BufSize /\ BufSize \in Nat
    BY LogFacts
  <2> QED
    BY <2>1, <2>2, <2>3
<1>4. OutOK'
  BY <1>1, <1>2, <1>3, LogFacts, OutChange DEF LogTypeOK
<1>5. BackgroundOK'
  <2>1. CASE bg' = [bg EXCEPT !.pc = "write"] /\ promised' = promised
    BY <1>1, <2>1 DEF LogTypeOK, BackgroundOK, RecordsOf, Writer
  <2>2. CASE Proceed
    BY <1>1, <2>2, ProceedType DEF LogTypeOK
  <2> QED
    BY <1>1, <2>1, <2>2
<1> QED
  BY <1>1, <1>4, <1>5 DEF LogTypeOK, IndexOK, CloserOK, Closed

(* More lines in the strings file admit more numbers.                      *)
LEMMA MoreLines ==
    ASSUME LogTypeOK, strFile' \in Seq(Lines), Len(strFile) <= Len(strFile')
    PROVE  /\ Numbered(strFile) \subseteq Numbered(strFile')
           /\ \A o \in Writers : Buffers(RecordsOf(o)) \subseteq Buffers(RecordsOf(o)')
<1>1. Len(strFile) \in Nat /\ Len(strFile') \in Nat
  BY LogFacts, LenProperties
<1>2. 0 .. Len(strFile) \subseteq 0 .. Len(strFile')
  BY <1>1
<1>3. Numbered(strFile) \subseteq Numbered(strFile')
  BY <1>2 DEF Numbered
<1>4. SUFFICES ASSUME NEW o \in Writers PROVE Buffers(RecordsOf(o)) \subseteq Buffers(RecordsOf(o)')
  BY <1>3
<1>5. RecordsOf(o) \subseteq RecordsOf(o)'
  BY <1>3 DEF RecordsOf
<1>6. Cells(RecordsOf(o)) \subseteq Cells(RecordsOf(o)')
  BY <1>5 DEF Cells
<1>7. Seq(Cells(RecordsOf(o))) \subseteq Seq(Cells(RecordsOf(o)'))
  BY <1>6, SeqMonotonic
<1> QED
  BY <1>7 DEF Buffers

(* The numbers that BinaryOut.Push gives to a result.                      *)
LEMMA IndexStringsType ==
    ASSUME LogTypeOK, IndexStrings
    PROVE  LogTypeOK'
<1> DEFINE e == bg.rec.error
           l == bg.rec.label
           withError == IF e = EmptyString THEN index ELSE WithString(index, e)
           fileError == IF e = EmptyString THEN strFile ELSE AppendFile(index, strFile, e)
           eNum == IF e = EmptyString THEN 0 ELSE Idx(index, e)
           lNum == IF l = EmptyString THEN 0 ELSE Idx(withError, l)
<1>1. /\ bg.pc = "push" /\ Writer = "binary"
      /\ index' = (IF l = EmptyString THEN withError ELSE WithString(withError, l))
      /\ strFile' = (IF l = EmptyString THEN fileError ELSE AppendFile(withError, fileError, l))
      /\ bg' = [bg EXCEPT !.pc = "write", !.rec.error = eNum, !.rec.label = lNum]
      /\ UNCHANGED <<conf, out, lastTS, closer, taken, promised>>
  BY DEF IndexStrings, At
<1>2. bg.rec \in Results
  <2>1. taken \in Seq(Results) /\ taken # << >> /\ bg.rec = taken[Len(taken)]
    BY <1>1 DEF LogTypeOK, BackgroundOK
  <2>2. Len(taken) \in 1 .. Len(taken)
    BY <2>1, EmptySeq
  <2> QED
    BY <2>1, <2>2, ElementOfSeq
<1>3. e \in Strings /\ l \in Strings
  BY <1>2 DEF Results
<1>4. index \in Seq(Strings) /\ strFile \in Seq(Lines) /\ Len(index) <= Len(strFile) + 1
  BY DEF LogTypeOK, IndexOK
<1>5. /\ withError \in Seq(Strings) /\ fileError \in Seq(Lines)
      /\ Len(withError) \in Nat /\ Len(fileError) \in Nat
      /\ Len(strFile) <= Len(fileError) /\ Len(withError) <= Len(fileError) + 1
      /\ eNum \in Nat /\ eNum <= Len(fileError)
  <2>1. CASE e = EmptyString
    BY <1>4, <2>1, LogFacts
  <2>2. CASE e # EmptyString
    <3>1. /\ WithString(index, e) \in Seq(Strings) /\ Len(WithString(index, e)) \in Nat
          /\ Idx(index, e) \in 0 .. Len(WithString(index, e)) - 1
      BY <1>3, <1>4, IdxBound
    <3>2. /\ AppendFile(index, strFile, e) \in Seq(Lines)
          /\ Len(AppendFile(index, strFile, e)) \in Nat
          /\ Len(strFile) <= Len(AppendFile(index, strFile, e))
          /\ Len(WithString(index, e)) <= Len(AppendFile(index, strFile, e)) + 1
      BY <1>3, <1>4, <2>2, FileHasStrings
    <3>3. withError = WithString(index, e) /\ fileError = AppendFile(index, strFile, e)
          /\ eNum = Idx(index, e)
      BY <2>2
    <3> HIDE DEF withError, fileError, eNum, e
    <3> QED
      BY <3>1, <3>2, <3>3
  <2> QED
    BY <2>1, <2>2
<1> HIDE DEF withError, fileError, eNum
<1>6. /\ index' \in Seq(Strings) /\ strFile' \in Seq(Lines)
      /\ Len(strFile') \in Nat
      /\ Len(fileError) <= Len(strFile') /\ Len(index') <= Len(strFile') + 1
      /\ lNum \in Nat /\ lNum <= Len(strFile')
  <2>1. CASE l = EmptyString
    BY <1>1, <1>5, <2>1
  <2>2. CASE l # EmptyString
    <3>1. /\ WithString(withError, l) \in Seq(Strings) /\ Len(WithString(withError, l)) \in Nat
          /\ Idx(withError, l) \in 0 .. Len(WithString(withError, l)) - 1
      BY <1>3, <1>5, IdxBound
    <3>2. /\ AppendFile(withError, fileError, l) \in Seq(Lines)
          /\ Len(AppendFile(withError, fileError, l)) \in Nat
          /\ Len(fileError) <= Len(AppendFile(withError, fileError, l))
          /\ Len(WithString(withError, l)) <= Len(AppendFile(withError, fileError, l)) + 1
      BY <1>3, <1>5, <2>2, FileHasStrings
    <3>3. index' = WithString(withError, l) /\ strFile' = AppendFile(withError, fileError, l)
          /\ lNum = Idx(withError, l)
      BY <1>1, <2>2
    <3> HIDE DEF lNum, l
    <3> QED
      BY <3>1, <3>2, <3>3
  <2> QED
    BY <2>1, <2>2
<1> HIDE DEF lNum
<1>7. eNum \in 0 .. Len(strFile') /\ lNum \in 0 .. Len(strFile') /\ Len(strFile) <= Len(strFile')
  <2>1. Len(strFile) \in Nat
    BY LogFacts
  <2>2. eNum \in Nat /\ eNum <= Len(fileError) /\ Len(strFile) <= Len(fileError)
        /\ Len(fileError) \in Nat
    BY <1>5
  <2>3. lNum \in Nat /\ lNum <= Len(strFile') /\ Len(fileError) <= Len(strFile')
        /\ Len(strFile') \in Nat
    BY <1>6
  <2> QED
    BY <2>1, <2>2, <2>3
<1>8. OutOK'
  <2>1. \A o \in Writers : out[o] \in Buffers(RecordsOf(o)')
    BY <1>6, <1>7, MoreLines DEF LogTypeOK, OutOK
  <2> QED
    BY <1>1, <2>1 DEF LogTypeOK, OutOK
<1>9. BackgroundOK'
  <2> DEFINE r == [label |-> lNum, error |-> eNum, ts |-> bg.rec.ts, status |-> bg.rec.status]
  <2>1. /\ bg'.pc = "write" /\ bg'.k = bg.k /\ bg'.part = bg.part /\ bg'.n = bg.n /\ bg'.rec = r
        /\ bg' = [pc |-> bg'.pc, k |-> bg'.k, part |-> bg'.part, n |-> bg'.n, rec |-> bg'.rec]
    BY <1>1, <1>2 DEF LogTypeOK, BackgroundOK, Results
  <2>2. r \in Numbered(strFile')
    BY <1>2, <1>7 DEF Numbered, Results
  <2> HIDE DEF r
  <2>3. Writer' = "binary"
    BY <1>1, <2>1 DEF Writer
  <2>4. bg.k \in 1 .. Len(conf.outs) /\ bg.part \in 1 .. RecordLen + 1 /\ bg.n \in Nat
    BY LogFacts
  <2> QED
    BY <1>1, <2>1, <2>2, <2>3, <2>4 DEF LogTypeOK, BackgroundOK, RecordsOf
<1> QED
  BY <1>1, <1>6, <1>8, <1>9 DEF LogTypeOK, IndexOK, CloserOK, Closed

(* The steps of Close.                                                     *)
LEMMA NextWriterType ==
    ASSUME LogTypeOK, closer.pc # "exit", NextWriter, conf' = conf
    PROVE  CloserOK'
<1>1. closer.k \in 1 .. Len(conf.outs) /\ Len(conf.outs) \in Nat \ {0}
  BY LogFacts DEF LogTypeOK, CloserOK
<1>2. CASE closer.k < Len(conf.outs)
  <2>1. closer' = [pc |-> "close", k |-> closer.k + 1, n |-> 0]
    BY <1>2 DEF NextWriter
  <2>2. closer.k + 1 \in 1 .. Len(conf.outs)
    BY <1>1, <1>2
  <2> QED
    BY <2>1, <2>2 DEF CloserOK
<1>3. CASE ~(closer.k < Len(conf.outs))
  <2>1. closer' = [pc |-> "exit", k |-> closer.k + 1, n |-> 0]
    BY <1>3 DEF NextWriter
  <2> QED
    BY <1>1, <2>1 DEF CloserOK
<1> QED
  BY <1>2, <1>3

(* The types, of the writer that Close is at.                              *)
LEMMA ClosedFacts ==
    ASSUME LogTypeOK, closer.pc # "exit"
    PROVE  /\ Closed \in Writers
           /\ out[Closed] \in Buffers(RecordsOf(Closed)) /\ Len(out[Closed].buf) <= BufSize
           /\ Len(out[Closed].buf) \in Nat
<1>1. Closed \in Writers
  BY ConfFacts DEF LogTypeOK, CloserOK, Closed
<1>2. out[Closed] \in Buffers(RecordsOf(Closed)) /\ Len(out[Closed].buf) <= BufSize
  BY <1>1 DEF LogTypeOK, OutOK
<1> QED
  BY <1>1, <1>2, LenProperties DEF Buffers

(* What LDJSONOut.Close leaves of a writer.                                *)
LEMMA ShutType ==
    ASSUME NEW R, NEW b \in Buffers(R)
    PROVE  LET c == [FlushStart(b) EXCEPT !.buf = << >>, !.open = FALSE]
           IN  /\ c \in Buffers(R) /\ c.buf = << >> /\ ~c.open
               /\ c.file = FlushStart(b).file
<1> DEFINE f == FlushStart(b)
           g == [f EXCEPT !.buf = << >>]
<1>1. f \in Buffers(R)
  BY FlushStartType
<1> HIDE DEF f
<1>2. << >> \in Seq(Cells(R))
  BY EmptySeq
<1>3. g \in Buffers(R) /\ g.buf = << >> /\ g.file = f.file
  BY <1>1, <1>2, BufferUpdates DEF Buffers
<1>4. [f EXCEPT !.buf = << >>, !.open = FALSE] = [g EXCEPT !.open = FALSE]
  OBVIOUS
<1> HIDE DEF g
<1>5. /\ [g EXCEPT !.open = FALSE] \in Buffers(R) /\ [g EXCEPT !.open = FALSE].buf = << >>
      /\ [g EXCEPT !.open = FALSE].open = FALSE /\ [g EXCEPT !.open = FALSE].file = f.file
  BY <1>2, <1>3, BufferUpdates DEF Buffers
<1> QED
  BY <1>4, <1>5 DEF f

(* The steps of Close: the types.                                          *)
LEMMA CloseStepType ==
    ASSUME LogTypeOK, CloseStep
    PROVE  LogTypeOK'
<1>0. UNCHANGED <<conf, index, strFile, lastTS, bg, taken, promised>>
  BY DEF CloseStep, CloseLDJSON, CloseFlushes, CloseFlushReturns, CloseDescriptor, MainReturns,
     logVars
<1>1. BackgroundOK' /\ IndexOK'
  BY <1>0 DEF LogTypeOK, BackgroundOK, IndexOK, RecordsOf, Writer
<1>2. CASE CloseLDJSON
  <2>1. /\ closer.pc = "close" /\ Closed = "ldjson" /\ NextWriter
        /\ out' = [out EXCEPT !["ldjson"] = [FlushStart(out["ldjson"]) EXCEPT !.buf = << >>, !.open = FALSE]]
    BY <1>2 DEF CloseLDJSON, Closing
  <2> DEFINE b == [FlushStart(out["ldjson"]) EXCEPT !.buf = << >>, !.open = FALSE]
  <2>2. b \in Buffers(RecordsOf("ldjson")) /\ b.buf = << >>
    BY <2>1, ClosedFacts, ShutType
  <2>3. Len(b.buf) <= BufSize
    BY <2>2, EmptySeq, LogFacts
  <2> HIDE DEF b
  <2>4. out' = [out EXCEPT !["ldjson"] = b]
    BY <2>1 DEF b
  <2>5. OutOK'
    BY <1>0, <2>2, <2>3, <2>4, OutChange DEF LogTypeOK, Writers
  <2>6. CloserOK'
    BY <1>0, <2>1, NextWriterType
  <2> QED
    BY <1>0, <1>1, <2>5, <2>6 DEF LogTypeOK
<1>3. CASE CloseFlushes
  <2>1. /\ closer.pc = "close" /\ Closed # "ldjson"
        /\ out' = [out EXCEPT ![Closed] = FlushStart(out[Closed])]
        /\ closer' = [closer EXCEPT !.pc = "flushing", !.n = FlushLen(out[Closed])]
    BY <1>3 DEF CloseFlushes, Closing
  <2>2. /\ FlushStart(out[Closed]) \in Buffers(RecordsOf(Closed))
        /\ Len(FlushStart(out[Closed]).buf) <= BufSize
        /\ FlushLen(out[Closed]) \in Nat
    BY <2>1, ClosedFacts, FlushStartType
  <2>3. OutOK'
    BY <1>0, <2>1, <2>2, ClosedFacts, OutChange DEF LogTypeOK
  <2>4. CloserOK'
    BY <1>0, <2>1, <2>2 DEF LogTypeOK, CloserOK, Closed
  <2> QED
    BY <1>0, <1>1, <2>3, <2>4 DEF LogTypeOK
<1>4. CASE CloseFlushReturns
  <2>1. closer.pc = "flushing" /\ closer' = [closer EXCEPT !.pc = "fd"]
    BY <1>4 DEF CloseFlushReturns, Closing
  <2>2. PICK b \in FlushEnds(out[Closed], closer.n) : out' = [out EXCEPT ![Closed] = b]
    BY <1>4 DEF CloseFlushReturns
  <2>3. b \in Buffers(RecordsOf(Closed)) /\ Len(b.buf) <= Len(out[Closed].buf)
    BY <2>1, LogFacts, ClosedFacts, FlushEndsType
  <2>4. Len(b.buf) \in Nat
    BY <2>3, LenProperties DEF Buffers
  <2>5. Len(b.buf) <= BufSize
    <3>1. Len(out[Closed].buf) \in Nat /\ Len(out[Closed].buf) <= BufSize
      BY <2>1, ClosedFacts
    <3>2. BufSize \in Nat
      BY ResultLogAssumption
    <3> QED
      BY <2>3, <2>4, <3>1, <3>2
  <2>6. OutOK'
    BY <1>0, <2>1, <2>2, <2>3, <2>5, ClosedFacts, OutChange DEF LogTypeOK
  <2>7. CloserOK'
    BY <1>0, <2>1 DEF LogTypeOK, CloserOK, Closed
  <2> QED
    BY <1>0, <1>1, <2>6, <2>7 DEF LogTypeOK
<1>5. CASE CloseDescriptor
  <2>1. /\ closer.pc = "fd" /\ NextWriter
        /\ out' = [out EXCEPT ![Closed] = [out[Closed] EXCEPT !.open = FALSE]]
    BY <1>5 DEF CloseDescriptor, Closing
  <2>2. << >> \in Seq(Cells(RecordsOf(Closed)))
    BY EmptySeq
  <2>3. /\ [out[Closed] EXCEPT !.open = FALSE] \in Buffers(RecordsOf(Closed))
        /\ Len([out[Closed] EXCEPT !.open = FALSE].buf) <= BufSize
    BY <2>1, <2>2, ClosedFacts, BufferUpdates DEF Buffers
  <2>4. OutOK'
    BY <1>0, <2>1, <2>3, ClosedFacts, OutChange DEF LogTypeOK
  <2>5. CloserOK'
    BY <1>0, <2>1, NextWriterType
  <2> QED
    BY <1>0, <1>1, <2>4, <2>5 DEF LogTypeOK
<1>6. CASE MainReturns
  BY <1>0, <1>1, <1>6 DEF MainReturns, logVars, LogTypeOK, OutOK, CloserOK, RecordsOf, Closed
<1> QED
  BY <1>2, <1>3, <1>4, <1>5, <1>6 DEF CloseStep

(* Every step of the output keeps its types.                               *)
LEMMA LogTypeStep ==
    ASSUME LogTypeOK, LogStep
    PROVE  LogTypeOK'
<1>1. CASE \E r \in Results : Receive(r)
  BY <1>1, ReceiveType
<1>2. CASE BackgroundStep
  BY <1>2, PushLDJSONType, IndexStringsType, PushTraceType, WriteUnitType, WriteFailsType,
     WriteToFullType, FlushReturnsType, RecordWrittenType DEF BackgroundStep
<1>3. CASE RunReturns
  BY <1>3 DEF RunReturns, Closing, LogTypeOK, OutOK, IndexOK, BackgroundOK, CloserOK, RecordsOf,
     Writer, Closed
<1>4. CASE CloseStep
  BY <1>4, CloseStepType
<1>5. CASE UNCHANGED <<conf, logVars>>
  BY <1>5 DEF logVars, LogTypeOK, OutOK, IndexOK, BackgroundOK, CloserOK, RecordsOf, Writer, Closed
<1> QED
  BY <1>1, <1>2, <1>3, <1>4, <1>5 DEF LogStep

(* The initial state has them.                                             *)
LEMMA LoadType ==
    ASSUME NEW lines \in Seq(Lines)
    PROVE  /\ Load(lines) \in Seq(Strings) /\ Len(Load(lines)) = Len(lines) + 1
           /\ Load(lines)[1] = EmptyString
           /\ \A i \in 2 .. Len(lines) + 1 : Load(lines)[i] # EmptyString
<1> DEFINE rest == [k \in DOMAIN lines |-> <<lines[k]>>]
<1>1. Len(lines) \in Nat /\ DOMAIN lines = 1 .. Len(lines) /\ \A k \in 1 .. Len(lines) : lines[k] \in Lines
  BY LenProperties, ElementOfSeq
<1>2. \A k \in 1 .. Len(lines) : <<lines[k]>> \in Strings /\ <<lines[k]>> # EmptyString
  BY <1>1 DEF Strings, EmptyString
<1>3. rest \in [1 .. Len(lines) -> Strings] /\ \A k \in 1 .. Len(lines) : rest[k] = <<lines[k]>>
  BY <1>1, <1>2
<1>4. rest \in Seq(Strings) /\ Len(rest) = Len(lines)
  BY <1>1, <1>3, SeqDef, LenProperties
<1> HIDE DEF rest
<1>5. <<EmptyString>> \in Seq(Strings) /\ Len(<<EmptyString>>) = 1 /\ <<EmptyString>>[1] = EmptyString
  BY EmptySeq DEF Strings, EmptyString
<1>6. Load(lines) = <<EmptyString>> \o rest
  BY DEF Load, rest
<1>7. /\ Load(lines) \in Seq(Strings) /\ Len(Load(lines)) = 1 + Len(rest)
      /\ \A i \in 1 .. 1 + Len(rest) : Load(lines)[i] = IF i <= 1 THEN <<EmptyString>>[i] ELSE rest[i - 1]
  BY <1>4, <1>5, <1>6, ConcatProperties
<1>8. ASSUME NEW i \in 2 .. Len(lines) + 1
      PROVE  Load(lines)[i] # EmptyString
  <2>1. i - 1 \in 1 .. Len(lines) /\ i \in 1 .. 1 + Len(rest) /\ ~(i <= 1)
    BY <1>1, <1>4
  <2>2. Load(lines)[i] = rest[i - 1]
    BY <1>7, <2>1
  <2> QED
    BY <1>2, <1>3, <2>1, <2>2
<1> QED
  BY <1>1, <1>4, <1>5, <1>7, <1>8

(* NewOutput: the types.                                                   *)
LEMMA LogInitType ==
    ASSUME conf \in Confs, ResultLogInit
    PROVE  LogTypeOK
<1>1. /\ out = [o \in Writers |-> [buf |-> << >>, file |-> << >>, open |-> TRUE, err |-> FALSE]]
      /\ index = Load(InputStrings) /\ strFile = InputStrings /\ lastTS = 0
      /\ bg = [pc |-> "idle", k |-> 1, part |-> 1, n |-> 0, rec |-> NoResult]
      /\ closer = [pc |-> "away", k |-> 1, n |-> 0]
      /\ taken = << >> /\ promised = 0
  BY DEF ResultLogInit, IdleBackground
<1>2. BufSize \in Nat \ {0} /\ RecordLen \in Nat \ {0} /\ Len(conf.outs) \in Nat \ {0}
  BY ResultLogAssumption, ConfFacts
<1>3. OutOK
  <2>1. \A R : << >> \in Seq(Cells(R)) /\ Len(<< >>) = 0
    BY EmptySeq
  <2>2. \A R : [buf |-> << >>, file |-> << >>, open |-> TRUE, err |-> FALSE] \in Buffers(R)
    BY <2>1 DEF Buffers
  <2> QED
    BY <1>1, <1>2, <2>1, <2>2 DEF OutOK
<1>4. IndexOK
  BY <1>1, LoadType, ProcessAssumption, LenProperties DEF IndexOK
<1>5. BackgroundOK
  <2>1. NoResult \in Results
    BY EmptySeq DEF NoResult, Results, Strings, EmptyString
  <2>2. taken \in Seq(Results) /\ Len(taken) = 0
    BY <1>1, EmptySeq
  <2> QED
    BY <1>1, <1>2, <2>1, <2>2 DEF BackgroundOK
<1>6. CloserOK
  BY <1>1, <1>2 DEF CloserOK
<1> QED
  BY <1>1, <1>3, <1>4, <1>5, <1>6 DEF LogTypeOK
-----------------------------------------------------------------------------
(* The types of the inputs and the workers                                 *)

InputOK ==
    /\ input \in [Workers -> [pc : {"read", "send", "closed"}, pos : Nat, good : Nat, bad : Nat,
                              iterations : Nat]]
    /\ \A i \in Workers :
           /\ input[i].pos <= Len(conf.payload)
           /\ conf.iterationLimit > 0 => input[i].iterations < conf.iterationLimit
           /\ input[i].pc = "send" => input[i].pos # 0 /\ Good(conf.payload[input[i].pos])

WorkerOK ==
    /\ worker \in [Workers -> [pc : {"loop", "payload", "hit", "push", "finished"},
                               item : {<< >>} \cup Records \cup Results, value : Strings]]
    /\ \A w \in Workers :
           /\ worker[w].pc = "hit" => worker[w].item \in Records
           /\ worker[w].pc = "push" => worker[w].item \in Results
    /\ hits \in 0 .. conf.hits /\ clock \in Nat

WorkTypeOK == conf \in Confs /\ InputOK /\ WorkerOK

(* Strings that the model makes up.                                        *)
LEMMA MadeUpStrings ==
    /\ EmptyString \in Strings /\ NoValue \in Strings /\ NotFound \in Strings /\ Found \in Strings
    /\ <<"timeout">> \in Strings
<1>1. \A s \in Lines : <<s>> \in Seq(Lines)
  OBVIOUS
<1>2. "NO_VALUE" \in Lines /\ "NOT_FOUND" \in Lines /\ "found" \in Lines /\ "timeout" \in Lines
  BY PipelineAssumption
<1>3. << >> \in Seq(Lines)
  BY EmptySeq
<1> QED
  BY <1>1, <1>2, <1>3 DEF EmptyString, NoValue, NotFound, Found, Strings

(* The error with the lines of the assertions that failed is a string.     *)
LEMMA AssertedErrorType ==
    ASSUME NEW error \in Strings, NEW asserts \in Seq(Lines), NEW failed
    PROVE  AssertedError(error, asserts, failed) \in Strings
<1> DEFINE n == Len(asserts)
           D == SUBSET (1 .. n)
           Fails(f) == f = [s \in D |-> IF s = {} THEN error
                                        ELSE IF asserts[Max(s)] \in failed
                                             THEN Append(f[s \ {Max(s)}], asserts[Max(s)])
                                             ELSE f[s \ {Max(s)}]]
           iter == CHOOSE f : Fails(f)
           op == [problems \in Strings |-> [a \in Lines |->
                      IF a \in failed THEN Append(problems, a) ELSE problems]]
           N == {j \in Nat : j <= n => iter[1 .. j] \in Strings}
<1>0. n \in Nat /\ DOMAIN asserts = 1 .. n /\ \A i \in 1 .. n : asserts[i] \in Lines
  BY LenProperties, ElementOfSeq
<1>1. AssertedError(error, asserts, failed) = iter[1 .. n]
  BY <1>0 DEF AssertedError, FoldLeft, MapThenFoldSet
<1>2. \A problems \in Strings, a \in Lines : Append(problems, a) \in Strings
  BY AppendProperties DEF Strings
<1>3. \E f : Fails(f)
  <2>1. op \in [Strings -> [Lines -> Strings]]
    BY <1>2
  <2>2. \A problems \in Strings, a \in Lines :
            op[problems][a] = IF a \in failed THEN Append(problems, a) ELSE problems
    OBVIOUS
  <2> HIDE DEF op
  <2>3. PICK f \in [D -> Strings] : FoldsTo(f, n, error, op, asserts)
    BY <2>1, FoldExists
  <2>4. ASSUME NEW s \in D, s # {}
        PROVE  f[s] = IF asserts[Max(s)] \in failed THEN Append(f[s \ {Max(s)}], asserts[Max(s)])
                      ELSE f[s \ {Max(s)}]
    <3>1. Max(s) \in 1 .. n /\ s \ {Max(s)} \in D
      BY <1>0, <2>4, MaxOfPositions
    <3>2. f[s] = op[f[s \ {Max(s)}]][asserts[Max(s)]]
      BY <2>3, <2>4 DEF FoldsTo
    <3>3. f[s \ {Max(s)}] \in Strings /\ asserts[Max(s)] \in Lines
      BY <1>0, <2>3, <3>1
    <3> QED
      BY <2>2, <3>2, <3>3
  <2>5. f[{}] = error
    BY <2>3 DEF FoldsTo
  <2>6. f = [s \in D |-> IF s = {} THEN error
                         ELSE IF asserts[Max(s)] \in failed
                              THEN Append(f[s \ {Max(s)}], asserts[Max(s)])
                              ELSE f[s \ {Max(s)}]]
    <3> HIDE DEF D
    <3> QED
      BY <2>3, <2>4, <2>5
  <2> QED
    BY <2>6
<1>4. Fails(iter)
  <2> HIDE DEF Fails
  <2> QED
    BY <1>3
<1>5. \A s \in D : iter[s] = IF s = {} THEN error
                             ELSE IF asserts[Max(s)] \in failed
                                  THEN Append(iter[s \ {Max(s)}], asserts[Max(s)])
                                  ELSE iter[s \ {Max(s)}]
  <2> HIDE DEF iter
  <2> QED
    BY <1>4
<1> HIDE DEF iter
<1>6. 0 \in N
  <2>1. 1 .. 0 = {} /\ {} \in D
    BY <1>0
  <2> QED
    BY <1>5, <2>1
<1>7. ASSUME NEW j \in Nat, j \in N
      PROVE  j + 1 \in N
  <2> SUFFICES ASSUME j + 1 <= n PROVE iter[1 .. j + 1] \in Strings
    OBVIOUS
  <2>1. 1 .. j + 1 \in D /\ j + 1 \in Nat /\ j + 1 # 0 /\ (j + 1) - 1 = j
    BY <1>0
  <2>2. /\ 1 .. j + 1 # {} /\ Max(1 .. j + 1) = j + 1
        /\ (1 .. j + 1) \ {j + 1} = 1 .. j
    BY <2>1, MaxOfSegment
  <2>3. iter[1 .. j + 1] = IF asserts[j + 1] \in failed THEN Append(iter[1 .. j], asserts[j + 1])
                           ELSE iter[1 .. j]
    BY <1>5, <2>1, <2>2
  <2>4. iter[1 .. j] \in Strings /\ asserts[j + 1] \in Lines
    BY <1>0, <1>7, <2>1
  <2> QED
    BY <1>2, <2>3, <2>4
<1>8. \A j \in Nat : j \in N
  <2> HIDE DEF N
  <2> QED
    BY <1>6, <1>7, SetInduction
<1>9. iter[1 .. n] \in Strings
  BY <1>0, <1>8
<1> QED
  BY <1>1, <1>9

(* What a worker makes of a record, a response and its value.              *)
LEMMA ItemTypes ==
    ASSUME conf \in Confs, NEW item \in Records, Resolvable(item), NEW value \in Strings
    PROVE  /\ LabelOf(item, value) \in Strings
           /\ \A v \in Extracted(item, value) : v \in Strings
           /\ \A p \in Punch : p.label \in Strings /\ p.error \in Strings /\ p.status \in Nat
<1>1. item.label \in Strings /\ item.labelIdx \in Nat
  BY DEF Records
<1>2. Resolved(item) \in Strings
  <2>1. CASE item.label = EmptyString
    <3>1. InputIndex \in Seq(Strings) /\ Len(InputIndex) \in Nat
      BY LoadType, LenProperties, ProcessAssumption DEF InputIndex
    <3>2. item.labelIdx + 1 \in 1 .. Len(InputIndex)
      BY <1>1, <2>1, <3>1 DEF Resolvable, CanGet
    <3>3. InputIndex[item.labelIdx + 1] \in Strings
      BY <3>1, <3>2, ElementOfSeq
    <3> QED
      BY <2>1, <3>3 DEF Resolved, Get
  <2>2. CASE item.label # EmptyString
    BY <1>1, <2>2 DEF Resolved
  <2> QED
    BY <2>1, <2>2
<1>3. LabelOf(item, value) \in Strings
  BY <1>2 DEF LabelOf
<1>4. \A v \in Extracted(item, value) : v \in Strings
  BY MadeUpStrings DEF Extracted, Records
<1>5. \A p \in Punch : p.label \in Strings /\ p.error \in Strings /\ p.status \in Nat
  <2>1. conf.netErrors \subseteq Strings
    BY ConfFacts DEF Configurations
  <2>2. CASE conf.driver = "dummy"
    BY <2>2, MadeUpStrings, PipelineAssumption DEF Punch
  <2>3. CASE conf.driver # "dummy"
    BY <2>1, <2>3, MadeUpStrings DEF Punch
  <2> QED
    BY <2>2, <2>3
<1> QED
  BY <1>3, <1>4, <1>5

(* The record that an input is at.                                         *)
LEMMA PayloadFacts ==
    ASSUME WorkTypeOK
    PROVE  /\ conf.payload \in Seq(Records) /\ Len(conf.payload) \in Nat
           /\ \A k \in 1 .. Len(conf.payload) : conf.payload[k] \in Records
           /\ conf.iterationLimit \in Nat /\ conf.hits \in Nat
           /\ \A w \in Workers : InputOf(w) \in Workers /\ InputOf(w) \in Inputs
           /\ Inputs \subseteq Workers
           /\ \A i \in Workers : /\ input[i].pos \in Nat /\ input[i].good \in Nat
                                 /\ input[i].bad \in Nat /\ input[i].iterations \in Nat
<1>1. conf \in Configurations
  BY ConfFacts DEF WorkTypeOK
<1>2. conf.payload \in Seq(Records) /\ conf.iterationLimit \in Nat /\ conf.hits \in Nat
  BY <1>1 DEF Configurations
<1>3. Len(conf.payload) \in Nat /\ \A k \in 1 .. Len(conf.payload) : conf.payload[k] \in Records
  BY <1>2, LenProperties, ElementOfSeq
<1>4. /\ \A w \in Workers : InputOf(w) \in Workers /\ InputOf(w) \in Inputs
      /\ Inputs \subseteq Workers
  BY ProcessAssumption DEF InputOf, Inputs
<1> QED
  BY <1>2, <1>3, <1>4 DEF WorkTypeOK, InputOK

(* A step of one input.                                                    *)
InputTypes == [pc : {"read", "send", "closed"}, pos : Nat, good : Nat, bad : Nat, iterations : Nat]

InputGood(l) ==
    /\ l \in InputTypes
    /\ l.pos <= Len(conf.payload)
    /\ conf.iterationLimit > 0 => l.iterations < conf.iterationLimit
    /\ l.pc = "send" => l.pos # 0 /\ Good(conf.payload[l.pos])

(* One input changes.                                                      *)
LEMMA InputChange ==
    ASSUME InputOK, NEW i \in Workers, NEW l, InputGood(l),
           input' = [input EXCEPT ![i] = l], conf' = conf
    PROVE  InputOK'
BY DEF InputOK, InputGood, InputTypes, Good, Bad, Fatal

(* The steps of an input: the types.                                       *)
LEMMA InputStepType ==
    ASSUME WorkTypeOK, NEW i \in Workers, InputStep(i)
    PROVE  InputOK' /\ conf' = conf
<1> DEFINE l == input[i]
           n == IF conf.iterationLimit > 0 THEN l.iterations + 1 ELSE l.iterations
           good == [l EXCEPT !.pc = "send", !.pos = l.pos + 1, !.good = l.good + 1]
           bad == [l EXCEPT !.pos = l.pos + 1, !.bad = l.bad + 1]
           again == [l EXCEPT !.pos = 0, !.iterations = n]
<1>0. l \in InputTypes /\ InputGood(l)
  BY DEF WorkTypeOK, InputOK, InputGood, InputTypes
<1>1. conf' = conf
  BY DEF InputStep, ReadGood, ReadBad, ReadFatal, Exhausted, Problematic, Rewind, processVars
<1>2. CASE ReadGood(i)
  <2>1. /\ l.pc = "read" /\ l.pos # Len(conf.payload) /\ Good(conf.payload[l.pos + 1])
        /\ input' = [input EXCEPT ![i] = good]
    BY <1>2 DEF ReadGood, Reading, AtEnd, Next_
  <2>2. l.pos + 1 \in Nat /\ l.good + 1 \in Nat /\ l.pos + 1 # 0 /\ l.pos + 1 <= Len(conf.payload)
    BY <1>0, <2>1, PayloadFacts DEF InputGood
  <2> HIDE DEF l
  <2>3. good \in InputTypes /\ good.pos = l.pos + 1 /\ good.iterations = l.iterations
    BY <1>0, <2>2 DEF InputTypes
  <2> HIDE DEF good
  <2>4. InputGood(good)
    BY <1>0, <2>1, <2>2, <2>3 DEF InputGood
  <2> QED
    BY <1>1, <2>1, <2>4, InputChange DEF WorkTypeOK
<1>3. CASE ReadBad(i)
  <2>1. /\ l.pc = "read" /\ l.pos # Len(conf.payload)
        /\ input' = [input EXCEPT ![i] = bad]
    BY <1>3 DEF ReadBad, Reading, AtEnd
  <2>2. l.pos + 1 \in Nat /\ l.bad + 1 \in Nat /\ l.pos + 1 <= Len(conf.payload)
    BY <1>0, <2>1, PayloadFacts DEF InputGood
  <2> HIDE DEF l
  <2>3. /\ bad \in InputTypes /\ bad.pos = l.pos + 1 /\ bad.iterations = l.iterations
        /\ bad.pc = l.pc
    BY <1>0, <2>2 DEF InputTypes
  <2> HIDE DEF bad
  <2>4. InputGood(bad)
    BY <1>0, <2>1, <2>2, <2>3 DEF InputGood
  <2> QED
    BY <1>1, <2>1, <2>4, InputChange DEF WorkTypeOK
<1>4. CASE ReadFatal(i) \/ Problematic(i)
  <2>1. input' = input
    BY <1>4 DEF ReadFatal, Problematic, inputVars
  <2> QED
    BY <1>1, <2>1 DEF WorkTypeOK, InputOK, Good, Bad, Fatal
<1>5. CASE Exhausted(i)
  <2>1. input' = [input EXCEPT ![i] = [l EXCEPT !.pc = "closed"]]
    BY <1>5 DEF Exhausted
  <2>2. InputGood([l EXCEPT !.pc = "closed"])
    BY <1>0 DEF InputGood, InputTypes
  <2> QED
    BY <1>1, <2>1, <2>2, InputChange DEF WorkTypeOK
<1>6. CASE Rewind(i)
  <2>1. /\ l.pc = "read" /\ ~LastPass(i)
        /\ input' = [input EXCEPT ![i] = again]
    BY <1>6 DEF Rewind, Reading
  <2>2. conf.iterationLimit \in Nat /\ l.iterations \in Nat /\ Len(conf.payload) \in Nat
    BY PayloadFacts
  <2>3. n \in Nat /\ (conf.iterationLimit > 0 => n < conf.iterationLimit)
    BY <2>1, <2>2 DEF LastPass
  <2> HIDE DEF n, l
  <2>4. again \in InputTypes /\ again.pos = 0 /\ again.iterations = n /\ again.pc = l.pc
    BY <1>0, <2>3 DEF InputTypes
  <2> HIDE DEF again
  <2>5. InputGood(again)
    BY <1>0, <2>1, <2>2, <2>3, <2>4 DEF InputGood
  <2> QED
    BY <1>1, <2>1, <2>5, InputChange DEF WorkTypeOK
<1> QED
  BY <1>1, <1>2, <1>3, <1>4, <1>5, <1>6 DEF InputStep

(* A step of one worker.                                                   *)
WorkerTypes == [pc : {"loop", "payload", "hit", "push", "finished"},
                item : {<< >>} \cup Records \cup Results, value : Strings]

WorkerGood(r) ==
    /\ r \in WorkerTypes
    /\ r.pc = "hit" => r.item \in Records
    /\ r.pc = "push" => r.item \in Results

(* One worker changes.                                                     *)
LEMMA WorkerChange ==
    ASSUME WorkerOK, NEW w \in Workers, NEW r, WorkerGood(r),
           worker' = [worker EXCEPT ![w] = r], hits' \in 0 .. conf.hits, clock' \in Nat, conf' = conf
    PROVE  WorkerOK'
BY DEF WorkerOK, WorkerGood, WorkerTypes

(* The types, of one worker.                                               *)
LEMMA WorkerFacts ==
    ASSUME WorkTypeOK, NEW w \in Workers
    PROVE  /\ WorkerGood(worker[w])
           /\ hits \in 0 .. conf.hits /\ clock \in Nat /\ conf.hits \in Nat
           /\ \A pc \in {"loop", "payload", "finished"} : WorkerGood([worker[w] EXCEPT !.pc = pc])
<1>1. WorkerGood(worker[w]) /\ hits \in 0 .. conf.hits /\ clock \in Nat
  BY DEF WorkTypeOK, WorkerOK, WorkerGood, WorkerTypes
<1>2. \A pc \in {"loop", "payload", "finished"} : WorkerGood([worker[w] EXCEPT !.pc = pc])
  BY <1>1 DEF WorkerGood, WorkerTypes
<1> QED
  BY <1>1, <1>2, PayloadFacts

(* The steps of a worker, one by one: the types.                           *)
LEMMA ReceiveSlotType ==
    ASSUME WorkTypeOK, NEW w \in Workers, ReceiveSlot(w)
    PROVE  WorkTypeOK' /\ UNCHANGED <<conf, logVars>>
<1>1. /\ hits > 0 /\ hits' = hits - 1
      /\ worker' = [worker EXCEPT ![w] = [worker[w] EXCEPT !.pc = "payload"]]
      /\ UNCHANGED <<conf, input, clock, logVars>>
  BY DEF ReceiveSlot, Goto, processVars, inputVars
<1>2. hits' \in 0 .. conf.hits
  <2>1. hits \in 0 .. conf.hits /\ conf.hits \in Nat
    BY WorkerFacts
  <2> QED
    BY <1>1, <2>1
<1>3. WorkerOK'
  BY <1>1, <1>2, WorkerFacts, WorkerChange DEF WorkTypeOK
<1> QED
  BY <1>1, <1>3 DEF WorkTypeOK, InputOK, Good, Bad, Fatal

(* A worker that takes a record keeps the types.                           *)
LEMMA TakePayloadType ==
    ASSUME WorkTypeOK, NEW w \in Workers, TakePayload(w)
    PROVE  WorkTypeOK' /\ UNCHANGED <<conf, logVars>>
<1> DEFINE i == InputOf(w)
           item == conf.payload[input[i].pos]
           r == [worker[w] EXCEPT !.pc = "hit", !.item = item]
           l == [input[i] EXCEPT !.pc = "read"]
<1>1. /\ input[i].pc = "send" /\ i \in Workers
      /\ input' = [input EXCEPT ![i] = l]
      /\ worker' = [worker EXCEPT ![w] = r]
      /\ UNCHANGED <<conf, hits, clock, logVars>>
  BY PayloadFacts DEF TakePayload, Offers, Taken, Item, processVars
<1>2. item \in Records
  <2>1. input[i].pos \in 1 .. Len(conf.payload)
    BY <1>1, PayloadFacts DEF WorkTypeOK, InputOK
  <2> QED
    BY <2>1, PayloadFacts
<1> HIDE DEF item
<1>3. WorkerGood(r)
  BY <1>2, WorkerFacts DEF WorkerGood, WorkerTypes
<1>4. InputGood(l)
  BY <1>1 DEF WorkTypeOK, InputOK, InputGood, InputTypes
<1> HIDE DEF l, r
<1>5. InputOK'
  BY <1>1, <1>4, InputChange DEF WorkTypeOK
<1>6. WorkerOK'
  BY <1>1, <1>3, WorkerFacts, WorkerChange DEF WorkTypeOK
<1> QED
  BY <1>1, <1>5, <1>6 DEF WorkTypeOK

(* A worker that gets no record keeps the types.                           *)
LEMMA NoPayloadType ==
    ASSUME WorkTypeOK, NEW w \in Workers, NoPayload(w)
    PROVE  WorkTypeOK' /\ UNCHANGED <<conf, logVars>>
<1>1. /\ worker' = [worker EXCEPT ![w] = [worker[w] EXCEPT !.pc = "finished"]]
      /\ UNCHANGED <<conf, input, hits, clock, logVars>>
  BY DEF NoPayload, Goto, processVars, inputVars
<1>2. WorkerOK'
  BY <1>1, WorkerFacts, WorkerChange DEF WorkTypeOK
<1> QED
  BY <1>1, <1>2 DEF WorkTypeOK, InputOK, Good, Bad, Fatal

(* A hit keeps the types.                                                  *)
LEMMA DoBusyType ==
    ASSUME WorkTypeOK, NEW w \in Workers, DoBusy(w)
    PROVE  WorkTypeOK' /\ UNCHANGED <<conf, logVars>>
<1> DEFINE item == worker[w].item
           value0 == worker[w].value
<1>1. /\ worker[w].pc = "hit" /\ Resolvable(item)
      /\ UNCHANGED <<conf, input, hits, clock, logVars>>
  BY DEF DoBusy, AtWorker, processVars
<1>2. item \in Records /\ value0 \in Strings /\ clock \in Nat
  BY <1>1, WorkerFacts DEF WorkerGood, WorkerTypes
<1>3. PICK p \in Punch, value \in Extracted(item, value0), failed \in SUBSET ToSet(item.asserts) :
          worker' = [worker EXCEPT ![w] =
              [pc |-> "push", value |-> value,
               item |-> [label  |-> IF p.label # EmptyString THEN p.label ELSE LabelOf(item, value0),
                         error  |-> AssertedError(p.error, item.asserts, failed),
                         ts     |-> clock,
                         status |-> p.status]]]
  BY DEF DoBusy
<1> DEFINE label == IF p.label # EmptyString THEN p.label ELSE LabelOf(item, value0)
           error == AssertedError(p.error, item.asserts, failed)
           result == [label |-> label, error |-> error, ts |-> clock, status |-> p.status]
           r == [pc |-> "push", value |-> value, item |-> result]
<1>4. item.asserts \in Seq(Lines)
  BY <1>2 DEF Records
<1>5. label \in Strings /\ p.error \in Strings /\ p.status \in Nat /\ value \in Strings
  BY <1>1, <1>2, <1>3, ItemTypes DEF WorkTypeOK
<1>6. error \in Strings
  BY <1>4, <1>5, AssertedErrorType
<1>7. worker' = [worker EXCEPT ![w] = r]
  BY <1>3
<1> HIDE DEF label, error
<1>8. result \in Results
  BY <1>2, <1>5, <1>6 DEF Results
<1> HIDE DEF result
<1>9. WorkerGood(r)
  BY <1>5, <1>8 DEF WorkerGood, WorkerTypes
<1> HIDE DEF r
<1>10. WorkerOK'
  BY <1>1, <1>7, <1>9, WorkerFacts, WorkerChange DEF WorkTypeOK
<1> QED
  BY <1>1, <1>10 DEF WorkTypeOK, InputOK, Good, Bad, Fatal

(* A push keeps the types, and is a step of the output.                    *)
LEMMA PushType ==
    ASSUME WorkTypeOK, NEW w \in Workers, Push(w)
    PROVE  WorkTypeOK' /\ LogStep
<1> DEFINE r == [worker[w] EXCEPT !.pc = "loop", !.item = << >>]
<1>1. /\ worker[w].pc = "push" /\ Receive(worker[w].item)
      /\ worker' = [worker EXCEPT ![w] = r]
      /\ UNCHANGED <<conf, input, hits, clock>>
  BY DEF Push, AtWorker, Receive, inputVars
<1>2. worker[w].item \in Results
  BY <1>1, WorkerFacts DEF WorkerGood
<1>3. WorkerGood(r)
  BY WorkerFacts DEF WorkerGood, WorkerTypes
<1> HIDE DEF r
<1>4. WorkerOK'
  BY <1>1, <1>3, WorkerFacts, WorkerChange DEF WorkTypeOK
<1> QED
  BY <1>1, <1>2, <1>4 DEF WorkTypeOK, InputOK, LogStep, Good, Bad, Fatal

(* So a step of the pipeline is a step of the output, and keeps the types. *)
LEMMA WorkTypeStep ==
    ASSUME WorkTypeOK, [Next]_vars
    PROVE  WorkTypeOK' /\ LogStep
<1>1. ASSUME UNCHANGED <<conf, input, worker, hits>>, clock' \in Nat
      PROVE  WorkTypeOK'
  BY <1>1 DEF WorkTypeOK, InputOK, WorkerOK, Good, Bad, Fatal
<1>2. clock \in Nat
  BY DEF WorkTypeOK, WorkerOK
<1>3. ASSUME NEW i \in Workers, InputAction(i)
      PROVE  WorkTypeOK' /\ LogStep
  <2>1. InputOK' /\ conf' = conf /\ UNCHANGED <<logVars, worker, hits, clock>>
    BY <1>3, InputStepType DEF InputAction, workVars
  <2> QED
    BY <2>1 DEF WorkTypeOK, WorkerOK, LogStep
<1>4. ASSUME NEW w \in Workers, ReceiveSlot(w) \/ WorkerStep(w)
      PROVE  WorkTypeOK' /\ LogStep
  <2>1. CASE ReceiveSlot(w) \/ TakePayload(w) \/ NoPayload(w) \/ DoBusy(w)
    BY <2>1, ReceiveSlotType, TakePayloadType, NoPayloadType, DoBusyType DEF LogStep
  <2>2. CASE Unresolvable(w) \/ NoSuchGroup(w)
    <3>1. UNCHANGED <<conf, input, worker, hits, clock, logVars>>
      BY <2>2 DEF Unresolvable, NoSuchGroup, inputVars, workVars
    <3> QED
      BY <1>1, <1>2, <3>1 DEF LogStep
  <2>3. CASE Push(w)
    BY <2>3, PushType
  <2> QED
    BY <1>4, <2>1, <2>2, <2>3 DEF WorkerStep
<1>5. CASE OutputAction \/ RunEnds \/ CloseAction
  <2>1. UNCHANGED <<input, worker, hits, clock>> /\ LogStep
    BY <1>5 DEF OutputAction, RunEnds, CloseAction, LogStep, inputVars, workVars
  <2>2. conf' = conf
    BY <2>1 DEF LogStep, Receive, BackgroundStep, PushLDJSON, IndexStrings, PushTrace, WriteUnit,
       WriteFails, WriteToFull, FlushReturns, RecordWritten, RunReturns, CloseStep, CloseLDJSON,
       CloseFlushes, CloseFlushReturns, CloseDescriptor, MainReturns
  <2> QED
    BY <1>1, <1>2, <2>1, <2>2
<1>6. CASE ReaderAction \/ Tick \/ CacheRace \/ Killed \/ UNCHANGED vars
  <2>1. UNCHANGED <<conf, input, worker, hits, logVars>>
    BY <1>6 DEF ReaderAction, Read, Tick, CacheRace, Killed, Kill, vars, processVars, inputVars,
       workVars
  <2>2. clock' \in Nat
    BY <1>2, <1>6 DEF ReaderAction, Tick, CacheRace, Killed, vars, workVars
  <2> QED
    BY <1>1, <2>1, <2>2 DEF LogStep
<1> QED
  BY <1>3, <1>4, <1>5, <1>6 DEF Next

(* The types at the start.                                                 *)
LEMMA WorkInitType == Init => WorkTypeOK /\ LogTypeOK
<1> SUFFICES ASSUME Init PROVE WorkTypeOK /\ LogTypeOK
  OBVIOUS
<1>1. /\ conf \in Confs /\ ResultLogInit
      /\ input = [i \in Workers |->
                    [pc |-> "read", pos |-> 0, good |-> 0, bad |-> 0, iterations |-> 0]]
      /\ worker = [w \in Workers |-> [pc |-> IF w <= conf.workers THEN "loop" ELSE "finished",
                                      item |-> << >>, value |-> NoValue]]
      /\ hits = conf.hits /\ clock = 1
  BY DEF Init, PayloadInputInit
<1>2. conf.hits \in Nat /\ conf.iterationLimit \in Nat /\ conf.payload \in Seq(Records)
  BY <1>1, ConfFacts DEF Configurations
<1>3. Len(conf.payload) \in Nat
  BY <1>2, LenProperties
<1>4. InputOK
  BY <1>1, <1>2, <1>3 DEF InputOK
<1>5. WorkerOK
  BY <1>1, <1>2, MadeUpStrings DEF WorkerOK
<1> QED
  BY <1>1, <1>4, <1>5, LogInitType DEF WorkTypeOK

(* The types of the whole pipeline hold in every state.                    *)
THEOREM PipelineTypes == Spec => [](WorkTypeOK /\ LogTypeOK)
<1>1. Init => WorkTypeOK /\ LogTypeOK
  BY WorkInitType
<1>2. WorkTypeOK /\ LogTypeOK /\ [Next]_vars => (WorkTypeOK /\ LogTypeOK)'
  BY WorkTypeStep, LogTypeStep
<1> QED
  BY <1>1, <1>2, PTL DEF Spec

(* How the process ends.                                                   *)
LEMMA OutcomeStep ==
    ASSUME outcome \in {"running", "killed", "panic", "exited"}, [Next]_vars
    PROVE  outcome' \in {"running", "killed", "panic", "exited"}
BY DEF Next, InputAction, InputStep, ReadGood, ReadBad, ReadFatal, Exhausted, Problematic, Rewind,
   ReceiveSlot, WorkerStep, TakePayload, NoPayload, Unresolvable, DoBusy, NoSuchGroup, Push,
   OutputAction, RunEnds, CloseAction, ReaderAction, Tick, CacheRace, Killed, Kill, Panic,
   Receive, BackgroundStep, PushLDJSON, IndexStrings, PushTrace, WriteUnit,
   WriteFails, WriteToFull, FlushReturns, RecordWritten, RunReturns, CloseStep, CloseLDJSON,
   CloseFlushes, CloseFlushReturns, CloseDescriptor, MainReturns, Read, vars, processVars

(* The type invariant of the pipeline: places, positions within the        *)
(* payload file, passes within the limit, buffers within their size.       *)
THEOREM PipelineTypeCorrect == Spec => []TypeOK
<1>1. WorkTypeOK /\ LogTypeOK /\ outcome \in {"running", "killed", "panic", "exited"} => TypeOK
  <2> SUFFICES ASSUME WorkTypeOK, LogTypeOK, outcome \in {"running", "killed", "panic", "exited"}
               PROVE  TypeOK
    OBVIOUS
  <2>1. /\ conf \in Confs /\ hits \in 0 .. conf.hits /\ promised \in 0 .. Len(taken)
        /\ bg.k \in 1 .. Len(conf.outs) /\ bg.part \in 1 .. RecordLen + 1
    BY LogFacts DEF WorkTypeOK, WorkerOK
  <2>2. ASSUME NEW i \in Workers
        PROVE  /\ input[i].pc \in {"read", "send", "closed"}
               /\ input[i].pos \in 0 .. Len(conf.payload)
               /\ input[i].good + input[i].bad \in Nat
               /\ conf.iterationLimit > 0 => input[i].iterations < conf.iterationLimit
    <3>1. /\ input[i].pc \in {"read", "send", "closed"} /\ input[i].pos <= Len(conf.payload)
          /\ conf.iterationLimit > 0 => input[i].iterations < conf.iterationLimit
      BY DEF WorkTypeOK, InputOK
    <3> QED
      BY <3>1, PayloadFacts
  <2>3. \A w \in Workers : worker[w].pc \in {"loop", "payload", "hit", "push", "finished"}
    BY DEF WorkTypeOK, WorkerOK
  <2>4. \A o \in Writers : Len(out[o].buf) <= BufSize
    BY DEF LogTypeOK, OutOK
  <2>5. /\ bg.pc \in {"idle", "push", "write", "flushing"}
        /\ closer.pc \in {"away", "close", "flushing", "fd", "exit"}
    BY DEF LogTypeOK, BackgroundOK, CloserOK
  <2> QED
    BY <2>1, <2>2, <2>3, <2>4, <2>5 DEF TypeOK
<1>2. Init => outcome \in {"running", "killed", "panic", "exited"}
  BY DEF Init
<1>3. /\ outcome \in {"running", "killed", "panic", "exited"}
      /\ [Next]_vars
      => (outcome \in {"running", "killed", "panic", "exited"})'
  BY OutcomeStep
<1> QED
  BY <1>1, <1>2, <1>3, PipelineTypes, PTL DEF Spec

(* No record of the binary file, cut or whole, has the number of a string  *)
(* that is not in the strings file yet, whatever the two goroutines that   *)
(* write do: the strings of a result are written before its first unit,    *)
(* and the file never gets shorter.                                        *)
THEOREM StringsFirst == Spec => []StringsBeforeRecords
<1>1. LogTypeOK => StringsBeforeRecords
  <2> SUFFICES ASSUME LogTypeOK PROVE StringsBeforeRecords
    OBVIOUS
  <2> SUFFICES ASSUME NEW k \in DOMAIN out["binary"].file
               PROVE  LET rec == out["binary"].file[k].rec
                      IN  rec.error <= Len(strFile) /\ rec.label <= Len(strFile)
    BY DEF StringsBeforeRecords
  <2>1. out["binary"].file \in Seq(Cells(Numbered(strFile)))
    BY DEF LogTypeOK, OutOK, Buffers, RecordsOf, Writers
  <2>2. k \in 1 .. Len(out["binary"].file)
    BY <2>1, LenProperties
  <2>3. out["binary"].file[k] \in Cells(Numbered(strFile))
    BY <2>1, <2>2, ElementOfSeq
  <2>4. out["binary"].file[k].rec \in Numbered(strFile)
    BY <2>3 DEF Cells
  <2>5. \A rec \in Numbered(strFile) : rec.error <= Len(strFile) /\ rec.label <= Len(strFile)
    BY LogFacts DEF Numbered
  <2> QED
    BY <2>4, <2>5
<1> QED
  BY <1>1, PipelineTypes, PTL
-----------------------------------------------------------------------------
(* The limit on the passes                                                 *)

(* Good records among the first n, and what an input has handed over.      *)
GoodTo(n) == Cardinality({k \in 1 .. n : Good(conf.payload[k])})
Unsent(i) == IF input[i].pc = "send" THEN 1 ELSE 0
HandedOver(i) ==
    input[i].iterations * GoodTo(Len(conf.payload)) + GoodTo(input[i].pos) - Unsent(i)

Most == conf.iterationLimit * GoodTo(Len(conf.payload))

(* Every hand-over of every input, numbered: a set, as its cardinality is  *)
(* a sum over the inputs.                                                  *)
HandOvers == {h \in Inputs \X (1 .. Most) : h[2] <= HandedOver(h[1])}
Holding == {w \in Workers : worker[w].pc \in {"hit", "push"}}

HandOverInv ==
    conf.iterationLimit > 0 => Len(taken) + Cardinality(Holding) <= Cardinality(HandOvers)

(* The good records up to a place in the file, one record further.         *)
LEMMA GoodToStep ==
    ASSUME NEW n \in Nat
    PROVE  /\ IsFiniteSet({k \in 1 .. n : Good(conf.payload[k])})
           /\ GoodTo(n) \in Nat /\ GoodTo(0) = 0
           /\ GoodTo(n + 1) = GoodTo(n) + IF Good(conf.payload[n + 1]) THEN 1 ELSE 0
<1> DEFINE S == {k \in 1 .. n : Good(conf.payload[k])}
           T == {k \in 1 .. n + 1 : Good(conf.payload[k])}
<1>1. IsFiniteSet(1 .. n) /\ S \subseteq 1 .. n
  BY FS_Interval
<1>2. IsFiniteSet(S) /\ Cardinality(S) \in Nat
  BY <1>1, FS_Subset, FS_CardinalityType
<1>3. GoodTo(0) = 0
  <2>1. {k \in 1 .. 0 : Good(conf.payload[k])} = {}
    OBVIOUS
  <2> QED
    BY <2>1, FS_EmptySet DEF GoodTo
<1>4. CASE Good(conf.payload[n + 1])
  <2>1. T = S \cup {n + 1} /\ n + 1 \notin S
    BY <1>4
  <2> HIDE DEF S, T
  <2>2. Cardinality(T) = Cardinality(S) + 1
    BY <1>2, <2>1, FS_AddElement
  <2> QED
    BY <1>2, <1>3, <1>4, <2>2 DEF GoodTo, S, T
<1>5. CASE ~Good(conf.payload[n + 1])
  <2>1. T = S
    BY <1>5
  <2> QED
    BY <1>2, <1>3, <1>5, <2>1 DEF GoodTo
<1> QED
  BY <1>4, <1>5

(* Further on in the file there are no fewer good records.                 *)
LEMMA GoodToGrows ==
    ASSUME NEW m \in Nat, NEW n \in Nat, m <= n
    PROVE  GoodTo(m) <= GoodTo(n)
<1>1. {k \in 1 .. m : Good(conf.payload[k])} \subseteq {k \in 1 .. n : Good(conf.payload[k])}
  OBVIOUS
<1> QED
  BY <1>1, GoodToStep, FS_Subset DEF GoodTo

(* Products of naturals, for the provers.                                  *)
LEMMA ProductGrows ==
    ASSUME NEW a \in Nat, NEW b \in Nat, NEW c \in Nat, a <= b
    PROVE  /\ a * c \in Nat /\ b * c \in Nat /\ a * c <= b * c
           /\ (a + 1) * c = a * c + c
OBVIOUS

(* No input hands over more than the good records of all its passes.       *)
LEMMA HandedOverBound ==
    ASSUME WorkTypeOK, conf.iterationLimit > 0, NEW i \in Workers
    PROVE  /\ HandedOver(i) \in 0 .. Most /\ Most \in Nat
           /\ input[i].pc = "send" => HandedOver(i) + 1 <= Most
<1> DEFINE n == Len(conf.payload)
           it == input[i].iterations
           pos == input[i].pos
           limit == conf.iterationLimit
<1>1. /\ n \in Nat /\ it \in Nat /\ pos \in Nat /\ limit \in Nat
      /\ pos <= n /\ it + 1 <= limit
      /\ input[i].pc = "send" => pos # 0 /\ Good(conf.payload[pos])
  BY PayloadFacts DEF WorkTypeOK, InputOK
<1> HIDE DEF n, it, pos, limit
<1>2. GoodTo(n) \in Nat /\ GoodTo(pos) \in Nat /\ GoodTo(pos) <= GoodTo(n)
  BY <1>1, GoodToStep, GoodToGrows
<1>3. input[i].pc = "send" => GoodTo(pos) >= 1
  <2> SUFFICES ASSUME input[i].pc = "send" PROVE GoodTo(pos) >= 1
    OBVIOUS
  <2>1. pos - 1 \in Nat /\ (pos - 1) + 1 = pos
    BY <1>1
  <2>2. GoodTo(pos) = GoodTo(pos - 1) + 1 /\ GoodTo(pos - 1) \in Nat
    BY <1>1, <2>1, GoodToStep
  <2> QED
    BY <2>2
<1>4. /\ it * GoodTo(n) \in Nat /\ limit * GoodTo(n) \in Nat
      /\ it * GoodTo(n) + GoodTo(n) <= limit * GoodTo(n)
  <2>1. (it + 1) * GoodTo(n) = it * GoodTo(n) + GoodTo(n) /\ it * GoodTo(n) \in Nat
    BY <1>1, <1>2, ProductGrows
  <2>2. it + 1 \in Nat
    BY <1>1
  <2>3. (it + 1) * GoodTo(n) <= limit * GoodTo(n) /\ limit * GoodTo(n) \in Nat
    BY <1>1, <1>2, <2>2, ProductGrows
  <2> QED
    BY <2>1, <2>3
<1>5. HandedOver(i) = it * GoodTo(n) + GoodTo(pos) - Unsent(i) /\ Most = limit * GoodTo(n)
  BY DEF HandedOver, Most, n, it, pos, limit
<1>6. Unsent(i) = IF input[i].pc = "send" THEN 1 ELSE 0
  BY DEF Unsent
<1> DEFINE all == it * GoodTo(n)
           most == limit * GoodTo(n)
<1>7. all \in Nat /\ most \in Nat /\ all + GoodTo(n) <= most
  BY <1>4
<1>8. HandedOver(i) = all + GoodTo(pos) - Unsent(i) /\ Most = most
  BY <1>5
<1> HIDE DEF all, most
<1> QED
  BY <1>2, <1>3, <1>6, <1>7, <1>8

(* What an input has handed over after a step, in terms of its locals.     *)
LEMMA HandedOverNext ==
    ASSUME conf' = conf, NEW j \in Workers
    PROVE  HandedOver(j)' = input'[j].iterations * GoodTo(Len(conf.payload))
                            + GoodTo(input'[j].pos) - (IF input'[j].pc = "send" THEN 1 ELSE 0)
BY DEF HandedOver, GoodTo, Unsent

(* Reading and rewinding hand nothing over.                                *)
LEMMA InputHandsNothing ==
    ASSUME WorkTypeOK, conf.iterationLimit > 0, NEW i \in Workers, InputStep(i),
           NEW j \in Workers
    PROVE  HandedOver(j)' = HandedOver(j)
<1> DEFINE n == Len(conf.payload)
           it == input[j].iterations
           pos == input[j].pos
<1>0. conf' = conf
  BY InputStepType
<1>1. /\ n \in Nat /\ it \in Nat /\ pos \in Nat /\ input \in [Workers -> InputTypes]
      /\ conf.iterationLimit \in Nat
  BY PayloadFacts DEF WorkTypeOK, InputOK, InputTypes
<1>2. HandedOver(j) = it * GoodTo(n) + GoodTo(pos) - IF input[j].pc = "send" THEN 1 ELSE 0
  BY DEF HandedOver, Unsent
<1>3. HandedOver(j)' = input'[j].iterations * GoodTo(n) + GoodTo(input'[j].pos)
                       - IF input'[j].pc = "send" THEN 1 ELSE 0
  BY <1>0, HandedOverNext
<1>4. CASE input'[j] = input[j]
  BY <1>2, <1>3, <1>4
<1>5. CASE input'[j] # input[j]
  <2>1. i = j /\ (ReadGood(i) \/ ReadBad(i) \/ Exhausted(i) \/ Rewind(i))
    BY <1>1, <1>5 DEF InputStep, ReadGood, ReadBad, ReadFatal, Exhausted, Problematic, Rewind,
       inputVars
  <2>2. pos <= n
    BY DEF WorkTypeOK, InputOK
  <2>3. /\ GoodTo(pos) \in Nat /\ GoodTo(n) \in Nat /\ GoodTo(0) = 0
        /\ GoodTo(pos + 1) = GoodTo(pos) + IF Good(conf.payload[pos + 1]) THEN 1 ELSE 0
    BY <1>1, GoodToStep
  <2>4. it * GoodTo(n) \in Nat /\ (it + 1) * GoodTo(n) = it * GoodTo(n) + GoodTo(n)
    BY <1>1, <2>3, ProductGrows
  <2>5. CASE ReadGood(i)
    <3>1. /\ input[j].pc = "read" /\ input'[j].pc = "send" /\ input'[j].pos = pos + 1
          /\ input'[j].iterations = it /\ Good(conf.payload[pos + 1])
      BY <1>1, <2>1, <2>5 DEF ReadGood, Reading, Next_, InputTypes
    <3> HIDE DEF n, it, pos
    <3> QED
      BY <1>2, <1>3, <2>3, <2>4, <3>1
  <2>6. CASE ReadBad(i)
    <3>1. /\ input[j].pc = "read" /\ input'[j].pc = "read" /\ input'[j].pos = pos + 1
          /\ input'[j].iterations = it /\ ~Good(conf.payload[pos + 1])
      BY <1>1, <2>1, <2>6 DEF ReadBad, Reading, Next_, InputTypes, Good
    <3> HIDE DEF n, it, pos
    <3> QED
      BY <1>2, <1>3, <2>3, <2>4, <3>1
  <2>7. CASE Exhausted(i)
    <3>1. /\ input[j].pc = "read" /\ input'[j].pc = "closed" /\ input'[j].pos = pos
          /\ input'[j].iterations = it
      BY <1>1, <2>1, <2>7 DEF Exhausted, Reading, InputTypes
    <3> QED
      BY <1>2, <1>3, <3>1
  <2>8. CASE Rewind(i)
    <3>1. /\ input[j].pc = "read" /\ input'[j].pc = "read" /\ input'[j].pos = 0 /\ pos = n
          /\ input'[j].iterations = it + 1
      BY <1>1, <2>1, <2>8 DEF Rewind, Reading, AtEnd, InputTypes
    <3> HIDE DEF n, it, pos
    <3> QED
      BY <1>2, <1>3, <2>3, <2>4, <3>1
  <2> QED
    BY <2>1, <2>5, <2>6, <2>7, <2>8
<1> QED
  BY <1>4, <1>5

(* The hand-overs fit into as many passes over the inputs as allowed.      *)
LEMMA HandOversFinite ==
    ASSUME WorkTypeOK, conf.iterationLimit > 0
    PROVE  /\ IsFiniteSet(HandOvers) /\ Cardinality(HandOvers) \in Nat
           /\ Cardinality(HandOvers) <= Cardinality(Inputs) * Most
           /\ Cardinality(Inputs) \in Nat
           /\ IsFiniteSet(Holding) /\ Cardinality(Holding) \in Nat
<1>0. Most \in Nat /\ 1 \in Nat
  BY ProcessAssumption, HandedOverBound
<1>1. IsFiniteSet(1 .. Most) /\ Cardinality(1 .. Most) = Most
  BY <1>0, FS_Interval
<1>2. IsFiniteSet(Inputs) /\ Cardinality(Inputs) \in Nat
  BY PayloadFacts, ProcessAssumption, FS_Subset, FS_CardinalityType
<1>3. /\ IsFiniteSet(Inputs \X (1 .. Most))
      /\ Cardinality(Inputs \X (1 .. Most)) = Cardinality(Inputs) * Most
  BY <1>1, <1>2, FS_Product
<1>4. HandOvers \subseteq Inputs \X (1 .. Most)
  BY DEF HandOvers
<1>5. IsFiniteSet(HandOvers) /\ Cardinality(HandOvers) <= Cardinality(Inputs \X (1 .. Most))
  BY <1>3, <1>4, FS_Subset
<1>6. Holding \subseteq Workers
  BY DEF Holding
<1>7. IsFiniteSet(Holding)
  BY <1>6, ProcessAssumption, FS_Subset
<1> QED
  BY <1>2, <1>3, <1>5, <1>7, FS_CardinalityType

(* The hand-overs follow from the locals of the inputs.                    *)
LEMMA HandOversFrame ==
    ASSUME conf' = conf, Inputs \subseteq Workers,
           \A j \in Workers : HandedOver(j)' = HandedOver(j)
    PROVE  HandOvers' = HandOvers
<1>1. Inputs' = Inputs
  BY DEF Inputs
<1>2. Most' = Most
  BY DEF Most, GoodTo
<1>3. HandOvers' = {h \in Inputs \X (1 .. Most) : h[2] <= HandedOver(h[1])'}
  BY <1>1, <1>2 DEF HandOvers
<1>4. \A h \in Inputs \X (1 .. Most) : HandedOver(h[1])' = HandedOver(h[1])
  OBVIOUS
<1> QED
  BY <1>3, <1>4 DEF HandOvers

(* A worker that takes a record makes the next hand-over of its input.     *)
LEMMA TakeHandsOver ==
    ASSUME WorkTypeOK, conf.iterationLimit > 0, NEW w \in Workers, TakePayload(w)
    PROVE  /\ Cardinality(HandOvers') = Cardinality(HandOvers) + 1
           /\ Cardinality(Holding') = Cardinality(Holding) + 1
<1> DEFINE i == InputOf(w)
           h == <<i, HandedOver(i) + 1>>
<1>0. /\ conf' = conf /\ i \in Workers /\ i \in Inputs /\ Inputs \subseteq Workers
      /\ input \in [Workers -> InputTypes] /\ input[i].pc = "send"
      /\ worker \in [Workers -> WorkerTypes] /\ worker[w].pc = "payload"
  BY TakePayloadType, PayloadFacts
     DEF TakePayload, AtWorker, Offers, WorkTypeOK, InputOK, InputTypes, WorkerOK, WorkerTypes,
         processVars
<1>1. input' = [input EXCEPT ![i].pc = "read"]
  BY DEF TakePayload, Taken
<1>2. \A j \in Workers : HandedOver(j)' = HandedOver(j) + IF j = i THEN 1 ELSE 0
  <2> SUFFICES ASSUME NEW j \in Workers
               PROVE  HandedOver(j)' = HandedOver(j) + IF j = i THEN 1 ELSE 0
    OBVIOUS
  <2>1. HandedOver(j) \in Int
    BY HandedOverBound
  <2>2. HandedOver(j)' = input[j].iterations * GoodTo(Len(conf.payload))
                         + GoodTo(input[j].pos) - IF input'[j].pc = "send" THEN 1 ELSE 0
    <3>1. input'[j].iterations = input[j].iterations /\ input'[j].pos = input[j].pos
      BY <1>0, <1>1 DEF InputTypes
    <3> QED
      BY <1>0, <3>1, HandedOverNext
  <2>3. HandedOver(j) = input[j].iterations * GoodTo(Len(conf.payload))
                        + GoodTo(input[j].pos) - IF input[j].pc = "send" THEN 1 ELSE 0
    BY DEF HandedOver, Unsent
  <2> DEFINE all == input[j].iterations * GoodTo(Len(conf.payload))
             good == GoodTo(input[j].pos)
  <2>4. all \in Nat /\ good \in Nat
    <3>1. /\ input[j].iterations \in Nat /\ Len(conf.payload) \in Nat /\ input[j].pos \in Nat
      BY PayloadFacts
    <3>2. GoodTo(Len(conf.payload)) \in Nat /\ GoodTo(input[j].pos) \in Nat
      BY <3>1, GoodToStep
    <3> QED
      BY <3>1, <3>2, ProductGrows
  <2>5. CASE j = i
    <3>1. input'[j].pc = "read" /\ input[j].pc = "send"
      BY <1>0, <1>1, <2>5 DEF InputTypes
    <3>2. HandedOver(j)' = all + (good - 0) /\ HandedOver(j) = all + (good - 1)
      BY <2>2, <2>3, <3>1
    <3> HIDE DEF all, good
    <3> QED
      BY <2>4, <2>5, <3>2
  <2>6. CASE j # i
    <3>1. input'[j] = input[j]
      BY <1>0, <1>1, <2>6
    <3>2. HandedOver(j)' = HandedOver(j)
      BY <2>2, <2>3, <3>1
    <3> QED
      BY <2>1, <2>6, <3>2
  <2> QED
    BY <2>5, <2>6
<1>3. /\ \A j \in Workers : HandedOver(j) \in 0 .. Most
      /\ Most \in Nat /\ HandedOver(i) + 1 <= Most
  BY <1>0, HandedOverBound
<1>4. Inputs' = Inputs /\ Most' = Most
  BY <1>0 DEF Inputs, Most, GoodTo
<1>5. HandOvers' = {g \in Inputs \X (1 .. Most) : g[2] <= HandedOver(g[1])'}
  BY <1>4 DEF HandOvers
<1>6. HandOvers' = HandOvers \cup {h} /\ h \notin HandOvers
  <2>1. \A g \in Inputs \X (1 .. Most) :
            g[2] <= HandedOver(g[1])' <=> g[2] <= HandedOver(g[1]) \/ g = h
    <3> SUFFICES ASSUME NEW j \in Inputs, NEW m \in 1 .. Most
                 PROVE  m <= HandedOver(j)' <=> m <= HandedOver(j) \/ <<j, m>> = h
      OBVIOUS
    <3>1. HandedOver(j) \in Int /\ HandedOver(j)' = HandedOver(j) + IF j = i THEN 1 ELSE 0
      BY <1>0, <1>2, <1>3
    <3>2. <<j, m>> = h <=> j = i /\ m = HandedOver(i) + 1
      OBVIOUS
    <3> HIDE DEF h
    <3> QED
      BY <3>1, <3>2
  <2>2. h \in Inputs \X (1 .. Most) /\ h[1] = i /\ h[2] = HandedOver(i) + 1
    BY <1>0, <1>3
  <2>3. ~(h[2] <= HandedOver(h[1]))
    BY <1>0, <1>3, <2>2
  <2> HIDE DEF h
  <2> QED
    BY <1>5, <2>1, <2>2, <2>3 DEF HandOvers
<1>7. Holding' = Holding \cup {w} /\ w \notin Holding
  BY <1>0 DEF Holding, TakePayload, WorkerTypes
<1> HIDE DEF h
<1>8. IsFiniteSet(HandOvers) /\ IsFiniteSet(Holding)
  BY HandOversFinite
<1> QED
  BY <1>6, <1>7, <1>8, FS_AddElement

(* A result that is pushed is no longer held, and is the next one taken.   *)
LEMMA PushReleases ==
    ASSUME WorkTypeOK, LogTypeOK, IsFiniteSet(Holding), NEW w \in Workers, Push(w)
    PROVE  /\ Cardinality(Holding') = Cardinality(Holding) - 1
           /\ Len(taken') = Len(taken) + 1
<1>1. /\ worker \in [Workers -> WorkerTypes] /\ worker[w].pc = "push"
      /\ worker' = [worker EXCEPT ![w].pc = "loop", ![w].item = << >>]
  BY DEF Push, AtWorker, WorkTypeOK, WorkerOK, WorkerTypes
<1>2. Holding' = Holding \ {w} /\ w \in Holding
  BY <1>1 DEF Holding, WorkerTypes
<1>3. Len(taken') = Len(taken) + 1
  BY DEF Push, Receive, LogTypeOK, BackgroundOK
<1> QED
  BY <1>2, <1>3, FS_RemoveElement

(* Only a hand-over gives a worker a record, and it counts.                *)
LEMMA HandOverStep ==
    ASSUME WorkTypeOK, LogTypeOK, HandOverInv, [Next]_vars
    PROVE  HandOverInv'
<1>0. conf' = conf
  BY WorkTypeStep, LogTypeStep
     DEF LogStep, Receive, BackgroundStep, PushLDJSON, IndexStrings, PushTrace, WriteUnit,
         WriteFails, WriteToFull, FlushReturns, RecordWritten, RunReturns, CloseStep, CloseLDJSON,
         CloseFlushes, CloseFlushReturns, CloseDescriptor, MainReturns
<1> SUFFICES ASSUME conf.iterationLimit > 0
             PROVE  Len(taken') + Cardinality(Holding') <= Cardinality(HandOvers')
  BY <1>0 DEF HandOverInv
<1>1. /\ IsFiniteSet(HandOvers) /\ Cardinality(HandOvers) \in Nat
      /\ IsFiniteSet(Holding) /\ Cardinality(Holding) \in Nat
      /\ Len(taken) \in Nat /\ Len(taken) + Cardinality(Holding) <= Cardinality(HandOvers)
      /\ Inputs \subseteq Workers
  BY HandOversFinite, LogFacts, PayloadFacts DEF HandOverInv
<1>2. (\A j \in Workers : HandedOver(j)' = HandedOver(j)) => HandOvers' = HandOvers
  BY <1>0, <1>1, HandOversFrame
<1>3. input' = input => HandOvers' = HandOvers
  BY <1>0, <1>2 DEF HandedOver, GoodTo, Unsent
<1>4. worker' = worker => Holding' = Holding
  BY DEF Holding
<1>5. CASE \E i \in Workers : InputAction(i)
  <2>1. PICK i \in Workers : InputAction(i)
    BY <1>5
  <2>2. HandOvers' = HandOvers
    BY <1>2, <2>1, InputHandsNothing DEF InputAction
  <2>3. taken' = taken /\ worker' = worker
    BY <2>1 DEF InputAction, logVars, workVars
  <2> QED
    BY <1>1, <1>4, <2>2, <2>3
<1>6. CASE \E w \in Workers : TakePayload(w)
  <2>1. PICK w \in Workers : TakePayload(w)
    BY <1>6
  <2>2. /\ Cardinality(HandOvers') = Cardinality(HandOvers) + 1
        /\ Cardinality(Holding') = Cardinality(Holding) + 1
    BY <2>1, TakeHandsOver
  <2>3. taken' = taken
    BY <2>1 DEF TakePayload, logVars
  <2> QED
    BY <1>1, <2>2, <2>3
<1>7. CASE \E w \in Workers : Push(w)
  <2>1. PICK w \in Workers : Push(w)
    BY <1>7
  <2>2. Cardinality(Holding') = Cardinality(Holding) - 1 /\ Len(taken') = Len(taken) + 1
    BY <1>1, <2>1, PushReleases
  <2>3. HandOvers' = HandOvers
    BY <1>3, <2>1 DEF Push, inputVars
  <2> QED
    BY <1>1, <2>2, <2>3
<1>8. CASE \E w \in Workers : ReceiveSlot(w) \/ NoPayload(w) \/ Unresolvable(w) \/ DoBusy(w)
                              \/ NoSuchGroup(w)
  <2>1. PICK w \in Workers : ReceiveSlot(w) \/ NoPayload(w) \/ Unresolvable(w) \/ DoBusy(w)
                             \/ NoSuchGroup(w)
    BY <1>8
  <2>2. taken' = taken /\ input' = input
    BY <2>1 DEF ReceiveSlot, NoPayload, Unresolvable, DoBusy, NoSuchGroup, inputVars, logVars
  <2>3. worker \in [Workers -> WorkerTypes]
    BY DEF WorkTypeOK, WorkerOK, WorkerTypes
  <2>4. Holding' = Holding
    <3>1. CASE ReceiveSlot(w) \/ NoPayload(w)
      BY <2>3, <3>1 DEF Holding, ReceiveSlot, NoPayload, AtWorker, Goto, WorkerTypes
    <3>2. CASE DoBusy(w)
      <4>1. worker[w].pc = "hit" /\ \E r : r.pc = "push" /\ worker' = [worker EXCEPT ![w] = r]
        BY <3>2 DEF DoBusy, AtWorker
      <4> QED
        BY <2>3, <4>1 DEF Holding
    <3>3. CASE Unresolvable(w) \/ NoSuchGroup(w)
      BY <1>4, <3>3 DEF Unresolvable, NoSuchGroup, workVars
    <3> QED
      BY <2>1, <3>1, <3>2, <3>3
  <2> QED
    BY <1>1, <1>3, <2>2, <2>4
<1>9. CASE UNCHANGED <<taken, input, worker>>
  BY <1>1, <1>3, <1>4, <1>9
<1>10. CASE OutputAction \/ RunEnds \/ CloseAction \/ ReaderAction \/ Tick \/ CacheRace \/ Killed
            \/ UNCHANGED vars
  <2>1. UNCHANGED <<taken, input, worker>>
    BY <1>10 DEF OutputAction, RunEnds, CloseAction, ReaderAction, Tick, CacheRace, Killed, vars,
       Read, logVars, workVars, inputVars, BackgroundStep, PushLDJSON, IndexStrings, PushTrace,
       WriteUnit, WriteFails, WriteToFull, FlushReturns, RecordWritten, RunReturns, CloseStep,
       CloseLDJSON, CloseFlushes, CloseFlushReturns, CloseDescriptor, MainReturns
  <2> QED
    BY <1>9, <2>1
<1> QED
  BY <1>5, <1>6, <1>7, <1>8, <1>10 DEF Next, WorkerStep

(* Nothing is handed over at the start.                                    *)
LEMMA HandOverInit == Init => HandOverInv
<1> SUFFICES ASSUME Init, conf.iterationLimit > 0
             PROVE  Len(taken) + Cardinality(Holding) <= Cardinality(HandOvers)
  BY DEF HandOverInv
<1>1. WorkTypeOK /\ LogTypeOK
  BY WorkInitType
<1>2. Len(taken) = 0
  BY DEF Init, ResultLogInit
<1>3. Holding = {}
  BY DEF Init, Holding
<1>4. Cardinality(HandOvers) \in Nat
  BY <1>1, HandOversFinite
<1> QED
  BY <1>2, <1>3, <1>4, FS_EmptySet

(* With a limit on the passes the results and the hits under way are at    *)
(* most the good records of the payload times the passes times the inputs. *)
THEOREM PassesLimited == Spec => []LimitHonoured
<1>1. HandOverInv /\ WorkTypeOK /\ LogTypeOK => LimitHonoured
  <2> SUFFICES ASSUME HandOverInv, WorkTypeOK, LogTypeOK, conf.iterationLimit > 0
               PROVE  Len(taken) + Cardinality(Holding)
                        <= conf.iterationLimit
                           * Cardinality({k \in DOMAIN conf.payload : Good(conf.payload[k])})
                           * Cardinality(Inputs)
    BY DEF LimitHonoured, Holding
  <2>1. DOMAIN conf.payload = 1 .. Len(conf.payload)
    BY PayloadFacts
  <2>2. Cardinality({k \in DOMAIN conf.payload : Good(conf.payload[k])})
          = GoodTo(Len(conf.payload))
    BY <2>1 DEF GoodTo
  <2>3. /\ Cardinality(HandOvers) \in Nat /\ Cardinality(Holding) \in Nat
        /\ Cardinality(HandOvers) <= Cardinality(Inputs) * Most /\ Cardinality(Inputs) \in Nat
        /\ Len(taken) \in Nat
    BY HandOversFinite, LogFacts
  <2>4. 1 \in Workers /\ Most \in Nat
    BY ProcessAssumption, HandedOverBound
  <2>5. Cardinality(Inputs) * Most = Most * Cardinality(Inputs)
    BY <2>3, <2>4
  <2>6. Len(taken) + Cardinality(Holding) <= Most * Cardinality(Inputs)
    <3> DEFINE most == Most * Cardinality(Inputs)
    <3>1. Cardinality(HandOvers) <= most /\ most \in Nat
      BY <2>3, <2>4, <2>5
    <3> HIDE DEF most
    <3>2. Len(taken) + Cardinality(Holding) <= most
      BY <2>3, <3>1 DEF HandOverInv
    <3> QED
      BY <3>2 DEF most
  <2> QED
    BY <2>2, <2>6 DEF Most
<1>2. HandOverInv /\ WorkTypeOK /\ LogTypeOK /\ [Next]_vars => HandOverInv'
  BY HandOverStep
<1> QED
  BY <1>1, <1>2, HandOverInit, PipelineTypes, PTL DEF Spec
-----------------------------------------------------------------------------
(* What the files hold: the numbers of the strings                         *)

(* The results that the k-th writer is done with.                          *)
Done(k) == IF bg.pc = "idle" \/ k < bg.k THEN Len(taken) ELSE Len(taken) - 1
Recording(k) == bg.k = k /\ bg.pc \in {"write", "flushing"}
Flushing(k) == bg.k = k /\ bg.pc = "flushing"

(* The strings of result i have their numbers, which then never change.    *)
Numbers(i) == Known(index, taken[i].label) /\ Known(index, taken[i].error)

NumbersInv ==
    /\ Known(index, EmptyString) /\ Idx(index, EmptyString) = 0
    /\ \A k \in 1 .. Len(conf.outs) : conf.outs[k] = "binary" =>
           \A i \in 1 .. Len(taken) : i <= Done(k) \/ Recording(k) => Numbers(i)


(* The results that background has received.                               *)
LEMMA TakenFacts ==
    ASSUME LogTypeOK
    PROVE  /\ taken \in Seq(Results) /\ Len(taken) \in Nat
           /\ \A i \in 1 .. Len(taken) : taken[i] \in Results
           /\ bg.pc # "idle" => Len(taken) \in 1 .. Len(taken)
<1>1. taken \in Seq(Results) /\ (bg.pc # "idle" => taken # << >>)
  BY DEF LogTypeOK, BackgroundOK
<1> QED
  BY <1>1, EmptySeq, LenProperties, ElementOfSeq

(* Results are only added to those that were taken.                        *)
LEMMA TakenStep ==
    ASSUME LogTypeOK, LogStep
    PROVE  /\ conf' = conf
           /\ \/ taken' = taken
              \/ /\ bg.pc = "idle" /\ \E r \in Results : Receive(r)
                 /\ Len(taken') = Len(taken) + 1
           /\ \A i \in 1 .. Len(taken) : taken'[i] = taken[i]
<1>1. taken \in Seq(Results)
  BY TakenFacts
<1>2. CASE \E r \in Results : Receive(r)
  <2>1. PICK r \in Results : Receive(r)
    BY <1>2
  <2>2. taken' = Append(taken, r) /\ bg.pc = "idle" /\ conf' = conf
    BY <2>1 DEF Receive, At
  <2> QED
    BY <1>1, <1>2, <2>2, AppendProperties
<1>3. CASE ~\E r \in Results : Receive(r)
  <2>1. taken' = taken /\ conf' = conf
    BY <1>3 DEF LogStep, BackgroundStep, PushLDJSON, IndexStrings, PushTrace, WriteUnit, WriteFails,
       WriteToFull, FlushReturns, RecordWritten, RunReturns, CloseStep, CloseLDJSON, CloseFlushes,
       CloseFlushReturns, CloseDescriptor, MainReturns, logVars
  <2> QED
    BY <2>1
<1> QED
  BY <1>2, <1>3

(* On to the next writer: the one that background was at is done.          *)
LEMMA ProceedFacts ==
    ASSUME LogTypeOK, bg.pc # "idle", Proceed, UNCHANGED <<conf, taken>>
    PROVE  /\ \/ bg' = IdleBackground /\ bg.k = Len(conf.outs)
              \/ /\ bg'.pc = "push" /\ bg'.k = bg.k + 1 /\ bg'.part = 1 /\ bg'.n = 0
                 /\ bg.k < Len(conf.outs)
           /\ \A k \in 1 .. Len(conf.outs) :
                  /\ Done(k)' = IF k = bg.k THEN Len(taken) ELSE Done(k)
                  /\ ~Recording(k)' /\ ~Flushing(k)'
<1>1. bg.k \in 1 .. Len(conf.outs) /\ Len(conf.outs) \in Nat /\ Len(taken) \in Nat
  BY LogFacts
<1>2. CASE bg.k < Len(conf.outs)
  <2>1. /\ bg'.pc = "push" /\ bg'.k = bg.k + 1 /\ bg'.part = 1 /\ bg'.n = 0
    BY <1>2 DEF Proceed, IdleBackground
  <2> QED
    BY <1>1, <1>2, <2>1 DEF Done, Recording, Flushing
<1>3. CASE ~(bg.k < Len(conf.outs))
  <2>1. bg' = IdleBackground /\ bg.k = Len(conf.outs)
    BY <1>1, <1>3 DEF Proceed
  <2> QED
    BY <1>1, <2>1 DEF Done, Recording, Flushing, IdleBackground
<1> QED
  BY <1>2, <1>3

(* Where a writer stands after a step: only background moves it on.        *)
LEMMA DoneStep ==
    ASSUME LogTypeOK, LogStep, NEW k \in 1 .. Len(conf.outs)
    PROVE  /\ k # bg.k \/ bg.pc \in {"idle", "push"} => ~Recording(k) /\ ~Flushing(k)
           /\ k # bg.k \/ bg.pc = "idle" =>
                  Done(k)' = Done(k) /\ ~Recording(k)' /\ ~Flushing(k)'
           /\ k = bg.k /\ bg.pc # "idle" =>
                  /\ Done(k) = Len(taken) - 1 /\ Done(k)' \in {Len(taken) - 1, Len(taken)}
                  /\ bg.pc = "push" /\ Recording(k)' => IndexStrings \/ PushTrace
                  /\ bg.pc = "push" /\ Done(k)' = Len(taken) => PushLDJSON \/ PushTrace
<1>1. bg.k \in 1 .. Len(conf.outs) /\ Len(conf.outs) \in Nat /\ Len(taken) \in Nat
  BY LogFacts
<1>2. bg \in [pc : {"idle", "push", "write", "flushing"}, k : 1 .. Len(conf.outs),
              part : 1 .. RecordLen + 1, n : Nat, rec : Results \cup Numbered(strFile)]
  BY DEF LogTypeOK, BackgroundOK
<1>3. CASE \E r \in Results : Receive(r)
  <2>1. /\ bg.pc = "idle" /\ bg'.pc = "push" /\ bg'.k = 1 /\ conf' = conf
        /\ Len(taken') = Len(taken) + 1
    BY <1>3, TakenFacts, AppendProperties DEF Receive, At, IdleBackground
  <2> QED
    BY <1>1, <2>1 DEF Done, Recording, Flushing
<1>4. CASE bg'.k = bg.k /\ bg'.pc = bg.pc /\ taken' = taken
  BY <1>1, <1>2, <1>4 DEF Done, Recording, Flushing
<1>5. CASE bg.pc # "idle" /\ Proceed /\ UNCHANGED <<conf, taken>>
           /\ (bg.pc = "push" => PushLDJSON \/ PushTrace)
  <2>1. \A j \in 1 .. Len(conf.outs) :
            /\ Done(j)' = IF j = bg.k THEN Len(taken) ELSE Done(j)
            /\ ~Recording(j)' /\ ~Flushing(j)'
    BY <1>5, ProceedFacts
  <2> QED
    BY <1>1, <1>2, <1>5, <2>1 DEF Done, Recording, Flushing
<1>6. CASE /\ bg.pc # "idle" /\ taken' = taken /\ bg'.k = bg.k
           /\ bg'.pc \in {"write", "flushing"}
           /\ (bg.pc = "push" => IndexStrings \/ PushTrace)
  BY <1>1, <1>2, <1>6 DEF Done, Recording, Flushing
<1>7. CASE RunReturns \/ CloseStep \/ UNCHANGED <<conf, logVars>>
  <2>1. bg' = bg /\ taken' = taken
    BY <1>7 DEF RunReturns, CloseStep, CloseLDJSON, CloseFlushes, CloseFlushReturns,
       CloseDescriptor, MainReturns, logVars
  <2> QED
    BY <1>4, <2>1
<1>8. CASE PushLDJSON \/ PushTrace \/ IndexStrings
  BY <1>2, <1>4, <1>5, <1>6, <1>8 DEF PushLDJSON, PushTrace, IndexStrings, At
<1>9. CASE WriteUnit \/ WriteFails \/ WriteToFull \/ FlushReturns \/ RecordWritten
  BY <1>2, <1>4, <1>5, <1>6, <1>9
     DEF WriteUnit, WriteFails, WriteToFull, FlushReturns, RecordWritten, WriteMore, StartFlush, At
<1> QED
  BY <1>3, <1>7, <1>8, <1>9 DEF LogStep, BackgroundStep

(* BinaryOut.Push up to WriteBinary, without the special case of the empty *)
(* string: it has the number 0 from the start.                             *)
LEMMA IndexStringsFacts ==
    ASSUME LogTypeOK, NumbersInv, IndexStrings
    PROVE  LET r == taken[Len(taken)]
               withError == WithString(index, r.error)
           IN  /\ r \in Results /\ index \in Seq(Strings) /\ withError \in Seq(Strings)
               /\ index' = WithString(withError, r.label)
               /\ bg'.rec = [label |-> Idx(withError, r.label), error |-> Idx(index, r.error),
                             ts |-> r.ts, status |-> r.status]
               /\ bg.pc = "push" /\ Writer = "binary" /\ bg.rec = r
               /\ bg'.pc = "write" /\ bg'.k = bg.k /\ bg'.part = bg.part /\ bg'.n = bg.n
               /\ UNCHANGED <<conf, outcome, out, lastTS, closer, taken, promised>>
<1> DEFINE r == taken[Len(taken)]
           e == bg.rec.error
           l == bg.rec.label
           longer == IF e = EmptyString THEN index ELSE WithString(index, e)
           eNum == IF e = EmptyString THEN 0 ELSE Idx(index, e)
           lNum == IF l = EmptyString THEN 0 ELSE Idx(longer, l)
           withError == WithString(index, r.error)
<1>1. /\ bg.pc = "push" /\ Writer = "binary"
      /\ index' = (IF l = EmptyString THEN longer ELSE WithString(longer, l))
      /\ bg' = [bg EXCEPT !.pc = "write", !.rec.error = eNum, !.rec.label = lNum]
      /\ UNCHANGED <<conf, outcome, out, lastTS, closer, taken, promised>>
  BY DEF IndexStrings, At
<1>2. bg.rec = r /\ r \in Results
  BY <1>1, TakenFacts DEF LogTypeOK, BackgroundOK
<1>3. e \in Strings /\ l \in Strings /\ e = r.error /\ l = r.label
  BY <1>2 DEF Results
<1>4. index \in Seq(Strings) /\ EmptyString \in Strings
  BY EmptySeq DEF LogTypeOK, IndexOK, EmptyString, Strings
<1>5. withError \in Seq(Strings)
  BY <1>3, <1>4, IdxBound
<1>6. longer = withError /\ eNum = Idx(index, r.error)
  BY <1>3 DEF NumbersInv, WithString
<1>7. Known(longer, EmptyString) /\ Idx(longer, EmptyString) = 0
  BY <1>3, <1>4, <1>6, IdxStable DEF NumbersInv
<1>8. index' = WithString(withError, r.label) /\ lNum = Idx(withError, r.label)
  BY <1>1, <1>3, <1>6, <1>7 DEF WithString
<1> HIDE DEF eNum, lNum, longer
<1>9. /\ bg'.pc = "write" /\ bg'.k = bg.k /\ bg'.part = bg.part /\ bg'.n = bg.n
      /\ bg'.rec = [label |-> lNum, error |-> eNum, ts |-> bg.rec.ts, status |-> bg.rec.status]
  BY <1>1, <1>2 DEF LogTypeOK, BackgroundOK, Results
<1> QED
  BY <1>1, <1>2, <1>4, <1>5, <1>6, <1>8, <1>9

(* A record of the binary file is a result with numbers for strings.       *)
LEMMA NumbersInRecord ==
    ASSUME NEW r \in Results, NEW x, NEW y, NEW q, q = [r EXCEPT !.label = x, !.error = y]
    PROVE  q = [label |-> x, error |-> y, ts |-> r.ts, status |-> r.status]
<1>1. /\ q.label = x /\ q.error = y /\ q.ts = r.ts /\ q.status = r.status
      /\ q = [label |-> q.label, error |-> q.error, ts |-> q.ts, status |-> q.status]
  BY DEF Results
<1> QED
  BY <1>1, Zenon

(* The numbers of the strings that are known stay, and those of the result *)
(* that is indexed are in its record.                                      *)
LEMMA NumbersStep ==
    ASSUME LogTypeOK, NumbersInv, LogStep
    PROVE  /\ NumbersInv'
           /\ \A k \in 1 .. Len(conf.outs), i \in 1 .. Len(taken) :
                  i <= Done(k) \/ Recording(k) =>
                      Encoded(conf.outs[k], taken[i])' = Encoded(conf.outs[k], taken[i])
           /\ IndexStrings => bg'.rec = Encoded("binary", taken[Len(taken)])'
<1>0. /\ conf' = conf /\ \A i \in 1 .. Len(taken) : taken'[i] = taken[i] /\ taken[i] \in Results
      /\ Len(taken) \in Nat
  BY TakenStep, TakenFacts
<1>1. CASE ~IndexStrings
  <2>1. index' = index
    BY <1>1 DEF LogStep, Receive, BackgroundStep, PushLDJSON, PushTrace, WriteUnit, WriteFails,
       WriteToFull, FlushReturns, RecordWritten, RunReturns, CloseStep, CloseLDJSON, CloseFlushes,
       CloseFlushReturns, CloseDescriptor, MainReturns, logVars
  <2>2. ASSUME NEW k \in 1 .. Len(conf.outs), conf.outs[k] = "binary", NEW i \in 1 .. Len(taken'),
               i <= Done(k)' \/ Recording(k)'
        PROVE  i \in 1 .. Len(taken) /\ (i <= Done(k) \/ Recording(k))
    <3>1. CASE k # bg.k \/ bg.pc = "idle"
      <4>1. i <= Done(k)
        BY <2>2, <3>1, DoneStep
      <4>2. Done(k) <= Len(taken)
        BY <1>0 DEF Done
      <4>3. Done(k) \in Int /\ Len(taken') \in Nat
        <5>1. Len(taken') = Len(taken) \/ Len(taken') = Len(taken) + 1
          BY TakenStep
        <5> QED
          BY <1>0, <5>1 DEF Done
      <4> QED
        BY <1>0, <4>1, <4>2, <4>3
    <3>2. CASE k = bg.k /\ bg.pc # "idle"
      <4>1. taken' = taken
        BY <3>2, TakenStep
      <4>2. Writer = "binary"
        BY <2>2, <3>2 DEF Writer
      <4>3. bg.pc = "push" => ~Recording(k)' /\ Done(k)' = Done(k)
        BY <1>1, <3>2, <4>2, DoneStep DEF PushLDJSON, PushTrace
      <4>4. bg.pc # "push" => Recording(k)
        BY <3>2 DEF Recording, LogTypeOK, BackgroundOK
      <4> QED
        BY <2>2, <4>1, <4>3, <4>4
    <3> QED
      BY <3>1, <3>2
  <2>3. NumbersInv'
    <3>1. ASSUME NEW k \in 1 .. Len(conf.outs), conf.outs[k] = "binary",
                 NEW i \in 1 .. Len(taken'), i <= Done(k)' \/ Recording(k)'
          PROVE  Numbers(i)'
      <4>1. i \in 1 .. Len(taken) /\ Numbers(i)
        BY <2>2, <3>1 DEF NumbersInv
      <4> QED
        BY <1>0, <2>1, <4>1 DEF Numbers
    <3> QED
      BY <1>0, <2>1, <3>1 DEF NumbersInv
  <2> QED
    BY <1>0, <1>1, <2>1, <2>3 DEF Encoded
<1>2. CASE IndexStrings
  <2> DEFINE r == taken[Len(taken)]
             withError == WithString(index, r.error)
  <2>1. /\ r \in Results /\ index \in Seq(Strings) /\ withError \in Seq(Strings)
        /\ index' = WithString(withError, r.label)
        /\ bg'.rec = [label |-> Idx(withError, r.label), error |-> Idx(index, r.error),
                      ts |-> r.ts, status |-> r.status]
        /\ bg.pc = "push" /\ Writer = "binary"
        /\ bg'.pc = "write" /\ bg'.k = bg.k
        /\ taken' = taken
    BY <1>2, IndexStringsFacts
  <2>2. r.error \in Strings /\ r.label \in Strings
    BY <2>1 DEF Results
  <2> HIDE DEF r, withError
  <2>3. ASSUME NEW s \in Strings, Known(index, s) \/ s = r.error
        PROVE  Known(index', s) /\ Idx(index', s) = Idx(index, s)
    <3>1. Known(withError, s) /\ Idx(withError, s) = Idx(index, s)
      BY <2>1, <2>2, <2>3, IdxStable DEF withError
    <3> QED
      BY <2>1, <2>2, <3>1, IdxStable
  <2>4. Known(index', r.label) /\ Idx(index', r.label) = Idx(withError, r.label)
    BY <2>1, <2>2, IdxStable
  <2>5. EmptyString \in Strings
    BY EmptySeq DEF EmptyString, Strings
  <2>6. ASSUME NEW i \in 1 .. Len(taken), Numbers(i)
        PROVE  /\ Numbers(i)'
               /\ \A o \in Writers : Encoded(o, taken[i])' = Encoded(o, taken[i])
    <3>1. taken[i].label \in Strings /\ taken[i].error \in Strings /\ taken'[i] = taken[i]
      BY <1>0 DEF Results
    <3> QED
      BY <2>3, <2>6, <3>1 DEF Numbers, Encoded
  <2>7. NumbersInv'
    <3>1. ASSUME NEW k \in 1 .. Len(conf.outs), conf.outs[k] = "binary",
                 NEW i \in 1 .. Len(taken), i <= Done(k)' \/ Recording(k)'
          PROVE  Numbers(i)'
      <4>1. CASE i = Len(taken)
        BY <2>1, <2>2, <2>3, <2>4, <4>1 DEF Numbers, r
      <4>2. CASE i # Len(taken)
        <5>1. Done(k) >= Len(taken) - 1 /\ Done(k) \in Int
          BY <1>0 DEF Done
        <5>2. i <= Done(k)
          BY <1>0, <4>2, <5>1
        <5> QED
          BY <2>6, <3>1, <5>2 DEF NumbersInv
      <4> QED
        BY <4>1, <4>2
    <3>2. Known(index', EmptyString) /\ Idx(index', EmptyString) = 0
      BY <2>3, <2>5 DEF NumbersInv
    <3> QED
      BY <1>0, <2>1, <3>1, <3>2 DEF NumbersInv
  <2>8. ASSUME NEW k \in 1 .. Len(conf.outs), NEW i \in 1 .. Len(taken),
               i <= Done(k) \/ Recording(k)
        PROVE  Encoded(conf.outs[k], taken[i])' = Encoded(conf.outs[k], taken[i])
    <3>1. CASE conf.outs[k] = "binary"
      <4>1. Numbers(i)
        BY <2>8, <3>1 DEF NumbersInv
      <4> QED
        BY <1>0, <2>6, <3>1, <4>1 DEF Writers
    <3>2. CASE conf.outs[k] # "binary"
      BY <1>0, <3>2 DEF Encoded
    <3> QED
      BY <3>1, <3>2
  <2>9. bg'.rec = Encoded("binary", taken[Len(taken)])'
    <3>1. taken'[Len(taken')] = r
      BY <2>1 DEF r
    <3>2. Idx(index', r.error) = Idx(index, r.error)
      BY <2>2, <2>3
    <3>3. Encoded("binary", taken[Len(taken)])'
            = [r EXCEPT !.label = Idx(index', r.label), !.error = Idx(index', r.error)]
      BY <3>1 DEF Encoded
    <3> DEFINE q == Encoded("binary", taken[Len(taken)])'
    <3>4. q = [label |-> Idx(index', r.label), error |-> Idx(index', r.error),
               ts |-> r.ts, status |-> r.status]
      <4>1. q = [r EXCEPT !.label = Idx(index', r.label), !.error = Idx(index', r.error)]
        BY <3>3
      <4> HIDE DEF q
      <4> QED
        BY <2>1, <4>1, NumbersInRecord
    <3> QED
      BY <2>1, <2>4, <3>2, <3>4
  <2> QED
    BY <2>7, <2>8, <2>9
<1> QED
  BY <1>1, <1>2
-----------------------------------------------------------------------------
(* What the files hold: every record in its place                          *)

(* Data only grow.                                                         *)
Keeps(d, e) == Len(d) <= Len(e) /\ \A p \in 1 .. Len(d) : e[p] = d[p]

(* What is appended leaves what is there in its place.                     *)
LEMMA JoinFacts ==
    ASSUME NEW S, NEW a \in Seq(S), NEW b \in Seq(S), NEW c \in Seq(S)
    PROVE  /\ Keeps(a, a) /\ Keeps(a, a \o b) /\ a \o << >> = a
           /\ Len(a) \in Nat /\ Len(a \o b) = Len(a) + Len(b) /\ a \o b \in Seq(S)
           /\ Keeps(a \o b, a \o (b \o c)) /\ Len(a \o (b \o c)) = Len(a) + Len(b) + Len(c)
           /\ \A p \in 1 .. Len(c) : (a \o (b \o c))[Len(a) + Len(b) + p] = c[p]
<1>0. Len(a) \in Nat /\ Len(b) \in Nat /\ Len(c) \in Nat
  BY LenProperties
<1>1. /\ a \o b \in Seq(S) /\ Len(a \o b) = Len(a) + Len(b)
      /\ \A i \in 1 .. Len(a) + Len(b) :
             (a \o b)[i] = IF i <= Len(a) THEN a[i] ELSE b[i - Len(a)]
  BY ConcatProperties
<1>2. /\ b \o c \in Seq(S) /\ Len(b \o c) = Len(b) + Len(c)
      /\ \A i \in 1 .. Len(b) + Len(c) :
             (b \o c)[i] = IF i <= Len(b) THEN b[i] ELSE c[i - Len(b)]
  BY ConcatProperties
<1> DEFINE d == a \o b
           e == b \o c
           f == a \o e
<1>3. /\ Len(f) = Len(a) + Len(e)
      /\ \A i \in 1 .. Len(a) + Len(e) : f[i] = IF i <= Len(a) THEN a[i] ELSE e[i - Len(a)]
  <2>1. e \in Seq(S)
    BY <1>2
  <2> HIDE DEF e
  <2> QED
    BY <2>1, ConcatProperties
<1> HIDE DEF d, e, f
<1>4. a \o << >> = a
  BY ConcatEmptySeq
<1>5. Keeps(a, a) /\ Keeps(a, d)
  BY <1>0, <1>1 DEF Keeps, d
<1>6. Len(f) = Len(a) + Len(b) + Len(c)
  BY <1>0, <1>2, <1>3 DEF e
<1>7. Keeps(d, f)
  <2>1. \A p \in 1 .. Len(a) + Len(b) : f[p] = d[p]
    <3> SUFFICES ASSUME NEW p \in 1 .. Len(a) + Len(b) PROVE f[p] = d[p]
      OBVIOUS
    <3>1. p <= Len(a) => f[p] = a[p] /\ d[p] = a[p]
      BY <1>0, <1>1, <1>2, <1>3 DEF d, e
    <3>2. p > Len(a) => f[p] = e[p - Len(a)] /\ d[p] = b[p - Len(a)] /\ p - Len(a) \in 1 .. Len(b)
      BY <1>0, <1>1, <1>2, <1>3 DEF d, e
    <3>3. p > Len(a) => e[p - Len(a)] = b[p - Len(a)]
      BY <1>0, <1>2, <3>2 DEF e
    <3> QED
      BY <1>0, <3>1, <3>2, <3>3
  <2>2. Len(d) = Len(a) + Len(b) /\ Len(d) <= Len(f)
    BY <1>0, <1>1, <1>6 DEF d
  <2> QED
    BY <2>1, <2>2 DEF Keeps
<1>8. \A p \in 1 .. Len(c) : f[Len(a) + Len(b) + p] = c[p]
  <2> SUFFICES ASSUME NEW p \in 1 .. Len(c) PROVE f[Len(a) + Len(b) + p] = c[p]
    OBVIOUS
  <2>1. f[Len(a) + (Len(b) + p)] = e[Len(b) + p]
    <3>1. Len(a) + (Len(b) + p) \in 1 .. Len(a) + Len(e) /\ ~(Len(a) + (Len(b) + p) <= Len(a))
          /\ (Len(a) + (Len(b) + p)) - Len(a) = Len(b) + p
      BY <1>0, <1>2 DEF e
    <3> QED
      BY <1>3, <3>1
  <2>2. e[Len(b) + p] = c[p]
    <3>1. Len(b) + p \in 1 .. Len(b) + Len(c) /\ ~(Len(b) + p <= Len(b))
          /\ (Len(b) + p) - Len(b) = p
      BY <1>0
    <3> QED
      BY <1>2, <3>1 DEF e
  <2>3. Len(a) + (Len(b) + p) = Len(a) + Len(b) + p
    BY <1>0
  <2> QED
    BY <2>1, <2>2, <2>3
<1> QED
  BY <1>0, <1>1, <1>4, <1>5, <1>6, <1>7, <1>8 DEF d, e, f

(* Where a record begins: behind those before it that the writer records.  *)
LEMMA OffsetFacts ==
    ASSUME NEW o, NEW i \in Nat \ {0}
    PROVE  /\ Offset(o, 1) = 0 /\ Offset(o, i) \in Nat
           /\ Offset(o, i + 1) = Offset(o, i) + IF Recorded(o, taken[i]) THEN RecordLen ELSE 0
<1> DEFINE S == {j \in 1 .. i - 1 : Recorded(o, taken[j])}
           T == {j \in 1 .. (i + 1) - 1 : Recorded(o, taken[j])}
<1>0. RecordLen \in Nat
  BY ResultLogAssumption
<1>1. IsFiniteSet(1 .. i - 1) /\ S \subseteq 1 .. i - 1
  BY FS_Interval
<1>2. IsFiniteSet(S) /\ Cardinality(S) \in Nat
  BY <1>1, FS_Subset, FS_CardinalityType
<1>3. Offset(o, i) = Cardinality(S) * RecordLen /\ Offset(o, i + 1) = Cardinality(T) * RecordLen
  BY DEF Offset
<1>4. Offset(o, 1) = 0
  <2>1. {j \in 1 .. 1 - 1 : Recorded(o, taken[j])} = {}
    OBVIOUS
  <2> QED
    BY <1>0, <2>1, FS_EmptySet DEF Offset
<1>5. CASE Recorded(o, taken[i])
  <2>1. T = S \cup {i} /\ i \notin S
    BY <1>5
  <2> HIDE DEF S, T
  <2>2. Cardinality(T) = Cardinality(S) + 1
    BY <1>2, <2>1, FS_AddElement
  <2>3. /\ Cardinality(S) * RecordLen \in Nat
        /\ (Cardinality(S) + 1) * RecordLen = Cardinality(S) * RecordLen + RecordLen
    BY <1>0, <1>2, ProductGrows
  <2> QED
    BY <1>3, <1>4, <1>5, <2>2, <2>3
<1>6. CASE ~Recorded(o, taken[i])
  <2>1. T = S
    BY <1>6
  <2> HIDE DEF S, T
  <2>2. Cardinality(S) * RecordLen \in Nat
    BY <1>0, <1>2, ProductGrows
  <2> QED
    BY <1>3, <1>4, <1>6, <2>1, <2>2
<1> QED
  BY <1>5, <1>6

(* The place of a result never changes.                                    *)
LEMMA OffsetKept ==
    ASSUME LogTypeOK, LogStep, NEW o, NEW i \in 1 .. Len(taken) + 1
    PROVE  Offset(o, i)' = Offset(o, i)
<1>1. \A j \in 1 .. i - 1 : taken'[j] = taken[j]
  BY TakenStep, TakenFacts
<1>2. {j \in 1 .. i - 1 : Recorded(o, taken'[j])} = {j \in 1 .. i - 1 : Recorded(o, taken[j])}
  BY <1>1
<1> QED
  BY <1>2 DEF Offset, Recorded, Traced

(* Everything the k-th writer was given: a flush in flight has written the *)
(* buffer already, and drops it at its end.                                *)
Data(k) ==
    LET b == out[conf.outs[k]]
    IN  IF Flushing(k) /\ bg.n # 0 THEN b.file ELSE b.file \o b.buf

(* The first n results, and the first m units of the record of the last.   *)
Holds(o, n, data) == \A i \in 1 .. n : Recorded(o, taken[i]) => InData(o, i, data)
Partial(o, rec, m, data) ==
    /\ Len(data) = Offset(o, Len(taken)) + m
    /\ \A part \in 1 .. m : data[Offset(o, Len(taken)) + part] = Units(rec)[part]

(* While the output is open: a writer has all the records that it was      *)
(* given, in place and nothing else, up to the unit that it is at.         *)
OpenWriter(k) ==
    LET o == conf.outs[k]
    IN  /\ out[o].open /\ ~out[o].err
        /\ Flushing(k) => bg.n = Len(out[o].buf)
        /\ Holds(o, Done(k), Data(k))
        /\ Recording(k) => /\ Recorded(o, taken[Len(taken)])
                           /\ bg.rec = Encoded(o, taken[Len(taken)])
                           /\ Partial(o, bg.rec, bg.part - 1, Data(k))
        /\ ~Recording(k) => Len(Data(k)) = Offset(o, Done(k) + 1)

(* A result that is in some data is in all that goes on from it.           *)
LEMMA InDataMore ==
    ASSUME NEW o, NEW i \in Nat \ {0}, NEW d, NEW e, Len(d) \in Nat, Len(e) \in Nat,
           Keeps(d, e), InData(o, i, d)
    PROVE  InData(o, i, e)
<1> DEFINE units == Units(Encoded(o, taken[i]))
<1>1. Offset(o, i) \in Nat /\ RecordLen \in Nat
  BY OffsetFacts, ResultLogAssumption
<1>2. /\ Offset(o, i) + RecordLen <= Len(d)
      /\ \A part \in 1 .. RecordLen : d[Offset(o, i) + part] = units[part]
  BY DEF InData
<1> HIDE DEF units
<1>3. \A part \in 1 .. RecordLen : Offset(o, i) + part \in 1 .. Len(d)
  BY <1>1, <1>2
<1>4. Len(d) <= Len(e) /\ \A p \in 1 .. Len(d) : e[p] = d[p]
  BY DEF Keeps
<1>5. Offset(o, i) + RecordLen <= Len(e)
  BY <1>1, <1>2, <1>4
<1>6. \A part \in 1 .. RecordLen : e[Offset(o, i) + part] = units[part]
  BY <1>2, <1>3, <1>4
<1> QED
  BY <1>5, <1>6 DEF InData, units

(* So are all the results that are in some data.                           *)
LEMMA HoldsMore ==
    ASSUME NEW o, NEW n \in Nat, NEW d, NEW e, Len(d) \in Nat, Len(e) \in Nat,
           Keeps(d, e), Holds(o, n, d)
    PROVE  Holds(o, n, e)
<1>1. \A i \in 1 .. n : i \in Nat \ {0}
  OBVIOUS
<1> QED
  BY <1>1, InDataMore DEF Holds

(* The records of a writer stay where they are, in data that only grow.    *)
LEMMA HoldsKept ==
    ASSUME LogTypeOK, NumbersInv, LogStep, NEW k \in 1 .. Len(conf.outs), NEW n \in 0 .. Len(taken),
           n <= Done(k) \/ Recording(k) \/ conf.outs[k] # "binary",
           NEW d, NEW e, Len(d) \in Nat, Len(e) \in Nat, Keeps(d, e), Holds(conf.outs[k], n, d)
    PROVE  Holds(conf.outs[k], n, e)'
<1> DEFINE o == conf.outs[k]
<1>1. /\ Len(taken) \in Nat /\ conf' = conf /\ RecordLen \in Nat
      /\ \A i \in 1 .. Len(taken) : taken'[i] = taken[i]
  BY TakenFacts, TakenStep, ResultLogAssumption
<1> SUFFICES ASSUME NEW i \in 1 .. n, Recorded(o, taken[i])'
             PROVE  InData(o, i, e)'
  BY <1>1 DEF Holds
<1>2. i \in 1 .. Len(taken) /\ i \in 1 .. Len(taken) + 1 /\ i \in Nat \ {0} /\ taken'[i] = taken[i]
  BY <1>1
<1>3. InData(o, i, d)
  BY <1>1, <1>2 DEF Holds, Recorded, Traced
<1>4. Offset(o, i)' = Offset(o, i)
  BY <1>1, <1>2, OffsetKept
<1>5. Encoded(o, taken[i])' = Encoded(o, taken[i])
  <2>1. CASE n <= Done(k) \/ Recording(k)
    <3>1. i <= Done(k) \/ Recording(k)
      BY <1>1, <2>1 DEF Done
    <3> QED
      BY <1>1, <1>2, <3>1, NumbersStep
  <2>2. CASE o # "binary"
    BY <1>1, <1>2, <2>2 DEF Encoded
  <2> QED
    BY <2>1, <2>2
<1>7. /\ Offset(o, i) + RecordLen <= Len(e)
      /\ \A part \in 1 .. RecordLen :
             e[Offset(o, i) + part] = Units(Encoded(o, taken[i]))[part]
  <2>1. InData(o, i, e)
    BY <1>2, <1>3, InDataMore
  <2> QED
    BY <2>1 DEF InData
<1>8. InData(o, i, e)' <=>
        /\ Offset(o, i)' + RecordLen <= Len(e)
        /\ \A part \in 1 .. RecordLen :
               e[Offset(o, i)' + part] = Units(Encoded(o, taken[i])')[part]
  BY <1>1 DEF InData, Units
<1> QED
  BY <1>1, <1>4, <1>5, <1>7, <1>8

(* A record of which all the units are there.                              *)
LEMMA RecordDone ==
    ASSUME LogTypeOK, bg.pc # "idle", NEW o, NEW d, Holds(o, Len(taken) - 1, d),
           Recorded(o, taken[Len(taken)]),
           Partial(o, Encoded(o, taken[Len(taken)]), RecordLen, d)
    PROVE  Holds(o, Len(taken), d) /\ Len(d) = Offset(o, Len(taken) + 1)
<1> DEFINE n == Len(taken)
<1>1. n \in 1 .. n /\ n \in Nat \ {0}
  BY TakenFacts
<1> HIDE DEF n
<1>2. Offset(o, n) \in Nat /\ RecordLen \in Nat
      /\ (Recorded(o, taken[n]) => Offset(o, n + 1) = Offset(o, n) + RecordLen)
  BY <1>1, OffsetFacts, ResultLogAssumption
<1>3. InData(o, n, d) /\ Len(d) = Offset(o, n) + RecordLen
  BY <1>1, <1>2 DEF Partial, InData, n
<1>4. \A i \in 1 .. n : i = n \/ i \in 1 .. n - 1
  BY <1>1
<1> QED
  BY <1>2, <1>3, <1>4 DEF Holds, n

(* The units of the record stay where they are.                            *)
LEMMA PartialKept ==
    ASSUME LogTypeOK, LogStep, bg.pc # "idle", conf' = conf, NEW o, NEW rec, NEW m, NEW d
    PROVE  /\ Partial(o, rec, m, d)' <=> Partial(o, rec, m, d)
           /\ Len(taken') = Len(taken) /\ taken'[Len(taken)] = taken[Len(taken)]
<1>1. Len(taken) \in 1 .. Len(taken) + 1 /\ taken' = taken
  BY TakenFacts, TakenStep
<1>2. Offset(o, Len(taken))' = Offset(o, Len(taken))
  <2>1. \A i \in 1 .. Len(taken) + 1 : Offset(o, i)' = Offset(o, i)
    BY OffsetKept
  <2> QED
    BY <1>1, <2>1 DEF Offset
<1> QED
  BY <1>1, <1>2 DEF Partial, Units

(* The data of a writer, typed.                                            *)
LEMMA DataFacts ==
    ASSUME LogTypeOK, NEW k \in 1 .. Len(conf.outs)
    PROVE  LET o == conf.outs[k]
               S == Cells(RecordsOf(o))
           IN  /\ o \in Writers /\ out[o] \in Buffers(RecordsOf(o))
               /\ out[o].file \in Seq(S) /\ out[o].buf \in Seq(S) /\ Len(out[o].buf) \in Nat
               /\ Data(k) \in Seq(S) /\ Len(Data(k)) \in Nat /\ Keeps(Data(k), Data(k))
<1> DEFINE o == conf.outs[k]
           S == Cells(RecordsOf(o))
<1>1. o \in Writers /\ out[o] \in Buffers(RecordsOf(o))
  BY ConfFacts DEF LogTypeOK, OutOK
<1>2. out[o].file \in Seq(S) /\ out[o].buf \in Seq(S)
  BY <1>1 DEF Buffers
<1> HIDE DEF S
<1>3. Data(k) \in Seq(S)
  BY <1>2, ConcatProperties DEF Data
<1>4. Len(Data(k)) \in Nat /\ Len(out[o].buf) \in Nat
  BY <1>2, <1>3, LenProperties
<1>5. Keeps(Data(k), Data(k))
  BY <1>4 DEF Keeps
<1> QED
  BY <1>1, <1>2, <1>3, <1>4, <1>5 DEF S

(* A writer that background is not at keeps what it has.                   *)
LEMMA OtherWriter ==
    ASSUME LogTypeOK, NumbersInv, LogStep, NEW k \in 1 .. Len(conf.outs), OpenWriter(k),
           k # bg.k \/ bg.pc = "idle", out'[conf.outs[k]] = out[conf.outs[k]]
    PROVE  OpenWriter(k)'
<1> DEFINE o == conf.outs[k]
<1>1. /\ ~Recording(k) /\ ~Flushing(k) /\ Done(k)' = Done(k)
      /\ ~Recording(k)' /\ ~Flushing(k)'
  BY DoneStep
<1>2. conf' = conf /\ Len(taken) \in Nat
  BY TakenStep, TakenFacts
<1>3. Data(k) = out[o].file \o out[o].buf /\ Data(k)' = Data(k)
  BY <1>1, <1>2 DEF Data
<1>4. Done(k) \in 0 .. Len(taken)
  BY <1>2, TakenFacts DEF Done
<1>5. Len(Data(k)) \in Nat /\ Keeps(Data(k), Data(k))
  BY DataFacts
<1>6. Holds(o, Done(k), Data(k)) /\ Len(Data(k)) = Offset(o, Done(k) + 1)
  BY <1>1 DEF OpenWriter
<1>7. PICK d, n : d = Data(k) /\ n = Done(k)
  OBVIOUS
<1>8. Holds(o, n, d)'
  <2>1. Len(d) \in Nat /\ Keeps(d, d) /\ Holds(o, n, d) /\ n \in 0 .. Len(taken) /\ n <= Done(k)
    BY <1>4, <1>5, <1>6, <1>7
  <2> QED
    BY <1>2, <2>1, HoldsKept
<1>9. Holds(o, Done(k), Data(k))'
  BY <1>1, <1>2, <1>3, <1>7, <1>8
<1>10. Offset(o, Done(k) + 1)' = Offset(o, Done(k) + 1)
  <2>1. n + 1 \in 1 .. Len(taken) + 1
    BY <1>2, <1>4, <1>7
  <2>2. Offset(o, n + 1)' = Offset(o, n + 1)
    BY <1>2, <2>1, OffsetKept
  <2> QED
    BY <1>1, <1>2, <1>7, <2>2
<1> QED
  BY <1>1, <1>2, <1>3, <1>6, <1>9, <1>10 DEF OpenWriter

(* The writer that background is at is done with the result.               *)
LEMMA WriterDone ==
    ASSUME LogTypeOK, NumbersInv, LogStep, bg.pc # "idle", NEW k \in 1 .. Len(conf.outs), k = bg.k,
           Recording(k) \/ conf.outs[k] # "binary",
           Done(k)' = Len(taken), ~Recording(k)', ~Flushing(k)',
           out'[conf.outs[k]].open, ~out'[conf.outs[k]].err,
           NEW d, Len(d) \in Nat, Data(k)' = d,
           Holds(conf.outs[k], Len(taken), d), Len(d) = Offset(conf.outs[k], Len(taken) + 1)
    PROVE  OpenWriter(k)'
<1> DEFINE o == conf.outs[k]
<1>1. conf' = conf /\ Len(taken) \in Nat /\ Keeps(d, d)
  BY TakenStep, TakenFacts DEF Keeps
<1>2. PICK n \in Nat : n = Len(taken)
  BY <1>1
<1>3. Holds(o, n, d)'
  <2>1. Holds(o, n, d) /\ n \in 0 .. Len(taken)
        /\ (n <= Done(k) \/ Recording(k) \/ conf.outs[k] # "binary")
    BY <1>2
  <2> QED
    BY <1>1, <2>1, HoldsKept
<1>5. Holds(o, Done(k), Data(k))'
  BY <1>1, <1>2, <1>3
<1>6. Offset(o, Done(k) + 1)' = Len(d)
  <2>1. n + 1 \in 1 .. Len(taken) + 1
    BY <1>2
  <2>2. Offset(o, n + 1)' = Offset(o, n + 1)
    BY <1>1, <2>1, OffsetKept
  <2> QED
    BY <1>1, <1>2, <2>2
<1> QED
  BY <1>1, <1>5, <1>6 DEF OpenWriter

(* The writer that background is at goes on with the record.               *)
LEMMA WriterGoesOn ==
    ASSUME LogTypeOK, NumbersInv, LogStep, bg.pc # "idle", NEW k \in 1 .. Len(conf.outs), k = bg.k,
           Recording(k)', Done(k)' = Len(taken) - 1,
           out'[conf.outs[k]].open, ~out'[conf.outs[k]].err,
           Flushing(k)' => bg'.n = Len(out'[conf.outs[k]].buf),
           NEW d, Len(d) \in Nat, Data(k)' = d,
           Holds(conf.outs[k], Len(taken) - 1, d), Recorded(conf.outs[k], taken[Len(taken)]),
           bg'.rec = Encoded(conf.outs[k], taken[Len(taken)])',
           Partial(conf.outs[k], bg'.rec, bg'.part - 1, d)
    PROVE  OpenWriter(k)'
<1> DEFINE o == conf.outs[k]
<1>1. conf' = conf /\ Len(taken) \in 1 .. Len(taken) /\ Keeps(d, d)
  BY TakenStep, TakenFacts DEF Keeps
<1>2. PICK n \in Nat : n = Len(taken) - 1
  <2>1. Len(taken) - 1 \in Nat
    BY ONLY <1>1
  <2> QED
    BY <2>1
<1>3. Holds(o, n, d)'
  <2>1. Holds(o, n, d) /\ n \in 0 .. Len(taken) /\ n <= Done(k)
    BY <1>1, <1>2 DEF Done
  <2> QED
    BY <1>1, <2>1, HoldsKept
<1>4. Holds(o, Done(k), Data(k))'
  BY <1>1, <1>2, <1>3
<1>5. PICK rec, m : rec = bg'.rec /\ m = bg'.part - 1
  OBVIOUS
<1>6. Partial(o, rec, m, d)' /\ Len(taken') = Len(taken) /\ taken'[Len(taken)] = taken[Len(taken)]
  BY <1>1, <1>5, PartialKept
<1>7. Partial(o, bg.rec, bg.part - 1, Data(k))'
  BY <1>1, <1>5, <1>6
<1>8. Recorded(o, taken[Len(taken)])'
  BY <1>1, <1>6 DEF Recorded, Traced
<1> QED
  BY <1>1, <1>4, <1>7, <1>8 DEF OpenWriter

(* The units u come after what was there.                                  *)
Adds(d, u, e) ==
    Keeps(d, e) /\ Len(e) = Len(d) + Len(u) /\ \A p \in 1 .. Len(u) : e[Len(d) + p] = u[p]

(* What is appended to a buffer is appended to the data.                   *)
LEMMA UnitsAdded ==
    ASSUME NEW S, NEW f \in Seq(S), NEW g \in Seq(S), NEW u \in Seq(S)
    PROVE  Adds(f \o g, u, f \o (g \o u))
<1>1. Len(f) \in Nat /\ Len(g) \in Nat /\ Len(u) \in Nat
  BY LenProperties
<1> DEFINE d == f \o g
           h == g \o u
           e == f \o h
           Joined(x, y) == /\ Keeps(x, y) /\ Len(x) = Len(f) + Len(g)
                           /\ Len(y) = Len(f) + Len(g) + Len(u)
                           /\ \A p \in 1 .. Len(u) : y[Len(f) + Len(g) + p] = u[p]
<1>2. Joined(d, e)
  <2>1. Keeps(d, e)
    BY JoinFacts, Zenon
  <2>2. Len(d) = Len(f) + Len(g)
    BY JoinFacts, Zenon
  <2>3. /\ h \in Seq(S) /\ Len(h) = Len(g) + Len(u)
        /\ \A i \in 1 .. Len(g) + Len(u) : h[i] = IF i <= Len(g) THEN g[i] ELSE u[i - Len(g)]
    BY ConcatProperties, Zenon
  <2> HIDE DEF h
  <2> HIDE DEF d
  <2>4. /\ Len(e) = Len(f) + Len(h)
        /\ \A i \in 1 .. Len(f) + Len(h) : e[i] = IF i <= Len(f) THEN f[i] ELSE h[i - Len(f)]
    <3>1. h \in Seq(S)
      BY <2>3
    <3> QED
      BY <3>1, ConcatProperties
  <2> HIDE DEF e
  <2>5. ASSUME NEW p \in 1 .. Len(u)
        PROVE  e[Len(f) + Len(g) + p] = u[p]
    <3>1. e[Len(f) + (Len(g) + p)] = h[Len(g) + p]
      BY <1>1, <2>3, <2>4
    <3>2. h[Len(g) + p] = u[p]
      BY <1>1, <2>3
    <3> QED
      BY <1>1, <3>1, <3>2
  <2>6. Len(e) = Len(f) + Len(g) + Len(u)
    <3>1. Len(e) = Len(f) + Len(h) /\ Len(h) = Len(g) + Len(u)
      BY <2>3, <2>4
    <3> QED
      BY ONLY <1>1, <3>1
  <2> QED
    BY <2>1, <2>2, <2>5, <2>6
<1> HIDE DEF d, h, e
<1>3. /\ Keeps(d, e) /\ Len(d) = Len(f) + Len(g) /\ Len(e) = Len(f) + Len(g) + Len(u)
      /\ \A p \in 1 .. Len(u) : e[Len(f) + Len(g) + p] = u[p]
  BY <1>2
<1> HIDE DEF Joined
<1> HIDE DEF d, e
<1>4. Adds(d, u, e)
  BY ONLY <1>1, <1>3 DEF Adds
<1> QED
  BY <1>4 DEF d, h, e

(* The writer that background is at, and its data.                         *)
LEMMA WriterFacts ==
    ASSUME LogTypeOK, NEW k \in 1 .. Len(conf.outs), k = bg.k
    PROVE  /\ conf.outs[k] = Writer /\ Writer \in Writers
           /\ out = [o \in Writers |-> out[o]] /\ out[Writer] \in Buffers(RecordsOf(Writer))
           /\ bg.pc # "flushing" \/ bg.n = 0 => Data(k) = out[Writer].file \o out[Writer].buf
           /\ bg.pc = "flushing" /\ bg.n # 0 => Data(k) = out[Writer].file
<1>1. /\ conf.outs[k] = Writer /\ Writer \in Writers
      /\ out = [o \in Writers |-> out[o]] /\ out[Writer] \in Buffers(RecordsOf(Writer))
  BY DataFacts DEF Writer, LogTypeOK, OutOK
<1>2. bg.pc = "flushing" <=> Flushing(k)
  BY DEF Flushing
<1> QED
  BY <1>1, <1>2 DEF Data

(* The change of the writer that background is at, and what it had before. *)
LEMMA AtWriter ==
    ASSUME LogTypeOK, bg.pc # "idle", NEW k \in 1 .. Len(conf.outs), k = bg.k, OpenWriter(k)
    PROVE  /\ conf.outs[k] = Writer /\ Writer \in Writers
           /\ out = [o \in Writers |-> out[o]]
           /\ out[Writer].open /\ ~out[Writer].err
           /\ out[Writer] \in Buffers(RecordsOf(Writer))
           /\ Done(k) = Len(taken) - 1 /\ Len(taken) \in Nat \ {0}
           /\ Holds(Writer, Len(taken) - 1, Data(k))
           /\ bg.pc = "push" => /\ ~Recording(k) /\ ~Flushing(k)
                                /\ Len(Data(k)) = Offset(Writer, Len(taken))
           /\ bg.pc # "push" =>
                  /\ Recording(k) /\ Recorded(Writer, taken[Len(taken)])
                  /\ bg.rec = Encoded(Writer, taken[Len(taken)])
                  /\ Partial(Writer, bg.rec, bg.part - 1, Data(k))
           /\ bg.pc = "flushing" => bg.n = Len(out[Writer].buf)
           /\ bg.pc # "flushing" \/ bg.n = 0 => Data(k) = out[Writer].file \o out[Writer].buf
           /\ bg.pc = "flushing" /\ bg.n # 0 => Data(k) = out[Writer].file
           /\ Len(Data(k)) \in Nat /\ Keeps(Data(k), Data(k))
<1>1. Len(taken) \in 1 .. Len(taken) /\ Len(taken) \in Nat
  BY TakenFacts
<1>2. /\ conf.outs[k] = Writer /\ Writer \in Writers
      /\ out = [o \in Writers |-> out[o]] /\ out[Writer] \in Buffers(RecordsOf(Writer))
  BY DataFacts DEF Writer, LogTypeOK, OutOK
<1>3. Done(k) = Len(taken) - 1
  BY DEF Done
<1>4. bg.pc \in {"push", "write", "flushing"}
  BY DEF LogTypeOK, BackgroundOK
<1>5. /\ bg.pc = "push" => ~Recording(k) /\ ~Flushing(k)
      /\ bg.pc # "push" => Recording(k)
      /\ bg.pc = "flushing" <=> Flushing(k)
  BY <1>4 DEF Recording, Flushing
<1>6. ~Recording(k) => Len(Data(k)) = Offset(Writer, Len(taken))
  <2>1. Done(k) + 1 = Len(taken)
    BY <1>1, <1>3
  <2> QED
    BY <1>2, <2>1 DEF OpenWriter
<1>7. /\ bg.pc # "flushing" \/ bg.n = 0 => Data(k) = out[Writer].file \o out[Writer].buf
      /\ bg.pc = "flushing" /\ bg.n # 0 => Data(k) = out[Writer].file
  BY <1>2, <1>5 DEF Data
<1>8. out[Writer].open /\ ~out[Writer].err /\ Holds(Writer, Len(taken) - 1, Data(k))
  BY <1>2, <1>3 DEF OpenWriter
<1>9. Len(Data(k)) \in Nat /\ Keeps(Data(k), Data(k))
  BY DataFacts
<1>10. /\ bg.pc # "push" => /\ Recorded(Writer, taken[Len(taken)])
                            /\ bg.rec = Encoded(Writer, taken[Len(taken)])
                            /\ Partial(Writer, bg.rec, bg.part - 1, Data(k))
       /\ bg.pc = "flushing" => bg.n = Len(out[Writer].buf)
  BY <1>2, <1>5 DEF OpenWriter
<1>11. Len(taken) \in Nat \ {0}
  BY <1>1
<1> QED
  BY <1>2, <1>3, <1>5, <1>6, <1>7, <1>8, <1>9, <1>10, <1>11

(* The JSON writer appends a whole record, whether it flushes or not.      *)
LEMMA LineAdded ==
    ASSUME LogTypeOK, PushLDJSON, NEW k \in 1 .. Len(conf.outs), k = bg.k,
           out["ldjson"].open, ~out["ldjson"].err
    PROVE  /\ Proceed /\ UNCHANGED outcome
           /\ out'["ldjson"].open /\ ~out'["ldjson"].err
           /\ Adds(Data(k), Units(bg.rec), Data(k)')
<1> DEFINE b == out["ldjson"]
           w == WriteLine(b, bg.rec)
           S == Cells(Results)
           d == b.file \o (b.buf \o Units(bg.rec))
<1>1. /\ bg.pc = "push" /\ Writer = "ldjson" /\ out' = [out EXCEPT !["ldjson"] = w]
      /\ UNCHANGED <<conf, taken>>
  BY DEF PushLDJSON, At
<1>2. /\ conf.outs[k] = "ldjson" /\ out = [o \in Writers |-> out[o]] /\ "ldjson" \in Writers
      /\ b.open /\ ~b.err /\ b \in Buffers(RecordsOf("ldjson")) /\ Data(k) = b.file \o b.buf
  BY <1>1, WriterFacts
<1>3. b \in Buffers(Results)
  BY <1>2 DEF RecordsOf
<1>4. bg.rec \in Results /\ Len(b.buf) <= BufSize
  BY <1>1, <1>2, LogFacts, TakenFacts DEF LogTypeOK, BackgroundOK
<1> HIDE DEF b
<1>5. /\ w.open /\ ~w.err /\ w.file \o w.buf = d
  <2>1. PICK rec : rec = bg.rec
    OBVIOUS
  <2>2. WriteLine(b, rec).open = b.open
    BY <1>3, <1>4, <2>1, WriteLineType
  <2>3. b.open /\ ~b.err /\ rec \in Results
    BY <1>2, <1>4, <2>1
  <2>4. ~WriteLine(b, rec).err
    BY <1>3, <1>4, <2>3, WriteLineType
  <2>5. WriteLine(b, rec).file \o WriteLine(b, rec).buf = b.file \o (b.buf \o Units(rec))
    BY <1>3, <1>4, <2>3, WriteLineType, Zenon
  <2> QED
    BY <1>2, <2>1, <2>2, <2>4, <2>5, Zenon
<1>6. /\ b.file \in Seq(S) /\ b.buf \in Seq(S) /\ Units(bg.rec) \in Seq(S)
  BY <1>3, <1>4, UnitsType DEF Buffers
<1> HIDE DEF S, w
<1>7. out'["ldjson"] = w
  BY <1>1, <1>2
<1>8. Proceed /\ UNCHANGED outcome
  BY <1>5, <1>7 DEF PushLDJSON
<1>9. ~Flushing(k)'
  BY <1>1, <1>8, ProceedFacts
<1>10. Data(k)' = d
  BY <1>1, <1>2, <1>5, <1>7, <1>9 DEF Data
<1>11. Adds(b.file \o b.buf, Units(bg.rec), d)
  BY <1>6, UnitsAdded
<1>12. Adds(Data(k), Units(bg.rec), d)
  BY <1>2, <1>11
<1> HIDE DEF d
<1> QED
  BY <1>5, <1>7, <1>8, <1>10, <1>12

(* Then it has all the results.                                            *)
LEMMA OpenPushLDJSON ==
    ASSUME LogTypeOK, NumbersInv, PushLDJSON, NEW k \in 1 .. Len(conf.outs), k = bg.k, OpenWriter(k)
    PROVE  OpenWriter(k)'
<1> DEFINE r == taken[Len(taken)]
<1>1. /\ LogStep /\ bg.pc = "push" /\ Writer = "ldjson" /\ UNCHANGED <<conf, taken>>
  BY DEF LogStep, BackgroundStep, PushLDJSON, At
<1>2. /\ conf.outs[k] = "ldjson" /\ out["ldjson"].open /\ ~out["ldjson"].err
      /\ Len(taken) \in Nat \ {0} /\ Len(Data(k)) \in Nat
      /\ Holds("ldjson", Len(taken) - 1, Data(k)) /\ Len(Data(k)) = Offset("ldjson", Len(taken))
  BY <1>1, AtWriter
<1>3. bg.rec = r /\ r \in Results
  BY <1>1, TakenFacts DEF LogTypeOK, BackgroundOK
<1>4. PICK d : d = Data(k)'
  OBVIOUS
<1>5. /\ Proceed /\ out'["ldjson"].open /\ ~out'["ldjson"].err
      /\ Adds(Data(k), Units(r), d)
  BY <1>2, <1>3, <1>4, LineAdded
<1>6. Done(k)' = Len(taken) /\ ~Recording(k)' /\ ~Flushing(k)'
  BY <1>1, <1>5, ProceedFacts
<1>7. Len(Units(r)) = RecordLen /\ RecordLen \in Nat
  BY <1>3, UnitsType, ResultLogAssumption
<1>8. /\ Keeps(Data(k), d) /\ Len(d) = Len(Data(k)) + RecordLen
      /\ \A p \in 1 .. RecordLen : d[Len(Data(k)) + p] = Units(r)[p]
  BY <1>5, <1>7 DEF Adds
<1>9. Len(d) \in Nat
  BY <1>2, <1>7, <1>8
<1>10. Holds("ldjson", Len(taken) - 1, d)
  <2>1. Len(taken) - 1 \in Nat
    BY <1>2
  <2> QED
    BY <1>2, <1>8, <1>9, <2>1, HoldsMore
<1>11. Partial("ldjson", Encoded("ldjson", r), RecordLen, d) /\ Recorded("ldjson", r)
  BY <1>2, <1>8 DEF Partial, Encoded, Recorded
<1>12. Holds("ldjson", Len(taken), d) /\ Len(d) = Offset("ldjson", Len(taken) + 1)
  BY <1>1, <1>10, <1>11, RecordDone
<1>13. Data(k)' = d /\ conf.outs[k] # "binary" /\ bg.pc # "idle"
  BY <1>1, <1>2, <1>4
<1> QED
  BY <1>1, <1>2, <1>5, <1>6, <1>9, <1>12, <1>13, WriterDone

(* The k-th writer before the first unit of the record.                    *)
LEMMA NoUnits ==
    ASSUME NEW o, NEW rec, NEW d, Len(d) \in Nat, Len(d) = Offset(o, Len(taken))
    PROVE  Partial(o, rec, 0, d)
<1>1. Len(d) = Offset(o, Len(taken)) + 0
  OBVIOUS
<1> QED
  BY <1>1 DEF Partial

(* The trace begins a record, or has nothing to write of the result.       *)
LEMMA OpenPushTrace ==
    ASSUME LogTypeOK, NumbersInv, PushTrace, bg.part = 1,
           NEW k \in 1 .. Len(conf.outs), k = bg.k, OpenWriter(k)
    PROVE  OpenWriter(k)'
<1> DEFINE r == taken[Len(taken)]
<1>1. /\ LogStep /\ bg.pc = "push" /\ Writer = "trace" /\ UNCHANGED <<conf, taken, out>>
      /\ bg.rec = r
  BY DEF LogStep, BackgroundStep, PushTrace, At, LogTypeOK, BackgroundOK
<1>2. /\ conf.outs[k] = "trace" /\ out["trace"].open /\ ~out["trace"].err
      /\ Len(taken) \in Nat \ {0}
      /\ Holds("trace", Len(taken) - 1, Data(k)) /\ Len(Data(k)) = Offset("trace", Len(taken))
      /\ Data(k) = out["trace"].file \o out["trace"].buf /\ Len(Data(k)) \in Nat
  BY <1>1, AtWriter
<1>3. PICK d : d = Data(k)
  OBVIOUS
<1>4. CASE Traced(r)
  <2>1. bg' = [bg EXCEPT !.pc = "write"]
    BY <1>1, <1>4 DEF PushTrace
  <2>2. bg'.pc = "write" /\ bg'.k = bg.k /\ bg'.part = 1 /\ bg'.rec = r /\ bg'.n = bg.n
    BY <1>1, <2>1 DEF LogTypeOK, BackgroundOK
  <2>3. Recording(k)' /\ ~Flushing(k)' /\ Done(k)' = Len(taken) - 1
    BY <1>1, <2>2 DEF Recording, Flushing, Done
  <2>4. Data(k)' = d
    BY <1>1, <1>2, <1>3, <2>3 DEF Data
  <2>5. Partial("trace", bg'.rec, bg'.part - 1, d)
    <3>1. bg'.part - 1 = 0
      BY <2>2
    <3>2. Len(d) \in Nat /\ Len(d) = Offset("trace", Len(taken))
      BY <1>2, <1>3
    <3> QED
      BY <3>1, <3>2, NoUnits
  <2>6. bg'.rec = Encoded("trace", r)' /\ Recorded("trace", r)
    BY <1>1, <1>4, <2>2 DEF Encoded, Recorded
  <2>7. out'[conf.outs[k]].open /\ ~out'[conf.outs[k]].err /\ bg.pc # "idle"
    BY <1>1, <1>2
  <2>8. Holds("trace", Len(taken) - 1, d) /\ Len(d) \in Nat
    BY <1>2, <1>3
  <2> QED
    BY <1>1, <1>2, <2>3, <2>4, <2>5, <2>6, <2>7, <2>8, WriterGoesOn
<1>5. CASE ~Traced(r)
  <2>1. Proceed
    BY <1>1, <1>5 DEF PushTrace
  <2>2. Done(k)' = Len(taken) /\ ~Recording(k)' /\ ~Flushing(k)'
    BY <1>1, <2>1, ProceedFacts
  <2>3. Data(k)' = d
    BY <1>1, <1>2, <1>3, <2>2 DEF Data
  <2>4. Holds("trace", Len(taken), d)
    <3>1. \A i \in 1 .. Len(taken) : i = Len(taken) \/ i \in 1 .. Len(taken) - 1
      BY <1>2
    <3> QED
      BY <1>2, <1>3, <1>5, <3>1 DEF Holds, Recorded
  <2>5. Len(d) = Offset("trace", Len(taken) + 1) /\ Len(d) \in Nat
    <3>1. ~Recorded("trace", r)
      BY <1>5 DEF Recorded
    <3>2. Offset("trace", Len(taken) + 1) = Offset("trace", Len(taken)) + 0
          /\ Offset("trace", Len(taken)) \in Nat
      BY <1>2, <3>1, OffsetFacts
    <3>3. Offset("trace", Len(taken) + 1) = Offset("trace", Len(taken))
      BY ONLY <3>2
    <3>4. Len(d) = Offset("trace", Len(taken)) /\ Len(d) \in Nat
      BY <1>2, <1>3
    <3> QED
      BY <3>3, <3>4
  <2>6. out'[conf.outs[k]].open /\ ~out'[conf.outs[k]].err /\ bg.pc # "idle"
        /\ conf.outs[k] # "binary"
    BY <1>1, <1>2
  <2> QED
    BY <1>1, <1>2, <2>2, <2>3, <2>4, <2>5, <2>6, WriterDone
<1> QED
  BY <1>4, <1>5

(* The binary writer begins a record, with the numbers of its strings.     *)
LEMMA OpenIndexStrings ==
    ASSUME LogTypeOK, NumbersInv, IndexStrings, bg.part = 1,
           NEW k \in 1 .. Len(conf.outs), k = bg.k, OpenWriter(k)
    PROVE  OpenWriter(k)'
<1> DEFINE r == taken[Len(taken)]
<1>1. /\ LogStep /\ bg.pc = "push" /\ Writer = "binary" /\ UNCHANGED <<conf, taken, out>>
      /\ bg'.pc = "write" /\ bg'.k = bg.k /\ bg'.part = 1
  BY IndexStringsFacts DEF LogStep, BackgroundStep
<1>2. /\ conf.outs[k] = "binary" /\ out["binary"].open /\ ~out["binary"].err
      /\ Len(taken) \in Nat \ {0}
      /\ Holds("binary", Len(taken) - 1, Data(k)) /\ Len(Data(k)) = Offset("binary", Len(taken))
      /\ Data(k) = out["binary"].file \o out["binary"].buf /\ Len(Data(k)) \in Nat
  BY <1>1, AtWriter
<1>3. PICK d : d = Data(k)
  OBVIOUS
<1>4. Recording(k)' /\ ~Flushing(k)' /\ Done(k)' = Len(taken) - 1
  BY <1>1 DEF Recording, Flushing, Done
<1>5. Data(k)' = d
  BY <1>1, <1>2, <1>3, <1>4 DEF Data
<1>6. Partial("binary", bg'.rec, bg'.part - 1, d)
  <2>1. bg'.part - 1 = 0
    BY <1>1
  <2>2. Len(d) \in Nat /\ Len(d) = Offset("binary", Len(taken))
    BY <1>2, <1>3
  <2> QED
    BY <2>1, <2>2, NoUnits
<1>7. bg'.rec = Encoded("binary", taken[Len(taken)])'
  BY <1>1, NumbersStep
<1>8. Recorded("binary", r)
  BY DEF Recorded
<1>9. out'[conf.outs[k]].open /\ ~out'[conf.outs[k]].err /\ bg.pc # "idle"
  BY <1>1, <1>2
<1>10. Holds("binary", Len(taken) - 1, d) /\ Len(d) \in Nat
  BY <1>2, <1>3
<1> QED
  BY <1>1, <1>2, <1>4, <1>5, <1>6, <1>7, <1>8, <1>9, <1>10, WriterGoesOn

(* The k-th writer while it has the same data, within the record or at its *)
(* end.                                                                    *)
LEMMA SameRecord ==
    ASSUME LogTypeOK, NumbersInv, LogStep, NEW k \in 1 .. Len(conf.outs), k = bg.k, OpenWriter(k),
           bg.pc \in {"write", "flushing"}, ~IndexStrings, taken' = taken, bg'.rec = bg.rec
    PROVE  bg'.rec = Encoded(conf.outs[k], taken[Len(taken)])'
<1>1. Recording(k) /\ Len(taken) \in 1 .. Len(taken) /\ conf' = conf
  BY TakenFacts, TakenStep DEF Recording
<1>2. PICK i \in 1 .. Len(taken) : i = Len(taken)
  BY <1>1
<1>3. bg.rec = Encoded(conf.outs[k], taken[i])
  BY <1>1, <1>2 DEF OpenWriter
<1>4. Encoded(conf.outs[k], taken[i])' = Encoded(conf.outs[k], taken[i])
  BY <1>1, NumbersStep
<1> QED
  BY <1>1, <1>2, <1>3, <1>4

(* A flush starts or ends in the middle of a record: the data is the       *)
(* same.                                                                   *)
LEMMA WithinRecord ==
    ASSUME LogTypeOK, NumbersInv, LogStep, NEW k \in 1 .. Len(conf.outs), k = bg.k, OpenWriter(k),
           bg.pc \in {"write", "flushing"}, taken' = taken,
           bg'.pc \in {"write", "flushing"}, bg'.k = bg.k, bg'.part = bg.part, bg'.rec = bg.rec,
           Flushing(k)' => bg'.n = Len(out'[Writer].buf),
           out'[Writer].open, ~out'[Writer].err, Data(k)' = Data(k)
    PROVE  OpenWriter(k)'
<1>1. /\ conf.outs[k] = Writer /\ Len(Data(k)) \in Nat /\ Holds(Writer, Len(taken) - 1, Data(k))
      /\ Recorded(Writer, taken[Len(taken)]) /\ Partial(Writer, bg.rec, bg.part - 1, Data(k))
  BY AtWriter
<1>2. PICK d : d = Data(k)
  OBVIOUS
<1>3. conf' = conf /\ ~IndexStrings
  BY TakenStep DEF IndexStrings, At
<1>4. Recording(k)' /\ Done(k)' = Len(taken) - 1
  BY DEF Recording, Done
<1>5. bg'.rec = Encoded(conf.outs[k], taken[Len(taken)])'
  BY <1>3, SameRecord
<1>6. Len(d) \in Nat /\ Data(k)' = d /\ Holds(Writer, Len(taken) - 1, d)
      /\ Partial(Writer, bg'.rec, bg'.part - 1, d)
  BY <1>1, <1>2
<1> QED
  BY <1>1, <1>4, <1>5, <1>6, WriterGoesOn

(* The record is all there, and background goes on to the next writer.     *)
LEMMA AfterRecord ==
    ASSUME LogTypeOK, NumbersInv, LogStep, NEW k \in 1 .. Len(conf.outs), k = bg.k, OpenWriter(k),
           bg.pc \in {"write", "flushing"}, taken' = taken, bg.part > RecordLen, Proceed,
           out'[Writer].open, ~out'[Writer].err, Data(k)' = Data(k)
    PROVE  OpenWriter(k)'
<1>1. /\ conf.outs[k] = Writer /\ Len(Data(k)) \in Nat /\ Holds(Writer, Len(taken) - 1, Data(k))
      /\ Recorded(Writer, taken[Len(taken)]) /\ Partial(Writer, bg.rec, bg.part - 1, Data(k))
      /\ bg.rec = Encoded(Writer, taken[Len(taken)]) /\ Recording(k)
  BY AtWriter
<1>2. bg.part - 1 = RecordLen
  <2>1. bg.part \in 1 .. RecordLen + 1 /\ RecordLen \in Nat
    BY LogFacts
  <2> QED
    BY <2>1
<1>3. PICK d : d = Data(k)
  OBVIOUS
<1>4. conf' = conf
  BY TakenStep
<1>5. Done(k)' = Len(taken) /\ ~Recording(k)' /\ ~Flushing(k)'
  BY <1>4, ProceedFacts
<1>6. Holds(Writer, Len(taken), d) /\ Len(d) = Offset(Writer, Len(taken) + 1)
  <2>1. /\ Holds(Writer, Len(taken) - 1, d)
        /\ Partial(Writer, Encoded(Writer, taken[Len(taken)]), RecordLen, d)
    BY <1>1, <1>2, <1>3
  <2> QED
    BY <1>1, <2>1, RecordDone
<1>7. Len(d) \in Nat /\ Data(k)' = d
  BY <1>1, <1>3
<1> QED
  BY <1>1, <1>5, <1>6, <1>7, WriterDone

(* One unit more.                                                          *)
LEMMA OneMore ==
    ASSUME LogTypeOK, bg.pc # "idle", NEW o, NEW rec, NEW m \in Nat, NEW c, NEW d, Len(c) \in Nat,
           Partial(o, rec, m, c), Adds(c, <<Units(rec)[m + 1]>>, d)
    PROVE  Partial(o, rec, m + 1, d) /\ Keeps(c, d) /\ Len(d) \in Nat
<1>1. Len(taken) \in Nat \ {0}
  BY TakenFacts
<1>2. Offset(o, Len(taken)) \in Nat
  BY <1>1, OffsetFacts
<1>3. /\ Len(c) = Offset(o, Len(taken)) + m
      /\ \A part \in 1 .. m : c[Offset(o, Len(taken)) + part] = Units(rec)[part]
  BY DEF Partial
<1> DEFINE u == Units(rec)[m + 1]
<1>4. Keeps(c, d) /\ Len(d) = Len(c) + 1 /\ d[Len(c) + 1] = u
  <2>1. Len(<<u>>) = 1 /\ <<u>>[1] = u
    OBVIOUS
  <2> QED
    BY <2>1 DEF Adds
<1>5. \A part \in 1 .. m + 1 : d[Offset(o, Len(taken)) + part] = Units(rec)[part]
  <2> SUFFICES ASSUME NEW part \in 1 .. m + 1
               PROVE  d[Offset(o, Len(taken)) + part] = Units(rec)[part]
    OBVIOUS
  <2>1. CASE part = m + 1
    <3>1. Offset(o, Len(taken)) + part = Len(c) + 1
      BY <1>2, <1>3, <2>1
    <3> QED
      BY <1>4, <2>1, <3>1
  <2>2. CASE part \in 1 .. m
    <3>1. Offset(o, Len(taken)) + part \in 1 .. Len(c)
      BY <1>2, <1>3, <2>2
    <3> QED
      BY <1>3, <1>4, <2>2, <3>1 DEF Keeps
  <2> QED
    BY <2>1, <2>2
<1>6. Len(d) = Offset(o, Len(taken)) + (m + 1) /\ Len(d) \in Nat
  BY <1>2, <1>3, <1>4
<1> QED
  BY <1>4, <1>5, <1>6 DEF Partial

(* A write that has room appends one unit.                                 *)
LEMMA UnitAdded ==
    ASSUME LogTypeOK, WriteUnit, NEW k \in 1 .. Len(conf.outs), k = bg.k, out[Writer].open
    PROVE  /\ out'[Writer].open /\ ~out'[Writer].err
           /\ bg'.pc = "write" /\ bg'.k = bg.k /\ bg'.part = bg.part + 1 /\ bg'.rec = bg.rec
           /\ bg.part \in Nat \ {0} /\ bg.part <= RecordLen
           /\ Adds(Data(k), <<Units(bg.rec)[bg.part]>>, Data(k)')
<1> DEFINE b == out[Writer]
           S == Cells(RecordsOf(Writer))
           u == Units(bg.rec)[bg.part]
           w == [b EXCEPT !.buf = Append(b.buf, u)]
           d == b.file \o (b.buf \o <<u>>)
<1>1. /\ bg.pc = "write" /\ bg.part <= RecordLen /\ out' = [out EXCEPT ![Writer] = w] /\ ~b.err
      /\ bg' = [bg EXCEPT !.part = @ + 1] /\ UNCHANGED <<conf, taken>>
  BY DEF WriteUnit, WriteMore, At
<1>2. /\ conf.outs[k] = Writer /\ Writer \in Writers /\ out = [o \in Writers |-> out[o]]
      /\ b.open /\ ~b.err /\ b \in Buffers(RecordsOf(Writer)) /\ Data(k) = b.file \o b.buf
  BY <1>1, WriterFacts
<1>3. bg.part \in 1 .. RecordLen /\ bg.part \in Nat \ {0} /\ bg.k \in Nat
  <2>1. bg.part \in 1 .. RecordLen + 1 /\ RecordLen \in Nat /\ bg.k \in Nat
    BY LogFacts
  <2> QED
    BY <1>1, <2>1
<1>4. /\ bg'.pc = "write" /\ bg'.k = bg.k /\ bg'.part = bg.part + 1 /\ bg'.rec = bg.rec
  BY <1>1 DEF LogTypeOK, BackgroundOK
<1>5. /\ b.file \in Seq(S) /\ b.buf \in Seq(S) /\ u \in S
  <2>1. bg.rec \in RecordsOf(Writer)
    BY <1>1 DEF LogTypeOK, BackgroundOK
  <2>2. u \in S
    BY <1>3, <2>1, UnitsType, ElementOfSeq
  <2> QED
    BY <1>2, <2>2 DEF Buffers
<1> HIDE DEF b, S, u
<1>6. Append(b.buf, u) = b.buf \o <<u>> /\ <<u>> \in Seq(S) /\ Append(b.buf, u) \in Seq(S)
  <2>1. Append(b.buf, u) = b.buf \o <<u>> /\ Append(b.buf, u) \in Seq(S)
    BY <1>5, AppendIsConcat, AppendProperties
  <2>2. <<u>> \in Seq(S)
    BY <1>5
  <2> QED
    BY <2>1, <2>2
<1>7. w.open /\ ~w.err /\ w.file = b.file /\ w.buf = b.buf \o <<u>>
  BY <1>2, <1>6, BufferUpdates DEF Buffers
<1> HIDE DEF w
<1>8. out'[Writer] = w
  BY <1>1, <1>2
<1>9. ~Flushing(k)'
  BY <1>4 DEF Flushing
<1>10. Data(k)' = d
  BY <1>1, <1>2, <1>7, <1>8, <1>9 DEF Data
<1>11. Adds(b.file \o b.buf, <<u>>, d)
  BY <1>5, <1>6, UnitsAdded
<1>12. Adds(Data(k), <<u>>, d)
  BY <1>2, <1>11
<1> HIDE DEF d
<1>13. Adds(Data(k), <<Units(bg.rec)[bg.part]>>, Data(k)')
  BY <1>10, <1>12 DEF u
<1> QED
  BY <1>1, <1>3, <1>4, <1>7, <1>8, <1>13

(* Then the record is one unit longer.                                     *)
LEMMA OpenWriteUnit ==
    ASSUME LogTypeOK, NumbersInv, WriteUnit, NEW k \in 1 .. Len(conf.outs), k = bg.k, OpenWriter(k)
    PROVE  OpenWriter(k)'
<1>1. /\ LogStep /\ bg.pc = "write" /\ UNCHANGED <<conf, taken>>
  BY DEF LogStep, BackgroundStep, WriteUnit, WriteMore, At
<1>2. /\ conf.outs[k] = Writer /\ out[Writer].open
      /\ Holds(Writer, Len(taken) - 1, Data(k)) /\ Len(taken) \in Nat \ {0} /\ Len(Data(k)) \in Nat
      /\ Recorded(Writer, taken[Len(taken)]) /\ Partial(Writer, bg.rec, bg.part - 1, Data(k))
  BY <1>1, AtWriter
<1>3. PICK d : d = Data(k)'
  OBVIOUS
<1>4. /\ out'[Writer].open /\ ~out'[Writer].err
      /\ bg'.pc = "write" /\ bg'.k = bg.k /\ bg'.part = bg.part + 1 /\ bg'.rec = bg.rec
      /\ bg.part \in Nat \ {0} /\ Adds(Data(k), <<Units(bg.rec)[bg.part]>>, d)
  BY <1>2, <1>3, UnitAdded
<1>5. Recording(k)' /\ ~Flushing(k)' /\ Done(k)' = Len(taken) - 1
  BY <1>1, <1>4 DEF Recording, Flushing, Done
<1>6. Partial(Writer, bg'.rec, bg'.part - 1, d) /\ Keeps(Data(k), d) /\ Len(d) \in Nat
  <2>1. PICK m \in Nat : m = bg.part - 1
    BY <1>4
  <2>2. m + 1 = bg.part /\ bg'.part - 1 = m + 1 /\ bg.pc # "idle"
    BY <1>1, <1>4, <2>1
  <2>3. /\ Len(Data(k)) \in Nat /\ Partial(Writer, bg.rec, m, Data(k))
        /\ Adds(Data(k), <<Units(bg.rec)[m + 1]>>, d)
    BY <1>2, <1>4, <2>1, <2>2
  <2>4. Partial(Writer, bg.rec, m + 1, d) /\ Keeps(Data(k), d) /\ Len(d) \in Nat
    BY <2>2, <2>3, OneMore
  <2> QED
    BY <1>4, <2>2, <2>4
<1>7. Holds(Writer, Len(taken) - 1, d)
  <2>1. Len(taken) - 1 \in Nat
    BY <1>2
  <2> QED
    BY <1>2, <1>6, <2>1, HoldsMore
<1>8. bg'.rec = Encoded(conf.outs[k], taken[Len(taken)])'
  <2>1. ~IndexStrings
    BY <1>1 DEF IndexStrings, At
  <2> QED
    BY <1>1, <1>4, <2>1, SameRecord
<1>9. Data(k)' = d /\ bg.pc # "idle"
  BY <1>1, <1>3
<1> QED
  BY <1>1, <1>2, <1>4, <1>5, <1>6, <1>7, <1>8, <1>9, WriterGoesOn

(* While the file is open, a flush puts all the data there.                *)
LEMMA FlushedAll ==
    ASSUME NEW R, NEW b \in Buffers(R), b.open, ~b.err
    PROVE  /\ FlushStart(b).file = b.file \o b.buf
           /\ FlushStart(b).buf = b.buf /\ FlushStart(b).open /\ ~FlushStart(b).err
           /\ FlushLen(b) = Len(b.buf) /\ (b.buf = << >> <=> Len(b.buf) = 0)
<1>1. b.file \in Seq(Cells(R)) /\ b.buf \in Seq(Cells(R))
  BY DEF Buffers
<1>2. b.file \o << >> = b.file /\ (b.buf = << >> <=> Len(b.buf) = 0)
  BY <1>1, ConcatEmptySeq, EmptySeq
<1>3. FlushLen(b) = Len(b.buf)
  BY DEF FlushLen
<1>4. /\ FlushStart(b).buf = b.buf /\ FlushStart(b).open /\ ~FlushStart(b).err
      /\ FlushStart(b).file = IF b.buf = << >> THEN b.file ELSE b.file \o b.buf
  BY FlushStartType
<1> QED
  BY <1>2, <1>3, <1>4

(* A flush writes the buffer and drops it at its end: no unit is lost or   *)
(* written twice while nobody else flushes.                                *)
LEMMA StartFlushKeeps ==
    ASSUME LogTypeOK, bg.pc = "write", StartFlush, conf' = conf,
           NEW k \in 1 .. Len(conf.outs), k = bg.k, out[Writer].open, ~out[Writer].err
    PROVE  /\ Data(k)' = Data(k) /\ out'[Writer].open /\ ~out'[Writer].err
           /\ bg'.n = Len(out'[Writer].buf)
           /\ bg'.pc = "flushing" /\ bg'.k = bg.k /\ bg'.part = bg.part /\ bg'.rec = bg.rec
           /\ bg'.n # 0 => Data(k)' = out'[Writer].file
<1> DEFINE b == out[Writer]
           c == FlushStart(b)
<1>1. /\ conf.outs[k] = Writer /\ Writer \in Writers /\ out = [o \in Writers |-> out[o]]
      /\ b.open /\ ~b.err /\ b \in Buffers(RecordsOf(Writer)) /\ Data(k) = b.file \o b.buf
  BY WriterFacts
<1>2. out' = [out EXCEPT ![Writer] = c] /\ bg' = [bg EXCEPT !.pc = "flushing", !.n = FlushLen(b)]
  BY DEF StartFlush
<1>3. out'[Writer] = c
  BY <1>1, <1>2
<1>4. /\ bg'.pc = "flushing" /\ bg'.k = bg.k /\ bg'.part = bg.part /\ bg'.rec = bg.rec
      /\ bg'.n = FlushLen(b)
  BY <1>2 DEF LogTypeOK, BackgroundOK
<1>5. /\ c.open /\ ~c.err /\ c.buf = b.buf /\ c.file = b.file \o b.buf
      /\ FlushLen(b) = Len(b.buf) /\ (b.buf = << >> <=> Len(b.buf) = 0)
  BY <1>1, FlushedAll
<1>6. b.buf = << >> => c.file \o c.buf = b.file \o b.buf
  <2>1. b.file \o << >> = b.file
    BY <1>1, ConcatEmptySeq DEF Buffers
  <2> QED
    BY <1>5, <2>1
<1> HIDE DEF b, c
<1>7. Flushing(k)'
  BY <1>4 DEF Flushing
<1>8. Data(k)' = IF Len(b.buf) # 0 THEN c.file ELSE c.file \o c.buf
  BY <1>1, <1>3, <1>4, <1>5, <1>7 DEF Data
<1>9. Data(k)' = Data(k) /\ (bg'.n # 0 => Data(k)' = out'[Writer].file)
  BY <1>1, <1>3, <1>4, <1>5, <1>6, <1>8
<1> QED
  BY <1>3, <1>4, <1>5, <1>9

(* The end of a flush does not change the data.                            *)
LEMMA FlushReturnsKeeps ==
    ASSUME LogTypeOK, FlushReturns, NEW k \in 1 .. Len(conf.outs), k = bg.k,
           out[Writer].open, ~out[Writer].err, bg.n = 0 \/ bg.n = Len(out[Writer].buf),
           ~Flushing(k)'
    PROVE  Data(k)' = Data(k) /\ out'[Writer].open /\ ~out'[Writer].err
<1> DEFINE b == out[Writer]
<1>1. /\ conf.outs[k] = Writer /\ Writer \in Writers /\ out = [o \in Writers |-> out[o]]
      /\ b.open /\ ~b.err /\ b \in Buffers(RecordsOf(Writer)) /\ bg.pc = "flushing"
      /\ (bg.n = 0 \/ bg.n = Len(b.buf)) /\ conf' = conf
  BY WriterFacts DEF FlushReturns, At
<1>2. /\ bg.n = 0 => Data(k) = b.file \o b.buf
      /\ bg.n # 0 => Data(k) = b.file
  BY <1>1, WriterFacts
<1>3. PICK c \in FlushEnds(b, bg.n) : out' = [out EXCEPT ![Writer] = c]
  BY DEF FlushReturns
<1>4. out'[Writer] = c
  BY <1>1, <1>3
<1>5. bg.n \in Nat
  BY LogFacts
<1> HIDE DEF b
<1>6. /\ c.file = b.file /\ c.open = b.open
      /\ bg.n = 0 => c = b
      /\ bg.n # 0 => c.buf = << >> /\ c.err = b.err
  <2>1. PICK n \in Nat : n = bg.n
    BY <1>5
  <2>2. /\ c \in FlushEnds(b, n) /\ (n = 0 \/ n = Len(b.buf)) /\ b \in Buffers(RecordsOf(Writer))
    BY <1>1, <1>3, <2>1
  <2>3. /\ c.file = b.file /\ c.open = b.open
        /\ n = 0 => c = b
        /\ n # 0 /\ n = Len(b.buf) => c.buf = << >> /\ c.err = b.err
    BY <2>2, FlushEndsType
  <2> QED
    BY <2>1, <2>2, <2>3
<1>7. Data(k)' = c.file \o c.buf
  BY <1>1, <1>4 DEF Data
<1>8. b.file \o << >> = b.file
  <2>1. b.file \in Seq(Cells(RecordsOf(Writer)))
    BY <1>1 DEF Buffers
  <2> QED
    BY <2>1, ConcatEmptySeq
<1> QED
  BY <1>1, <1>2, <1>4, <1>6, <1>7, <1>8

(* The writer that background is at keeps every result whole and in order. *)
LEMMA OpenAtWriter ==
    ASSUME LogTypeOK, NumbersInv, BackgroundStep, bg.pc = "push" => bg.part = 1,
           NEW k \in 1 .. Len(conf.outs), k = bg.k, OpenWriter(k)
    PROVE  OpenWriter(k)'
<1>1. LogStep
  BY DEF LogStep
<1>2. CASE PushLDJSON
  BY <1>2, OpenPushLDJSON
<1>3. CASE IndexStrings
  BY <1>3, OpenIndexStrings DEF IndexStrings, At
<1>4. CASE PushTrace
  BY <1>4, OpenPushTrace DEF PushTrace, At
<1>5. CASE WriteUnit
  BY <1>5, OpenWriteUnit
<1>6. CASE WriteFails
  <2>1. bg.pc # "idle" /\ out[Writer].err
    BY <1>6 DEF WriteFails, WriteMore, At
  <2> QED
    BY <2>1, AtWriter
<1>7. CASE WriteToFull
  <2>1. bg.pc = "write" /\ StartFlush /\ UNCHANGED <<conf, taken>>
    BY <1>7 DEF WriteToFull, WriteMore, At
  <2>2. /\ Data(k)' = Data(k) /\ out'[Writer].open /\ ~out'[Writer].err
        /\ bg'.n = Len(out'[Writer].buf)
        /\ bg'.pc = "flushing" /\ bg'.k = bg.k /\ bg'.part = bg.part /\ bg'.rec = bg.rec
    BY <2>1, AtWriter, StartFlushKeeps
  <2> QED
    BY <1>1, <2>1, <2>2, WithinRecord
<1>8. CASE FlushReturns
  <2>1. bg.pc = "flushing" /\ UNCHANGED <<conf, taken>>
    BY <1>8 DEF FlushReturns, At
  <2>2. CASE bg.part <= RecordLen
    <3>1. bg' = [bg EXCEPT !.pc = "write"]
      BY <1>8, <2>2 DEF FlushReturns
    <3>2. bg'.pc = "write" /\ bg'.k = bg.k /\ bg'.part = bg.part /\ bg'.rec = bg.rec
      BY <3>1 DEF LogTypeOK, BackgroundOK
    <3>3. ~Flushing(k)'
      BY <3>2 DEF Flushing
    <3>4. Data(k)' = Data(k) /\ out'[Writer].open /\ ~out'[Writer].err
      BY <1>8, <2>1, <3>3, AtWriter, FlushReturnsKeeps
    <3> QED
      BY <1>1, <2>1, <3>2, <3>3, <3>4, WithinRecord
  <2>3. CASE ~(bg.part <= RecordLen)
    <3>1. Proceed
      BY <1>8, <2>3 DEF FlushReturns
    <3>2. ~Flushing(k)'
      BY <2>1, <3>1, ProceedFacts
    <3>3. Data(k)' = Data(k) /\ out'[Writer].open /\ ~out'[Writer].err
      BY <1>8, <2>1, <3>2, AtWriter, FlushReturnsKeeps
    <3>4. bg.part > RecordLen
      BY <2>3, LogFacts
    <3> QED
      BY <1>1, <2>1, <3>1, <3>3, <3>4, AfterRecord
  <2> QED
    BY <2>2, <2>3
<1>9. CASE RecordWritten
  <2>1. bg.pc = "write" /\ bg.part > RecordLen /\ UNCHANGED <<conf, taken>>
    BY <1>9 DEF RecordWritten, At
  <2>2. CASE NewSecond
    <3>1. StartFlush
      BY <1>9, <2>2 DEF RecordWritten
    <3>2. /\ Data(k)' = Data(k) /\ out'[Writer].open /\ ~out'[Writer].err
          /\ bg'.n = Len(out'[Writer].buf)
          /\ bg'.pc = "flushing" /\ bg'.k = bg.k /\ bg'.part = bg.part /\ bg'.rec = bg.rec
      BY <2>1, <3>1, AtWriter, StartFlushKeeps
    <3> QED
      BY <1>1, <2>1, <3>2, WithinRecord
  <2>3. CASE ~NewSecond
    <3>1. Proceed /\ out' = out
      BY <1>9, <2>3 DEF RecordWritten
    <3>2. ~Flushing(k)'
      BY <2>1, <3>1, ProceedFacts
    <3>3. ~Flushing(k)
      BY <2>1 DEF Flushing
    <3>4. Data(k)' = Data(k)
      BY <2>1, <3>1, <3>2, <3>3 DEF Data
    <3>5. out'[Writer].open /\ ~out'[Writer].err
      BY <2>1, <3>1, AtWriter
    <3> QED
      BY <1>1, <2>1, <3>1, <3>4, <3>5, AfterRecord
  <2> QED
    BY <2>2, <2>3
<1> QED
  BY <1>2, <1>3, <1>4, <1>5, <1>6, <1>7, <1>8, <1>9 DEF BackgroundStep
OpenInv ==
    /\ bg.pc = "push" => bg.part = 1
    /\ closer.pc = "away" =>
           /\ closer.k = 1 /\ promised = IF Busy THEN Len(taken) - 1 ELSE Len(taken)
           /\ \A k \in 1 .. Len(conf.outs) : OpenWriter(k)

(* What a step of background leaves alone.                                 *)
LEMMA BackgroundFrame ==
    ASSUME LogTypeOK, NumbersInv, BackgroundStep
    PROVE  /\ UNCHANGED <<conf, closer, taken>> /\ bg.pc # "idle"
           /\ \A o \in Writers : o # Writer => out'[o] = out[o]
           /\ \/ Proceed
              \/ /\ bg'.pc # "idle" /\ bg'.k = bg.k /\ promised' = promised
                 /\ bg'.pc = "push" => bg.pc = "push" /\ bg' = bg
<1>1. /\ Writer \in Writers /\ out = [o \in Writers |-> out[o]]
      /\ bg = [pc |-> bg.pc, k |-> bg.k, part |-> bg.part, n |-> bg.n, rec |-> bg.rec]
  BY LogFacts DEF LogTypeOK, OutOK, BackgroundOK
<1>2. UNCHANGED <<conf, closer, taken>> /\ bg.pc # "idle"
  BY DEF BackgroundStep, PushLDJSON, IndexStrings, PushTrace, WriteUnit, WriteFails,
     WriteToFull, FlushReturns, RecordWritten, WriteMore, At
<1>3. \A o \in Writers : o # Writer => out'[o] = out[o]
  <2>1. out' = out \/ \E b : out' = [out EXCEPT ![Writer] = b]
    BY DEF BackgroundStep, PushLDJSON, IndexStrings, PushTrace, WriteUnit, WriteFails,
       WriteToFull, FlushReturns, RecordWritten, StartFlush
  <2> QED
    BY <1>1, <2>1
<1>4. CASE PushLDJSON
  BY <1>4 DEF PushLDJSON, At
<1>5. CASE IndexStrings
  BY <1>2, <1>3, <1>5, IndexStringsFacts
<1>6. CASE PushTrace \/ WriteUnit \/ WriteFails \/ WriteToFull \/ FlushReturns \/ RecordWritten
  BY <1>1, <1>6 DEF PushTrace, WriteUnit, WriteFails,
     WriteToFull, FlushReturns, RecordWritten, WriteMore, StartFlush, At
<1> QED
  BY <1>2, <1>3, <1>4, <1>5, <1>6 DEF BackgroundStep

(* Nobody opens the output again.                                          *)
LEMMA StaysAway ==
    ASSUME LogTypeOK, NumbersInv, LogStep, closer'.pc = "away"
    PROVE  /\ closer' = closer
           /\ \/ \E r \in Results : Receive(r)
              \/ BackgroundStep
              \/ UNCHANGED <<conf, logVars>>
<1>1. closer \in [pc : {"away", "close", "flushing", "fd", "exit"}, k : Nat, n : Nat]
  BY DEF LogTypeOK, CloserOK
<1>2. ~RunReturns
  BY <1>1 DEF RunReturns
<1>3. ~CloseLDJSON /\ ~CloseDescriptor
  BY DEF CloseLDJSON, CloseDescriptor, NextWriter
<1>4. ~CloseFlushes /\ ~CloseFlushReturns
  BY <1>1 DEF CloseFlushes, CloseFlushReturns
<1>5. ~MainReturns
  BY DEF MainReturns, Closing, logVars
<1> QED
  BY <1>2, <1>3, <1>4, <1>5, BackgroundFrame DEF LogStep, CloseStep, Receive, logVars

(* While the output is open no step loses or misplaces a record.           *)
LEMMA OpenStep ==
    ASSUME LogTypeOK, NumbersInv, OpenInv, LogStep
    PROVE  OpenInv'
<1>1. bg'.pc = "push" => bg'.part = 1
  <2>1. CASE BackgroundStep
    <3>1. UNCHANGED <<conf, taken>> /\ bg.pc # "idle"
      BY <2>1, BackgroundFrame
    <3>2. CASE Proceed
      BY <3>1, <3>2, ProceedFacts DEF IdleBackground
    <3>3. CASE ~Proceed
      BY <2>1, <3>3, BackgroundFrame DEF OpenInv
    <3> QED
      BY <3>2, <3>3
  <2>2. CASE ~BackgroundStep
    BY <2>2 DEF LogStep, Receive, IdleBackground, RunReturns, CloseStep, CloseLDJSON, CloseFlushes,
       CloseFlushReturns, CloseDescriptor, MainReturns, logVars, OpenInv
  <2> QED
    BY <2>1, <2>2
<1> SUFFICES ASSUME closer'.pc = "away"
             PROVE  /\ closer'.k = 1
                    /\ promised' = IF Busy' THEN Len(taken') - 1 ELSE Len(taken')
                    /\ \A k \in 1 .. Len(conf.outs) : OpenWriter(k)'
  BY <1>1, TakenStep DEF OpenInv
<1>2. closer' = closer /\ conf' = conf /\ Len(taken) \in Nat
  BY StaysAway, TakenStep, TakenFacts
<1>3. /\ closer.k = 1 /\ promised = IF Busy THEN Len(taken) - 1 ELSE Len(taken)
      /\ \A k \in 1 .. Len(conf.outs) : OpenWriter(k)
  BY <1>2 DEF OpenInv
<1>4. CASE \E r \in Results : Receive(r)
  <2>1. /\ bg.pc = "idle" /\ bg'.pc # "idle" /\ UNCHANGED <<out, promised>>
        /\ Len(taken') = Len(taken) + 1
    <3>1. PICK r \in Results : Receive(r)
      BY <1>4
    <3>2. bg.pc = "idle" /\ bg'.pc = "push" /\ UNCHANGED <<out, promised>> /\ taken' = Append(taken, r)
      BY <3>1 DEF Receive, At, IdleBackground
    <3> QED
      BY <3>2, TakenFacts, AppendProperties
  <2>2. promised' = Len(taken') - 1 /\ Busy'
    BY <1>2, <1>3, <2>1 DEF Busy
  <2>3. \A k \in 1 .. Len(conf.outs) : OpenWriter(k)'
    BY <1>3, <2>1, OtherWriter
  <2> QED
    BY <1>2, <1>3, <2>2, <2>3
<1>5. CASE BackgroundStep
  <2>1. UNCHANGED taken /\ bg.pc # "idle"
    BY <1>5, BackgroundFrame
  <2>2. promised' = IF Busy' THEN Len(taken') - 1 ELSE Len(taken')
    <3>1. promised = Len(taken) - 1
      BY <1>3, <2>1 DEF Busy
    <3>2. CASE Proceed
      <4>1. CASE bg.k < Len(conf.outs)
        BY <2>1, <3>1, <3>2, <4>1 DEF Proceed, IdleBackground, Busy
      <4>2. CASE ~(bg.k < Len(conf.outs))
        BY <1>2, <2>1, <3>2, <4>2 DEF Proceed, IdleBackground, Busy
      <4> QED
        BY <4>1, <4>2
    <3>3. CASE bg'.pc # "idle" /\ promised' = promised
      BY <2>1, <3>1, <3>3 DEF Busy
    <3> QED
      BY <1>5, <3>2, <3>3, BackgroundFrame
  <2>3. ASSUME NEW k \in 1 .. Len(conf.outs)
        PROVE  OpenWriter(k)'
    <3>1. CASE k = bg.k
      BY <1>3, <1>5, <3>1, OpenAtWriter DEF OpenInv
    <3>2. CASE k # bg.k
      <4>1. conf.outs[k] \in Writers /\ conf.outs[k] # Writer
        BY <3>2, LogFacts, ConfFacts DEF Writer, LogTypeOK
      <4> QED
        BY <1>3, <1>5, <3>2, <4>1, BackgroundFrame, OtherWriter
    <3> QED
      BY <3>1, <3>2
  <2> QED
    BY <1>2, <1>3, <2>2, <2>3
<1>6. CASE UNCHANGED <<conf, logVars>>
  <2>1. UNCHANGED <<out, index, bg, taken, promised>>
    BY <1>6 DEF logVars
  <2>2. ASSUME NEW k \in 1 .. Len(conf.outs)
        PROVE  OpenWriter(k)'
    <3>1. OpenWriter(k)
      BY <1>3
    <3>2. \A o, i : Offset(o, i)' = Offset(o, i) /\ Encoded(o, i)' = Encoded(o, i)
                    /\ (Recorded(o, i)' <=> Recorded(o, i))
      BY <2>1 DEF Offset, Encoded, Recorded, Traced
    <3>3. Done(k)' = Done(k) /\ Recording(k)' = Recording(k) /\ Flushing(k)' = Flushing(k)
          /\ Data(k)' = Data(k)
      BY <1>2, <2>1 DEF Done, Recording, Flushing, Data
    <3>4. \A o, n, d : (Holds(o, n, d)' <=> Holds(o, n, d))
      BY <2>1, <3>2 DEF Holds, InData, Units
    <3>5. \A o, rec, m, d : (Partial(o, rec, m, d)' <=> Partial(o, rec, m, d))
      BY <2>1, <3>2 DEF Partial, Units
    <3> QED
      BY <1>2, <2>1, <3>1, <3>2, <3>3, <3>4, <3>5 DEF OpenWriter
  <2> QED
    BY <1>2, <1>3, <2>1, <2>2 DEF Busy
<1> QED
  BY <1>4, <1>5, <1>6, StaysAway
-----------------------------------------------------------------------------
(* What the files hold: after Close                                        *)

(* Files only grow.                                                        *)
LEMMA FileGrows ==
    ASSUME NEW R, NEW b \in Buffers(R), NEW f, f = b.file \/ f = b.file \o b.buf
    PROVE  Keeps(b.file, f)
<1>1. b.file \in Seq(Cells(R)) /\ b.buf \in Seq(Cells(R))
  BY DEF Buffers
<1>2. Keeps(b.file, b.file) /\ Keeps(b.file, b.file \o b.buf)
  BY <1>1, JoinFacts
<1> QED
  BY <1>2

(* Neither does the JSON writer take anything out of its file.             *)
LEMMA LineGrows ==
    ASSUME NEW R, NEW b \in Buffers(R), NEW rec \in R
    PROVE  Keeps(b.file, WriteLine(b, rec).file)
<1> DEFINE all == b.buf \o Units(rec)
           fits == SubSeq(all, 1, BufSize)
           rest == SubSeq(all, BufSize + 1, Len(all))
           filled == [b EXCEPT !.buf = fits]
           full == FlushStart(filled)
<1>1. b.buf \in Seq(Cells(R)) /\ b.file \in Seq(Cells(R)) /\ BufSize \in Nat \ {0}
  BY ResultLogAssumption DEF Buffers
<1>2. all \in Seq(Cells(R))
  BY <1>1, UnitsType, ConcatProperties
<1>3. WriteLine(b, rec) = IF b.err THEN b
                          ELSE IF Len(all) <= BufSize THEN [b EXCEPT !.buf = all]
                          ELSE [full EXCEPT !.buf = rest]
  BY DEF WriteLine
<1>4. Len(all) \in Nat /\ \A i \in 1 .. Len(all) : all[i] \in Cells(R)
  BY <1>2, LenProperties, ElementOfSeq
<1> HIDE DEF all
<1>5. CASE b.err \/ Len(all) <= BufSize
  <2>1. [b EXCEPT !.buf = all].file = b.file
    BY <1>1, <1>2, BufferUpdates DEF Buffers
  <2>2. WriteLine(b, rec).file = b.file
    BY <1>3, <1>5, <2>1
  <2> QED
    BY <2>2, FileGrows
<1>6. CASE ~(b.err \/ Len(all) <= BufSize)
  <2>1. fits \in Seq(Cells(R))
    BY <1>1, <1>4, <1>6, SubSeqProperties
  <2>2. rest \in Seq(Cells(R))
    BY <1>1, <1>4, <1>6, SubSeqProperties
  <2>3. WriteLine(b, rec) = [full EXCEPT !.buf = rest]
    BY <1>3, <1>6
  <2> HIDE DEF fits, rest
  <2>4. filled \in Buffers(R) /\ filled.buf = fits /\ filled.file = b.file
    BY <1>1, <2>1, BufferUpdates DEF Buffers
  <2> HIDE DEF filled
  <2>5. full \in Buffers(R) /\ (full.file = filled.file \/ full.file = filled.file \o filled.buf)
    BY <2>4, FlushStartType
  <2>6. Keeps(filled.file, full.file)
    BY <2>4, <2>5, FileGrows
  <2> HIDE DEF full
  <2>7. [full EXCEPT !.buf = rest].file = full.file
    BY <2>2, <2>5, BufferUpdates DEF Buffers
  <2> QED
    BY <2>3, <2>4, <2>6, <2>7
<1> QED
  BY <1>5, <1>6

(* Nothing is ever taken out of a file.                                    *)
LEMMA FilesGrow ==
    ASSUME LogTypeOK, LogStep, NEW o \in Writers
    PROVE  Keeps(out[o].file, out'[o].file)
<1> DEFINE b == out[o]
           R == RecordsOf(o)
<1>1. /\ b \in Buffers(R) /\ out = [w \in Writers |-> out[w]] /\ Writer \in Writers
  BY LogFacts DEF LogTypeOK, OutOK
<1>2. CASE out'[o] = b
  BY <1>1, <1>2, FileGrows
<1>3. CASE out'[o] = FlushStart(b)
  <2>1. out'[o].file = b.file \/ out'[o].file = b.file \o b.buf
    BY <1>1, <1>3, FlushStartType
  <2> QED
    BY <1>1, <2>1, FileGrows
<1>4. ASSUME NEW n \in Nat, out'[o] \in FlushEnds(b, n)
      PROVE  Keeps(out[o].file, out'[o].file)
  <2>1. out'[o].file = b.file
    BY <1>1, <1>4, FlushEndsType
  <2> QED
    BY <1>1, <2>1, FileGrows
<1>5. CASE PushLDJSON
  <2>1. out' = [out EXCEPT !["ldjson"] = WriteLine(out["ldjson"], bg.rec)]
        /\ bg.pc = "push" /\ bg.rec = taken[Len(taken)]
    BY <1>5 DEF PushLDJSON, At, LogTypeOK, BackgroundOK
  <2>2. CASE o = "ldjson"
    <3>1. bg.rec \in R
      BY <2>1, <2>2, TakenFacts DEF RecordsOf
    <3>2. out'[o] = WriteLine(b, bg.rec)
      BY <1>1, <2>1, <2>2
    <3> QED
      BY <1>1, <3>1, <3>2, LineGrows
  <2>3. CASE o # "ldjson"
    BY <1>1, <1>2, <2>1, <2>3
  <2> QED
    BY <2>2, <2>3
<1>6. CASE WriteUnit
  <2>1. out' = [out EXCEPT ![Writer].buf = Append(@, Units(bg.rec)[bg.part])]
    BY <1>6 DEF WriteUnit
  <2>2. out'[o].file = b.file
    BY <1>1, <2>1 DEF Buffers
  <2> QED
    BY <1>1, <2>2, FileGrows
<1>7. CASE WriteToFull \/ RecordWritten
  <2>1. out' = out \/ out' = [out EXCEPT ![Writer] = FlushStart(out[Writer])]
    BY <1>7 DEF WriteToFull, RecordWritten, StartFlush
  <2> QED
    BY <1>1, <1>2, <1>3, <2>1
<1>8. CASE FlushReturns
  <2>1. PICK c \in FlushEnds(out[Writer], bg.n) : out' = [out EXCEPT ![Writer] = c]
    BY <1>8 DEF FlushReturns
  <2>2. bg.n \in Nat
    BY LogFacts
  <2> QED
    BY <1>1, <1>2, <1>4, <2>1, <2>2
<1>9. CASE CloseLDJSON
  <2> DEFINE c == [FlushStart(out["ldjson"]) EXCEPT !.buf = << >>, !.open = FALSE]
  <2>1. out' = [out EXCEPT !["ldjson"] = c]
    BY <1>9 DEF CloseLDJSON
  <2>2. CASE o = "ldjson"
    <3>1. out'[o] = c
      BY <1>1, <2>1, <2>2
    <3>2. c.file = FlushStart(b).file
      BY <1>1, <2>2, ShutType
    <3>3. out'[o].file = b.file \/ out'[o].file = b.file \o b.buf
      BY <1>1, <3>1, <3>2, FlushStartType
    <3> QED
      BY <1>1, <3>3, FileGrows
  <2>3. CASE o # "ldjson"
    BY <1>1, <1>2, <2>1, <2>3
  <2> QED
    BY <2>2, <2>3
<1>10. CASE CloseFlushes
  <2>1. out' = [out EXCEPT ![Closed] = FlushStart(out[Closed])]
    BY <1>10 DEF CloseFlushes
  <2> QED
    BY <1>1, <1>2, <1>3, <2>1
<1>11. CASE CloseFlushReturns
  <2>1. PICK c \in FlushEnds(out[Closed], closer.n) : out' = [out EXCEPT ![Closed] = c]
    BY <1>11 DEF CloseFlushReturns
  <2>2. closer.n \in Nat
    BY LogFacts
  <2> QED
    BY <1>1, <1>2, <1>4, <2>1, <2>2
<1>12. CASE CloseDescriptor
  <2>1. out' = [out EXCEPT ![Closed].open = FALSE]
    BY <1>12 DEF CloseDescriptor
  <2>2. out'[o].file = b.file
    BY <1>1, <2>1 DEF Buffers
  <2> QED
    BY <1>1, <2>2, FileGrows
<1>13. CASE out' = out
  BY <1>2, <1>13
<1>14. PushTrace \/ IndexStrings \/ WriteFails \/ RunReturns \/ MainReturns
       \/ (\E r \in Results : Receive(r)) \/ UNCHANGED <<conf, logVars>> => out' = out
  BY DEF PushTrace, IndexStrings, WriteFails, RunReturns, MainReturns, Receive, logVars
<1> QED
  BY <1>5, <1>6, <1>7, <1>8, <1>9, <1>10, <1>11, <1>12, <1>13, <1>14
     DEF LogStep, BackgroundStep, CloseStep

(* Once the output is being closed: of every writer the promised results   *)
(* are in the file, or in a buffer that Close has still to flush.          *)
ToBeClosed(k) == closer.k < k \/ (closer.k = k /\ closer.pc = "close")
InFlight(k) == Flushing(k) /\ bg.n # 0
InFile(k) == Holds(conf.outs[k], promised, out[conf.outs[k]].file)
InBuffer(k) ==
    LET b == out[conf.outs[k]]
    IN  /\ ToBeClosed(k) /\ b.open /\ ~b.err /\ ~InFlight(k)
        /\ Holds(conf.outs[k], promised, Data(k))

ClosingInv ==
    /\ Busy => promised <= Len(taken) - 1
    /\ closer.pc = "exit" => closer.k = Len(conf.outs) + 1
    /\ closer.pc # "away" => \A k \in 1 .. Len(conf.outs) : InFile(k) \/ InBuffer(k)

(* What background does to the data of a writer that Close has not got to. *)
LEMMA BackgroundKeeps ==
    ASSUME LogTypeOK, NumbersInv, BackgroundStep, NEW k \in 1 .. Len(conf.outs),
           out[conf.outs[k]].open, ~out[conf.outs[k]].err, ~InFlight(k)
    PROVE  \/ Keeps(Data(k), out'[conf.outs[k]].file)
           \/ /\ out'[conf.outs[k]].open /\ ~out'[conf.outs[k]].err /\ ~InFlight(k)'
              /\ Keeps(Data(k), Data(k)')
<1> DEFINE o == conf.outs[k]
<1>1. /\ LogStep /\ UNCHANGED <<conf, closer, taken>> /\ bg.pc # "idle"
      /\ \A w \in Writers : w # Writer => out'[w] = out[w]
  BY BackgroundFrame DEF LogStep
<1>2. Keeps(Data(k), Data(k)) /\ o \in Writers
  BY DataFacts
<1>3. CASE out'[o] = out[o] /\ ~Flushing(k)'
  <2>1. Data(k) = out[o].file \o out[o].buf
    BY DEF InFlight, Data
  <2>2. Data(k)' = Data(k)
    BY <1>1, <1>3, <2>1 DEF Data
  <2> QED
    BY <1>2, <1>3, <2>2 DEF InFlight
<1>4. CASE k # bg.k
  <2>1. o # Writer
    BY <1>4, LogFacts, ConfFacts DEF Writer, LogTypeOK
  <2>2. ~Flushing(k)'
    BY <1>1, <1>4, DoneStep
  <2> QED
    BY <1>1, <1>2, <1>3, <2>1, <2>2
<1>5. CASE k = bg.k
  <2>1. o = Writer
    BY <1>5 DEF Writer
  <2>2. CASE Data(k)' = Data(k) /\ out'[o].open /\ ~out'[o].err
             /\ (InFlight(k)' => Data(k)' = out'[o].file)
    BY <1>2, <2>2
  <2>3. CASE PushLDJSON
    <3>1. Writer = "ldjson"
      BY <2>3 DEF PushLDJSON
    <3>2. /\ Proceed /\ out'[o].open /\ ~out'[o].err /\ Adds(Data(k), Units(bg.rec), Data(k)')
      BY <1>5, <2>1, <2>3, <3>1, LineAdded
    <3>3. ~Flushing(k)'
      BY <1>1, <3>2, ProceedFacts
    <3> QED
      BY <3>2, <3>3 DEF Adds, InFlight
  <2>4. CASE IndexStrings \/ PushTrace
    <3>1. out' = out /\ bg.pc = "push"
      BY <2>4 DEF IndexStrings, PushTrace, At
    <3>2. ~Flushing(k)'
      <4>1. CASE IndexStrings
        BY <4>1, IndexStringsFacts DEF Flushing
      <4>2. CASE PushTrace /\ Proceed
        BY <1>1, <4>2, ProceedFacts
      <4>3. CASE PushTrace /\ ~Proceed
        BY <4>3 DEF PushTrace, Flushing, LogTypeOK, BackgroundOK
      <4> QED
        BY <2>4, <4>1, <4>2, <4>3
    <3> QED
      BY <1>3, <3>1, <3>2
  <2>5. CASE WriteUnit
    <3>1. /\ out'[o].open /\ ~out'[o].err /\ bg'.pc = "write"
          /\ Adds(Data(k), <<Units(bg.rec)[bg.part]>>, Data(k)')
      BY <1>5, <2>1, <2>5, UnitAdded
    <3> QED
      BY <3>1 DEF Adds, InFlight, Flushing
  <2>6. CASE WriteFails
    BY <2>1, <2>6 DEF WriteFails
  <2>7. CASE (WriteToFull \/ RecordWritten) /\ StartFlush
    <3>1. bg.pc = "write"
      BY <2>7 DEF WriteToFull, RecordWritten, WriteMore, At
    <3>2. /\ Data(k)' = Data(k) /\ out'[o].open /\ ~out'[o].err
          /\ bg'.n # 0 => Data(k)' = out'[o].file
      BY <1>1, <1>5, <2>1, <2>7, <3>1, StartFlushKeeps
    <3> QED
      BY <1>2, <3>2 DEF InFlight
  <2>8. CASE RecordWritten /\ ~StartFlush
    <3>1. Proceed /\ out' = out
      BY <2>8 DEF RecordWritten
    <3>2. ~Flushing(k)'
      BY <1>1, <3>1, ProceedFacts
    <3> QED
      BY <1>3, <3>1, <3>2
  <2>9. CASE FlushReturns
    <3>1. bg.pc = "flushing" /\ bg.n = 0
      BY <1>5, <2>9 DEF FlushReturns, At, InFlight, Flushing
    <3>2. ~Flushing(k)'
      <4>1. CASE Proceed
        BY <1>1, <4>1, ProceedFacts
      <4>2. CASE ~Proceed
        BY <2>9, <4>2 DEF FlushReturns, Flushing, LogTypeOK, BackgroundOK
      <4> QED
        BY <4>1, <4>2
    <3>3. Data(k)' = Data(k) /\ out'[o].open /\ ~out'[o].err
      BY <1>5, <2>1, <2>9, <3>1, <3>2, FlushReturnsKeeps
    <3> QED
      BY <1>2, <3>2, <3>3 DEF InFlight
  <2> QED
    BY <2>3, <2>4, <2>5, <2>6, <2>7, <2>8, <2>9 DEF BackgroundStep, WriteToFull
<1> QED
  BY <1>4, <1>5

(* What Close does to them: it flushes them, and nothing before.           *)
LEMMA CloseKeeps ==
    ASSUME LogTypeOK, CloseStep, NEW k \in 1 .. Len(conf.outs), ToBeClosed(k),
           out[conf.outs[k]].open, ~out[conf.outs[k]].err, ~InFlight(k)
    PROVE  \/ Keeps(Data(k), out'[conf.outs[k]].file)
           \/ /\ ToBeClosed(k)' /\ out'[conf.outs[k]] = out[conf.outs[k]]
              /\ ~InFlight(k)' /\ Data(k)' = Data(k)
<1> DEFINE o == conf.outs[k]
           b == out[o]
<1>1. /\ o \in Writers /\ out = [w \in Writers |-> out[w]] /\ b \in Buffers(RecordsOf(o))
      /\ Keeps(Data(k), Data(k)) /\ Len(conf.outs) \in Nat
      /\ closer \in [pc : {"away", "close", "flushing", "fd", "exit"}, k : Nat, n : Nat]
      /\ closer.pc # "exit" => closer.k \in 1 .. Len(conf.outs)
  BY DataFacts, LogFacts DEF LogTypeOK, OutOK, CloserOK
<1>2. Data(k) = b.file \o b.buf
  BY DEF InFlight, Data
<1>3. UNCHANGED <<conf, bg, taken>>
  BY DEF CloseStep, CloseLDJSON, CloseFlushes, CloseFlushReturns, CloseDescriptor, MainReturns,
     logVars
<1>4. CASE closer.k = k /\ closer.pc = "close"
  <2>1. Closed = o
    BY <1>4 DEF Closed
  <2>2. FlushStart(b).file = b.file \o b.buf
    BY <1>1, FlushedAll
  <2>3. CASE CloseLDJSON
    <3> DEFINE c == [FlushStart(b) EXCEPT !.buf = << >>, !.open = FALSE]
    <3>1. out'[o] = c
      BY <1>1, <2>1, <2>3 DEF CloseLDJSON
    <3>2. c.file = FlushStart(b).file
      BY <1>1, ShutType
    <3> QED
      BY <1>1, <1>2, <2>2, <3>1, <3>2
  <2>4. CASE CloseFlushes
    <3>1. out'[o] = FlushStart(b)
      BY <1>1, <2>1, <2>4 DEF CloseFlushes
    <3> QED
      BY <1>1, <1>2, <2>2, <3>1
  <2> QED
    BY <1>4, <2>3, <2>4 DEF CloseStep, CloseFlushReturns, CloseDescriptor, MainReturns, Closing
<1>5. CASE ~(closer.k = k /\ closer.pc = "close")
  <2>1. closer.k < k
    BY <1>5 DEF ToBeClosed
  <2>2. closer.pc # "exit" => o # Closed
    BY <1>1, <2>1, ConfFacts DEF Closed, LogTypeOK
  <2>3. out'[o] = out[o]
    <3>1. CASE MainReturns
      BY <3>1 DEF MainReturns, logVars
    <3>2. CASE ~MainReturns
      <4>1. closer.pc # "exit"
        BY <3>2 DEF CloseStep, CloseLDJSON, CloseFlushes, CloseFlushReturns, CloseDescriptor, Closing
      <4>2. \E c : out' = [out EXCEPT ![Closed] = c]
        BY <3>2 DEF CloseStep, CloseLDJSON, CloseFlushes, CloseFlushReturns, CloseDescriptor
      <4> QED
        BY <1>1, <2>2, <4>1, <4>2
    <3> QED
      BY <3>1, <3>2
  <2>4. ToBeClosed(k)'
    <3>1. CASE CloseLDJSON \/ CloseDescriptor
      <4>1. NextWriter /\ closer.k \in Nat /\ k \in 1 .. Len(conf.outs) /\ Len(conf.outs) \in Nat
        BY <1>1, <3>1 DEF CloseLDJSON, CloseDescriptor
      <4>2. closer.k < Len(conf.outs)
        BY <2>1, <4>1
      <4>3. closer'.pc = "close" /\ closer'.k = closer.k + 1
        BY <4>1, <4>2 DEF NextWriter
      <4> QED
        BY <2>1, <4>1, <4>3 DEF ToBeClosed
    <3>2. CASE CloseFlushes \/ CloseFlushReturns \/ MainReturns
      <4>1. closer'.k = closer.k
        BY <1>1, <3>2 DEF CloseFlushes, CloseFlushReturns, MainReturns, logVars
      <4> QED
        BY <2>1, <4>1 DEF ToBeClosed
    <3> QED
      BY <3>1, <3>2 DEF CloseStep
  <2>5. ~InFlight(k)'
    BY <1>3 DEF InFlight, Flushing
  <2>6. Data(k)' = Data(k)
    <3>1. Data(k)' = out'[o].file \o out'[o].buf
      BY <1>3, <2>5 DEF Data, InFlight
    <3> QED
      BY <1>2, <2>3, <3>1
  <2> QED
    BY <2>3, <2>4, <2>5, <2>6
<1> QED
  BY <1>4, <1>5

(* Nothing is promised any more.                                           *)
LEMMA PromisedStep ==
    ASSUME LogTypeOK, NumbersInv, LogStep, Busy => promised <= Len(taken) - 1
    PROVE  /\ Busy' => promised' <= Len(taken') - 1
           /\ closer.pc # "away" => promised' = promised /\ closer'.pc # "away"
<1>1. Len(taken) \in Nat /\ promised \in 0 .. Len(taken)
  BY LogFacts
<1>2. closer.pc # "away" => closer'.pc # "away"
  BY StaysAway
<1>3. CASE \E r \in Results : Receive(r)
  <2>1. Len(taken') = Len(taken) + 1 /\ promised' = promised
    <3>1. PICK r \in Results : Receive(r)
      BY <1>3
    <3>2. taken' = Append(taken, r) /\ promised' = promised
      BY <3>1 DEF Receive
    <3> QED
      BY <3>2, TakenFacts, AppendProperties
  <2> QED
    BY <1>1, <1>2, <2>1
<1>4. CASE BackgroundStep
  <2>1. UNCHANGED <<taken, closer>> /\ Busy
    BY <1>4, BackgroundFrame DEF Busy
  <2>2. CASE Proceed
    BY <1>2, <2>1, <2>2 DEF Proceed, IdleBackground, Busy
  <2>3. CASE promised' = promised
    BY <1>2, <2>1, <2>3
  <2> QED
    BY <1>4, <2>2, <2>3, BackgroundFrame
<1>5. CASE RunReturns \/ CloseStep \/ UNCHANGED <<conf, logVars>>
  <2>1. UNCHANGED <<bg, taken, promised>>
    BY <1>5 DEF RunReturns, CloseStep, CloseLDJSON, CloseFlushes, CloseFlushReturns, CloseDescriptor,
       MainReturns, logVars
  <2> QED
    BY <1>2, <2>1 DEF Busy
<1> QED
  BY <1>3, <1>4, <1>5 DEF LogStep

(* The promised results are in data that only grow.                        *)
LEMMA PromisedKept ==
    ASSUME LogTypeOK, NumbersInv, LogStep, Busy => promised <= Len(taken) - 1, promised' = promised,
           NEW k \in 1 .. Len(conf.outs), NEW d, NEW e, Len(d) \in Nat, Len(e) \in Nat, Keeps(d, e),
           Holds(conf.outs[k], promised, d)
    PROVE  Holds(conf.outs[k], promised, e)'
<1>1. Len(taken) \in Nat /\ promised \in 0 .. Len(taken) /\ conf' = conf
  BY LogFacts, TakenStep
<1>2. promised <= Done(k)
  BY <1>1 DEF Done, Busy
<1>3. PICK n \in 0 .. Len(taken) : n = promised
  BY <1>1
<1>4. Holds(conf.outs[k], n, e)'
  <2>1. Holds(conf.outs[k], n, d) /\ n <= Done(k)
    BY <1>2, <1>3
  <2> QED
    BY <1>1, <2>1, HoldsKept
<1> QED
  BY <1>1, <1>3, <1>4

(* The lengths after a step, typed.                                        *)
LEMMA NextLengths ==
    ASSUME LogTypeOK', conf' = conf, NEW k \in 1 .. Len(conf.outs)
    PROVE  Len(out'[conf.outs[k]].file) \in Nat /\ Len(Data(k)') \in Nat
<1> DEFINE o == conf.outs[k]
<1>1. o \in Writers
  BY ConfFacts DEF LogTypeOK
<1>2. PICK R : out'[o] \in Buffers(R)
  BY <1>1 DEF LogTypeOK, OutOK
<1>3. out'[o].file \in Seq(Cells(R)) /\ out'[o].buf \in Seq(Cells(R))
  BY <1>2 DEF Buffers
<1>4. Data(k)' \in Seq(Cells(R))
  BY <1>3, ConcatProperties DEF Data
<1> QED
  BY <1>3, <1>4, LenProperties

(* While the output is closed no step loses what was promised.             *)
LEMMA ClosingStep ==
    ASSUME LogTypeOK, NumbersInv, OpenInv, ClosingInv, LogStep
    PROVE  ClosingInv'
<1>1. conf' = conf /\ Len(taken) \in Nat /\ promised \in 0 .. Len(taken) /\ LogTypeOK'
  BY TakenStep, LogFacts, LogTypeStep
<1>2. /\ Busy' => promised' <= Len(taken') - 1
      /\ closer.pc # "away" => promised' = promised /\ closer'.pc # "away"
  BY PromisedStep DEF ClosingInv
<1>3. closer'.pc = "exit" => closer'.k = Len(conf.outs) + 1
  <2>1. CASE CloseStep
    <3>1. CASE CloseLDJSON \/ CloseDescriptor
      <4>1. NextWriter /\ closer.k \in 1 .. Len(conf.outs) /\ Len(conf.outs) \in Nat
        BY <3>1, LogFacts DEF CloseLDJSON, CloseDescriptor, Closing, LogTypeOK, CloserOK
      <4> QED
        BY <4>1 DEF NextWriter
    <3>2. CASE CloseFlushes \/ CloseFlushReturns
      <4>1. closer'.pc # "exit"
        BY <3>2 DEF CloseFlushes, CloseFlushReturns, LogTypeOK, CloserOK
      <4> QED
        BY <4>1
    <3>3. CASE MainReturns
      BY <3>3 DEF MainReturns, logVars, ClosingInv
    <3> QED
      BY <2>1, <3>1, <3>2, <3>3 DEF CloseStep
  <2>2. CASE RunReturns
    BY <2>2 DEF RunReturns, LogTypeOK, CloserOK
  <2>3. CASE closer' = closer
    BY <2>3 DEF ClosingInv
  <2> QED
    BY <2>1, <2>2, <2>3, BackgroundFrame DEF LogStep, Receive, logVars
<1>4. ASSUME closer'.pc # "away", NEW k \in 1 .. Len(conf.outs)
      PROVE  InFile(k)' \/ InBuffer(k)'
  <2> DEFINE o == conf.outs[k]
  <2>1. /\ o \in Writers /\ Len(Data(k)) \in Nat /\ Keeps(Data(k), Data(k))
        /\ out[o] \in Buffers(RecordsOf(o))
    BY DataFacts
  <2>2. Len(out[o].file) \in Nat /\ Len(out'[o].file) \in Nat /\ Len(Data(k)') \in Nat
    BY <1>1, <2>1, NextLengths, LenProperties DEF Buffers
  <2>3. Busy => promised <= Len(taken) - 1
    BY DEF ClosingInv
  <2>4. ASSUME promised' = promised,
               NEW d, NEW e, Len(d) \in Nat, Len(e) \in Nat, Keeps(d, e), Holds(o, promised, d)
        PROVE  Holds(o, promised, e)'
    BY <2>3, <2>4, PromisedKept
  <2>5. CASE closer.pc = "away"
    <3>1. RunReturns
      BY <1>4, <2>5, BackgroundFrame DEF LogStep, Receive, logVars, CloseStep, CloseLDJSON,
         CloseFlushes, CloseFlushReturns, CloseDescriptor, MainReturns, Closing
    <3>2. /\ UNCHANGED <<out, bg, taken, promised>> /\ closer'.pc = "close" /\ closer'.k = closer.k
      BY <3>1 DEF RunReturns, LogTypeOK, CloserOK
    <3>3. OpenWriter(k) /\ closer.k = 1 /\ promised = IF Busy THEN Len(taken) - 1 ELSE Len(taken)
      BY <2>5 DEF OpenInv
    <3>4. Holds(o, promised, Data(k))
      <4>1. Holds(o, Done(k), Data(k)) /\ promised \in Nat /\ promised <= Done(k) /\ Done(k) \in Int
        BY <1>1, <3>3 DEF OpenWriter, Done, Busy
      <4>2. \A i \in 1 .. promised : i \in 1 .. Done(k)
        BY <4>1
      <4> QED
        BY <4>1, <4>2 DEF Holds
    <3>5. PICK d : d = Data(k)
      OBVIOUS
    <3>6. Holds(o, promised, d)'
      BY <2>1, <2>4, <3>2, <3>4, <3>5
    <3>7. Data(k)' = d /\ (InFlight(k)' <=> InFlight(k))
      BY <1>1, <3>2, <3>5 DEF Data, Flushing, InFlight
    <3>8. CASE InFlight(k)
      <4>1. out[o].file = d
        BY <3>5, <3>8 DEF InFlight, Data
      <4> QED
        BY <1>1, <3>2, <3>6, <4>1 DEF InFile
    <3>9. CASE ~InFlight(k)
      <4>1. out[o].open /\ ~out[o].err
        BY <3>3 DEF OpenWriter
      <4>2. ToBeClosed(k)'
        BY <3>2, <3>3 DEF ToBeClosed
      <4> QED
        BY <1>1, <3>2, <3>6, <3>7, <3>9, <4>1, <4>2 DEF InBuffer
    <3> QED
      BY <3>8, <3>9
  <2>6. CASE closer.pc # "away" /\ InFile(k)
    <3>1. PICK e : e = out'[o].file
      OBVIOUS
    <3>2. Holds(o, promised, out[o].file) /\ Keeps(out[o].file, e) /\ promised' = promised
      BY <1>2, <2>1, <2>6, <3>1, FilesGrow DEF InFile
    <3>3. Holds(o, promised, e)'
      BY <2>2, <2>4, <3>1, <3>2
    <3> QED
      BY <1>1, <3>1, <3>3 DEF InFile
  <2>7. CASE closer.pc # "away" /\ InBuffer(k)
    <3>1. /\ ToBeClosed(k) /\ out[o].open /\ ~out[o].err /\ ~InFlight(k)
          /\ Holds(o, promised, Data(k)) /\ promised' = promised
      BY <1>2, <2>7 DEF InBuffer
    <3>2. \/ Keeps(Data(k), out'[o].file)
          \/ /\ ToBeClosed(k)' /\ out'[o].open /\ ~out'[o].err /\ ~InFlight(k)'
             /\ Keeps(Data(k), Data(k)')
      <4>1. CASE BackgroundStep
        <5>1. ToBeClosed(k)'
          BY <3>1, <4>1, BackgroundFrame DEF ToBeClosed
        <5> QED
          BY <3>1, <4>1, <5>1, BackgroundKeeps
      <4>2. CASE CloseStep
        BY <2>1, <3>1, <4>2, CloseKeeps
      <4>3. CASE (\E r \in Results : Receive(r)) \/ UNCHANGED <<conf, logVars>>
        <5>1. out' = out /\ closer' = closer
          BY <4>3 DEF Receive, logVars
        <5>2. ~InFlight(k)'
          <6>1. CASE \E r \in Results : Receive(r)
            BY <6>1, DoneStep DEF Receive, At, InFlight
          <6>2. CASE UNCHANGED <<conf, logVars>>
            BY <3>1, <6>2 DEF logVars, InFlight, Flushing
          <6> QED
            BY <4>3, <6>1, <6>2
        <5>3. Data(k)' = Data(k)
          BY <1>1, <3>1, <5>1, <5>2 DEF Data, InFlight
        <5> QED
          BY <2>1, <3>1, <5>1, <5>2, <5>3 DEF ToBeClosed
      <4>4. ~RunReturns
        BY <2>7 DEF RunReturns, Closing
      <4> QED
        BY <4>1, <4>2, <4>3, <4>4 DEF LogStep
    <3>3. CASE Keeps(Data(k), out'[o].file)
      <4>1. PICK e : e = out'[o].file
        OBVIOUS
      <4>2. Holds(o, promised, e)'
        BY <2>1, <2>2, <2>4, <3>1, <3>3, <4>1
      <4> QED
        BY <1>1, <4>1, <4>2 DEF InFile
    <3>4. CASE /\ ToBeClosed(k)' /\ out'[o].open /\ ~out'[o].err /\ ~InFlight(k)'
               /\ Keeps(Data(k), Data(k)')
      <4>1. PICK e : e = Data(k)'
        OBVIOUS
      <4>2. Holds(o, promised, e)'
        BY <2>1, <2>2, <2>4, <3>1, <3>4, <4>1
      <4> QED
        BY <1>1, <3>4, <4>1, <4>2 DEF InBuffer
    <3> QED
      BY <3>2, <3>3, <3>4
  <2> QED
    BY <2>5, <2>6, <2>7 DEF ClosingInv
<1> QED
  BY <1>1, <1>2, <1>3, <1>4 DEF ClosingInv

(* No result, no data at the start.                                        *)
LEMMA DataInit ==
    ASSUME conf \in Confs, ResultLogInit
    PROVE  NumbersInv /\ OpenInv /\ ClosingInv
<1>1. /\ out = [o \in Writers |-> [buf |-> << >>, file |-> << >>, open |-> TRUE, err |-> FALSE]]
      /\ index = Load(InputStrings) /\ bg.pc = "idle" /\ closer.pc = "away" /\ closer.k = 1
      /\ taken = << >> /\ promised = 0
  BY DEF ResultLogInit, IdleBackground
<1>2. Len(taken) = 0
  BY <1>1, EmptySeq
<1>3. NumbersInv
  <2>1. InputStrings \in Seq(Lines)
    BY ProcessAssumption
  <2>2. /\ index \in Seq(Strings) /\ Len(index) = Len(InputStrings) + 1 /\ Len(InputStrings) \in Nat
        /\ index[1] = EmptyString /\ \A i \in 2 .. Len(InputStrings) + 1 : index[i] # EmptyString
    BY <1>1, <2>1, LoadType, LenProperties
  <2>3. Place(index, EmptyString) = 1
    <3>1. /\ Place(index, EmptyString) \in 0 .. Len(index)
          /\ Place(index, EmptyString) # 0 => index[Place(index, EmptyString)] = EmptyString
          /\ Place(index, EmptyString) = 0 => \A i \in 1 .. Len(index) : index[i] # EmptyString
      BY <2>2, PlaceFound
    <3> QED
      BY <2>2, <3>1
  <2>4. Idx(index, EmptyString) = 0
    <3>1. Idx(index, EmptyString) = (1 - 1) % IndexSpace
      BY <2>3 DEF Idx, Known
    <3>2. 0 % IndexSpace \in 0 .. 0
      BY ModShrinks, IndexSpaceAssumption
    <3> QED
      BY <3>1, <3>2
  <2> QED
    BY <1>2, <2>3, <2>4 DEF NumbersInv, Known
<1>4. ASSUME NEW k \in 1 .. Len(conf.outs)
      PROVE  OpenWriter(k)
  <2> DEFINE o == conf.outs[k]
  <2>1. out[o] = [buf |-> << >>, file |-> << >>, open |-> TRUE, err |-> FALSE]
    BY <1>1, ConfFacts
  <2>2. ~Recording(k) /\ ~Flushing(k) /\ Done(k) = 0
    BY <1>1, <1>2 DEF Recording, Flushing, Done
  <2>3. Len(Data(k)) = 0
    <3>1. Data(k) = << >> \o << >>
      BY <2>1, <2>2 DEF Data
    <3>2. << >> \in Seq({}) /\ << >> \o << >> = << >> /\ Len(<< >>) = 0
      BY EmptySeq, ConcatEmptySeq
    <3> QED
      BY <3>1, <3>2
  <2>4. Offset(o, Done(k) + 1) = 0
    <3>1. Offset(o, 1) = 0
      BY OffsetFacts
    <3> QED
      BY <2>2, <3>1
  <2>5. Holds(o, Done(k), Data(k))
    BY <2>2 DEF Holds
  <2> QED
    BY <2>1, <2>2, <2>3, <2>4, <2>5 DEF OpenWriter
<1> QED
  BY <1>1, <1>2, <1>3, <1>4 DEF OpenInv, ClosingInv, Busy

(* The main goroutine returns at the end of Close.                         *)
LEMMA ExitStep ==
    ASSUME [Next]_vars, outcome = "exited" => closer.pc = "exit"
    PROVE  outcome' = "exited" => closer'.pc = "exit"
<1>1. CASE outcome = "exited"
  <2>1. closer' = closer
    BY <1>1 DEF Next, InputAction, InputStep, ReadGood, ReadBad, ReadFatal, Exhausted, Problematic,
       Rewind, ReceiveSlot, WorkerStep, TakePayload, NoPayload, Unresolvable, DoBusy, NoSuchGroup,
       Push, OutputAction, RunEnds, CloseAction, ReaderAction, Tick, CacheRace, Killed, Kill, Panic,
       Receive, BackgroundStep, PushLDJSON, IndexStrings, PushTrace, WriteUnit, WriteMore, At,
       WriteFails, WriteToFull, FlushReturns, RecordWritten, RunReturns, CloseStep, CloseLDJSON,
       CloseFlushes, CloseFlushReturns, CloseDescriptor, MainReturns, Closing, Alive, Read, vars,
       logVars
  <2> QED
    BY <1>1, <2>1
<1>2. CASE outcome # "exited" /\ outcome' = "exited"
  <2>1. MainReturns
    BY <1>2 DEF Next, InputAction, InputStep, ReadGood, ReadBad, ReadFatal, Exhausted, Problematic,
       Rewind, ReceiveSlot, WorkerStep, TakePayload, NoPayload, Unresolvable, DoBusy, NoSuchGroup,
       Push, OutputAction, RunEnds, CloseAction, ReaderAction, Tick, CacheRace, Killed, Kill, Panic,
       Receive, BackgroundStep, PushLDJSON, IndexStrings, PushTrace, WriteUnit, WriteFails,
       WriteToFull, FlushReturns, RecordWritten, RunReturns, CloseStep, CloseLDJSON, CloseFlushes,
       CloseFlushReturns, CloseDescriptor, Read, vars, processVars
  <2> QED
    BY <2>1 DEF MainReturns, Closing, logVars
<1> QED
  BY <1>1, <1>2

(* After Close every file starts with all the results that background was  *)
(* done with when Close began, each in its place, whole and with the       *)
(* numbers of its strings, in every order of the steps of background and   *)
(* of Close: what background adds while Close flushes may be lost or cut,  *)
(* but never what was promised.                                            *)
THEOREM FilesComplete == Spec => []ClosedComplete
<1> DEFINE AtExit == outcome = "exited" => closer.pc = "exit"
           Inv == NumbersInv /\ OpenInv /\ ClosingInv /\ AtExit
<1>1. Init => Inv
  BY DataInit DEF Init
<1>2. WorkTypeOK /\ LogTypeOK /\ Inv /\ [Next]_vars => Inv'
  BY WorkTypeStep, NumbersStep, OpenStep, ClosingStep, ExitStep
<1>3. LogTypeOK /\ Inv => ClosedComplete
  <2> SUFFICES ASSUME LogTypeOK, Inv, outcome = "exited",
                      NEW k \in DOMAIN conf.outs, NEW i \in 1 .. promised, Recorded(conf.outs[k], taken[i])
               PROVE  InData(conf.outs[k], i, out[conf.outs[k]].file)
    BY DEF ClosedComplete
  <2>1. k \in 1 .. Len(conf.outs) /\ Len(conf.outs) \in Nat
    BY ConfFacts DEF LogTypeOK
  <2>2. closer.pc = "exit" /\ closer.k = Len(conf.outs) + 1
    BY DEF ClosingInv
  <2>3. ~ToBeClosed(k)
    BY <2>1, <2>2 DEF ToBeClosed
  <2>4. InFile(k)
    BY <2>1, <2>2, <2>3 DEF ClosingInv, InBuffer
  <2> QED
    BY <2>4 DEF InFile, Holds
<1> QED
  BY <1>1, <1>2, <1>3, PipelineTypes, PTL DEF Spec
-----------------------------------------------------------------------------
(* What the files hold: the results of the past seconds                    *)

(* The clock has started: a result is never of the second 0, which is what *)
(* BinaryOut.lastTS says before the first.                                 *)
TimesInv ==
    /\ clock >= 1
    /\ \A w \in Workers : worker[w].pc = "push" => worker[w].item.ts >= 1
    /\ \A i \in 1 .. Len(taken) : taken[i].ts >= 1

(* A result has the time of the clock at its hit.                          *)
LEMMA TimesStep ==
    ASSUME WorkTypeOK, LogTypeOK, TimesInv, [Next]_vars
    PROVE  TimesInv'
<1>1. /\ worker = [w \in Workers |-> worker[w]] /\ clock \in Nat
      /\ \A w \in Workers : worker[w] = [pc |-> worker[w].pc, item |-> worker[w].item,
                                         value |-> worker[w].value]
  BY DEF WorkTypeOK, WorkerOK
<1>2. CASE \E w \in Workers : DoBusy(w)
  <2>1. PICK w \in Workers : DoBusy(w)
    BY <1>2
  <2>2. PICK r : /\ worker' = [worker EXCEPT ![w] = r] /\ r.item.ts = clock
                 /\ clock' = clock /\ taken' = taken
    BY <2>1 DEF DoBusy, logVars
  <2>3. \A v \in Workers : worker'[v] = IF v = w THEN r ELSE worker[v]
    BY <1>1, <2>1, <2>2
  <2> QED
    BY <2>1, <2>2, <2>3 DEF TimesInv
<1>3. CASE \E w \in Workers : Push(w)
  <2>1. PICK w \in Workers : Push(w)
    BY <1>3
  <2> DEFINE r == [worker[w] EXCEPT !.pc = "loop", !.item = << >>]
  <2>2. /\ worker[w].pc = "push" /\ worker' = [worker EXCEPT ![w] = r]
        /\ taken' = Append(taken, worker[w].item) /\ clock' = clock
    BY <2>1 DEF Push, AtWorker, Receive
  <2>3. r.pc # "push"
    BY <1>1, <2>1
  <2> HIDE DEF r
  <2>4. \A v \in Workers : worker'[v] = IF v = w THEN r ELSE worker[v]
    BY <1>1, <2>1, <2>2
  <2>5. \A v \in Workers : worker'[v].pc = "push" => worker'[v].item.ts >= 1
    BY <2>3, <2>4 DEF TimesInv
  <2>6. worker[w].item \in Results /\ worker[w].item.ts >= 1
    BY <2>1, <2>2 DEF TimesInv, WorkTypeOK, WorkerOK
  <2>7. \A i \in 1 .. Len(taken') : taken'[i].ts >= 1
    <3>1. /\ Len(taken') = Len(taken) + 1 /\ Len(taken) \in Nat
          /\ taken'[Len(taken) + 1] = worker[w].item
          /\ \A i \in 1 .. Len(taken) : taken'[i] = taken[i]
      BY <2>2, <2>6, TakenFacts, AppendProperties
    <3> QED
      BY <2>6, <3>1 DEF TimesInv
  <2> QED
    BY <2>2, <2>5, <2>7 DEF TimesInv
<1>4. CASE \E w \in Workers : ReceiveSlot(w) \/ TakePayload(w) \/ NoPayload(w)
  <2>1. PICK w \in Workers : ReceiveSlot(w) \/ TakePayload(w) \/ NoPayload(w)
    BY <1>4
  <2>2. UNCHANGED <<clock, taken>>
    BY <2>1 DEF ReceiveSlot, TakePayload, NoPayload, logVars
  <2>3. \E r : worker' = [worker EXCEPT ![w] = r] /\ r.pc # "push"
    <3>1. CASE ReceiveSlot(w) \/ NoPayload(w)
      <4>1. PICK pc \in {"payload", "finished"} : worker' = [worker EXCEPT ![w].pc = pc]
        BY <3>1 DEF ReceiveSlot, NoPayload, Goto
      <4>2. PICK r : r = [worker[w] EXCEPT !.pc = pc]
        OBVIOUS
      <4>3. worker' = [worker EXCEPT ![w] = r]
        BY <4>1, <4>2
      <4>4. PICK q : q = worker[w]
        OBVIOUS
      <4>5. q = [pc |-> q.pc, item |-> q.item, value |-> q.value]
        BY <1>1, <4>4
      <4>6. r.pc = pc
        BY <4>2, <4>4, <4>5
      <4> QED
        BY <4>1, <4>3, <4>6
    <3>2. CASE TakePayload(w)
      <4>1. worker' = [worker EXCEPT ![w].pc = "hit", ![w].item = Item(InputOf(w))]
        BY <3>2 DEF TakePayload
      <4>2. worker' = [worker EXCEPT ![w] = [worker[w] EXCEPT !.pc = "hit", !.item = Item(InputOf(w))]]
        BY <4>1
      <4>3. PICK x, q : x = Item(InputOf(w)) /\ q = worker[w]
        OBVIOUS
      <4>4. q = [pc |-> q.pc, item |-> q.item, value |-> q.value]
        BY <1>1, <2>1, <4>3
      <4>5. [q EXCEPT !.pc = "hit", !.item = x].pc = "hit"
        BY <4>4
      <4> QED
        BY <4>2, <4>3, <4>5
    <3> QED
      BY <2>1, <3>1, <3>2
  <2> QED
    BY <1>1, <2>1, <2>2, <2>3 DEF TimesInv
<1>5. CASE Tick
  <2>1. clock' = clock + 1 /\ UNCHANGED <<worker, taken>>
    BY <1>5 DEF Tick, logVars
  <2> QED
    BY <1>1, <2>1 DEF TimesInv
<1>6. CASE UNCHANGED <<worker, clock, taken>>
  BY <1>6 DEF TimesInv
<1>7. (\E i \in Workers : InputAction(i)) \/ (\E w \in Workers : Unresolvable(w) \/ NoSuchGroup(w))
      \/ OutputAction \/ RunEnds \/ CloseAction \/ ReaderAction \/ CacheRace \/ Killed
      \/ UNCHANGED vars => UNCHANGED <<worker, clock, taken>>
  <2>1. OutputAction => taken' = taken
    BY DEF OutputAction, BackgroundStep, PushLDJSON, IndexStrings, PushTrace, WriteUnit,
       WriteFails, WriteToFull, FlushReturns, RecordWritten
  <2>2. (\E i \in Workers : InputAction(i)) => UNCHANGED <<worker, clock, taken>>
    BY DEF InputAction, workVars, logVars
  <2>3. (\E w \in Workers : Unresolvable(w) \/ NoSuchGroup(w)) => UNCHANGED <<worker, clock, taken>>
    BY DEF Unresolvable, NoSuchGroup, workVars, logVars
  <2>4. OutputAction \/ RunEnds \/ CloseAction => UNCHANGED <<worker, clock, taken>>
    BY <2>1 DEF OutputAction, RunEnds, RunReturns, CloseAction, CloseStep, CloseLDJSON, CloseFlushes,
       CloseFlushReturns, CloseDescriptor, MainReturns, workVars, logVars
  <2>5. CacheRace => UNCHANGED <<worker, clock, taken>>
    BY DEF CacheRace, workVars, logVars
  <2>6. ReaderAction \/ Killed \/ UNCHANGED vars => UNCHANGED <<worker, clock, taken>>
    BY DEF ReaderAction, Read, Killed, vars, workVars, logVars
  <2> QED
    BY <2>2, <2>3, <2>4, <2>5, <2>6
<1> QED
  BY <1>2, <1>3, <1>4, <1>5, <1>6, <1>7 DEF Next, WorkerStep

(* The results whose time the binary writer has looked at: not the one     *)
(* that it is writing.                                                     *)
Timed ==
    IF bg.k = 1 /\ bg.pc # "idle" /\ ~(bg.pc = "flushing" /\ bg.part > RecordLen)
    THEN Len(taken) - 1 ELSE Len(taken)

FirstOfSecond(i) == \A j \in 1 .. i - 1 : taken[j].ts < taken[i].ts

SecondInv ==
    Format = "binary" /\ closer.pc = "away" =>
        /\ lastTS = 0 \/ \E j \in 1 .. Timed : lastTS = taken[j].ts
        /\ \A j \in 1 .. Timed : taken[j].ts <= lastTS
        /\ \A i \in 1 .. Timed : FirstOfSecond(i) => i * RecordLen <= Len(ResultsFile)

(* While the output is open, background looks at a time when it has        *)
(* written a record, and in no other step.                                 *)
LEMMA TimedStep ==
    ASSUME LogTypeOK, NumbersInv, LogStep, Format = "binary", closer'.pc = "away"
    PROVE  \/ Timed' = Timed /\ lastTS' = lastTS
           \/ /\ RecordWritten /\ bg.k = 1 /\ Timed = Len(taken) - 1 /\ Timed' = Len(taken)
<1>1. /\ bg.k \in 1 .. Len(conf.outs) /\ bg.part \in 1 .. RecordLen + 1 /\ RecordLen \in Nat
      /\ Len(taken) \in Nat /\ Len(conf.outs) \in Nat \ {0}
      /\ bg = [pc |-> bg.pc, k |-> bg.k, part |-> bg.part, n |-> bg.n, rec |-> bg.rec]
  BY LogFacts DEF LogTypeOK, BackgroundOK
<1>2. Writer = "binary" <=> bg.k = 1
  BY <1>1, ConfFacts DEF Writer, Format, LogTypeOK
<1>3. CASE \E r \in Results : Receive(r)
  <2>1. /\ bg.pc = "idle" /\ bg'.pc = "push" /\ bg'.k = 1 /\ lastTS' = lastTS
        /\ Len(taken') = Len(taken) + 1
    <3>1. PICK r \in Results : Receive(r)
      BY <1>3
    <3>2. /\ bg.pc = "idle" /\ bg'.pc = "push" /\ bg'.k = 1 /\ lastTS' = lastTS
          /\ taken' = Append(taken, r)
      BY <3>1 DEF Receive, At, IdleBackground
    <3> QED
      BY <3>2, TakenFacts, AppendProperties
  <2> QED
    BY <1>1, <2>1 DEF Timed
<1>4. CASE UNCHANGED <<conf, logVars>>
  BY <1>4 DEF Timed, logVars
<1>5. CASE BackgroundStep
  <2>1. UNCHANGED <<conf, taken>> /\ bg.pc # "idle"
    BY <1>5, BackgroundFrame
  <2>2. ASSUME Proceed
        PROVE  Timed' = Len(taken)
    <3>1. bg' = IdleBackground \/ (bg'.pc = "push" /\ bg'.k = bg.k + 1)
      BY <2>1, <2>2, ProceedFacts
    <3>2. bg'.pc = "idle" \/ bg'.k # 1
      BY <1>1, <3>1 DEF IdleBackground
    <3> QED
      BY <2>1, <3>2 DEF Timed
  <2>3. CASE bg.k # 1
    <3>1. lastTS' = lastTS
      BY <1>2, <1>5, <2>3 DEF BackgroundStep, PushLDJSON, IndexStrings, PushTrace, WriteUnit,
         WriteFails, WriteToFull, FlushReturns, RecordWritten, NewSecond
    <3>2. Timed' = Len(taken)
      BY <1>5, <2>1, <2>2, <2>3, BackgroundFrame DEF Timed
    <3> QED
      BY <2>3, <3>1, <3>2 DEF Timed
  <2>4. CASE bg.k = 1
    <3>1. Writer = "binary"
      BY <1>2, <2>4
    <3>2. CASE IndexStrings
      <4>1. bg.pc = "push" /\ bg'.pc = "write" /\ bg'.k = bg.k /\ lastTS' = lastTS
        BY <3>2, IndexStringsFacts
      <4> QED
        BY <2>1, <4>1 DEF Timed
    <3>3. CASE WriteUnit \/ WriteFails
      <4>1. bg.pc = "write" /\ bg'.pc = "write" /\ bg'.k = bg.k /\ lastTS' = lastTS
        BY <1>1, <3>3 DEF WriteUnit, WriteFails, WriteMore, At
      <4> QED
        BY <2>1, <4>1 DEF Timed
    <3>4. CASE WriteToFull
      <4>1. /\ bg.pc = "write" /\ bg.part <= RecordLen /\ lastTS' = lastTS
            /\ bg'.pc = "flushing" /\ bg'.k = bg.k /\ bg'.part = bg.part
        BY <1>1, <3>4 DEF WriteToFull, WriteMore, At, StartFlush
      <4> QED
        BY <1>1, <2>1, <4>1 DEF Timed
    <3>5. CASE FlushReturns
      <4>1. bg.pc = "flushing" /\ lastTS' = lastTS
        BY <3>5 DEF FlushReturns, At
      <4>2. CASE bg.part <= RecordLen
        <5>1. bg'.pc = "write" /\ bg'.k = bg.k
          BY <1>1, <3>5, <4>2 DEF FlushReturns
        <5> QED
          BY <1>1, <2>1, <2>4, <4>1, <4>2, <5>1 DEF Timed
      <4>3. CASE ~(bg.part <= RecordLen)
        <5>1. Timed' = Len(taken)
          BY <2>2, <3>5, <4>3 DEF FlushReturns
        <5>2. bg.part > RecordLen
          BY <1>1, <4>3
        <5> QED
          BY <4>1, <5>1, <5>2 DEF Timed
      <4> QED
        BY <4>2, <4>3
    <3>6. CASE RecordWritten
      <4>1. bg.pc = "write" /\ bg.part > RecordLen
        BY <3>6 DEF RecordWritten, At
      <4>2. Timed' = Len(taken)
        <5>1. CASE Proceed
          BY <2>2, <5>1
        <5>2. CASE StartFlush
          <6>1. bg'.pc = "flushing" /\ bg'.part = bg.part
            BY <1>1, <5>2 DEF StartFlush
          <6> QED
            BY <2>1, <4>1, <6>1 DEF Timed
        <5> QED
          BY <3>6, <5>1, <5>2 DEF RecordWritten
      <4> QED
        BY <2>4, <3>6, <4>1, <4>2 DEF Timed
    <3> QED
      BY <1>5, <3>1, <3>2, <3>3, <3>4, <3>5, <3>6 DEF BackgroundStep, PushLDJSON, PushTrace
  <2> QED
    BY <2>3, <2>4
<1> QED
  BY <1>3, <1>4, <1>5, StaysAway

(* The binary writer records every result.                                 *)
LEMMA BinaryOffset ==
    ASSUME NEW i \in Nat \ {0}
    PROVE  /\ Offset("binary", i) + RecordLen = i * RecordLen
           /\ \A j \in 1 .. i : j * RecordLen <= i * RecordLen
<1>1. {j \in 1 .. i - 1 : Recorded("binary", taken[j])} = 1 .. i - 1
  BY DEF Recorded
<1>2. Cardinality(1 .. i - 1) = i - 1
  BY FS_Interval
<1>3. Offset("binary", i) = (i - 1) * RecordLen
  BY <1>1, <1>2 DEF Offset
<1>4. RecordLen \in Nat /\ i - 1 \in Nat /\ (i - 1) + 1 = i
  BY ResultLogAssumption
<1>5. ((i - 1) + 1) * RecordLen = (i - 1) * RecordLen + RecordLen
  BY <1>4, ProductGrows
<1>6. ASSUME NEW j \in 1 .. i
      PROVE  j * RecordLen <= i * RecordLen
  <2>1. j \in Nat /\ j <= i
    OBVIOUS
  <2> QED
    BY <1>4, <2>1, ProductGrows
<1> QED
  BY <1>3, <1>4, <1>5, <1>6

(* The first result of a second flushes the buffer, with itself in it.     *)
LEMMA SecondFlushed ==
    ASSUME LogTypeOK, OpenInv, TimesInv, SecondInv, RecordWritten, bg.k = 1,
           Format = "binary", closer.pc = "away", Timed = Len(taken) - 1,
           conf' = conf, taken' = taken, LogTypeOK'
    PROVE  LET n == Len(taken)
           IN  /\ n \in Nat \ {0}
               /\ \E j \in 1 .. n : lastTS' = taken[j].ts
               /\ \A j \in 1 .. n : taken[j].ts <= lastTS'
               /\ FirstOfSecond(n) => n * RecordLen <= Len(ResultsFile')
<1> DEFINE n == Len(taken)
<1>1. 1 \in 1 .. Len(conf.outs) /\ conf.outs[1] = "binary" /\ Writer = "binary" /\ bg.pc = "write"
      /\ bg.part = RecordLen + 1 /\ RecordLen \in Nat
  <2>1. bg.part \in 1 .. RecordLen + 1 /\ RecordLen \in Nat /\ Len(conf.outs) \in Nat \ {0}
    BY LogFacts
  <2> QED
    BY <2>1 DEF RecordWritten, At, Format, Writer
<1>2. OpenWriter(1) /\ bg.pc # "idle"
  BY <1>1 DEF OpenInv
<1>3. /\ n \in Nat \ {0} /\ bg.rec = Encoded("binary", taken[n])
      /\ Partial("binary", bg.rec, bg.part - 1, Data(1))
      /\ Data(1) = out["binary"].file \o out["binary"].buf
      /\ out["binary"].open /\ ~out["binary"].err /\ out["binary"] \in Buffers(RecordsOf("binary"))
      /\ out = [o \in Writers |-> out[o]] /\ "binary" \in Writers
  BY <1>1, <1>2, AtWriter
<1>4. taken[n] \in Results /\ bg.rec.ts = taken[n].ts
  <2>1. taken[n] \in Results
    BY <1>3, TakenFacts
  <2>2. PICK x, y : Encoded("binary", taken[n]) = [taken[n] EXCEPT !.label = x, !.error = y]
    BY DEF Encoded
  <2>3. PICK q : q = [taken[n] EXCEPT !.label = x, !.error = y]
    OBVIOUS
  <2>4. q.ts = taken[n].ts
    <3>1. PICK r : r = taken[n]
      OBVIOUS
    <3>2. r \in Results /\ q = [r EXCEPT !.label = x, !.error = y]
      BY <2>1, <2>3, <3>1
    <3>3. q = [label |-> x, error |-> y, ts |-> r.ts, status |-> r.status]
      BY <3>2, NumbersInRecord
    <3> QED
      BY <3>1, <3>3
  <2> QED
    BY <1>3, <2>1, <2>2, <2>3, <2>4
<1>5. /\ lastTS \in Nat
      /\ lastTS = 0 \/ \E j \in 1 .. n - 1 : lastTS = taken[j].ts
      /\ \A j \in 1 .. n - 1 : taken[j].ts <= lastTS
      /\ \A j \in 1 .. n : taken[j].ts \in Nat /\ taken[j].ts >= 1
  BY TakenFacts DEF SecondInv, TimesInv, LogTypeOK, Results
<1>6. CASE NewSecond
  <2>1. lastTS' = taken[n].ts /\ taken[n].ts > lastTS
    BY <1>4, <1>6 DEF RecordWritten, NewSecond
  <2>2. out' = [out EXCEPT !["binary"] = FlushStart(@)]
    BY <1>1, <1>6 DEF RecordWritten, StartFlush
  <2>3. ResultsFile' = Data(1)
    <3>1. out'["binary"] = FlushStart(out["binary"])
      BY <1>3, <2>2
    <3>2. FlushStart(out["binary"]).file = out["binary"].file \o out["binary"].buf
      BY <1>3, FlushedAll
    <3> QED
      BY <1>1, <1>3, <3>1, <3>2 DEF ResultsFile, Format
  <2>4. Len(Data(1)) = n * RecordLen
    <3>1. Len(Data(1)) = Offset("binary", n) + (bg.part - 1)
      BY <1>3 DEF Partial
    <3>2. Offset("binary", n) + RecordLen = n * RecordLen
      BY <1>3, BinaryOffset
    <3> QED
      BY <1>1, <3>1, <3>2
  <2>5. n * RecordLen \in Nat
    BY <1>1, <1>3, ProductGrows
  <2>6. \A j \in 1 .. n : taken[j].ts <= lastTS'
    BY <1>3, <1>5, <2>1
  <2> QED
    BY <1>3, <2>1, <2>3, <2>4, <2>5, <2>6
<1>7. CASE ~NewSecond
  <2>1. lastTS' = lastTS /\ taken[n].ts <= lastTS
    BY <1>1, <1>3, <1>4, <1>5, <1>7 DEF RecordWritten, NewSecond
  <2>2. lastTS # 0
    BY <1>3, <1>5, <2>1
  <2>3. PICK j \in 1 .. n - 1 : lastTS = taken[j].ts
    BY <1>5, <2>2
  <2>4. ~FirstOfSecond(n)
    BY <1>3, <1>5, <2>1, <2>3 DEF FirstOfSecond
  <2>5. \A i \in 1 .. n : taken[i].ts <= lastTS'
    BY <1>3, <1>5, <2>1
  <2> QED
    BY <1>3, <2>1, <2>3, <2>4, <2>5
<1> QED
  BY <1>6, <1>7

(* While the output is open no step loses the first result of a second.    *)
LEMMA SecondStep ==
    ASSUME LogTypeOK, LogTypeOK', NumbersInv, OpenInv, TimesInv, SecondInv, LogStep
    PROVE  SecondInv'
<1> SUFFICES ASSUME Format' = "binary", closer'.pc = "away"
             PROVE  SecondInv'
  BY DEF SecondInv
<1>1. conf' = conf /\ Format = "binary" /\ closer' = closer
  BY TakenStep, StaysAway DEF Format
<1>2. /\ Len(taken) \in Nat /\ \A i \in 1 .. Len(taken) : taken'[i] = taken[i]
      /\ Timed \in Int /\ Timed <= Len(taken)
  BY TakenStep, LogFacts DEF Timed
<1>3. /\ 1 \in 1 .. Len(conf.outs) /\ conf.outs[1] = "binary" /\ RecordLen \in Nat
      /\ \A i \in 1 .. Len(taken) : i * RecordLen \in Nat
  <2>1. Len(conf.outs) \in Nat \ {0} /\ RecordLen \in Nat
    BY LogFacts
  <2>2. \A i \in 1 .. Len(taken) : i * RecordLen \in Nat
    BY <1>2, <2>1, ProductGrows
  <2> QED
    BY <1>1, <2>1, <2>2 DEF Format
<1>4. /\ Len(ResultsFile) \in Nat /\ Len(ResultsFile') \in Nat
      /\ Len(ResultsFile) <= Len(ResultsFile')
      /\ ResultsFile' = out'["binary"].file
  <2>1. "binary" \in Writers /\ Keeps(out["binary"].file, out'["binary"].file)
    BY <1>3, DataFacts, FilesGrow
  <2>2. Len(out'["binary"].file) \in Nat
    BY <1>1, <1>3, NextLengths
  <2>3. Len(out["binary"].file) \in Nat
    BY <1>3, DataFacts, LenProperties
  <2> QED
    BY <1>1, <2>1, <2>2, <2>3 DEF Keeps, ResultsFile, Format
<1>5. /\ lastTS = 0 \/ \E j \in 1 .. Timed : lastTS = taken[j].ts
      /\ \A j \in 1 .. Timed : taken[j].ts <= lastTS
      /\ \A i \in 1 .. Timed : FirstOfSecond(i) => i * RecordLen <= Len(ResultsFile)
  BY <1>1 DEF SecondInv
<1>6. \A i \in 1 .. Len(taken) : FirstOfSecond(i)' <=> FirstOfSecond(i)
  BY <1>2 DEF FirstOfSecond
<1>7. \A i \in 1 .. Timed : FirstOfSecond(i)' => i * RecordLen <= Len(ResultsFile')
  BY <1>2, <1>3, <1>4, <1>5, <1>6
<1>8. CASE Timed' = Timed /\ lastTS' = lastTS
  <2>1. \A j \in 1 .. Timed : taken'[j] = taken[j]
    BY <1>2
  <2> QED
    BY <1>5, <1>7, <1>8, <2>1 DEF SecondInv
<1>9. CASE RecordWritten /\ bg.k = 1 /\ Timed = Len(taken) - 1 /\ Timed' = Len(taken)
  <2> DEFINE n == Len(taken)
  <2>1. taken' = taken
    BY <1>9 DEF RecordWritten
  <2>2. /\ n \in Nat \ {0}
        /\ \E j \in 1 .. n : lastTS' = taken[j].ts
        /\ \A j \in 1 .. n : taken[j].ts <= lastTS'
        /\ FirstOfSecond(n) => n * RecordLen <= Len(ResultsFile')
    BY <1>1, <1>9, <2>1, SecondFlushed
  <2>3. \A i \in 1 .. n : FirstOfSecond(i)' => i * RecordLen <= Len(ResultsFile')
    <3>1. \A i \in 1 .. n : i = n \/ i \in 1 .. Timed
      BY <1>2, <1>9
    <3>2. n \in 1 .. Len(taken)
      BY <2>2
    <3> QED
      BY <1>6, <1>7, <2>2, <3>1, <3>2
  <2> QED
    BY <1>9, <2>1, <2>2, <2>3 DEF SecondInv
<1> QED
  BY <1>1, <1>8, <1>9, TimedStep

(* Whenever background waits for a result, and the output is not being     *)
(* closed, the first result of every second is in the binary file: the     *)
(* writer flushes when the time of a result is greater than all before it. *)
THEOREM PastSecondsOnDisk == Spec => []SecondOnDisk
<1> DEFINE Inv == NumbersInv /\ OpenInv /\ ClosingInv /\ TimesInv /\ SecondInv
<1>1. Init => Inv
  <2> SUFFICES ASSUME Init
               PROVE  Inv
    OBVIOUS
  <2>1. NumbersInv /\ OpenInv /\ ClosingInv
    BY DataInit DEF Init
  <2>2. /\ clock = 1 /\ lastTS = 0 /\ bg.pc = "idle" /\ Len(taken) = 0
        /\ \A w \in Workers : worker[w].pc # "push"
    BY EmptySeq DEF Init, ResultLogInit, IdleBackground
  <2>3. TimesInv
    BY <2>2 DEF TimesInv
  <2>4. Timed = 0
    BY <2>2 DEF Timed
  <2>5. SecondInv
    BY <2>2, <2>4 DEF SecondInv
  <2> QED
    BY <2>1, <2>3, <2>5
<1>2. WorkTypeOK /\ LogTypeOK /\ LogTypeOK' /\ Inv /\ [Next]_vars => Inv'
  BY WorkTypeStep, NumbersStep, OpenStep, ClosingStep, TimesStep, SecondStep
<1>3. LogTypeOK /\ Inv => SecondOnDisk
  <2> SUFFICES ASSUME LogTypeOK, Inv, Format = "binary", closer.pc = "away", ~Busy,
                      NEW i \in DOMAIN taken, \A j \in 1 .. i - 1 : taken[j].ts < taken[i].ts
               PROVE  i * RecordLen <= Len(ResultsFile)
    BY DEF SecondOnDisk
  <2>1. Timed = Len(taken)
    BY DEF Timed, Busy
  <2>2. i \in 1 .. Timed
    BY <2>1, TakenFacts, LenProperties
  <2>3. FirstOfSecond(i)
    BY DEF FirstOfSecond
  <2> QED
    BY <2>2, <2>3 DEF SecondInv
<1> QED
  BY <1>1, <1>2, <1>3, PipelineTypes, PTL DEF Spec
-----------------------------------------------------------------------------
(* What the reader sees: multiples of the length of a record.  The rest of *)
(* the module proves that Pipeline implements ResultStream: the reader     *)
(* cuts the file into records where they end (Framing), and what it has    *)
(* seen and kept is the file up to its offset (ReaderInv).                 *)

Multiple(p) == \E j \in Nat : p = j * RecordLen

(* Products with a length.                                                 *)
LEMMA Products ==
    ASSUME NEW n \in Nat \ {0}, NEW a \in Nat, NEW b \in Nat
    PROVE  /\ a * n \in Nat /\ b * n \in Nat
           /\ (a + 1) * n = a * n + n /\ (a + b) * n = a * n + b * n
           /\ a <= b => a * n <= b * n
           /\ a < b => a * n + n <= b * n
<1>1. a * n \in Nat /\ b * n \in Nat /\ (a + 1) * n = a * n + n /\ (a + b) * n = a * n + b * n
  OBVIOUS
<1>2. a <= b => a * n <= b * n
  BY ProductGrows
<1>3. a < b => (a + 1) * n <= b * n
  <2>1. a + 1 \in Nat /\ (a < b => a + 1 <= b)
    OBVIOUS
  <2> QED
    BY <2>1, ProductGrows
<1> QED
  BY <1>1, <1>2, <1>3

(* Products in the same order as their factors.                            *)
LEMMA Factors ==
    ASSUME NEW n \in Nat \ {0}, NEW a \in Nat, NEW b \in Nat
    PROVE  /\ a * n < b * n + n => a <= b
           /\ a * n < b * n => a < b
           /\ a * n <= b * n => a <= b
           /\ a * n = b * n => a = b
           /\ b * n < a * n /\ a * n <= b * n + n => a = b + 1
<1>1. /\ a * n \in Nat /\ b * n \in Nat
      /\ b < a => b * n + n <= a * n
      /\ a < b => a * n + n <= b * n
      /\ b <= a => b * n <= a * n
      /\ a <= b => a * n <= b * n
  BY Products
<1>2. b + 1 < a => (b + 1) * n + n <= a * n
  BY Products
<1>3. (b + 1) * n = b * n + n
  BY Products
<1> DEFINE x == a * n
           y == b * n
<1>4. /\ x \in Nat /\ y \in Nat
      /\ b < a => y + n <= x
      /\ a < b => x + n <= y
      /\ b <= a => y <= x
      /\ a <= b => x <= y
      /\ b + 1 < a => (y + n) + n <= x
  BY <1>1, <1>2, <1>3
<1> HIDE DEF x, y
<1>5. /\ x < y + n => a <= b
      /\ x < y => a < b
      /\ x <= y => a <= b
      /\ x = y => a = b
      /\ y < x /\ x <= y + n => a = b + 1
  BY <1>4
<1> QED
  BY <1>5 DEF x, y

(* How many whole records some units are.                                  *)
LEMMA HowMany ==
    ASSUME NEW n \in Nat \ {0}, NEW l \in Nat
    PROVE  \E m \in Nat : m * n <= l /\ l < m * n + n
<1>1. l \div n \in Nat /\ (l \div n) * n <= l /\ l < (l \div n) * n + n
  OBVIOUS
<1> QED
  BY <1>1

(* No rest is left of a multiple, and of nothing else.                     *)
LEMMA NoRest ==
    ASSUME NEW n \in Nat \ {0}, NEW l \in Nat
    PROVE  l % n = 0 <=> \E j \in Nat : l = j * n
<1> DEFINE q == l \div n
           r == l % n
<1>1. q \in Nat /\ r \in 0 .. n - 1 /\ l = q * n + r
  OBVIOUS
<1>2. r = 0 => l = q * n
  <2>1. q * n \in Nat
    BY <1>1, Products
  <2> HIDE DEF q, r
  <2> QED
    BY <1>1, <2>1
<1>3. ASSUME NEW j \in Nat, l = j * n
      PROVE  r = 0
  <2> HIDE DEF q, r
  <2>1. q * n \in Nat /\ j * n \in Nat
    BY <1>1, Products
  <2>2. j * n = q * n + r
    BY <1>1, <1>3
  <2> DEFINE x == q * n
             y == j * n
  <2> HIDE DEF x, y
  <2>3. x \in Nat /\ y = x + r /\ r \in 0 .. n - 1
    BY <1>1, <2>1, <2>2 DEF x, y
  <2>4. y < x + n /\ x <= y
    BY <2>3
  <2>5. j <= q /\ q <= j
    BY <1>1, <2>4, Factors DEF x, y
  <2>6. j = q
    BY <1>1, <2>5
  <2> QED
    BY <2>3, <2>6 DEF x, y
<1> QED
  BY <1>1, <1>2, <1>3

-----------------------------------------------------------------------------
(* Where records end                                                       *)

(* A sequence of the numbers up to m that increases has every number in    *)
(* its place.                                                              *)
LEMMA Increasing ==
    ASSUME NEW m \in Nat, NEW g \in [1 .. m -> 1 .. m],
           \A i, j \in 1 .. m : i < j => g[i] < g[j]
    PROVE  \A i \in 1 .. m : g[i] = i
<1> DEFINE Up == {n \in Nat : n + 1 <= m => g[n + 1] >= n + 1}
           Down == {n \in Nat : n < m => g[m - n] <= m - n}
<1>1. \A n \in Nat : n \in Up
  <2>1. 0 \in Up
    OBVIOUS
  <2>2. ASSUME NEW n \in Nat, n \in Up
        PROVE  n + 1 \in Up
    <3> SUFFICES ASSUME (n + 1) + 1 <= m PROVE g[(n + 1) + 1] >= (n + 1) + 1
      OBVIOUS
    <3>1. n + 1 \in 1 .. m /\ (n + 1) + 1 \in 1 .. m /\ n + 1 < (n + 1) + 1
      OBVIOUS
    <3>2. g[n + 1] < g[(n + 1) + 1] /\ g[n + 1] \in 1 .. m /\ g[(n + 1) + 1] \in 1 .. m
      BY <3>1
    <3>3. g[n + 1] >= n + 1
      BY <2>2, <3>1
    <3> QED
      BY <3>2, <3>3
  <2> HIDE DEF Up
  <2> QED
    BY <2>1, <2>2, SetInduction
<1>2. \A n \in Nat : n \in Down
  <2>1. 0 \in Down
    OBVIOUS
  <2>2. ASSUME NEW n \in Nat, n \in Down
        PROVE  n + 1 \in Down
    <3> SUFFICES ASSUME n + 1 < m PROVE g[m - (n + 1)] <= m - (n + 1)
      OBVIOUS
    <3>1. m - n \in 1 .. m /\ m - (n + 1) \in 1 .. m /\ m - (n + 1) < m - n
      OBVIOUS
    <3>2. g[m - (n + 1)] < g[m - n] /\ g[m - (n + 1)] \in 1 .. m /\ g[m - n] \in 1 .. m
      BY <3>1
    <3>3. g[m - n] <= m - n
      BY <2>2
    <3> QED
      BY <3>2, <3>3
  <2> HIDE DEF Down
  <2> QED
    BY <2>1, <2>2, SetInduction
<1> SUFFICES ASSUME NEW i \in 1 .. m PROVE g[i] = i
  OBVIOUS
<1>3. g[i] >= i
  <2>1. i - 1 \in Nat /\ (i - 1) + 1 = i /\ i <= m
    OBVIOUS
  <2>2. i - 1 \in Up
    BY <1>1, <2>1
  <2> QED
    BY <2>1, <2>2
<1>4. g[i] <= i
  <2>1. m - i \in Nat /\ m - (m - i) = i /\ m - i < m
    OBVIOUS
  <2>2. m - i \in Down
    BY <1>2, <2>1
  <2> QED
    BY <2>1, <2>2
<1>5. g[i] \in 1 .. m
  OBVIOUS
<1> QED
  BY <1>3, <1>4, <1>5

(* In data that begin with a record the records end at the multiples.      *)
LEMMA EndsFound ==
    ASSUME RecordLen \in Nat \ {0}, NEW data, DOMAIN data = 1 .. Len(data), Len(data) \in Nat,
           NEW m \in Nat, m * RecordLen <= Len(data), Len(data) < m * RecordLen + RecordLen,
           \A k \in 1 .. Len(data) : IF Format = "binary" THEN k % RecordLen = 0 <=> Multiple(k)
                                     ELSE data[k].part = RecordLen <=> Multiple(k)
    PROVE  Ends(data) = [k \in 1 .. m |-> k * RecordLen]
<1> DEFINE E == {k \in DOMAIN data : IF Format = "binary" THEN k % RecordLen = 0
                                     ELSE data[k].part = RecordLen}
           f == [k \in 1 .. m |-> k * RecordLen]
           D == 1 .. Cardinality(E)
<1>1. E = {k \in 1 .. Len(data) : Multiple(k)}
  OBVIOUS
<1>2. \A k \in 1 .. m : k * RecordLen \in E
  <2> SUFFICES ASSUME NEW k \in 1 .. m PROVE k * RecordLen \in E
    OBVIOUS
  <2>1. k \in Nat /\ 1 <= k /\ k <= m
    OBVIOUS
  <2>2. k * RecordLen \in Nat /\ k * RecordLen <= m * RecordLen /\ 1 * RecordLen <= k * RecordLen
    BY <2>1, Products
  <2>3. k * RecordLen \in 1 .. Len(data)
    <3>1. 1 * RecordLen = RecordLen /\ m * RecordLen \in Nat
      BY Products
    <3> DEFINE x == k * RecordLen
               y == m * RecordLen
    <3>2. x \in Nat /\ x <= y /\ RecordLen <= x /\ y <= Len(data) /\ y \in Nat
      BY <2>2, <3>1
    <3> HIDE DEF x, y
    <3>3. x \in 1 .. Len(data)
      BY <3>2
    <3> QED
      BY <3>3 DEF x
  <2> QED
    BY <1>1, <2>1, <2>3 DEF Multiple
<1>3. \A e \in E : \E k \in 1 .. m : e = k * RecordLen
  <2> SUFFICES ASSUME NEW e \in E PROVE \E k \in 1 .. m : e = k * RecordLen
    OBVIOUS
  <2>1. PICK k \in Nat : e = k * RecordLen
    BY <1>1 DEF Multiple
  <2>2. e \in 1 .. Len(data)
    BY <1>1
  <2>3. k * RecordLen < m * RecordLen + RecordLen
    <3>1. m * RecordLen \in Nat
      BY Products
    <3> QED
      BY <2>1, <2>2, <3>1
  <2>4. k <= m
    BY <2>3, Factors
  <2>5. k # 0
    <3>1. 0 * RecordLen = 0
      OBVIOUS
    <3> QED
      BY <2>1, <2>2, <3>1
  <2> QED
    BY <2>1, <2>4, <2>5
<1> HIDE DEF E
<1>4. f \in [1 .. m -> E]
  BY <1>2
<1>5. \A i, j \in 1 .. m : i < j => f[i] < f[j]
  <2> SUFFICES ASSUME NEW i \in 1 .. m, NEW j \in 1 .. m, i < j PROVE i * RecordLen < j * RecordLen
    OBVIOUS
  <2>1. i \in Nat /\ j \in Nat
    OBVIOUS
  <2>2. i * RecordLen \in Nat /\ j * RecordLen \in Nat /\ i * RecordLen + RecordLen <= j * RecordLen
    BY <2>1, Products
  <2> QED
    BY <2>2
<1>6. Cardinality(E) = m
  <2>1. IsInjective(f)
    <3>1. ASSUME NEW i \in 1 .. m, NEW j \in 1 .. m, i * RecordLen = j * RecordLen
          PROVE  i = j
      <4>1. i \in Nat /\ j \in Nat
        OBVIOUS
      <4> QED
        BY <3>1, <4>1, Factors
    <3> QED
      BY <3>1 DEF IsInjective
  <2>2. f \in Bijection(1 .. m, E)
    BY <1>3, <1>4, <2>1 DEF Bijection, Injection, Surjection
  <2> QED
    BY <2>2, FS_CountingElements DEF ExistsBijection
<1>7. ASSUME NEW h \in [1 .. m -> E], \A i, j \in 1 .. m : i < j => h[i] < h[j]
      PROVE  h = f
  <2> DEFINE g == [i \in 1 .. m |-> CHOOSE k \in 1 .. m : h[i] = k * RecordLen]
  <2>1. \A i \in 1 .. m : g[i] \in 1 .. m /\ h[i] = g[i] * RecordLen
    <3> SUFFICES ASSUME NEW i \in 1 .. m PROVE g[i] \in 1 .. m /\ h[i] = g[i] * RecordLen
      OBVIOUS
    <3>1. \E k \in 1 .. m : h[i] = k * RecordLen
      BY <1>3, <1>7
    <3> QED
      BY <3>1
  <2>2. g \in [1 .. m -> 1 .. m]
    BY <2>1
  <2> HIDE DEF g
  <2>3. \A i, j \in 1 .. m : i < j => g[i] < g[j]
    <3> SUFFICES ASSUME NEW i \in 1 .. m, NEW j \in 1 .. m, i < j PROVE g[i] < g[j]
      OBVIOUS
    <3>1. g[i] * RecordLen < g[j] * RecordLen
      BY <1>7, <2>1
    <3>2. g[i] \in Nat /\ g[j] \in Nat
      BY <2>1
    <3> QED
      BY <3>1, <3>2, Factors
  <2>4. \A i \in 1 .. m : g[i] = i
    BY <2>2, <2>3, Increasing
  <2>5. \A i \in 1 .. m : h[i] = f[i]
    BY <2>1, <2>4
  <2> QED
    BY <1>4, <1>7, <2>5
<1> DEFINE Sorted(e) == e \in [D -> E] /\ \A i, j \in D : i < j => e[i] < e[j]
<1>8. Sorted(f) /\ \A e : Sorted(e) => e = f
  BY <1>4, <1>5, <1>6, <1>7
<1>9. Ends(data) = CHOOSE e \in [D -> E] : \A i, j \in D : i < j => e[i] < e[j]
  BY DEF Ends, E
<1> HIDE DEF f, D
<1>10. Ends(data) = f
  BY <1>8, <1>9
<1> QED
  BY <1>10 DEF f

(* A part of a part of a sequence.                                         *)
LEMMA PartOfPart ==
    ASSUME NEW S, NEW s \in Seq(S), NEW a \in Nat, NEW b \in Nat, a <= b, b <= Len(s),
           NEW x \in Nat, NEW y \in Nat, x <= y, y <= b - a
    PROVE  /\ SubSeq(s, a + 1, b) \in Seq(S) /\ Len(SubSeq(s, a + 1, b)) = b - a
           /\ \A i \in 1 .. b - a : SubSeq(s, a + 1, b)[i] = s[a + i]
           /\ SubSeq(SubSeq(s, a + 1, b), x + 1, y) = SubSeq(s, a + x + 1, a + y)
<1>1. Len(s) \in Nat /\ \A i \in 1 .. Len(s) : s[i] \in S
  BY LenProperties, ElementOfSeq
<1> DEFINE d == SubSeq(s, a + 1, b)
           e == SubSeq(d, x + 1, y)
           f == SubSeq(s, a + x + 1, a + y)
<1>2. /\ d \in Seq(S) /\ Len(d) = b - a
      /\ \A i \in 1 .. b - a : d[i] = s[a + i]
  <2>1. \A i \in a + 1 .. b : s[i] \in S
    BY <1>1
  <2>2. /\ d \in Seq(S) /\ Len(d) = IF a + 1 <= b THEN b - (a + 1) + 1 ELSE 0
        /\ \A i \in 1 .. b - (a + 1) + 1 : d[i] = s[(a + 1) + i - 1]
    BY <2>1, SubSeqProperties
  <2> HIDE DEF d
  <2>3. b - (a + 1) + 1 = b - a /\ Len(d) = b - a
    BY <2>2
  <2>4. \A i \in 1 .. b - a : (a + 1) + i - 1 = a + i
    OBVIOUS
  <2> QED
    BY <2>2, <2>3, <2>4
<1> HIDE DEF d
<1>3. /\ e \in Seq(S) /\ Len(e) = y - x
      /\ \A i \in 1 .. y - x : e[i] = d[x + i]
  <2>1. \A i \in x + 1 .. y : d[i] \in S
    BY <1>1, <1>2
  <2>2. /\ e \in Seq(S) /\ Len(e) = IF x + 1 <= y THEN y - (x + 1) + 1 ELSE 0
        /\ \A i \in 1 .. y - (x + 1) + 1 : e[i] = d[(x + 1) + i - 1]
    BY <2>1, SubSeqProperties
  <2> HIDE DEF e
  <2>3. y - (x + 1) + 1 = y - x /\ Len(e) = y - x
    BY <2>2
  <2>4. \A i \in 1 .. y - x : (x + 1) + i - 1 = x + i
    OBVIOUS
  <2> QED
    BY <2>2, <2>3, <2>4
<1>4. /\ f \in Seq(S) /\ Len(f) = y - x
      /\ \A i \in 1 .. y - x : f[i] = s[a + x + i]
  <2>1. \A i \in a + x + 1 .. a + y : s[i] \in S
    BY <1>1
  <2>2. /\ f \in Seq(S) /\ Len(f) = IF a + x + 1 <= a + y THEN (a + y) - (a + x + 1) + 1 ELSE 0
        /\ \A i \in 1 .. (a + y) - (a + x + 1) + 1 : f[i] = s[(a + x + 1) + i - 1]
    BY <2>1, SubSeqProperties
  <2> HIDE DEF f
  <2>3. (a + y) - (a + x + 1) + 1 = y - x /\ Len(f) = y - x
    BY <2>2
  <2>4. \A i \in 1 .. y - x : (a + x + 1) + i - 1 = a + x + i
    OBVIOUS
  <2> QED
    BY <2>2, <2>3, <2>4
<1> HIDE DEF e, f
<1>5. \A i \in 1 .. y - x : e[i] = f[i]
  <2> SUFFICES ASSUME NEW i \in 1 .. y - x PROVE e[i] = f[i]
    OBVIOUS
  <2>1. x + i \in 1 .. b - a /\ a + (x + i) = a + x + i
    OBVIOUS
  <2> QED
    BY <1>2, <1>3, <1>4, <2>1
<1>6. e = f
  BY <1>3, <1>4, <1>5, SeqEqual
<1> QED
  BY <1>2, <1>6 DEF d, e, f

(* How the reader cuts such data.                                          *)
LEMMA Framing ==
    ASSUME RecordLen \in Nat \ {0}, NEW data, DOMAIN data = 1 .. Len(data), Len(data) \in Nat,
           NEW m \in Nat, m * RecordLen <= Len(data), Len(data) < m * RecordLen + RecordLen,
           \A k \in 1 .. Len(data) : IF Format = "binary" THEN k % RecordLen = 0 <=> Multiple(k)
                                     ELSE data[k].part = RecordLen <=> Multiple(k)
    PROVE  /\ Frames(data) = [k \in 1 .. m |-> SubSeq(data, (k - 1) * RecordLen + 1, k * RecordLen)]
           /\ Rest(data) = SubSeq(data, m * RecordLen + 1, Len(data))
<1> DEFINE f == [k \in 1 .. m |-> k * RecordLen]
           ends == <<0>> \o f
<1>1. Ends(data) = f
  BY EndsFound
<1>2. f \in Seq(Nat) /\ Len(f) = m
  <2>1. \A k \in 1 .. m : k * RecordLen \in Nat
    BY Products
  <2>2. f \in [1 .. m -> Nat]
    BY <2>1
  <2> HIDE DEF f
  <2>3. f \in Seq(Nat)
    BY <2>2, SeqDef
  <2>4. Len(f) \in Nat /\ 1 .. Len(f) = 1 .. m
    BY <2>2, <2>3, LenProperties
  <2> QED
    BY <2>3, <2>4
<1>3. \A k \in 1 .. m : f[k] = k * RecordLen
  OBVIOUS
<1> HIDE DEF f
<1>4. <<0>> \in Seq(Nat) /\ Len(<<0>>) = 1 /\ <<0>>[1] = 0
  OBVIOUS
<1>5. /\ Len(ends) = m + 1
      /\ \A i \in 1 .. m + 1 : ends[i] = IF i <= 1 THEN <<0>>[i] ELSE f[i - 1]
  <2>1. /\ Len(ends) = 1 + m
        /\ \A i \in 1 .. 1 + m : ends[i] = IF i <= 1 THEN <<0>>[i] ELSE f[i - 1]
    BY <1>2, <1>4, ConcatProperties
  <2> HIDE DEF ends
  <2> QED
    BY <2>1
<1>6. \A i \in 1 .. m + 1 : ends[i] = (i - 1) * RecordLen
  <2> SUFFICES ASSUME NEW i \in 1 .. m + 1 PROVE ends[i] = (i - 1) * RecordLen
    OBVIOUS
  <2>1. CASE i = 1
    <3>1. ends[1] = 0
      BY <1>4, <1>5
    <3>2. (i - 1) * RecordLen = 0
      BY <2>1
    <3> QED
      BY <2>1, <3>1, <3>2
  <2>2. CASE i # 1
    <3>1. i - 1 \in 1 .. m /\ ~(i <= 1)
      BY <2>2
    <3>2. ends[i] = f[i - 1]
      BY <1>5, <3>1
    <3> QED
      BY <1>3, <3>1, <3>2
  <2> QED
    BY <2>1, <2>2
<1>7. /\ Frames(data) = [k \in 1 .. Len(ends) - 1 |-> SubSeq(data, ends[k] + 1, ends[k + 1])]
      /\ Rest(data) = SubSeq(data, ends[Len(ends)] + 1, Len(data))
  BY <1>1 DEF Frames, Rest, Last
<1> HIDE DEF ends
<1>8. Len(ends) - 1 = m /\ ends[Len(ends)] = m * RecordLen
  <2>1. m + 1 \in 1 .. m + 1 /\ (m + 1) - 1 = m
    OBVIOUS
  <2> QED
    BY <1>5, <1>6, <2>1
<1>9. \A k \in 1 .. m : ends[k] = (k - 1) * RecordLen /\ ends[k + 1] = k * RecordLen
  <2> SUFFICES ASSUME NEW k \in 1 .. m
               PROVE  ends[k] = (k - 1) * RecordLen /\ ends[k + 1] = k * RecordLen
    OBVIOUS
  <2>1. k \in 1 .. m + 1 /\ k + 1 \in 1 .. m + 1 /\ (k + 1) - 1 = k
    OBVIOUS
  <2>2. ends[k + 1] = ((k + 1) - 1) * RecordLen
    BY <1>6, <2>1
  <2> QED
    BY <1>6, <2>1, <2>2
<1> QED
  BY <1>7, <1>8, <1>9

(* Whole records before them do not matter.                                *)
LEMMA MultipleAfter ==
    ASSUME RecordLen \in Nat \ {0}, NEW n \in Nat, NEW k \in Nat
    PROVE  Multiple(n * RecordLen + k) <=> Multiple(k)
<1> DEFINE x == n * RecordLen
<1>1. x \in Nat
  BY Products
<1>2. ASSUME NEW j \in Nat, k = j * RecordLen
      PROVE  Multiple(x + k)
  <2>1. (n + j) * RecordLen = x + j * RecordLen /\ n + j \in Nat
    BY Products
  <2> QED
    BY <1>2, <2>1 DEF Multiple
<1>3. ASSUME NEW j \in Nat, x + k = j * RecordLen
      PROVE  Multiple(k)
  <2>1. n <= j
    <3>1. j * RecordLen \in Nat
      BY Products
    <3>2. x <= j * RecordLen
      BY <1>1, <1>3, <3>1
    <3> QED
      BY <3>2, Factors
  <2>2. j - n \in Nat /\ n + (j - n) = j
    BY <2>1
  <2>3. (n + (j - n)) * RecordLen = n * RecordLen + (j - n) * RecordLen
        /\ (j - n) * RecordLen \in Nat
    BY <2>2, Products
  <2> DEFINE z == (j - n) * RecordLen
  <2>4. x + k = x + z /\ z \in Nat
    BY <1>3, <2>2, <2>3
  <2> HIDE DEF x, z
  <2>5. k = z
    BY <1>1, <2>4
  <2> QED
    BY <2>2, <2>5 DEF Multiple, z
<1> QED
  BY <1>2, <1>3 DEF Multiple

(* Where the records of a file of the format end: the lines of the JSON    *)
(* file at their newlines.                                                 *)
Lined(file) ==
    Format # "binary" =>
        \A p \in 1 .. Len(file) : file[p].part = RecordLen <=> Multiple(p)

(* The m records after the first n.                                        *)
RecordsIn(file, n, m) ==
    [k \in 1 .. m |-> SubSeq(file, (n + k - 1) * RecordLen + 1, (n + k) * RecordLen)]

(* A read of the file from an offset on, with the units of the record that *)
(* the offset cuts kept from the reads before.                             *)
LEMMA ReadFile ==
    ASSUME RecordLen \in Nat \ {0}, NEW S, NEW file \in Seq(S), Lined(file),
           NEW n \in Nat, NEW from \in Nat, NEW to \in Nat,
           n * RecordLen <= from, from < n * RecordLen + RecordLen, from <= to, to <= Len(file)
    PROVE  LET data == SubSeq(file, n * RecordLen + 1, from) \o SubSeq(file, from + 1, to)
           IN  \E m \in Nat :
                  /\ (n + m) * RecordLen <= to /\ to < (n + m) * RecordLen + RecordLen
                  /\ Rest(data) = SubSeq(file, (n + m) * RecordLen + 1, to)
                  /\ Frames(data) = RecordsIn(file, n, m)
<1> DEFINE x == n * RecordLen
           data == SubSeq(file, x + 1, from) \o SubSeq(file, from + 1, to)
<1>1. x \in Nat /\ Len(file) \in Nat
  BY Products, LenProperties
<1>2. x <= from /\ from < x + RecordLen
  OBVIOUS
<1>3. \A a, b \in Nat : (a + b) * RecordLen = a * RecordLen + b * RecordLen
  BY Products
<1>4. data = SubSeq(file, x + 1, to)
  <2> HIDE DEF x
  <2>1. x + 1 \in 1 .. Len(file) + 1 /\ from \in (x + 1) - 1 .. Len(file) /\ to \in from .. Len(file)
    BY <1>1, <1>2
  <2> QED
    BY <2>1, ConcatAdjacentSubSeq
<1>5. to - x \in Nat
  <2> HIDE DEF x
  <2> QED
    BY <1>1, <1>2
<1>6. PICK m \in Nat : m * RecordLen <= to - x /\ to - x < m * RecordLen + RecordLen
  BY <1>5, HowMany
<1>7. /\ data \in Seq(S) /\ Len(data) = to - x
      /\ \A i \in 1 .. to - x : data[i] = file[x + i]
  <2> HIDE DEF x, data
  <2>1. x <= to /\ 0 <= to - x /\ 0 \in Nat /\ 0 <= 0
    BY <1>1, <1>2
  <2>2. /\ SubSeq(file, x + 1, to) \in Seq(S) /\ Len(SubSeq(file, x + 1, to)) = to - x
        /\ \A i \in 1 .. to - x : SubSeq(file, x + 1, to)[i] = file[x + i]
    BY <1>1, <2>1, PartOfPart
  <2> QED
    BY <1>4, <2>2
<1>8. DOMAIN data = 1 .. Len(data)
  BY <1>7, LenProperties
<1>9. \A k \in 1 .. Len(data) : IF Format = "binary" THEN k % RecordLen = 0 <=> Multiple(k)
                                ELSE data[k].part = RecordLen <=> Multiple(k)
  <2> HIDE DEF data
  <2> SUFFICES ASSUME NEW k \in 1 .. Len(data)
               PROVE  IF Format = "binary" THEN k % RecordLen = 0 <=> Multiple(k)
                      ELSE data[k].part = RecordLen <=> Multiple(k)
    OBVIOUS
  <2>1. k \in Nat /\ k \in 1 .. to - x
    BY <1>5, <1>7
  <2>2. k % RecordLen = 0 <=> Multiple(k)
    BY <2>1, NoRest DEF Multiple
  <2>3. Multiple(x + k) <=> Multiple(k)
    BY <2>1, MultipleAfter
  <2>4. x + k \in 1 .. Len(file)
    <3> HIDE DEF x
    <3> QED
      BY <1>1, <2>1
  <2>5. Format # "binary" => (file[x + k].part = RecordLen <=> Multiple(x + k))
    BY <2>4 DEF Lined
  <2>6. data[k] = file[x + k]
    BY <1>7, <2>1
  <2> QED
    BY <2>2, <2>3, <2>5, <2>6
<1> HIDE DEF data
<1>10. /\ Frames(data) = [k \in 1 .. m |-> SubSeq(data, (k - 1) * RecordLen + 1, k * RecordLen)]
       /\ Rest(data) = SubSeq(data, m * RecordLen + 1, Len(data))
  <2>1. m * RecordLen <= Len(data) /\ Len(data) < m * RecordLen + RecordLen /\ Len(data) \in Nat
    BY <1>5, <1>6, <1>7
  <2> QED
    BY <1>8, <1>9, <2>1, Framing
<1>11. ASSUME NEW a \in Nat, NEW b \in Nat, a <= b, b <= to - x
       PROVE  SubSeq(data, a + 1, b) = SubSeq(file, x + a + 1, x + b)
  <2> HIDE DEF x
  <2>1. x <= to
    BY <1>1, <1>2
  <2> QED
    BY <1>1, <1>4, <1>11, <2>1, PartOfPart
<1>12. (n + m) * RecordLen = x + m * RecordLen /\ m * RecordLen \in Nat
  BY <1>3, Products
<1>13. (n + m) * RecordLen <= to /\ to < (n + m) * RecordLen + RecordLen
  <2> DEFINE y == m * RecordLen
             z == (n + m) * RecordLen
  <2>1. z = x + y /\ y \in Nat /\ y <= to - x /\ to - x < y + RecordLen
    BY <1>6, <1>12
  <2> HIDE DEF x, y, z
  <2>2. z <= to /\ to < z + RecordLen
    BY <1>1, <2>1
  <2> QED
    BY <2>2 DEF z
<1>14. Rest(data) = SubSeq(file, (n + m) * RecordLen + 1, to)
  <2>1. SubSeq(data, m * RecordLen + 1, to - x) = SubSeq(file, x + m * RecordLen + 1, x + (to - x))
    <3> DEFINE y == m * RecordLen
               t == to - x
    <3>1. y \in Nat /\ t \in Nat /\ y <= t /\ t <= to - x
      BY <1>5, <1>6, <1>12
    <3> HIDE DEF y, t
    <3>2. SubSeq(data, y + 1, t) = SubSeq(file, x + y + 1, x + t)
      BY <1>11, <3>1
    <3> QED
      BY <3>2 DEF y, t
  <2>2. x + (to - x) = to
    <3> HIDE DEF x
    <3> QED
      BY <1>1
  <2> QED
    BY <1>7, <1>10, <1>12, <2>1, <2>2
<1>15. \A k \in 1 .. m : SubSeq(data, (k - 1) * RecordLen + 1, k * RecordLen)
                           = SubSeq(file, (n + k - 1) * RecordLen + 1, (n + k) * RecordLen)
  <2> SUFFICES ASSUME NEW k \in 1 .. m
               PROVE  SubSeq(data, (k - 1) * RecordLen + 1, k * RecordLen)
                        = SubSeq(file, (n + k - 1) * RecordLen + 1, (n + k) * RecordLen)
    OBVIOUS
  <2> DEFINE y == (k - 1) * RecordLen
             z == k * RecordLen
  <2>1. k - 1 \in Nat /\ k \in Nat /\ k - 1 <= k /\ k <= m /\ n + (k - 1) = n + k - 1
    OBVIOUS
  <2>2. y \in Nat /\ z \in Nat /\ y <= z /\ z <= m * RecordLen
    BY <2>1, Products
  <2>3. (n + (k - 1)) * RecordLen = x + y /\ (n + k) * RecordLen = x + z
    BY <1>3, <2>1
  <2>4. z <= to - x
    <3> DEFINE w == m * RecordLen
               t == to - x
    <3>1. z \in Nat /\ w \in Nat /\ t \in Nat /\ z <= w /\ w <= t
      BY <1>5, <1>6, <1>12, <2>2
    <3> HIDE DEF z, w, t
    <3>2. z <= t
      BY <3>1
    <3> QED
      BY <3>2 DEF t
  <2> HIDE DEF y, z
  <2>5. SubSeq(data, y + 1, z) = SubSeq(file, x + y + 1, x + z)
    BY <1>11, <2>2, <2>4
  <2>6. (n + k - 1) * RecordLen = x + y
    BY <2>1, <2>3
  <2> HIDE DEF x
  <2> QED
    BY <2>3, <2>5, <2>6 DEF y, z
<1>16. Frames(data) = RecordsIn(file, n, m)
  BY <1>10, <1>15 DEF RecordsIn
<1> QED
  BY <1>13, <1>14, <1>16 DEF data

-----------------------------------------------------------------------------
(* The lines of the JSON file                                              *)

EndsAtLines(d) == \A p \in 1 .. Len(d) : d[p].part = RecordLen <=> Multiple(p)

(* The mutex keeps the lines whole: all that was given to the writer, as   *)
(* long as it is open, are whole lines, and the file is a beginning of     *)
(* them.                                                                   *)
LinesInv ==
    LET b == out["ldjson"]
    IN  /\ EndsAtLines(b.file)
        /\ b.open => /\ ~b.err
                     /\ EndsAtLines(b.file \o b.buf) /\ Multiple(Len(b.file \o b.buf))

(* A beginning of lines is one of lines.                                   *)
LEMMA LinesBefore ==
    ASSUME NEW d, NEW e, Len(d) \in Nat, Len(e) \in Nat, Keeps(d, e), EndsAtLines(e)
    PROVE  EndsAtLines(d)
<1>1. \A p \in 1 .. Len(d) : p \in 1 .. Len(e) /\ e[p] = d[p]
  BY DEF Keeps
<1> QED
  BY <1>1 DEF EndsAtLines

(* One more line after whole lines.                                        *)
LEMMA LineAfter ==
    ASSUME NEW R, NEW d \in Seq(Cells(R)), NEW rec \in R, EndsAtLines(d), Multiple(Len(d))
    PROVE  EndsAtLines(d \o Units(rec)) /\ Multiple(Len(d \o Units(rec)))
<1> DEFINE u == Units(rec)
           e == d \o u
<1>1. RecordLen \in Nat \ {0} /\ Len(d) \in Nat
  BY ResultLogAssumption, LenProperties
<1>2. /\ u \in Seq(Cells(R)) /\ Len(u) = RecordLen
      /\ \A q \in 1 .. RecordLen : u[q].part = q
  <2>1. /\ u \in Seq(Cells(R)) /\ Len(u) = RecordLen
        /\ \A q \in 1 .. RecordLen : u[q] = [part |-> q, rec |-> rec]
    BY UnitsType
  <2> HIDE DEF u
  <2> QED
    BY <2>1
<1> HIDE DEF u
<1>3. /\ Len(e) = Len(d) + RecordLen
      /\ \A p \in 1 .. Len(d) + RecordLen : e[p] = IF p <= Len(d) THEN d[p] ELSE u[p - Len(d)]
  BY <1>2, ConcatProperties
<1> HIDE DEF e
<1>4. PICK n \in Nat : Len(d) = n * RecordLen
  BY DEF Multiple
<1>5. Multiple(Len(e))
  <2>1. (n + 1) * RecordLen = n * RecordLen + RecordLen /\ n + 1 \in Nat
    BY <1>1, Products
  <2> QED
    BY <1>3, <1>4, <2>1 DEF Multiple
<1>6. EndsAtLines(e)
  <2> SUFFICES ASSUME NEW p \in 1 .. Len(e) PROVE e[p].part = RecordLen <=> Multiple(p)
    BY DEF EndsAtLines
  <2>1. CASE p <= Len(d)
    <3>1. p \in 1 .. Len(d) /\ p \in 1 .. Len(d) + RecordLen
      BY <1>1, <1>3, <2>1
    <3>2. e[p] = d[p]
      BY <1>3, <2>1, <3>1
    <3> QED
      BY <3>1, <3>2 DEF EndsAtLines
  <2>2. CASE ~(p <= Len(d))
    <3> DEFINE q == p - Len(d)
    <3>1. q \in 1 .. RecordLen /\ p = Len(d) + q /\ p \in 1 .. Len(d) + RecordLen /\ q \in Nat
      BY <1>1, <1>3, <2>2
    <3>2. e[p] = u[q]
      BY <1>3, <2>2, <3>1
    <3> HIDE DEF q
    <3>3. e[p].part = q
      BY <1>2, <3>1, <3>2
    <3>4. Multiple(p) <=> Multiple(q)
      BY <1>1, <1>4, <3>1, MultipleAfter
    <3>5. Multiple(q) <=> q = RecordLen
      <4>1. q % RecordLen = 0 <=> Multiple(q)
        BY <1>1, <3>1, NoRest DEF Multiple
      <4>2. q % RecordLen = 0 <=> q = RecordLen
        <5>1. q < RecordLen => q % RecordLen = q
          BY <1>1, <3>1
        <5>2. RecordLen % RecordLen = 0
          <6>1. RecordLen = 1 * RecordLen /\ RecordLen \in Nat
            BY <1>1
          <6> QED
            BY <1>1, <6>1, NoRest
        <5> QED
          BY <1>1, <3>1, <5>1, <5>2
      <4> QED
        BY <4>1, <4>2
    <3> QED
      BY <3>3, <3>4, <3>5
  <2> QED
    BY <2>1, <2>2
<1> QED
  BY <1>5, <1>6 DEF e, u

(* No step breaks a line.                                                  *)
LEMMA LinesStep ==
    ASSUME LogTypeOK, LinesInv, LogStep
    PROVE  LinesInv'
<1> DEFINE b == out["ldjson"]
           c == out'["ldjson"]
           S == Cells(Results)
<1>1. /\ b \in Buffers(Results) /\ Len(b.buf) <= BufSize
      /\ out = [o \in Writers |-> out[o]] /\ "ldjson" \in Writers
  BY DEF LogTypeOK, OutOK, RecordsOf, Writers
<1>2. /\ b.file \in Seq(S) /\ b.buf \in Seq(S) /\ b.open \in BOOLEAN /\ b.err \in BOOLEAN
  BY <1>1 DEF Buffers
<1>3. /\ EndsAtLines(b.file)
      /\ b.open => /\ ~b.err
                   /\ EndsAtLines(b.file \o b.buf) /\ Multiple(Len(b.file \o b.buf))
  BY DEF LinesInv
<1>4. LinesInv' <=>
          /\ EndsAtLines(c.file)
          /\ c.open => /\ ~c.err
                       /\ EndsAtLines(c.file \o c.buf) /\ Multiple(Len(c.file \o c.buf))
  BY DEF LinesInv, EndsAtLines, Multiple
<1>5. b.file \o b.buf \in Seq(S) /\ Len(b.file \o b.buf) \in Nat /\ Len(b.file) \in Nat
  BY <1>2, ConcatProperties, LenProperties
<1> HIDE DEF b, c, S
<1>6. CASE c = b
  BY <1>3, <1>4, <1>6
<1>7. CASE PushLDJSON
  <2>1. /\ out' = [out EXCEPT !["ldjson"] = WriteLine(out["ldjson"], bg.rec)]
        /\ bg.pc = "push" /\ bg.rec = taken[Len(taken)]
    BY <1>7 DEF PushLDJSON, At, LogTypeOK, BackgroundOK
  <2>2. bg.rec \in Results
    BY <2>1, TakenFacts
  <2>3. c = WriteLine(b, bg.rec)
    BY <1>1, <2>1 DEF b, c
  <2>4. /\ c \in Buffers(Results) /\ c.open = b.open
        /\ b.open /\ ~b.err => /\ ~c.err
                               /\ c.file \o c.buf = b.file \o (b.buf \o Units(bg.rec))
        /\ ~b.open \/ b.err => c.file = b.file
    <3> DEFINE w == WriteLine(b, bg.rec)
    <3>1. b \in Buffers(Results) /\ Len(b.buf) <= BufSize /\ bg.rec \in Results
      BY <1>1, <2>2
    <3> HIDE DEF b, c
    <3>2. /\ w \in Buffers(Results) /\ w.open = b.open
          /\ b.open /\ ~b.err => /\ ~w.err
                                 /\ w.file \o w.buf = b.file \o (b.buf \o Units(bg.rec))
          /\ ~b.open \/ b.err => w.file = b.file
      BY ONLY <3>1, WriteLineType
    <3> HIDE DEF w
    <3>3. c = w
      BY <2>3 DEF w
    <3> QED
      BY <3>2, <3>3
  <2>5. CASE b.open
    <3>1. Units(bg.rec) \in Seq(S)
      BY <2>2, UnitsType DEF S
    <3>2. c.file \o c.buf = (b.file \o b.buf) \o Units(bg.rec) /\ ~c.err
      <4>1. (b.file \o b.buf) \o Units(bg.rec) = b.file \o (b.buf \o Units(bg.rec))
        <5>1. \A s, t, u \in Seq(S) : (s \o t) \o u = s \o (t \o u)
          BY ConcatAssociative
        <5> QED
          BY <1>2, <3>1, <5>1
      <4> QED
        BY <1>3, <2>4, <2>5, <4>1
    <3>3. /\ EndsAtLines((b.file \o b.buf) \o Units(bg.rec))
          /\ Multiple(Len((b.file \o b.buf) \o Units(bg.rec)))
      BY <1>3, <1>5, <2>2, <2>5, LineAfter DEF S
    <3>4. EndsAtLines(c.file \o c.buf) /\ Multiple(Len(c.file \o c.buf))
      BY <3>2, <3>3
    <3>5. c.file \in Seq(S) /\ c.buf \in Seq(S)
      BY <2>4 DEF Buffers, S
    <3>6. /\ Keeps(c.file, c.file \o c.buf) /\ Len(c.file) \in Nat
          /\ Len(c.file \o c.buf) \in Nat
      BY <3>5, JoinFacts, LenProperties
    <3>7. EndsAtLines(c.file)
      BY <3>4, <3>6, LinesBefore
    <3> QED
      BY <1>4, <3>2, <3>4, <3>7
  <2>6. CASE ~b.open
    BY <1>3, <1>4, <2>4, <2>6
  <2> QED
    BY <2>5, <2>6
<1>8. CASE CloseLDJSON
  <2>1. out' = [out EXCEPT !["ldjson"] = [FlushStart(out["ldjson"]) EXCEPT !.buf = << >>, !.open = FALSE]]
    BY <1>8 DEF CloseLDJSON
  <2>2. c = [FlushStart(b) EXCEPT !.buf = << >>, !.open = FALSE]
    BY <1>1, <2>1 DEF b, c
  <2>3. ~c.open /\ c.file = FlushStart(b).file
    BY <1>1, <2>2, ShutType
  <2>4. c.file = IF b.err \/ b.buf = << >> \/ ~b.open THEN b.file ELSE b.file \o b.buf
    BY <1>1, <2>3, FlushStartType
  <2> QED
    BY <1>3, <1>4, <2>3, <2>4
<1>9. ASSUME ~PushLDJSON, ~CloseLDJSON
      PROVE  c = b
  <2>1. ASSUME NEW o \in Writers, NEW x, o # "ldjson", out' = [out EXCEPT ![o] = x]
        PROVE  c = b
    BY <1>1, <2>1 DEF b, c
  <2>2. Writer \in Writers
    BY LogFacts
  <2>3. CASE WriteUnit \/ WriteToFull \/ FlushReturns \/ RecordWritten
    <3>1. bg.pc \in {"write", "flushing"}
      BY <2>3 DEF WriteUnit, WriteToFull, FlushReturns, RecordWritten, WriteMore, At
    <3>2. Writer # "ldjson"
      BY <3>1 DEF LogTypeOK, BackgroundOK
    <3>3. out' = out \/ \E x : out' = [out EXCEPT ![Writer] = x]
      BY <2>3 DEF WriteUnit, WriteToFull, FlushReturns, RecordWritten, StartFlush
    <3> QED
      BY <2>1, <2>2, <3>2, <3>3 DEF b, c
  <2>4. CASE CloseFlushes \/ CloseFlushReturns \/ CloseDescriptor
    <3>1. Closed # "ldjson" /\ closer.pc # "exit"
      BY <2>4 DEF CloseFlushes, CloseFlushReturns, CloseDescriptor, Closing, LogTypeOK, CloserOK
    <3>2. Closed \in Writers
      BY <3>1, ConfFacts DEF LogTypeOK, CloserOK, Closed
    <3>3. \E x : out' = [out EXCEPT ![Closed] = x]
      BY <2>4 DEF CloseFlushes, CloseFlushReturns, CloseDescriptor
    <3> QED
      BY <2>1, <3>1, <3>2, <3>3
  <2>5. PushTrace \/ IndexStrings \/ WriteFails \/ RunReturns \/ MainReturns
         \/ (\E r \in Results : Receive(r)) \/ UNCHANGED <<conf, logVars>> => out' = out
    BY DEF PushTrace, IndexStrings, WriteFails, RunReturns, MainReturns, Receive, logVars
  <2>6. out' = out => c = b
    BY DEF b, c
  <2> QED
    BY <1>9, <2>3, <2>4, <2>5, <2>6 DEF LogStep, BackgroundStep, CloseStep
<1> QED
  BY <1>6, <1>7, <1>8, <1>9

(* No line at the start.                                                   *)
LEMMA LinesInit ==
    ASSUME ResultLogInit
    PROVE  LinesInv
<1>1. out["ldjson"] = [buf |-> << >>, file |-> << >>, open |-> TRUE, err |-> FALSE]
  BY DEF ResultLogInit, Writers
<1>2. << >> \in Seq({}) /\ << >> \o << >> = << >> /\ Len(<< >>) = 0
  BY EmptySeq, ConcatEmptySeq
<1>3. EndsAtLines(<< >>)
  BY <1>2 DEF EndsAtLines
<1>4. Multiple(0)
  <2>1. 0 = 0 * RecordLen
    BY ResultLogAssumption
  <2> QED
    BY <2>1 DEF Multiple
<1> QED
  BY <1>1, <1>2, <1>3, <1>4 DEF LinesInv

-----------------------------------------------------------------------------
(* The strings of the binary file                                          *)

(* What the results have to be like for the binary file to say what they   *)
(* are: a label or an error of several lines is several strings to who     *)
(* reads the strings file, and the number of a string that is beyond       *)
(* IndexSpace is the number of another.  The trace is not for the reader.  *)
Readable ==
    \/ Format = "ldjson"
    \/ /\ Format = "binary" /\ Len(index) <= IndexSpace
       /\ \A i \in DOMAIN taken : Len(taken[i].label) <= 1 /\ Len(taken[i].error) <= 1

(* Who reads the strings file gets the index of encarno.                   *)
IndexInv == Format = "binary" => index = Load(strFile)

(* A line of the strings file becomes a string.                            *)
LEMMA LoadLines ==
    ASSUME NEW lines \in Seq(Lines)
    PROVE  /\ Load(lines) \in Seq(Strings) /\ Len(Load(lines)) = Len(lines) + 1
           /\ Load(lines)[1] = EmptyString
           /\ \A k \in 1 .. Len(lines) : Load(lines)[k + 1] = <<lines[k]>>
<1> DEFINE rest == [k \in DOMAIN lines |-> <<lines[k]>>]
<1>1. Len(lines) \in Nat /\ DOMAIN lines = 1 .. Len(lines) /\ \A k \in 1 .. Len(lines) : lines[k] \in Lines
  BY LenProperties, ElementOfSeq
<1>2. rest \in [1 .. Len(lines) -> Strings] /\ \A k \in 1 .. Len(lines) : rest[k] = <<lines[k]>>
  BY <1>1 DEF Strings
<1>3. Load(lines) = <<EmptyString>> \o rest
  BY DEF Load
<1> HIDE DEF rest
<1>4. rest \in Seq(Strings) /\ Len(rest) = Len(lines)
  <2>1. rest \in Seq(Strings)
    BY <1>1, <1>2, SeqDef
  <2>2. Len(rest) \in Nat /\ 1 .. Len(rest) = 1 .. Len(lines)
    BY <1>2, <2>1, LenProperties
  <2> QED
    BY <1>1, <2>1, <2>2
<1>5. EmptyString \in Strings
  BY EmptySeq DEF EmptyString, Strings
<1>6. <<EmptyString>> \in Seq(Strings) /\ Len(<<EmptyString>>) = 1 /\ <<EmptyString>>[1] = EmptyString
  BY <1>5
<1>7. /\ Load(lines) \in Seq(Strings) /\ Len(Load(lines)) = 1 + Len(lines)
      /\ \A i \in 1 .. 1 + Len(lines) :
             Load(lines)[i] = IF i <= 1 THEN <<EmptyString>>[i] ELSE rest[i - 1]
  BY <1>3, <1>4, <1>6, ConcatProperties
<1>8. Load(lines)[1] = EmptyString
  BY <1>1, <1>6, <1>7
<1>9. \A k \in 1 .. Len(lines) : Load(lines)[k + 1] = <<lines[k]>>
  <2> SUFFICES ASSUME NEW k \in 1 .. Len(lines) PROVE Load(lines)[k + 1] = <<lines[k]>>
    OBVIOUS
  <2>1. k + 1 \in 1 .. 1 + Len(lines) /\ ~(k + 1 <= 1) /\ (k + 1) - 1 = k
    BY <1>1
  <2> QED
    BY <1>2, <1>7, <2>1
<1> QED
  BY <1>1, <1>7, <1>8, <1>9

(* A new string of one line is in the file what it is in the index.        *)
LEMMA StringAdded ==
    ASSUME NEW lines \in Seq(Lines), NEW s \in Strings, Len(s) <= 1
    PROVE  /\ AppendFile(Load(lines), lines, s) \in Seq(Lines)
           /\ WithString(Load(lines), s) = Load(AppendFile(Load(lines), lines, s))
<1> DEFINE list == Load(lines)
           longer == lines \o s
<1>1. /\ list \in Seq(Strings) /\ Len(list) = Len(lines) + 1 /\ Len(lines) \in Nat
      /\ list[1] = EmptyString /\ \A k \in 1 .. Len(lines) : list[k + 1] = <<lines[k]>>
  BY LoadLines, LenProperties
<1> HIDE DEF list
<1>2. CASE Known(list, s)
  BY <1>2 DEF WithString, AppendFile, list
<1>3. CASE ~Known(list, s)
  <2>1. s # EmptyString
    <3>1. \A i \in 1 .. Len(list) : list[i] # s
      BY <1>1, <1>3, PlaceFound DEF Known
    <3>2. 1 \in 1 .. Len(list)
      BY <1>1
    <3> QED
      BY <1>1, <3>1, <3>2
  <2>2. s \in Seq(Lines) /\ Len(s) = 1
    <3>1. s \in Seq(Lines) /\ Len(s) \in Nat \ {0}
      BY <2>1, EmptySeq DEF Strings, EmptyString
    <3>2. \A n \in Nat \ {0} : n <= 1 => n = 1
      OBVIOUS
    <3>3. Len(s) = 1
      BY <3>1, <3>2, Zenon
    <3> QED
      BY <3>1, <3>3, Zenon
  <2>3. s = <<s[1]>>
    <3>1. s[1] \in Lines
      <4>1. 1 \in 1 .. Len(s)
        BY <2>2
      <4> QED
        BY <2>2, <4>1, ElementOfSeq
    <3>2. <<s[1]>> \in Seq(Lines) /\ Len(<<s[1]>>) = 1 /\ <<s[1]>>[1] = s[1]
      BY <3>1
    <3>3. \A i \in 1 .. Len(s) : s[i] = <<s[1]>>[i]
      BY <2>2, <3>2
    <3> QED
      BY <2>2, <3>2, <3>3, SeqEqual
  <2>4. /\ longer \in Seq(Lines) /\ Len(longer) = Len(lines) + 1
        /\ \A k \in 1 .. Len(lines) : longer[k] = lines[k]
        /\ longer[Len(lines) + 1] = s[1]
    <3>1. /\ longer \in Seq(Lines) /\ Len(longer) = Len(lines) + Len(s)
          /\ \A k \in 1 .. Len(lines) + Len(s) :
                 longer[k] = IF k <= Len(lines) THEN lines[k] ELSE s[k - Len(lines)]
      BY <2>2, ConcatProperties
    <3> HIDE DEF longer
    <3>2. (Len(lines) + 1) - Len(lines) = 1 /\ ~(Len(lines) + 1 <= Len(lines))
      BY <1>1
    <3> QED
      BY <1>1, <2>2, <3>1, <3>2
  <2> HIDE DEF longer
  <2>5. /\ Load(longer) \in Seq(Strings) /\ Len(Load(longer)) = Len(longer) + 1
        /\ Load(longer)[1] = EmptyString
        /\ \A k \in 1 .. Len(longer) : Load(longer)[k + 1] = <<longer[k]>>
    BY <2>4, LoadLines
  <2>6. /\ Append(list, s) \in Seq(Strings) /\ Len(Append(list, s)) = Len(list) + 1
        /\ \A i \in 1 .. Len(list) : Append(list, s)[i] = list[i]
        /\ Append(list, s)[Len(list) + 1] = s
    BY <1>1, AppendProperties
  <2>7. \A i \in 1 .. Len(Append(list, s)) : Append(list, s)[i] = Load(longer)[i]
    <3> SUFFICES ASSUME NEW i \in 1 .. Len(Append(list, s))
                 PROVE  Append(list, s)[i] = Load(longer)[i]
      OBVIOUS
    <3>1. CASE i = 1
      <4>1. 1 \in 1 .. Len(list)
        BY <1>1
      <4> QED
        BY <1>1, <2>5, <2>6, <3>1, <4>1
    <3>2. CASE i # 1 /\ i # Len(list) + 1
      <4> DEFINE k == i - 1
      <4>1. k \in 1 .. Len(lines) /\ k \in 1 .. Len(longer) /\ i = k + 1 /\ i \in 1 .. Len(list)
        BY <1>1, <2>4, <2>6, <3>2
      <4> HIDE DEF k
      <4>2. list[k + 1] = <<lines[k]>> /\ Load(longer)[k + 1] = <<longer[k]>> /\ longer[k] = lines[k]
        BY <1>1, <2>4, <2>5, <4>1
      <4> QED
        BY <2>6, <4>1, <4>2
    <3>3. CASE i = Len(list) + 1
      <4>1. Len(longer) \in 1 .. Len(longer) /\ i = Len(longer) + 1
        BY <1>1, <2>4, <3>3
      <4>2. Load(longer)[i] = <<s[1]>>
        BY <2>4, <2>5, <4>1
      <4> QED
        BY <2>3, <2>6, <3>3, <4>2
    <3> QED
      BY <3>1, <3>2, <3>3
  <2>8. Append(list, s) = Load(longer)
    <3>1. Len(Append(list, s)) = Len(Load(longer))
      BY <1>1, <2>4, <2>5, <2>6
    <3> QED
      BY <2>5, <2>6, <2>7, <3>1, SeqEqual
  <2>9. WithString(list, s) = Append(list, s) /\ AppendFile(list, lines, s) = longer
    BY <1>3 DEF WithString, AppendFile, longer
  <2> QED
    BY <2>4, <2>8, <2>9 DEF list
<1> QED
  BY <1>2, <1>3

(* The index only grows.                                                   *)
LEMMA IndexGrows ==
    ASSUME NEW list \in Seq(Strings), NEW s \in Strings
    PROVE  Keeps(list, list) /\ Keeps(list, WithString(list, s)) /\ WithString(list, s) \in Seq(Strings)
<1>1. Len(list) \in Nat
  BY LenProperties
<1>2. CASE Known(list, s)
  BY <1>1, <1>2 DEF WithString, Keeps
<1>3. CASE ~Known(list, s)
  <2>1. /\ Append(list, s) \in Seq(Strings) /\ Len(Append(list, s)) = Len(list) + 1
        /\ \A i \in 1 .. Len(list) : Append(list, s)[i] = list[i]
    BY AppendProperties
  <2> QED
    BY <1>1, <1>3, <2>1 DEF WithString, Keeps
<1> QED
  BY <1>2, <1>3

(* What grows from what grew.                                              *)
LEMMA KeepsOn ==
    ASSUME NEW d, NEW e, NEW f, Len(d) \in Nat, Len(e) \in Nat, Len(f) \in Nat,
           Keeps(d, e), Keeps(e, f)
    PROVE  Keeps(d, f)
<1>1. \A p \in 1 .. Len(d) : p \in 1 .. Len(e) /\ e[p] = d[p] /\ f[p] = e[p]
  BY DEF Keeps
<1>2. Len(d) <= Len(f)
  BY DEF Keeps
<1> QED
  BY <1>1, <1>2 DEF Keeps

(* The index and the strings file go together.                             *)
LEMMA IndexStep ==
    ASSUME LogTypeOK, LogStep
    PROVE  /\ Keeps(index, index') /\ Len(index') \in Nat
           /\ Readable /\ IndexInv => IndexInv'
<1>1. index \in Seq(Strings) /\ strFile \in Seq(Lines) /\ conf' = conf
  BY TakenStep DEF LogTypeOK, IndexOK
<1>2. Format' = Format
  BY <1>1 DEF Format
<1>3. CASE ~IndexStrings
  <2>1. index' = index /\ strFile' = strFile
    BY <1>3 DEF LogStep, Receive, BackgroundStep, PushLDJSON, PushTrace, WriteUnit, WriteFails,
       WriteToFull, FlushReturns, RecordWritten, RunReturns, CloseStep, CloseLDJSON, CloseFlushes,
       CloseFlushReturns, CloseDescriptor, MainReturns, logVars
  <2>2. Keeps(index, index) /\ Len(index) \in Nat
    BY <1>1, LenProperties DEF Keeps
  <2> QED
    BY <1>2, <2>1, <2>2 DEF IndexInv
<1>4. CASE IndexStrings
  <2> DEFINE e == bg.rec.error
             l == bg.rec.label
             withError == IF e = EmptyString THEN index ELSE WithString(index, e)
             fileError == IF e = EmptyString THEN strFile ELSE AppendFile(index, strFile, e)
  <2>1. /\ bg.pc = "push"
        /\ index' = (IF l = EmptyString THEN withError ELSE WithString(withError, l))
        /\ strFile' = (IF l = EmptyString THEN fileError ELSE AppendFile(withError, fileError, l))
    BY <1>4 DEF IndexStrings, At
  <2>2. bg.rec = taken[Len(taken)] /\ Len(taken) \in 1 .. Len(taken) /\ bg.rec \in Results
    BY <2>1, TakenFacts DEF LogTypeOK, BackgroundOK
  <2>3. e \in Strings /\ l \in Strings
    BY <2>2 DEF Results
  <2>4. Readable /\ Format = "binary" => Len(e) <= 1 /\ Len(l) <= 1
    <3>1. DOMAIN taken = 1 .. Len(taken)
      BY TakenFacts, LenProperties
    <3> QED
      BY <2>2, <3>1 DEF Readable
  <2> HIDE DEF e, l
  <2>5. withError \in Seq(Strings) /\ Keeps(index, withError)
    BY <1>1, <2>3, IndexGrows
  <2>6. ASSUME Readable, Format = "binary", index = Load(strFile)
        PROVE  withError = Load(fileError) /\ fileError \in Seq(Lines)
    BY <1>1, <2>3, <2>4, <2>6, StringAdded
  <2> HIDE DEF withError, fileError
  <2>7. index' \in Seq(Strings) /\ Keeps(withError, index')
    BY <2>1, <2>3, <2>5, IndexGrows
  <2>8. Keeps(index, index') /\ Len(index') \in Nat
    <3>1. Len(index) \in Nat /\ Len(withError) \in Nat /\ Len(index') \in Nat
      BY <1>1, <2>5, <2>7, LenProperties
    <3> QED
      BY <2>5, <2>7, <3>1, KeepsOn
  <2>9. ASSUME Readable, Format = "binary", index = Load(strFile)
        PROVE  index' = Load(strFile')
    <3>1. withError = Load(fileError) /\ fileError \in Seq(Lines)
      BY <2>6, <2>9
    <3>2. Len(l) <= 1
      BY <2>4, <2>9
    <3>3. WithString(withError, l) = Load(AppendFile(withError, fileError, l))
      BY <2>3, <3>1, <3>2, StringAdded
    <3> QED
      BY <2>1, <3>1, <3>3
  <2> QED
    BY <1>2, <2>8, <2>9 DEF IndexInv
<1> QED
  BY <1>3, <1>4

-----------------------------------------------------------------------------
(* What a record of the file is read as                                    *)

(* The number of a string leads back to it.                                *)
LEMMA NumberBack ==
    ASSUME NEW list \in Seq(Strings), Len(list) <= IndexSpace, NEW s, Known(list, s)
    PROVE  /\ Idx(list, s) \in 0 .. Len(list) - 1
           /\ list[Idx(list, s) + 1] = s
<1> DEFINE p == Place(list, s)
<1>1. Len(list) \in Nat /\ IndexSpace \in Nat \ {0}
  BY LenProperties, IndexSpaceAssumption
<1>2. p \in 1 .. Len(list) /\ list[p] = s
  <2>1. p \in 0 .. Len(list) /\ (p # 0 => list[p] = s)
    BY PlaceFound
  <2>2. p # 0
    BY DEF Known
  <2> HIDE DEF p
  <2> QED
    BY <1>1, <2>1, <2>2
<1>3. Idx(list, s) = (p - 1) % IndexSpace
  BY DEF Idx
<1> HIDE DEF p
<1>4. p - 1 \in Nat /\ p - 1 < IndexSpace
  BY <1>1, <1>2
<1>5. \A x \in Nat : x < IndexSpace => x % IndexSpace = x
  BY <1>1
<1>6. Idx(list, s) = p - 1
  BY <1>3, <1>4, <1>5
<1> QED
  BY <1>1, <1>2, <1>6

(* A result whose strings are put back in place of their numbers.          *)
LEMMA StringsBack ==
    ASSUME NEW r \in Results, NEW x, NEW y, NEW z,
           z = [[r EXCEPT !.label = x, !.error = y] EXCEPT !.label = r.label, !.error = r.error]
    PROVE  z = r
<1> DEFINE q == [r EXCEPT !.label = x, !.error = y]
<1>1. r = [label |-> r.label, error |-> r.error, ts |-> r.ts, status |-> r.status]
  BY DEF Results
<1>2. q = [label |-> x, error |-> y, ts |-> r.ts, status |-> r.status]
  BY NumbersInRecord
<1> HIDE DEF q
<1>3. z = [q EXCEPT !.label = r.label, !.error = r.error]
  BY DEF q
<1>4. z = [label |-> r.label, error |-> r.error, ts |-> r.ts, status |-> r.status]
  BY <1>2, <1>3
<1> QED
  BY <1>1, <1>4

(* The reader makes of a record the result that it is of.                  *)
LEMMA RecordDecoded ==
    ASSUME LogTypeOK, Readable, IndexInv, NEW map, Len(map) \in Nat, Keeps(map, index),
           NEW i \in 1 .. Len(taken), Format = "binary" => Numbers(i),
           Format = "binary" => ~Missing(map, Encoded(Format, taken[i])),
           NEW frame, frame = Units(Encoded(Format, taken[i]))
    PROVE  Decoded(map, frame) = taken[i]
<1> DEFINE r == taken[i]
           rec == Encoded(Format, r)
<1>1. r \in Results
  BY TakenFacts
<1>2. frame[1].rec = rec
  <2>1. 1 \in 1 .. RecordLen
    BY ResultLogAssumption
  <2> HIDE DEF rec
  <2>2. Units(rec)[1] = [part |-> 1, rec |-> rec]
    BY <2>1 DEF Units
  <2>3. frame[1] = [part |-> 1, rec |-> rec]
    BY <2>2 DEF rec
  <2> QED
    BY <2>3
<1>3. Decoded(map, frame) =
        IF Format # "binary" THEN rec
        ELSE [rec EXCEPT !.label = Lookup(map, rec.label),
                         !.error = IF rec.error > 0 THEN Lookup(map, rec.error) ELSE EmptyString]
  BY <1>2 DEF Decoded
<1>4. CASE Format # "binary"
  BY <1>3, <1>4 DEF Encoded
<1>5. CASE Format = "binary"
  <2> DEFINE x == Idx(index, r.label)
             y == Idx(index, r.error)
  <2>1. rec = [r EXCEPT !.label = x, !.error = y]
    BY <1>5 DEF Encoded
  <2>2. /\ index \in Seq(Strings) /\ Len(index) <= IndexSpace
        /\ Known(index, r.label) /\ Known(index, r.error)
    BY <1>5 DEF LogTypeOK, IndexOK, Readable, Numbers
  <2>3. index[1] = EmptyString
    <3>1. strFile \in Seq(Lines) /\ index = Load(strFile)
      BY <1>5 DEF LogTypeOK, IndexOK, IndexInv
    <3> QED
      BY <3>1, LoadLines
  <2> HIDE DEF r
  <2>4. /\ x \in 0 .. Len(index) - 1 /\ index[x + 1] = r.label
        /\ y \in 0 .. Len(index) - 1 /\ index[y + 1] = r.error
    BY <2>2, NumberBack
  <2> HIDE DEF x, y
  <2>5. rec.label = x /\ rec.error = y
    <3>1. rec = [label |-> x, error |-> y, ts |-> r.ts, status |-> r.status]
      BY <1>1, <2>1, NumbersInRecord DEF r
    <3> HIDE DEF rec
    <3> QED
      BY <3>1
  <2>6. CanGet(map, x) /\ CanGet(map, y)
    <3>1. ~Missing(map, rec)
      BY <1>5 DEF r
    <3> HIDE DEF rec
    <3> QED
      BY <2>5, <3>1 DEF Missing
  <2>7. Len(index) \in Nat
    BY <2>2, LenProperties
  <2>8. ASSUME NEW n \in 0 .. Len(index) - 1, CanGet(map, n)
        PROVE  Lookup(map, n) = index[n + 1]
    <3>1. n + 1 \in 1 .. Len(map)
      BY <2>7, <2>8 DEF CanGet
    <3>2. map[n + 1] = index[n + 1]
      BY <3>1 DEF Keeps
    <3> QED
      BY <2>8, <3>2 DEF Lookup, Get
  <2>9. Lookup(map, x) = r.label /\ Lookup(map, y) = r.error
    BY <2>4, <2>6, <2>8
  <2>10. (IF y > 0 THEN Lookup(map, y) ELSE EmptyString) = r.error
    <3>1. ~(y > 0) => y + 1 = 1
      BY <2>4, <2>7
    <3>2. ~(y > 0) => index[y + 1] = EmptyString
      BY <2>3, <3>1
    <3> QED
      BY <2>4, <2>9, <3>2
  <2>11. Decoded(map, frame) = [rec EXCEPT !.label = r.label, !.error = r.error]
    <3> HIDE DEF rec
    <3> QED
      BY <1>3, <1>5, <2>5, <2>9, <2>10
  <2>12. Decoded(map, frame) = r
    <3>1. Decoded(map, frame) = [[r EXCEPT !.label = x, !.error = y] EXCEPT !.label = r.label, !.error = r.error]
      BY <2>1, <2>11
    <3> QED
      BY <1>1, <3>1, StringsBack DEF r
  <2> QED
    BY <2>12 DEF r
<1> QED
  BY <1>4, <1>5

(* The writers of the two formats record every result.                     *)
LEMMA OffsetOfAll ==
    ASSUME NEW o, o # "trace", NEW i \in Nat \ {0}
    PROVE  Offset(o, i) = (i - 1) * RecordLen
<1>1. {j \in 1 .. i - 1 : Recorded(o, taken[j])} = 1 .. i - 1
  BY DEF Recorded
<1>2. Cardinality(1 .. i - 1) = i - 1
  BY FS_Interval
<1> QED
  BY <1>1, <1>2 DEF Offset

(* A whole record of a beginning of some data.                             *)
LEMMA InDataBefore ==
    ASSUME NEW o, o # "trace", NEW i \in Nat \ {0}, NEW d, NEW e, Len(d) \in Nat, Keeps(d, e),
           InData(o, i, e), i * RecordLen <= Len(d)
    PROVE  InData(o, i, d)
<1> DEFINE x == Offset(o, i)
<1>1. RecordLen \in Nat \ {0} /\ x = (i - 1) * RecordLen /\ i - 1 \in Nat /\ (i - 1) + 1 = i
  BY ResultLogAssumption, OffsetOfAll
<1>2. ((i - 1) + 1) * RecordLen = (i - 1) * RecordLen + RecordLen /\ (i - 1) * RecordLen \in Nat
  BY <1>1, Products
<1>3. x \in Nat /\ x + RecordLen <= Len(d)
  BY <1>1, <1>2
<1>4. \A part \in 1 .. RecordLen : e[x + part] = Units(Encoded(o, taken[i]))[part]
  BY DEF InData
<1> HIDE DEF x
<1>5. \A part \in 1 .. RecordLen : d[x + part] = e[x + part]
  <2>1. \A part \in 1 .. RecordLen : x + part \in 1 .. Len(d)
    BY <1>1, <1>3
  <2> QED
    BY <2>1 DEF Keeps
<1> QED
  BY <1>3, <1>4, <1>5 DEF InData, x

(* What was given to a writer while the output is open: whole records are  *)
(* those of results that were taken.                                       *)
LEMMA OpenRecords ==
    ASSUME LogTypeOK, NumbersInv, OpenInv, closer.pc = "away", Format # "trace",
           NEW i \in Nat \ {0}, i * RecordLen <= Len(Data(1))
    PROVE  /\ i \in 1 .. Len(taken) /\ InData(Format, i, Data(1))
           /\ i <= Done(1) \/ Recording(1)
<1> DEFINE o == conf.outs[1]
           n == Len(taken)
           d == Data(1)
<1>1. /\ 1 \in 1 .. Len(conf.outs) /\ n \in Nat /\ RecordLen \in Nat \ {0} /\ o = Format
      /\ bg.part \in 1 .. RecordLen + 1 /\ bg.k \in 1 .. Len(conf.outs)
  BY LogFacts DEF Format
<1>2. OpenWriter(1) /\ Len(d) \in Nat
  BY <1>1, DataFacts DEF OpenInv
<1>3. \A j : Recorded(o, taken[j])
  BY <1>1 DEF Recorded
<1>4. Done(1) \in 0 .. n
  <2>1. bg.pc # "idle" => n \in 1 .. n
    BY TakenFacts
  <2> QED
    BY <1>1, <2>1 DEF Done
<1> HIDE DEF d
<1>5. CASE ~Recording(1)
  <2>1. Len(d) = Offset(o, Done(1) + 1) /\ Holds(o, Done(1), d)
    BY <1>2, <1>5 DEF OpenWriter, d
  <2>2. Done(1) + 1 \in Nat \ {0} /\ (Done(1) + 1) - 1 = Done(1) /\ Done(1) \in Nat
    BY <1>1, <1>4
  <2>3. Len(d) = Done(1) * RecordLen
    BY <1>1, <2>1, <2>2, OffsetOfAll
  <2>4. i <= Done(1)
    <3>1. i * RecordLen <= Done(1) * RecordLen
      BY <2>3 DEF d
    <3> QED
      BY <1>1, <2>2, <3>1, Factors
  <2>5. i \in 1 .. Done(1) /\ i \in 1 .. n
    BY <1>1, <1>4, <2>4
  <2>6. InData(o, i, d)
    BY <1>3, <2>1, <2>5 DEF Holds
  <2> QED
    BY <1>1, <2>4, <2>5, <2>6 DEF d
<1>6. CASE Recording(1)
  <2>1. bg.pc # "idle" /\ bg.k = 1
    BY <1>6 DEF Recording
  <2>2. Done(1) = n - 1 /\ n \in Nat \ {0}
    BY <1>1, <2>1, TakenFacts DEF Done
  <2>3. /\ bg.rec = Encoded(o, taken[n]) /\ Partial(o, bg.rec, bg.part - 1, d)
        /\ Holds(o, n - 1, d)
    BY <1>2, <1>6, <2>2 DEF OpenWriter, d
  <2>4. Len(d) = (n - 1) * RecordLen + (bg.part - 1)
    <3>1. Len(d) = Offset(o, n) + (bg.part - 1)
      BY <2>3 DEF Partial
    <3> HIDE DEF n
    <3>2. Offset(o, n) = (n - 1) * RecordLen
      BY <1>1, <2>2, OffsetOfAll
    <3> QED
      BY <3>1, <3>2
  <2> HIDE DEF n
  <2>5. /\ n - 1 \in Nat /\ (n - 1) + 1 = n
        /\ (n - 1) * RecordLen \in Nat /\ i * RecordLen \in Nat
        /\ ((n - 1) + 1) * RecordLen = (n - 1) * RecordLen + RecordLen
    <3>1. n - 1 \in Nat /\ (n - 1) + 1 = n
      BY <2>2
    <3> QED
      BY <1>1, <3>1, Products
  <2> DEFINE x == (n - 1) * RecordLen
             y == i * RecordLen
             z == n * RecordLen
             p == bg.part - 1
  <2>6. /\ x \in Nat /\ y \in Nat /\ z = x + RecordLen
        /\ p \in 0 .. RecordLen /\ Len(d) = x + p /\ y <= x + p
    BY <1>1, <2>4, <2>5 DEF d
  <2> HIDE DEF x, y, z, p
  <2>7. y <= z
    BY <1>1, <2>6
  <2>8. i <= n
    BY <1>1, <2>2, <2>7, Factors DEF y, z
  <2>9. i \in 1 .. n
    BY <2>2, <2>8
  <2>10. CASE i \in 1 .. n - 1
    <3>1. InData(o, i, d)
      BY <1>3, <2>3, <2>10 DEF Holds
    <3> QED
      BY <1>1, <1>6, <2>9, <3>1 DEF d, n
  <2>11. CASE i = n
    <3>1. y = z
      BY <2>11 DEF y, z
    <3>2. p = RecordLen
      BY <1>1, <2>6, <3>1
    <3>3. Partial(o, Encoded(o, taken[n]), RecordLen, d)
      BY <2>3, <3>2 DEF p
    <3>4. Holds(o, n, d)
      BY <1>3, <2>1, <2>3, <3>3, RecordDone DEF n
    <3>5. InData(o, i, d)
      BY <1>3, <2>9, <3>4 DEF Holds
    <3> QED
      BY <1>1, <1>6, <2>9, <3>5 DEF d, n
  <2>12. i \in 1 .. n - 1 \/ i = n
    BY <2>2, <2>9
  <2> QED
    BY <2>10, <2>11, <2>12
<1> QED
  BY <1>5, <1>6

(* A whole record of the results file is the one of the result that was    *)
(* taken in its place; once the output is being closed, of the promised.   *)
LEMMA WholeRecords ==
    ASSUME LogTypeOK, NumbersInv, OpenInv, ClosingInv, Format # "trace",
           NEW i \in Nat \ {0}, i * RecordLen <= Len(ResultsFile),
           closer.pc = "away" \/ i <= promised
    PROVE  /\ i \in 1 .. Len(taken) /\ (Format = "binary" => Numbers(i))
           /\ InData(Format, i, ResultsFile)
<1> DEFINE o == conf.outs[1]
           f == out[o].file
           d == Data(1)
           S == Cells(RecordsOf(o))
<1>1. /\ 1 \in 1 .. Len(conf.outs) /\ Len(taken) \in Nat /\ RecordLen \in Nat \ {0}
      /\ o = Format /\ f = ResultsFile /\ promised \in 0 .. Len(taken)
  BY LogFacts DEF Format, ResultsFile
<1>2. /\ f \in Seq(S) /\ out[o].buf \in Seq(S) /\ Len(d) \in Nat /\ Len(f) \in Nat
      /\ Keeps(f, f) /\ Keeps(f, f \o out[o].buf) /\ (d = f \/ d = f \o out[o].buf)
  <2>1. f \in Seq(S) /\ out[o].buf \in Seq(S) /\ Len(d) \in Nat
    BY <1>1, DataFacts
  <2>2. d = f \/ d = f \o out[o].buf
    BY DEF Data
  <2> HIDE DEF f, d, S
  <2>3. Len(f) \in Nat /\ Keeps(f, f) /\ Keeps(f, f \o out[o].buf)
    BY <2>1, JoinFacts
  <2> QED
    BY <2>1, <2>2, <2>3
<1>3. Keeps(f, d)
  BY <1>2
<1>4. Recorded(o, taken[i])
  BY <1>1 DEF Recorded
<1>5. i * RecordLen <= Len(f) /\ i * RecordLen \in Nat
  BY <1>1, Products
<1>6. InData(o, i, d) => InData(o, i, f)
  BY <1>1, <1>2, <1>3, <1>5, InDataBefore
<1>7. CASE closer.pc = "away"
  <2>1. i * RecordLen <= Len(d)
    <3>1. Len(f) <= Len(d)
      BY <1>3 DEF Keeps
    <3> DEFINE x == i * RecordLen
    <3> HIDE DEF f, d
    <3>2. /\ x \in Nat /\ Len(f) \in Nat /\ Len(d) \in Nat
          /\ x <= Len(f) /\ Len(f) <= Len(d)
      BY <1>2, <1>5, <3>1
    <3> HIDE DEF x
    <3>3. x <= Len(d)
      BY ONLY <3>2
    <3> QED
      BY <3>3 DEF x
  <2>2. /\ i \in 1 .. Len(taken) /\ InData(Format, i, Data(1))
        /\ i <= Done(1) \/ Recording(1)
    BY <1>7, <2>1, OpenRecords
  <2>3. Format = "binary" => Numbers(i)
    BY <1>1, <2>2 DEF NumbersInv
  <2> QED
    BY <1>1, <1>6, <2>2, <2>3
<1>8. CASE closer.pc # "away"
  <2>1. i \in 1 .. promised /\ i \in 1 .. Len(taken)
    BY <1>1, <1>8
  <2>2. i <= Done(1)
    <3>1. bg.pc # "idle" => promised <= Len(taken) - 1
      BY DEF ClosingInv, Busy
    <3> QED
      BY <1>1, <2>1, <3>1 DEF Done
  <2>3. InFile(1) \/ InBuffer(1)
    BY <1>1, <1>8 DEF ClosingInv
  <2>4. InData(o, i, f) \/ InData(o, i, d)
    BY <1>4, <2>1, <2>3 DEF InFile, InBuffer, Holds
  <2>5. Format = "binary" => Numbers(i)
    BY <1>1, <2>1, <2>2 DEF NumbersInv
  <2> QED
    BY <1>1, <1>6, <2>1, <2>4, <2>5
<1> QED
  BY <1>7, <1>8

-----------------------------------------------------------------------------
(* What the reader has seen and kept                                       *)

(* Two parts that have the same units are the same.                        *)
LEMMA SameParts ==
    ASSUME NEW S, NEW d \in Seq(S), NEW T, NEW e \in Seq(T), Len(d) = Len(e),
           \A p \in 1 .. Len(d) : d[p] = e[p]
    PROVE  d = e
<1>1. /\ d \in [1 .. Len(d) -> S] /\ e \in [1 .. Len(e) -> T]
  BY LenProperties
<1>2. e \in [1 .. Len(d) -> T]
  BY <1>1
<1> QED
  BY <1>1, <1>2

(* A file that has grown begins as before.                                 *)
LEMMA SameBeginning ==
    ASSUME NEW S, NEW d \in Seq(S), NEW T, NEW e \in Seq(T), Keeps(d, e),
           NEW a \in Nat, NEW b \in Nat, a <= b, b <= Len(d)
    PROVE  SubSeq(d, a + 1, b) = SubSeq(e, a + 1, b)
<1>1. Len(d) \in Nat /\ Len(e) \in Nat
  BY LenProperties
<1>2. b <= Len(e) /\ 0 \in Nat /\ 0 <= 0 /\ 0 <= b - a
  BY <1>1 DEF Keeps
<1>3. /\ SubSeq(d, a + 1, b) \in Seq(S) /\ Len(SubSeq(d, a + 1, b)) = b - a
      /\ \A i \in 1 .. b - a : SubSeq(d, a + 1, b)[i] = d[a + i]
  BY <1>2, PartOfPart
<1>4. /\ SubSeq(e, a + 1, b) \in Seq(T) /\ Len(SubSeq(e, a + 1, b)) = b - a
      /\ \A i \in 1 .. b - a : SubSeq(e, a + 1, b)[i] = e[a + i]
  BY <1>2, PartOfPart
<1>5. \A i \in 1 .. b - a : a + i \in 1 .. Len(d)
  BY <1>1
<1>6. \A i \in 1 .. b - a : d[a + i] = e[a + i]
  BY <1>5 DEF Keeps
<1> DEFINE u == SubSeq(d, a + 1, b)
           v == SubSeq(e, a + 1, b)
<1>7. u \in Seq(S) /\ v \in Seq(T) /\ Len(u) = Len(v) /\ Len(u) = b - a
  BY <1>3, <1>4
<1>8. \A i \in 1 .. b - a : u[i] = v[i]
  BY <1>3, <1>4, <1>6
<1> HIDE DEF u, v
<1>9. \A i \in 1 .. Len(u) : u[i] = v[i]
  BY <1>7, <1>8
<1>10. u = v
  BY ONLY <1>7, <1>9, SameParts
<1> QED
  BY <1>10 DEF u, v

(* The results of a read come after those of the reads before.             *)
LEMMA JoinAny ==
    ASSUME NEW n \in Nat, NEW s, s = [i \in 1 .. n |-> s[i]],
           NEW m \in Nat, NEW t, t = [i \in 1 .. m |-> t[i]]
    PROVE  /\ Len(s \o t) = n + m /\ s \o t = [i \in 1 .. n + m |-> (s \o t)[i]]
           /\ SubSeq(s \o t, 1, n) = s
           /\ \A k \in 1 .. m : (s \o t)[n + k] = t[k]
           /\ m = 0 => s \o t = s
<1> DEFINE S == {s[i] : i \in 1 .. n} \cup {t[i] : i \in 1 .. m}
           u == s \o t
           v == SubSeq(u, 1, n)
<1>1. s \in Seq(S) /\ Len(s) = n
  <2>1. s \in [1 .. n -> S]
    <3>1. \A i \in 1 .. n : s[i] \in S
      OBVIOUS
    <3> HIDE DEF S
    <3> QED
      BY <3>1
  <2> HIDE DEF S
  <2> QED
    BY <2>1
<1>2. t \in Seq(S) /\ Len(t) = m
  <2>1. t \in [1 .. m -> S]
    <3>1. \A i \in 1 .. m : t[i] \in S
      OBVIOUS
    <3> HIDE DEF S
    <3> QED
      BY <3>1
  <2> HIDE DEF S
  <2> QED
    BY <2>1
<1> HIDE DEF S
<1>3. /\ u \in Seq(S) /\ Len(u) = n + m
      /\ \A i \in 1 .. n + m : u[i] = IF i <= n THEN s[i] ELSE t[i - n]
  BY <1>1, <1>2, ConcatProperties
<1> HIDE DEF u
<1>4. u = [i \in 1 .. n + m |-> u[i]]
  <2>1. u \in [1 .. n + m -> S]
    BY <1>3, LenProperties
  <2> QED
    BY <2>1
<1>5. v = s
  <2>1. \A i \in 1 .. n : u[i] \in S /\ u[i] = s[i]
    <3>1. \A i \in 1 .. n : i \in 1 .. n + m /\ i <= n
      OBVIOUS
    <3>2. \A i \in 1 .. n : s[i] \in S
      BY <1>1, ElementOfSeq
    <3> QED
      BY <1>3, <3>1, <3>2
  <2>2. /\ v \in Seq(S) /\ Len(v) = IF 1 <= n THEN n - 1 + 1 ELSE 0
        /\ \A i \in 1 .. n - 1 + 1 : v[i] = u[1 + i - 1]
    BY <2>1, SubSeqProperties
  <2> HIDE DEF v
  <2>3. n - 1 + 1 = n /\ Len(v) = n /\ \A i \in 1 .. n : 1 + i - 1 = i
    BY <2>2
  <2>4. \A i \in 1 .. n : v[i] = s[i]
    BY <2>1, <2>2, <2>3
  <2> QED
    BY <1>1, <2>2, <2>3, <2>4, SeqEqual
<1>6. \A k \in 1 .. m : u[n + k] = t[k]
  <2> SUFFICES ASSUME NEW k \in 1 .. m PROVE u[n + k] = t[k]
    OBVIOUS
  <2>1. n + k \in 1 .. n + m /\ ~(n + k <= n) /\ (n + k) - n = k
    OBVIOUS
  <2> QED
    BY <1>3, <2>1
<1>7. m = 0 => u = s
  <2> SUFFICES ASSUME m = 0 PROVE u = s
    OBVIOUS
  <2>1. Len(u) = n /\ \A i \in 1 .. n : i \in 1 .. n + m /\ i <= n
    BY <1>3
  <2>2. \A i \in 1 .. n : u[i] = s[i]
    BY <1>3, <2>1
  <2> QED
    BY <1>1, <1>3, <2>1, <2>2, SeqEqual
<1> QED
  BY <1>3, <1>4, <1>5, <1>6, <1>7 DEF u, v

(* The file that the reader follows.                                       *)
LEMMA FileFacts ==
    ASSUME LogTypeOK
    PROVE  /\ ResultsFile \in Seq(Cells(RecordsOf(Format))) /\ Len(ResultsFile) \in Nat
           /\ Format \in Writers
<1>1. 1 \in 1 .. Len(conf.outs)
  BY LogFacts
<1>2. /\ conf.outs[1] \in Writers
      /\ out[conf.outs[1]].file \in Seq(Cells(RecordsOf(conf.outs[1])))
  BY <1>1, DataFacts
<1>3. ResultsFile \in Seq(Cells(RecordsOf(Format))) /\ Format \in Writers
  BY <1>2 DEF Format, ResultsFile
<1> QED
  BY <1>3, LenProperties

(* The units of a whole record of a result.                                *)
LEMMA RecordUnits ==
    ASSUME LogTypeOK, Format # "trace", NEW i \in Nat \ {0}, i * RecordLen <= Len(ResultsFile),
           InData(Format, i, ResultsFile)
    PROVE  SubSeq(ResultsFile, (i - 1) * RecordLen + 1, i * RecordLen)
             = Units(Encoded(Format, taken[i]))
<1> DEFINE f == ResultsFile
           x == (i - 1) * RecordLen
           y == i * RecordLen
           u == SubSeq(f, x + 1, y)
           rec == Encoded(Format, taken[i])
           S == Cells(RecordsOf(Format))
<1>1. f \in Seq(S)
  BY FileFacts
<1>2. /\ RecordLen \in Nat \ {0} /\ i - 1 \in Nat /\ (i - 1) + 1 = i /\ Len(f) \in Nat
      /\ Offset(Format, i) = x
  BY <1>1, ResultLogAssumption, OffsetOfAll, LenProperties
<1>3. x \in Nat /\ y \in Nat /\ y = x + RecordLen
  <2>1. (i - 1) * RecordLen \in Nat /\ ((i - 1) + 1) * RecordLen = (i - 1) * RecordLen + RecordLen
    BY <1>2, Products
  <2>2. i * RecordLen = (i - 1) * RecordLen + RecordLen
    BY <1>2, <2>1
  <2> HIDE DEF x, y
  <2>3. x \in Nat /\ y = x + RecordLen
    BY <2>1, <2>2 DEF x, y
  <2> QED
    BY <1>2, <2>3
<1>4. \A part \in 1 .. RecordLen : f[x + part] = Units(rec)[part]
  BY <1>2 DEF InData
<1>5. y <= Len(f)
  OBVIOUS
<1> HIDE DEF f, x, y, rec, S
<1>6. u \in Seq(S) /\ Len(u) = RecordLen /\ \A part \in 1 .. RecordLen : u[part] = f[x + part]
  <2>1. x <= y /\ y - x = RecordLen /\ 0 \in Nat /\ 0 <= 0 /\ 0 <= y - x
    BY <1>2, <1>3
  <2> QED
    BY <1>1, <1>3, <1>5, <2>1, PartOfPart
<1> HIDE DEF u
<1>7. Units(rec) \in Seq(Cells({rec})) /\ Len(Units(rec)) = RecordLen
  <2>1. rec \in {rec}
    OBVIOUS
  <2> QED
    BY <2>1, UnitsType
<1>8. \A part \in 1 .. RecordLen : u[part] = Units(rec)[part]
  BY <1>4, <1>6
<1>9. u = Units(rec)
  BY <1>6, <1>7, <1>8, SameParts
<1> QED
  BY <1>9 DEF f, x, y, u, rec

(* The reader has seen the whole records up to its offset, and has kept    *)
(* the units of the one that the offset cuts.  Its strings are those of    *)
(* encarno, as far as it has them.                                         *)
ReaderInv ==
    LET n == Len(reader.seen)
    IN  /\ n \in Nat /\ reader.seen = [i \in 1 .. n |-> reader.seen[i]]
        /\ reader.offset \in Nat /\ reader.offset <= Len(ResultsFile)
        /\ n * RecordLen <= reader.offset /\ reader.offset < n * RecordLen + RecordLen
        /\ reader.partial = SubSeq(ResultsFile, n * RecordLen + 1, reader.offset)
        /\ Format = "binary" => Len(reader.strMap) \in Nat /\ Keeps(reader.strMap, index)

(* What the reader has is not disturbed by what encarno goes on to write.  *)
LEMMA ReaderStays ==
    ASSUME LogTypeOK, LogTypeOK', ReaderInv, LogStep, reader' = reader
    PROVE  ReaderInv'
<1> DEFINE n == Len(reader.seen)
           x == n * RecordLen
           f == ResultsFile
           g == ResultsFile'
           S == Cells(RecordsOf(Format))
           T == Cells(RecordsOf(Format)')
<1>1. /\ n \in Nat /\ reader.seen = [i \in 1 .. n |-> reader.seen[i]]
      /\ reader.offset \in Nat /\ reader.offset <= Len(f)
      /\ x <= reader.offset /\ reader.offset < x + RecordLen
      /\ reader.partial = SubSeq(f, x + 1, reader.offset)
      /\ Format = "binary" => Len(reader.strMap) \in Nat /\ Keeps(reader.strMap, index)
  BY DEF ReaderInv
<1>2. conf' = conf /\ Format' = Format
  BY TakenStep DEF Format
<1>3. f \in Seq(S) /\ Format \in Writers /\ Len(f) \in Nat
  BY FileFacts
<1>4. g \in Seq(T) /\ g = out'[Format].file
  <2>1. g = out'[Format].file
    BY <1>2 DEF ResultsFile
  <2>2. out'[Format] \in Buffers(RecordsOf(Format)')
    BY <1>2, <1>3 DEF LogTypeOK, OutOK
  <2> QED
    BY <2>1, <2>2 DEF Buffers
<1>5. Keeps(f, g)
  BY <1>3, <1>4, FilesGrow DEF ResultsFile
<1>6. Len(g) \in Nat /\ Len(f) <= Len(g)
  BY <1>4, <1>5, LenProperties DEF Keeps
<1>7. x \in Nat
  BY <1>1, ResultLogAssumption, Products
<1>8. Format = "binary" => Keeps(reader.strMap, index')
  <2> SUFFICES ASSUME Format = "binary" PROVE Keeps(reader.strMap, index')
    OBVIOUS
  <2>1. Keeps(index, index') /\ Len(index') \in Nat /\ Len(index) \in Nat
    BY IndexStep, LogFacts
  <2> QED
    BY <1>1, <2>1, KeepsOn
<1>9. SubSeq(f, x + 1, reader.offset) = SubSeq(g, x + 1, reader.offset)
  <2> DEFINE b == reader.offset
  <2>1. b \in Nat /\ x <= b /\ b <= Len(f)
    BY <1>1
  <2> HIDE DEF x, b, f, g, S, T
  <2>2. /\ f \in Seq(S) /\ g \in Seq(T) /\ Keeps(f, g)
        /\ x \in Nat /\ b \in Nat /\ x <= b /\ b <= Len(f)
    BY <1>3, <1>4, <1>5, <1>7, <2>1
  <2>3. SubSeq(f, x + 1, b) = SubSeq(g, x + 1, b)
    BY ONLY <2>2, SameBeginning
  <2> QED
    BY <2>3 DEF b
<1>10. reader.offset <= Len(g)
  <2> HIDE DEF f, g
  <2> QED
    BY <1>1, <1>3, <1>6
<1> QED
  BY <1>1, <1>2, <1>8, <1>9, <1>10 DEF ReaderInv

(* The reader that starts has nothing, and the input strings are those of  *)
(* the index.                                                              *)
LEMMA ReaderInit ==
    ASSUME LogTypeOK, ResultLogInit, KPIReaderInit
    PROVE  ReaderInv /\ IndexInv
<1>1. RecordLen \in Nat \ {0} /\ Len(ResultsFile) \in Nat /\ 0 * RecordLen = 0
  BY ResultLogAssumption, FileFacts
<1>2. index = Load(strFile) /\ strFile \in Seq(Lines)
  BY DEF ResultLogInit, LogTypeOK, IndexOK
<1>3. /\ reader.offset = 0 /\ reader.partial = << >> /\ reader.seen = << >>
      /\ reader.strMap = <<EmptyString>>
  BY DEF KPIReaderInit
<1>4. Len(<<EmptyString>>) = 1 /\ <<EmptyString>>[1] = EmptyString
  OBVIOUS
<1>5. Keeps(reader.strMap, index) /\ Len(reader.strMap) \in Nat
  <2>1. Len(index) = Len(strFile) + 1 /\ Len(strFile) \in Nat /\ index[1] = EmptyString
    BY <1>2, LoadLines, LenProperties
  <2> QED
    BY <1>3, <1>4, <2>1 DEF Keeps
<1>6. reader.partial = SubSeq(ResultsFile, 0 * RecordLen + 1, 0)
  <2>1. SubSeq(ResultsFile, 1, 0) = << >>
    BY SubSeqEmpty
  <2> QED
    BY <1>1, <1>3, <2>1
<1>7. Len(reader.seen) = 0 /\ reader.seen = [i \in 1 .. 0 |-> reader.seen[i]]
  BY <1>3
<1> QED
  BY <1>1, <1>2, <1>3, <1>5, <1>6, <1>7 DEF ReaderInv, IndexInv

(* The strings that the reader has for some records.                       *)
MapFor(frames) ==
    IF Format = "binary" /\ \E f \in ToSet(frames) : Missing(reader.strMap, f[1].rec)
    THEN Load(strFile) ELSE reader.strMap

(* What a read does to the reader.                                         *)
LEMMA ReadEffect ==
    ASSUME LogTypeOK, Readable, LinesInv, ReaderInv, Read
    PROVE  /\ UNCHANGED <<conf, logVars>>
           /\ reader'.offset \in Nat /\ reader'.offset <= Len(ResultsFile)
           /\ \E m \in Nat :
                  LET n == Len(reader.seen)
                      map == MapFor(RecordsIn(ResultsFile, n, m))
                  IN  /\ (n + m) * RecordLen <= reader'.offset
                      /\ reader'.offset < (n + m) * RecordLen + RecordLen
                      /\ reader'.partial
                           = SubSeq(ResultsFile, (n + m) * RecordLen + 1, reader'.offset)
                      /\ reader'.strMap = map
                      /\ reader'.seen = reader.seen
                           \o [k \in 1 .. m |-> Decoded(map, RecordsIn(ResultsFile, n, m)[k])]
<1> DEFINE n == Len(reader.seen)
           f == ResultsFile
           S == Cells(RecordsOf(Format))
           from == reader.offset
           to == IF from + ReadSize < Len(f) THEN from + ReadSize ELSE Len(f)
           data == reader.partial \o NewData
           frames == Frames(data)
           map == MapFor(frames)
<1>1. /\ n \in Nat /\ from \in Nat /\ from <= Len(f)
      /\ n * RecordLen <= from /\ from < n * RecordLen + RecordLen
      /\ reader.partial = SubSeq(f, n * RecordLen + 1, from)
  BY DEF ReaderInv
<1>2. f \in Seq(S) /\ Len(f) \in Nat /\ RecordLen \in Nat \ {0} /\ ReadSize \in Nat \ {0}
  BY FileFacts, ResultLogAssumption, ReadSizeAssumption
<1>3. /\ reader'.offset = from + Len(NewData) /\ reader'.partial = Rest(data)
      /\ reader'.strMap = map
      /\ reader'.seen = reader.seen \o [k \in DOMAIN frames |-> Decoded(map, frames[k])]
      /\ UNCHANGED <<conf, logVars>>
  BY DEF Read, MapFor, processVars
<1>4. NewData = SubSeq(f, from + 1, to)
  BY DEF NewData
<1>5. Lined(f)
  <2>1. Format # "binary" => f = out["ldjson"].file
    BY DEF Readable, ResultsFile
  <2> QED
    BY <2>1 DEF LinesInv, EndsAtLines, Lined
<1>6. data = SubSeq(f, n * RecordLen + 1, from) \o SubSeq(f, from + 1, to)
  BY <1>1, <1>4
<1> HIDE DEF n, f, S, from, data, frames, map
<1>7. to \in Nat /\ from <= to /\ to <= Len(f)
  BY <1>1, <1>2
<1> HIDE DEF to
<1>8. PICK m \in Nat :
         /\ (n + m) * RecordLen <= to /\ to < (n + m) * RecordLen + RecordLen
         /\ Rest(data) = SubSeq(f, (n + m) * RecordLen + 1, to)
         /\ Frames(data) = RecordsIn(f, n, m)
  <2> DEFINE e == SubSeq(f, n * RecordLen + 1, from) \o SubSeq(f, from + 1, to)
  <2>1. \E m \in Nat :
           /\ (n + m) * RecordLen <= to /\ to < (n + m) * RecordLen + RecordLen
           /\ Rest(e) = SubSeq(f, (n + m) * RecordLen + 1, to)
           /\ Frames(e) = RecordsIn(f, n, m)
    <3>1. /\ RecordLen \in Nat \ {0} /\ f \in Seq(S) /\ Lined(f)
          /\ n \in Nat /\ from \in Nat /\ to \in Nat
          /\ n * RecordLen <= from /\ from < n * RecordLen + RecordLen
          /\ from <= to /\ to <= Len(f)
      BY <1>1, <1>2, <1>5, <1>7
    <3> QED
      BY ONLY <3>1, ReadFile, Zenon
  <2>2. data = e
    BY <1>6
  <2> HIDE DEF e
  <2> QED
    BY <2>1, <2>2
<1>9. Len(NewData) = to - from
  <2>1. 0 \in Nat /\ 0 <= 0 /\ 0 <= to - from
    BY <1>1, <1>7
  <2> QED
    BY <1>1, <1>2, <1>4, <1>7, <2>1, PartOfPart
<1>10. reader'.offset = to
  BY <1>1, <1>3, <1>7, <1>9
<1>11. frames = RecordsIn(ResultsFile, n, m)
  BY <1>8 DEF frames, f
<1>12. DOMAIN frames = 1 .. m
  BY <1>11 DEF RecordsIn
<1>13. map = MapFor(RecordsIn(ResultsFile, n, m))
  BY <1>11 DEF map
<1>14. reader'.seen = reader.seen
         \o [k \in 1 .. m |-> Decoded(MapFor(RecordsIn(ResultsFile, n, m)), RecordsIn(ResultsFile, n, m)[k])]
  BY <1>3, <1>11, <1>12, <1>13
<1> QED
  BY <1>3, <1>7, <1>8, <1>10, <1>13, <1>14 DEF n, f

(* The strings that the reader has when it decodes the numbers of a        *)
(* result: those of encarno, and all that it needs.                        *)
LEMMA MapFacts ==
    ASSUME LogTypeOK, Readable, IndexInv, ReaderInv, Format = "binary", NEW frames
    PROVE  /\ Len(MapFor(frames)) \in Nat /\ Keeps(MapFor(frames), index)
           /\ \A k \in DOMAIN frames, i \in 1 .. Len(taken) :
                  LET rec == Encoded(Format, taken[i])
                  IN  Numbers(i) /\ frames[k][1].rec = rec => ~Missing(MapFor(frames), rec)
<1>1. /\ index \in Seq(Strings) /\ Len(index) \in Nat /\ Len(index) <= IndexSpace
      /\ index = Load(strFile) /\ Keeps(index, index)
  <2>1. index \in Seq(Strings) /\ Len(index) <= IndexSpace /\ index = Load(strFile)
    BY DEF LogTypeOK, IndexOK, Readable, IndexInv
  <2> QED
    BY <2>1, LenProperties DEF Keeps
<1>2. CASE \E f \in ToSet(frames) : Missing(reader.strMap, f[1].rec)
  <2>1. MapFor(frames) = index
    BY <1>1, <1>2 DEF MapFor
  <2>2. ASSUME NEW i \in 1 .. Len(taken), Numbers(i)
        PROVE  ~Missing(index, Encoded(Format, taken[i]))
    <3> DEFINE r == taken[i]
               x == Idx(index, r.label)
               y == Idx(index, r.error)
               rec == Encoded(Format, r)
    <3>1. x \in 0 .. Len(index) - 1 /\ y \in 0 .. Len(index) - 1
      BY <1>1, <2>2, NumberBack DEF Numbers
    <3>2. r \in Results
      BY TakenFacts
    <3>3. rec = [r EXCEPT !.label = x, !.error = y]
      BY DEF Encoded
    <3> HIDE DEF r, x, y, rec
    <3>4. rec = [label |-> x, error |-> y, ts |-> r.ts, status |-> r.status]
      BY <3>2, <3>3, NumbersInRecord
    <3>5. rec.label = x /\ rec.error = y
      BY <3>4
    <3>6. ~Missing(index, rec)
      BY <1>1, <3>1, <3>5 DEF Missing, CanGet
    <3> QED
      BY <3>6 DEF rec, r
  <2> QED
    BY <1>1, <2>1, <2>2
<1>3. CASE ~\E f \in ToSet(frames) : Missing(reader.strMap, f[1].rec)
  <2>1. MapFor(frames) = reader.strMap
    BY <1>3 DEF MapFor
  <2>2. Len(reader.strMap) \in Nat /\ Keeps(reader.strMap, index)
    BY DEF ReaderInv
  <2>3. \A k \in DOMAIN frames : frames[k] \in ToSet(frames)
    BY DEF ToSet
  <2> QED
    BY <1>3, <2>1, <2>2, <2>3
<1> QED
  BY <1>2, <1>3

(* A record that the reader gets whole is decoded as the result that was   *)
(* taken in its place.                                                     *)
LEMMA RecordSeen ==
    ASSUME LogTypeOK, Readable, IndexInv, NumbersInv, OpenInv, ClosingInv, ReaderInv,
           NEW n \in Nat, NEW m \in Nat, (n + m) * RecordLen <= Len(ResultsFile),
           NEW k \in 1 .. m, closer.pc = "away" \/ n + k <= promised
    PROVE  LET frames == RecordsIn(ResultsFile, n, m)
           IN  n + k \in 1 .. Len(taken) /\ Decoded(MapFor(frames), frames[k]) = taken[n + k]
<1> DEFINE frames == RecordsIn(ResultsFile, n, m)
           i == n + k
           rec == Encoded(Format, taken[i])
           map == MapFor(frames)
<1>1. /\ RecordLen \in Nat \ {0} /\ Len(ResultsFile) \in Nat /\ Len(taken) \in Nat
      /\ Format # "trace"
  BY FileFacts, LogFacts DEF Readable
<1>2. i \in Nat \ {0} /\ i <= n + m
  OBVIOUS
<1>3. i * RecordLen <= Len(ResultsFile)
  <2>1. n + m \in Nat
    OBVIOUS
  <2> HIDE DEF i
  <2>2. i * RecordLen \in Nat /\ (n + m) * RecordLen \in Nat
        /\ i * RecordLen <= (n + m) * RecordLen
    BY <1>1, <1>2, <2>1, Products
  <2> DEFINE x == i * RecordLen
             y == (n + m) * RecordLen
  <2>3. x \in Nat /\ y \in Nat /\ x <= y /\ y <= Len(ResultsFile)
    BY <2>2
  <2> HIDE DEF x, y
  <2>4. x <= Len(ResultsFile)
    BY <1>1, <2>3
  <2> QED
    BY <2>4 DEF x
<1>4. closer.pc = "away" \/ i <= promised
  OBVIOUS
<1>5. /\ frames[k] = SubSeq(ResultsFile, (i - 1) * RecordLen + 1, i * RecordLen)
      /\ k \in DOMAIN frames
  <2> DEFINE r(j) == SubSeq(ResultsFile, (n + j - 1) * RecordLen + 1, (n + j) * RecordLen)
  <2>1. frames = [j \in 1 .. m |-> r(j)]
    BY DEF RecordsIn
  <2>2. r(k) = SubSeq(ResultsFile, (i - 1) * RecordLen + 1, i * RecordLen)
    <3>1. n + k - 1 = i - 1
      OBVIOUS
    <3> QED
      BY ONLY <3>1
  <2> HIDE DEF r, i, frames
  <2> QED
    BY <2>1, <2>2
<1> HIDE DEF i, frames, map
<1>6. /\ i \in 1 .. Len(taken) /\ (Format = "binary" => Numbers(i))
      /\ InData(Format, i, ResultsFile)
  BY <1>1, <1>2, <1>3, <1>4, WholeRecords
<1>7. frames[k] = Units(rec)
  BY <1>1, <1>2, <1>3, <1>5, <1>6, RecordUnits
<1>8. frames[k][1].rec = rec
  <2>1. 1 \in 1 .. RecordLen
    BY <1>1
  <2> HIDE DEF rec
  <2>2. Units(rec)[1] = [part |-> 1, rec |-> rec]
    BY <2>1 DEF Units
  <2>3. frames[k][1] = [part |-> 1, rec |-> rec]
    BY <1>7, <2>2
  <2> QED
    BY <2>3
<1>9. CASE Format = "binary"
  <2>1. /\ Len(map) \in Nat /\ Keeps(map, index)
        /\ Numbers(i) /\ frames[k][1].rec = rec => ~Missing(map, rec)
    BY <1>5, <1>6, <1>9, MapFacts DEF map
  <2>2. ~Missing(map, rec)
    BY <1>6, <1>8, <1>9, <2>1
  <2>3. Decoded(map, frames[k]) = taken[i]
    BY <1>6, <1>7, <2>1, <2>2, RecordDecoded
  <2> QED
    BY <1>6, <2>3 DEF i, frames, map
<1>10. CASE Format # "binary"
  <2>1. Decoded(map, frames[k]) = rec
    <3> HIDE DEF rec
    <3> QED
      BY <1>7, <1>8, <1>10 DEF Decoded
  <2>2. rec = taken[i]
    BY <1>10 DEF Encoded
  <2> QED
    BY <1>6, <2>1, <2>2 DEF i, frames, map
<1> QED
  BY <1>9, <1>10

(* A read lets the reader see the next results, or nothing new.            *)
LEMMA ReadStep ==
    ASSUME LogTypeOK, Readable, LinesInv, IndexInv, NumbersInv, OpenInv, ClosingInv, ReaderInv, Read
    PROVE  /\ ReaderInv' /\ UNCHANGED <<conf, logVars>>
           /\ \/ reader'.seen = reader.seen
              \/ /\ Len(reader.seen) < Len(reader'.seen)
                 /\ SubSeq(reader'.seen, 1, Len(reader.seen)) = reader.seen
                 /\ \A i \in Len(reader.seen) + 1 .. Len(reader'.seen) :
                        closer.pc = "away" \/ i <= promised =>
                            i <= Len(taken) /\ reader'.seen[i] = taken[i]
<1> DEFINE n == Len(reader.seen)
           frames(m) == RecordsIn(ResultsFile, n, m)
           to == reader'.offset
           new(m) == [k \in 1 .. m |-> Decoded(MapFor(frames(m)), frames(m)[k])]
<1>1. /\ n \in Nat /\ reader.seen = [i \in 1 .. n |-> reader.seen[i]]
      /\ Format = "binary" => Len(reader.strMap) \in Nat /\ Keeps(reader.strMap, index)
  BY DEF ReaderInv
<1>2. /\ UNCHANGED <<conf, logVars>> /\ to \in Nat /\ to <= Len(ResultsFile)
      /\ RecordLen \in Nat \ {0} /\ Len(ResultsFile) \in Nat
  BY ReadEffect, FileFacts, ResultLogAssumption
<1>3. PICK m \in Nat : /\ (n + m) * RecordLen <= to /\ to < (n + m) * RecordLen + RecordLen
                       /\ reader'.partial = SubSeq(ResultsFile, (n + m) * RecordLen + 1, to)
                       /\ reader'.strMap = MapFor(frames(m))
                       /\ reader'.seen = reader.seen \o new(m)
  BY ReadEffect
<1> DEFINE s == reader'.seen
           t == new(m)
<1>4. t = [k \in 1 .. m |-> t[k]]
  OBVIOUS
<1>5. /\ Len(s) = n + m /\ s = [i \in 1 .. n + m |-> s[i]] /\ SubSeq(s, 1, n) = reader.seen
      /\ \A k \in 1 .. m : s[n + k] = t[k]
      /\ m = 0 => s = reader.seen
  <2> HIDE DEF t, n
  <2>1. s = reader.seen \o t
    BY <1>3 DEF t
  <2> QED
    BY <1>1, <1>4, <2>1, JoinAny
<1>6. (n + m) * RecordLen <= Len(ResultsFile)
  <2> DEFINE x == (n + m) * RecordLen
  <2>1. x \in Nat /\ x <= to
    BY <1>1, <1>2, <1>3
  <2> HIDE DEF x, to
  <2>2. x <= Len(ResultsFile)
    BY <1>2, <2>1
  <2> QED
    BY <2>2 DEF x
<1>7. ASSUME NEW k \in 1 .. m, closer.pc = "away" \/ n + k <= promised
      PROVE  n + k <= Len(taken) /\ s[n + k] = taken[n + k]
  <2> HIDE DEF n
  <2>1. n + k \in 1 .. Len(taken) /\ Decoded(MapFor(frames(m)), frames(m)[k]) = taken[n + k]
    BY <1>1, <1>6, <1>7, RecordSeen
  <2> QED
    BY <1>5, <2>1
<1>8. ReaderInv'
  <2>1. /\ Format' = Format /\ ResultsFile' = ResultsFile /\ index' = index
    BY <1>2 DEF Format, ResultsFile, logVars
  <2>2. Len(s) \in Nat /\ Len(s) = n + m /\ s = [i \in 1 .. Len(s) |-> s[i]]
    BY <1>1, <1>5
  <2>3. Format = "binary" => Len(reader'.strMap) \in Nat /\ Keeps(reader'.strMap, index)
    BY <1>3, MapFacts
  <2>4. /\ Len(s) * RecordLen <= to /\ to < Len(s) * RecordLen + RecordLen
        /\ reader'.partial = SubSeq(ResultsFile, Len(s) * RecordLen + 1, to)
    BY <1>3, <2>2
  <2> QED
    BY <1>2, <2>1, <2>2, <2>3, <2>4 DEF ReaderInv
<1>9. ASSUME m # 0
      PROVE  /\ Len(reader.seen) < Len(s) /\ SubSeq(s, 1, Len(reader.seen)) = reader.seen
             /\ \A i \in Len(reader.seen) + 1 .. Len(s) :
                    closer.pc = "away" \/ i <= promised => i <= Len(taken) /\ s[i] = taken[i]
  <2> HIDE DEF s
  <2>1. n < Len(s) /\ SubSeq(s, 1, n) = reader.seen
    BY <1>1, <1>5, <1>9
  <2>2. ASSUME NEW i \in n + 1 .. Len(s), closer.pc = "away" \/ i <= promised
        PROVE  i <= Len(taken) /\ s[i] = taken[i]
    <3> DEFINE k == i - n
    <3> HIDE DEF n
    <3>1. k \in 1 .. m /\ n + k = i
      BY <1>1, <1>5, <2>2
    <3> HIDE DEF k
    <3> QED
      BY <1>7, <2>2, <3>1
  <2> QED
    BY <2>1, <2>2
<1> QED
  BY <1>2, <1>5, <1>8, <1>9

-----------------------------------------------------------------------------
(* The steps of the stream                                                 *)

(* Only a read moves the reader.                                           *)
LEMMA ReaderMoves ==
    ASSUME [Next]_vars
    PROVE  Read \/ reader' = reader
<1>1. ASSUME NEW i \in Workers, InputAction(i)
      PROVE  reader' = reader
  BY <1>1 DEF InputAction
<1>2. ASSUME NEW w \in Workers, ReceiveSlot(w) \/ WorkerStep(w)
      PROVE  reader' = reader
  BY <1>2 DEF ReceiveSlot, WorkerStep, TakePayload, NoPayload, Unresolvable, DoBusy, NoSuchGroup,
     Push
<1>3. CASE OutputAction \/ RunEnds \/ CloseAction \/ Tick \/ CacheRace \/ Killed \/ UNCHANGED vars
  BY <1>3 DEF OutputAction, RunEnds, CloseAction, Tick, CacheRace, Killed, vars
<1>4. CASE ReaderAction
  BY <1>4 DEF ReaderAction
<1> QED
  BY <1>1, <1>2, <1>3, <1>4 DEF Next

(* The output takes a result, promises the one it was at, or is closed.    *)
LEMMA OutputStep ==
    ASSUME LogTypeOK, NumbersInv, OpenInv, ClosingInv, LogStep, reader' = reader
    PROVE  Stream!StreamNext \/ UNCHANGED Stream!streamVars
<1>1. taken \in Seq(Results) /\ Len(taken) \in Nat
  BY TakenFacts
<1>2. ASSUME NEW r \in Results, Receive(r)
      PROVE  Stream!Take
  <2>1. /\ taken' = Append(taken, r) /\ bg.pc = "idle"
        /\ UNCHANGED <<promised, closer, reader>>
    BY <1>2 DEF Receive, At
  <2>2. Len(taken') = Len(taken) + 1 /\ SubSeq(taken', 1, Len(taken)) = taken
    <3>1. <<r>> \in Seq(Results) /\ taken' = taken \o <<r>>
      BY <1>1, <2>1, AppendIsConcat
    <3>2. <<r>> = [i \in 1 .. 1 |-> <<r>>[i]] /\ taken = [i \in 1 .. Len(taken) |-> taken[i]]
      BY <1>1
    <3> QED
      BY <1>1, <3>1, <3>2, JoinAny
  <2>3. closer.pc = "away" => promised = Len(taken)
    BY <2>1 DEF OpenInv, Busy
  <2>4. Len(taken) < Len(taken')
    BY <1>1, <2>2
  <2> QED
    BY <2>1, <2>2, <2>3, <2>4 DEF Stream!Take, Stream!Extends
<1>3. ASSUME BackgroundStep
      PROVE  Stream!Promise \/ UNCHANGED Stream!streamVars
  <2>1. UNCHANGED <<closer, taken>> /\ (Proceed \/ promised' = promised)
    BY <1>3, BackgroundFrame
  <2>2. promised' = promised \/ (closer.pc = "away" /\ promised' = Len(taken))
    BY <2>1 DEF Proceed
  <2> QED
    BY <2>1, <2>2 DEF Stream!Promise, Stream!streamVars
<1>4. ASSUME RunReturns
      PROVE  Stream!Seal
  <2>1. closer'.pc = "close" /\ UNCHANGED <<taken, promised>>
    BY <1>4 DEF RunReturns, LogTypeOK, CloserOK
  <2> QED
    BY <2>1 DEF Stream!Seal
<1>5. ASSUME CloseStep
      PROVE  UNCHANGED Stream!streamVars
  <2>1. closer.pc # "away" /\ taken' = taken
    BY <1>5 DEF CloseStep, CloseLDJSON, CloseFlushes, CloseFlushReturns, CloseDescriptor,
       MainReturns, Closing, logVars
  <2>2. promised' = promised /\ closer'.pc # "away"
    BY <2>1, PromisedStep DEF ClosingInv
  <2> QED
    BY <2>1, <2>2 DEF Stream!streamVars
<1>6. CASE UNCHANGED <<conf, logVars>>
  BY <1>6 DEF logVars, Stream!streamVars
<1> QED
  BY <1>2, <1>3, <1>4, <1>5, <1>6 DEF LogStep, Stream!StreamNext

(* A read shows the reader results of the stream.                          *)
LEMMA SeeStep ==
    ASSUME LogTypeOK, Readable, LinesInv, IndexInv, NumbersInv, OpenInv, ClosingInv, ReaderInv, Read
    PROVE  Stream!StreamNext \/ UNCHANGED Stream!streamVars
<1>1. UNCHANGED <<taken, promised, closer>>
  BY ReadStep DEF logVars
<1>2. CASE reader'.seen = reader.seen
  BY <1>1, <1>2 DEF Stream!streamVars
<1>3. CASE /\ Len(reader.seen) < Len(reader'.seen)
           /\ SubSeq(reader'.seen, 1, Len(reader.seen)) = reader.seen
           /\ \A i \in Len(reader.seen) + 1 .. Len(reader'.seen) :
                  closer.pc = "away" \/ i <= promised =>
                      i <= Len(taken) /\ reader'.seen[i] = taken[i]
  BY <1>1, <1>3 DEF Stream!StreamNext, Stream!See, Stream!Extends
<1> QED
  BY <1>2, <1>3, ReadStep

(* Pipeline implements ResultStream, as long as every string is a line and *)
(* has a number: the reader sees the results that the output took, in      *)
(* their order, each once and unchanged, all of them while the output is   *)
(* open and the promised ones whatever Close does to the rest.             *)
THEOREM PipelineImplementsStream == Spec /\ []Readable => StreamSpec
<1> DEFINE Inv == LinesInv /\ IndexInv /\ ReaderInv /\ NumbersInv /\ OpenInv /\ ClosingInv
           Typed == WorkTypeOK /\ LogTypeOK
           Starts == Stream!StreamInit
<1>1. Init => Inv /\ Starts
  <2> SUFFICES ASSUME Init PROVE Inv /\ Starts
    OBVIOUS
  <2>1. conf \in Confs /\ ResultLogInit /\ KPIReaderInit /\ LogTypeOK
    BY LogInitType DEF Init
  <2>2. Inv
    BY <2>1, LinesInit, ReaderInit, DataInit
  <2>3. Starts
    BY <2>1 DEF ResultLogInit, KPIReaderInit, Stream!StreamInit
  <2> QED
    BY <2>2, <2>3
<1>2. Typed /\ Typed' /\ Readable /\ Inv /\ [Next]_vars => Inv' /\ [Stream!StreamNext]_Stream!streamVars
  <2> SUFFICES ASSUME Typed, Typed', Readable, Inv, [Next]_vars
               PROVE  Inv' /\ [Stream!StreamNext]_Stream!streamVars
    OBVIOUS
  <2>1. LogStep
    BY WorkTypeStep
  <2>2. LinesInv' /\ IndexInv' /\ NumbersInv' /\ OpenInv' /\ ClosingInv'
    BY <2>1, LinesStep, IndexStep, NumbersStep, OpenStep, ClosingStep
  <2>3. CASE Read
    BY <2>2, <2>3, ReadStep, SeeStep
  <2>4. CASE reader' = reader
    BY <2>1, <2>2, <2>4, ReaderStays, OutputStep
  <2> QED
    BY <2>3, <2>4, ReaderMoves
<1>3. Spec => []Typed
  BY PipelineTypes
<1>4. Starts /\ [][Stream!StreamNext]_Stream!streamVars => StreamSpec
  BY PTL DEF StreamSpec, Stream!StreamSpec
<1> HIDE DEF Inv, Typed, Starts
<1>5. Spec /\ []Readable => Starts /\ [][Stream!StreamNext]_Stream!streamVars
  BY <1>1, <1>2, <1>3, PTL DEF Spec
<1> QED
  BY <1>4, <1>5, PTL
=============================================================================
