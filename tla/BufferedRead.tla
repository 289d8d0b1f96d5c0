----------------------------- MODULE BufferedRead -----------------------------
(***************************************************************************)
(* How a response gets from the connection to the parser (pkg/http/        *)
(* conn.go): readLoop reads the connection into chunks, BufferedConn.Read  *)
(* copies a chunk into the room that the bufio.Reader offers, and the      *)
(* parser of net/http takes lines and bodies from the bufio.Reader.  The   *)
(* last two are external.                                                  *)
(*                                                                         *)
(* A response is a sequence of parts, each a line or a number of bytes of  *)
(* the body: with a chunked encoding the two alternate.  Its bytes are     *)
(* numbered.  Nothing fails and nothing is canceled here: that is the      *)
(* subject of ConnPool, where a response is one chunk.                     *)
(***************************************************************************)
EXTENDS Integers, SequencesExt

CONSTANTS
    LoopSize,    \* the length of BufferedConn.buf
    BufioSize,   \* the size of the bufio.Reader
    Responses    \* sequences of [kind : {"line", "data"}, len : Nat \ {0}]

VARIABLES
    response,   \* the response that the server sends
    arrived,    \* how many bytes of it readLoop has read
    chunk,      \* the bytes that readLoop is sending on readChunks
    buffered,   \* the bytes in the bufio.Reader
    got         \* the bytes that the parser has taken, in order

vars == <<response, arrived, chunk, buffered, got>>

Init ==
    /\ response \in Responses
    /\ arrived = 0
    /\ chunk = << >> /\ buffered = << >> /\ got = << >>

EndOf(p) == FoldLeft(LAMBDA sum, part : sum + part.len, 0, SubSeq(response, 1, p))
Length == EndOf(Len(response))

(* readLoop: a read of the connection returns what has arrived by then.    *)
LoopReads ==
    /\ chunk = << >>
    /\ \E n \in 1 .. LoopSize :
           /\ arrived + n <= Length
           /\ chunk' = [k \in 1 .. n |-> arrived + k]
           /\ arrived' = arrived + n
    /\ UNCHANGED <<response, buffered, got>>

(* Read: the receive from readChunks, and copy, which stops at the end of  *)
(* the room.                                                               *)
Read(room) ==
    /\ chunk # << >> /\ chunk' = << >>
    /\ buffered' = buffered \o SubSeq(chunk, 1, IF room < Len(chunk) THEN room ELSE Len(chunk))
    /\ UNCHANGED <<response, arrived, got>>

(* The part that the parser is at, by how much it has taken.               *)
InPart(p) == EndOf(p - 1) <= Len(got) /\ Len(got) < EndOf(p)
LineEnd(p) == SelectInSeq(buffered, LAMBDA b : b = EndOf(p))

Take(n) ==
    /\ got' = got \o SubSeq(buffered, 1, n)
    /\ buffered' = SubSeq(buffered, n + 1, Len(buffered))
    /\ UNCHANGED <<response, arrived, chunk>>

(* ReadSlice: a line is looked for in the buffer, and more is read to what *)
(* is there, as long as there is room.                                     *)
ReadLine(p) ==
    /\ InPart(p) /\ response[p].kind = "line"
    /\ \/ LineEnd(p) # 0 /\ Take(LineEnd(p))
       \/ LineEnd(p) = 0 /\ Len(buffered) = BufioSize /\ Take(BufioSize)
       \/ LineEnd(p) = 0 /\ Len(buffered) < BufioSize /\ Read(BufioSize - Len(buffered))

(* Read of a body: from the buffer, and into an empty one.                 *)
ReadData(p) ==
    /\ InPart(p) /\ response[p].kind = "data"
    /\ \/ \E n \in 1 .. Len(buffered) : Len(got) + n <= EndOf(p) /\ Take(n)
       \/ buffered = << >> /\ Read(BufioSize)

Next == LoopReads \/ \E p \in DOMAIN response : ReadLine(p) \/ ReadData(p)

Spec == Init /\ [][Next]_vars

-----------------------------------------------------------------------------
(* A claim of the tests that the code does not keep.                       *)

(* "Should not fail", says the test of a large response: the parser takes  *)
(* the bytes of the response one after the other, and none is missing.     *)
TakenInOrder == \A k \in DOMAIN got : got[k] = k
=============================================================================
