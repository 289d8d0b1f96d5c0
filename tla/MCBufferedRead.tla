---------------------------- MODULE MCBufferedRead ----------------------------
(* A response in two HTTP chunks: the status line with all headers, and    *)
(* twice a size line and a body with its newline.                          *)
EXTENDS BufferedRead

Line(n) == [kind |-> "line", len |-> n]
Data(n) == [kind |-> "data", len |-> n]

Chunked == { <<Line(2), Line(2), Data(4), Line(2), Data(4)>> }
=============================================================================
