------------------------------- MODULE ConnPool -------------------------------
(***************************************************************************)
(* The HTTP connections (pkg/http): Nib.Punch in the workers (nib.go), the *)
(* pool of idle connections per host that they share, and the goroutine    *)
(* BufferedConn.readLoop of every connection (conn.go).  The server is     *)
(* external: it answers the requests of a connection in order, each once,  *)
(* at any time or never, and may break the connection at any time.         *)
(*                                                                         *)
(* Requests are numbered; an answer is the number of its request and comes *)
(* in one chunk.  A deadline, an EOF and a broken connection are the same  *)
(* to readLoop, an error of Conn.Read.                                     *)
(***************************************************************************)
EXTENDS Integers, Sequences, FiniteSets

CONSTANTS
    Clients,         \* the workers, each in at most one Punch
    Hosts,           \* the addresses of the payloads
    MaxConnections,  \* protocol.MaxConnections
    ConnBound,       \* bound of the model on the connections opened
    RequestBound     \* bound of the model on the requests made

ASSUME ConnPoolAssumption ==
    /\ IsFiniteSet(Clients)
    /\ {MaxConnections, ConnBound, RequestBound} \subseteq Nat \ {0}

VARIABLES
    at,       \* at[w]: where worker w stands in Punch, or after it
    job,      \* job[w]: the request of worker w
    conn,     \* conn[w]: its connection, and the one RespBytes points into
    answer,   \* answer[w]: the answer ReadResponse has parsed, or 0
    known,    \* the hosts that have an entry in ConnPool.Idle
    idle,     \* idle[h]: the buffered channel ConnPool.Idle[h]
    link,     \* link[c]: the connections, in the order they were opened
    issued,   \* requests made
    outcome   \* "running", or the runtime error that ended the process

vars == <<at, job, conn, answer, known, idle, link, issued, outcome>>

NoJob == [id |-> 0, host |-> "none"]

(* closing: a goroutine of "go conn.Close()" has not run yet; chunk: what  *)
(* readLoop has read and is sending on readChunks; buffer and fill: the    *)
(* memory and the length of ReadRecorded; owed and wire: the requests the  *)
(* server has not answered, and its answers not yet read.                  *)
NewLink(h) ==
    [host |-> h, err |-> FALSE, canceled |-> FALSE, closed |-> FALSE,
     closing |-> FALSE, loop |-> "reading", chunk |-> 0,
     buffer |-> << >>, fill |-> 0, owed |-> << >>, wire |-> << >>]

Init ==
    /\ at = [w \in Clients |-> "ready"]
    /\ job = [w \in Clients |-> NoJob]
    /\ conn = [w \in Clients |-> 0]
    /\ answer = [w \in Clients |-> 0]
    /\ known = {}
    /\ idle = [h \in Hosts |-> << >>]
    /\ link = << >>
    /\ issued = 0
    /\ outcome = "running"

Goto(w, p) == at' = [at EXCEPT ![w] = p]

(* The end of Punch and of the work on its result: the locals are dead.    *)
Forget(w) ==
    /\ Goto(w, "ready")
    /\ job' = [job EXCEPT ![w] = NoJob]
    /\ conn' = [conn EXCEPT ![w] = 0]
    /\ answer' = [answer EXCEPT ![w] = 0]

-----------------------------------------------------------------------------
(* ConnPool.Get.                                                           *)
Begin(w) ==
    /\ at[w] = "ready" /\ issued < RequestBound
    /\ issued' = issued + 1
    /\ \E h \in Hosts : job' = [job EXCEPT ![w] = [id |-> issued', host |-> h]]
    /\ Goto(w, "lookup")
    /\ UNCHANGED <<conn, answer, known, idle, link, outcome>>

(* Under mxConn: the map is looked up, and written for a new host.  The    *)
(* write takes time, in which the lock is held.                            *)
LookUp(w) ==
    /\ at[w] = "lookup" /\ \A v \in Clients : at[v] # "inserting"
    /\ Goto(w, IF job[w].host \in known THEN "select" ELSE "inserting")
    /\ UNCHANGED <<job, conn, answer, known, idle, link, issued, outcome>>

Insert(w) ==
    /\ at[w] = "inserting"
    /\ known' = known \cup {job[w].host}
    /\ Goto(w, "select")
    /\ UNCHANGED <<job, conn, answer, idle, link, issued, outcome>>

(* Mutants: the connection stays in the channel; and a dead one is put     *)
(* back into it.                                                           *)
TakeIdle_Peek(w) ==
    LET queue == idle[job[w].host] IN
    /\ at[w] = "select" /\ queue # << >>
    /\ IF link[Head(queue)].err
       THEN Goto(w, "dial") /\ UNCHANGED <<conn, link>>
       ELSE /\ conn' = [conn EXCEPT ![w] = Head(queue)]
            /\ link' = [link EXCEPT ![Head(queue)].fill = 0]
            /\ Goto(w, "send")
    /\ UNCHANGED <<job, answer, known, idle, issued, outcome>>

TakeIdle_KeepsDead(w) ==
    LET queue == idle[job[w].host] IN
    /\ at[w] = "select" /\ queue # << >>
    /\ IF link[Head(queue)].err
       THEN Goto(w, "dial") /\ UNCHANGED <<conn, link, idle>>
       ELSE /\ idle' = [idle EXCEPT ![job[w].host] = Tail(queue)]
            /\ conn' = [conn EXCEPT ![w] = Head(queue)]
            /\ link' = [link EXCEPT ![Head(queue)].fill = 0]
            /\ Goto(w, "send")
    /\ UNCHANGED <<job, answer, known, issued, outcome>>

(* An idle connection with an error is dropped, and a new one opened; any  *)
(* other is reset.                                                         *)
TakeIdle(w) ==
    LET queue == idle[job[w].host] IN
    /\ at[w] = "select" /\ queue # << >>
    /\ idle' = [idle EXCEPT ![job[w].host] = Tail(queue)]
    /\ IF link[Head(queue)].err
       THEN Goto(w, "dial") /\ UNCHANGED <<conn, link>>
       ELSE /\ conn' = [conn EXCEPT ![w] = Head(queue)]
            /\ link' = [link EXCEPT ![Head(queue)].fill = 0]
            /\ Goto(w, "send")
    /\ UNCHANGED <<job, answer, known, issued, outcome>>

NoneIdle(w) ==
    /\ at[w] = "select" /\ idle[job[w].host] = << >>
    /\ Goto(w, "dial")
    /\ UNCHANGED <<job, conn, answer, known, idle, link, issued, outcome>>

Dial(w) ==
    /\ at[w] = "dial" /\ Len(link) < ConnBound
    /\ link' = Append(link, NewLink(job[w].host))
    /\ conn' = [conn EXCEPT ![w] = Len(link')]
    /\ Goto(w, "send")
    /\ UNCHANGED <<job, answer, known, idle, issued, outcome>>

DialFails(w) ==
    /\ at[w] = "dial"
    /\ Forget(w)
    /\ UNCHANGED <<known, idle, link, issued, outcome>>

-----------------------------------------------------------------------------
(* Nib.sendRequest after Get, and Nib.readResponse.                        *)
Send(w) ==
    /\ at[w] = "send" /\ ~link[conn[w]].closed
    /\ link' = [link EXCEPT ![conn[w]].owed = Append(@, job[w].id)]
    /\ Goto(w, "receive")
    /\ UNCHANGED <<job, conn, answer, known, idle, issued, outcome>>

(* Mutants: after an error the connection is returned to the pool; and it  *)
(* is closed, which the TODO at nib.go:115 asks for.                       *)
SendFails_Returns(w) ==
    /\ at[w] = "send"
    /\ \/ UNCHANGED link
       \/ /\ ~link[conn[w]].closed
          /\ link' = [link EXCEPT ![conn[w]].owed = Append(@, job[w].id)]
    /\ idle' = [idle EXCEPT ![job[w].host] = Append(@, conn[w])]
    /\ Forget(w)
    /\ UNCHANGED <<known, issued, outcome>>

SendFails_Closes(w) ==
    /\ at[w] = "send"
    /\ \/ link' = [link EXCEPT ![conn[w]].closing = TRUE]
       \/ /\ ~link[conn[w]].closed
          /\ link' = [link EXCEPT ![conn[w]].owed = Append(@, job[w].id),
                                  ![conn[w]].closing = TRUE]
    /\ Forget(w)
    /\ UNCHANGED <<known, idle, issued, outcome>>

(* SetDeadline or Write fails; the request may have reached the server all *)
(* the same.  The connection is neither returned nor closed.               *)
SendFails(w) ==
    /\ at[w] = "send"
    /\ \/ UNCHANGED link
       \/ /\ ~link[conn[w]].closed
          /\ link' = [link EXCEPT ![conn[w]].owed = Append(@, job[w].id)]
    /\ Forget(w)
    /\ UNCHANGED <<known, idle, issued, outcome>>

(* The receive from readChunks, together with the send of readLoop, which  *)
(* then goes on reading unless the connection is canceled.                 *)
ChunkTaken(c) ==
    [link EXCEPT ![c].chunk = 0,
                 ![c].loop = IF link[c].canceled THEN "leaving" ELSE "reading"]

(* The worker has its answer.  The headers of the request or of the answer *)
(* may ask to close the connection, which another goroutine does.          *)
Receive(w) ==
    LET c == conn[w] IN
    /\ at[w] = "receive" /\ ~link[c].err /\ link[c].loop = "sending"
    /\ answer' = [answer EXCEPT ![w] = link[c].chunk]
    /\ \/ link' = [ChunkTaken(c) EXCEPT ![c].closing = TRUE] /\ Goto(w, "result")
       \/ link' = ChunkTaken(c) /\ Goto(w, "return")
    /\ UNCHANGED <<job, conn, known, idle, issued, outcome>>

(* Mutant: an error of readLoop does not reach the reader.                 *)
ReceiveFails_NoErr(w) ==
    LET c == conn[w] IN
    /\ at[w] = "receive"
    /\ ~link[c].err /\ link[c].loop = "sending" /\ link' = ChunkTaken(c)
    /\ Forget(w)
    /\ UNCHANGED <<known, idle, issued, outcome>>

(* ReadResponse or the copy of the body fails, on an error of readLoop or  *)
(* on what the server has sent.  Again the connection is left alone.       *)
ReceiveFails(w) ==
    LET c == conn[w] IN
    /\ at[w] = "receive"
    /\ \/ link[c].err /\ UNCHANGED link
       \/ ~link[c].err /\ link[c].loop = "sending" /\ link' = ChunkTaken(c)
    /\ Forget(w)
    /\ UNCHANGED <<known, idle, issued, outcome>>

-----------------------------------------------------------------------------
(* ConnPool.Return, and the use of the result in Worker.DoBusy.            *)
CheckReturn(w) ==
    /\ at[w] = "return"
    /\ Goto(w, IF link[conn[w]].canceled THEN "result" ELSE "returning")
    /\ UNCHANGED <<job, conn, answer, known, idle, link, issued, outcome>>

(* Mutant: the connection is returned twice.                               *)
PutIdle_Twice(w) ==
    /\ at[w] = "returning"
    /\ Len(idle[job[w].host]) < MaxConnections
    /\ idle' = [idle EXCEPT ![job[w].host] = @ \o <<conn[w], conn[w]>>]
    /\ Goto(w, "result")
    /\ UNCHANGED <<job, conn, answer, known, link, issued, outcome>>

(* The send on the channel of the host blocks while it is full.            *)
PutIdle(w) ==
    /\ at[w] = "returning"
    /\ Len(idle[job[w].host]) < MaxConnections
    /\ idle' = [idle EXCEPT ![job[w].host] = Append(@, conn[w])]
    /\ Goto(w, "result")
    /\ UNCHANGED <<job, conn, answer, known, link, issued, outcome>>

(* Return reads the map without the lock: while Get writes it, the runtime *)
(* may notice and end the process.                                         *)
MapRace(w) ==
    /\ at[w] = "returning" /\ \E v \in Clients : at[v] = "inserting"
    /\ outcome' = "concurrent_map_access"
    /\ UNCHANGED <<at, job, conn, answer, known, idle, link, issued>>

(* ExtractValues and Assert have read RespBytes.                           *)
UseResult(w) ==
    /\ at[w] = "result"
    /\ Forget(w)
    /\ UNCHANGED <<known, idle, link, issued, outcome>>

ClientStep(w) ==
    \/ LookUp(w) \/ Insert(w) \/ TakeIdle(w) \/ NoneIdle(w) \/ Dial(w) \/ DialFails(w)
    \/ Send(w) \/ SendFails(w) \/ Receive(w) \/ ReceiveFails(w)
    \/ CheckReturn(w) \/ PutIdle(w) \/ UseResult(w)

-----------------------------------------------------------------------------
(* BufferedConn.readLoop and Close.                                        *)
LoopReads(c) ==
    /\ link[c].loop = "reading" /\ ~link[c].closed /\ link[c].wire # << >>
    /\ link' = [link EXCEPT ![c].loop = "sending",
                            ![c].chunk = Head(link[c].wire),
                            ![c].wire = Tail(@),
                            ![c].buffer = Append(SubSeq(@, 1, link[c].fill), Head(link[c].wire)),
                            ![c].fill = @ + 1]
    /\ UNCHANGED <<at, job, conn, answer, known, idle, issued, outcome>>

LoopFails(c) ==
    /\ link[c].loop = "reading"
    /\ link' = [link EXCEPT ![c].loop = "leaving", ![c].err = TRUE, ![c].canceled = TRUE]
    /\ UNCHANGED <<at, job, conn, answer, known, idle, issued, outcome>>

(* What is still on its way on a closed connection is lost.                *)
Closed(c) == [link EXCEPT ![c].canceled = TRUE, ![c].closed = TRUE,
                          ![c].owed = << >>, ![c].wire = << >>]

LoopCloses(c) ==
    /\ link[c].loop = "leaving"
    /\ link' = [Closed(c) EXCEPT ![c].loop = "done"]
    /\ UNCHANGED <<at, job, conn, answer, known, idle, issued, outcome>>

(* Close by the other goroutine also closes readChunks, on which readLoop  *)
(* may be blocked: that is a panic.                                        *)
CloseRuns(c) ==
    /\ link[c].closing
    /\ link' = [Closed(c) EXCEPT ![c].closing = FALSE]
    /\ outcome' = IF link[c].loop = "sending" THEN "send_on_closed_channel" ELSE outcome
    /\ UNCHANGED <<at, job, conn, answer, known, idle, issued>>

Answer(c) ==
    /\ link[c].owed # << >> /\ ~link[c].closed
    /\ link' = [link EXCEPT ![c].owed = Tail(@), ![c].wire = Append(@, Head(link[c].owed))]
    /\ UNCHANGED <<at, job, conn, answer, known, idle, issued, outcome>>

LoopStep(c) == LoopReads(c) \/ LoopFails(c) \/ LoopCloses(c)

Rest == (outcome # "running" \/ \A w \in Clients : at[w] = "ready") /\ UNCHANGED vars

Next ==
    \/ /\ outcome = "running"
       /\ \/ \E w \in Clients : Begin(w) \/ ClientStep(w) \/ MapRace(w)
          \/ \E c \in DOMAIN link : LoopStep(c) \/ CloseRuns(c) \/ Answer(c)
    \/ Rest

Spec == Init /\ [][Next]_vars

(* Every goroutine runs, and a read that nothing answers ends at the       *)
(* deadline set before the request was written.  No fairness for Begin,    *)
(* for the server, or for the runtime's discovery of the race.             *)
Fairness ==
    /\ \A w \in Clients : WF_vars(outcome = "running" /\ ClientStep(w))
    /\ \A c \in 1 .. ConnBound :
           WF_vars(outcome = "running" /\ c \in DOMAIN link /\ LoopStep(c))

FairSpec == Spec /\ Fairness

-----------------------------------------------------------------------------
Holds(w) == at[w] \in {"send", "receive", "return", "returning"}

TypeOK ==
    /\ at \in [Clients -> {"ready", "lookup", "inserting", "select", "dial", "send",
                           "receive", "return", "returning", "result"}]
    /\ \A w \in Clients : job[w].id \in 0 .. issued /\ job[w].host \in Hosts \cup {"none"}
    /\ \A w \in Clients : conn[w] \in 0 .. Len(link) /\ answer[w] \in 0 .. issued
    /\ known \subseteq Hosts
    /\ \A h \in Hosts : idle[h] \in Seq(DOMAIN link) /\ Len(idle[h]) <= MaxConnections
    /\ \A c \in DOMAIN link : /\ link[c].loop \in {"reading", "sending", "leaving", "done"}
                              /\ link[c].fill \in 0 .. Len(link[c].buffer)
    /\ outcome \in {"running", "concurrent_map_access", "send_on_closed_channel"}

(* A connection is never used by two workers, nor idle while it is used,   *)
(* nor idle twice, and never for another host: whatever the interleaving   *)
(* of Get, Return, errors and closes.                                      *)
Exclusive ==
    /\ \A v, w \in Clients : Holds(v) /\ Holds(w) /\ v # w => conn[v] # conn[w]
    /\ \A h \in Hosts : \A i \in DOMAIN idle[h] :
           /\ link[idle[h][i]].host = h
           /\ \A j \in DOMAIN idle[h] \ {i} : idle[h][i] # idle[h][j]
           /\ \A w \in Clients : Holds(w) => conn[w] # idle[h][i]

(* The answer a worker takes is the one to its own request, on connections *)
(* that are reused and with answers that come after a failure: a connection *)
(* that has failed a request never carries another one.                    *)
AnswersMatch == \A w \in Clients : answer[w] # 0 => answer[w] = job[w].id

(* The workers that use a connection to host h or are about to open one.   *)
Users(h) == {w \in Clients : job[w].host = h /\ (Holds(w) \/ at[w] = "dial")}

(* For every host there are never more connections than workers, idle ones *)
(* and those about to be opened included; so with MaxConnections workers   *)
(* no worker waits in Return.                                              *)
ConnsWithinClients ==
    \A h \in Hosts : Len(idle[h]) + Cardinality(Users(h)) <= Cardinality(Clients)

(* The close of a connection in its own goroutine never meets a readLoop   *)
(* that is sending on readChunks, which would end the process: the answer  *)
(* has been taken, and a connection with an answer still to come is never  *)
(* closed.                                                                 *)
NoSendOnClosed == outcome # "send_on_closed_channel"

(* Every Punch ends, whatever the server does, if there are no more        *)
(* workers than MaxConnections.  WorkerPool assumes this of Nib.Punch.     *)
PunchEnds == \A w \in Clients : at[w] = "lookup" ~> (at[w] = "ready" \/ outcome # "running")

-----------------------------------------------------------------------------
(* A claim of the documentation that the code does not keep.              *)

(* The trace shows, and the extractors and assertions are given, the       *)
(* response to the request: RespBytes is a slice of ReadRecorded and the   *)
(* connection goes back to the pool before it is read.                     *)
RespBytesOwn ==
    \A w \in Clients : at[w] \in {"return", "returning", "result"} =>
        SubSeq(link[conn[w]].buffer, 1, 1) = <<job[w].id>>
=============================================================================
