---------------------------- MODULE ConnPoolProofs ----------------------------
(***************************************************************************)
(* Proofs about the HTTP connections, for any number of workers, hosts,    *)
(* connections and requests.  A connection is used for a request only when *)
(* nothing is on its way on it: that is what makes the answers match, and  *)
(* what keeps Close from meeting a readLoop that sends.                    *)
(***************************************************************************)
EXTENDS ConnPool, FiniteSetTheorems, SequenceTheorems, TLAPS

(* Where a worker can stand, and what a connection is made of.             *)
(* ReadRecorded never fills more than the buffer it points into.           *)
Points == {"ready", "lookup", "inserting", "select", "dial", "send",
           "receive", "return", "returning", "result"}

LinkRecords ==
    [host : Hosts, err : BOOLEAN, canceled : BOOLEAN, closed : BOOLEAN,
     closing : BOOLEAN, loop : {"reading", "sending", "leaving", "done"},
     chunk : Nat, buffer : Seq(Nat), fill : Nat, owed : Seq(Nat), wire : Seq(Nat)]

Links == {l \in LinkRecords : l.fill <= Len(l.buffer)}

-----------------------------------------------------------------------------
(* Connection c becomes l; the others stay.                                *)
Becomes(c, l) ==
    /\ l \in Links
    /\ link' \in Seq(Links) /\ Len(link') = Len(link)
    /\ \A d \in 1 .. Len(link) : link'[d] = IF d = c THEN l ELSE link[d]

(* A write to a field of one connection.                                   *)
LEMMA LinkSet ==
    ASSUME link \in Seq(Links), NEW c \in 1 .. Len(link), NEW l \in Links,
           link' = [link EXCEPT ![c] = l]
    PROVE  Becomes(c, l)
<1>1. /\ [link EXCEPT ![c] = l] \in Seq(Links)
      /\ Len([link EXCEPT ![c] = l]) = Len(link)
      /\ \A j \in 1 .. Len(link) : [link EXCEPT ![c] = l][j] = IF j=c THEN l ELSE link[j]
  BY ExceptSeq
<1> QED
  BY <1>1 DEF Becomes

(* What the goroutines do to a connection, one definition for each write:  *)
(* readLoop reads a chunk, the client sends a request or takes a chunk,    *)
(* readLoop fails, Close runs, and the server answers.                     *)
Read(l) == [l EXCEPT !.loop = "sending",
                            !.chunk = Head(l.wire),
                            !.wire = Tail(@),
                            !.buffer = Append(SubSeq(@, 1, l.fill), Head(l.wire)),
                            !.fill = @ + 1]
Sent(l, id) == [l EXCEPT !.owed = Append(@, id)]
Taken(l) == [l EXCEPT !.chunk = 0, !.loop = IF l.canceled THEN "leaving" ELSE "reading"]
Fails(l) == [l EXCEPT !.loop = "leaving", !.err = TRUE, !.canceled = TRUE]
Shut(l) == [l EXCEPT !.canceled = TRUE, !.closed = TRUE, !.owed = << >>, !.wire = << >>]
Answered(l) == [l EXCEPT !.owed = Tail(@), !.wire = Append(@, Head(l.owed))]

(* Each of them keeps the types of a connection; the slice that readLoop   *)
(* appends to is never longer than its buffer.                             *)
LEMMA LinkChanges ==
    ASSUME NEW l \in Links, NEW n \in Nat
    PROVE  /\ l.wire # << >> => Read(l) \in Links
           /\ Sent(l, n) \in Links
           /\ Taken(l) \in Links
           /\ Fails(l) \in Links
           /\ Shut(l) \in Links
           /\ l.owed # << >> => Answered(l) \in Links
           /\ [l EXCEPT !.fill = 0] \in Links
           /\ \A b \in BOOLEAN : [l EXCEPT !.closing = b] \in Links
           /\ [l EXCEPT !.loop = "done"] \in Links
           /\ NewLink(l.host) \in Links
<1>0. l \in LinkRecords /\ l.fill <= Len(l.buffer)
  BY DEF Links
<1>1. l.wire # << >> => Read(l) \in Links
  <2> SUFFICES ASSUME l.wire # << >> PROVE Read(l) \in Links
    OBVIOUS
  <2>1. Head(l.wire) \in Nat /\ Tail(l.wire) \in Seq(Nat)
    BY <1>0, HeadTailProperties DEF LinkRecords
  <2>2. SubSeq(l.buffer, 1, l.fill) \in Seq(Nat) /\ Len(SubSeq(l.buffer, 1, l.fill)) = l.fill
    <3>1. \A i \in 1 .. l.fill : l.buffer[i] \in Nat
      BY <1>0, ElementOfSeq DEF LinkRecords
    <3> QED
      BY <1>0, <3>1, SubSeqProperties DEF LinkRecords
  <2>3. /\ Append(SubSeq(l.buffer, 1, l.fill), Head(l.wire)) \in Seq(Nat)
        /\ Len(Append(SubSeq(l.buffer, 1, l.fill), Head(l.wire))) = l.fill + 1
    BY <2>1, <2>2, AppendProperties
  <2>4. Read(l) \in LinkRecords
    <3> DEFINE half == [l EXCEPT !.loop = "sending", !.chunk = Head(l.wire),
                                 !.wire = Tail(l.wire)]
    <3>1. half \in LinkRecords
      BY <1>0, <2>1 DEF LinkRecords
    <3>2. l.fill + 1 \in Nat
      BY <1>0 DEF LinkRecords
    <3>3. \A b \in Seq(Nat), f \in Nat : [half EXCEPT !.buffer = b, !.fill = f] \in LinkRecords
      <4> HIDE DEF half
      <4> QED
        BY <3>1 DEF LinkRecords
    <3> QED
      BY <2>1, <2>3, <3>2, <3>3 DEF Read
  <2>5. Read(l).fill = l.fill + 1 /\ Len(Read(l).buffer) = l.fill + 1
    BY <1>0, <2>3 DEF Read, LinkRecords
  <2> QED
    BY <1>0, <2>4, <2>5 DEF Links, LinkRecords
<1>2. Sent(l, n) \in Links
  BY <1>0, AppendProperties DEF Sent, Links, LinkRecords
<1>3. l.owed # << >> => Answered(l) \in Links
  BY <1>0, AppendProperties, HeadTailProperties DEF Answered, Links, LinkRecords
<1>4. Taken(l) \in Links /\ Fails(l) \in Links /\ Shut(l) \in Links
  BY <1>0, EmptySeq DEF Taken, Fails, Shut, Links, LinkRecords
<1>5. [l EXCEPT !.fill = 0] \in Links
  <2>1. l.buffer \in Seq(Nat) /\ 0 <= Len(l.buffer)
    BY <1>0, LenProperties DEF LinkRecords
  <2>2. [l EXCEPT !.fill = 0] \in LinkRecords
    BY <1>0 DEF LinkRecords
  <2>3. [l EXCEPT !.fill = 0].fill = 0 /\ [l EXCEPT !.fill = 0].buffer = l.buffer
    BY <1>0 DEF LinkRecords
  <2> QED
    BY <2>1, <2>2, <2>3 DEF Links
<1>6. \A b \in BOOLEAN : [l EXCEPT !.closing = b] \in Links
  BY <1>0 DEF Links, LinkRecords
<1>7. [l EXCEPT !.loop = "done"] \in Links
  BY <1>0 DEF Links, LinkRecords
<1>8. NewLink(l.host) \in Links
  BY <1>0, EmptySeq DEF NewLink, Links, LinkRecords
<1> QED
  BY <1>1, <1>2, <1>3, <1>4, <1>5, <1>6, <1>7, <1>8

(* The steps of readLoop, of Close and of the server change one            *)
(* connection, in these ways.                                              *)
LEMMA LoopLinks ==
    ASSUME link \in Seq(Links), NEW c \in 1 .. Len(link)
    PROVE  /\ LoopReads(c) => Becomes(c, Read(link[c]))
           /\ LoopFails(c) => Becomes(c, Fails(link[c]))
           /\ LoopCloses(c) => Becomes(c, [Shut(link[c]) EXCEPT !.loop = "done"])
           /\ CloseRuns(c) => Becomes(c, [Shut(link[c]) EXCEPT !.closing = FALSE])
           /\ Answer(c) => Becomes(c, Answered(link[c]))
<1> DEFINE l == link[c]
<1>0. l \in Links
  BY ElementOfSeq
<1>1. LoopReads(c) => l.wire # << >> /\ link' = [link EXCEPT ![c] = Read(l)]
  BY DEF LoopReads, Read
<1>2. LoopFails(c) => link' = [link EXCEPT ![c] = Fails(l)]
  BY DEF LoopFails, Fails
<1>3. LoopCloses(c) => link' = [link EXCEPT ![c] = [Shut(l) EXCEPT !.loop = "done"]]
  BY DEF LoopCloses, Shut, Closed
<1>4. CloseRuns(c) => link' = [link EXCEPT ![c] = [Shut(l) EXCEPT !.closing = FALSE]]
  BY DEF CloseRuns, Shut, Closed
<1>5. Answer(c) => l.owed # << >> /\ link' = [link EXCEPT ![c] = Answered(l)]
  BY DEF Answer, Answered
<1> HIDE DEF l
<1> QED
  BY <1>0, <1>1, <1>2, <1>3, <1>4, <1>5, LinkSet, LinkChanges DEF l

-----------------------------------------------------------------------------
(* Nothing is on its way on the connection: no request without an answer,  *)
(* no answer that is not read, no chunk that is not taken.                 *)
Quiet(l) == l.owed = << >> /\ l.wire = << >> /\ l.loop # "sending"

(* At most request id is on its way, at one of the places it goes through. *)
Carries(l, id) ==
    \/ Quiet(l)
    \/ l.owed = <<id>> /\ l.wire = << >> /\ l.loop # "sending"
    \/ l.owed = << >> /\ l.wire = <<id>> /\ l.loop # "sending"
    \/ l.owed = << >> /\ l.wire = << >> /\ l.loop = "sending" /\ l.chunk = id

(* Between l and m nothing new is on its way, and no close was started.    *)
Keeps(l, m) ==
    /\ m.host = l.host
    /\ m.closing => l.closing
    /\ Quiet(l) => Quiet(m)
    /\ \A n \in Nat : Carries(l, n) => Carries(m, n)

(* What readLoop, Close and the server do brings nothing new on its way: a *)
(* connection that was quiet stays so, and one that carries a request      *)
(* carries no other. Nor does the reset in Get.                            *)
LEMMA LinkKept ==
    ASSUME NEW l \in Links
    PROVE  /\ l.wire # << >> /\ l.loop = "reading" => Keeps(l, Read(l))
           /\ l.loop = "reading" => Keeps(l, Fails(l))
           /\ Keeps(l, [Shut(l) EXCEPT !.loop = "done"])
           /\ Keeps(l, [Shut(l) EXCEPT !.closing = FALSE])
           /\ l.owed # << >> => Keeps(l, Answered(l))
           /\ Keeps(l, [l EXCEPT !.fill = 0])
<1>0. l \in LinkRecords
  BY DEF Links
<1>1. ASSUME l.wire # << >>, l.loop = "reading" PROVE Keeps(l, Read(l))
  <2>1. /\ Read(l).host = l.host /\ Read(l).closing = l.closing
        /\ Read(l).loop = "sending" /\ Read(l).chunk = Head(l.wire)
        /\ Read(l).owed = l.owed /\ Read(l).wire = Tail(l.wire)
    BY <1>0 DEF Read, LinkRecords
  <2>2. \A n \in Nat : l.wire = <<n>> => Head(l.wire) = n /\ Tail(l.wire) = << >>
    OBVIOUS
  <2> QED
    BY <1>1, <2>1, <2>2 DEF Keeps, Quiet, Carries
<1>2. ASSUME l.loop = "reading" PROVE Keeps(l, Fails(l))
  BY <1>0, <1>2 DEF Keeps, Quiet, Carries, Fails, LinkRecords
<1>3. Keeps(l, [Shut(l) EXCEPT !.loop = "done"])
  BY <1>0 DEF Keeps, Quiet, Carries, Shut, LinkRecords
<1>4. Keeps(l, [Shut(l) EXCEPT !.closing = FALSE])
  BY <1>0 DEF Keeps, Quiet, Carries, Shut, LinkRecords
<1>5. ASSUME l.owed # << >> PROVE Keeps(l, Answered(l))
  <2>1. /\ Answered(l).host = l.host /\ Answered(l).closing = l.closing
        /\ Answered(l).loop = l.loop /\ Answered(l).owed = Tail(l.owed)
        /\ Answered(l).wire = Append(l.wire, Head(l.owed))
    BY <1>0 DEF Answered, LinkRecords
  <2>2. \A n \in Nat : /\ l.owed = <<n>> => Head(l.owed) = n /\ Tail(l.owed) = << >>
                      /\ l.wire = << >> => Append(l.wire, n) = <<n>>
    OBVIOUS
  <2> QED
    BY <1>5, <2>1, <2>2 DEF Keeps, Quiet, Carries
<1>6. Keeps(l, [l EXCEPT !.fill = 0])
  BY <1>0 DEF Keeps, Quiet, Carries, LinkRecords
<1> QED
  BY <1>1, <1>2, <1>3, <1>4, <1>5, <1>6

(* A request sent on a quiet connection is the only one it carries; a      *)
(* chunk taken from a connection that carries one request is its answer,   *)
(* and the connection is quiet again. A new one is quiet.                  *)
LEMMA LinkServes ==
    ASSUME NEW l \in Links, NEW n \in Nat
    PROVE  /\ Sent(l, n).host = l.host /\ Sent(l, n).closing = l.closing
           /\ Quiet(l) => Carries(Sent(l, n), n)
           /\ Taken(l).host = l.host /\ Taken(l).closing = l.closing
           /\ Carries(l, n) /\ l.loop = "sending" => l.chunk = n /\ Quiet(Taken(l))
           /\ Quiet(NewLink(l.host))
<1>0. l \in LinkRecords
  BY DEF Links
<1>1. /\ Sent(l, n).host = l.host /\ Sent(l, n).closing = l.closing
      /\ Quiet(l) => Carries(Sent(l, n), n)
  <2>1. /\ Sent(l, n).host = l.host /\ Sent(l, n).closing = l.closing
        /\ Sent(l, n).wire = l.wire /\ Sent(l, n).loop = l.loop
        /\ Sent(l, n).owed = Append(l.owed, n)
    BY <1>0 DEF Sent, LinkRecords
  <2>2. l.owed = << >> => Append(l.owed, n) = <<n>>
    OBVIOUS
  <2> QED
    BY <2>1, <2>2 DEF Quiet, Carries
<1>2. /\ Taken(l).host = l.host /\ Taken(l).closing = l.closing
      /\ Carries(l, n) /\ l.loop = "sending" => l.chunk = n /\ Quiet(Taken(l))
  BY <1>0 DEF Taken, Quiet, Carries, LinkRecords
<1>3. Quiet(NewLink(l.host))
  BY DEF NewLink, Quiet
<1> QED
  BY <1>1, <1>2, <1>3

-----------------------------------------------------------------------------
(* The inductive invariant. The types:                                     *)
ConnTypes ==
    /\ at \in [Clients -> Points]
    /\ job \in [Clients -> [id : Nat, host : Hosts \cup {"none"}]]
    /\ conn \in [Clients -> Nat]
    /\ answer \in [Clients -> Nat]
    /\ known \in SUBSET Hosts
    /\ idle \in [Hosts -> Seq(Nat)]
    /\ link \in Seq(Links)
    /\ issued \in Nat
    /\ outcome \in {"running", "concurrent_map_access", "send_on_closed_channel"}

(* Identifiers are those of requests and connections made; a worker in     *)
(* Punch has a host; one that is not has no answer.                        *)
Ranges ==
    /\ \A w \in Clients : job[w].id <= issued /\ answer[w] <= issued /\ conn[w] <= Len(link)
    /\ \A w \in Clients : IF at[w] = "ready" THEN answer[w] = 0 ELSE job[w].host \in Hosts
    /\ \A h \in Hosts : Len(idle[h]) <= MaxConnections
    /\ \A h \in Hosts : \A i \in 1 .. Len(idle[h]) : idle[h][i] \in 1 .. Len(link)

(* A connection that can be used for any request.                          *)
Free(c) == ~link[c].closing /\ Quiet(link[c])

(* The connection of a worker in Punch is to its host, is not about to be  *)
(* closed, and carries nothing before the request is sent or after its     *)
(* answer is taken.                                                        *)
Serves(w) ==
    /\ conn[w] \in 1 .. Len(link)
    /\ link[conn[w]].host = job[w].host
    /\ IF at[w] = "receive"
       THEN ~link[conn[w]].closing /\ Carries(link[conn[w]], job[w].id)
       ELSE Free(conn[w])

Serving == \A w \in Clients : Holds(w) => Serves(w)

(* The idle connections, and those about to be closed, carry nothing.      *)
IdleFree == \A h \in Hosts : \A i \in 1 .. Len(idle[h]) : Free(idle[h][i])

ClosingQuiet == \A c \in 1 .. Len(link) : link[c].closing => Quiet(link[c])

Matched == Serving /\ IdleFree /\ ClosingQuiet

(* Everything together: Exclusive keeps a step of one worker from          *)
(* disturbing what the others rely on, and the matching of answers keeps   *)
(* the pool and the closes free of connections with an answer still to     *)
(* come.                                                                   *)
ConnInv == ConnTypes /\ Ranges /\ Exclusive /\ Matched /\ AnswersMatch /\ NoSendOnClosed

(* A step of readLoop, of the server or of a goroutine that closes keeps   *)
(* its connection; the close meets no chunk being sent.                    *)
LEMMA LoopStepLinks ==
    ASSUME ConnTypes, Matched, NEW c \in DOMAIN link, LoopStep(c) \/ CloseRuns(c) \/ Answer(c)
    PROVE  /\ \E l \in Links : Becomes(c, l) /\ Keeps(link[c], l)
           /\ UNCHANGED <<at, job, conn, answer, known, idle, issued, outcome>>
<1>0. c \in 1 .. Len(link) /\ link[c] \in Links /\ link \in Seq(Links)
  BY ElementOfSeq, LenProperties DEF ConnTypes
<1>1. CASE LoopReads(c)
  <2>1. link[c].wire # << >> /\ link[c].loop = "reading"
    BY <1>1 DEF LoopReads
  <2> QED
    BY <1>0, <1>1, <2>1, LoopLinks, LinkKept DEF LoopReads, Becomes
<1>2. CASE LoopFails(c)
  <2>1. link[c].loop = "reading"
    BY <1>2 DEF LoopFails
  <2> QED
    BY <1>0, <1>2, <2>1, LoopLinks, LinkKept DEF LoopFails, Becomes
<1>3. CASE LoopCloses(c)
  BY <1>0, <1>3, LoopLinks, LinkKept DEF LoopCloses, Becomes
<1>4. CASE CloseRuns(c)
  <2>1. link[c].closing /\ Quiet(link[c])
    BY <1>0, <1>4 DEF CloseRuns, Matched, ClosingQuiet
  <2>2. UNCHANGED <<at, job, conn, answer, known, idle, issued, outcome>>
    BY <1>4, <2>1 DEF CloseRuns, Quiet
  <2> QED
    BY <1>0, <1>4, <2>2, LoopLinks, LinkKept DEF Becomes
<1>5. CASE Answer(c)
  <2>1. link[c].owed # << >>
    BY <1>5 DEF Answer
  <2> QED
    BY <1>0, <1>5, <2>1, LoopLinks, LinkKept DEF Answer, Becomes
<1> QED
  BY <1>1, <1>2, <1>3, <1>4, <1>5 DEF LoopStep

(* So it keeps the invariant.                                              *)
LEMMA LinkKeptInv ==
    ASSUME ConnInv, NEW c \in 1 .. Len(link), NEW l \in Links,
           Becomes(c, l), Keeps(link[c], l),
           UNCHANGED <<at, job, conn, answer, known, idle, issued, outcome>>
    PROVE  ConnInv'
<1> USE DEF ConnInv
<1>1. ConnTypes'
  BY DEF ConnTypes, Becomes
<1>2. Ranges'
  BY DEF Ranges, Becomes
<1>3. \A d \in 1 .. Len(link) : Keeps(link[d], link'[d])
  BY DEF Becomes, Keeps
<1>4. Exclusive'
  <2>1. \A h \in Hosts : DOMAIN idle[h] = 1 .. Len(idle[h])
    BY LenProperties DEF ConnTypes
  <2>2. ASSUME NEW h \in Hosts, NEW i \in DOMAIN idle[h]
        PROVE  link'[idle[h][i]].host = h
    <3>1. idle[h][i] \in 1 .. Len(link)
      BY <2>1, <2>2 DEF Ranges
    <3>2. link[idle[h][i]].host = h
      BY <2>2 DEF Exclusive
    <3> QED
      BY <1>3, <3>1, <3>2 DEF Keeps
  <2>3. \A v \in Clients : Holds(v)' <=> Holds(v)
    BY DEF Holds
  <2> HIDE DEF ConnInv
  <2>4. Exclusive
    BY DEF ConnInv
  <2> QED
    BY <2>2, <2>3, <2>4 DEF Exclusive
<1>5. Matched'
  <2>1. Serving'
    <3> SUFFICES ASSUME NEW w \in Clients, Holds(w)'
                 PROVE  Serves(w)'
      BY DEF Serving
    <3>1. Holds(w) /\ Serves(w) /\ conn[w] \in 1 .. Len(link) /\ job[w].id \in Nat
      BY DEF Holds, ConnTypes, Matched, Serving, Serves
    <3>2. Keeps(link[conn[w]], link'[conn[w]])
      BY <1>3, <3>1
    <3>3. Len(link') = Len(link)
      BY DEF Becomes
    <3> QED
      BY <3>1, <3>2, <3>3 DEF Serves, Keeps, Free
  <2>2. IdleFree'
    BY <1>3 DEF Matched, IdleFree, Free, Keeps, Ranges
  <2>3. ClosingQuiet'
    BY <1>3 DEF Matched, ClosingQuiet, Keeps, Becomes
  <2> QED
    BY <2>1, <2>2, <2>3 DEF Matched
<1>6. AnswersMatch' /\ NoSendOnClosed'
  BY DEF AnswersMatch, NoSendOnClosed
<1> QED
  BY <1>1, <1>2, <1>4, <1>5, <1>6

-----------------------------------------------------------------------------
(* Only the locals of worker w change.                                     *)
Alone(w) ==
    \A v \in Clients \ {w} :
        at'[v] = at[v] /\ job'[v] = job[v] /\ conn'[v] = conn[v] /\ answer'[v] = answer[v]

(* A step of a worker that leaves the pool alone and writes at most to the *)
(* connection it holds, or to a new one, keeps exclusion and matching if   *)
(* it does so for the worker itself.                                       *)
LEMMA WorkerLinks ==
    ASSUME ConnInv, NEW w \in Clients, Alone(w), idle' = idle,
           Len(link') \in Nat, Len(link') >= Len(link),
           \A d \in 1 .. Len(link) :
               \/ link'[d] = link[d]
               \/ Holds(w) /\ d = conn[w] /\ link'[d].host = link[d].host,
           ClosingQuiet',
           Holds(w)' => Serves(w)',
           Holds(w)' => (Holds(w) /\ conn'[w] = conn[w]) \/ conn'[w] > Len(link)
    PROVE  Exclusive' /\ Matched'
<1>0. Len(link) \in Nat
  BY LenProperties DEF ConnInv, ConnTypes
<1>1. ASSUME NEW v \in Clients \ {w}
      PROVE  Holds(v)' = Holds(v) /\ conn'[v] = conn[v] /\ job'[v] = job[v] /\ at'[v] = at[v]
  BY DEF Alone, Holds
<1>2. \A v \in Clients : Holds(v) => conn[v] \in 1 .. Len(link)
  BY DEF ConnInv, Matched, Serving, Serves
<1>3. \A h \in Hosts : DOMAIN idle[h] = 1 .. Len(idle[h])
  BY LenProperties DEF ConnInv, ConnTypes
<1>4. \A h \in Hosts : \A i \in DOMAIN idle[h] :
          idle[h][i] \in 1 .. Len(link) /\ link'[idle[h][i]] = link[idle[h][i]]
  BY <1>3 DEF ConnInv, Ranges, Exclusive
<1>5. Exclusive'
  <2>1. ASSUME NEW v \in Clients, NEW u \in Clients, Holds(v)', Holds(u)', v # u
        PROVE  conn'[v] # conn'[u]
    BY <1>0, <1>1, <1>2, <2>1 DEF ConnInv, Exclusive
  <2>2. ASSUME NEW h \in Hosts, NEW i \in DOMAIN idle[h], NEW v \in Clients, Holds(v)'
        PROVE  conn'[v] # idle[h][i]
    BY <1>0, <1>1, <1>4, <2>2 DEF ConnInv, Exclusive
  <2> QED
    BY <1>4, <2>1, <2>2 DEF ConnInv, Exclusive
<1>6. Serving'
  <2> SUFFICES ASSUME NEW v \in Clients, Holds(v)' PROVE Serves(v)'
    BY DEF Serving
  <2>1. CASE v = w
    BY <2>1
  <2>2. CASE v # w
    <3>1. Holds(v) /\ Serves(v)
      BY <1>1, <2>2 DEF ConnInv, Matched, Serving
    <3>2. link'[conn[v]] = link[conn[v]]
      BY <1>2, <2>2, <3>1 DEF ConnInv, Exclusive
    <3> QED
      BY <1>0, <1>1, <2>2, <3>1, <3>2 DEF Serves, Free
  <2> QED
    BY <2>1, <2>2
<1>7. IdleFree'
  BY <1>3, <1>4 DEF ConnInv, Matched, IdleFree, Free
<1> QED
  BY <1>5, <1>6, <1>7 DEF Matched

(* How the request and the answer change the connection of the worker.     *)
LEMMA ClientLinks ==
    ASSUME link \in Seq(Links), NEW w \in Clients, conn[w] \in 1 .. Len(link),
           job[w].id \in Nat
    PROVE  LET c == conn[w]
               sent == Sent(link[c], job[w].id)
               taken == Taken(link[c])
           IN  /\ Send(w) => Becomes(c, sent)
               /\ SendFails(w) => link' = link \/ Becomes(c, sent)
               /\ link' = ChunkTaken(c) => Becomes(c, taken)
               /\ link' = [ChunkTaken(c) EXCEPT ![c].closing = TRUE] =>
                      Becomes(c, [taken EXCEPT !.closing = TRUE])
               /\ ReceiveFails(w) => link' = link \/ Becomes(c, taken)
<1> DEFINE c == conn[w]
           l == link[c]
           sent == Sent(l, job[w].id)
           taken == Taken(l)
<1>0. l \in Links
  BY ElementOfSeq
<1>1. Send(w) => link' = [link EXCEPT ![c] = sent]
  BY DEF Send, Sent
<1>2. SendFails(w) => link' = link \/ link' = [link EXCEPT ![c] = sent]
  BY DEF SendFails, Sent
<1>3. /\ link' = ChunkTaken(c) => link' = [link EXCEPT ![c] = taken]
      /\ link' = [ChunkTaken(c) EXCEPT ![c].closing = TRUE] =>
             link' = [link EXCEPT ![c] = [taken EXCEPT !.closing = TRUE]]
  BY DEF ChunkTaken, Taken
<1>4. ReceiveFails(w) => link' = link \/ link' = [link EXCEPT ![c] = taken]
  BY DEF ReceiveFails, ChunkTaken, Taken
<1>5. sent \in Links /\ taken \in Links /\ [taken EXCEPT !.closing = TRUE] \in Links
  <2>1. sent \in Links /\ taken \in Links
    BY <1>0, LinkChanges
  <2> HIDE DEF taken
  <2> QED
    BY <2>1, LinkChanges
<1> HIDE DEF sent, taken
<1>6. QED
  BY <1>1, <1>2, <1>3, <1>4, <1>5, LinkSet DEF sent, taken

(* The steps of a worker that change no connection and no channel.         *)
Walks(w) ==
    \/ Begin(w) \/ LookUp(w) \/ Insert(w) \/ NoneIdle(w) \/ DialFails(w)
    \/ CheckReturn(w) \/ MapRace(w) \/ UseResult(w)

(* They keep the types, and take up no connection.                         *)
LEMMA WalkTypes ==
    ASSUME ConnInv, NEW w \in Clients, Walks(w)
    PROVE  /\ ConnTypes' /\ Ranges' /\ AnswersMatch' /\ NoSendOnClosed' /\ Alone(w)
           /\ Holds(w)' => Holds(w) /\ conn'[w] = conn[w] /\ job'[w] = job[w]
           /\ at'[w] = "receive" => at[w] = "receive"
           /\ at[w] = "receive" => at'[w] = "receive"
<1> USE DEF ConnInv, ConnTypes, Ranges, AnswersMatch, NoSendOnClosed, Alone, Holds,
            Points, Goto
<1>1. CASE Begin(w)
  <2>1. PICK h \in Hosts : job' = [job EXCEPT ![w] = [id |-> issued', host |-> h]]
    BY <1>1 DEF Begin
  <2>2. /\ issued' = issued + 1 /\ issued' \in Nat
        /\ at[w] = "ready" /\ at' = [at EXCEPT ![w] = "lookup"]
        /\ UNCHANGED <<conn, answer, known, idle, link, outcome>>
    BY <1>1 DEF Begin
  <2>3. job' \in [Clients -> [id : Nat, host : Hosts \cup {"none"}]]
    BY <2>1, <2>2
  <2> QED
    BY <2>1, <2>2, <2>3
<1>2. CASE LookUp(w)
  BY <1>2 DEF LookUp
<1>3. CASE Insert(w)
  BY <1>3 DEF Insert
<1>4. CASE NoneIdle(w)
  BY <1>4 DEF NoneIdle
<1>5. CASE DialFails(w)
  BY <1>5 DEF DialFails, Forget, NoJob
<1>6. CASE CheckReturn(w)
  BY <1>6 DEF CheckReturn
<1>7. CASE MapRace(w)
  BY <1>7 DEF MapRace
<1>8. CASE UseResult(w)
  BY <1>8 DEF UseResult, Forget, NoJob
<1> QED
  BY <1>1, <1>2, <1>3, <1>4, <1>5, <1>6, <1>7, <1>8 DEF Walks

(* They keep the invariant.                                                *)
LEMMA WalkInv ==
    ASSUME ConnInv, NEW w \in Clients, Walks(w)
    PROVE  ConnInv'
<1>1. UNCHANGED <<idle, link>>
  BY DEF Walks, Begin, LookUp, Insert, NoneIdle, DialFails, CheckReturn, MapRace, UseResult
<1>2. Len(link) \in Nat
  BY LenProperties DEF ConnInv, ConnTypes
<1>3. Holds(w)' => Serves(w)'
  <2>1. Holds(w) => Serves(w)
    BY DEF ConnInv, Matched, Serving
  <2> QED
    BY <1>1, <2>1, WalkTypes DEF Serves, Free
<1>4. ClosingQuiet'
  BY <1>1 DEF ConnInv, Matched, ClosingQuiet
<1>5. Exclusive' /\ Matched'
  BY <1>1, <1>2, <1>3, <1>4, WalkTypes, WorkerLinks
<1> QED
  BY <1>5, WalkTypes DEF ConnInv

(* The request and its answer, or their failure.                           *)
Exchanges(w) == Send(w) \/ SendFails(w) \/ Receive(w) \/ ReceiveFails(w)

(* What they do to the locals of the worker.                               *)
LEMMA ExchangeTypes ==
    ASSUME ConnInv, NEW w \in Clients, Exchanges(w)
    PROVE  /\ at' \in [Clients -> Points]
           /\ job' \in [Clients -> [id : Nat, host : Hosts \cup {"none"}]]
           /\ conn' \in [Clients -> Nat]
           /\ Alone(w)
           /\ UNCHANGED <<known, idle, issued, outcome>>
           /\ Holds(w) /\ (at'[w] # "ready" => conn'[w] = conn[w] /\ job'[w] = job[w])
           /\ conn'[w] \in {0, conn[w]} /\ job'[w].id \in {0, job[w].id}
           /\ at'[w] = "ready" => answer'[w] = 0
<1> USE DEF ConnInv, ConnTypes, Alone, Holds, Points, Goto
<1>1. CASE Send(w)
  BY <1>1 DEF Send
<1>2. CASE SendFails(w)
  BY <1>2 DEF SendFails, Forget, NoJob
<1>3. CASE Receive(w)
  BY <1>3 DEF Receive
<1>4. CASE ReceiveFails(w)
  BY <1>4 DEF ReceiveFails, Forget, NoJob
<1> QED
  BY <1>1, <1>2, <1>3, <1>4 DEF Exchanges

(* And to its connection: the answer is that of its request, after a       *)
(* failure the connection is let go, and one to be closed is quiet.        *)
LEMMA ExchangeServes ==
    ASSUME ConnInv, NEW w \in Clients, Exchanges(w)
    PROVE  /\ conn[w] \in 1 .. Len(link)
           /\ link' \in Seq(Links) /\ Len(link') = Len(link)
           /\ \A d \in 1 .. Len(link) : d # conn[w] => link'[d] = link[d]
           /\ link'[conn[w]].host = link[conn[w]].host
           /\ link'[conn[w]].closing => Quiet(link'[conn[w]])
           /\ Holds(w)' => Serves(w)'
           /\ answer' \in [Clients -> Nat] /\ answer'[w] \in {0, answer[w], job'[w].id}
<1> DEFINE c == conn[w]
           l == link[c]
           id == job[w].id
<1>0. Holds(w) /\ Serves(w) /\ c \in 1 .. Len(link) /\ link \in Seq(Links) /\ l \in Links
      /\ id \in Nat
  BY ExchangeTypes, ElementOfSeq DEF ConnInv, ConnTypes, Matched, Serving, Serves
<1>1. CASE Send(w)
  <2>1. Quiet(l) /\ ~l.closing /\ at'[w] = "receive" /\ answer' = answer
    BY <1>0, <1>1 DEF Send, Goto, Serves, Free, ConnInv, ConnTypes
  <2>2. Becomes(c, Sent(l, id))
    BY <1>0, <1>1, ClientLinks
  <2>3. /\ link'[c] = Sent(l, id) /\ Carries(link'[c], id)
        /\ ~link'[c].closing /\ link'[c].host = l.host
    BY <1>0, <2>1, <2>2, LinkServes DEF Becomes
  <2> QED
    BY <1>0, <2>1, <2>2, <2>3, ExchangeTypes DEF Serves, Becomes, ConnInv, ConnTypes
<1>2. CASE SendFails(w)
  <2>1. Quiet(l) /\ ~l.closing /\ ~Holds(w)' /\ answer' = [answer EXCEPT ![w] = 0]
    BY <1>0, <1>2 DEF SendFails, Forget, Goto, Serves, Free, ConnInv, ConnTypes, Holds
  <2>2. link' = link \/ Becomes(c, Sent(l, id))
    BY <1>0, <1>2, ClientLinks
  <2>3. ~link'[c].closing /\ link'[c].host = l.host
    BY <1>0, <2>1, <2>2, LinkServes DEF Becomes
  <2> QED
    BY <1>0, <2>1, <2>2, <2>3 DEF Becomes, ConnInv, ConnTypes
<1>3. CASE Receive(w)
  <2>1. /\ Carries(l, id) /\ ~l.closing /\ l.loop = "sending"
        /\ answer' = [answer EXCEPT ![w] = l.chunk]
        /\ \/ link' = [ChunkTaken(c) EXCEPT ![c].closing = TRUE] /\ ~Holds(w)'
           \/ link' = ChunkTaken(c) /\ at'[w] = "return"
    BY <1>0, <1>3 DEF Receive, Goto, Serves, ConnInv, ConnTypes, Holds
  <2>2. \/ Becomes(c, [Taken(l) EXCEPT !.closing = TRUE]) /\ ~Holds(w)'
        \/ Becomes(c, Taken(l)) /\ at'[w] = "return"
    BY <1>0, <2>1, ClientLinks
  <2>3. l.chunk = id /\ Quiet(Taken(l)) /\ Taken(l).host = l.host /\ ~Taken(l).closing
    BY <1>0, <2>1, LinkServes
  <2>4. answer' \in [Clients -> Nat] /\ answer'[w] = id
    BY <1>0, <2>1, <2>3 DEF ConnInv, ConnTypes
  <2>5. job'[w] = job[w] /\ conn'[w] = conn[w]
    BY <1>3 DEF Receive
  <2>6. CASE Becomes(c, Taken(l)) /\ at'[w] = "return"
    BY <1>0, <2>3, <2>4, <2>5, <2>6 DEF Becomes, Serves, Free
  <2>7. CASE Becomes(c, [Taken(l) EXCEPT !.closing = TRUE]) /\ ~Holds(w)'
    <3> DEFINE m == [Taken(l) EXCEPT !.closing = TRUE]
    <3>1. m.host = l.host /\ Quiet(m)
      <4>1. Taken(l) \in Links
        BY <1>0, LinkChanges
      <4> HIDE DEF l
      <4> QED
        BY <2>3, <4>1 DEF Quiet, Links, LinkRecords
    <3> HIDE DEF m
    <3> QED
      BY <1>0, <2>4, <2>5, <2>7, <3>1 DEF Becomes, m
  <2> QED
    BY <2>2, <2>6, <2>7
<1>4. CASE ReceiveFails(w)
  <2>1. Carries(l, id) /\ ~l.closing /\ ~Holds(w)' /\ answer' = [answer EXCEPT ![w] = 0]
    BY <1>0, <1>4 DEF ReceiveFails, Forget, Goto, Serves, ConnInv, ConnTypes, Holds
  <2>2. link' = link \/ Becomes(c, Taken(l))
    BY <1>0, <1>4, ClientLinks
  <2>3. ~link'[c].closing /\ link'[c].host = l.host
    BY <1>0, <2>1, <2>2, LinkServes DEF Becomes
  <2> QED
    BY <1>0, <2>1, <2>2, <2>3 DEF Becomes, ConnInv, ConnTypes
<1> QED
  BY <1>1, <1>2, <1>3, <1>4 DEF Exchanges

(* They keep the invariant.                                                *)
LEMMA ExchangeInv ==
    ASSUME ConnInv, NEW w \in Clients, Exchanges(w)
    PROVE  ConnInv'
<1>1. Len(link) \in Nat
  BY LenProperties DEF ConnInv, ConnTypes
<1>2. ClosingQuiet'
  BY ExchangeServes DEF ConnInv, Matched, ClosingQuiet
<1>3. Holds(w)' => conn'[w] = conn[w]
  BY ExchangeTypes DEF Holds
<1>4. Exclusive' /\ Matched'
  <2>1. Alone(w) /\ idle' = idle /\ Holds(w)
    BY ExchangeTypes
  <2>2. Len(link') \in Nat /\ Len(link') >= Len(link) /\ (Holds(w)' => Serves(w)')
    BY <1>1, ExchangeServes
  <2>3. \A d \in 1 .. Len(link) :
            \/ link'[d] = link[d]
            \/ Holds(w) /\ d = conn[w] /\ link'[d].host = link[d].host
    BY <2>1, ExchangeServes
  <2> QED
    BY <1>2, <1>3, <2>1, <2>2, <2>3, WorkerLinks
<1>5. ConnTypes'
  BY ExchangeTypes, ExchangeServes DEF ConnInv, ConnTypes
<1>6. Ranges'
  <2>1. ASSUME NEW v \in Clients
        PROVE  /\ job'[v].id <= issued /\ answer'[v] <= issued /\ conn'[v] <= Len(link)
               /\ IF at'[v] = "ready" THEN answer'[v] = 0 ELSE job'[v].host \in Hosts
    <3>1. /\ job[v].id <= issued /\ answer[v] <= issued /\ conn[v] <= Len(link)
          /\ IF at[v] = "ready" THEN answer[v] = 0 ELSE job[v].host \in Hosts
          /\ issued \in Nat
      BY DEF ConnInv, ConnTypes, Ranges
    <3>2. CASE v = w
      <4>1. at[w] # "ready" /\ (at'[w] # "ready" => job'[w] = job[w])
        BY ExchangeTypes DEF Holds
      <4>2. job'[w].id <= issued /\ conn'[w] <= Len(link)
        BY <1>1, <3>1, <3>2, ExchangeTypes
      <4>3. answer'[w] <= issued
        BY <3>1, <3>2, <4>2, ExchangeServes
      <4> QED
        BY <3>1, <3>2, <4>1, <4>2, <4>3, ExchangeTypes
    <3>3. CASE v # w
      BY <3>1, <3>3, ExchangeTypes DEF Alone
    <3> QED
      BY <3>2, <3>3
  <2> QED
    BY <2>1, ExchangeTypes, ExchangeServes DEF ConnInv, Ranges
<1>7. AnswersMatch'
  <2>1. /\ Alone(w) /\ answer'[w] \in {0, answer[w], job'[w].id}
        /\ at'[w] = "ready" => answer'[w] = 0
        /\ at'[w] # "ready" => job'[w] = job[w]
    BY ExchangeTypes, ExchangeServes
  <2>2. \A v \in Clients : answer[v] # 0 => answer[v] = job[v].id
    BY DEF ConnInv, AnswersMatch
  <2>3. answer'[w] # 0 => answer'[w] = job'[w].id
    BY <2>1, <2>2
  <2>4. \A v \in Clients \ {w} : answer'[v] = answer[v] /\ job'[v] = job[v]
    BY <2>1 DEF Alone
  <2> QED
    BY <2>2, <2>3, <2>4 DEF AnswersMatch
<1>8. NoSendOnClosed'
  <2>1. outcome' = outcome
    BY ExchangeTypes
  <2> QED
    BY <2>1 DEF ConnInv, NoSendOnClosed
<1> QED
  BY <1>4, <1>5, <1>6, <1>7, <1>8 DEF ConnInv

(* A new connection is held by the worker that opened it, and by no other. *)
LEMMA DialInv ==
    ASSUME ConnInv, NEW w \in Clients, Dial(w)
    PROVE  ConnInv'
<1> DEFINE new == NewLink(job[w].host)
           n == Len(link) + 1
<1>0. /\ at[w] = "dial" /\ job[w].host \in Hosts /\ link' = Append(link, new)
      /\ conn' = [conn EXCEPT ![w] = Len(link')] /\ at' = [at EXCEPT ![w] = "send"]
      /\ UNCHANGED <<job, answer, known, idle, issued, outcome>>
  BY DEF Dial, Goto, ConnInv, ConnTypes, Ranges
<1>1. new \in Links /\ Quiet(new) /\ ~new.closing /\ new.host = job[w].host
  BY <1>0, EmptySeq DEF NewLink, Links, LinkRecords, Quiet
<1>2. /\ link \in Seq(Links) /\ Len(link) \in Nat
      /\ link' \in Seq(Links) /\ Len(link') = n
      /\ \A d \in 1 .. Len(link) : link'[d] = link[d]
      /\ link'[n] = new
  <2> HIDE DEF new
  <2>1. link \in Seq(Links) /\ Len(link) \in Nat
    BY LenProperties DEF ConnInv, ConnTypes
  <2> QED
    BY <1>0, <1>1, <2>1, AppendProperties
<1> HIDE DEF new
<1>3. Alone(w) /\ conn'[w] = n /\ at'[w] = "send"
  BY <1>0, <1>2 DEF Alone, ConnInv, ConnTypes
<1>4. Serves(w)'
  BY <1>0, <1>1, <1>2, <1>3 DEF Serves, Free
<1>5. ClosingQuiet'
  BY <1>1, <1>2 DEF ConnInv, Matched, ClosingQuiet
<1>6. Exclusive' /\ Matched'
  BY <1>0, <1>2, <1>3, <1>4, <1>5, WorkerLinks
<1>7. ConnTypes'
  BY <1>0, <1>2 DEF ConnInv, ConnTypes, Points
<1>8. Ranges'
  BY <1>0, <1>2 DEF ConnInv, ConnTypes, Ranges
<1>9. AnswersMatch' /\ NoSendOnClosed'
  BY <1>0 DEF ConnInv, AnswersMatch, NoSendOnClosed
<1> QED
  BY <1>6, <1>7, <1>8, <1>9 DEF ConnInv

(* The connection that is returned is free, belongs to the host, and was   *)
(* not in the channel.                                                     *)
LEMMA PutIdleInv ==
    ASSUME ConnInv, NEW w \in Clients, PutIdle(w)
    PROVE  ConnInv'
<1> DEFINE h == job[w].host
           n == Len(idle[h]) + 1
<1>0. /\ at[w] = "returning" /\ h \in Hosts /\ Len(idle[h]) < MaxConnections
      /\ idle' = [idle EXCEPT ![h] = Append(idle[h], conn[w])]
      /\ at' = [at EXCEPT ![w] = "result"]
      /\ UNCHANGED <<job, conn, answer, known, link, issued, outcome>>
  BY DEF PutIdle, Goto, ConnInv, ConnTypes, Ranges
<1>1. /\ idle'[h] \in Seq(Nat) /\ Len(idle[h]) \in Nat /\ Len(idle'[h]) = n
      /\ \A i \in 1 .. Len(idle[h]) : idle'[h][i] = idle[h][i]
      /\ idle'[h][n] = conn[w]
      /\ \A g \in Hosts \ {h} : idle'[g] = idle[g]
  <2>1. idle[h] \in Seq(Nat) /\ conn[w] \in Nat /\ Len(idle[h]) \in Nat
    BY <1>0, LenProperties DEF ConnInv, ConnTypes
  <2>2. idle'[h] = Append(idle[h], conn[w]) /\ \A g \in Hosts \ {h} : idle'[g] = idle[g]
    BY <1>0 DEF ConnInv, ConnTypes
  <2>3. PICK s, c : s = idle[h] /\ c = conn[w]
    OBVIOUS
  <2>4. /\ Append(s, c) \in Seq(Nat) /\ Len(Append(s, c)) = Len(s) + 1
        /\ \A i \in 1 .. Len(s) : Append(s, c)[i] = s[i]
        /\ Append(s, c)[Len(s) + 1] = c
    BY <2>1, <2>3, AppendProperties
  <2> QED
    BY <2>1, <2>2, <2>3, <2>4
<1>2. \A g \in Hosts : \A i \in 1 .. Len(idle'[g]) :
          \/ i \in 1 .. Len(idle[g]) /\ idle'[g][i] = idle[g][i]
          \/ g = h /\ i = n /\ idle'[g][i] = conn[w]
  <2> TAKE g \in Hosts
  <2>1. CASE g = h
    <3>1. /\ Len(idle'[g]) = Len(idle[g]) + 1 /\ Len(idle[g]) \in Nat
          /\ \A i \in 1 .. Len(idle[g]) : idle'[g][i] = idle[g][i]
          /\ idle'[g][Len(idle[g]) + 1] = conn[w]
      BY <1>1, <2>1
    <3> QED
      BY <2>1, <3>1
  <2>2. CASE g # h
    BY <1>1, <2>2
  <2> QED
    BY <2>1, <2>2
<1>3. /\ Holds(w) /\ conn[w] \in 1 .. Len(link) /\ link[conn[w]].host = h /\ Free(conn[w])
      /\ ~Holds(w)' /\ \A v \in Clients \ {w} : Holds(v)' = Holds(v) /\ at'[v] = at[v]
  BY <1>0 DEF ConnInv, ConnTypes, Matched, Serving, Serves, Holds
<1>4. \A g \in Hosts :
          DOMAIN idle[g] = 1 .. Len(idle[g]) /\ DOMAIN idle'[g] = 1 .. Len(idle'[g])
  <2>1. \A g \in Hosts : idle[g] \in Seq(Nat) /\ idle'[g] \in Seq(Nat)
    BY <1>1 DEF ConnInv, ConnTypes
  <2> QED
    BY <2>1, LenProperties
<1> HIDE DEF h, n
<1>5. Exclusive'
  <2>1. ASSUME NEW v \in Clients, NEW u \in Clients, Holds(v)', Holds(u)', v # u
        PROVE  conn'[v] # conn'[u]
    BY <1>0, <1>3, <2>1 DEF ConnInv, Exclusive
  <2>2. ASSUME NEW g \in Hosts, NEW i \in 1 .. Len(idle'[g])
        PROVE  /\ link'[idle'[g][i]].host = g
               /\ \A v \in Clients : Holds(v)' => conn'[v] # idle'[g][i]
    BY <1>0, <1>2, <1>3, <1>4, <2>2 DEF ConnInv, Exclusive
  <2>3. ASSUME NEW g \in Hosts, NEW i \in 1 .. Len(idle'[g]),
               NEW j \in 1 .. Len(idle'[g]), i # j
        PROVE  idle'[g][i] # idle'[g][j]
    BY <1>2, <1>3, <1>4, <2>3 DEF ConnInv, Exclusive
  <2> QED
    BY <1>4, <2>1, <2>2, <2>3 DEF Exclusive
<1>6. Serving'
  BY <1>0, <1>3 DEF ConnInv, Matched, Serving, Serves, Free
<1>7. IdleFree' /\ ClosingQuiet'
  BY <1>0, <1>2, <1>3 DEF ConnInv, Matched, IdleFree, ClosingQuiet, Free
<1>8. ConnTypes'
  <2>1. idle' \in [Hosts -> Seq(Nat)]
    BY <1>0, <1>1 DEF ConnInv, ConnTypes
  <2> QED
    BY <1>0, <2>1 DEF ConnInv, ConnTypes, Points
<1>9. Ranges'
  <2>1. \A g \in Hosts : Len(idle'[g]) <= MaxConnections
    BY <1>0, <1>1, ConnPoolAssumption DEF ConnInv, Ranges, n
  <2>2. \A g \in Hosts : \A i \in 1 .. Len(idle'[g]) : idle'[g][i] \in 1 .. Len(link)
    BY <1>2, <1>3 DEF ConnInv, Ranges
  <2> QED
    BY <1>0, <2>1, <2>2 DEF ConnInv, ConnTypes, Ranges
<1>10. AnswersMatch' /\ NoSendOnClosed'
  BY <1>0 DEF ConnInv, AnswersMatch, NoSendOnClosed
<1> QED
  BY <1>5, <1>6, <1>7, <1>8, <1>9, <1>10 DEF ConnInv, Matched

(* The connection taken from the channel is free, belongs to the host, and *)
(* is neither used nor idle any more.                                      *)
LEMMA TakeIdleInv ==
    ASSUME ConnInv, NEW w \in Clients, TakeIdle(w)
    PROVE  ConnInv'
<1> DEFINE h == job[w].host
           c == Head(idle[h])
<1>0. /\ at[w] = "select" /\ h \in Hosts /\ idle[h] # << >>
      /\ idle' = [idle EXCEPT ![h] = Tail(idle[h])]
      /\ UNCHANGED <<job, answer, known, issued, outcome>>
      /\ \/ /\ at' = [at EXCEPT ![w] = "dial"] /\ UNCHANGED <<conn, link>>
         \/ /\ at' = [at EXCEPT ![w] = "send"] /\ conn' = [conn EXCEPT ![w] = c]
            /\ link' = [link EXCEPT ![c].fill = 0]
  BY DEF TakeIdle, Goto, ConnInv, ConnTypes, Ranges
<1>1. /\ idle[h] \in Seq(Nat) /\ Len(idle[h]) \in Nat \ {0} /\ c = idle[h][1]
      /\ idle'[h] \in Seq(Nat) /\ Len(idle'[h]) = Len(idle[h]) - 1
      /\ \A i \in 1 .. Len(idle'[h]) : idle'[h][i] = idle[h][i + 1]
      /\ \A g \in Hosts \ {h} : idle'[g] = idle[g]
  <2>1. idle[h] \in Seq(Nat) /\ Len(idle[h]) \in Nat \ {0}
    BY <1>0, EmptySeq DEF ConnInv, ConnTypes
  <2>2. idle'[h] = Tail(idle[h]) /\ \A g \in Hosts \ {h} : idle'[g] = idle[g]
    BY <1>0 DEF ConnInv, ConnTypes
  <2> DEFINE s == idle[h]
  <2>3. /\ Tail(s) \in Seq(Nat) /\ Len(Tail(s)) = Len(s) - 1 /\ Head(s) = s[1]
        /\ \A i \in 1 .. Len(Tail(s)) : Tail(s)[i] = s[i + 1]
    <3> HIDE DEF s
    <3>1. s \in Seq(Nat) /\ s # << >>
      BY <1>0, <2>1 DEF s
    <3> QED
      BY <3>1, HeadTailProperties
  <2> QED
    BY <2>1, <2>2, <2>3
<1>2. \A g \in Hosts : \A i \in 1 .. Len(idle'[g]) :
          \/ g = h /\ i + 1 \in 1 .. Len(idle[g]) /\ idle'[g][i] = idle[g][i + 1]
          \/ g # h /\ i \in 1 .. Len(idle[g]) /\ idle'[g][i] = idle[g][i]
  <2> TAKE g \in Hosts
  <2>1. CASE g = h
    BY <1>1, <2>1
  <2>2. CASE g # h
    BY <1>1, <2>2
  <2> QED
    BY <2>1, <2>2
<1>3. \A g \in Hosts :
          DOMAIN idle[g] = 1 .. Len(idle[g]) /\ DOMAIN idle'[g] = 1 .. Len(idle'[g])
  <2>1. \A g \in Hosts : idle[g] \in Seq(Nat) /\ idle'[g] \in Seq(Nat)
    BY <1>1 DEF ConnInv, ConnTypes
  <2> QED
    BY <2>1, LenProperties
<1>4. /\ c \in 1 .. Len(link) /\ Free(c) /\ link[c].host = h
      /\ \A v \in Clients : Holds(v) => conn[v] # c
      /\ \A g \in Hosts : \A i \in 1 .. Len(idle'[g]) : idle'[g][i] # c
  <2>1. 1 \in 1 .. Len(idle[h]) /\ idle[h][1] = c
    BY <1>1
  <2>2. c \in 1 .. Len(link) /\ Free(c) /\ link[c].host = h
        /\ \A v \in Clients : Holds(v) => conn[v] # c
    <3>1. c \in 1 .. Len(link)
      BY <1>0, <2>1 DEF ConnInv, Ranges
    <3>2. Free(c)
      BY <1>0, <2>1 DEF ConnInv, Matched, IdleFree
    <3>3. 1 \in DOMAIN idle[h]
      BY <1>0, <1>3, <2>1
    <3>4. link[c].host = h /\ \A v \in Clients : Holds(v) => conn[v] # c
      <4> HIDE DEF h, c
      <4> QED
        BY <1>0, <2>1, <3>3 DEF ConnInv, Exclusive
    <3> QED
      BY <3>1, <3>2, <3>4
  <2>3. ASSUME NEW g \in Hosts, NEW i \in 1 .. Len(idle'[g])
        PROVE  idle'[g][i] # c
    <3> HIDE DEF h, c
    <3>1. CASE g = h
      <4>1. i + 1 \in DOMAIN idle[h] /\ i + 1 # 1 /\ idle'[g][i] = idle[h][i + 1]
        BY <1>0, <1>2, <1>3, <2>3, <3>1
      <4>2. 1 \in DOMAIN idle[h]
        BY <1>0, <1>3, <2>1
      <4>3. \A j \in DOMAIN idle[h], m \in DOMAIN idle[h] : j # m => idle[h][j] # idle[h][m]
        BY <1>0 DEF ConnInv, Exclusive
      <4> QED
        BY <2>1, <4>1, <4>2, <4>3
    <3>2. CASE g # h
      <4>1. i \in DOMAIN idle[g] /\ idle'[g][i] = idle[g][i]
        BY <1>2, <1>3, <2>3, <3>2
      <4>2. link[idle[g][i]].host = g
        BY <4>1 DEF ConnInv, Exclusive
      <4> QED
        BY <2>2, <3>2, <4>1, <4>2
    <3> QED
      BY <3>1, <3>2
  <2> QED
    BY <2>2, <2>3
<1>5. /\ link' \in Seq(Links) /\ Len(link') = Len(link)
      /\ \A d \in 1 .. Len(link) : d # c => link'[d] = link[d]
      /\ Keeps(link[c], link'[c])
  <2>1. link \in Seq(Links) /\ link[c] \in Links
    BY <1>4, ElementOfSeq DEF ConnInv, ConnTypes
  <2>2. CASE link' = link
    BY <2>1, <2>2 DEF Keeps
  <2>3. CASE link' = [link EXCEPT ![c].fill = 0]
    <3> DEFINE l == [link[c] EXCEPT !.fill = 0]
    <3>1. l \in Links /\ Keeps(link[c], l)
      BY <2>1, LinkChanges, LinkKept
    <3>2. Becomes(c, l)
      BY <1>4, <2>1, <2>3, <3>1, LinkSet
    <3> HIDE DEF l
    <3> QED
      BY <1>4, <3>1, <3>2 DEF Becomes
  <2> QED
    BY <1>0, <2>2, <2>3
<1> HIDE DEF h, c
<1>6. /\ \A v \in Clients \ {w} : at'[v] = at[v] /\ conn'[v] = conn[v] /\ Holds(v)' = Holds(v)
      /\ Holds(w)' => conn'[w] = c /\ at'[w] = "send"
      /\ ~Holds(w) /\ Len(link) \in Nat
  BY <1>0, LenProperties DEF ConnInv, ConnTypes, Holds
<1>7. \A g \in Hosts : \A i \in 1 .. Len(idle'[g]) :
          /\ idle'[g][i] \in 1 .. Len(link) /\ Free(idle'[g][i])
          /\ link[idle'[g][i]].host = g /\ link'[idle'[g][i]] = link[idle'[g][i]]
          /\ \A v \in Clients : Holds(v) => conn[v] # idle'[g][i]
  <2> TAKE g \in Hosts
  <2> TAKE i \in 1 .. Len(idle'[g])
  <2>1. PICK j \in 1 .. Len(idle[g]) : idle'[g][i] = idle[g][j]
    BY <1>2
  <2>2. /\ idle[g][j] \in 1 .. Len(link) /\ Free(idle[g][j]) /\ link[idle[g][j]].host = g
        /\ \A v \in Clients : Holds(v) => conn[v] # idle[g][j]
    BY <1>3 DEF ConnInv, Ranges, Matched, IdleFree, Exclusive
  <2> QED
    BY <1>4, <1>5, <2>1, <2>2
<1>8. Exclusive'
  <2>1. ASSUME NEW v \in Clients, NEW u \in Clients, Holds(v)', Holds(u)', v # u
        PROVE  conn'[v] # conn'[u]
    BY <1>4, <1>6, <2>1 DEF ConnInv, Exclusive
  <2>2. ASSUME NEW g \in Hosts, NEW i \in 1 .. Len(idle'[g])
        PROVE  /\ link'[idle'[g][i]].host = g
               /\ \A v \in Clients : Holds(v)' => conn'[v] # idle'[g][i]
    BY <1>4, <1>6, <1>7
  <2>3. ASSUME NEW g \in Hosts, NEW i \in 1 .. Len(idle'[g]),
               NEW j \in 1 .. Len(idle'[g]), i # j
        PROVE  idle'[g][i] # idle'[g][j]
    <3>1. CASE g = h
      <4>1. /\ i + 1 \in 1 .. Len(idle[g]) /\ j + 1 \in 1 .. Len(idle[g]) /\ i + 1 # j + 1
            /\ idle'[g][i] = idle[g][i + 1] /\ idle'[g][j] = idle[g][j + 1]
        BY <1>2, <2>3, <3>1
      <4> QED
        BY <1>3, <4>1 DEF ConnInv, Exclusive
    <3>2. CASE g # h
      BY <1>2, <1>3, <2>3, <3>2 DEF ConnInv, Exclusive
    <3> QED
      BY <3>1, <3>2
  <2> QED
    BY <1>3, <2>1, <2>2, <2>3 DEF Exclusive
<1>9. Serving'
  <2> SUFFICES ASSUME NEW v \in Clients, Holds(v)' PROVE Serves(v)'
    BY DEF Serving
  <2>1. CASE v = w
    BY <1>0, <1>4, <1>5, <1>6, <2>1 DEF Serves, Free, Keeps, h
  <2>2. CASE v # w
    <3>1. Holds(v) /\ Serves(v) /\ link'[conn[v]] = link[conn[v]]
      BY <1>4, <1>5, <1>6, <2>2 DEF ConnInv, Matched, Serving, Serves
    <3> QED
      BY <1>0, <1>5, <1>6, <2>2, <3>1 DEF Serves, Free
  <2> QED
    BY <2>1, <2>2
<1>10. IdleFree'
  BY <1>7 DEF IdleFree, Free
<1>11. ClosingQuiet'
  BY <1>5 DEF ConnInv, Matched, ClosingQuiet, Keeps
<1>12. ConnTypes'
  <2>1. idle' \in [Hosts -> Seq(Nat)]
    BY <1>0, <1>1 DEF ConnInv, ConnTypes
  <2> QED
    <3>0. c \in Nat
      BY <1>4, <1>6
    <3>1. at' \in [Clients -> Points]
      BY <1>0 DEF ConnInv, ConnTypes, Points
    <3>2. conn' \in [Clients -> Nat]
      BY <1>0, <3>0 DEF ConnInv, ConnTypes
    <3> QED
      BY <1>0, <1>5, <2>1, <3>1, <3>2 DEF ConnInv, ConnTypes
<1>13. Ranges'
  <2>1. \A g \in Hosts : Len(idle'[g]) <= MaxConnections
    BY <1>0, <1>1, ConnPoolAssumption DEF ConnInv, Ranges
  <2> QED
    <3>1. ASSUME NEW v \in Clients
          PROVE  /\ conn'[v] <= Len(link)
                 /\ IF at'[v] = "ready" THEN answer[v] = 0 ELSE job[v].host \in Hosts
      <4>1. /\ conn[v] <= Len(link) /\ v \in DOMAIN conn /\ v \in DOMAIN at
            /\ IF at[v] = "ready" THEN answer[v] = 0 ELSE job[v].host \in Hosts
        BY DEF ConnInv, ConnTypes, Ranges
      <4> QED
        BY <1>0, <1>4, <1>6, <4>1 DEF h
    <3> QED
      BY <1>0, <1>5, <1>7, <2>1, <3>1 DEF ConnInv, Ranges
<1>14. AnswersMatch' /\ NoSendOnClosed'
  BY <1>0 DEF ConnInv, AnswersMatch, NoSendOnClosed
<1> QED
  BY <1>8, <1>9, <1>10, <1>11, <1>12, <1>13, <1>14 DEF ConnInv, Matched

(* Every step keeps the invariant.                                         *)
LEMMA ConnStep ==
    ASSUME ConnInv, [Next]_vars
    PROVE  ConnInv'
<1>1. CASE \E w \in Clients : Begin(w) \/ ClientStep(w) \/ MapRace(w)
  <2>1. PICK w \in Clients : Begin(w) \/ ClientStep(w) \/ MapRace(w)
    BY <1>1
  <2>2. Walks(w) \/ Exchanges(w) \/ TakeIdle(w) \/ Dial(w) \/ PutIdle(w)
    BY <2>1 DEF ClientStep, Walks, Exchanges
  <2> QED
    BY <2>2, WalkInv, ExchangeInv, TakeIdleInv, DialInv, PutIdleInv
<1>2. CASE \E c \in DOMAIN link : LoopStep(c) \/ CloseRuns(c) \/ Answer(c)
  <2>1. PICK c \in DOMAIN link : LoopStep(c) \/ CloseRuns(c) \/ Answer(c)
    BY <1>2
  <2>2. ConnTypes /\ Matched /\ DOMAIN link = 1 .. Len(link)
    BY LenProperties DEF ConnInv, ConnTypes
  <2>3. PICK l \in Links : Becomes(c, l) /\ Keeps(link[c], l)
    BY <2>1, <2>2, LoopStepLinks
  <2> QED
    BY <2>1, <2>2, <2>3, LoopStepLinks, LinkKeptInv
<1>3. CASE UNCHANGED vars
  BY <1>3 DEF vars, ConnInv, ConnTypes, Ranges, Exclusive, Matched, Serving, Serves, IdleFree,
     ClosingQuiet, Free, Holds, AnswersMatch, NoSendOnClosed
<1> QED
  BY <1>1, <1>2, <1>3 DEF Next, Rest

(* It holds at the start.                                                  *)
LEMMA ConnInit == Init => ConnInv
<1> SUFFICES ASSUME Init PROVE ConnInv
  OBVIOUS
<1>1. link = << >> /\ Len(link) = 0 /\ link \in Seq(Links)
  BY EmptySeq DEF Init
<1>2. \A h \in Hosts : idle[h] = << >> /\ Len(idle[h]) = 0 /\ idle[h] \in Seq(Nat)
  BY EmptySeq DEF Init
<1>3. \A w \in Clients : ~Holds(w)
  BY DEF Init, Holds
<1>4. ConnTypes
  BY <1>1, <1>2 DEF Init, ConnTypes, Points, NoJob
<1>5. Ranges
  BY <1>1, <1>2, ConnPoolAssumption DEF Init, Ranges, NoJob
<1>6. Exclusive /\ Matched
  BY <1>1, <1>2, <1>3 DEF Exclusive, Matched, Serving, IdleFree, ClosingQuiet
<1>7. AnswersMatch /\ NoSendOnClosed
  BY DEF Init, AnswersMatch, NoSendOnClosed
<1> QED
  BY <1>4, <1>5, <1>6, <1>7 DEF ConnInv

(* It implies the types of ConnPool.                                       *)
LEMMA ConnInvImplies == ConnInv => TypeOK
<1> SUFFICES ASSUME ConnInv PROVE TypeOK
  OBVIOUS
<1>1. DOMAIN link = 1 .. Len(link) /\ Len(link) \in Nat
  BY LenProperties DEF ConnInv, ConnTypes
<1>2. \A w \in Clients : /\ job[w].id \in 0 .. issued /\ job[w].host \in Hosts \cup {"none"}
                       /\ conn[w] \in 0 .. Len(link) /\ answer[w] \in 0 .. issued
  BY <1>1 DEF ConnInv, ConnTypes, Ranges
<1>3. \A h \in Hosts : idle[h] \in Seq(DOMAIN link) /\ Len(idle[h]) <= MaxConnections
  <2> TAKE h \in Hosts
  <2>1. idle[h] \in Seq(Nat) /\ \A i \in 1 .. Len(idle[h]) : idle[h][i] \in DOMAIN link
    BY <1>1 DEF ConnInv, ConnTypes, Ranges
  <2> QED
    BY <2>1 DEF ConnInv, Ranges
<1>4. \A c \in DOMAIN link : /\ link[c].loop \in {"reading", "sending", "leaving", "done"}
                            /\ link[c].fill \in 0 .. Len(link[c].buffer)
  <2> TAKE c \in DOMAIN link
  <2>1. link[c] \in Links
    BY <1>1, ElementOfSeq DEF ConnInv, ConnTypes
  <2>2. link[c].buffer \in Seq(Nat)
    BY <2>1 DEF Links, LinkRecords
  <2> QED
    BY <2>1, <2>2, LenProperties DEF Links, LinkRecords
<1> QED
  BY <1>2, <1>3, <1>4 DEF ConnInv, ConnTypes, TypeOK, Points

(* The invariant holds for any workers, hosts and bounds, whatever the     *)
(* server does.                                                            *)
THEOREM ConnInvariant == Spec => []ConnInv
BY ConnInit, ConnStep, PTL DEF Spec

(* Every variable of the pool keeps its type, and no channel of            *)
(* ConnPool.Idle holds more than MaxConnections.                           *)
THEOREM ConnTypeCorrect == Spec => []TypeOK
BY ConnInvariant, ConnInvImplies, PTL

(* No connection is used by two workers, is idle while used or idle twice, *)
(* or is used for another host.                                            *)
THEOREM ConnsAreExclusive == Spec => []Exclusive
<1>1. ConnInv => Exclusive
  BY DEF ConnInv
<1> QED
  BY <1>1, ConnInvariant, PTL

(* The answer ReadResponse gives to a worker is the one to its own         *)
(* request, with connections reused and after failures.                    *)
THEOREM AnswersAreOwn == Spec => []AnswersMatch
<1>1. ConnInv => AnswersMatch
  BY DEF ConnInv
<1> QED
  BY <1>1, ConnInvariant, PTL

(* The close of a connection never meets a readLoop that sends on          *)
(* readChunks, the panic that would end the process.                       *)
THEOREM CloseNeverPanics == Spec => []NoSendOnClosed
<1>1. ConnInv => NoSendOnClosed
  BY DEF ConnInv
<1> QED
  BY <1>1, ConnInvariant, PTL

-----------------------------------------------------------------------------

(* The users of a host can be counted.                                     *)
LEMMA UsersFinite ==
    \A h : /\ IsFiniteSet(Users(h)) /\ Cardinality(Users(h)) \in Nat
           /\ Cardinality(Users(h)) <= Cardinality(Clients) /\ Cardinality(Clients) \in Nat
<1> TAKE h
<1>1. Users(h) \subseteq Clients
  BY DEF Users
<1> QED
  BY <1>1, ConnPoolAssumption, FS_Subset, FS_CardinalityType

(* Fewer users are not more.                                               *)
LEMMA UsersShrink ==
    ASSUME NEW h, Users(h)' \subseteq Users(h)
    PROVE  Cardinality(Users(h)') <= Cardinality(Users(h)) /\ Cardinality(Users(h)') \in Nat
BY UsersFinite, FS_Subset, FS_CardinalityType

(* A step that takes an idle connection makes a user of the host, one that *)
(* returns it makes none; a worker dials only when nothing was idle, or    *)
(* instead of a connection it has dropped.                                 *)
LEMMA ConnsStep ==
    ASSUME ConnInv, ConnsWithinClients, [Next]_vars
    PROVE  ConnsWithinClients'
<1> SUFFICES ASSUME NEW h \in Hosts
             PROVE  Len(idle'[h]) + Cardinality(Users(h)') <= Cardinality(Clients)
  BY DEF ConnsWithinClients
<1>0. /\ Len(idle[h]) + Cardinality(Users(h)) <= Cardinality(Clients)
      /\ Len(idle[h]) \in Nat /\ idle[h] \in Seq(Nat)
      /\ DOMAIN at = Clients /\ DOMAIN idle = Hosts /\ DOMAIN job = Clients
  BY LenProperties DEF ConnsWithinClients, ConnInv, ConnTypes
<1>1. ASSUME idle' = idle, Users(h)' \subseteq Users(h)
      PROVE  Len(idle'[h]) + Cardinality(Users(h)') <= Cardinality(Clients)
  BY <1>0, <1>1, UsersShrink, UsersFinite
<1>2. ASSUME NEW w \in Clients, Begin(w) \/ LookUp(w) \/ Insert(w)
      PROVE  idle' = idle /\ Users(h)' \subseteq Users(h)
  BY <1>0, <1>2 DEF Begin, LookUp, Insert, Goto, Users, Holds
<1>3. ASSUME NEW w \in Clients, DialFails(w) \/ SendFails(w) \/ ReceiveFails(w) \/ UseResult(w)
      PROVE  idle' = idle /\ Users(h)' \subseteq Users(h)
  BY <1>0, <1>3 DEF DialFails, SendFails, ReceiveFails, UseResult, Forget, Goto, Users, Holds
<1>4. ASSUME NEW w \in Clients,
             Dial(w) \/ Send(w) \/ Receive(w) \/ CheckReturn(w) \/ MapRace(w)
      PROVE  idle' = idle /\ Users(h)' \subseteq Users(h)
  BY <1>0, <1>4 DEF Dial, Send, Receive, CheckReturn, MapRace, Goto, Users, Holds
<1>5. ASSUME NEW w \in Clients, NoneIdle(w)
      PROVE  Len(idle'[h]) + Cardinality(Users(h)') <= Cardinality(Clients)
  <2>1. /\ idle' = idle /\ job' = job /\ idle[job[w].host] = << >>
        /\ at' = [at EXCEPT ![w] = "dial"]
    BY <1>5 DEF NoneIdle, Goto
  <2>2. CASE job[w].host = h
    <3>1. Users(h)' \subseteq Clients /\ Len(idle'[h]) = 0
      BY <2>1, <2>2 DEF Users
    <3> QED
      BY <3>1, FS_Subset, FS_CardinalityType, ConnPoolAssumption
  <2>3. CASE job[w].host # h
    <3>1. Users(h)' \subseteq Users(h)
      BY <1>0, <2>1, <2>3 DEF Users, Holds
    <3> QED
      BY <1>1, <2>1, <3>1
  <2> QED
    BY <2>2, <2>3
<1>6. ASSUME NEW w \in Clients, TakeIdle(w)
      PROVE  Len(idle'[h]) + Cardinality(Users(h)') <= Cardinality(Clients)
  <2>1. /\ idle[job[w].host] # << >>
        /\ idle' = [idle EXCEPT ![job[w].host] = Tail(idle[job[w].host])]
        /\ job' = job /\ at[w] = "select"
        /\ at' = [at EXCEPT ![w] = "dial"] \/ at' = [at EXCEPT ![w] = "send"]
    BY <1>6 DEF TakeIdle, Goto
  <2>2. CASE job[w].host = h
    <3>1. Users(h)' = Users(h) \cup {w} /\ w \notin Users(h)
      BY <1>0, <2>1, <2>2 DEF Users, Holds
    <3>2. Cardinality(Users(h)') = Cardinality(Users(h)) + 1
      BY <3>1, UsersFinite, FS_AddElement
    <3>3. Len(idle'[h]) = Len(idle[h]) - 1
      <4>1. idle'[h] = Tail(idle[h]) /\ idle[h] # << >>
        BY <1>0, <2>1, <2>2
      <4> QED
        BY <1>0, <4>1, HeadTailProperties
    <3> QED
      BY <1>0, <3>2, <3>3, UsersFinite
  <2>3. CASE job[w].host # h
    <3>1. Users(h)' \subseteq Users(h) /\ idle'[h] = idle[h]
      BY <1>0, <2>1, <2>3 DEF Users, Holds
    <3> QED
      BY <1>0, <3>1, UsersShrink, UsersFinite
  <2> QED
    BY <2>2, <2>3
<1>7. ASSUME NEW w \in Clients, PutIdle(w)
      PROVE  Len(idle'[h]) + Cardinality(Users(h)') <= Cardinality(Clients)
  <2>1. /\ idle' = [idle EXCEPT ![job[w].host] = Append(idle[job[w].host], conn[w])]
        /\ job' = job /\ at[w] = "returning" /\ at' = [at EXCEPT ![w] = "result"]
    BY <1>7 DEF PutIdle, Goto
  <2>2. CASE job[w].host = h
    <3>1. Users(h)' = Users(h) \ {w} /\ w \in Users(h)
      BY <1>0, <2>1, <2>2 DEF Users, Holds
    <3>2. Cardinality(Users(h)') = Cardinality(Users(h)) - 1
      BY <3>1, UsersFinite, FS_RemoveElement
    <3>3. Len(idle'[h]) = Len(idle[h]) + 1
      <4>1. idle'[h] = Append(idle[h], conn[w]) /\ conn[w] \in Nat
        BY <1>0, <2>1, <2>2 DEF ConnInv, ConnTypes
      <4> QED
        BY <1>0, <4>1, AppendProperties
    <3> QED
      BY <1>0, <3>2, <3>3, UsersFinite
  <2>3. CASE job[w].host # h
    <3>1. Users(h)' \subseteq Users(h) /\ idle'[h] = idle[h]
      BY <1>0, <2>1, <2>3 DEF Users, Holds
    <3> QED
      BY <1>0, <3>1, UsersShrink, UsersFinite
  <2> QED
    BY <2>2, <2>3
<1>8. CASE \E w \in Clients : Begin(w) \/ ClientStep(w) \/ MapRace(w)
  BY <1>1, <1>2, <1>3, <1>4, <1>5, <1>6, <1>7, <1>8 DEF ClientStep
<1>9. CASE \E c \in DOMAIN link : LoopStep(c) \/ CloseRuns(c) \/ Answer(c)
  <2>1. UNCHANGED <<at, job, idle>>
    BY <1>9 DEF LoopStep, LoopReads, LoopFails, LoopCloses, CloseRuns, Answer
  <2> QED
    BY <1>1, <2>1 DEF Users, Holds
<1>10. CASE UNCHANGED vars
  BY <1>1, <1>10 DEF vars, Users, Holds
<1> QED
  BY <1>8, <1>9, <1>10 DEF Next, Rest

(* For every host there are never more connections, idle, used or about to *)
(* be opened, than workers.                                                *)
THEOREM ConnsBounded == Spec => []ConnsWithinClients
<1>1. Init => ConnsWithinClients
  <2> SUFFICES ASSUME Init PROVE ConnsWithinClients
    OBVIOUS
  <2>1. \A h \in Hosts : Users(h) = {} /\ Len(idle[h]) = 0
    BY DEF Init, Users, Holds
  <2> QED
    BY <2>1, UsersFinite, FS_EmptySet DEF ConnsWithinClients
<1> QED
  BY <1>1, ConnsStep, ConnInvariant, PTL DEF Spec

(* With no more workers than MaxConnections, the send of Return on the     *)
(* channel of the host finds room at once.                                 *)
ReturnHasRoom ==
    \A w \in Clients : at[w] = "returning" => Len(idle[job[w].host]) < MaxConnections

(* No worker is ever blocked in Return if the workers are at most          *)
(* MaxConnections: the worker that returns its connection is counted among *)
(* the users of the host, so the idle connections are fewer.               *)
THEOREM ReturnNeverBlocks ==
    ASSUME Cardinality(Clients) <= MaxConnections
    PROVE  Spec => []ReturnHasRoom
<1>1. ConnInv /\ ConnsWithinClients => ReturnHasRoom
  <2> SUFFICES ASSUME ConnInv, ConnsWithinClients, NEW w \in Clients, at[w] = "returning"
               PROVE  Len(idle[job[w].host]) < MaxConnections
    BY DEF ReturnHasRoom
  <2> DEFINE h == job[w].host
  <2>1. h \in Hosts /\ w \in Users(h) /\ idle[h] \in Seq(Nat)
    BY DEF ConnInv, ConnTypes, Ranges, Users, Holds
  <2>2. Cardinality(Users(h)) # 0
    BY <2>1, UsersFinite, FS_EmptySet
  <2>3. Len(idle[h]) + Cardinality(Users(h)) <= Cardinality(Clients)
    BY <2>1 DEF ConnsWithinClients
  <2> HIDE DEF h
  <2> QED
    BY <2>1, <2>2, <2>3, UsersFinite, LenProperties, ConnPoolAssumption DEF h
<1> QED
  BY <1>1, ConnInvariant, ConnsBounded, PTL
=============================================================================
