-------------------------- MODULE BenchmarkServer --------------------------
(***************************************************************************)
(* xs-benchmark-server, an echo: a connection is piped into itself.  Here  *)
(* it serves the clients of BenchmarkClient, which count on every byte to  *)
(* come back; each of their steps is joined with what it does to the       *)
(* connection that the server sees, and the server runs between any two.   *)
(***************************************************************************)
EXTENDS BenchmarkClient

CONSTANT MaxLeft  \* bound: connections left behind before one more connect times out

ASSUME LeftAssumption == MaxLeft \in Nat

VARIABLES
    conn,      \* a slot's connection: "none", "backlog", "open" or "closed"
    up,        \* bytes on their way to the server
    held,      \* dst->wbuf_len: read, but not written yet
    waits,     \* the event that is added: "read" or "write"
    down,      \* bytes on their way back
    leftQueue, \* connections in the backlog that their client has closed
    leftOpen,  \* open connections that their client has closed
    client_count

bytes == <<up, held, waits, down>>
left == <<leftQueue, leftOpen>>
serverVars == <<conn, bytes, left, client_count>>
allVars == <<vars, serverVars>>

InitServer ==
    /\ conn = [c \in Slots |-> "backlog"]
    /\ up = [c \in Slots |-> 0]
    /\ held = [c \in Slots |-> 0]
    /\ waits = [c \in Slots |-> "read"]
    /\ down = [c \in Slots |-> 0]
    /\ leftQueue = 0
    /\ leftOpen = 0
    /\ client_count = 0

InitBoth == Init /\ InitServer

-----------------------------------------------------------------------------
(* The server. *)

\* tcpServerOnAccept.
Accept(c) ==
    /\ conn[c] = "backlog"
    /\ conn' = [conn EXCEPT ![c] = "open"]
    /\ client_count' = client_count + 1
    /\ UNCHANGED <<vars, bytes, left>>

\* tcpServerOnAccept for a client that has gone: the accept may fail, and then
\* there is no client to count.
AcceptGone ==
    /\ leftQueue > 0
    /\ leftQueue' = leftQueue - 1
    /\ \/ leftOpen' = leftOpen + 1 /\ client_count' = client_count + 1
       \/ UNCHANGED <<leftOpen, client_count>>
    /\ UNCHANGED <<vars, conn, bytes>>

\* The events after a write in tcpPipe.
EchoEvent(rest) == IF rest > 0 THEN "write" ELSE "read"

\* tcpClientOnRead: tcpPipe(conn, conn) reads, and writes what it can.
EchoRead(c) ==
    /\ conn[c] = "open"
    /\ waits[c] = "read"
    /\ \E r \in 1..Min({up[c], IoBuf}) : \E n \in 0..r :
        /\ up' = [up EXCEPT ![c] = @ - r]
        /\ down' = [down EXCEPT ![c] = @ + n]
        /\ held' = [held EXCEPT ![c] = r - n]
        /\ waits' = [waits EXCEPT ![c] = EchoEvent(r - n)]
    /\ UNCHANGED <<vars, conn, left, client_count>>

\* Defect: the rest counts as written when some of it was.
RestAfterAll(rest, n) == 0

\* dst->wbuf_len after nwrite bytes.
RestAfter(rest, n) == rest - n

\* tcpPipeWrite: more of what is held goes out.
EchoWrite(c) ==
    /\ conn[c] = "open"
    /\ waits[c] = "write" /\ held[c] > 0
    /\ \E n \in 1..held[c] :
        /\ down' = [down EXCEPT ![c] = @ + n]
        /\ held' = [held EXCEPT ![c] = RestAfter(@, n)]
    /\ UNCHANGED <<vars, conn, up, waits, left, client_count>>

\* tcpPipeWrite with nothing left: the connection is read again.
EchoWriteDone(c) ==
    /\ conn[c] = "open"
    /\ waits[c] = "write" /\ held[c] = 0
    /\ waits' = [waits EXCEPT ![c] = "read"]
    /\ UNCHANGED <<vars, conn, up, held, down, left, client_count>>

\* Defect: a connection that is closed stays in the count.
CountAfterCloseKept == client_count

\* tcpClientOnClose.
CountAfterClose == client_count - 1

\* The end of file, or a write that fails: the client has closed.
CloseGone ==
    /\ leftOpen > 0
    /\ leftOpen' = leftOpen - 1
    /\ client_count' = CountAfterClose
    /\ UNCHANGED <<vars, conn, bytes, leftQueue>>

\* The same when the client's process has ended.
CloseEnded(c) ==
    /\ run # "running"
    /\ conn[c] = "open"
    /\ conn' = [conn EXCEPT ![c] = "closed"]
    /\ client_count' = CountAfterClose
    /\ UNCHANGED <<vars, bytes, left>>

\* The server's timer or an error of the socket, while the client is there.
CloseEarly(c) ==
    /\ run = "running"
    /\ conn[c] = "open"
    /\ faults < MaxFaults
    /\ faults' = faults + 1
    /\ conn' = [conn EXCEPT ![c] = "closed"]
    /\ client_count' = CountAfterClose
    /\ UNCHANGED <<keepalive, at, wbuf_len, rbuf_off, echo, counts, liveclients, run, bytes, left>>

-----------------------------------------------------------------------------
(* The clients, and their side of the connection. *)

\* The connection of c is closed by its client, and the slots that have a new
\* client are in the backlog.
Hangup(c) ==
    /\ conn' = [d \in Slots |->
        IF at'[d] = "connecting" /\ (d = c \/ at[d] = "none") THEN "backlog"
        ELSE IF d = c THEN "none" ELSE conn[d]]
    /\ leftQueue' = leftQueue + (IF conn[c] = "backlog" THEN 1 ELSE 0)
    /\ leftOpen' = leftOpen + (IF conn[c] = "open" THEN 1 ELSE 0)
    /\ up' = Cleared(up, {c})
    /\ held' = Cleared(held, {c})
    /\ waits' = [waits EXCEPT ![c] = "read"]
    /\ down' = Cleared(down, {c})
    /\ UNCHANGED client_count

ClientConnect(c) == tcpClientOnConnect(c) /\ UNCHANGED serverVars

ClientConnectFails(c) == ConnectFails(c) /\ UNCHANGED serverVars

ClientWrite(c) ==
    /\ WriteSome(c)
    /\ up' = [up EXCEPT ![c] = @ + (echo'[c] - echo[c])]
    /\ UNCHANGED <<conn, held, waits, down, left, client_count>>

ClientWriteNothing(c) == WriteNothing(c) /\ UNCHANGED serverVars

\* The bytes that a client reads have to be there.
ClientRead(c) ==
    /\ ReadSome(c)
    /\ echo[c] - echo'[c] <= down[c]
    /\ down' = [down EXCEPT ![c] = @ - (echo[c] - echo'[c])]
    /\ UNCHANGED <<conn, up, held, waits, left, client_count>>

ClientReadLast(c) ==
    /\ ReadLast(c)
    /\ down[c] = echo[c]
    /\ IF at'[c] = "connecting"
       THEN Hangup(c)
       ELSE /\ down' = [down EXCEPT ![c] = 0]
            /\ UNCHANGED <<conn, up, held, waits, left, client_count>>

ClientLast(c) == WriteLast(c) /\ Hangup(c)
ClientBreak(c) == Break(c) /\ Hangup(c)
ClientTimeout(c) == Timeout(c) /\ Hangup(c)

ClientConnectTimeout(c) ==
    /\ leftQueue + leftOpen <= MaxLeft
    /\ ConnectTimeout(c)
    /\ Hangup(c)

\* A read finds the connection closed by the server: tcpClientOnClose.
ClientSeesClose(c) ==
    /\ run = "running"
    /\ at[c] = "reading"
    /\ conn[c] = "closed"
    /\ Replace(c)
    /\ Hangup(c)
    /\ UNCHANGED <<keepalive, counts, faults, run>>

Report == showThroughput /\ UNCHANGED serverVars

ClientStep(c) ==
    \/ ClientConnect(c) \/ ClientWrite(c) \/ ClientRead(c) \/ ClientReadLast(c)
    \/ ClientLast(c) \/ ClientTimeout(c) \/ ClientConnectTimeout(c) \/ ClientSeesClose(c)

ServerStep(c) ==
    \/ Accept(c) \/ EchoRead(c) \/ EchoWrite(c) \/ EchoWriteDone(c) \/ CloseEnded(c)

NextBoth ==
    \/ \E c \in Slots :
        \/ ClientStep(c) \/ ServerStep(c)
        \/ ClientConnectFails(c) \/ ClientWriteNothing(c) \/ ClientBreak(c) \/ CloseEarly(c)
    \/ AcceptGone \/ CloseGone \/ Report

\* Either loop serves its connections and its timers; what happens to a
\* connect, that it succeeds or that it times out, is up to the network.
BothSpec ==
    /\ InitBoth /\ [][NextBoth]_allVars
    /\ WF_allVars(AcceptGone) /\ WF_allVars(CloseGone) /\ WF_allVars(Report)
    /\ \A c \in Slots : WF_allVars(ClientStep(c)) /\ WF_allVars(ServerStep(c))

-----------------------------------------------------------------------------
(* Properties. *)

\* What a client has sent and not got back is in one of the sockets or in the
\* server's buffer, whatever the server could read and write at once: the
\* pipe of a connection into itself neither loses nor repeats a byte.
EchoConserved ==
    \A c \in Slots : conn[c] \in {"backlog", "open"} => echo[c] = up[c] + held[c] + down[c]

\* From some time on no connect times out.
ConnectsAnswered == <>[][\A c \in Slots : ~ClientConnectTimeout(c)]_allVars

\* The program comes to an end, by its report, an abort or an exit, unless its
\* connects time out for ever: a client that breaks, stands still or has
\* nothing left to do never keeps it from that.
Stops == ConnectsAnswered => <>(run # "running")

\* It comes to an end whatever its connects do.  Does not hold: a client whose
\* connect times out is replaced without limit, and liveclients is never zero.
AlwaysStops == <>(run # "running")

\* "can be compared using build-in benchmark tools" (README): the requests
\* all finish unless a connection breaks or a socket is not served in time, or
\* the connects time out for ever.  A connect that times out loses none.
AllFinish == ConnectsAnswered => <>(run = "done" \/ faults > 0)

\* The server does not keep a connection whose client has gone, also one that
\* was closed in the backlog, by a connect that timed out or in the middle of
\* an echo: when the clients have ended its count comes back to zero and stays
\* there.  (Clients that try to connect for ever have not ended.)
ServerDrains == ConnectsAnswered => <>[](client_count = 0 /\ leftQueue = 0)
=============================================================================
