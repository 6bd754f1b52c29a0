------------------------------ MODULE TcpRelay ------------------------------
(***************************************************************************)
(* The TCP relay shared by xs-server, xs-local and xs-redir (module_tcp.c  *)
(* on top of tcp.c): a listener accepts clients, each client gets a remote *)
(* connection, and the pair is piped both ways until one side ends, fails  *)
(* or times out.  Everything runs in one event loop: an action is one      *)
(* callback run to its end, and callbacks of all sessions interleave.      *)
(*                                                                         *)
(* Buffers are abstracted to what the control flow tells apart (TcpPipe    *)
(* has their contents); the outcome of a system call, of name resolution,  *)
(* of decryption and parsing is a choice of the environment.               *)
(***************************************************************************)
EXTENDS Integers, FiniteSets

CONSTANTS
    Sessions,  \* slots for accepted clients; a freed slot is used again
    TimeoutOn  \* the configured timeout is positive

ASSUME RelayAssumption ==
    /\ IsFiniteSet(Sessions)
    /\ TimeoutOn \in BOOLEAN

VARIABLES
    program,       \* which program runs: "server", "local" or "redir"
    client,        \* the tcpClient object of a slot: "free" or "live"
    remote,        \* its tcpRemote: "free", "connecting" or "connected"
    link,          \* client->remote is not NULL
    hs,            \* protocol state of the client's connection
    cconn,         \* the client's tcpConn
    rconn,         \* the remote's tcpConn
    client_count,  \* server->client_count
    remote_count,  \* server->remote_count
    fault,         \* invalid accesses that have happened
    up             \* the process is running

vars == <<program, client, remote, link, hs, cconn, rconn, client_count, remote_count, fault, up>>

-----------------------------------------------------------------------------
(* A tcpConn: which of its events are registered (re, we, te), whether its *)
(* timeout is positive, TCP_FLAG_PIPE, whether rbuf holds bytes the peer   *)
(* has not taken yet, and the state of wbuf: NULL, bytes left, none left,  *)
(* or more written than it had, which makes its length negative.           *)

ConnRecords ==
    [re : BOOLEAN, we : BOOLEAN, te : BOOLEAN, timed : BOOLEAN, pipe : BOOLEAN,
     rbuf : {"empty", "held"}, wbuf : {"null", "unsent", "sent", "over"}]

\* After tcpClose: the events are deleted and freed with the connection.
NoConn ==
    [re |-> FALSE, we |-> FALSE, te |-> FALSE, timed |-> FALSE, pipe |-> FALSE,
     rbuf |-> "empty", wbuf |-> "null"]

\* Defect: the timer outlives the connection.
tcpCloseKeepsTimer(c) == [NoConn EXCEPT !.te = c.te]

tcpClose(c) == NoConn

\* tcpConnNew and tcpInit for an accepted socket, and tcpClientNew's
\* ADD_EVENT_READ.
AcceptedConn ==
    [re |-> TRUE, we |-> FALSE, te |-> TimeoutOn, timed |-> TimeoutOn, pipe |-> FALSE,
     rbuf |-> "empty", wbuf |-> "null"]

\* tcpConnect and tcpInit: the write event reports the end of connect().
ConnectingConn ==
    [re |-> FALSE, we |-> TRUE, te |-> TimeoutOn, timed |-> TimeoutOn, pipe |-> FALSE,
     rbuf |-> "empty", wbuf |-> "null"]

\* Defect: the client keeps its timer next to the remote's.
PrepareConnectKeepsTimer(c) == [c EXCEPT !.re = FALSE]

\* tcpRemoteNew, "Prepare remote connect": tcpSetTimeout(client, -1) and
\* DEL_EVENT_READ(client).
PrepareConnect(c) == [c EXCEPT !.timed = FALSE, !.te = FALSE, !.re = FALSE]

\* Defect: the timer is deleted for the read and not registered again.
AfterReadNoTimer(c) == [c EXCEPT !.te = FALSE]

\* tcpRead deletes the timer and registers it again after a good read.
AfterRead(c) == [c EXCEPT !.te = c.timed]

\* Defect: the source goes on reading over bytes that are not written yet.
SrcHeldKeepsReading(c) == [AfterRead(c) EXCEPT !.rbuf = "held"]

\* tcpPipe, source and destination side, when the write took everything and
\* when it left some of it; DstIdle is the destination of an empty read.
SrcDone(c) == [AfterRead(c) EXCEPT !.rbuf = "empty", !.re = TRUE]
DstDone(c) == [c EXCEPT !.pipe = TRUE, !.wbuf = "null", !.we = FALSE]
SrcHeld(c) == [AfterRead(c) EXCEPT !.rbuf = "held", !.re = FALSE]
DstIdle(c) == [c EXCEPT !.pipe = TRUE]
DstHeld(c) == [c EXCEPT !.pipe = TRUE, !.wbuf = "unsent", !.we = TRUE]

\* tcpPipeWrite: the last byte goes out; the next write event notices it,
\* releases the source's buffer and lets it read again.  A ciphertext is longer
\* than its plaintext: the write may return more than there was to write.
DstSent(c) == [c EXCEPT !.wbuf = "sent"]
DstOver(c) == [c EXCEPT !.wbuf = "over"]
DstReleased(c) == [c EXCEPT !.wbuf = "null", !.we = FALSE]
SrcReleased(c) == [c EXCEPT !.rbuf = "empty", !.re = TRUE]

-----------------------------------------------------------------------------
Programs == {"server", "local", "redir"}

\* Uses of a pointer that is NULL or freed, and the two ways in which the
\* encryption of a relay's data ends the process.
Faults == {"null_remote", "freed_conn", "assert", "negative"}

Typed ==
    /\ client \in [Sessions -> {"free", "live"}]
    /\ remote \in [Sessions -> {"free", "connecting", "connected"}]
    /\ link \in [Sessions -> BOOLEAN]
    /\ hs \in [Sessions -> {"init", "handshake", "stream"}]
    /\ cconn \in [Sessions -> ConnRecords]
    /\ rconn \in [Sessions -> ConnRecords]
    /\ fault \in SUBSET Faults
    /\ up \in BOOLEAN

\* The types of the state, with counters that never fall below zero.
TypeOK ==
    /\ Typed
    /\ program \in Programs
    /\ client_count \in Nat
    /\ remote_count \in Nat

Init ==
    /\ program \in Programs
    /\ client = [s \in Sessions |-> "free"]
    /\ remote = [s \in Sessions |-> "free"]
    /\ link = [s \in Sessions |-> FALSE]
    /\ hs = [s \in Sessions |-> "init"]
    /\ cconn = [s \in Sessions |-> NoConn]
    /\ rconn = [s \in Sessions |-> NoConn]
    /\ client_count = 0
    /\ remote_count = 0
    /\ fault = {}
    /\ up = TRUE

-----------------------------------------------------------------------------
(* Objects. *)

\* Defect: the remote's count is not given back.
tcpConnectionFreeLeaksCount(s) ==
    /\ client_count' = client_count - 1
    /\ remote_count' = remote_count
    /\ remote' = IF link[s] THEN [remote EXCEPT ![s] = "free"] ELSE remote
    /\ rconn' = IF link[s] THEN [rconn EXCEPT ![s] = tcpClose(@)] ELSE rconn
    /\ client' = [client EXCEPT ![s] = "free"]
    /\ cconn' = [cconn EXCEPT ![s] = tcpClose(@)]
    /\ link' = [link EXCEPT ![s] = FALSE]
    /\ hs' = [hs EXCEPT ![s] = "init"]

\* Defect: a remote is counted out that was never there.
tcpConnectionFreeCountsNone(s) ==
    /\ client_count' = client_count - 1
    /\ remote_count' = remote_count - 1
    /\ remote' = IF link[s] THEN [remote EXCEPT ![s] = "free"] ELSE remote
    /\ rconn' = IF link[s] THEN [rconn EXCEPT ![s] = tcpClose(@)] ELSE rconn
    /\ client' = [client EXCEPT ![s] = "free"]
    /\ cconn' = [cconn EXCEPT ![s] = tcpClose(@)]
    /\ link' = [link EXCEPT ![s] = FALSE]
    /\ hs' = [hs EXCEPT ![s] = "init"]

\* Free a client and, if its pointer is set, its remote.
tcpConnectionFree(s) ==
    /\ client_count' = client_count - 1
    /\ remote_count' = IF link[s] THEN remote_count - 1 ELSE remote_count
    /\ remote' = IF link[s] THEN [remote EXCEPT ![s] = "free"] ELSE remote
    /\ rconn' = IF link[s] THEN [rconn EXCEPT ![s] = tcpClose(@)] ELSE rconn
    /\ client' = [client EXCEPT ![s] = "free"]
    /\ cconn' = [cconn EXCEPT ![s] = tcpClose(@)]
    /\ link' = [link EXCEPT ![s] = FALSE]
    /\ hs' = [hs EXCEPT ![s] = "init"]

\* The session ends in a callback that touches none of its objects again.
End(s) ==
    /\ tcpConnectionFree(s)
    /\ UNCHANGED <<fault, up, program>>

\* Defect: the client does not learn of its remote.
tcpRemoteNewUnlinked(s) ==
    /\ remote' = [remote EXCEPT ![s] = "connecting"]
    /\ rconn' = [rconn EXCEPT ![s] = ConnectingConn]
    /\ link' = link
    /\ remote_count' = remote_count + 1

\* tcpRemoteNew, when connect() has been started.
tcpRemoteNew(s) ==
    /\ remote' = [remote EXCEPT ![s] = "connecting"]
    /\ rconn' = [rconn EXCEPT ![s] = ConnectingConn]
    /\ link' = [link EXCEPT ![s] = TRUE]
    /\ remote_count' = remote_count + 1

-----------------------------------------------------------------------------
(* tcpServerOnAccept.  When accept() fails nothing changes, and when redir *)
(* cannot find or reach the destination the client is freed again at once. *)

Accept(s) ==
    /\ up
    /\ program \in {"server", "local"}
    /\ client[s] = "free"
    /\ client' = [client EXCEPT ![s] = "live"]
    /\ cconn' = [cconn EXCEPT ![s] = AcceptedConn]
    /\ client_count' = client_count + 1
    /\ UNCHANGED <<remote, link, hs, rconn, remote_count, fault, up, program>>

AcceptRedir(s) ==
    /\ up
    /\ program = "redir"
    /\ client[s] = "free"
    /\ client' = [client EXCEPT ![s] = "live"]
    /\ cconn' = [cconn EXCEPT ![s] = PrepareConnect(AcceptedConn)]
    /\ hs' = [hs EXCEPT ![s] = "stream"]
    /\ client_count' = client_count + 1
    /\ tcpRemoteNew(s)
    /\ UNCHANGED <<fault, up, program>>

-----------------------------------------------------------------------------
(* tcpClientOnRead before there is a remote. *)

ClientReadable(s) == up /\ client[s] = "live" /\ cconn[s].re

Setup(s) == ClientReadable(s) /\ ~link[s]

\* server.c: the address arrives and is accepted; `left' tells whether data
\* came with it, which stays at the start of rbuf until the connect is done.
ServerRequest(s) ==
    /\ program = "server"
    /\ Setup(s)
    /\ \E left \in {"empty", "held"} :
        cconn' = [cconn EXCEPT
                    ![s] = [PrepareConnect(AfterRead(@)) EXCEPT !.rbuf = left]]
    /\ hs' = [hs EXCEPT ![s] = "stream"]
    /\ tcpRemoteNew(s)
    /\ UNCHANGED <<client, client_count, fault, up, program>>

\* local.c: one message of the socks5 handshake is read and answered.
LocalHandshake(s) ==
    /\ program = "local"
    /\ Setup(s)
    /\ hs[s] # "stream"
    /\ hs' = [hs EXCEPT ![s] = IF @ = "init" THEN "handshake" ELSE "stream"]
    /\ cconn' = [cconn EXCEPT ![s] = AfterRead(@)]
    /\ UNCHANGED <<client, remote, link, rconn, client_count, remote_count, fault, up, program>>

\* The answer goes out only in part.  err is not set on this path, so
\* tcpClientOnError looks for the message in the remote, which is NULL.
LocalReplyShort(s) ==
    /\ program = "local"
    /\ Setup(s)
    /\ hs[s] # "stream"
    /\ fault' = fault \cup {"null_remote"}
    /\ up' = FALSE
    /\ UNCHANGED <<client, remote, link, hs, cconn, rconn, client_count, remote_count, program>>

\* local.c: the first data of the client opens the remote; it is not read.
LocalRequest(s) ==
    /\ program = "local"
    /\ Setup(s)
    /\ hs[s] = "stream"
    /\ cconn' = [cconn EXCEPT ![s] = PrepareConnect(@)]
    /\ tcpRemoteNew(s)
    /\ UNCHANGED <<client, hs, client_count, fault, up, program>>

\* The client ends or fails, its message is refused, the destination is
\* blocked, or the connect cannot be started.
SetupFails(s) ==
    /\ Setup(s)
    /\ End(s)

-----------------------------------------------------------------------------
(* tcpConnWriteHandler of a remote that is still connecting. *)

Connecting(s) == up /\ remote[s] = "connecting" /\ rconn[s].we

\* connect() failed: FIRE_CONNECT, then FIRE_CLOSE.
ConnectFails(s) ==
    /\ Connecting(s)
    /\ End(s)

\* Defect: the remote's read event is not registered.
PreparePipeOneWay(s) ==
    /\ rconn' = [rconn EXCEPT ![s] = [@ EXCEPT !.we = FALSE]]
    /\ cconn' = [cconn EXCEPT ![s] = [@ EXCEPT !.rbuf = "empty", !.re = TRUE]]

\* tcpRemoteOnConnect, "Prepare pipe", with what the server wrote before it.
PreparePipe(s) ==
    /\ rconn' = [rconn EXCEPT ![s] = [@ EXCEPT !.we = FALSE, !.re = TRUE]]
    /\ cconn' = [cconn EXCEPT ![s] = [@ EXCEPT !.rbuf = "empty", !.re = TRUE]]

Connected(s) ==
    /\ Connecting(s)
    /\ remote' = [remote EXCEPT ![s] = "connected"]
    /\ PreparePipe(s)
    /\ UNCHANGED <<client, link, hs, client_count, remote_count, fault, up, program>>

\* server.c: the left-over data is not written, or not all of it.  The
\* session is freed inside the callback, and tcpConnWriteHandler goes on to
\* read the flags of the freed connection: the process may survive that.
LeftoverFails(s) ==
    /\ program = "server"
    /\ Connecting(s)
    /\ cconn[s].rbuf = "held"
    /\ tcpConnectionFree(s)
    /\ fault' = fault \cup {"freed_conn"}
    /\ up' \in BOOLEAN
    /\ UNCHANGED program

-----------------------------------------------------------------------------
(* Relaying. *)

\* Which side is a shadowsocks connection, whose writes encrypt.  (The remote
\* of a bypassed xs-local is raw: it has fewer outcomes, not others.)
EncryptsToClient == program = "server"
EncryptsToRemote == program \in {"local", "redir"}

\* tcpPipe(client, remote): the write takes everything, or leaves some of it,
\* or the read found nothing.
ClientPipe(s) ==
    /\ ClientReadable(s) /\ link[s]
    /\ \/ /\ cconn' = [cconn EXCEPT ![s] = SrcDone(@)]
          /\ rconn' = [rconn EXCEPT ![s] = DstDone(@)]
       \/ /\ cconn' = [cconn EXCEPT ![s] = SrcHeld(@)]
          /\ rconn' = [rconn EXCEPT ![s] = DstHeld(@)]
       \/ /\ cconn' = [cconn EXCEPT ![s] = AfterRead(@)]
          /\ rconn' = [rconn EXCEPT ![s] = DstIdle(@)]
    /\ UNCHANGED <<client, remote, link, hs, client_count, remote_count, fault, up, program>>

RemoteReadable(s) == up /\ remote[s] = "connected" /\ rconn[s].re

\* tcpPipe(remote, client).
RemotePipe(s) ==
    /\ RemoteReadable(s)
    /\ \/ /\ rconn' = [rconn EXCEPT ![s] = SrcDone(@)]
          /\ cconn' = [cconn EXCEPT ![s] = DstDone(@)]
       \/ /\ rconn' = [rconn EXCEPT ![s] = SrcHeld(@)]
          /\ cconn' = [cconn EXCEPT ![s] = DstHeld(@)]
       \/ /\ rconn' = [rconn EXCEPT ![s] = AfterRead(@)]
          /\ cconn' = [cconn EXCEPT ![s] = DstIdle(@)]
    /\ UNCHANGED <<client, remote, link, hs, client_count, remote_count, fault, up, program>>

\* aead_chunk_encrypt is given a full read buffer, one byte more than a chunk
\* may have: its assertion aborts the process.
PipeAssert(s) ==
    /\ \/ ClientReadable(s) /\ link[s] /\ EncryptsToRemote
       \/ RemoteReadable(s) /\ EncryptsToClient
    /\ fault' = fault \cup {"assert"}
    /\ up' = FALSE
    /\ UNCHANGED <<client, remote, link, hs, cconn, rconn, client_count, remote_count, program>>

\* Defect: after TCP_ERR tcpPipe goes on with the two connections.
PipeFailsGoesOn(s) ==
    /\ (ClientReadable(s) /\ link[s]) \/ RemoteReadable(s)
    /\ tcpConnectionFree(s)
    /\ fault' = fault \cup {"freed_conn"}
    /\ UNCHANGED <<up, program>>

\* A read or the write after it fails, or a peer has ended its stream: the
\* first FIRE_CLOSE frees the session, and tcpPipe returns TCP_ERR at once.
PipeFails(s) ==
    /\ (ClientReadable(s) /\ link[s]) \/ RemoteReadable(s)
    /\ End(s)

\* tcpPipeWrite on the remote (client's bytes) and on the client.
RemoteWritable(s) == up /\ remote[s] = "connected" /\ rconn[s].we /\ rconn[s].pipe
ClientWritable(s) == up /\ client[s] = "live" /\ cconn[s].we /\ cconn[s].pipe

RemotePipeWrite(s) ==
    /\ RemoteWritable(s)
    /\ \/ /\ rconn[s].wbuf = "unsent"
          /\ \/ rconn' = [rconn EXCEPT ![s] = DstSent(@)]
             \/ EncryptsToRemote /\ rconn' = [rconn EXCEPT ![s] = DstOver(@)]
          /\ cconn' = cconn
       \/ /\ rconn[s].wbuf = "sent"
          /\ rconn' = [rconn EXCEPT ![s] = DstReleased(@)]
          /\ cconn' = [cconn EXCEPT ![s] = SrcReleased(@)]
    /\ UNCHANGED <<client, remote, link, hs, client_count, remote_count, fault, up, program>>

ClientPipeWrite(s) ==
    /\ ClientWritable(s)
    /\ \/ /\ cconn[s].wbuf = "unsent"
          /\ \/ cconn' = [cconn EXCEPT ![s] = DstSent(@)]
             \/ EncryptsToClient /\ cconn' = [cconn EXCEPT ![s] = DstOver(@)]
          /\ rconn' = rconn
       \/ /\ cconn[s].wbuf = "sent"
          /\ cconn' = [cconn EXCEPT ![s] = DstReleased(@)]
          /\ rconn' = [rconn EXCEPT ![s] = SrcReleased(@)]
    /\ UNCHANGED <<client, remote, link, hs, client_count, remote_count, fault, up, program>>

\* A negative wbuf_len: what is left of the ciphertext still goes out, and then
\* the memcpy into tmp_buf is given that length as a size and ends the process.
PipeWriteNegative(s) ==
    /\ \/ RemoteWritable(s) /\ rconn[s].wbuf = "over"
       \/ ClientWritable(s) /\ cconn[s].wbuf = "over"
    /\ fault' = fault \cup {"negative"}
    /\ up' = FALSE
    /\ UNCHANGED <<client, remote, link, hs, cconn, rconn, client_count, remote_count, program>>

PipeWriteFails(s) ==
    /\ \/ RemoteWritable(s) /\ rconn[s].wbuf \in {"unsent", "over"}
       \/ ClientWritable(s) /\ cconn[s].wbuf \in {"unsent", "over"}
    /\ End(s)

\* tcpConnTimeoutHandler of either connection: FIRE_TIMEOUT, FIRE_CLOSE.
Timeout(s) ==
    /\ up
    /\ cconn[s].te \/ rconn[s].te
    /\ End(s)

-----------------------------------------------------------------------------
Step(s) ==
    \/ Accept(s) \/ AcceptRedir(s)
    \/ ServerRequest(s) \/ LocalHandshake(s) \/ LocalReplyShort(s) \/ LocalRequest(s)
    \/ SetupFails(s)
    \/ ConnectFails(s) \/ Connected(s) \/ LeftoverFails(s)
    \/ ClientPipe(s) \/ RemotePipe(s) \/ PipeAssert(s) \/ PipeFails(s)
    \/ RemotePipeWrite(s) \/ ClientPipeWrite(s) \/ PipeWriteNegative(s) \/ PipeWriteFails(s)
    \/ Timeout(s)

Next == \E s \in Sessions : Step(s)

Spec == Init /\ [][Next]_vars

\* Before the remote is connected at most three reads restart the client's
\* timer and none the remote's, so an armed timer does expire.
SetupTimeout(s) == remote[s] # "connected" /\ Timeout(s)

FairSpec == Spec /\ \A s \in Sessions : WF_vars(SetupTimeout(s))
-----------------------------------------------------------------------------
(* Properties. *)

Live == {s \in Sessions : client[s] = "live"}
Dialled == {s \in Sessions : remote[s] # "free"}

\* The two counters of tcpServer say how many clients and remotes exist:
\* every path that creates or frees an object adjusts them once.
CountsExact ==
    /\ client_count = Cardinality(Live)
    /\ remote_count = Cardinality(Dialled)

\* A remote exists exactly while a live client points to it: none is leaked,
\* none is left behind as a dangling pointer.
LinkSound ==
    \A s \in Sessions :
        /\ link[s] <=> remote[s] # "free"
        /\ link[s] => client[s] = "live"

\* An event is registered only for an object that exists: the loop never
\* calls a handler with the data of a freed connection.
EventsOfLiveOnly ==
    \A s \in Sessions :
        /\ client[s] = "free" => ~(cconn[s].re \/ cconn[s].we \/ cconn[s].te)
        /\ remote[s] = "free" => ~(rconn[s].re \/ rconn[s].we \/ rconn[s].te)

\* A connection reads only into an empty buffer, and never while its peer
\* still has bytes of that buffer to write.
ReadsIntoEmptyBuffer ==
    \A s \in Sessions :
        /\ cconn[s].re => cconn[s].rbuf = "empty" /\ rconn[s].wbuf = "null"
        /\ rconn[s].re => rconn[s].rbuf = "empty" /\ cconn[s].wbuf = "null"

\* Each direction of an established relay waits for its source to be
\* readable or for its destination to be writable, never for nothing.
RelayNotStuck ==
    \A s \in Sessions :
        remote[s] = "connected" =>
            /\ cconn[s].re # (rconn[s].we /\ rconn[s].pipe)
            /\ rconn[s].re # (cconn[s].we /\ cconn[s].pipe)

\* Nothing is read from either side while the remote is being connected.
QuietWhileConnecting ==
    \A s \in Sessions :
        remote[s] = "connecting" => ~cconn[s].re /\ ~rconn[s].re /\ ~cconn[s].we

\* With a timeout configured a session has exactly one armed timer: the
\* client's until the remote exists, the remote's from then on.
OneTimer ==
    TimeoutOn => \A s \in Live : cconn[s].te # rconn[s].te

\* A pointer that is NULL or freed is used only in a session whose remote is not
\* connected yet, and that session or the process is gone then: whichever read,
\* write or timeout frees an established relay, none of its callbacks touches
\* the two connections again.
FreedUsedOnlyInSetup ==
    [][fault' \cap {"null_remote", "freed_conn"} # fault \cap {"null_remote", "freed_conn"} =>
        \E s \in Sessions : client[s] = "live" /\ remote[s] # "connected"
                            /\ (client'[s] = "free" \/ ~up')]_vars

\* A client that is accepted is connected or freed: no handshake and no
\* connect attempt lasts for ever.
SetupEnds ==
    \A s \in Sessions :
        client[s] = "live" ~> (client[s] = "free" \/ remote[s] = "connected" \/ ~up)
=============================================================================
