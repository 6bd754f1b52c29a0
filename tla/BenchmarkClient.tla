-------------------------- MODULE BenchmarkClient --------------------------
(***************************************************************************)
(* xs-benchmark-client: a fixed number of parallel clients sends requests  *)
(* through the proxy to an echo server, a piece at a time, each piece      *)
(* after the echo of the one before; the run stops when all the requests   *)
(* are finished.  A client is a slot here; a replaced client takes the     *)
(* slot of the one that was freed.                                         *)
(***************************************************************************)
EXTENDS Integers, FiniteSets, FiniteSetsExt

CONSTANTS
    Slots,       \* the clients; their number is numclients
    Requests,    \* app->requests
    BufSize,     \* app->buf_size
    IoBuf,       \* NET_IOBUF_LEN, the largest piece
    Overhead,    \* bytes that the encryption adds to a piece: 0 without AEAD
    MaxFaults,   \* bound: connections that fail or break, writes that take nothing
    MaxIssued    \* bound: requests_issued after which no connect times out

ASSUME BenchAssumption ==
    /\ IsFiniteSet(Slots) /\ Slots # {}
    /\ Requests \in Nat \ {0}
    /\ BufSize \in Nat \ {0}
    /\ IoBuf \in Nat \ {0}
    /\ Overhead \in Nat
    /\ MaxFaults \in Nat
    /\ MaxIssued \in Nat

VARIABLES
    keepalive, \* app->keepalive
    at,        \* a client's step: "none", "connecting", "writing" or "reading"
    wbuf_len,  \* conn->wbuf_len: what TCP_WRITE has returned for the request
    rbuf_off,  \* conn->rbuf_off: what has been read of the echo
    echo,      \* bytes on their way to the server and back
    requests_issued,
    requests_finished,
    liveclients,
    faults,    \* faults so far
    run        \* "running", "done", "aborted" or "exit"

counts == <<requests_issued, requests_finished>>
vars == <<keepalive, at, wbuf_len, rbuf_off, echo, counts, liveclients, faults, run>>

Steps == {"none", "connecting", "writing", "reading"}

TypeOK ==
    /\ keepalive \in BOOLEAN
    /\ at \in [Slots -> Steps]
    /\ wbuf_len \in [Slots -> 0..BufSize + Overhead * BufSize]
    /\ rbuf_off \in [Slots -> 0..BufSize]
    /\ echo \in [Slots -> 0..BufSize]
    /\ requests_issued \in Nat
    /\ requests_finished \in 0..Requests
    /\ liveclients \in 0..Cardinality(Slots)
    /\ run \in {"running", "done", "aborted", "exit"}

\* benchmark: tcpClientCreate, createMissingClients.
Init ==
    /\ keepalive \in BOOLEAN
    /\ at = [c \in Slots |-> "connecting"]
    /\ wbuf_len = [c \in Slots |-> 0]
    /\ rbuf_off = [c \in Slots |-> 0]
    /\ echo = [c \in Slots |-> 0]
    /\ requests_issued = 0
    /\ requests_finished = 0
    /\ liveclients = Cardinality(Slots)
    /\ faults = 0
    /\ run = "running"

-----------------------------------------------------------------------------
\* A freed or a new connection has nothing in its buffers or on the way.
Cleared(f, cs) == [c \in Slots |-> IF c \in cs THEN 0 ELSE f[c]]

Missing(c) == {d \in Slots : at[d] = "none"} \cup {c}

\* tcpClientFree.
tcpClientFree(c) ==
    /\ at' = [at EXCEPT ![c] = "none"]
    /\ liveclients' = liveclients - 1
    /\ wbuf_len' = Cleared(wbuf_len, {c})
    /\ rbuf_off' = Cleared(rbuf_off, {c})
    /\ echo' = Cleared(echo, {c})

\* Defect: only the freed client is counted, not the new ones.
ReplaceMiscounts(c) ==
    /\ at' = [d \in Slots |-> IF d \in Missing(c) THEN "connecting" ELSE at[d]]
    /\ liveclients' = liveclients - 1
    /\ wbuf_len' = Cleared(wbuf_len, {c})
    /\ rbuf_off' = Cleared(rbuf_off, {c})
    /\ echo' = Cleared(echo, {c})

\* tcpClientFree, then createMissingClients: all the free slots are filled.
Replace(c) ==
    /\ at' = [d \in Slots |-> IF d \in Missing(c) THEN "connecting" ELSE at[d]]
    /\ liveclients' = Cardinality(Slots)
    /\ wbuf_len' = Cleared(wbuf_len, {c})
    /\ rbuf_off' = Cleared(rbuf_off, {c})
    /\ echo' = Cleared(echo, {c})

\* tcpClientReset: the next request, on the same connection.
tcpClientReset(c) ==
    /\ at' = [at EXCEPT ![c] = "writing"]
    /\ wbuf_len' = [wbuf_len EXCEPT ![c] = 0]
    /\ rbuf_off' = [rbuf_off EXCEPT ![c] = 0]

\* tcpClientOnConnect.
tcpClientOnConnect(c) ==
    /\ run = "running"
    /\ at[c] = "connecting"
    /\ tcpClientReset(c)
    /\ UNCHANGED <<keepalive, echo, counts, liveclients, faults, run>>

\* A connect that fails ends the program.
ConnectFails(c) ==
    /\ run = "running"
    /\ at[c] = "connecting"
    /\ faults < MaxFaults
    /\ faults' = faults + 1
    /\ run' = "exit"
    /\ UNCHANGED <<keepalive, at, wbuf_len, rbuf_off, echo, counts, liveclients>>

\* Defect: one request too many is let through.
ExhaustedLate == requests_issued > Requests

\* tcpClientOnWrite: all the requests have been given out.
Exhausted == requests_issued >= Requests

\* The piece that is written next.
Piece(c) == Min({IoBuf, BufSize - wbuf_len[c]})

\* tcpClientOnWrite begins a request: one more is issued.
Issue(c) == requests_issued' = IF wbuf_len[c] = 0 THEN requests_issued + 1 ELSE requests_issued

\* tcpClientOnWrite: a client with nothing left to do is freed for good.
WriteLast(c) ==
    /\ run = "running"
    /\ at[c] = "writing"
    /\ wbuf_len[c] = 0 /\ Exhausted
    /\ Issue(c)
    /\ tcpClientFree(c)
    /\ UNCHANGED <<keepalive, requests_finished, faults, run>>

\* What comes back for n bytes that the socket took: as many without AEAD;
\* with it the piece, once the whole of its chunk has gone out.
Echoed(c, n) ==
    IF Overhead = 0 THEN n
    ELSE IF n = Piece(c) + Overhead THEN Piece(c) ELSE 0

\* tcpClientOnWrite: some of the piece goes out, and the echo is waited for.
\* TCP_WRITE returns how much of the ciphertext went out.  (There always is a
\* piece: a client writes again only when less than BufSize has come back.
\* With AEAD it does not write again: its count is ahead of the echo, and the
\* rest of a chunk that went out in part stays in tmp_buf.)
WriteSome(c) ==
    /\ run = "running"
    /\ at[c] = "writing"
    /\ ~(wbuf_len[c] = 0 /\ Exhausted)
    /\ Issue(c)
    /\ Piece(c) > 0
    /\ \E n \in 1..Piece(c) + Overhead :
        /\ wbuf_len' = [wbuf_len EXCEPT ![c] = @ + n]
        /\ echo' = [echo EXCEPT ![c] = @ + Echoed(c, n)]
    /\ at' = [at EXCEPT ![c] = "reading"]
    /\ UNCHANGED <<keepalive, rbuf_off, requests_finished, liveclients, faults, run>>

\* tcpClientOnWrite: the socket takes nothing, and the client tries again.
WriteNothing(c) ==
    /\ run = "running"
    /\ at[c] = "writing"
    /\ ~(wbuf_len[c] = 0 /\ Exhausted)
    /\ Piece(c) > 0
    /\ faults < MaxFaults
    /\ faults' = faults + 1
    /\ Issue(c)
    /\ UNCHANGED <<keepalive, at, wbuf_len, rbuf_off, echo, requests_finished, liveclients, run>>

\* Defect: the next piece waits for the echo of the whole request.
AfterEchoWhole(c, off) == IF off = BufSize THEN "writing" ELSE "reading"

\* tcpClientOnRead: the next piece goes out when all that was written is back.
AfterEcho(c, off) == IF off = wbuf_len[c] THEN "writing" ELSE "reading"

\* tcpClientOnRead, the request is not finished yet.
ReadSome(c) ==
    /\ run = "running"
    /\ at[c] = "reading"
    /\ \E n \in 1..echo[c] :
        /\ rbuf_off[c] + n < BufSize
        /\ rbuf_off' = [rbuf_off EXCEPT ![c] = @ + n]
        /\ echo' = [echo EXCEPT ![c] = @ - n]
        /\ at' = [at EXCEPT ![c] = AfterEcho(c, rbuf_off[c] + n)]
    /\ UNCHANGED <<keepalive, wbuf_len, counts, liveclients, faults, run>>

\* tcpClientOnRead, the request is finished; tcpClientDone.
ReadLast(c) ==
    /\ run = "running"
    /\ at[c] = "reading"
    /\ echo[c] > 0 /\ rbuf_off[c] + echo[c] >= BufSize
    /\ requests_finished' = requests_finished + 1
    /\ IF requests_finished' = Requests
       THEN /\ run' = "done"
            /\ rbuf_off' = [rbuf_off EXCEPT ![c] = @ + echo[c]]
            /\ echo' = [echo EXCEPT ![c] = 0]
            /\ UNCHANGED <<at, wbuf_len, liveclients>>
       ELSE /\ run' = run
            /\ IF keepalive
               THEN /\ tcpClientReset(c)
                    /\ echo' = [echo EXCEPT ![c] = 0]
                    /\ UNCHANGED liveclients
               ELSE Replace(c)
    /\ UNCHANGED <<keepalive, requests_issued, faults>>

\* A read or a write fails, or the server closes: tcpClientOnClose.  A first
\* write that fails has issued its request.
Break(c) ==
    /\ run = "running"
    /\ \/ at[c] = "reading" /\ UNCHANGED requests_issued
       \/ at[c] = "writing" /\ ~(wbuf_len[c] = 0 /\ Exhausted) /\ Issue(c)
    /\ faults < MaxFaults
    /\ faults' = faults + 1
    /\ Replace(c)
    /\ UNCHANGED <<keepalive, requests_finished, run>>

\* The timer of a connection that stands still, then tcpClientOnClose: nothing
\* is on its way back any more, or the socket is not served in time.
Timeout(c) ==
    /\ run = "running"
    /\ \/ at[c] = "reading" /\ echo[c] = 0 /\ faults' = faults
       \/ /\ at[c] \in {"writing", "reading"}
          /\ faults < MaxFaults
          /\ faults' = faults + 1
    /\ Replace(c)
    /\ UNCHANGED <<keepalive, counts, run>>

\* The timer of a connect, then tcpClientOnClose: the next client tries again,
\* as often as it takes.
ConnectTimeout(c) ==
    /\ run = "running"
    /\ at[c] = "connecting"
    /\ requests_issued <= MaxIssued
    /\ Replace(c)
    /\ UNCHANGED <<keepalive, counts, faults, run>>

\* Defect: nobody looks whether there is a client left.
showThroughputBlind ==
    /\ run = "running"
    /\ FALSE
    /\ UNCHANGED vars

\* showThroughput, every now and then.
showThroughput ==
    /\ run = "running"
    /\ liveclients = 0
    /\ requests_finished # Requests
    /\ run' = "aborted"
    /\ UNCHANGED <<keepalive, at, wbuf_len, rbuf_off, echo, counts, liveclients, faults>>

Next ==
    \/ \E c \in Slots :
        \/ tcpClientOnConnect(c) \/ ConnectFails(c) \/ ConnectTimeout(c)
        \/ WriteLast(c) \/ WriteSome(c) \/ WriteNothing(c)
        \/ ReadSome(c) \/ ReadLast(c) \/ Break(c) \/ Timeout(c)
    \/ showThroughput

\* Its fairness is stated with the server's, in BenchmarkServer.
Spec == Init /\ [][Next]_vars

-----------------------------------------------------------------------------
(* Properties. *)

\* A client is in the middle of a request.
Busy(c) ==
    /\ at[c] \in {"writing", "reading"}
    /\ wbuf_len[c] > 0
    /\ rbuf_off[c] < BufSize

\* duration_list has room: the requests that are finished and those that are
\* under way are never more than app->requests, however many clients race for
\* the last one and whatever happened to their connections.
DurationsFit ==
    requests_finished + Cardinality({c \in Slots : Busy(c)}) <= Requests

\* liveclients, on which createMissingClients and the abort depend, is the
\* number of clients.
LiveExact == liveclients = Cardinality({c \in Slots : at[c] # "none"})
=============================================================================
