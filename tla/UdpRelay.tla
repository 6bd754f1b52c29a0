------------------------------ MODULE UdpRelay ------------------------------
(***************************************************************************)
(* The UDP relay of xs-server and xs-tunnel (module_udp.c on top of        *)
(* udp.c).  Every datagram a client sends gets a udpClient and a udpRemote *)
(* of its own; the first answer goes back to the client and frees both, as *)
(* do an error and the timeout.  Sessions share the server's socket and,   *)
(* in xs-server, its addrbuf_dest: the address of the datagram read last,  *)
(* which is also the address header of every answer.                       *)
(***************************************************************************)
EXTENDS Integers, FiniteSets

CONSTANTS
    Slots,     \* requests that can be in progress; a freed slot is used again
    Clients,   \* addresses datagrams come from
    Dests,     \* destinations they name
    TunnelDest, \* the one destination of xs-tunnel
    TimeoutOn, \* the configured timeout is positive
    MaxDrift   \* bound: how far remote_count may fall below zero

ASSUME UdpAssumption ==
    /\ IsFiniteSet(Slots)
    /\ "none" \notin Slots \cup Clients \cup Dests
    /\ TunnelDest \in Dests
    /\ TimeoutOn \in BOOLEAN
    /\ MaxDrift \in Nat

VARIABLES
    program,       \* which program runs: "server" or "tunnel"
    client,        \* the udpClient of a slot: NoClient, or whom and what for
    remote,        \* whether its udpRemote exists
    link,          \* client->remote is not NULL
    timer,         \* the remote's timer is registered
    header,        \* the server connection's addrbuf_dest; NoDest: empty
    remote_count,  \* server->remote_count
    latest,        \* the slot of the datagram read last, if it has one: ghost
    answer,        \* the answer that was sent back last: ghost
    fault,         \* a freed remote has been freed again
    up             \* the process is running

vars == <<program, client, remote, link, timer, header, remote_count, latest, answer, fault, up>>

NoClient == [from |-> "none", dest |-> "none"]
NoDest == "none"
NoSlot == "none"
NoAnswer == [to |-> "none", asked |-> NoDest, header |-> NoDest]

Requests == [from : Clients, dest : Dests]
Answers == [to : Clients, asked : Dests, header : Dests \cup {NoDest}]

TypeOK ==
    /\ program \in {"server", "tunnel"}
    /\ client \in [Slots -> Requests \cup {NoClient}]
    /\ remote \in [Slots -> BOOLEAN]
    /\ link \in [Slots -> BOOLEAN]
    /\ timer \in [Slots -> BOOLEAN]
    /\ header \in Dests \cup {NoDest}
    /\ remote_count \in -(MaxDrift + Cardinality(Slots)) .. Cardinality(Slots)
    /\ latest \in Slots \cup {NoSlot}
    /\ answer \in Answers \cup {NoAnswer}
    /\ fault \in BOOLEAN
    /\ up \in BOOLEAN

Init ==
    /\ program \in {"server", "tunnel"}
    /\ client = [d \in Slots |-> NoClient]
    /\ remote = [d \in Slots |-> FALSE]
    /\ link = [d \in Slots |-> FALSE]
    /\ timer = [d \in Slots |-> FALSE]
    /\ header = NoDest
    /\ remote_count = 0
    /\ latest = NoSlot
    /\ answer = NoAnswer
    /\ fault = FALSE
    /\ up = TRUE

-----------------------------------------------------------------------------
\* Defect: the count is not given back.
udpConnectionFreeKeepsCount(d) ==
    /\ remote_count' = remote_count
    /\ client' = [client EXCEPT ![d] = NoClient]
    /\ remote' = [remote EXCEPT ![d] = FALSE]
    /\ link' = [link EXCEPT ![d] = FALSE]
    /\ timer' = [timer EXCEPT ![d] = FALSE]

\* Defect: the remote is not freed with its client.
udpConnectionFreeLeaksRemote(d) ==
    /\ remote_count' = IF link[d] THEN remote_count - 1 ELSE remote_count
    /\ client' = [client EXCEPT ![d] = NoClient]
    /\ remote' = remote
    /\ link' = [link EXCEPT ![d] = FALSE]
    /\ timer' = timer

\* Free a request's client and, if its pointer is set, its remote.
udpConnectionFree(d) ==
    /\ remote_count' = IF link[d] THEN remote_count - 1 ELSE remote_count
    /\ client' = [client EXCEPT ![d] = NoClient]
    /\ remote' = IF link[d] THEN [remote EXCEPT ![d] = FALSE] ELSE remote
    /\ link' = [link EXCEPT ![d] = FALSE]
    /\ timer' = IF link[d] THEN [timer EXCEPT ![d] = FALSE] ELSE timer

\* Defect: the remote is created without the configured timeout.
udpRemoteNewNoTimer(d) ==
    /\ remote' = [remote EXCEPT ![d] = TRUE]
    /\ link' = [link EXCEPT ![d] = TRUE]
    /\ timer' = timer
    /\ remote_count' = remote_count + 1

\* udpRemoteNew, when the destination has been resolved.
udpRemoteNew(d) ==
    /\ remote' = [remote EXCEPT ![d] = TRUE]
    /\ link' = [link EXCEPT ![d] = TRUE]
    /\ timer' = [timer EXCEPT ![d] = TimeoutOn]
    /\ remote_count' = remote_count + 1

\* Defect: the address is kept only the first time.
ServerReadOnce(x) ==
    header' = IF program = "server" /\ header = NoDest THEN x ELSE header

\* udpShadowsocksConnRead of the server's connection keeps the address of
\* the datagram for the caller; xs-tunnel's connection is raw and has none.
ServerRead(x) == header' = IF program = "server" THEN x ELSE header

-----------------------------------------------------------------------------
(* udpServerOnRead.  A datagram that cannot be read, decrypted or parsed   *)
(* changes nothing: the client made for it is freed again.                 *)

\* The destinations a datagram can have.
Named == IF program = "tunnel" THEN {TunnelDest} ELSE Dests

\* The datagram is forwarded: the remote waits for an answer.
Forward(d) ==
    /\ up
    /\ client[d] = NoClient
    /\ \E r \in Requests :
        /\ r.dest \in Named
        /\ client' = [client EXCEPT ![d] = r]
        /\ ServerRead(r.dest)
    /\ udpRemoteNew(d)
    /\ latest' = d
    /\ UNCHANGED <<answer, fault, up, program>>

\* No socket for the remote, or the write fails and its FIRE_CLOSE frees the
\* request: what was created is gone when the handler returns.
ForwardFails ==
    /\ up
    /\ \E x \in Named : ServerRead(x)
    /\ latest' = NoSlot
    /\ UNCHANGED <<client, remote, link, timer, remote_count, answer, fault, up, program>>

\* The destination cannot be resolved.  udpRemoteNew frees the remote after
\* it has set client->remote and before it counts it; udpConnectionFree then
\* takes the pointer at its word.  What a second free does is open.
ResolveFails ==
    /\ up
    /\ remote_count > -MaxDrift
    /\ \E x \in Named : ServerRead(x)
    /\ latest' = NoSlot
    /\ remote_count' = remote_count - 1
    /\ fault' = TRUE
    /\ up' \in BOOLEAN
    /\ UNCHANGED <<client, remote, link, timer, answer, program>>

-----------------------------------------------------------------------------
(* udpRemoteOnRead and the timer. *)

\* What goes back: to the address the request came from, with the address
\* the server connection holds at that moment in front.  Who sent it is not
\* looked at (the read has no sa): the first datagram that reaches the
\* remote's socket is taken for the answer of the destination asked.
AnswerOf(d) ==
    [to |-> client[d].from, asked |-> client[d].dest, header |-> header]

\* The answer is written to the client and the request is freed.
Answer(d) ==
    /\ up
    /\ remote[d]
    /\ answer' = AnswerOf(d)
    /\ udpConnectionFree(d)
    /\ UNCHANGED <<header, latest, fault, up, program>>

\* The read fails (its FIRE_CLOSE frees the request), or the write to the
\* client does, which has no handler of its own.
AnswerLost(d) ==
    /\ up
    /\ remote[d]
    /\ udpConnectionFree(d)
    /\ UNCHANGED <<header, latest, answer, fault, up, program>>

Timeout(d) ==
    /\ up
    /\ remote[d]
    /\ timer[d]
    /\ udpConnectionFree(d)
    /\ UNCHANGED <<header, latest, answer, fault, up, program>>

Next ==
    \/ \E d \in Slots : Forward(d) \/ Answer(d) \/ AnswerLost(d) \/ Timeout(d)
    \/ ForwardFails
    \/ ResolveFails

Spec == Init /\ [][Next]_vars

\* No read restarts the timer of a remote that has not been answered.
FairSpec == Spec /\ \A d \in Slots : WF_vars(Timeout(d))
-----------------------------------------------------------------------------
(* Properties. *)

Waiting == {d \in Slots : remote[d]}

\* "UDP remote current count" (module_udp.c): remote_count is the number of
\* remotes that exist.
RemoteCountExact == remote_count = Cardinality(Waiting)

\* Until a destination fails to resolve, the count is exact.
CountExactUntilFault == ~fault => RemoteCountExact

\* A remote exists exactly while a client in progress points to it, and its
\* timer only with it: freeing one side never strands the other.
RequestSound ==
    \A d \in Slots :
        /\ remote[d] <=> link[d]
        /\ remote[d] <=> client[d] # NoClient
        /\ timer[d] <=> (remote[d] /\ TimeoutOn)

\* A request is answered or given up: none waits for ever.
RequestEnds ==
    \A d \in Slots : remote[d] ~> (~remote[d] \/ ~up)

\* The answer to the datagram read last carries the address its request named
\* (not that of the sender, which nobody looks at).  It is all that can be
\* promised: an older request that is answered now gets the newer one's
\* address, because the connection keeps a single one.
LatestAnswerLabelled ==
    [][program = "server" /\ latest \in Slots /\ remote[latest] /\ ~remote'[latest] =>
        answer' = answer \/ answer'.header = answer'.asked]_vars
=============================================================================
