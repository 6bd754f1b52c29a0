--------------------------- MODULE TcpRelayProof ---------------------------
(***************************************************************************)
(* Proofs about TcpRelay for any finite set of sessions and every program.   *)
(* RelayInv says in which of four phases a session is and what its two     *)
(* connections look like in each; the properties follow from it.           *)
(***************************************************************************)
EXTENDS TcpRelay, FiniteSetTheorems, TLAPS

\* One direction of an established relay: either the source reads into an
\* empty buffer, or the destination has bytes of it left to write.
Direction(src, dst) ==
    \/ src.re /\ src.rbuf = "empty" /\ dst.wbuf = "null" /\ ~dst.we
    \/ ~src.re /\ src.rbuf = "held" /\ dst.wbuf # "null" /\ dst.we /\ dst.pipe

BothWays(a, b) == Direction(a, b) /\ Direction(b, a)

\* A client that is read from, with its timer armed if there is one.
Fresh(c) ==
    /\ c.re /\ ~c.we /\ c.te = TimeoutOn /\ c.timed = TimeoutOn
    /\ c.rbuf = "empty" /\ c.wbuf = "null"

\* A client that waits, without any event, for its remote to be connected.
Resting(c) == ~c.re /\ ~c.we /\ ~c.te /\ ~c.timed /\ c.wbuf = "null"

Idle(s) ==
    /\ client[s] = "free" /\ remote[s] = "free" /\ ~link[s]
    /\ cconn[s] = NoConn /\ rconn[s] = NoConn

Greeting(s) ==
    /\ client[s] = "live" /\ remote[s] = "free" /\ ~link[s]
    /\ Fresh(cconn[s]) /\ rconn[s] = NoConn

Dialling(s) ==
    /\ client[s] = "live" /\ remote[s] = "connecting" /\ link[s]
    /\ Resting(cconn[s]) /\ rconn[s] = ConnectingConn

Relaying(s) ==
    /\ client[s] = "live" /\ remote[s] = "connected" /\ link[s]
    /\ ~cconn[s].te /\ ~cconn[s].timed
    /\ rconn[s].te = TimeoutOn /\ rconn[s].timed = TimeoutOn
    /\ BothWays(cconn[s], rconn[s])

Phase(s) == Idle(s) \/ Greeting(s) \/ Dialling(s) \/ Relaying(s)

RelayInv == Typed /\ \A s \in Sessions : Phase(s)

-----------------------------------------------------------------------------
(* The records tcp.c's steps make of a connection. *)

\* The connections that tcp.c creates and leaves behind are connections.
LEMMA NewConns ==
    /\ NoConn \in ConnRecords
    /\ AcceptedConn \in ConnRecords
    /\ ConnectingConn \in ConnRecords
  BY RelayAssumption DEF ConnRecords, NoConn, AcceptedConn, ConnectingConn

\* The operators on connections yield connections.
LEMMA ConnOps ==
    ASSUME NEW c \in ConnRecords
    PROVE  /\ PrepareConnect(c) \in ConnRecords
           /\ AfterRead(c) \in ConnRecords
           /\ SrcDone(c) \in ConnRecords /\ DstDone(c) \in ConnRecords
           /\ SrcHeld(c) \in ConnRecords /\ DstHeld(c) \in ConnRecords
           /\ DstIdle(c) \in ConnRecords /\ DstSent(c) \in ConnRecords
           /\ DstOver(c) \in ConnRecords
           /\ DstReleased(c) \in ConnRecords /\ SrcReleased(c) \in ConnRecords
  <1>1. PrepareConnect(c) \in ConnRecords
    BY DEF ConnRecords, PrepareConnect
  <1>2. ASSUME NEW d \in ConnRecords PROVE AfterRead(d) \in ConnRecords
    BY DEF ConnRecords, AfterRead
  <1>3. SrcDone(c) \in ConnRecords /\ SrcHeld(c) \in ConnRecords
    BY <1>2 DEF ConnRecords, SrcDone, SrcHeld
  <1>4. DstDone(c) \in ConnRecords /\ DstHeld(c) \in ConnRecords
    BY DEF ConnRecords, DstDone, DstHeld
  <1>5. DstIdle(c) \in ConnRecords /\ DstSent(c) \in ConnRecords /\ DstOver(c) \in ConnRecords
    BY DEF ConnRecords, DstIdle, DstSent, DstOver
  <1>6. DstReleased(c) \in ConnRecords /\ SrcReleased(c) \in ConnRecords
    BY DEF ConnRecords, DstReleased, SrcReleased
  <1> QED BY <1>1, <1>2, <1>3, <1>4, <1>5, <1>6

\* A connection just accepted is fresh.
LEMMA FreshConns == Fresh(AcceptedConn)
  BY DEF Fresh, AcceptedConn

\* tcpRead registers again the timer that it deleted.
LEMMA FreshRead ==
    ASSUME NEW c \in ConnRecords, Fresh(c)
    PROVE  Fresh(AfterRead(c))
  BY DEF ConnRecords, Fresh, AfterRead

\* Preparing the connect leaves the client without any event.
LEMMA FreshRests ==
    ASSUME NEW c \in ConnRecords, Fresh(c)
    PROVE  Resting(PrepareConnect(c))
  BY DEF ConnRecords, Fresh, Resting, PrepareConnect

-----------------------------------------------------------------------------
(* A step of one session leaves the others in their phase. *)

Same(t) ==
    /\ client'[t] = client[t] /\ remote'[t] = remote[t] /\ link'[t] = link[t]
    /\ cconn'[t] = cconn[t] /\ rconn'[t] = rconn[t]

\* A session that a step leaves alone stays in its phase.
LEMMA PhaseFrame ==
    ASSUME NEW t \in Sessions, Phase(t), Same(t)
    PROVE  Phase(t)'
  BY DEF Phase, Idle, Greeting, Dialling, Relaying, Same, Fresh, Resting, BothWays,
         Direction

\* Freeing a session, in whatever phase, makes it idle.
LEMMA FreeStep ==
    ASSUME RelayInv, NEW s \in Sessions, tcpConnectionFree(s),
           fault' \in SUBSET Faults, up' \in BOOLEAN
    PROVE  RelayInv'
  <1>1. Typed'
    BY NewConns DEF RelayInv, Typed, tcpConnectionFree, tcpClose
  <1>2. ASSUME NEW t \in Sessions PROVE Phase(t)'
    <2>1. CASE t = s
      <3>1. Phase(s)
        BY DEF RelayInv
      <3>2. Idle(s)'
        BY <3>1 DEF RelayInv, Typed, tcpConnectionFree, tcpClose, Phase, Idle,
           Greeting, Dialling, Relaying
      <3> QED BY <2>1, <3>2 DEF Phase
    <2>2. CASE t # s
      <3>1. Same(t)
        BY <2>2 DEF RelayInv, Typed, tcpConnectionFree, Same
      <3> QED BY <3>1, PhaseFrame DEF RelayInv
    <2> QED BY <2>1, <2>2
  <1> QED BY <1>1, <1>2 DEF RelayInv

\* A step of one session: its own phase and the types are all there is to show.
LEMMA OneSession ==
    ASSUME RelayInv, NEW s \in Sessions, Typed', Phase(s)',
           \A t \in Sessions : t # s => Same(t)
    PROVE  RelayInv'
  <1>1. ASSUME NEW t \in Sessions PROVE Phase(t)'
    <2>1. CASE t # s
      BY <2>1, PhaseFrame DEF RelayInv
    <2> QED BY <2>1
  <1> QED BY <1>1 DEF RelayInv

-----------------------------------------------------------------------------
(* One lemma per action that does not end a session. *)

\* An accepted client of xs-server or xs-local is greeting.
LEMMA AcceptStep ==
    ASSUME RelayInv, NEW s \in Sessions, Accept(s)
    PROVE  RelayInv'
  <1>1. Typed'
    BY NewConns DEF RelayInv, Typed, Accept
  <1>2. Greeting(s)'
    <2>1. cconn'[s] = AcceptedConn /\ client'[s] = "live"
      BY DEF RelayInv, Typed, Accept
    <2>2. rconn'[s] = NoConn /\ remote'[s] = "free" /\ ~link'[s]
      BY DEF RelayInv, Typed, Accept, Phase, Idle, Greeting, Dialling, Relaying
    <2> QED BY <2>1, <2>2, FreshConns DEF Greeting, Fresh
  <1>3. \A t \in Sessions : t # s => Same(t)
    BY DEF RelayInv, Typed, Accept, Same
  <1> QED BY <1>1, <1>2, <1>3, OneSession DEF Phase

\* An accepted client of xs-redir is dialling at once.
LEMMA AcceptRedirStep ==
    ASSUME RelayInv, NEW s \in Sessions, AcceptRedir(s)
    PROVE  RelayInv'
  <1>1. PrepareConnect(AcceptedConn) \in ConnRecords
    BY NewConns, ConnOps
  <1>2. Typed'
    BY <1>1, NewConns DEF RelayInv, Typed, AcceptRedir, tcpRemoteNew
  <1>3. Dialling(s)'
    <2>1. cconn'[s] = PrepareConnect(AcceptedConn) /\ rconn'[s] = ConnectingConn
          /\ client'[s] = "live" /\ remote'[s] = "connecting" /\ link'[s]
      BY DEF RelayInv, Typed, AcceptRedir, tcpRemoteNew
    <2>2. Resting(PrepareConnect(AcceptedConn))
      BY FreshConns, NewConns, FreshRests
    <2> QED BY <2>1, <2>2 DEF Dialling, Resting
  <1>4. \A t \in Sessions : t # s => Same(t)
    BY DEF RelayInv, Typed, AcceptRedir, tcpRemoteNew, Same
  <1> QED BY <1>2, <1>3, <1>4, OneSession DEF Phase

\* A session whose client is readable and has no remote is greeting.
LEMMA SetupPhase ==
    ASSUME RelayInv, NEW s \in Sessions, Setup(s)
    PROVE  Greeting(s)
  BY DEF RelayInv, Typed, Setup, ClientReadable, Phase, Idle, Greeting, Dialling, Relaying

\* The request of a server's client starts the dialling, or ends the session.
LEMMA ServerRequestStep ==
    ASSUME RelayInv, NEW s \in Sessions, ServerRequest(s)
    PROVE  RelayInv'
  <1>1. PICK left \in {"empty", "held"} :
            cconn' = [cconn EXCEPT
                        ![s] = [PrepareConnect(AfterRead(@)) EXCEPT !.rbuf = left]]
    BY DEF ServerRequest
  <1> DEFINE waiting == [PrepareConnect(AfterRead(cconn[s])) EXCEPT !.rbuf = left]
  <1>2. cconn[s] \in ConnRecords /\ Fresh(cconn[s]) /\ client[s] = "live"
    BY SetupPhase DEF RelayInv, Typed, ServerRequest, Greeting
  <1>3. waiting \in ConnRecords /\ Resting(waiting)
    <2>1. AfterRead(cconn[s]) \in ConnRecords /\ Fresh(AfterRead(cconn[s]))
      BY <1>2, ConnOps, FreshRead
    <2>2. PrepareConnect(AfterRead(cconn[s])) \in ConnRecords
          /\ Resting(PrepareConnect(AfterRead(cconn[s])))
      BY <2>1, ConnOps, FreshRests
    <2> QED BY <2>2 DEF ConnRecords, Resting
  <1>4. cconn' = [cconn EXCEPT ![s] = waiting]
    BY <1>1
  <1> HIDE DEF waiting
  <1>5. Typed'
    BY <1>3, <1>4, NewConns DEF RelayInv, Typed, ServerRequest, tcpRemoteNew
  <1>6. Dialling(s)'
    <2>1. cconn'[s] = waiting /\ rconn'[s] = ConnectingConn
          /\ client'[s] = "live" /\ remote'[s] = "connecting" /\ link'[s]
      BY <1>2, <1>4 DEF RelayInv, Typed, ServerRequest, tcpRemoteNew
    <2> QED BY <1>3, <2>1 DEF Dialling, Resting
  <1>7. \A t \in Sessions : t # s => Same(t)
    BY <1>4 DEF RelayInv, Typed, ServerRequest, tcpRemoteNew, Same
  <1> QED BY <1>5, <1>6, <1>7, OneSession DEF Phase

\* A message of the socks5 handshake leaves the client greeting.
LEMMA LocalHandshakeStep ==
    ASSUME RelayInv, NEW s \in Sessions, LocalHandshake(s)
    PROVE  RelayInv'
  <1>1. Greeting(s) /\ cconn[s] \in ConnRecords
    BY SetupPhase DEF RelayInv, Typed, LocalHandshake
  <1>2. AfterRead(cconn[s]) \in ConnRecords /\ Fresh(AfterRead(cconn[s]))
    BY <1>1, ConnOps, FreshRead DEF Greeting
  <1>3. Typed'
    BY <1>2 DEF RelayInv, Typed, LocalHandshake
  <1>4. Greeting(s)'
    <2>1. cconn'[s] = AfterRead(cconn[s])
      BY DEF RelayInv, Typed, LocalHandshake
    <2> QED BY <1>1, <1>2, <2>1 DEF Greeting, LocalHandshake, Fresh
  <1>5. \A t \in Sessions : t # s => Same(t)
    BY DEF RelayInv, Typed, LocalHandshake, Same
  <1> QED BY <1>3, <1>4, <1>5, OneSession DEF Phase

\* The steps that end the process where it is.
Aborts(s) == LocalReplyShort(s) \/ PipeAssert(s) \/ PipeWriteNegative(s)

\* A socks5 reply cut short, the assertion of the encryption and a negative
\* length end the process; no session moves.
LEMMA AbortStep ==
    ASSUME RelayInv, NEW s \in Sessions, Aborts(s)
    PROVE  RelayInv'
  <1>1. \A t \in Sessions : Same(t)
    BY DEF Aborts, LocalReplyShort, PipeAssert, PipeWriteNegative, Same
  <1>2. fault' \in SUBSET Faults /\ up' \in BOOLEAN
    BY DEF Aborts, LocalReplyShort, PipeAssert, PipeWriteNegative, RelayInv, Typed, Faults
  <1>3. Typed'
    BY <1>2 DEF Aborts, LocalReplyShort, PipeAssert, PipeWriteNegative, RelayInv, Typed
  <1> QED BY <1>1, <1>3, PhaseFrame DEF RelayInv

\* The first data of a local client starts the dialling, or ends the session.
LEMMA LocalRequestStep ==
    ASSUME RelayInv, NEW s \in Sessions, LocalRequest(s)
    PROVE  RelayInv'
  <1>1. cconn[s] \in ConnRecords /\ Fresh(cconn[s]) /\ client[s] = "live"
    BY SetupPhase DEF RelayInv, Typed, LocalRequest, Greeting
  <1>2. PrepareConnect(cconn[s]) \in ConnRecords /\ Resting(PrepareConnect(cconn[s]))
    BY <1>1, ConnOps, FreshRests
  <1>3. Typed'
    BY <1>2, NewConns DEF RelayInv, Typed, LocalRequest, tcpRemoteNew
  <1>4. Dialling(s)'
    <2>1. cconn'[s] = PrepareConnect(cconn[s]) /\ rconn'[s] = ConnectingConn
          /\ client'[s] = "live" /\ remote'[s] = "connecting" /\ link'[s]
      BY <1>1 DEF RelayInv, Typed, LocalRequest, tcpRemoteNew
    <2> QED BY <1>2, <2>1 DEF Dialling, Resting
  <1>5. \A t \in Sessions : t # s => Same(t)
    BY DEF RelayInv, Typed, LocalRequest, tcpRemoteNew, Same
  <1> QED BY <1>3, <1>4, <1>5, OneSession DEF Phase

-----------------------------------------------------------------------------
(* The two directions of a relay: a step of one does not disturb the other. *)

\* The timers of two connections are those of two others.
SameTimers(a, b, c, d) ==
    a.te = c.te /\ a.timed = c.timed /\ b.te = d.te /\ b.timed = d.timed

\* A write that took everything leaves the direction reading.
LEMMA PipeAll ==
    ASSUME NEW src \in ConnRecords, NEW dst \in ConnRecords,
           BothWays(src, dst), src.re, src.te = src.timed
    PROVE  /\ BothWays(SrcDone(src), DstDone(dst))
           /\ SameTimers(SrcDone(src), DstDone(dst), src, dst)
  BY DEF ConnRecords, BothWays, Direction, SrcDone, DstDone, AfterRead, SameTimers

\* A write that left some bytes: the source is held and the destination waits
\* to write.
LEMMA PipePart ==
    ASSUME NEW src \in ConnRecords, NEW dst \in ConnRecords,
           BothWays(src, dst), src.re, src.te = src.timed
    PROVE  /\ BothWays(SrcHeld(src), DstHeld(dst))
           /\ SameTimers(SrcHeld(src), DstHeld(dst), src, dst)
  BY DEF ConnRecords, BothWays, Direction, SrcHeld, DstHeld, AfterRead, SameTimers

\* An empty read changes nothing of a direction.
LEMMA PipeNone ==
    ASSUME NEW src \in ConnRecords, NEW dst \in ConnRecords,
           BothWays(src, dst), src.re, src.te = src.timed
    PROVE  /\ BothWays(AfterRead(src), DstIdle(dst))
           /\ SameTimers(AfterRead(src), DstIdle(dst), src, dst)
  BY DEF ConnRecords, BothWays, Direction, DstIdle, AfterRead, SameTimers

\* The last bytes go out; the direction still waits to write.
LEMMA WriteLast ==
    ASSUME NEW src \in ConnRecords, NEW dst \in ConnRecords,
           BothWays(src, dst), dst.we
    PROVE  /\ BothWays(src, DstSent(dst))
           /\ SameTimers(src, DstSent(dst), src, dst)
  BY DEF ConnRecords, BothWays, Direction, DstSent, SameTimers

\* More goes out than there was to write; the direction still waits to write.
LEMMA WriteTooMuch ==
    ASSUME NEW src \in ConnRecords, NEW dst \in ConnRecords,
           BothWays(src, dst), dst.we
    PROVE  /\ BothWays(src, DstOver(dst))
           /\ SameTimers(src, DstOver(dst), src, dst)
  BY DEF ConnRecords, BothWays, Direction, DstOver, SameTimers

\* The write event that finds nothing left lets the source read again.
LEMMA WriteOver ==
    ASSUME NEW src \in ConnRecords, NEW dst \in ConnRecords,
           BothWays(src, dst), dst.we
    PROVE  /\ BothWays(SrcReleased(src), DstReleased(dst))
           /\ SameTimers(SrcReleased(src), DstReleased(dst), src, dst)
  BY DEF ConnRecords, BothWays, Direction, SrcReleased, DstReleased, SameTimers

\* A relay that changes its two connections in such a way goes on relaying.
LEMMA PairStep ==
    ASSUME RelayInv, NEW s \in Sessions, Relaying(s),
           NEW c \in ConnRecords, NEW r \in ConnRecords,
           cconn' = [cconn EXCEPT ![s] = c], rconn' = [rconn EXCEPT ![s] = r],
           BothWays(c, r), SameTimers(c, r, cconn[s], rconn[s]),
           UNCHANGED <<client, remote, link, hs, client_count, remote_count, fault, up>>
    PROVE  RelayInv'
  <1>1. Typed'
    BY DEF RelayInv, Typed
  <1>2. cconn'[s] = c /\ rconn'[s] = r
    BY DEF RelayInv, Typed
  <1>3. Relaying(s)'
    BY <1>2 DEF Relaying, SameTimers, BothWays, Direction
  <1>4. \A t \in Sessions : t # s => Same(t)
    BY DEF RelayInv, Typed, Same
  <1> QED BY <1>1, <1>3, <1>4, OneSession DEF Phase

\* Only a relaying session pipes.
LEMMA PipePhase ==
    ASSUME RelayInv, NEW s \in Sessions,
           \/ ClientReadable(s) /\ link[s]
           \/ RemoteReadable(s) \/ RemoteWritable(s) \/ ClientWritable(s)
    PROVE  /\ Relaying(s) /\ cconn[s] \in ConnRecords /\ rconn[s] \in ConnRecords
           /\ cconn[s].te = cconn[s].timed /\ rconn[s].te = rconn[s].timed
  <1>1. cconn[s] \in ConnRecords /\ rconn[s] \in ConnRecords
    BY DEF RelayInv, Typed
  <1>2. Relaying(s)
    BY DEF RelayInv, Typed, ClientReadable, RemoteReadable, RemoteWritable, ClientWritable,
       Phase, Idle, Greeting, Dialling, Relaying, NoConn, Fresh, Resting
  <1>3. cconn[s].te = cconn[s].timed /\ rconn[s].te = rconn[s].timed
    BY <1>1, <1>2 DEF Relaying, ConnRecords
  <1> QED BY <1>1, <1>2, <1>3

\* tcpPipe from the client keeps the relay relaying.
LEMMA ClientPipeStep ==
    ASSUME RelayInv, NEW s \in Sessions, ClientPipe(s)
    PROVE  RelayInv'
  <1> DEFINE c == cconn[s]
             r == rconn[s]
  <1>1. Relaying(s) /\ c \in ConnRecords /\ r \in ConnRecords /\ c.te = c.timed
    BY PipePhase DEF ClientPipe
  <1>2. BothWays(c, r) /\ c.re
    BY <1>1 DEF Relaying, ClientPipe, ClientReadable
  <1>3. CASE /\ cconn' = [cconn EXCEPT ![s] = SrcDone(c)]
             /\ rconn' = [rconn EXCEPT ![s] = DstDone(r)]
    <2>1. /\ SrcDone(c) \in ConnRecords /\ DstDone(r) \in ConnRecords
          /\ BothWays(SrcDone(c), DstDone(r))
          /\ SameTimers(SrcDone(c), DstDone(r), c, r)
      BY <1>1, <1>2, ConnOps, PipeAll
    <2> QED BY <1>1, <1>3, <2>1, PairStep DEF ClientPipe
  <1>4. CASE /\ cconn' = [cconn EXCEPT ![s] = SrcHeld(c)]
             /\ rconn' = [rconn EXCEPT ![s] = DstHeld(r)]
    <2>1. /\ SrcHeld(c) \in ConnRecords /\ DstHeld(r) \in ConnRecords
          /\ BothWays(SrcHeld(c), DstHeld(r))
          /\ SameTimers(SrcHeld(c), DstHeld(r), c, r)
      BY <1>1, <1>2, ConnOps, PipePart
    <2> QED BY <1>1, <1>4, <2>1, PairStep DEF ClientPipe
  <1>5. CASE /\ cconn' = [cconn EXCEPT ![s] = AfterRead(c)]
             /\ rconn' = [rconn EXCEPT ![s] = DstIdle(r)]
    <2>1. /\ AfterRead(c) \in ConnRecords /\ DstIdle(r) \in ConnRecords
          /\ BothWays(AfterRead(c), DstIdle(r))
          /\ SameTimers(AfterRead(c), DstIdle(r), c, r)
      BY <1>1, <1>2, ConnOps, PipeNone
    <2> QED BY <1>1, <1>5, <2>1, PairStep DEF ClientPipe
  <1> QED BY <1>3, <1>4, <1>5 DEF ClientPipe

\* tcpPipe from the remote keeps the relay relaying.
LEMMA RemotePipeStep ==
    ASSUME RelayInv, NEW s \in Sessions, RemotePipe(s)
    PROVE  RelayInv'
  <1> DEFINE c == cconn[s]
             r == rconn[s]
  <1>1. Relaying(s) /\ c \in ConnRecords /\ r \in ConnRecords /\ r.te = r.timed
    BY PipePhase DEF RemotePipe
  <1>2. BothWays(r, c) /\ r.re
    BY <1>1 DEF Relaying, RemotePipe, RemoteReadable, BothWays
  <1>3. CASE /\ rconn' = [rconn EXCEPT ![s] = SrcDone(r)]
             /\ cconn' = [cconn EXCEPT ![s] = DstDone(c)]
    <2>1. /\ SrcDone(r) \in ConnRecords /\ DstDone(c) \in ConnRecords
          /\ BothWays(DstDone(c), SrcDone(r))
          /\ SameTimers(DstDone(c), SrcDone(r), c, r)
      BY <1>1, <1>2, ConnOps, PipeAll DEF BothWays, SameTimers
    <2> QED BY <1>1, <1>3, <2>1, PairStep DEF RemotePipe
  <1>4. CASE /\ rconn' = [rconn EXCEPT ![s] = SrcHeld(r)]
             /\ cconn' = [cconn EXCEPT ![s] = DstHeld(c)]
    <2>1. /\ SrcHeld(r) \in ConnRecords /\ DstHeld(c) \in ConnRecords
          /\ BothWays(DstHeld(c), SrcHeld(r))
          /\ SameTimers(DstHeld(c), SrcHeld(r), c, r)
      BY <1>1, <1>2, ConnOps, PipePart DEF BothWays, SameTimers
    <2> QED BY <1>1, <1>4, <2>1, PairStep DEF RemotePipe
  <1>5. CASE /\ rconn' = [rconn EXCEPT ![s] = AfterRead(r)]
             /\ cconn' = [cconn EXCEPT ![s] = DstIdle(c)]
    <2>1. /\ AfterRead(r) \in ConnRecords /\ DstIdle(c) \in ConnRecords
          /\ BothWays(DstIdle(c), AfterRead(r))
          /\ SameTimers(DstIdle(c), AfterRead(r), c, r)
      BY <1>1, <1>2, ConnOps, PipeNone DEF BothWays, SameTimers
    <2> QED BY <1>1, <1>5, <2>1, PairStep DEF RemotePipe
  <1> QED BY <1>3, <1>4, <1>5 DEF RemotePipe

\* tcpPipeWrite to the remote keeps the relay relaying.
LEMMA RemotePipeWriteStep ==
    ASSUME RelayInv, NEW s \in Sessions, RemotePipeWrite(s)
    PROVE  RelayInv'
  <1> DEFINE c == cconn[s]
             r == rconn[s]
  <1>1. Relaying(s) /\ c \in ConnRecords /\ r \in ConnRecords
    BY PipePhase DEF RemotePipeWrite
  <1>2. BothWays(c, r) /\ r.we
    BY <1>1 DEF Relaying, RemotePipeWrite, RemoteWritable
  <1>3. CASE rconn' = [rconn EXCEPT ![s] = DstSent(r)] /\ cconn' = cconn
    <2>1. /\ DstSent(r) \in ConnRecords /\ BothWays(c, DstSent(r))
          /\ SameTimers(c, DstSent(r), c, r)
      BY <1>1, <1>2, ConnOps, WriteLast
    <2>2. cconn' = [cconn EXCEPT ![s] = c]
      BY <1>3 DEF RelayInv, Typed
    <2> QED BY <1>1, <1>3, <2>1, <2>2, PairStep DEF RemotePipeWrite
  <1>4. CASE /\ rconn' = [rconn EXCEPT ![s] = DstReleased(r)]
             /\ cconn' = [cconn EXCEPT ![s] = SrcReleased(c)]
    <2>1. /\ DstReleased(r) \in ConnRecords /\ SrcReleased(c) \in ConnRecords
          /\ BothWays(SrcReleased(c), DstReleased(r))
          /\ SameTimers(SrcReleased(c), DstReleased(r), c, r)
      BY <1>1, <1>2, ConnOps, WriteOver
    <2> QED BY <1>1, <1>4, <2>1, PairStep DEF RemotePipeWrite
  <1>5. CASE rconn' = [rconn EXCEPT ![s] = DstOver(r)] /\ cconn' = cconn
    <2>1. /\ DstOver(r) \in ConnRecords /\ BothWays(c, DstOver(r))
          /\ SameTimers(c, DstOver(r), c, r)
      BY <1>1, <1>2, ConnOps, WriteTooMuch
    <2>2. cconn' = [cconn EXCEPT ![s] = c]
      BY <1>5 DEF RelayInv, Typed
    <2> QED BY <1>1, <1>5, <2>1, <2>2, PairStep DEF RemotePipeWrite
  <1> QED BY <1>3, <1>4, <1>5 DEF RemotePipeWrite

\* tcpPipeWrite to the client keeps the relay relaying.
LEMMA ClientPipeWriteStep ==
    ASSUME RelayInv, NEW s \in Sessions, ClientPipeWrite(s)
    PROVE  RelayInv'
  <1> DEFINE c == cconn[s]
             r == rconn[s]
  <1>1. Relaying(s) /\ c \in ConnRecords /\ r \in ConnRecords
    BY PipePhase DEF ClientPipeWrite
  <1>2. BothWays(r, c) /\ c.we
    BY <1>1 DEF Relaying, ClientPipeWrite, ClientWritable, BothWays
  <1>3. CASE cconn' = [cconn EXCEPT ![s] = DstSent(c)] /\ rconn' = rconn
    <2>1. /\ DstSent(c) \in ConnRecords /\ BothWays(DstSent(c), r)
          /\ SameTimers(DstSent(c), r, c, r)
      BY <1>1, <1>2, ConnOps, WriteLast DEF BothWays, SameTimers
    <2>2. rconn' = [rconn EXCEPT ![s] = r]
      BY <1>3 DEF RelayInv, Typed
    <2> QED BY <1>1, <1>3, <2>1, <2>2, PairStep DEF ClientPipeWrite
  <1>4. CASE /\ cconn' = [cconn EXCEPT ![s] = DstReleased(c)]
             /\ rconn' = [rconn EXCEPT ![s] = SrcReleased(r)]
    <2>1. /\ DstReleased(c) \in ConnRecords /\ SrcReleased(r) \in ConnRecords
          /\ BothWays(DstReleased(c), SrcReleased(r))
          /\ SameTimers(DstReleased(c), SrcReleased(r), c, r)
      BY <1>1, <1>2, ConnOps, WriteOver DEF BothWays, SameTimers
    <2> QED BY <1>1, <1>4, <2>1, PairStep DEF ClientPipeWrite
  <1>5. CASE cconn' = [cconn EXCEPT ![s] = DstOver(c)] /\ rconn' = rconn
    <2>1. /\ DstOver(c) \in ConnRecords /\ BothWays(DstOver(c), r)
          /\ SameTimers(DstOver(c), r, c, r)
      BY <1>1, <1>2, ConnOps, WriteTooMuch DEF BothWays, SameTimers
    <2>2. rconn' = [rconn EXCEPT ![s] = r]
      BY <1>5 DEF RelayInv, Typed
    <2> QED BY <1>1, <1>5, <2>1, <2>2, PairStep DEF ClientPipeWrite
  <1> QED BY <1>3, <1>4, <1>5 DEF ClientPipeWrite

\* Once connected, both sides are read and neither has anything to write.
LEMMA ConnectedStep ==
    ASSUME RelayInv, NEW s \in Sessions, Connected(s)
    PROVE  RelayInv'
  <1> DEFINE c == [cconn[s] EXCEPT !.rbuf = "empty", !.re = TRUE]
             r == [rconn[s] EXCEPT !.we = FALSE, !.re = TRUE]
  <1>1. Dialling(s) /\ cconn[s] \in ConnRecords /\ rconn[s] \in ConnRecords
    BY DEF RelayInv, Typed, Connected, Connecting, Phase, Idle, Greeting, Dialling, Relaying
  <1>2. c \in ConnRecords /\ r \in ConnRecords
    BY <1>1 DEF ConnRecords
  <1>3. ~c.te /\ ~c.timed /\ c.re /\ ~c.we /\ c.rbuf = "empty" /\ c.wbuf = "null"
    BY <1>1 DEF Dialling, Resting, ConnRecords
  <1>4. /\ r.te = TimeoutOn /\ r.timed = TimeoutOn
        /\ r.re /\ ~r.we /\ r.rbuf = "empty" /\ r.wbuf = "null"
    BY <1>1 DEF Dialling, ConnectingConn, ConnRecords
  <1>5. cconn' = [cconn EXCEPT ![s] = c] /\ rconn' = [rconn EXCEPT ![s] = r]
    BY DEF Connected, PreparePipe
  <1> HIDE DEF c, r
  <1>6. Typed'
    BY <1>2, <1>5 DEF RelayInv, Typed, Connected
  <1>7. Relaying(s)'
    <2>1. cconn'[s] = c /\ rconn'[s] = r /\ client'[s] = "live"
          /\ remote'[s] = "connected" /\ link'[s]
      BY <1>1, <1>5 DEF RelayInv, Typed, Connected, Dialling
    <2> QED BY <1>3, <1>4, <2>1 DEF Relaying, BothWays, Direction
  <1>8. \A t \in Sessions : t # s => Same(t)
    BY <1>5 DEF RelayInv, Typed, Connected, Same
  <1> QED BY <1>6, <1>7, <1>8, OneSession DEF Phase

-----------------------------------------------------------------------------
(* The invariant. *)

\* The steps that free a session.
LEMMA EndStep ==
    ASSUME RelayInv, NEW s \in Sessions, End(s) \/ LeftoverFails(s)
    PROVE  RelayInv'
  <1>1. CASE End(s)
    BY <1>1, FreeStep DEF End, RelayInv, Typed
  <1>2. CASE LeftoverFails(s)
    <2>1. fault' \in SUBSET Faults /\ up' \in BOOLEAN
      BY <1>2 DEF LeftoverFails, RelayInv, Typed, Faults
    <2> QED BY <1>2, <2>1, FreeStep DEF LeftoverFails
  <1> QED BY <1>1, <1>2

\* Every callback of every session preserves the phases of all sessions.
LEMMA RelayInvNext ==
    ASSUME RelayInv, [Next]_vars
    PROVE  RelayInv'
  <1>1. CASE UNCHANGED vars
    <2>1. Typed'
      BY <1>1 DEF RelayInv, Typed, vars
    <2>2. \A t \in Sessions : Same(t)
      BY <1>1 DEF vars, Same
    <2> QED BY <2>1, <2>2, PhaseFrame DEF RelayInv
  <1>2. CASE Next
    <2>1. PICK s \in Sessions : Step(s)
      BY <1>2 DEF Next
    <2>2. CASE \/ SetupFails(s) \/ ConnectFails(s) \/ LeftoverFails(s)
               \/ PipeFails(s) \/ PipeWriteFails(s) \/ Timeout(s)
      BY <2>2, EndStep DEF SetupFails, ConnectFails, PipeFails, PipeWriteFails, Timeout
    <2> QED BY <2>1, <2>2, AcceptStep, AcceptRedirStep, ServerRequestStep,
               LocalHandshakeStep, AbortStep, LocalRequestStep,
               ConnectedStep, ClientPipeStep, RemotePipeStep,
               RemotePipeWriteStep, ClientPipeWriteStep
            DEF Step, Aborts
  <1> QED BY <1>1, <1>2

\* In every reachable state each session is in one of the four phases.
THEOREM RelayInvariant == Spec => []RelayInv
  <1>1. Init => RelayInv
    <2> SUFFICES ASSUME Init PROVE RelayInv
      OBVIOUS
    <2>1. Typed
      BY NewConns DEF Init, Typed
    <2>2. \A s \in Sessions : Idle(s)
      BY DEF Init, Idle
    <2> QED BY <2>1, <2>2 DEF RelayInv, Phase
  <1>2. RelayInv /\ [Next]_vars => RelayInv'
    BY RelayInvNext
  <1> QED BY <1>1, <1>2, PTL DEF Spec

-----------------------------------------------------------------------------
(* What follows from the phases. *)

\* tcpConnectionFree and tcpRemoteNew never leak a remote or leave a dangling
\* pointer to one.
THEOREM LinksSound == Spec => []LinkSound
  <1>1. RelayInv => LinkSound
    BY DEF RelayInv, LinkSound, Typed, Phase, Idle, Greeting, Dialling, Relaying
  <1> QED BY <1>1, RelayInvariant, PTL

\* The loop never calls a handler for a connection that tcpClose has freed.
THEOREM NoEventAfterClose == Spec => []EventsOfLiveOnly
  <1>1. RelayInv => EventsOfLiveOnly
    BY DEF RelayInv, EventsOfLiveOnly, Phase, Idle, Greeting, Dialling, Relaying, NoConn
  <1> QED BY <1>1, RelayInvariant, PTL

\* tcpPipe never reads over bytes that the peer has not written.
THEOREM NoOverwrite == Spec => []ReadsIntoEmptyBuffer
  <1>1. ASSUME RelayInv, NEW s \in Sessions
        PROVE  /\ cconn[s].re => cconn[s].rbuf = "empty" /\ rconn[s].wbuf = "null"
               /\ rconn[s].re => rconn[s].rbuf = "empty" /\ cconn[s].wbuf = "null"
    <2>1. CASE Relaying(s)
      BY <2>1 DEF Relaying, BothWays, Direction
    <2>2. CASE Idle(s) \/ Greeting(s) \/ Dialling(s)
      BY <2>2 DEF Idle, Greeting, Dialling, Fresh, Resting, NoConn, ConnectingConn
    <2> QED BY <1>1, <2>1, <2>2 DEF RelayInv, Phase
  <1>2. RelayInv => ReadsIntoEmptyBuffer
    BY <1>1 DEF ReadsIntoEmptyBuffer
  <1> QED BY <1>2, RelayInvariant, PTL

\* Neither direction of an established relay waits for nothing.
THEOREM RelayMoves == Spec => []RelayNotStuck
  <1>1. ASSUME RelayInv, NEW s \in Sessions, remote[s] = "connected"
        PROVE  /\ cconn[s].re # (rconn[s].we /\ rconn[s].pipe)
               /\ rconn[s].re # (cconn[s].we /\ cconn[s].pipe)
    <2>1. BothWays(cconn[s], rconn[s])
      BY <1>1 DEF RelayInv, Phase, Idle, Greeting, Dialling, Relaying
    <2>2. cconn[s] \in ConnRecords /\ rconn[s] \in ConnRecords
      BY <1>1 DEF RelayInv, Typed
    <2> QED BY <2>1, <2>2 DEF BothWays, Direction, ConnRecords
  <1>2. RelayInv => RelayNotStuck
    BY <1>1 DEF RelayNotStuck
  <1> QED BY <1>2, RelayInvariant, PTL

\* Nothing is read while a remote is being connected.
THEOREM ConnectIsQuiet == Spec => []QuietWhileConnecting
  <1>1. RelayInv => QuietWhileConnecting
    BY DEF RelayInv, QuietWhileConnecting, Phase, Idle, Greeting, Dialling, Relaying,
       Resting, ConnectingConn
  <1> QED BY <1>1, RelayInvariant, PTL

\* With a timeout configured every session has exactly one armed timer.
THEOREM OneTimerArmed == Spec => []OneTimer
  <1>1. ASSUME RelayInv, TimeoutOn, NEW s \in Live
        PROVE  cconn[s].te # rconn[s].te
    <2>1. s \in Sessions /\ client[s] = "live"
      BY DEF Live
    <2>2. cconn[s].te \in BOOLEAN /\ rconn[s].te \in BOOLEAN
      BY <1>1, <2>1 DEF RelayInv, Typed, ConnRecords
    <2>3. CASE Greeting(s)
      BY <1>1, <2>2, <2>3 DEF Greeting, Fresh, NoConn
    <2>4. CASE Dialling(s)
      <3>1. ~cconn[s].te
        BY <2>4 DEF Dialling, Resting
      <3>2. rconn[s].te = TimeoutOn
        BY <2>4 DEF Dialling, ConnectingConn
      <3> QED BY <1>1, <2>2, <3>1, <3>2
    <2>5. CASE Relaying(s)
      BY <1>1, <2>2, <2>5 DEF Relaying
    <2> QED BY <1>1, <2>1, <2>3, <2>4, <2>5 DEF RelayInv, Phase, Idle
  <1>2. RelayInv => OneTimer
    BY <1>1 DEF OneTimer
  <1> QED BY <1>2, RelayInvariant, PTL

\* An established relay, with any number of others around it, never touches a
\* connection that it has freed.
THEOREM FreedInSetup == Spec => FreedUsedOnlyInSetup
  <1> DEFINE Blamed == \E s \in Sessions :
                          client[s] = "live" /\ remote[s] # "connected"
                          /\ (client'[s] = "free" \/ ~up')
         Freed(f) == f \cap {"null_remote", "freed_conn"}
  <1>1. ASSUME RelayInv, Next, Freed(fault') # Freed(fault) PROVE Blamed
    <2>1. PICK s \in Sessions : Step(s)
      BY <1>1 DEF Next
    <2>2. LocalReplyShort(s) \/ LeftoverFails(s)
      BY <1>1, <2>1 DEF Step, Accept, AcceptRedir, ServerRequest, LocalHandshake,
         LocalRequest, SetupFails, ConnectFails, Connected, ClientPipe, RemotePipe,
         PipeAssert, PipeFails, RemotePipeWrite, ClientPipeWrite, PipeWriteNegative,
         PipeWriteFails, Timeout, End
    <2>3. CASE LocalReplyShort(s)
      BY <1>1, <2>3, SetupPhase DEF LocalReplyShort, Greeting
    <2>4. CASE LeftoverFails(s)
      <3>1. client'[s] = "free" /\ remote[s] = "connecting"
        BY <1>1, <2>4 DEF LeftoverFails, Connecting, tcpConnectionFree, RelayInv, Typed
      <3>2. client[s] = "live"
        BY <1>1, <3>1 DEF RelayInv, Phase, Idle, Greeting, Dialling, Relaying
      <3> QED BY <3>1, <3>2
    <2> QED BY <2>2, <2>3, <2>4
  <1>2. RelayInv /\ [Next]_vars => [Freed(fault') # Freed(fault) => Blamed]_vars
    BY <1>1 DEF vars
  <1> QED BY <1>2, RelayInvariant, PTL DEF Spec, FreedUsedOnlyInSetup

-----------------------------------------------------------------------------
(* The counters. *)

\* The clients and the remotes are finitely many.
LEMMA Finite == IsFiniteSet(Live) /\ IsFiniteSet(Dialled)
  <1>1. Live \subseteq Sessions /\ Dialled \subseteq Sessions
    BY DEF Live, Dialled
  <1> QED BY <1>1, RelayAssumption, FS_Subset

\* An object more, or an object less, is counted once.
LEMMA CountOneMore ==
    ASSUME NEW S, IsFiniteSet(S), NEW x, x \notin S
    PROVE  Cardinality(S \cup {x}) = Cardinality(S) + 1
  BY FS_AddElement

\* The same for an object less.
LEMMA CountOneLess ==
    ASSUME NEW S, IsFiniteSet(S), NEW x \in S
    PROVE  Cardinality(S \ {x}) = Cardinality(S) - 1
  BY FS_RemoveElement

\* A new remote: tcpRemoteNew is reached only without one.
LEMMA DialCounts ==
    ASSUME RelayInv, CountsExact, NEW s \in Sessions, remote[s] = "free", tcpRemoteNew(s)
    PROVE  remote_count' = Cardinality(Dialled')
  <1>1. Dialled' = Dialled \cup {s} /\ s \notin Dialled
    BY DEF RelayInv, Typed, tcpRemoteNew, Dialled
  <1>2. remote_count' = remote_count + 1
    BY DEF tcpRemoteNew
  <1> QED BY <1>1, <1>2, Finite, CountOneMore DEF CountsExact

\* tcpConnectionFree gives back what was counted.
LEMMA FreeCounts ==
    ASSUME RelayInv, CountsExact, NEW s \in Sessions, client[s] = "live",
           tcpConnectionFree(s)
    PROVE  CountsExact'
  <1>1. Live' = Live \ {s} /\ s \in Live
    BY DEF RelayInv, Typed, tcpConnectionFree, Live
  <1>2. client_count' = Cardinality(Live')
    BY <1>1, Finite, CountOneLess DEF CountsExact, tcpConnectionFree
  <1>3. CASE link[s]
    <2>1. Dialled' = Dialled \ {s} /\ s \in Dialled
      BY <1>3 DEF RelayInv, Typed, tcpConnectionFree, Dialled, Phase, Idle, Greeting,
         Dialling, Relaying
    <2>2. remote_count' = remote_count - 1
      BY <1>3 DEF tcpConnectionFree
    <2> QED BY <1>2, <2>1, <2>2, Finite, CountOneLess DEF CountsExact
  <1>4. CASE ~link[s]
    <2>1. Dialled' = Dialled /\ remote_count' = remote_count
      BY <1>4 DEF tcpConnectionFree, Dialled
    <2> QED BY <1>2, <2>1 DEF CountsExact
  <1> QED BY <1>3, <1>4

\* Sessions that end are sessions with a client.
LEMMA EndPhase ==
    ASSUME RelayInv, NEW s \in Sessions,
           \/ SetupFails(s) \/ ConnectFails(s) \/ LeftoverFails(s)
           \/ PipeFails(s) \/ PipeWriteFails(s) \/ Timeout(s)
    PROVE  client[s] = "live" /\ tcpConnectionFree(s)
  <1>1. tcpConnectionFree(s)
    BY DEF SetupFails, ConnectFails, LeftoverFails, PipeFails, PipeWriteFails, Timeout, End
  <1>2. ~Idle(s)
    BY DEF SetupFails, ConnectFails, LeftoverFails, PipeFails, PipeWriteFails, Timeout,
       Setup, ClientReadable, Connecting, RemoteReadable, RemoteWritable, ClientWritable,
       Idle, NoConn
  <1> QED BY <1>1, <1>2 DEF RelayInv, Phase, Greeting, Dialling, Relaying

\* The counters of tcpServer say how many clients and remotes there are.
THEOREM CountsAreExact == Spec => []CountsExact
  <1>1. Init => CountsExact
    <2> SUFFICES ASSUME Init PROVE CountsExact
      OBVIOUS
    <2>1. Live = {} /\ Dialled = {}
      BY DEF Init, Live, Dialled
    <2> QED BY <2>1, FS_EmptySet DEF Init, CountsExact
  <1>2. ASSUME RelayInv, CountsExact, [Next]_vars PROVE CountsExact'
    <2>1. CASE UNCHANGED vars
      BY <1>2, <2>1 DEF vars, CountsExact, Live, Dialled
    <2>2. CASE Next
      <3>1. PICK s \in Sessions : Step(s)
        BY <2>2 DEF Next
      <3>2. CASE \/ SetupFails(s) \/ ConnectFails(s) \/ LeftoverFails(s)
                 \/ PipeFails(s) \/ PipeWriteFails(s) \/ Timeout(s)
        BY <1>2, <3>2, EndPhase, FreeCounts
      <3>3. CASE Accept(s) \/ AcceptRedir(s)
        <4>1. Live' = Live \cup {s} /\ s \notin Live /\ client_count' = client_count + 1
          BY <1>2, <3>3 DEF Accept, AcceptRedir, RelayInv, Typed, Live
        <4>2. client_count' = Cardinality(Live')
          BY <1>2, <4>1, Finite, CountOneMore DEF CountsExact
        <4>3. remote_count' = Cardinality(Dialled')
          <5>1. CASE Accept(s)
            BY <1>2, <5>1 DEF Accept, CountsExact, Dialled
          <5>2. CASE AcceptRedir(s)
            <6>1. remote[s] = "free"
              BY <1>2, <5>2 DEF AcceptRedir, RelayInv, Phase, Idle, Greeting, Dialling,
                 Relaying
            <6> QED BY <1>2, <5>2, <6>1, DialCounts DEF AcceptRedir
          <5> QED BY <3>3, <5>1, <5>2
        <4> QED BY <4>2, <4>3 DEF CountsExact
      <3>4. CASE ServerRequest(s) \/ LocalRequest(s)
        <4>1. remote[s] = "free" /\ tcpRemoteNew(s)
          BY <1>2, <3>4, SetupPhase DEF ServerRequest, LocalRequest, Greeting
        <4>2. remote_count' = Cardinality(Dialled')
          BY <1>2, <4>1, DialCounts
        <4>3. Live' = Live /\ client_count' = client_count
          BY <3>4 DEF ServerRequest, LocalRequest, Live
        <4> QED BY <1>2, <4>2, <4>3 DEF CountsExact
      <3>5. CASE Connected(s)
        <4>1. Live' = Live /\ Dialled' = Dialled
          BY <1>2, <3>5 DEF Connected, Connecting, RelayInv, Typed, Live, Dialled
        <4> QED BY <1>2, <3>5, <4>1 DEF Connected, CountsExact
      <3>6. CASE \/ LocalHandshake(s) \/ Aborts(s) \/ ClientPipe(s)
                 \/ RemotePipe(s) \/ RemotePipeWrite(s) \/ ClientPipeWrite(s)
        <4>1. UNCHANGED <<client, remote, client_count, remote_count>>
          BY <3>6 DEF LocalHandshake, Aborts, LocalReplyShort, PipeAssert,
             PipeWriteNegative, ClientPipe, RemotePipe, RemotePipeWrite, ClientPipeWrite
        <4> QED BY <1>2, <4>1 DEF CountsExact, Live, Dialled
      <3> QED BY <3>1, <3>2, <3>3, <3>4, <3>5, <3>6 DEF Step, Aborts
    <2> QED BY <1>2, <2>1, <2>2
  <1>3. RelayInv /\ CountsExact /\ [Next]_vars => CountsExact'
    BY <1>2
  <1> QED BY <1>1, <1>3, RelayInvariant, PTL DEF Spec

\* TypeOK holds of any number of sessions, in every program: no sequence of
\* callbacks counts an object out twice.
THEOREM TypeCorrect == Spec => []TypeOK
  <1> DEFINE ProgramOK == program \in Programs
  <1>1. Init => ProgramOK
    BY DEF Init
  <1>2. ProgramOK /\ [Next]_vars => ProgramOK'
    BY DEF Next, vars, Step, Accept, AcceptRedir, ServerRequest, LocalHandshake,
       LocalReplyShort, LocalRequest, SetupFails, ConnectFails, Connected, LeftoverFails,
       ClientPipe, RemotePipe, PipeAssert, PipeFails, RemotePipeWrite, ClientPipeWrite,
       PipeWriteNegative, PipeWriteFails, Timeout, End
  <1>3. RelayInv /\ CountsExact /\ ProgramOK => TypeOK
    BY Finite, FS_CardinalityType DEF RelayInv, CountsExact, TypeOK
  <1> QED BY <1>1, <1>2, <1>3, RelayInvariant, CountsAreExact, PTL DEF Spec

=============================================================================
