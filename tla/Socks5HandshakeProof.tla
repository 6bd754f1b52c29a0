------------------------ MODULE Socks5HandshakeProof ------------------------
(***************************************************************************)
(* Socks5Handshake proved for messages and data of any length and for any  *)
(* access control list.                                                    *)
(***************************************************************************)
EXTENDS Socks5Handshake, SequenceTheorems, TLAPS

\* How far an open connection has been read in each of its states, and what
\* the remote has been given; the client waits for its answers, so a read of
\* the greeting or the request cannot take more than that message.
Places ==
    /\ conn = "open" =>
        /\ state = "init" => got = 0 /\ sent <= GreetLen
        /\ state = "handshake" => got = GreetLen /\ sent <= HandLen
        /\ state = "stream" => got >= HandLen
        /\ state = "stream" /\ remote # "connected" => got = HandLen
        /\ state # "stream" => remote = "none"
    /\ out \in Seq(Nat)
    /\ remote # "connected" => out = <<>>
    /\ remote = "connected" => Len(out) = got - HandLen

\* The inductive invariant.
SocksInv ==
    TypeOK /\ Places /\ OutIsData /\ RefusedForSplit /\ ProxiedStaysProxied

LEMMA Sizes == GreetLen \in Nat /\ ReqLen \in Nat /\ MaxData \in Nat
                /\ HandLen \in Nat /\ Total \in Nat /\ HandLen = GreetLen + ReqLen
                /\ HandLen > GreetLen /\ GreetLen > 0 /\ Total >= HandLen
  BY HandshakeAssumption DEF HandLen, Total

LEMMA ConsecutiveBytes ==
    ASSUME NEW lo \in Nat, NEW n \in Nat
    PROVE  LET b == [i \in 1..n |-> lo + i]
           IN  b \in Seq(Nat) /\ Len(b) = n /\ \A i \in 1..n : b[i] = lo + i
  OBVIOUS

LEMMA SocksInit == Init => SocksInv
  BY Sizes DEF Init, SocksInv, TypeOK, Places, OutIsData, RefusedForSplit, ProxiedStaysProxied, Acls

\* Every step keeps the invariant.
LEMMA SocksNext == SocksInv /\ [Next]_vars => SocksInv'
  <1> SUFFICES ASSUME SocksInv, [Next]_vars PROVE SocksInv'
    OBVIOUS
  <1> USE Sizes DEF SocksInv
  <1>1. CASE ClientSend
    <2>1. MaySend \in 0..Total /\ (state = "init" => MaySend <= GreetLen)
            /\ (state = "handshake" => MaySend <= HandLen)
      BY DEF MaySend, TypeOK
    <2>2. PICK n \in sent + 1..MaySend : sent' = n
      BY <1>1 DEF ClientSend
    <2> QED BY <1>1, <2>1, <2>2 DEF ClientSend, TypeOK, Places, OutIsData, RefusedForSplit, ProxiedStaysProxied
  <1>2. CASE ReadGreeting
    BY <1>2 DEF ReadGreeting, Readable, GreetingWhole, TypeOK, Places, OutIsData, RefusedForSplit, ProxiedStaysProxied
  <1>3. CASE RefuseGreeting
    BY <1>3 DEF RefuseGreeting, Refuse, Readable, GreetingWhole, TypeOK, Places, OutIsData, RefusedForSplit, ProxiedStaysProxied
  <1>4. CASE ReadRequest
    BY <1>4 DEF ReadRequest, Readable, RequestWhole, TypeOK, Places, OutIsData, RefusedForSplit, ProxiedStaysProxied
  <1>5. CASE RefuseRequest
    BY <1>5 DEF RefuseRequest, Refuse, Readable, RequestWhole, TypeOK, Places, OutIsData, RefusedForSplit, ProxiedStaysProxied
  <1>6. CASE ReplyShort
    BY <1>6 DEF ReplyShort, Readable, TypeOK, Places, OutIsData, RefusedForSplit, ProxiedStaysProxied
  <1>7. CASE StartRemote
    <2>1. ProxiedStaysProxied'
      BY <1>7 DEF StartRemote, TypeOK, Acls, ProxiedStaysProxied, Bypass
    <2> QED BY <1>7, <2>1 DEF StartRemote, Readable, TypeOK, Places, OutIsData, RefusedForSplit
  <1>8. CASE RemoteFails
    BY <1>8 DEF RemoteFails, TypeOK, Places, OutIsData, RefusedForSplit, ProxiedStaysProxied
  <1>9. CASE tcpRemoteOnConnect
    BY <1>9 DEF tcpRemoteOnConnect, TypeOK, Places, OutIsData, RefusedForSplit, ProxiedStaysProxied
  <1>10. CASE PipeClient
    <2> DEFINE b == Bytes(got + 1, sent)
               n == sent - got
    <2>1. /\ out \in Seq(Nat) /\ got \in Nat /\ sent \in Nat /\ n \in Nat
          /\ Len(out) = got - HandLen /\ \A i \in 1..Len(out) : out[i] = HandLen + i
      BY <1>10 DEF PipeClient, TypeOK, Places, OutIsData
    <2>2. b = [i \in 1..n |-> got + i]
      BY <2>1 DEF Bytes
    <2>3. b \in Seq(Nat) /\ Len(b) = n /\ \A i \in 1..n : b[i] = got + i
      <3> HIDE DEF b, n
      <3> QED BY <2>1, <2>2, ConsecutiveBytes, Zenon
    <2>4. out' = out \o b
      BY <1>10 DEF PipeClient
    <2> HIDE DEF b
    <2>5. /\ out' \in Seq(Nat) /\ Len(out') = Len(out) + Len(b)
          /\ \A i \in 1..Len(out) + Len(b) :
                out'[i] = IF i <= Len(out) THEN out[i] ELSE b[i - Len(out)]
      BY <2>1, <2>3, <2>4, ConcatProperties, Zenon
    <2>6. Len(out) \in Nat /\ Len(out') = sent - HandLen
      BY <2>1, <2>3, <2>5
    <2>7. ASSUME NEW i \in 1..Len(out') PROVE out'[i] = HandLen + i
      <3>1. CASE i <= Len(out)
        BY <2>1, <2>5, <2>6, <3>1
      <3>2. CASE ~(i <= Len(out))
        <4>1. out'[i] = b[i - Len(out)] /\ i - Len(out) \in 1..n
          BY <2>1, <2>3, <2>5, <2>6, <3>2
        <4> QED BY <2>1, <2>3, <4>1
      <3> QED BY <3>1, <3>2
    <2>8. OutIsData'
      BY <2>7 DEF OutIsData
    <2> QED BY <1>10, <2>5, <2>6, <2>8 DEF PipeClient, Readable, TypeOK, Places, RefusedForSplit, ProxiedStaysProxied
  <1>11. CASE Leave
    BY <1>11 DEF Leave, TypeOK, Places, OutIsData, RefusedForSplit, ProxiedStaysProxied
  <1>12. CASE UNCHANGED vars
    BY <1>12 DEF vars, TypeOK, Places, OutIsData, RefusedForSplit, ProxiedStaysProxied
  <1> QED BY <1>1, <1>2, <1>3, <1>4, <1>5, <1>6, <1>7, <1>8, <1>9, <1>10, <1>11, <1>12
            DEF Next, Handshake, Relay

\* Each connection of a socks5 client is where its state says.
THEOREM SocksInvariant == Spec => []SocksInv
  BY SocksInit, SocksNext, PTL DEF Spec

\* The remote gets the client's data and nothing else, without a gap.
THEOREM DataIsExact == Spec => []OutIsData
  <1>1. SocksInv => OutIsData
    BY DEF SocksInv
  <1> QED BY <1>1, SocksInvariant, PTL

\* A supported client is refused only for a message that came in parts.
THEOREM RefusalsHaveCause == Spec => []RefusedForSplit
  <1>1. SocksInv => RefusedForSplit
    BY DEF SocksInv
  <1> QED BY <1>1, SocksInvariant, PTL

\* No access control list sends a destination past the proxy that a rule
\* sends through it.
THEOREM BypassNeedsARule == Spec => []ProxiedStaysProxied
  <1>1. SocksInv => ProxiedStaysProxied
    BY DEF SocksInv
  <1> QED BY <1>1, SocksInvariant, PTL
=============================================================================
