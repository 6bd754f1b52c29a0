--------------------------- MODULE UdpRelayProof ----------------------------
(***************************************************************************)
(* UdpRelay proved for any finite set of requests in progress, any clients *)
(* and destinations, with or without a timeout.                            *)
(***************************************************************************)
EXTENDS UdpRelay, FiniteSetTheorems, TLAPS

-----------------------------------------------------------------------------
(* The inductive invariant. *)

Shape ==
    /\ client \in [Slots -> Requests \cup {NoClient}]
    /\ remote \in [Slots -> BOOLEAN]
    /\ link \in [Slots -> BOOLEAN]
    /\ timer \in [Slots -> BOOLEAN]
    /\ latest \in Slots \cup {NoSlot}

\* The server connection still holds the address of the datagram read last.
LatestHeld ==
    program = "server" /\ latest \in Slots /\ remote[latest] =>
        header = client[latest].dest

UdpInv == Shape /\ RequestSound /\ LatestHeld

LEMMA RealRequests == NoClient \notin Requests /\ NoSlot \notin Slots
  BY UdpAssumption DEF NoClient, Requests, NoSlot

LEMMA InitUdp == Init => UdpInv
  BY RealRequests DEF Init, UdpInv, Shape, RequestSound, LatestHeld

LEMMA UdpStep == UdpInv /\ [Next]_vars => UdpInv'
  <1> SUFFICES ASSUME UdpInv, [Next]_vars PROVE UdpInv'
    OBVIOUS
  <1> USE RealRequests DEF UdpInv, Shape, RequestSound, LatestHeld
  <1>1. CASE UNCHANGED vars
    BY <1>1 DEF vars
  <1>2. ASSUME NEW d \in Slots, Forward(d) PROVE UdpInv'
    <2>1. PICK r \in Requests : client' = [client EXCEPT ![d] = r] /\ ServerRead(r.dest)
      BY <1>2 DEF Forward
    <2>2. Shape' /\ RequestSound'
      BY <1>2, <2>1, UdpAssumption DEF Forward, udpRemoteNew
    <2>3. LatestHeld'
      BY <1>2, <2>1 DEF Forward, ServerRead
    <2> QED BY <2>2, <2>3
  <1>3. ASSUME NEW d \in Slots, udpConnectionFree(d), UNCHANGED <<header, latest, program>>
        PROVE  UdpInv'
    BY <1>3 DEF udpConnectionFree
  <1>4. ASSUME NEW d \in Slots, Answer(d) \/ AnswerLost(d) \/ Timeout(d) PROVE UdpInv'
    BY <1>3, <1>4 DEF Answer, AnswerLost, Timeout
  <1>5. CASE ForwardFails \/ ResolveFails
    BY <1>5 DEF ForwardFails, ResolveFails
  <1> QED BY <1>1, <1>2, <1>4, <1>5 DEF Next

LEMMA UdpInvariant == Spec => []UdpInv
  BY InitUdp, UdpStep, PTL DEF Spec

-----------------------------------------------------------------------------
(* Theorems. *)

\* RequestSound: whatever ends a request, its udpClient, its udpRemote and its
\* timer go together.
THEOREM RequestsAreSound == Spec => []RequestSound
  <1>1. UdpInv => RequestSound
    BY DEF UdpInv
  <1> QED BY UdpInvariant, <1>1, PTL

\* LatestAnswerLabelled: an answer to the datagram that udpServerOnRead read
\* last carries the address which that datagram named.
THEOREM LatestIsLabelled == Spec => LatestAnswerLabelled
  <1> DEFINE Labelled ==
        program = "server" /\ latest \in Slots /\ remote[latest] /\ ~remote'[latest] =>
            answer' = answer \/ answer'.header = answer'.asked
  <1>1. UdpInv /\ [Next]_vars => [Labelled]_vars
    <2> SUFFICES ASSUME UdpInv, Next PROVE Labelled
      OBVIOUS
    <2> USE DEF UdpInv, Shape
    <2>1. ASSUME NEW d \in Slots, Forward(d) PROVE Labelled
      BY <2>1 DEF Forward
    <2>2. ASSUME NEW d \in Slots, Answer(d) PROVE Labelled
      <3>1. CASE latest = d
        BY <2>2, <3>1 DEF Answer, AnswerOf, LatestHeld
      <3>2. CASE latest # d
        BY <2>2, <3>2 DEF Answer, udpConnectionFree
      <3> QED BY <3>1, <3>2
    <2>3. ASSUME NEW d \in Slots, AnswerLost(d) \/ Timeout(d) PROVE Labelled
      BY <2>3 DEF AnswerLost, Timeout
    <2>4. CASE ForwardFails \/ ResolveFails
      BY <2>4 DEF ForwardFails, ResolveFails
    <2> QED BY <2>1, <2>2, <2>3, <2>4 DEF Next
  <1> QED BY UdpInvariant, <1>1, PTL DEF Spec, LatestAnswerLabelled

\* CountExactUntilFault: remote_count is the number of remotes, until a
\* destination cannot be resolved.
THEOREM CountIsExact == Spec => []CountExactUntilFault
  <1> DEFINE Inv == UdpInv /\ CountExactUntilFault
  <1>1. Init => Inv
    <2> SUFFICES ASSUME Init PROVE CountExactUntilFault
      BY InitUdp
    <2>1. Waiting = {}
      BY DEF Init, Waiting
    <2> QED BY <2>1, FS_EmptySet DEF Init, CountExactUntilFault, RemoteCountExact
  <1>2. Inv /\ [Next]_vars => Inv'
    <2> SUFFICES ASSUME Inv, [Next]_vars PROVE CountExactUntilFault'
      BY UdpStep
    <2>1. IsFiniteSet(Waiting)
      BY UdpAssumption, FS_Subset DEF Waiting
    <2> USE DEF CountExactUntilFault, RemoteCountExact
    <2>2. CASE UNCHANGED vars
      BY <2>2 DEF vars, Waiting
    <2>3. ASSUME NEW d \in Slots, Forward(d) PROVE CountExactUntilFault'
      <3>1. Waiting' = Waiting \cup {d} /\ d \notin Waiting
        BY <2>3 DEF Forward, udpRemoteNew, Waiting, UdpInv, Shape, RequestSound
      <3>2. Cardinality(Waiting') = Cardinality(Waiting) + 1
        BY <2>1, <3>1, FS_AddElement
      <3> QED BY <2>3, <3>2 DEF Forward, udpRemoteNew
    <2>4. ASSUME NEW d \in Slots, Answer(d) \/ AnswerLost(d) \/ Timeout(d)
          PROVE  CountExactUntilFault'
      <3>1. udpConnectionFree(d) /\ link[d] /\ remote[d] /\ UNCHANGED fault
        BY <2>4 DEF Answer, AnswerLost, Timeout, UdpInv, RequestSound
      <3>2. Waiting' = Waiting \ {d} /\ d \in Waiting
        BY <3>1 DEF udpConnectionFree, Waiting, UdpInv, Shape
      <3>3. Cardinality(Waiting') = Cardinality(Waiting) - 1
        BY <2>1, <3>2, FS_RemoveElement
      <3> QED BY <3>1, <3>3 DEF udpConnectionFree
    <2>5. CASE ForwardFails \/ ResolveFails
      BY <2>5 DEF ForwardFails, ResolveFails, Waiting
    <2> QED BY <2>2, <2>3, <2>4, <2>5 DEF Next
  <1>3. Inv => CountExactUntilFault
    OBVIOUS
  <1> QED BY <1>1, <1>2, <1>3, PTL DEF Spec
=============================================================================
