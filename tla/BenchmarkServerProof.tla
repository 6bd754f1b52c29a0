------------------------ MODULE BenchmarkServerProof ------------------------
(***************************************************************************)
(* The benchmark client and server proved for any number of clients and    *)
(* requests and for buffers of any size.                                   *)
(***************************************************************************)
EXTENDS BenchmarkServer, FiniteSetTheorems, TLAPS

-----------------------------------------------------------------------------
(* The inductive invariant. *)

BenchTypes ==
    /\ keepalive \in BOOLEAN
    /\ at \in [Slots -> Steps]
    /\ wbuf_len \in [Slots -> Nat]
    /\ rbuf_off \in [Slots -> Nat]
    /\ echo \in [Slots -> Nat]
    /\ requests_issued \in Nat
    /\ requests_finished \in Nat
    /\ liveclients \in Nat
    /\ faults \in Nat
    /\ run \in {"running", "done", "aborted", "exit"}

Live == {c \in Slots : at[c] # "none"}
UnderWay == {c \in Slots : Busy(c)}

\* While the program runs, a client that is connected has not got its whole
\* request back, and one that waits for an echo has written something.
MidRequest ==
    run = "running" =>
        \A c \in Slots :
            /\ at[c] \in {"writing", "reading"} => rbuf_off[c] < BufSize
            /\ at[c] = "reading" => wbuf_len[c] > 0

\* Every request that is finished or under way was issued, and only as many as
\* there are to do were issued to somebody who then wrote.
IssuedFirst ==
    /\ requests_finished + Cardinality(UnderWay) <= requests_issued
    /\ requests_finished + Cardinality(UnderWay) <= Requests

ClientInv == BenchTypes /\ LiveExact /\ MidRequest /\ IssuedFirst

EchoTypes ==
    /\ conn \in [Slots -> {"none", "backlog", "open", "closed"}]
    /\ up \in [Slots -> Nat]
    /\ held \in [Slots -> Nat]
    /\ waits \in [Slots -> {"read", "write"}]
    /\ down \in [Slots -> Nat]

\* The server reads only when it holds nothing, and a slot without a client has
\* no connection and nothing on the way.
EchoSlots ==
    \A c \in Slots :
        /\ waits[c] = "read" => held[c] = 0
        /\ at[c] = "none" =>
            conn[c] = "none" /\ echo[c] = 0 /\ up[c] = 0 /\ held[c] = 0 /\ down[c] = 0

BenchInv == ClientInv /\ EchoTypes /\ EchoSlots /\ EchoConserved

-----------------------------------------------------------------------------
(* Numbers of clients. *)

LEMMA MinOfTwo ==
    ASSUME NEW a \in Int, NEW b \in Int
    PROVE  Min({a, b}) \in Int /\ Min({a, b}) <= a /\ Min({a, b}) <= b
  <1>1. \E x \in {a, b} : \A y \in {a, b} : x <= y
    OBVIOUS
  <1> QED BY <1>1 DEF Min

LEMMA Smaller ==
    ASSUME NEW S, IsFiniteSet(S), NEW T \in SUBSET S
    PROVE  IsFiniteSet(T) /\ Cardinality(T) \in Nat /\ Cardinality(S) \in Nat
              /\ Cardinality(T) <= Cardinality(S)
  BY FS_Subset, FS_CardinalityType

LEMMA OneMore ==
    ASSUME NEW S, IsFiniteSet(S), NEW x, NEW T \in SUBSET (S \cup {x})
    PROVE  Cardinality(T) <= Cardinality(S) + 1
  <1>1. IsFiniteSet(S \cup {x}) /\ Cardinality(S \cup {x}) <= Cardinality(S) + 1
    <2>1. Cardinality(S) \in Nat
      BY FS_CardinalityType
    <2>2. /\ IsFiniteSet(S \cup {x})
          /\ Cardinality(S \cup {x}) = IF x \in S THEN Cardinality(S) ELSE Cardinality(S) + 1
      BY FS_AddElement, Zenon
    <2> QED BY <2>1, <2>2
  <1>2. Cardinality(T) <= Cardinality(S \cup {x})
    BY <1>1, Smaller
  <1>3. Cardinality(T) \in Nat /\ Cardinality(S) \in Nat /\ Cardinality(S \cup {x}) \in Nat
    BY <1>1, Smaller, FS_CardinalityType
  <1> QED BY <1>1, <1>2, <1>3

LEMMA OneLess ==
    ASSUME NEW S, IsFiniteSet(S), NEW x \in S, NEW T \in SUBSET (S \ {x})
    PROVE  Cardinality(T) <= Cardinality(S) - 1
  <1>1. IsFiniteSet(S \ {x}) /\ Cardinality(S \ {x}) = Cardinality(S) - 1
    BY FS_RemoveElement
  <1> QED BY <1>1, Smaller

\* The clients that are there and the requests that are under way can be counted.
LEMMA Countable ==
    /\ IsFiniteSet(Live) /\ Cardinality(Live) \in Nat
    /\ IsFiniteSet(UnderWay) /\ Cardinality(UnderWay) \in Nat
  <1>1. IsFiniteSet(Slots) /\ Live \in SUBSET Slots /\ UnderWay \in SUBSET Slots
    BY BenchAssumption DEF Live, UnderWay
  <1> QED BY <1>1, Smaller

LEMMA CountableNext ==
    /\ Cardinality(Live') \in Nat
    /\ IsFiniteSet(UnderWay') /\ Cardinality(UnderWay') \in Nat
  <1>1. IsFiniteSet(Slots) /\ Live' \in SUBSET Slots /\ UnderWay' \in SUBSET Slots
    BY BenchAssumption DEF Live, UnderWay
  <1> QED BY <1>1, Smaller

\* Steps that issue no request and bring nobody under way.
LEMMA IssuedStays ==
    ASSUME ClientInv, UnderWay' \subseteq UnderWay, requests_finished' = requests_finished,
           requests_issued' \in Nat, requests_issued' >= requests_issued
    PROVE  IssuedFirst'
  <1>1. Cardinality(UnderWay') <= Cardinality(UnderWay)
    BY Countable, Smaller
  <1>2. /\ Cardinality(UnderWay') \in Nat /\ Cardinality(UnderWay) \in Nat
        /\ requests_finished \in Nat /\ requests_issued \in Nat /\ Requests \in Nat
    BY Countable, CountableNext, BenchAssumption DEF ClientInv, BenchTypes
  <1>3. /\ requests_finished + Cardinality(UnderWay) <= requests_issued
        /\ requests_finished + Cardinality(UnderWay) <= Requests
    BY DEF ClientInv, IssuedFirst
  <1> QED BY <1>1, <1>2, <1>3 DEF IssuedFirst

-----------------------------------------------------------------------------
(* The steps of a client. *)

LEMMA ConnectKeeps ==
    ASSUME ClientInv, NEW c \in Slots, tcpClientOnConnect(c)
    PROVE  ClientInv'
  <1>1. /\ run = "running" /\ at[c] = "connecting"
        /\ at' = [at EXCEPT ![c] = "writing"]
        /\ wbuf_len' = [wbuf_len EXCEPT ![c] = 0]
        /\ rbuf_off' = [rbuf_off EXCEPT ![c] = 0]
        /\ UNCHANGED <<keepalive, echo, requests_issued, requests_finished, liveclients, faults, run>>
    BY DEF tcpClientOnConnect, tcpClientReset, counts
  <1>2. BenchTypes'
    BY <1>1 DEF ClientInv, BenchTypes, Steps
  <1>3. Live' = Live
    BY <1>1 DEF ClientInv, BenchTypes, Live
  <1>4. LiveExact'
    BY <1>1, <1>3 DEF ClientInv, LiveExact, Live
  <1>5. MidRequest'
    BY <1>1, BenchAssumption DEF ClientInv, BenchTypes, MidRequest
  <1>6. UnderWay' \subseteq UnderWay
    BY <1>1 DEF ClientInv, BenchTypes, UnderWay, Busy
  <1>7. IssuedFirst'
    BY <1>1, <1>6, IssuedStays DEF ClientInv, BenchTypes
  <1> QED BY <1>2, <1>4, <1>5, <1>7 DEF ClientInv

LEMMA WriteLastKeeps ==
    ASSUME ClientInv, NEW c \in Slots, WriteLast(c)
    PROVE  ClientInv'
  <1>1. /\ run = "running" /\ at[c] = "writing" /\ wbuf_len[c] = 0
        /\ at' = [at EXCEPT ![c] = "none"] /\ liveclients' = liveclients - 1
        /\ wbuf_len' = Cleared(wbuf_len, {c})
        /\ rbuf_off' = Cleared(rbuf_off, {c})
        /\ echo' = Cleared(echo, {c})
        /\ requests_issued' = requests_issued + 1
        /\ UNCHANGED <<keepalive, requests_finished, faults, run>>
    BY DEF WriteLast, tcpClientFree, Issue
  <1>2. c \in Live /\ Live' = Live \ {c}
    BY <1>1 DEF ClientInv, BenchTypes, Live
  <1>3. Cardinality(Live') = Cardinality(Live) - 1 /\ Cardinality(Live') \in Nat
    BY <1>2, Countable, CountableNext, FS_RemoveElement
  <1>4. LiveExact' /\ liveclients' \in Nat
    BY <1>1, <1>3, Countable DEF ClientInv, LiveExact, Live
  <1>5. BenchTypes'
    BY <1>1, <1>4 DEF ClientInv, BenchTypes, Steps, Cleared
  <1>6. MidRequest'
    BY <1>1, BenchAssumption DEF ClientInv, BenchTypes, MidRequest, Cleared
  <1>7. UnderWay' \subseteq UnderWay
    BY <1>1 DEF ClientInv, BenchTypes, UnderWay, Busy, Cleared
  <1>8. IssuedFirst'
    BY <1>1, <1>7, IssuedStays DEF ClientInv, BenchTypes
  <1> QED BY <1>4, <1>5, <1>6, <1>8 DEF ClientInv

LEMMA EchoedType ==
    ASSUME ClientInv, NEW c \in Slots, Piece(c) > 0, NEW n \in 1..Piece(c) + Overhead
    PROVE  n \in Nat /\ n > 0 /\ Echoed(c, n) \in Nat
  <1>1. IoBuf \in Int /\ BufSize - wbuf_len[c] \in Int /\ Overhead \in Nat
    BY BenchAssumption DEF ClientInv, BenchTypes
  <1>2. Piece(c) \in Int
    BY <1>1, MinOfTwo DEF Piece
  <1> QED BY <1>1, <1>2 DEF Echoed

\* A request begins only while there are some to be issued, and goes on only
\* under way.
LEMMA WriteSomeKeeps ==
    ASSUME ClientInv, NEW c \in Slots, WriteSome(c)
    PROVE  ClientInv'
  <1>1. PICK n \in 1..Piece(c) + Overhead :
            /\ wbuf_len' = [wbuf_len EXCEPT ![c] = @ + n]
            /\ echo' = [echo EXCEPT ![c] = @ + Echoed(c, n)]
    BY DEF WriteSome
  <1>2. /\ run = "running" /\ at[c] = "writing" /\ ~(wbuf_len[c] = 0 /\ Exhausted)
        /\ at' = [at EXCEPT ![c] = "reading"]
        /\ requests_issued' = IF wbuf_len[c] = 0 THEN requests_issued + 1 ELSE requests_issued
        /\ UNCHANGED <<keepalive, rbuf_off, requests_finished, liveclients, faults, run>>
    BY DEF WriteSome, Issue
  <1>3. n \in Nat /\ n > 0 /\ Echoed(c, n) \in Nat
    <2>1. Piece(c) > 0
      BY DEF WriteSome
    <2> QED BY <1>1, <2>1, EchoedType
  <1>4. wbuf_len[c] \in Nat /\ wbuf_len[c] + n \in Nat /\ wbuf_len[c] + n > 0
    BY <1>3 DEF ClientInv, BenchTypes
  <1>5. BenchTypes'
    <2>1. wbuf_len' \in [Slots -> Nat]
      BY <1>1, <1>4 DEF ClientInv, BenchTypes
    <2>2. echo' \in [Slots -> Nat]
      BY <1>1, <1>3 DEF ClientInv, BenchTypes
    <2>3. requests_issued' \in Nat
      BY <1>2 DEF ClientInv, BenchTypes
    <2> QED BY <1>2, <2>1, <2>2, <2>3 DEF ClientInv, BenchTypes, Steps
  <1>6. Live' = Live
    BY <1>2 DEF ClientInv, BenchTypes, Live
  <1>7. LiveExact'
    BY <1>2, <1>6 DEF ClientInv, LiveExact, Live
  <1>8. MidRequest'
    BY <1>1, <1>2, <1>4 DEF ClientInv, BenchTypes, MidRequest
  <1>9. CASE wbuf_len[c] = 0
    <2>1. UnderWay' \subseteq UnderWay \cup {c}
      BY <1>1, <1>2 DEF ClientInv, BenchTypes, UnderWay, Busy
    <2>2. Cardinality(UnderWay') <= Cardinality(UnderWay) + 1
      BY <2>1, Countable, OneMore
    <2>3. requests_issued' = requests_issued + 1 /\ ~(requests_issued >= Requests)
      BY <1>2, <1>9 DEF Exhausted
    <2>4. /\ Cardinality(UnderWay') \in Nat /\ Cardinality(UnderWay) \in Nat
          /\ requests_finished \in Nat /\ requests_issued \in Nat /\ Requests \in Nat
      BY Countable, CountableNext, BenchAssumption DEF ClientInv, BenchTypes
    <2>5. requests_finished + Cardinality(UnderWay) <= requests_issued
      BY DEF ClientInv, IssuedFirst
    <2>6. IssuedFirst'
      BY <1>2, <2>2, <2>3, <2>4, <2>5 DEF IssuedFirst
    <2> QED BY <1>5, <1>7, <1>8, <2>6 DEF ClientInv
  <1>10. CASE wbuf_len[c] # 0
    <2>1. UnderWay' \subseteq UnderWay
      BY <1>1, <1>2, <1>4, <1>10 DEF ClientInv, BenchTypes, MidRequest, UnderWay, Busy
    <2>2. IssuedFirst'
      BY <1>2, <1>10, <2>1, IssuedStays DEF ClientInv, BenchTypes
    <2> QED BY <1>5, <1>7, <1>8, <2>2 DEF ClientInv
  <1> QED BY <1>9, <1>10

LEMMA ReadSomeKeeps ==
    ASSUME ClientInv, NEW c \in Slots, ReadSome(c)
    PROVE  ClientInv'
  <1>1. PICK n \in 1..echo[c] :
            /\ rbuf_off[c] + n < BufSize
            /\ rbuf_off' = [rbuf_off EXCEPT ![c] = @ + n]
            /\ echo' = [echo EXCEPT ![c] = @ - n]
            /\ at' = [at EXCEPT ![c] = AfterEcho(c, rbuf_off[c] + n)]
    BY DEF ReadSome
  <1>2. /\ run = "running" /\ at[c] = "reading"
        /\ UNCHANGED <<keepalive, wbuf_len, requests_issued, requests_finished, liveclients, faults, run>>
    BY DEF ReadSome, counts
  <1>3. n \in Nat /\ n <= echo[c] /\ echo[c] \in Nat /\ rbuf_off[c] \in Nat
    BY <1>1 DEF ClientInv, BenchTypes
  <1>4. AfterEcho(c, rbuf_off[c] + n) \in {"writing", "reading"}
    BY DEF AfterEcho
  <1>5. BenchTypes'
    <2>1. rbuf_off' \in [Slots -> Nat] /\ echo' \in [Slots -> Nat]
      BY <1>1, <1>3 DEF ClientInv, BenchTypes
    <2>2. at' \in [Slots -> Steps]
      BY <1>1, <1>4 DEF ClientInv, BenchTypes, Steps
    <2> QED BY <1>2, <2>1, <2>2 DEF ClientInv, BenchTypes
  <1>6. Live' = Live
    BY <1>1, <1>2, <1>4 DEF ClientInv, BenchTypes, Live
  <1>7. LiveExact'
    BY <1>2, <1>6 DEF ClientInv, LiveExact, Live
  <1>8. MidRequest'
    BY <1>1, <1>2 DEF ClientInv, BenchTypes, MidRequest
  <1>9. UnderWay' \subseteq UnderWay
    BY <1>1, <1>2 DEF ClientInv, BenchTypes, MidRequest, UnderWay, Busy
  <1>10. IssuedFirst'
    BY <1>2, <1>9, IssuedStays DEF ClientInv, BenchTypes
  <1> QED BY <1>5, <1>7, <1>8, <1>10 DEF ClientInv

\* Replacing a client leaves no slot empty.
LEMMA ReplaceEffect ==
    ASSUME ClientInv, NEW c \in Slots, Replace(c)
    PROVE  /\ at' \in [Slots -> Steps] /\ at'[c] = "connecting"
           /\ \A d \in Slots : at'[d] = at[d] \/ at'[d] = "connecting"
           /\ wbuf_len' \in [Slots -> Nat] /\ rbuf_off' \in [Slots -> Nat]
           /\ echo' \in [Slots -> Nat] /\ liveclients' \in Nat
           /\ \A d \in Slots : d # c =>
                wbuf_len'[d] = wbuf_len[d] /\ rbuf_off'[d] = rbuf_off[d]
           /\ LiveExact'
  <1>1. /\ at' = [d \in Slots |-> IF d \in Missing(c) THEN "connecting" ELSE at[d]]
        /\ liveclients' = Cardinality(Slots)
        /\ wbuf_len' = Cleared(wbuf_len, {c})
        /\ rbuf_off' = Cleared(rbuf_off, {c})
        /\ echo' = Cleared(echo, {c})
    BY DEF Replace
  <1>2. at' \in [Slots -> Steps] /\ at'[c] = "connecting"
    BY <1>1 DEF ClientInv, BenchTypes, Missing, Steps
  <1>3. \A d \in Slots : at'[d] = at[d] \/ at'[d] = "connecting"
    BY <1>1
  <1>4. /\ wbuf_len' \in [Slots -> Nat] /\ rbuf_off' \in [Slots -> Nat]
        /\ echo' \in [Slots -> Nat]
        /\ \A d \in Slots : d # c => wbuf_len'[d] = wbuf_len[d] /\ rbuf_off'[d] = rbuf_off[d]
    BY <1>1 DEF ClientInv, BenchTypes, Cleared
  <1>5. {d \in Slots : at'[d] # "none"} = Slots
    BY <1>1 DEF Missing
  <1>6. LiveExact' /\ liveclients' \in Nat
    BY <1>1, <1>5, BenchAssumption, FS_CardinalityType DEF LiveExact
  <1> QED BY <1>2, <1>3, <1>4, <1>6

\* A connection that breaks, times out or was closed by the server.
LEMMA ReplaceKeeps ==
    ASSUME ClientInv, NEW c \in Slots, Replace(c), run = "running", faults' \in Nat,
           requests_issued' \in {requests_issued, requests_issued + 1},
           UNCHANGED <<keepalive, requests_finished, run>>
    PROVE  ClientInv'
  <1>1. requests_issued' \in Nat /\ requests_issued' >= requests_issued
    BY DEF ClientInv, BenchTypes
  <1>2. BenchTypes' /\ LiveExact'
    BY <1>1, ReplaceEffect DEF ClientInv, BenchTypes
  <1>3. MidRequest'
    BY <1>1, ReplaceEffect DEF ClientInv, MidRequest
  <1>4. UnderWay' \subseteq UnderWay
    BY ReplaceEffect DEF UnderWay, Busy
  <1>5. IssuedFirst'
    BY <1>1, <1>4, IssuedStays DEF ClientInv, BenchTypes
  <1> QED BY <1>2, <1>3, <1>5 DEF ClientInv

\* The last piece of an echo: the request is no longer under way when it is
\* counted.
LEMMA ReadLastKeeps ==
    ASSUME ClientInv, NEW c \in Slots, ReadLast(c)
    PROVE  ClientInv'
  <1>1. /\ run = "running" /\ at[c] = "reading" /\ rbuf_off[c] + echo[c] >= BufSize
        /\ requests_finished' = requests_finished + 1
        /\ UNCHANGED <<keepalive, requests_issued, faults>>
    BY DEF ReadLast
  <1>2. c \in UnderWay
    BY <1>1 DEF ClientInv, MidRequest, UnderWay, Busy
  <1>3. ASSUME UnderWay' \subseteq UnderWay \ {c} PROVE IssuedFirst'
    <2>1. Cardinality(UnderWay') <= Cardinality(UnderWay) - 1
      BY <1>2, <1>3, Countable, OneLess
    <2>2. /\ Cardinality(UnderWay') \in Nat /\ Cardinality(UnderWay) \in Nat
          /\ requests_finished \in Nat /\ requests_issued \in Nat /\ Requests \in Nat
      BY Countable, CountableNext, BenchAssumption DEF ClientInv, BenchTypes
    <2>3. /\ requests_finished + Cardinality(UnderWay) <= requests_issued
          /\ requests_finished + Cardinality(UnderWay) <= Requests
      BY DEF ClientInv, IssuedFirst
    <2> QED BY <1>1, <2>1, <2>2, <2>3 DEF IssuedFirst
  <1>4. requests_finished' \in Nat /\ requests_issued' \in Nat /\ keepalive' \in BOOLEAN
           /\ faults' \in Nat
    BY <1>1 DEF ClientInv, BenchTypes
  <1>5. CASE requests_finished' = Requests
    <2>1. /\ run' = "done" /\ rbuf_off' = [rbuf_off EXCEPT ![c] = @ + echo[c]]
          /\ echo' = [echo EXCEPT ![c] = 0] /\ UNCHANGED <<at, wbuf_len, liveclients>>
      BY <1>5 DEF ReadLast
    <2>2. BenchTypes'
      BY <1>4, <2>1 DEF ClientInv, BenchTypes
    <2>3. LiveExact'
      BY <2>1 DEF ClientInv, LiveExact
    <2>4. MidRequest'
      BY <2>1 DEF MidRequest
    <2>5. UnderWay' \subseteq UnderWay \ {c}
      BY <1>1, <2>1, BenchAssumption DEF ClientInv, BenchTypes, UnderWay, Busy
    <2> QED BY <1>3, <2>2, <2>3, <2>4, <2>5 DEF ClientInv
  <1>6. CASE requests_finished' # Requests /\ keepalive
    <2>1. /\ run' = run /\ at' = [at EXCEPT ![c] = "writing"]
          /\ wbuf_len' = [wbuf_len EXCEPT ![c] = 0]
          /\ rbuf_off' = [rbuf_off EXCEPT ![c] = 0]
          /\ echo' = [echo EXCEPT ![c] = 0] /\ liveclients' = liveclients
      BY <1>6 DEF ReadLast, tcpClientReset
    <2>2. BenchTypes'
      BY <1>4, <2>1 DEF ClientInv, BenchTypes, Steps
    <2>3. Live' = Live
      BY <1>1, <2>1 DEF ClientInv, BenchTypes, Live
    <2>4. LiveExact'
      BY <2>1, <2>3 DEF ClientInv, LiveExact, Live
    <2>5. MidRequest'
      BY <2>1, BenchAssumption DEF ClientInv, BenchTypes, MidRequest
    <2>6. UnderWay' \subseteq UnderWay \ {c}
      BY <2>1 DEF ClientInv, BenchTypes, UnderWay, Busy
    <2> QED BY <1>3, <2>2, <2>4, <2>5, <2>6 DEF ClientInv
  <1>7. CASE requests_finished' # Requests /\ ~keepalive
    <2>1. run' = run /\ Replace(c)
      BY <1>7 DEF ReadLast
    <2>2. BenchTypes' /\ LiveExact'
      BY <1>4, <2>1, ReplaceEffect DEF ClientInv, BenchTypes
    <2>3. MidRequest'
      BY <2>1, ReplaceEffect DEF ClientInv, MidRequest
    <2>4. UnderWay' \subseteq UnderWay \ {c}
      BY <2>1, ReplaceEffect DEF UnderWay, Busy
    <2> QED BY <1>3, <2>2, <2>3, <2>4 DEF ClientInv
  <1> QED BY <1>5, <1>6, <1>7

\* Steps that move no client.
LEMMA QuietKeeps ==
    ASSUME ClientInv, UNCHANGED <<keepalive, at, wbuf_len, rbuf_off, echo, requests_finished,
                                  liveclients>>,
           requests_issued' \in Nat, requests_issued' >= requests_issued, faults' \in Nat,
           run' = run \/ run' \in {"aborted", "exit"}
    PROVE  ClientInv'
  <1>1. BenchTypes' /\ LiveExact' /\ MidRequest'
    BY DEF ClientInv, BenchTypes, LiveExact, MidRequest
  <1>2. UnderWay' \subseteq UnderWay
    BY DEF UnderWay, Busy
  <1>3. IssuedFirst'
    BY <1>2, IssuedStays
  <1> QED BY <1>1, <1>3 DEF ClientInv

LEMMA InitClientInv ==
    ASSUME InitBoth
    PROVE  ClientInv
  <1>1. Init
    BY DEF InitBoth
  <1>2. Cardinality(Slots) \in Nat
    BY BenchAssumption, FS_CardinalityType
  <1>3. BenchTypes
    BY <1>1, <1>2 DEF Init, BenchTypes, Steps
  <1>4. {c \in Slots : at[c] # "none"} = Slots
    BY <1>1 DEF Init
  <1>5. LiveExact
    BY <1>1, <1>4 DEF Init, LiveExact
  <1>6. MidRequest
    BY <1>1 DEF Init, MidRequest
  <1>7. UnderWay = {}
    BY <1>1 DEF Init, UnderWay, Busy
  <1>8. Cardinality(UnderWay) = 0
    BY <1>7, FS_EmptySet
  <1>9. IssuedFirst
    BY <1>1, <1>8, BenchAssumption DEF Init, IssuedFirst
  <1> QED BY <1>3, <1>5, <1>6, <1>9 DEF ClientInv

LEMMA StepClientInv ==
    ASSUME ClientInv, [NextBoth]_allVars
    PROVE  ClientInv'
  <1>1. ASSUME NEW c \in Slots, ClientStep(c) PROVE ClientInv'
    <2>1. CASE ClientConnect(c)
      BY <2>1, ConnectKeeps DEF ClientConnect
    <2>2. CASE ClientWrite(c)
      BY <2>2, WriteSomeKeeps DEF ClientWrite
    <2>3. CASE ClientRead(c)
      BY <2>3, ReadSomeKeeps DEF ClientRead
    <2>4. CASE ClientReadLast(c)
      BY <2>4, ReadLastKeeps DEF ClientReadLast
    <2>5. CASE ClientLast(c)
      BY <2>5, WriteLastKeeps DEF ClientLast
    <2>6. CASE ClientTimeout(c) \/ ClientConnectTimeout(c) \/ ClientSeesClose(c)
      <3>1. /\ run = "running" /\ Replace(c)
            /\ UNCHANGED <<keepalive, requests_issued, requests_finished, run>>
        BY <2>6 DEF ClientTimeout, ClientConnectTimeout, ClientSeesClose, Timeout, ConnectTimeout,
                    counts
      <3>2. faults' \in Nat
        BY <2>6 DEF ClientTimeout, ClientConnectTimeout, ClientSeesClose, Timeout, ConnectTimeout,
                    ClientInv, BenchTypes
      <3> QED BY <3>1, <3>2, ReplaceKeeps
    <2> QED BY <1>1, <2>1, <2>2, <2>3, <2>4, <2>5, <2>6 DEF ClientStep
  <1>2. ASSUME NEW c \in Slots, ClientBreak(c) PROVE ClientInv'
    <2>1. /\ run = "running" /\ Replace(c) /\ UNCHANGED <<keepalive, requests_finished, run>>
          /\ requests_issued' \in {requests_issued, requests_issued + 1}
      BY <1>2 DEF ClientBreak, Break, Issue
    <2>2. faults' \in Nat
      BY <1>2 DEF ClientBreak, Break, ClientInv, BenchTypes
    <2> QED BY <2>1, <2>2, ReplaceKeeps
  <1>3. ASSUME NEW c \in Slots, ClientConnectFails(c) \/ ClientWriteNothing(c) PROVE ClientInv'
    <2>1. /\ UNCHANGED <<keepalive, at, wbuf_len, rbuf_off, echo, requests_finished, liveclients>>
          /\ faults' = faults + 1 /\ (run' = run \/ run' = "exit")
          /\ requests_issued' \in {requests_issued, requests_issued + 1}
      BY <1>3 DEF ClientConnectFails, ConnectFails, ClientWriteNothing, WriteNothing, Issue, counts
    <2>2. faults' \in Nat /\ requests_issued' \in Nat /\ requests_issued' >= requests_issued
      BY <2>1 DEF ClientInv, BenchTypes
    <2> QED BY <2>1, <2>2, QuietKeeps
  <1>4. ASSUME NEW c \in Slots, ServerStep(c) \/ CloseEarly(c) PROVE ClientInv'
    <2>1. /\ UNCHANGED <<keepalive, at, wbuf_len, rbuf_off, echo, requests_issued,
                         requests_finished, liveclients, run>>
          /\ faults' \in {faults, faults + 1}
      BY <1>4 DEF ServerStep, Accept, EchoRead, EchoWrite, EchoWriteDone, CloseEnded, CloseEarly,
                  vars, counts
    <2>2. faults' \in Nat /\ requests_issued' \in Nat /\ requests_issued' >= requests_issued
      BY <2>1 DEF ClientInv, BenchTypes
    <2> QED BY <2>1, <2>2, QuietKeeps
  <1>5. CASE AcceptGone \/ CloseGone \/ Report \/ UNCHANGED allVars
    <2>1. /\ UNCHANGED <<keepalive, at, wbuf_len, rbuf_off, echo, requests_issued,
                         requests_finished, liveclients, faults>>
          /\ run' = run \/ run' = "aborted"
      BY <1>5 DEF AcceptGone, CloseGone, Report, showThroughput, allVars, vars, counts
    <2>2. faults' \in Nat /\ requests_issued' \in Nat /\ requests_issued' >= requests_issued
      BY <2>1 DEF ClientInv, BenchTypes
    <2> QED BY <2>1, <2>2, QuietKeeps
  <1> QED BY <1>1, <1>2, <1>3, <1>4, <1>5 DEF NextBoth

-----------------------------------------------------------------------------
(* The echo. *)

EchoInv == EchoTypes /\ EchoSlots /\ EchoConserved

\* A client that hangs up takes what was on the way with it; the slots that get
\* a new client start empty.
LEMMA HangupKeeps ==
    ASSUME EchoInv, NEW c \in Slots, Hangup(c),
           at \in [Slots -> Steps], at' \in [Slots -> Steps],
           at'[c] \in {"connecting", "none"},
           \A d \in Slots \ {c} : at'[d] = at[d] \/ (at[d] = "none" /\ at'[d] = "connecting"),
           echo \in [Slots -> Nat], echo' = Cleared(echo, {c})
    PROVE  EchoInv'
  <1>1. /\ conn' = [d \in Slots |->
            IF at'[d] = "connecting" /\ (d = c \/ at[d] = "none") THEN "backlog"
            ELSE IF d = c THEN "none" ELSE conn[d]]
        /\ up' = Cleared(up, {c})
        /\ held' = Cleared(held, {c})
        /\ waits' = [waits EXCEPT ![c] = "read"]
        /\ down' = Cleared(down, {c})
    BY DEF Hangup
  <1>2. EchoTypes'
    BY <1>1 DEF EchoInv, EchoTypes, Cleared
  <1>3. /\ up'[c] = 0 /\ held'[c] = 0 /\ down'[c] = 0 /\ echo'[c] = 0
        /\ (at'[c] = "none" => conn'[c] = "none")
    BY <1>1 DEF Cleared
  <1>4. ASSUME NEW d \in Slots, d # c
        PROVE  /\ up'[d] = up[d] /\ held'[d] = held[d] /\ down'[d] = down[d]
               /\ echo'[d] = echo[d] /\ waits'[d] = waits[d]
               /\ at'[d] = at[d] => conn'[d] = conn[d] \/ at[d] = "none"
               /\ at'[d] = "none" => conn'[d] = conn[d]
               /\ at'[d] = "none" => at[d] = "none"
    BY <1>1, <1>4 DEF EchoInv, EchoTypes, Cleared
  <1>5. EchoSlots'
    <2> SUFFICES ASSUME NEW d \in Slots
                 PROVE  /\ waits'[d] = "read" => held'[d] = 0
                        /\ at'[d] = "none" =>
                             /\ conn'[d] = "none" /\ echo'[d] = 0
                             /\ up'[d] = 0 /\ held'[d] = 0 /\ down'[d] = 0
      BY DEF EchoSlots
    <2>1. CASE d = c
      BY <1>3, <2>1
    <2>2. CASE d # c
      <3>1. /\ waits[d] = "read" => held[d] = 0
            /\ at[d] = "none" =>
                 /\ conn[d] = "none" /\ echo[d] = 0
                 /\ up[d] = 0 /\ held[d] = 0 /\ down[d] = 0
        BY DEF EchoInv, EchoSlots
      <3>2. /\ up'[d] = up[d] /\ held'[d] = held[d] /\ down'[d] = down[d]
            /\ echo'[d] = echo[d] /\ waits'[d] = waits[d]
            /\ at'[d] = "none" => conn'[d] = conn[d] /\ at[d] = "none"
        BY <1>4, <2>2
      <3> QED BY <3>1, <3>2
    <2> QED BY <2>1, <2>2
  <1>6. EchoConserved'
    <2> SUFFICES ASSUME NEW d \in Slots, conn'[d] \in {"backlog", "open"}
                 PROVE  echo'[d] = up'[d] + held'[d] + down'[d]
      BY DEF EchoConserved
    <2>1. CASE d = c
      BY <1>3, <2>1
    <2>2. CASE d # c /\ at[d] = "none"
      <3>1. echo[d] = 0 /\ up[d] = 0 /\ held[d] = 0 /\ down[d] = 0
        BY <2>2 DEF EchoInv, EchoSlots
      <3>2. /\ up'[d] = up[d] /\ held'[d] = held[d] /\ down'[d] = down[d]
            /\ echo'[d] = echo[d]
        BY <1>4, <2>2
      <3> QED BY <3>1, <3>2
    <2>3. CASE d # c /\ at[d] # "none"
      <3>1. conn'[d] = conn[d]
        BY <1>4, <2>3
      <3> QED BY <1>4, <2>3, <3>1 DEF EchoInv, EchoConserved
    <2> QED BY <2>1, <2>2, <2>3
  <1> QED BY <1>2, <1>5, <1>6 DEF EchoInv

\* A client that is replaced hangs up.
LEMMA ReplaceHangsUp ==
    ASSUME ClientInv, EchoInv, NEW c \in Slots, Replace(c), Hangup(c)
    PROVE  EchoInv'
  <1>1. /\ at \in [Slots -> Steps] /\ at' \in [Slots -> Steps] /\ at'[c] = "connecting"
        /\ echo \in [Slots -> Nat] /\ echo' = Cleared(echo, {c})
    BY ReplaceEffect DEF Replace, ClientInv, BenchTypes
  <1>2. \A d \in Slots \ {c} : at'[d] = at[d] \/ (at[d] = "none" /\ at'[d] = "connecting")
    BY DEF Replace, Missing
  <1> QED BY <1>1, <1>2, HangupKeeps

\* Steps of a client that stays, and of none.
LEMMA ClientEchoKeeps ==
    ASSUME ClientInv, EchoInv, NEW c \in Slots,
           ClientConnect(c) \/ ClientConnectFails(c) \/ ClientWriteNothing(c)
    PROVE  EchoInv'
  <1>1. /\ UNCHANGED <<conn, up, held, waits, down, echo>>
        /\ at' = at \/ (at[c] # "none" /\ at' = [at EXCEPT ![c] = "writing"])
    BY DEF ClientConnect, ClientConnectFails, ClientWriteNothing, tcpClientOnConnect,
           tcpClientReset, ConnectFails, WriteNothing, serverVars, bytes
  <1>2. \A d \in Slots : at'[d] = "none" => at[d] = "none"
    BY <1>1 DEF ClientInv, BenchTypes
  <1> QED BY <1>1, <1>2 DEF EchoInv, EchoTypes, EchoSlots, EchoConserved

LEMMA ClientWriteKeeps ==
    ASSUME ClientInv, EchoInv, NEW c \in Slots, ClientWrite(c)
    PROVE  EchoInv'
  <1>0. Piece(c) > 0 /\ \E m \in 1..Piece(c) + Overhead : echo' = [echo EXCEPT ![c] = @ + Echoed(c, m)]
    BY DEF ClientWrite, WriteSome
  <1>1. PICK n \in Nat : echo' = [echo EXCEPT ![c] = @ + n]
    BY <1>0, EchoedType
  <1>2. /\ at[c] = "writing" /\ at' = [at EXCEPT ![c] = "reading"]
        /\ up' = [up EXCEPT ![c] = @ + (echo'[c] - echo[c])]
        /\ UNCHANGED <<conn, held, waits, down>>
    BY DEF ClientWrite, WriteSome
  <1>3. n \in Nat
    OBVIOUS
  <1>4. /\ at \in [Slots -> Steps] /\ echo \in [Slots -> Nat] /\ up \in [Slots -> Nat]
        /\ held \in [Slots -> Nat] /\ down \in [Slots -> Nat]
    BY DEF ClientInv, BenchTypes, EchoInv, EchoTypes
  <1>5. up' = [up EXCEPT ![c] = @ + n]
    <2>1. echo'[c] = echo[c] + n /\ echo[c] \in Nat
      BY <1>1, <1>4
    <2>2. echo'[c] - echo[c] = n
      BY <1>3, <2>1
    <2> QED BY <1>2, <2>2
  <1>6. EchoTypes'
    BY <1>2, <1>3, <1>5 DEF EchoInv, EchoTypes
  <1>7. EchoSlots'
    BY <1>1, <1>2, <1>4, <1>5 DEF EchoInv, EchoSlots
  <1>8. EchoConserved'
    BY <1>1, <1>2, <1>3, <1>4, <1>5 DEF EchoInv, EchoConserved
  <1> QED BY <1>6, <1>7, <1>8 DEF EchoInv

LEMMA ClientReadKeeps ==
    ASSUME ClientInv, EchoInv, NEW c \in Slots, ClientRead(c)
    PROVE  EchoInv'
  <1>1. PICK n \in 1..echo[c] :
            /\ echo' = [echo EXCEPT ![c] = @ - n]
            /\ at' = [at EXCEPT ![c] = AfterEcho(c, rbuf_off[c] + n)]
    BY DEF ClientRead, ReadSome
  <1>2. /\ at[c] = "reading" /\ echo[c] - echo'[c] <= down[c]
        /\ down' = [down EXCEPT ![c] = @ - (echo[c] - echo'[c])]
        /\ UNCHANGED <<conn, up, held, waits>>
    BY DEF ClientRead, ReadSome
  <1>3. /\ at \in [Slots -> Steps] /\ echo \in [Slots -> Nat] /\ up \in [Slots -> Nat]
        /\ held \in [Slots -> Nat] /\ down \in [Slots -> Nat]
    BY DEF ClientInv, BenchTypes, EchoInv, EchoTypes
  <1>4. n \in Nat /\ echo[c] - echo'[c] = n
    BY <1>1, <1>3
  <1>5. n <= down[c] /\ down' = [down EXCEPT ![c] = @ - n]
    BY <1>2, <1>3, <1>4
  <1>6. AfterEcho(c, rbuf_off[c] + n) # "none"
    BY DEF AfterEcho
  <1>7. EchoTypes'
    BY <1>2, <1>3, <1>4, <1>5 DEF EchoInv, EchoTypes
  <1>8. EchoSlots'
    BY <1>1, <1>2, <1>3, <1>5, <1>6 DEF EchoInv, EchoSlots
  <1>9. EchoConserved'
    BY <1>1, <1>2, <1>3, <1>4, <1>5 DEF EchoInv, EchoConserved
  <1> QED BY <1>7, <1>8, <1>9 DEF EchoInv

\* When the last bytes are read there is nothing of the request anywhere else.
LEMMA ClientReadLastKeeps ==
    ASSUME ClientInv, EchoInv, NEW c \in Slots, ClientReadLast(c)
    PROVE  EchoInv'
  <1>1. ReadLast(c) /\ at[c] = "reading" /\ down[c] = echo[c]
    BY DEF ClientReadLast, ReadLast
  <1>2. /\ at \in [Slots -> Steps] /\ echo \in [Slots -> Nat] /\ up \in [Slots -> Nat]
        /\ held \in [Slots -> Nat] /\ down \in [Slots -> Nat]
    BY DEF ClientInv, BenchTypes, EchoInv, EchoTypes
  <1>3. CASE Replace(c)
    <2>1. at'[c] = "connecting"
      BY <1>3, ReplaceEffect
    <2>2. Hangup(c)
      BY <2>1 DEF ClientReadLast
    <2> QED BY <1>3, <2>2, ReplaceHangsUp
  <1>4. CASE ~Replace(c)
    <2>1. /\ echo' = [echo EXCEPT ![c] = 0]
          /\ at' = at \/ at' = [at EXCEPT ![c] = "writing"]
      BY <1>1, <1>4 DEF ReadLast, tcpClientReset
    <2>2. at'[c] # "connecting" /\ \A d \in Slots : at'[d] = "none" => at[d] = "none"
      BY <1>1, <1>2, <2>1
    <2>3. down' = [down EXCEPT ![c] = 0] /\ UNCHANGED <<conn, up, held, waits>>
      BY <2>2 DEF ClientReadLast
    <2>4. EchoTypes'
      BY <1>2, <2>3 DEF EchoInv, EchoTypes
    <2>5. EchoSlots'
      BY <1>2, <2>1, <2>2, <2>3 DEF EchoInv, EchoSlots
    <2>6. conn[c] \in {"backlog", "open"} => up[c] = 0 /\ held[c] = 0
      BY <1>1, <1>2 DEF EchoInv, EchoConserved
    <2>7. EchoConserved'
      BY <1>2, <2>1, <2>3, <2>6 DEF EchoInv, EchoConserved
    <2> QED BY <2>4, <2>5, <2>7 DEF EchoInv
  <1> QED BY <1>3, <1>4

LEMMA ClientLastKeeps ==
    ASSUME ClientInv, EchoInv, NEW c \in Slots, ClientLast(c)
    PROVE  EchoInv'
  <1>1. /\ Hangup(c) /\ at' = [at EXCEPT ![c] = "none"] /\ echo' = Cleared(echo, {c})
        /\ at \in [Slots -> Steps] /\ echo \in [Slots -> Nat]
    BY DEF ClientLast, WriteLast, tcpClientFree, ClientInv, BenchTypes
  <1>2. /\ at' \in [Slots -> Steps] /\ at'[c] = "none"
        /\ \A d \in Slots \ {c} : at'[d] = at[d]
    BY <1>1 DEF Steps
  <1> QED BY <1>1, <1>2, HangupKeeps

\* The server's read: what it does not write at once it holds.
LEMMA EchoReadKeeps ==
    ASSUME ClientInv, EchoInv, NEW c \in Slots, EchoRead(c)
    PROVE  EchoInv'
  <1>0. PICK r \in 1..Min({up[c], IoBuf}) : \E n \in 0..r :
            /\ up' = [up EXCEPT ![c] = @ - r]
            /\ down' = [down EXCEPT ![c] = @ + n]
            /\ held' = [held EXCEPT ![c] = r - n]
            /\ waits' = [waits EXCEPT ![c] = EchoEvent(r - n)]
    BY DEF EchoRead
  <1>1. PICK n \in 0..r :
            /\ up' = [up EXCEPT ![c] = @ - r]
            /\ down' = [down EXCEPT ![c] = @ + n]
            /\ held' = [held EXCEPT ![c] = r - n]
            /\ waits' = [waits EXCEPT ![c] = EchoEvent(r - n)]
    BY <1>0
  <1>2. /\ conn[c] = "open" /\ waits[c] = "read"
        /\ UNCHANGED <<conn, at, echo>>
    BY DEF EchoRead, vars
  <1>3. /\ at \in [Slots -> Steps] /\ echo \in [Slots -> Nat] /\ up \in [Slots -> Nat]
        /\ held \in [Slots -> Nat] /\ down \in [Slots -> Nat]
        /\ waits \in [Slots -> {"read", "write"}]
    BY DEF ClientInv, BenchTypes, EchoInv, EchoTypes
  <1>4. r \in Nat /\ n \in Nat /\ r <= up[c] /\ n <= r
    <2>1. up[c] \in Int /\ IoBuf \in Int
      BY <1>3, BenchAssumption
    <2>2. Min({up[c], IoBuf}) \in Int /\ Min({up[c], IoBuf}) <= up[c]
      BY <2>1, MinOfTwo
    <2> QED BY <1>1, <1>3, <2>2
  <1>5. held[c] = 0 /\ at[c] # "none"
    BY <1>2 DEF EchoInv, EchoSlots
  <1>6. EchoEvent(r - n) \in {"read", "write"} /\ (EchoEvent(r - n) = "read" => r - n = 0)
    BY <1>4 DEF EchoEvent
  <1>7. EchoTypes'
    <2>1. up' \in [Slots -> Nat] /\ down' \in [Slots -> Nat] /\ held' \in [Slots -> Nat]
      BY <1>1, <1>3, <1>4
    <2>2. waits' \in [Slots -> {"read", "write"}]
      BY <1>1, <1>3, <1>6
    <2> QED BY <1>2, <2>1, <2>2 DEF EchoInv, EchoTypes
  <1>8. EchoSlots'
    BY <1>1, <1>2, <1>3, <1>5, <1>6 DEF EchoInv, EchoSlots
  <1>9. EchoConserved'
    <2> SUFFICES ASSUME NEW d \in Slots, conn'[d] \in {"backlog", "open"}
                 PROVE  echo'[d] = up'[d] + held'[d] + down'[d]
      BY DEF EchoConserved
    <2>1. echo[d] = up[d] + held[d] + down[d]
      BY <1>2 DEF EchoInv, EchoConserved
    <2>2. CASE d = c
      BY <1>1, <1>2, <1>3, <1>4, <1>5, <2>1, <2>2
    <2>3. CASE d # c
      BY <1>1, <1>2, <1>3, <2>1, <2>3
    <2> QED BY <2>2, <2>3
  <1> QED BY <1>7, <1>8, <1>9 DEF EchoInv

LEMMA EchoWriteKeeps ==
    ASSUME ClientInv, EchoInv, NEW c \in Slots, EchoWrite(c)
    PROVE  EchoInv'
  <1>1. PICK n \in 1..held[c] :
            /\ down' = [down EXCEPT ![c] = @ + n]
            /\ held' = [held EXCEPT ![c] = @ - n]
    BY DEF EchoWrite, RestAfter
  <1>2. /\ conn[c] = "open" /\ waits[c] = "write"
        /\ UNCHANGED <<conn, at, echo, up, waits>>
    BY DEF EchoWrite, vars
  <1>3. /\ at \in [Slots -> Steps] /\ echo \in [Slots -> Nat] /\ up \in [Slots -> Nat]
        /\ held \in [Slots -> Nat] /\ down \in [Slots -> Nat]
    BY DEF ClientInv, BenchTypes, EchoInv, EchoTypes
  <1>4. n \in Nat /\ n <= held[c] /\ at[c] # "none"
    BY <1>1, <1>2, <1>3 DEF EchoInv, EchoSlots
  <1>5. EchoTypes'
    BY <1>1, <1>2, <1>3, <1>4 DEF EchoInv, EchoTypes
  <1>6. EchoSlots'
    BY <1>1, <1>2, <1>3, <1>4 DEF EchoInv, EchoSlots
  <1>7. EchoConserved'
    BY <1>1, <1>2, <1>3, <1>4 DEF EchoInv, EchoConserved
  <1> QED BY <1>5, <1>6, <1>7 DEF EchoInv

\* Steps of the server that move no byte.
LEMMA ServerKeeps ==
    ASSUME ClientInv, EchoInv, NEW c \in Slots,
           Accept(c) \/ EchoWriteDone(c) \/ CloseEnded(c) \/ CloseEarly(c)
    PROVE  EchoInv'
  <1>1. /\ UNCHANGED <<at, echo, up, held, down>>
        /\ conn[c] \in {"backlog", "open"}
        /\ \/ conn' = conn /\ held[c] = 0 /\ waits' = [waits EXCEPT ![c] = "read"]
           \/ conn' = [conn EXCEPT ![c] = "open"] /\ waits' = waits
           \/ conn' = [conn EXCEPT ![c] = "closed"] /\ waits' = waits
    BY DEF Accept, EchoWriteDone, CloseEnded, CloseEarly, vars, bytes
  <1>2. EchoTypes'
    BY <1>1 DEF EchoInv, EchoTypes
  <1>3. EchoSlots'
    BY <1>1 DEF EchoInv, EchoTypes, EchoSlots
  <1>4. EchoConserved'
    BY <1>1 DEF EchoInv, EchoTypes, EchoConserved
  <1> QED BY <1>2, <1>3, <1>4 DEF EchoInv

LEMMA InitEchoInv ==
    ASSUME InitBoth
    PROVE  EchoInv
  BY DEF InitBoth, Init, InitServer, EchoInv, EchoTypes, EchoSlots, EchoConserved

LEMMA StepEchoInv ==
    ASSUME ClientInv, EchoInv, [NextBoth]_allVars
    PROVE  EchoInv'
  <1>1. ASSUME NEW c \in Slots, ClientStep(c) PROVE EchoInv'
    <2>1. CASE ClientConnect(c)
      BY <2>1, ClientEchoKeeps
    <2>2. CASE ClientWrite(c)
      BY <2>2, ClientWriteKeeps
    <2>3. CASE ClientRead(c)
      BY <2>3, ClientReadKeeps
    <2>4. CASE ClientReadLast(c)
      BY <2>4, ClientReadLastKeeps
    <2>5. CASE ClientLast(c)
      BY <2>5, ClientLastKeeps
    <2>6. CASE ClientTimeout(c) \/ ClientConnectTimeout(c) \/ ClientSeesClose(c)
      BY <2>6, ReplaceHangsUp DEF ClientTimeout, ClientConnectTimeout, ClientSeesClose, Timeout,
                                  ConnectTimeout
    <2> QED BY <1>1, <2>1, <2>2, <2>3, <2>4, <2>5, <2>6 DEF ClientStep
  <1>2. ASSUME NEW c \in Slots, ClientBreak(c) PROVE EchoInv'
    BY <1>2, ReplaceHangsUp DEF ClientBreak, Break
  <1>3. ASSUME NEW c \in Slots, ClientConnectFails(c) \/ ClientWriteNothing(c) PROVE EchoInv'
    BY <1>3, ClientEchoKeeps
  <1>4. ASSUME NEW c \in Slots, ServerStep(c) \/ CloseEarly(c) PROVE EchoInv'
    BY <1>4, ServerKeeps, EchoReadKeeps, EchoWriteKeeps DEF ServerStep
  <1>5. CASE AcceptGone \/ CloseGone \/ Report \/ UNCHANGED allVars
    <2>1. UNCHANGED <<conn, up, held, waits, down, at, echo>>
      BY <1>5 DEF AcceptGone, CloseGone, Report, showThroughput, allVars, vars, serverVars, bytes
    <2> QED BY <2>1 DEF EchoInv, EchoTypes, EchoSlots, EchoConserved
  <1> QED BY <1>1, <1>2, <1>3, <1>4, <1>5 DEF NextBoth

-----------------------------------------------------------------------------
(* The theorems. *)

\* The inductive invariant of the benchmark: the clients, their requests and
\* the bytes of their connections, for any number of clients.
THEOREM BenchInvariant == BothSpec => []BenchInv
  <1>1. InitBoth => ClientInv /\ EchoInv
    BY InitClientInv, InitEchoInv
  <1>2. (ClientInv /\ EchoInv) /\ [NextBoth]_allVars => (ClientInv /\ EchoInv)'
    BY StepClientInv, StepEchoInv
  <1>3. ClientInv /\ EchoInv => BenchInv
    BY DEF EchoInv, BenchInv
  <1> QED BY <1>1, <1>2, <1>3, PTL DEF BothSpec

\* duration_list is never overrun: finished requests and those under way are
\* never more than app->requests, however many clients race for the last one.
THEOREM DurationsAlwaysFit == BothSpec => []DurationsFit
  <1>1. BenchInv => DurationsFit
    BY DEF BenchInv, ClientInv, IssuedFirst, UnderWay, DurationsFit
  <1> QED BY <1>1, BenchInvariant, PTL

\* liveclients is the number of clients, through frees, replacements and the
\* clients that are not replaced any more.
THEOREM LiveIsExact == BothSpec => []LiveExact
  <1>1. BenchInv => LiveExact
    BY DEF BenchInv, ClientInv
  <1> QED BY <1>1, BenchInvariant, PTL

\* Between a client and the echo server no byte is lost or repeated.
THEOREM EchoIsConserved == BothSpec => []EchoConserved
  <1>1. BenchInv => EchoConserved
    BY DEF BenchInv
  <1> QED BY <1>1, BenchInvariant, PTL
=============================================================================
