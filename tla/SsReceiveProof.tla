--------------------------- MODULE SsReceiveProof ---------------------------
(***************************************************************************)
(* Proofs about SsReceive for any addresses, any amount of data and any    *)
(* size of the chunks.  NothingLost says nothing of the time before the    *)
(* address was read; OpenInv adds where the bytes of an open session are   *)
(* then, and that the first plaintext that is read has the whole address   *)
(* in it.                                                                  *)
(***************************************************************************)
EXTENDS SsReceive, SequenceTheorems, TLAPS

\* The address is read completely or not at all: the first chunk, which has
\* it, is on its way, or has arrived together with later ones.
BeforeAddress ==
    /\ out = <<>> /\ rbuf = <<>>
    /\ \/ sent = 0 /\ whole = <<>> /\ part = <<>>
       \/ whole = <<>> /\ part = Bytes(1 - SentLen(addr), sent)
       \/ Len(whole) >= SentLen(addr) /\ whole \o part = Bytes(1 - SentLen(addr), sent)

\* Afterwards every data byte is in one of the four places, in their order.
BehindAddress == out \o rbuf \o whole \o part = Bytes(1, sent)

\* An open session.
OpenInv ==
    /\ addr \in Addresses
    /\ sent \in Nat
    /\ {whole, part, rbuf, out} \subseteq Seq(Int)
    /\ remote # "connecting" => rbuf = <<>>
    /\ state = "init" => BeforeAddress
    /\ state # "init" => BehindAddress

\* A sequence counts up from lo.
Counts(s, lo) == s \in Seq(Int) /\ \A i \in 1..Len(s) : s[i] = lo + i - 1

\* Also of a session that was closed the destination has the data's beginning.
ReceiveInv ==
    /\ Counts(out, 1)
    /\ conn = "open" => OpenInv

-----------------------------------------------------------------------------
(* Bytes. *)

\* Bytes(lo, hi) is a sequence of integers with the length its ends give.
LEMMA BytesSeq ==
    ASSUME NEW lo \in Int, NEW hi \in Int, lo <= hi + 1
    PROVE  /\ Bytes(lo, hi) \in Seq(Int)
           /\ Len(Bytes(lo, hi)) = hi - lo + 1
           /\ \A i \in 1..(hi - lo + 1) : Bytes(lo, hi)[i] = lo + i - 1
  <1>1. hi - lo + 1 \in Nat
    OBVIOUS
  <1>2. \A i \in 1..(hi - lo + 1) : lo + i - 1 \in Int
    OBVIOUS
  <1>3. Bytes(lo, hi) \in [1..(hi - lo + 1) -> Int]
    BY <1>2 DEF Bytes
  <1> QED BY <1>1, <1>3, LenProperties DEF Bytes

\* A sequence is known by its length and its elements.
LEMMA IsBytes ==
    ASSUME NEW s \in Seq(Int), NEW lo \in Int, NEW hi \in Int,
           Len(s) = hi - lo + 1, \A i \in 1..Len(s) : s[i] = lo + i - 1
    PROVE  s = Bytes(lo, hi)
  <1>1. Len(s) \in Nat /\ lo <= hi + 1
    BY LenProperties
  <1>2. /\ Bytes(lo, hi) \in Seq(Int)
        /\ Len(Bytes(lo, hi)) = Len(s)
        /\ \A i \in 1..Len(s) : Bytes(lo, hi)[i] = s[i]
    BY <1>1, BytesSeq
  <1> QED BY <1>2, SeqEqual

\* Two stretches of the stream of which one follows the other are one, and
\* one stretch is two of which one follows the other.
LEMMA CountsConcat ==
    ASSUME NEW a \in Seq(Int), NEW b \in Seq(Int), NEW lo \in Int
    PROVE  Counts(a \o b, lo) <=> Counts(a, lo) /\ Counts(b, lo + Len(a))
  <1>1. /\ Len(a) \in Nat /\ Len(b) \in Nat
        /\ a \o b \in Seq(Int) /\ Len(a \o b) = Len(a) + Len(b)
        /\ \A i \in 1..Len(a) + Len(b) :
            (a \o b)[i] = IF i <= Len(a) THEN a[i] ELSE b[i - Len(a)]
    OBVIOUS
  <1>2. ASSUME Counts(a \o b, lo)
        PROVE  Counts(a, lo) /\ Counts(b, lo + Len(a))
    <2>1. ASSUME NEW i \in 1..Len(a) PROVE a[i] = lo + i - 1
      <3>1. i \in 1..Len(a) + Len(b) /\ i <= Len(a)
        BY <1>1
      <3>2. (a \o b)[i] = a[i] /\ (a \o b)[i] = lo + i - 1
        BY <1>1, <1>2, <3>1 DEF Counts
      <3> QED BY <3>2
    <2>2. ASSUME NEW i \in 1..Len(b) PROVE b[i] = (lo + Len(a)) + i - 1
      <3> DEFINE j == Len(a) + i
      <3>1. j \in 1..Len(a) + Len(b) /\ ~(j <= Len(a)) /\ j - Len(a) = i
        BY <1>1
      <3>2. (a \o b)[j] = b[i] /\ (a \o b)[j] = lo + j - 1
        BY <1>1, <1>2, <3>1 DEF Counts
      <3> QED BY <1>1, <3>2
    <2> QED BY <2>1, <2>2 DEF Counts
  <1>3. ASSUME Counts(a, lo), Counts(b, lo + Len(a))
        PROVE  Counts(a \o b, lo)
    <2>1. ASSUME NEW i \in 1..Len(a) + Len(b) PROVE (a \o b)[i] = lo + i - 1
      <3>1. CASE i <= Len(a)
        BY <1>1, <1>3, <3>1 DEF Counts
      <3>2. CASE ~(i <= Len(a))
        <4>1. i - Len(a) \in 1..Len(b)
          BY <1>1, <3>2
        <4>2. b[i - Len(a)] = (lo + Len(a)) + (i - Len(a)) - 1
          BY <1>3, <4>1 DEF Counts
        <4> QED BY <1>1, <3>2, <4>2
      <3> QED BY <3>1, <3>2
    <2> QED BY <1>1, <2>1 DEF Counts
  <1> QED BY <1>2, <1>3

\* Bytes(lo, hi) counts up from lo, and is the only such sequence of its length.
LEMMA BytesCount ==
    ASSUME NEW lo \in Int, NEW hi \in Int, lo <= hi + 1
    PROVE  /\ Counts(Bytes(lo, hi), lo)
           /\ Len(Bytes(lo, hi)) = hi - lo + 1
  BY BytesSeq DEF Counts

LEMMA CountIsBytes ==
    ASSUME NEW s, NEW lo \in Int, NEW hi \in Int,
           Counts(s, lo), Len(s) = hi - lo + 1
    PROVE  s = Bytes(lo, hi)
  BY IsBytes DEF Counts

\* What is sent next continues what was sent before.
LEMMA Extend ==
    ASSUME NEW s \in Seq(Int), NEW lo \in Int, NEW mid \in Int, NEW hi \in Int,
           lo <= mid + 1, mid <= hi, s = Bytes(lo, mid)
    PROVE  s \o Bytes(mid + 1, hi) = Bytes(lo, hi)
  <1> DEFINE b == Bytes(mid + 1, hi)
  <1>1. Counts(s, lo) /\ Len(s) = mid - lo + 1
    BY BytesCount
  <1>2. Counts(b, mid + 1) /\ Len(b) = hi - mid
    <2>1. mid + 1 \in Int /\ mid + 1 <= hi + 1
      OBVIOUS
    <2>2. Counts(b, mid + 1) /\ Len(b) = hi - (mid + 1) + 1
      BY <2>1, BytesCount
    <2> QED BY <2>2
  <1> HIDE DEF b
  <1>3. lo + Len(s) = mid + 1
    BY <1>1
  <1>4. b \in Seq(Int)
    BY <1>2 DEF Counts
  <1>5. Counts(s \o b, lo)
    BY <1>1, <1>2, <1>3, <1>4, CountsConcat
  <1>6. Len(s \o b) = hi - lo + 1
    <2>1. Len(s \o b) = Len(s) + Len(b)
      BY <1>4, ConcatProperties, Zenon
    <2> QED BY <1>1, <1>2, <2>1
  <1> QED BY <1>5, <1>6, CountIsBytes DEF b

\* The bytes behind the first n count up from 1.
LEMMA SkipCounts ==
    ASSUME NEW n \in Nat, NEW hi \in Nat, NEW p \in Seq(Int), NEW q \in Seq(Int),
           Len(p) >= n, Counts(p \o q, 1 - n), Len(p) + Len(q) = hi + n
    PROVE  /\ SubSeq(p, n + 1, Len(p)) \in Seq(Int)
           /\ SubSeq(p, n + 1, Len(p)) \o q = Bytes(1, hi)
  <1> DEFINE s == SubSeq(p, n + 1, Len(p))
  <1>1. Len(p) \in Nat /\ Len(q) \in Nat
    OBVIOUS
  <1>4. Counts(p, 1 - n) /\ Counts(q, (1 - n) + Len(p))
    BY CountsConcat
  <1>5. /\ s \in Seq(Int) /\ Len(s) = Len(p) - n
        /\ \A i \in 1..(Len(p) - n) : s[i] = p[n + i]
    BY <1>1
  <1> HIDE DEF s
  <1>6. Counts(s, 1)
    <2>1. ASSUME NEW i \in 1..Len(s) PROVE s[i] = 1 + i - 1
      <3>1. n + i \in 1..Len(p)
        BY <1>1, <1>5
      <3>2. p[n + i] = (1 - n) + (n + i) - 1
        BY <1>4, <3>1 DEF Counts
      <3>3. s[i] = p[n + i]
        BY <1>1, <1>5
      <3> QED BY <3>2, <3>3
    <2> QED BY <1>5, <2>1 DEF Counts
  <1>7. 1 + Len(s) = (1 - n) + Len(p)
    BY <1>1, <1>5
  <1>8. Counts(s \o q, 1)
    BY <1>4, <1>5, <1>6, <1>7, CountsConcat
  <1>9. Len(s \o q) = hi
    <2>1. Len(s \o q) = Len(s) + Len(q)
      <3>1. s \in Seq(Int)
        BY <1>5
      <3> QED BY <3>1, ConcatProperties
    <2> QED BY <1>1, <1>5, <2>1
  <1>10. s \o q = Bytes(1, hi)
    <2>1. hi = hi - 1 + 1 /\ 1 \in Int /\ hi \in Int
      OBVIOUS
    <2> QED BY <1>8, <1>9, <2>1, CountIsBytes
  <1> QED BY <1>5, <1>10 DEF s

\* Skipping an address of n bytes leaves the data behind it.
LEMMA Skip ==
    ASSUME NEW n \in Nat, NEW hi \in Nat, NEW p \in Seq(Int), NEW q \in Seq(Int),
           Len(p) >= n, p \o q = Bytes(1 - n, hi)
    PROVE  /\ SubSeq(p, n + 1, Len(p)) \in Seq(Int)
           /\ SubSeq(p, n + 1, Len(p)) \o q = Bytes(1, hi)
  <1> DEFINE w == p \o q
  <1>1. Len(p) \in Nat /\ Len(q) \in Nat /\ Len(w) = Len(p) + Len(q)
    OBVIOUS
  <1>2. PICK lo \in Int : lo = 1 - n
    OBVIOUS
  <1>3. hi \in Int /\ lo <= hi + 1 /\ hi - lo + 1 = hi + n
    BY <1>2
  <1>4. Counts(Bytes(lo, hi), lo) /\ Len(Bytes(lo, hi)) = hi + n
    BY <1>3, BytesCount
  <1>5. Counts(w, 1 - n) /\ Len(w) = hi + n
    BY <1>2, <1>4
  <1>6. Len(p) + Len(q) = hi + n
    BY <1>1, <1>5
  <1> QED BY <1>5, <1>6, SkipCounts, Zenon

-----------------------------------------------------------------------------
(* The steps. *)

\* An address has a length.
LEMMA SentLenNat == \A a \in Addresses : SentLen(a) \in Nat \ {0}
  <1> SUFFICES ASSUME NEW a \in Addresses PROVE SentLen(a) \in Nat \ {0}
    OBVIOUS
  <1>1. a.len \in Nat /\ V4Len \in Nat /\ V6Len \in Nat
    BY ReceiveAssumption
  <1> QED BY <1>1 DEF SentLen, FormLen

\* Both ways to find the length of an address agree if its form is plain.
LEMMA KeptIsSent ==
    ASSUME PlainForm, NEW a \in Addresses
    PROVE  KeptLen(a) = SentLen(a)
  BY DEF PlainForm, KeptLen, SentLen

\* What is between the buffers may be put in either.
LEMMA Empty ==
    ASSUME NEW s \in Seq(Int)
    PROVE  s \o <<>> = s /\ <<>> \o s = s /\ <<>> \in Seq(Int)
  OBVIOUS

LEMMA Regroup ==
    ASSUME NEW a \in Seq(Int), NEW b \in Seq(Int), NEW c \in Seq(Int)
    PROVE  (a \o b) \o c = a \o (b \o c)
  BY ConcatAssociative

\* The client's first chunk has the address; a later one continues the data.
LEMMA ChunkStep ==
    ASSUME OpenInv, PeerChunk
    PROVE  OpenInv'
  <1> DEFINE L == SentLen(addr)
  <1>1. PICK n \in 0..MaxChunk :
            /\ n > 0 \/ First
            /\ part' = Bytes(IF First THEN 1 - L ELSE sent + 1, sent + n)
            /\ sent' = sent + n
    BY DEF PeerChunk
  <1>2. /\ part = <<>>
        /\ UNCHANGED <<addr, whole, state, remote, rbuf, out>>
    BY DEF PeerChunk
  <1>3. L \in Nat \ {0} /\ sent \in Nat /\ n \in Nat /\ addr \in Addresses
    BY ReceiveAssumption, SentLenNat DEF OpenInv
  <1>4. /\ whole \in Seq(Int) /\ rbuf \in Seq(Int) /\ out \in Seq(Int)
        /\ remote # "connecting" => rbuf = <<>>
    BY DEF OpenInv
  <1> HIDE DEF L
  <1>5. CASE First
    <2>1. sent = 0 /\ whole = <<>> /\ state = "init" /\ BeforeAddress
      BY <1>5 DEF First, OpenInv
    <2>2. part' = Bytes(1 - L, sent')
      BY <1>1, <1>5
    <2>3. part' \in Seq(Int)
      <3>1. 1 - L \in Int /\ sent' \in Int /\ 1 - L <= sent' + 1
        BY <1>1, <1>3
      <3> QED BY <2>2, <3>1, BytesSeq
    <2>4. BeforeAddress'
      BY <1>2, <2>1, <2>2 DEF BeforeAddress, L
    <2> QED BY <1>1, <1>2, <1>3, <1>4, <2>1, <2>3, <2>4 DEF OpenInv
  <1>6. CASE ~First
    <2> DEFINE hi == sent + n
    <2>1. part' = Bytes(sent + 1, hi) /\ sent' = hi
      BY <1>1, <1>6
    <2>2. hi \in Nat /\ sent <= hi
      BY <1>3
    <2> HIDE DEF hi
    <2>3. part' \in Seq(Int)
      <3>1. sent + 1 \in Int /\ hi \in Int /\ sent + 1 <= hi + 1
        BY <1>3, <2>2
      <3> QED BY <2>1, <3>1, BytesSeq
    <2>4. CASE state = "init"
      <3>1. BeforeAddress
        BY <2>4 DEF OpenInv
      <3>2. PICK lo \in Int : lo = 1 - L
        BY <1>3
      <3>3. lo <= sent + 1 /\ sent \in Int /\ hi \in Int
        BY <1>3, <2>2, <3>2
      <3>4. Len(Bytes(lo, sent)) # 0
        <4>1. Len(Bytes(lo, sent)) = sent - lo + 1
          BY <3>3, BytesSeq
        <4> QED BY <1>3, <3>2, <4>1
      <3>5. part # Bytes(1 - L, sent)
        BY <1>2, <3>2, <3>4
      <3>6. Len(whole) >= L /\ whole \o part = Bytes(1 - L, sent)
        BY <1>2, <1>6, <2>4, <3>1, <3>5 DEF BeforeAddress, First, L
      <3>7. whole = Bytes(lo, sent)
        BY <1>2, <1>4, <3>2, <3>6, Empty
      <3>8. whole \o Bytes(sent + 1, hi) = Bytes(lo, hi)
        <4>1. ASSUME NEW s \in Seq(Int), s = Bytes(lo, sent)
              PROVE  s \o Bytes(sent + 1, hi) = Bytes(lo, hi)
          BY <2>2, <3>3, <4>1, Extend
        <4> QED BY <1>4, <3>7, <4>1
      <3>9. BeforeAddress'
        BY <1>2, <2>1, <3>1, <3>2, <3>6, <3>8 DEF BeforeAddress, L
      <3> QED BY <1>2, <1>3, <1>4, <2>1, <2>2, <2>3, <2>4, <3>9 DEF OpenInv
    <2>5. CASE state # "init"
      <3> DEFINE s == out \o rbuf \o whole
      <3>1. s \in Seq(Int)
        BY <1>4
      <3>2. s \o part = Bytes(1, sent)
        BY <2>5 DEF OpenInv, BehindAddress
      <3> HIDE DEF s
      <3>3. s = Bytes(1, sent)
        BY <1>2, <3>1, <3>2, Empty
      <3>4. s \o Bytes(sent + 1, hi) = Bytes(1, hi)
        <4>1. 1 \in Int /\ sent \in Int /\ hi \in Int /\ 1 <= sent + 1
          BY <1>3, <2>2
        <4> QED BY <2>2, <3>1, <3>3, <4>1, Extend, Zenon
      <3>5. BehindAddress'
        BY <1>2, <2>1, <3>4 DEF BehindAddress, s
      <3> QED BY <1>2, <1>3, <1>4, <2>1, <2>2, <2>3, <2>5, <3>5 DEF OpenInv
    <2> QED BY <2>4, <2>5
  <1> QED BY <1>5, <1>6

\* The rest of a chunk makes it readable and moves nothing.
LEMMA RestStep ==
    ASSUME OpenInv, PeerRest
    PROVE  OpenInv'
  <1>1. /\ whole \in Seq(Int) /\ part \in Seq(Int) /\ rbuf \in Seq(Int) /\ out \in Seq(Int)
        /\ addr \in Addresses /\ sent \in Nat
        /\ remote # "connecting" => rbuf = <<>>
    BY DEF OpenInv
  <1>2. /\ part # <<>> /\ whole' = whole \o part /\ part' = <<>>
        /\ UNCHANGED <<addr, sent, state, remote, rbuf, out>>
    BY DEF PeerRest
  <1>3. whole \o part \in Seq(Int) /\ <<>> \in Seq(Int)
    BY <1>1
  <1>4. SentLen(addr) \in Nat \ {0}
    BY <1>1, SentLenNat
  <1>5. CASE state = "init"
    <2>1. BeforeAddress
      BY <1>5 DEF OpenInv
    <2>2. CASE whole = <<>> /\ part = Bytes(1 - SentLen(addr), sent)
      <3>1. whole' = part /\ whole' \o part' = part
        BY <1>1, <1>2, <2>2, Empty
      <3>2. PICK lo \in Int : lo = 1 - SentLen(addr)
        BY <1>4
      <3>3. Len(part) = sent - lo + 1
        <4>1. sent \in Int /\ lo <= sent + 1
          BY <1>1, <1>4, <3>2
        <4>2. Len(Bytes(lo, sent)) = sent - lo + 1
          BY <4>1, BytesSeq
        <4> QED BY <2>2, <3>2, <4>2
      <3>4. Len(whole') >= SentLen(addr)
        BY <1>1, <1>4, <3>1, <3>2, <3>3
      <3> QED BY <1>1, <1>2, <1>3, <1>5, <2>1, <2>2, <3>1, <3>4 DEF OpenInv, BeforeAddress
    <2>3. CASE /\ Len(whole) >= SentLen(addr)
               /\ whole \o part = Bytes(1 - SentLen(addr), sent)
      <3>1. whole' \o part' = whole \o part
        BY <1>2, <1>3, Empty
      <3>2. Len(whole \o part) = Len(whole) + Len(part) /\ Len(whole) \in Nat /\ Len(part) \in Nat
        BY <1>1, ConcatProperties
      <3>3. Len(whole') >= SentLen(addr)
        BY <1>2, <1>4, <2>3, <3>2
      <3> QED BY <1>1, <1>2, <1>3, <1>5, <2>1, <2>3, <3>1, <3>3 DEF OpenInv, BeforeAddress
    <2> QED BY <1>2, <2>1, <2>2, <2>3 DEF BeforeAddress
  <1>6. CASE state # "init"
    <2>1. out \o rbuf \o whole \o part = Bytes(1, sent)
      BY <1>6 DEF OpenInv, BehindAddress
    <2> DEFINE gone == out \o rbuf
    <2>2. gone \in Seq(Int)
      BY <1>1
    <2> HIDE DEF gone
    <2>3. (gone \o whole) \o part = gone \o (whole \o part)
      BY <1>1, <2>2, Regroup, Zenon
    <2>4. gone \o (whole \o part) \in Seq(Int)
      BY <1>3, <2>2
    <2>5. (gone \o (whole \o part)) \o <<>> = gone \o (whole \o part)
      BY <2>4, Empty
    <2>6. BehindAddress'
      BY <1>2, <2>1, <2>3, <2>5 DEF BehindAddress, gone
    <2> QED BY <1>1, <1>2, <1>3, <1>6, <2>6 DEF OpenInv
  <1> QED BY <1>5, <1>6

\* The address is skipped, and what is left of the first plaintext waits.
LEMMA AddressStep ==
    ASSUME PlainForm, OpenInv, ReadAddress
    PROVE  OpenInv'
  <1>1. /\ whole \in Seq(Int) /\ part \in Seq(Int)
        /\ addr \in Addresses /\ sent \in Nat
    BY DEF OpenInv
  <1>2. /\ state' = "handshake" /\ remote' = "connecting" /\ whole' = <<>>
        /\ rbuf' = SubSeq(whole, KeptLen(addr) + 1, Len(whole))
        /\ UNCHANGED <<addr, sent, part, out>>
    BY DEF ReadAddress, Rewound
  <1>3. out = <<>> /\ Len(whole) >= SentLen(addr) /\ whole \o part = Bytes(1 - SentLen(addr), sent)
    BY DEF ReadAddress, OpenInv, BeforeAddress
  <1>4. SentLen(addr) \in Nat /\ KeptLen(addr) = SentLen(addr)
    BY <1>1, SentLenNat, KeptIsSent
  <1>5. rbuf' \in Seq(Int) /\ rbuf' \o part = Bytes(1, sent)
    <2>1. PICK n \in Nat : n = SentLen(addr)
      BY <1>4
    <2>2. Len(whole) >= n /\ whole \o part = Bytes(1 - n, sent)
      BY <1>3, <2>1
    <2>3. rbuf' = SubSeq(whole, n + 1, Len(whole))
      BY <1>2, <1>4, <2>1
    <2>4. /\ SubSeq(whole, n + 1, Len(whole)) \in Seq(Int)
          /\ SubSeq(whole, n + 1, Len(whole)) \o part = Bytes(1, sent)
      BY <1>1, <2>2, Skip, Zenon
    <2> QED BY <2>3, <2>4
  <1>6. (<<>> \o rbuf') \o <<>> = rbuf'
    BY <1>5, Empty
  <1>7. BehindAddress'
    BY <1>2, <1>3, <1>5, <1>6 DEF BehindAddress
  <1>8. <<>> \in Seq(Int)
    BY <1>1, Empty
  <1> QED BY <1>1, <1>2, <1>3, <1>5, <1>7, <1>8 DEF OpenInv

\* What is read later goes out behind what is out: nothing waits between them.
LEMMA StreamReadStep ==
    ASSUME OpenInv, ReadStream
    PROVE  OpenInv'
  <1>1. /\ whole \in Seq(Int) /\ part \in Seq(Int) /\ out \in Seq(Int)
        /\ addr \in Addresses /\ sent \in Nat
    BY DEF OpenInv
  <1>2. rbuf = <<>> /\ state # "init" /\ out \o rbuf \o whole \o part = Bytes(1, sent)
    BY DEF OpenInv, ReadStream, Readable, BehindAddress
  <1>3. /\ state' = "stream" /\ whole' = <<>> /\ out' = out \o whole
        /\ UNCHANGED <<addr, sent, part, remote, rbuf>>
    BY DEF ReadStream
  <1>4. out \o whole \in Seq(Int) /\ <<>> \in Seq(Int) /\ out \o <<>> = out
    BY <1>1, Empty
  <1>5. (out \o whole) \o <<>> = out \o whole
    BY <1>4, Empty
  <1>6. BehindAddress'
    BY <1>2, <1>3, <1>4, <1>5 DEF BehindAddress
  <1> QED BY <1>1, <1>2, <1>3, <1>4, <1>6 DEF OpenInv

\* The data that waited for the connect goes out.
LEMMA ConnectedStep ==
    ASSUME OpenInv, Connected
    PROVE  OpenInv'
  <1>1. /\ whole \in Seq(Int) /\ part \in Seq(Int) /\ out \in Seq(Int) /\ rbuf \in Seq(Int)
        /\ addr \in Addresses /\ sent \in Nat
    BY DEF OpenInv
  <1>2. /\ remote' = "connected" /\ rbuf' = <<>> /\ out' = out \o rbuf
        /\ UNCHANGED <<addr, sent, whole, part, state>>
    BY DEF Connected
  <1>3. out \o rbuf \in Seq(Int) /\ <<>> \in Seq(Int)
    BY <1>1
  <1>4. (out \o rbuf) \o <<>> = out \o rbuf
    BY <1>3, Empty
  <1>5. state = "init" => BeforeAddress'
    <2> SUFFICES ASSUME state = "init" PROVE BeforeAddress'
      OBVIOUS
    <2>1. BeforeAddress
      BY DEF OpenInv
    <2>2. out' = <<>>
      BY <1>1, <1>2, <2>1, Empty DEF BeforeAddress
    <2> QED BY <1>2, <2>1, <2>2 DEF BeforeAddress
  <1>6. state # "init" => BehindAddress'
    BY <1>2, <1>4 DEF OpenInv, BehindAddress
  <1> QED BY <1>1, <1>2, <1>3, <1>5, <1>6 DEF OpenInv

\* While the session is open, what is out and what waits behind it count up.
LEMMA OpenCounts ==
    ASSUME OpenInv
    PROVE  /\ out \in Seq(Int) /\ rbuf \in Seq(Int)
           /\ Counts(out, 1) /\ Counts(rbuf, 1 + Len(out))
  <1>1. /\ whole \in Seq(Int) /\ part \in Seq(Int) /\ out \in Seq(Int) /\ rbuf \in Seq(Int)
        /\ sent \in Nat
    BY DEF OpenInv
  <1>2. CASE state = "init"
    BY <1>1, <1>2 DEF OpenInv, BeforeAddress, Counts
  <1>3. CASE state # "init"
    <2> DEFINE a == out \o rbuf
               b == a \o whole
    <2>1. a \in Seq(Int) /\ b \in Seq(Int)
      BY <1>1
    <2>2. b \o part = Bytes(1, sent)
      BY <1>3 DEF OpenInv, BehindAddress
    <2>3. Counts(Bytes(1, sent), 1)
      <3>1. 1 \in Int /\ sent \in Int /\ 1 <= sent + 1
        BY <1>1
      <3> QED BY <3>1, BytesCount
    <2> HIDE DEF b
    <2>4. Counts(b, 1)
      <3>1. Counts(b \o part, 1) /\ 1 \in Int
        BY <2>2, <2>3
      <3> QED BY <1>1, <2>1, <3>1, CountsConcat
    <2> HIDE DEF a
    <2>5. Counts(a, 1)
      <3>1. Counts(a \o whole, 1) /\ 1 \in Int
        BY <2>4 DEF b
      <3> QED BY <1>1, <2>1, <3>1, CountsConcat
    <2>6. Counts(out \o rbuf, 1) /\ 1 \in Int
      BY <2>5 DEF a
    <2> QED BY <1>1, <2>6, CountsConcat
  <1> QED BY <1>1, <1>2, <1>3

LEMMA OpenOut == OpenInv => Counts(out, 1)
  BY OpenCounts

\* The first bytes of what waits continue what is out.
LEMMA LeftoverCounts ==
    ASSUME OpenInv, LeftoverFails
    PROVE  Counts(out', 1)
  <1>1. PICK n \in 0..Len(rbuf) - 1 : out' = out \o SubSeq(rbuf, 1, n)
    BY DEF LeftoverFails
  <1> DEFINE p == SubSeq(rbuf, 1, n)
             lo == 1 + Len(out)
  <1>2. /\ out \in Seq(Int) /\ rbuf \in Seq(Int)
        /\ Counts(out, 1) /\ Counts(rbuf, lo)
    BY OpenCounts
  <1>3. Len(rbuf) \in Nat /\ n \in Nat /\ n <= Len(rbuf)
    BY <1>1, <1>2
  <1>4. /\ p \in Seq(Int) /\ Len(p) = n
        /\ \A i \in 1..n : p[i] = rbuf[i]
    BY <1>2, <1>3
  <1> HIDE DEF p, lo
  <1>5. Counts(p, lo)
    <2>1. ASSUME NEW i \in 1..Len(p) PROVE p[i] = lo + i - 1
      <3>1. i \in 1..n /\ i \in 1..Len(rbuf)
        BY <1>3, <1>4
      <3> QED BY <1>2, <1>4, <3>1 DEF Counts
    <2> QED BY <1>4, <2>1 DEF Counts
  <1>6. Counts(p, 1 + Len(out)) /\ 1 \in Int
    BY <1>5 DEF lo
  <1>7. Counts(out \o p, 1)
    BY <1>2, <1>4, <1>6, CountsConcat
  <1> QED BY <1>1, <1>7 DEF p

\* Every byte stays in one of its places, whatever the peer, the network and
\* the server do next.
LEMMA ReceiveStep ==
    ASSUME PlainForm, ReceiveInv, [Next]_vars
    PROVE  ReceiveInv'
  <1>1. CASE conn # "open"
    <2>1. PeerRest \/ UNCHANGED vars
      BY <1>1 DEF Next, PeerChunk, Receive, ReadNeedsMore, ReadAddress, AddressRefused,
         ReadStream, Readable, ConnectEnds, Connected, ConnectFails, LeftoverFails,
         Connecting, Cut
    <2>2. conn' = conn /\ out' = out
      BY <2>1 DEF PeerRest, vars
    <2> QED BY <1>1, <2>2 DEF ReceiveInv, Counts
  <1>2. CASE conn = "open" /\ LeftoverFails
    <2>1. conn' # "open"
      BY <1>2 DEF LeftoverFails
    <2> QED BY <1>2, <2>1, LeftoverCounts DEF ReceiveInv
  <1>3. CASE ReadNeedsMore \/ AddressRefused \/ ConnectFails \/ Cut
    <2>1. conn' # "open" /\ out' = out
      BY <1>3 DEF ReadNeedsMore, AddressRefused, ConnectFails, Cut
    <2> QED BY <2>1 DEF ReceiveInv, Counts
  <1>4. CASE conn = "open" /\ UNCHANGED vars
    BY <1>4 DEF vars, ReceiveInv, OpenInv, BeforeAddress, BehindAddress, Counts
  <1>5. CASE /\ conn = "open"
             /\ PeerChunk \/ PeerRest \/ ReadAddress \/ ReadStream \/ Connected
    <2>1. OpenInv'
      BY <1>5, ChunkStep, RestStep, AddressStep, StreamReadStep, ConnectedStep DEF ReceiveInv
    <2>2. OpenInv' => Counts(out, 1)'
      BY OpenOut, PTL
    <2> QED BY <2>1, <2>2 DEF ReceiveInv
  <1> QED BY <1>1, <1>2, <1>3, <1>4, <1>5 DEF Next, Receive, ConnectEnds

-----------------------------------------------------------------------------
\* tcpShadowsocksConnRead, "Rewind rbuffer" and tcpRemoteOnConnect: wherever
\* TCP splits the stream, every byte of it is where ReceiveInv says.
THEOREM ReceiveInvariant == PlainForm => (Spec => []ReceiveInv)
  <1> SUFFICES ASSUME PlainForm PROVE Spec => []ReceiveInv
    OBVIOUS
  <1>1. Init => ReceiveInv
    BY DEF Init, ReceiveInv, OpenInv, BeforeAddress, Counts
  <1>2. ReceiveInv /\ [Next]_vars => ReceiveInv'
    BY ReceiveStep
  <1> QED BY <1>1, <1>2, PTL DEF Spec

\* The destination gets exactly the data behind the address, in order and
\* without a gap, or its beginning where the session is closed, for all
\* addresses whose host has the form its type says, all amounts of data and all
\* chunks.
THEOREM NothingIsLost == PlainForm => (Spec => []NothingLost)
  <1> SUFFICES ASSUME PlainForm PROVE Spec => []NothingLost
    OBVIOUS
  <1>1. ReceiveInv => NothingLost
    <2> SUFFICES ASSUME ReceiveInv PROVE NothingLost
      OBVIOUS
    <2>1. PICK n \in Nat : n = Len(out)
      BY LenProperties DEF ReceiveInv, Counts
    <2>2. n = n - 1 + 1 /\ 1 \in Int /\ n \in Int
      BY <2>1
    <2>3. out = Bytes(1, n)
      BY <2>1, <2>2, CountIsBytes DEF ReceiveInv
    <2> QED BY <2>1, <2>3 DEF ReceiveInv, OpenInv, NothingLost, BehindAddress
  <1>2. Spec => []ReceiveInv
    BY ReceiveInvariant
  <1> QED BY <1>1, <1>2, PTL
=============================================================================
