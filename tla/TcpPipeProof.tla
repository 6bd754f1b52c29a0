---------------------------- MODULE TcpPipeProof ----------------------------
(***************************************************************************)
(* TcpPipe proved for buffers and streams of any length and for every kind *)
(* of destination: it never waits for nothing, and it implements           *)
(* ByteStream.                                                             *)
(***************************************************************************)
EXTENDS TcpPipe, SequenceTheorems, TLAPS

-----------------------------------------------------------------------------
(* The inductive invariant. *)

\* Bytes of the stream in their order, none of them above hi.
Ordered(s, hi) ==
    /\ \A i \in 1..Len(s) : 1 <= s[i] /\ s[i] <= hi
    /\ \A i, j \in 1..Len(s) : i < j => s[i] < s[j]

\* All of s comes before what t holds behind its a-th byte.
Before(s, t, a) == \A i \in 1..Len(s), j \in a + 1..Len(t) : s[i] < t[j]

\* The stream from its beginning, with no byte left out.
Whole(s) == \A i \in 1..Len(s) : s[i] = i
WholeTo(s, n) == Len(s) = n /\ Whole(s)

\* Behind its a-th byte t goes on with the bytes of the stream behind base.
GoesOn(t, a, base) == \A k \in a + 1..Len(t) : t[k] = base + (k - a)

\* rbuf holds the bytes read last; with the read event it is empty, with the
\* write event wbuf and wbuf_len add up to its end.
Buffers ==
    /\ re # we
    /\ \A i \in 1..Len(rbuf) : rbuf[i] = taken - Len(rbuf) + i
    /\ Len(rbuf) <= taken
    /\ re => rbuf = <<>> /\ wbuf = NULL /\ wlen = 0
    /\ we => wbuf \in Nat /\ wbuf + wlen = Len(rbuf)

\* What tmp_buf still holds comes behind all that is out.
Pending ==
    /\ Ordered(tmp.data, taken)
    /\ tmp = NoText => toff = 0
    /\ tmp # NoText => Encrypted /\ Len(tmp.data) > 0 /\ toff < TextLen(tmp)
    /\ Before(out, tmp.data, DataIn(tmp, toff))

\* The rest of rbuf, which is encrypted when tmp_buf is empty, comes behind
\* what is out: either the ciphertext in tmp_buf reaches to its end, or it is
\* left from an earlier read.
Rest ==
    we =>
        /\ tmp = NoText => \A i \in 1..Len(out) : out[i] <= taken - wlen
        /\ tmp # NoText =>
            \/ TextLen(tmp) - toff >= wlen
            \/ /\ \A i \in 1..Len(out) : out[i] <= taken - Len(rbuf)
               /\ \A j \in 1..Len(tmp.data) : tmp.data[j] <= taken - Len(rbuf)
        /\ ~Encrypted => wlen >= 0

\* Where nothing is added, all that was read is out, but for wbuf_len bytes,
\* which are those of tmp_buf if there are any.
Exact ==
    /\ tmp.over = 0
    /\ re => tmp = NoText /\ Len(out) = taken
    /\ we =>
        /\ wlen >= 0
        /\ Len(out) = taken - wlen
        /\ tmp # NoText =>
            /\ TextLen(tmp) - toff = wlen
            /\ \A j \in 1..wlen : tmp.data[toff + j] = taken - wlen + j

PipeInv ==
    /\ TypeOK
    /\ Ordered(out, taken)
    /\ Plain => Whole(out)
    /\ conn = "open" => Buffers /\ Pending /\ Rest
    /\ conn = "open" /\ Plain => Exact

-----------------------------------------------------------------------------
(* Sequences: what a write appends. *)

Texts == [over : Nat, data : Seq(Nat)]

\* u is s with the elements of t behind the a-th and up to the b-th appended.
Grown(u, s, t, a, b) ==
    /\ u \in Seq(Nat)
    /\ Len(u) = Len(s) + (b - a)
    /\ \A k \in 1..Len(s) : u[k] = s[k]
    /\ \A k \in Len(s) + 1..Len(u) : u[k] = t[a + (k - Len(s))]

\* u begins with s.
Longer(u, s) == Len(s) <= Len(u) /\ \A k \in 1..Len(s) : u[k] = s[k]

LEMMA GrownLonger ==
    ASSUME NEW s \in Seq(Nat), NEW t, NEW a \in Nat, NEW b \in Nat, a <= b,
           NEW u, Grown(u, s, t, a, b)
    PROVE  Longer(u, s)
  BY LenProperties DEF Grown, Longer

LEMMA AppendPart ==
    ASSUME NEW s \in Seq(Nat), NEW t \in Seq(Nat), NEW a \in Nat, NEW b \in Nat,
           a <= b, b <= Len(t)
    PROVE  Grown(s \o SubSeq(t, a + 1, b), s, t, a, b)
  <1> DEFINE p == SubSeq(t, a + 1, b)
             u == s \o p
  <1>1. Len(s) \in Nat /\ Len(t) \in Nat
    BY LenProperties
  <1>2. /\ p \in Seq(Nat) /\ Len(p) = b - a
        /\ \A k \in 1..(b - a) : p[k] = t[a + k]
    <2>1. CASE a = b
      BY <1>1, <2>1
    <2>2. CASE a < b
      BY <1>1, <2>2
    <2> QED BY <2>1, <2>2
  <1> HIDE DEF p
  <1>3. /\ u \in Seq(Nat) /\ Len(u) = Len(s) + Len(p)
        /\ \A k \in 1..Len(s) + Len(p) : u[k] = IF k <= Len(s) THEN s[k] ELSE p[k - Len(s)]
    <2>1. p \in Seq(Nat)
      BY <1>2
    <2> QED BY <2>1, ConcatProperties, ZenonT(30)
  <1> HIDE DEF u
  <1>4. \A k \in Len(s) + 1..Len(u) : u[k] = t[a + (k - Len(s))]
    <2> TAKE k \in Len(s) + 1..Len(u)
    <2>1. k - Len(s) \in 1..(b - a) /\ k \in 1..Len(s) + Len(p) /\ ~(k <= Len(s))
      BY <1>1, <1>2, <1>3
    <2> QED BY <1>2, <1>3, <2>1
  <1>5. \A k \in 1..Len(s) : u[k] = s[k]
    BY <1>1, <1>2, <1>3
  <1>6. Grown(u, s, t, a, b)
    BY <1>2, <1>3, <1>4, <1>5 DEF Grown
  <1> QED BY <1>6 DEF u, p

\* Ordered parts that follow each other are ordered together, and the part of
\* t that is left follows them.
LEMMA GrownOrdered ==
    ASSUME NEW s \in Seq(Nat), NEW t \in Seq(Nat), NEW a \in Nat, NEW b \in Nat,
           a <= b, b <= Len(t), NEW u, Grown(u, s, t, a, b),
           NEW lo \in Nat, NEW hi \in Nat, lo <= hi, Ordered(s, lo), Ordered(t, hi),
           Before(s, t, a)
    PROVE  Ordered(u, hi) /\ Before(u, t, b)
  <1>1. Len(s) \in Nat /\ Len(t) \in Nat /\ Len(u) \in Nat /\ Len(u) = Len(s) + (b - a)
    BY LenProperties DEF Grown
  <1>2. ASSUME NEW k \in 1..Len(u), k <= Len(s)
        PROVE  k \in 1..Len(s) /\ u[k] = s[k] /\ s[k] \in Nat
    <2>1. k \in 1..Len(s)
      BY <1>1, <1>2
    <2> QED BY <2>1, ElementOfSeq DEF Grown
  <1>3. ASSUME NEW k \in 1..Len(u), k > Len(s)
        PROVE  \E x \in a + 1..b :
                  x = a + (k - Len(s)) /\ x \in 1..Len(t) /\ u[k] = t[x] /\ t[x] \in Nat
    <2> DEFINE x == a + (k - Len(s))
    <2>1. x \in a + 1..b /\ x \in 1..Len(t) /\ k \in Len(s) + 1..Len(u)
      BY <1>1, <1>3
    <2>2. u[k] = t[x]
      BY <2>1 DEF Grown
    <2>3. t[x] \in Nat
      BY <2>1, ElementOfSeq
    <2> QED BY <2>1, <2>2, <2>3
  <1>4. ASSUME NEW k \in 1..Len(u) PROVE 1 <= u[k] /\ u[k] <= hi
    <2>1. CASE k <= Len(s)
      <3>1. k \in 1..Len(s) /\ u[k] = s[k] /\ s[k] \in Nat
        BY <1>2, <2>1
      <3>2. 1 <= s[k] /\ s[k] <= lo
        BY <3>1 DEF Ordered
      <3> QED BY <3>1, <3>2
    <2>2. CASE k > Len(s)
      BY <1>3, <2>2 DEF Ordered
    <2> QED BY <1>1, <2>1, <2>2
  <1>5. ASSUME NEW i \in 1..Len(u), NEW j \in 1..Len(u), i < j PROVE u[i] < u[j]
    <2>1. CASE j <= Len(s)
      <3>1. i <= Len(s)
        BY <1>1, <1>5, <2>1
      <3>2. i \in 1..Len(s) /\ j \in 1..Len(s) /\ u[i] = s[i] /\ u[j] = s[j]
        BY <1>2, <2>1, <3>1
      <3>3. s[i] < s[j]
        BY <1>5, <3>2 DEF Ordered
      <3> QED BY <3>2, <3>3
    <2>2. CASE i <= Len(s) /\ j > Len(s)
      <3>1. i \in 1..Len(s) /\ u[i] = s[i]
        BY <1>1, <1>2, <2>2
      <3>2. PICK y \in a + 1..b : u[j] = t[y]
        BY <1>3, <2>2
      <3>3. y \in a + 1..Len(t)
        BY <1>1, <3>2
      <3>4. s[i] < t[y]
        BY <3>1, <3>3 DEF Before
      <3> QED BY <3>1, <3>2, <3>4
    <2>3. CASE i > Len(s)
      <3>1. PICK x \in a + 1..b : x = a + (i - Len(s)) /\ x \in 1..Len(t) /\ u[i] = t[x]
        BY <1>3, <2>3
      <3>2. PICK y \in a + 1..b : y = a + (j - Len(s)) /\ y \in 1..Len(t) /\ u[j] = t[y]
        <4>1. j > Len(s)
          BY <1>1, <1>5, <2>3
        <4> QED BY <1>3, <4>1
      <3>3. x < y
        BY <1>1, <1>5, <3>1, <3>2
      <3>4. t[x] < t[y]
        BY <3>1, <3>2, <3>3 DEF Ordered
      <3> QED BY <3>1, <3>2, <3>4
    <2>4. j <= Len(s) \/ (i <= Len(s) /\ j > Len(s)) \/ i > Len(s)
      <3>1. i \in Int /\ j \in Int /\ Len(s) \in Int
        BY <1>1
      <3> QED BY <3>1
    <2> QED BY <2>1, <2>2, <2>3, <2>4
  <1>6. ASSUME NEW i \in 1..Len(u), NEW j \in b + 1..Len(t) PROVE u[i] < t[j]
    <2>1. CASE i <= Len(s)
      <3>1. i \in 1..Len(s) /\ u[i] = s[i]
        BY <1>1, <1>2, <2>1
      <3>2. j \in a + 1..Len(t)
        BY <1>1
      <3>3. s[i] < t[j]
        BY <3>1, <3>2 DEF Before
      <3> QED BY <3>1, <3>3
    <2>2. CASE i > Len(s)
      <3>1. PICK x \in a + 1..b : x \in 1..Len(t) /\ u[i] = t[x]
        BY <1>3, <2>2
      <3>2. j \in 1..Len(t) /\ x < j
        BY <1>1, <3>1
      <3>3. t[x] < t[j]
        BY <3>1, <3>2 DEF Ordered
      <3> QED BY <3>1, <3>3
    <2> QED BY <1>1, <2>1, <2>2
  <1> QED BY <1>4, <1>5, <1>6 DEF Ordered, Before

\* What is written of the ciphertext c between its m-th and its k-th byte.
LEMMA TextAppended ==
    ASSUME NEW s \in Seq(Nat), NEW c \in Texts, NEW m \in Nat, NEW k \in Nat,
           m <= k, k <= TextLen(c)
    PROVE  /\ DataIn(c, m) \in Nat /\ DataIn(c, k) \in Nat
           /\ DataIn(c, m) <= DataIn(c, k) /\ DataIn(c, k) <= Len(c.data)
           /\ Grown(s \o DataBetween(c, m, k), s, c.data, DataIn(c, m), DataIn(c, k))
  <1> DEFINE a == DataIn(c, m)
             b == DataIn(c, k)
             t == c.data
  <1>1. c.over \in Nat /\ t \in Seq(Nat) /\ Len(t) \in Nat
    BY LenProperties DEF Texts
  <1>2. a \in Nat /\ b \in Nat /\ a <= b /\ b <= Len(t)
    <2>1. k <= c.over + Len(t)
      BY DEF TextLen
    <2>2. /\ a = IF m > c.over THEN m - c.over ELSE 0
          /\ b = IF k > c.over THEN k - c.over ELSE 0
      BY DEF DataIn
    <2> HIDE DEF a, b, t
    <2>3. CASE m > c.over
      <3>1. a = m - c.over /\ b = k - c.over
        BY <1>1, <2>2, <2>3
      <3>2. a \in Nat /\ b \in Nat /\ a <= b
        BY <1>1, <2>3, <3>1
      <3>3. b <= Len(t)
        BY <1>1, <2>1, <3>1
      <3> QED BY <3>2, <3>3
    <2>4. CASE ~(m > c.over)
      BY <1>1, <2>1, <2>2, <2>4
    <2> QED BY <2>3, <2>4
  <1>3. DataBetween(c, m, k) = SubSeq(t, a + 1, b)
    BY DEF DataBetween
  <1> HIDE DEF a, b, t
  <1>4. Grown(s \o DataBetween(c, m, k), s, t, a, b)
    BY <1>1, <1>2, <1>3, AppendPart
  <1> QED BY <1>2, <1>4 DEF a, b, t

\* A bound on ordered bytes may be raised.
LEMMA OrderedUp ==
    ASSUME NEW s \in Seq(Nat), NEW lo \in Nat, NEW hi \in Nat, lo <= hi, Ordered(s, lo)
    PROVE  Ordered(s, hi)
  <1>1. ASSUME NEW i \in 1..Len(s) PROVE 1 <= s[i] /\ s[i] <= hi
    <2>1. s[i] \in Nat
      BY ElementOfSeq
    <2>2. 1 <= s[i] /\ s[i] <= lo
      BY DEF Ordered
    <2> QED BY <2>1, <2>2
  <1> QED BY <1>1 DEF Ordered

\* If t goes on behind its a-th byte with the stream's bytes from base + 1 on,
\* what was appended ends at base + (b - a); if all up to base was there before,
\* nothing is left out.
LEMMA FreshGrown ==
    ASSUME NEW s \in Seq(Nat), NEW t \in Seq(Nat), NEW a \in Nat, NEW b \in Nat,
           a <= b, b <= Len(t), NEW u, Grown(u, s, t, a, b),
           NEW base \in Nat, Ordered(s, base), GoesOn(t, a, base),
           NEW hi \in Nat, base + (b - a) <= hi
    PROVE  Ordered(u, hi) /\ Before(u, t, b) /\ (WholeTo(s, base) => Whole(u))
  <1>1. Len(s) \in Nat /\ Len(t) \in Nat /\ Len(u) \in Nat /\ Len(u) = Len(s) + (b - a)
    BY LenProperties DEF Grown
  <1>2. ASSUME NEW k \in 1..Len(u), k <= Len(s)
        PROVE  k \in 1..Len(s) /\ u[k] = s[k] /\ s[k] \in Nat /\ 1 <= s[k] /\ s[k] <= base
    <2>1. k \in 1..Len(s)
      BY <1>1, <1>2
    <2> QED BY <2>1, ElementOfSeq DEF Grown, Ordered
  <1>3. ASSUME NEW k \in 1..Len(u), k > Len(s)
        PROVE  u[k] = base + (k - Len(s))
    <2> DEFINE x == a + (k - Len(s))
    <2>1. x \in a + 1..Len(t) /\ k \in Len(s) + 1..Len(u) /\ x - a = k - Len(s)
      BY <1>1, <1>3
    <2>2. u[k] = t[x]
      BY <2>1 DEF Grown
    <2>3. t[x] = base + (x - a)
      BY <2>1 DEF GoesOn
    <2> QED BY <2>1, <2>2, <2>3
  <1>4. ASSUME NEW k \in 1..Len(u) PROVE u[k] \in Nat /\ 1 <= u[k] /\ u[k] <= base + (b - a)
    <2>1. CASE k <= Len(s)
      <3>1. u[k] = s[k] /\ s[k] \in Nat /\ 1 <= s[k] /\ s[k] <= base
        BY <1>2, <2>1
      <3> QED BY <3>1
    <2>2. CASE k > Len(s)
      <3>1. u[k] = base + (k - Len(s))
        BY <1>3, <2>2
      <3> QED BY <1>1, <2>2, <3>1
    <2> QED BY <1>1, <2>1, <2>2
  <1>5. ASSUME NEW i \in 1..Len(u), NEW j \in 1..Len(u), i < j PROVE u[i] < u[j]
    <2>1. CASE j <= Len(s)
      <3>1. i <= Len(s)
        BY <1>1, <1>5, <2>1
      <3>2. i \in 1..Len(s) /\ j \in 1..Len(s) /\ u[i] = s[i] /\ u[j] = s[j]
        BY <1>2, <2>1, <3>1
      <3>3. s[i] < s[j]
        BY <1>5, <3>2 DEF Ordered
      <3> QED BY <3>2, <3>3
    <2>2. CASE i <= Len(s) /\ j > Len(s)
      <3>1. u[i] = s[i] /\ s[i] \in Nat /\ s[i] <= base
        BY <1>2, <2>2
      <3>2. u[j] = base + (j - Len(s))
        BY <1>3, <2>2
      <3>3. j - Len(s) \in Int /\ j - Len(s) > 0
        BY <1>1, <2>2
      <3> QED BY <3>1, <3>2, <3>3
    <2>3. CASE i > Len(s)
      <3>1. j > Len(s)
        BY <1>1, <1>5, <2>3
      <3>2. u[i] = base + (i - Len(s)) /\ u[j] = base + (j - Len(s))
        BY <1>3, <2>3, <3>1
      <3> QED BY <1>1, <1>5, <3>2
    <2>4. j <= Len(s) \/ (i <= Len(s) /\ j > Len(s)) \/ i > Len(s)
      <3>1. i \in Int /\ j \in Int /\ Len(s) \in Int
        BY <1>1
      <3> QED BY <3>1
    <2> QED BY <2>1, <2>2, <2>3, <2>4
  <1>6. ASSUME NEW i \in 1..Len(u), NEW j \in b + 1..Len(t) PROVE u[i] < t[j]
    <2>1. u[i] \in Nat /\ u[i] <= base + (b - a)
      BY <1>4
    <2>2. j \in a + 1..Len(t)
      BY <1>1
    <2>3. t[j] = base + (j - a)
      BY <2>2 DEF GoesOn
    <2>4. j \in Int /\ b < j
      BY <1>1
    <2> QED BY <2>1, <2>3, <2>4
  <1>7. ASSUME WholeTo(s, base) PROVE Whole(u)
    BY <1>1, <1>2, <1>3, <1>7 DEF WholeTo, Whole
  <1>8. Ordered(u, hi)
    <2>1. ASSUME NEW k \in 1..Len(u) PROVE 1 <= u[k] /\ u[k] <= hi
      BY <1>4
    <2> QED BY <1>5, <2>1 DEF Ordered
  <1>9. Before(u, t, b)
    BY <1>6 DEF Before
  <1> QED BY <1>7, <1>8, <1>9

-----------------------------------------------------------------------------
(* Parts of the step that several actions share. *)

\* What SsWrite does with the ciphertext c after a write of n bytes.
Kept(c, n) ==
    IF n = TextLen(c) - toff
    THEN tmp' = NoText /\ toff' = 0
    ELSE tmp' = c /\ toff' = toff + n

LEMMA NoTextIsText ==
    NoText \in Texts /\ TextLen(NoText) = 0 /\ Len(NoText.data) = 0 /\ NoText.over = 0
  BY DEF NoText, Texts, TextLen

\* Whatever is left of c is in tmp_buf and comes behind all that is out.
LEMMA PendingAfter ==
    ASSUME NEW c \in Texts, Len(c.data) > 0, toff \in Nat,
           NEW n \in Nat, toff + n <= TextLen(c), Kept(c, n),
           Encrypted, dst' = dst, Ordered(c.data, taken'),
           Before(out', c.data, DataIn(c, toff + n))
    PROVE  Pending' /\ tmp' \in Texts /\ toff' \in Nat
  <1>1. Len(c.data) \in Nat /\ c.over \in Nat /\ TextLen(c) \in Nat
    BY LenProperties DEF Texts, TextLen
  <1>2. CASE n = TextLen(c) - toff
    <2>1. tmp' = NoText /\ toff' = 0 /\ Len(tmp'.data) = 0
      BY <1>2, NoTextIsText DEF Kept
    <2>2. DataIn(NoText, 0) = 0
      BY NoTextIsText DEF DataIn
    <2>3. Ordered(tmp'.data, taken') /\ Before(out', tmp'.data, 0)
      BY <2>1 DEF Ordered, Before
    <2> QED BY <2>1, <2>2, <2>3, NoTextIsText DEF Pending
  <1>3. CASE n # TextLen(c) - toff
    <2>1. tmp' = c /\ toff' = toff + n
      BY <1>3 DEF Kept
    <2>2. c # NoText
      BY NoTextIsText
    <2>3. toff + n < TextLen(c)
      BY <1>1, <1>3
    <2>4. Encrypted'
      BY DEF Encrypted
    <2> QED BY <2>1, <2>2, <2>3, <2>4 DEF Pending
  <1> QED BY <1>2, <1>3

\* The constants and the kind of the destination.
LEMMA KindOfDestination ==
    ASSUME TypeOK
    PROVE  /\ RbufLen \in Nat /\ StreamLen \in Nat
           /\ Encrypted \in BOOLEAN /\ AddrLen \in Nat
           /\ FirstOverhead \in Nat /\ ChunkOverhead \in Nat
  BY PipeAssumption
  DEF TypeOK, Encrypted, AddrLen, FirstOverhead, ChunkOverhead

\* Encrypting len bytes of buf from off on.
LEMMA NewText ==
    ASSUME TypeOK, tmp = NoText, NEW buf \in Seq(Nat), NEW off \in Nat, NEW len \in Nat,
           off + len <= Len(buf)
    PROVE  LET c == SsPending(buf, off, len)
           IN  /\ c \in Texts
               /\ Len(c.data) = len
               /\ \A k \in 1..len : c.data[k] = buf[off + k]
               /\ Encrypted /\ Plain => c.over = 0
  <1> DEFINE p == SubSeq(buf, off + 1, off + len)
             c == SsPending(buf, off, len)
             o == IF init /\ AddrLen = 0 THEN FirstOverhead ELSE ChunkOverhead
  <1>1. Len(buf) \in Nat
    BY LenProperties
  <1>2. p \in Seq(Nat) /\ Len(p) = len /\ \A k \in 1..len : p[k] = buf[off + k]
    <2>1. CASE len = 0
      BY <1>1, <2>1
    <2>2. CASE len > 0
      BY <1>1, <2>2
    <2> QED BY <2>1, <2>2
  <1>3. c = [over |-> o, data |-> p]
    BY DEF SsPending, Ciphertext
  <1>4. o \in Nat /\ (Encrypted /\ Plain => o = 0)
    BY KindOfDestination DEF Plain
  <1> HIDE DEF p, c, o
  <1>5. c \in Texts /\ c.data = p /\ c.over = o
    BY <1>2, <1>3, <1>4 DEF Texts
  <1>6. /\ c \in Texts
        /\ Len(c.data) = len
        /\ \A k \in 1..len : c.data[k] = buf[off + k]
        /\ Encrypted /\ Plain => c.over = 0
    BY <1>2, <1>4, <1>5
  <1> QED BY <1>6 DEF c

\* A write of new ciphertext whose bytes are those behind base.
LEMMA FreshText ==
    ASSUME out \in Seq(Nat), NEW base \in Nat, Ordered(out, base),
           NEW c \in Texts, Len(c.data) > 0, GoesOn(c.data, 0, base),
           NEW n \in Nat, n <= TextLen(c), toff = 0,
           taken' \in Nat, base + Len(c.data) <= taken',
           out' = out \o DataBetween(c, toff, toff + n), Kept(c, n),
           Encrypted, dst' = dst
    PROVE  /\ out' \in Seq(Nat) /\ Ordered(out', taken') /\ Longer(out', out)
           /\ Pending' /\ tmp' \in Texts /\ toff' \in Nat
           /\ c.over = 0 /\ WholeTo(out, base) => Whole(out') /\ Len(out') = base + n
  <1> DEFINE z == 0
             b == DataIn(c, n)
             t == c.data
  <1>1. c.over \in Nat /\ t \in Seq(Nat) /\ Len(t) \in Nat
    BY LenProperties DEF Texts
  <1>2. /\ DataIn(c, z) = z /\ z \in Nat /\ z <= n /\ toff + n = n
        /\ (c.over = 0 => b = n) /\ GoesOn(t, z, base)
    BY <1>1 DEF DataIn
  <1>3. toff = z
    OBVIOUS
  <1> HIDE DEF z
  <1>4. out' = out \o DataBetween(c, z, n)
    BY <1>2, <1>3
  <1>5. /\ DataIn(c, z) <= b /\ b \in Nat /\ b <= Len(t)
        /\ Grown(out', out, t, DataIn(c, z), b)
    <2>1. /\ DataIn(c, n) \in Nat /\ DataIn(c, z) <= DataIn(c, n) /\ DataIn(c, n) <= Len(c.data)
          /\ Grown(out \o DataBetween(c, z, n), out, c.data, DataIn(c, z), DataIn(c, n))
      BY <1>2, TextAppended
    <2> QED BY <1>4, <2>1
  <1> HIDE DEF b, t
  <1>6. z <= b /\ Grown(out', out, t, z, b) /\ base + (b - z) <= taken'
    BY <1>1, <1>2, <1>5 DEF z, t
  <1>7. Ordered(out', taken') /\ Before(out', t, b) /\ (WholeTo(out, base) => Whole(out'))
    BY <1>1, <1>2, <1>5, <1>6, FreshGrown
  <1>8. out' \in Seq(Nat) /\ Len(out') = Len(out) + (b - z)
    BY <1>6 DEF Grown
  <1>9. Ordered(t, taken')
    <2>1. ASSUME NEW j \in 1..Len(t) PROVE t[j] = base + j
      <3>1. j \in z + 1..Len(t) /\ j - z = j
        BY <1>1 DEF z
      <3>2. t[j] = base + (j - z)
        BY <1>2, <3>1 DEF GoesOn
      <3> QED BY <3>1, <3>2
    <2>2. base + Len(t) <= taken'
      BY DEF t
    <2>3. ASSUME NEW j \in 1..Len(t) PROVE 1 <= t[j] /\ t[j] <= taken'
      <3>1. j \in Nat /\ 1 <= j /\ j <= Len(t) /\ t[j] = base + j
        BY <1>1, <2>1
      <3> QED BY <1>1, <2>2, <3>1
    <2>4. ASSUME NEW i \in 1..Len(t), NEW j \in 1..Len(t), i < j PROVE t[i] < t[j]
      BY <1>1, <2>1, <2>4
    <2> QED BY <2>3, <2>4 DEF Ordered
  <1>10. Pending' /\ tmp' \in Texts /\ toff' \in Nat
    <2>1. toff + n <= TextLen(c) /\ Ordered(c.data, taken')
             /\ Before(out', c.data, DataIn(c, toff + n)) /\ toff \in Nat
      BY <1>2, <1>7, <1>9 DEF b, t
    <2> QED BY <2>1, PendingAfter
  <1>11. c.over = 0 /\ WholeTo(out, base) => Len(out') = base + n
    BY <1>2, <1>8 DEF WholeTo, z
  <1>12. Longer(out', out)
    BY <1>2, <1>5, <1>6, GrownLonger
  <1> QED BY <1>7, <1>8, <1>10, <1>11, <1>12

\* A write of ciphertext that is left from an earlier call.
LEMMA StaleText ==
    ASSUME TypeOK, Ordered(out, taken), Pending, tmp # NoText,
           NEW n \in Nat, toff + n <= TextLen(tmp),
           taken' \in Nat, taken <= taken',
           out' = out \o DataBetween(tmp, toff, toff + n), Kept(tmp, n),
           dst' = dst,
           NEW hi \in Nat, Ordered(out, hi), Ordered(tmp.data, hi)
    PROVE  /\ out' \in Seq(Nat) /\ Ordered(out', taken') /\ Ordered(out', hi)
           /\ Longer(out', out)
           /\ Pending' /\ tmp' \in Texts /\ toff' \in Nat
           /\ tmp.over = 0 => Grown(out', out, tmp.data, toff, toff + n)
  <1> DEFINE k == toff + n
             a == DataIn(tmp, toff)
             b == DataIn(tmp, k)
             t == tmp.data
  <1>1. /\ tmp \in Texts /\ t \in Seq(Nat) /\ tmp.over \in Nat /\ toff \in Nat /\ Len(t) > 0
        /\ Encrypted /\ Before(out, t, a) /\ out \in Seq(Nat)
        /\ taken \in Nat /\ Ordered(t, taken)
    BY DEF TypeOK, Texts, Pending
  <1>2. k \in Nat /\ toff <= k /\ k <= TextLen(tmp)
    BY <1>1
  <1>3. tmp.over = 0 => a = toff /\ b = k
    BY <1>1, <1>2 DEF DataIn
  <1>4. out' = out \o DataBetween(tmp, toff, k)
    OBVIOUS
  <1> HIDE DEF k
  <1>5. /\ a \in Nat /\ b \in Nat /\ a <= b /\ b <= Len(t)
        /\ Grown(out', out, t, a, b)
    BY <1>1, <1>2, <1>4, TextAppended
  <1> HIDE DEF a, b, t
  <1>6. out' \in Seq(Nat)
    BY <1>5 DEF Grown
  <1>7. Ordered(out', taken) /\ Before(out', t, b)
    <2>1. taken <= taken
      BY <1>1
    <2> QED BY <1>1, <1>5, <2>1, GrownOrdered
  <1>8. Ordered(out', hi)
    <2>1. Ordered(t, hi)
      BY DEF t
    <2>2. hi <= hi
      OBVIOUS
    <2> QED BY <1>1, <1>5, <2>1, <2>2, GrownOrdered
  <1>9. Ordered(out', taken') /\ Ordered(t, taken')
    BY <1>1, <1>6, <1>7, OrderedUp
  <1>10. Pending' /\ tmp' \in Texts /\ toff' \in Nat
    BY <1>1, <1>7, <1>9, PendingAfter DEF t, b, k
  <1>11. Longer(out', out)
    BY <1>1, <1>5, GrownLonger
  <1> QED BY <1>3, <1>5, <1>6, <1>8, <1>9, <1>10, <1>11 DEF t, k

\* The part of the invariant about what is written, in the next state.
WriteOk ==
    /\ out' \in Seq(Nat) /\ tmp' \in Texts /\ toff' \in Nat /\ init' \in BOOLEAN
    /\ Longer(out', out)
    /\ Ordered(out', taken')
    /\ Plain' => Whole(out')
    /\ Pending' /\ Rest'
    /\ Plain' => Exact'

\* The rest: TypeOK and Buffers.
BuffersOk ==
    /\ dst' \in Destinations /\ sent' \in 0..StreamLen /\ eof' \in BOOLEAN
    /\ taken' \in 0..sent'
    /\ rbuf' \in Seq(Nat) /\ Len(rbuf') <= RbufLen
    /\ wbuf' \in Nat \cup {NULL} /\ wlen' \in Int
    /\ re' \in BOOLEAN /\ we' \in BOOLEAN
    /\ conn' = "open"
    /\ Buffers'

LEMMA BothOk ==
    ASSUME WriteOk, BuffersOk
    PROVE  PipeInv'
  <1>1. TypeOK'
    BY DEF WriteOk, BuffersOk, TypeOK, Texts
  <1> QED BY <1>1 DEF WriteOk, BuffersOk, PipeInv

\* A step of PipeData that reads the r bytes buf and whose write returns n.
Reading(buf, r, n) ==
    /\ conn = "open" /\ re /\ conn' = conn /\ dst' = dst /\ sent' = sent /\ eof' = eof
    /\ buf \in Seq(Nat) /\ Len(buf) = r /\ GoesOn(buf, 0, taken)
    /\ r \in Nat /\ r > 0 /\ r <= RbufLen /\ r <= sent - taken /\ taken' = taken + r
    /\ n \in Nat /\ n <= WriteMax(buf, 0, r)
    /\ Write(buf, 0, r, n)
    /\ AfterWrite(buf, 0, r, n)

\* With the read event the buffer is empty: what is read is what is written.
LEMMA PipeDataReads ==
    ASSUME PipeInv, PipeData
    PROVE  \E buf, r, n : Reading(buf, r, n)
  <1>1. conn = "open" /\ re /\ rbuf = <<>> /\ wbuf = NULL
    BY DEF PipeInv, PipeData, Buffers
  <1>2. PICK r \in 1..Room :
            /\ r <= sent - taken
            /\ taken' = taken + r
            /\ LET buf == rbuf \o Incoming(r)
                   off == IF wbuf = NULL THEN 0 ELSE wbuf
                   len == Len(buf)
               IN  /\ Encryptable(len)
                   /\ \E n \in 0..WriteMax(buf, off, len) :
                       /\ Write(buf, off, len, n)
                       /\ AfterWrite(buf, off, len, n)
    BY DEF PipeData
  <1> DEFINE buf == rbuf \o Incoming(r)
  <1>3. RbufLen \in Nat /\ taken \in Nat /\ Room = RbufLen
    BY <1>1, PipeAssumption DEF PipeInv, TypeOK, Room
  <1>4. buf \in Seq(Nat) /\ Len(buf) = r /\ GoesOn(buf, 0, taken)
    <2>1. Incoming(r) \in Seq(Nat) /\ Len(Incoming(r)) = r
             /\ \A k \in 1..r : Incoming(r)[k] = taken + k
      BY <1>2, <1>3 DEF Incoming
    <2>2. buf = Incoming(r)
      BY <1>1, <2>1
    <2> QED BY <1>2, <1>3, <2>1, <2>2 DEF GoesOn
  <1> HIDE DEF buf
  <1>5. PICK n \in 0..WriteMax(buf, 0, r) :
            Write(buf, 0, r, n) /\ AfterWrite(buf, 0, r, n)
    BY <1>1, <1>2, <1>4 DEF buf
  <1>6. n \in Nat /\ n <= WriteMax(buf, 0, r)
    BY <1>5
  <1>7. conn' = conn /\ dst' = dst /\ sent' = sent /\ eof' = eof
    BY DEF PipeData, peerVars
  <1>8. r \in Nat /\ r > 0 /\ r <= RbufLen /\ r <= sent - taken /\ taken' = taken + r
    BY <1>2, <1>3
  <1>9. Reading(buf, r, n)
    BY <1>1, <1>4, <1>5, <1>6, <1>7, <1>8 DEF Reading
  <1> QED BY <1>9

\* How tcpPipe leaves the buffers and the events.
LEMMA AfterReading ==
    ASSUME PipeInv, NEW buf, NEW r, NEW n, Reading(buf, r, n)
    PROVE  /\ BuffersOk
           /\ n < r => we' /\ ~re' /\ rbuf' = buf /\ wbuf' = n /\ wlen' = r - n
           /\ n >= r => re' /\ ~we'
  <1>1. n \in Nat /\ r \in Nat
    BY DEF Reading
  <1>2. /\ dst' \in Destinations /\ sent' \in 0..StreamLen /\ eof' \in BOOLEAN
        /\ taken' \in 0..sent' /\ conn' = "open" /\ taken \in Nat /\ taken' = taken + r
    BY DEF Reading, PipeInv, TypeOK
  <1>3. CASE n < r
    <2>1. rbuf' = buf /\ wbuf' = n /\ wlen' = r - n /\ we' = TRUE /\ re' = FALSE
      BY <1>1, <1>3 DEF Reading, AfterWrite
    <2>2. Len(buf) = r /\ buf \in Seq(Nat) /\ r <= RbufLen
      BY DEF Reading
    <2>3. \A i \in 1..Len(buf) : buf[i] = taken' - Len(buf) + i
      BY <1>1, <1>2, <2>2 DEF Reading, GoesOn
    <2>4. /\ rbuf' \in Seq(Nat) /\ Len(rbuf') <= RbufLen
          /\ wbuf' \in Nat /\ wbuf' \in Nat \cup {NULL} /\ wlen' \in Int
          /\ wbuf' + wlen' = Len(rbuf') /\ Len(rbuf') <= taken'
      BY <1>1, <1>2, <2>1, <2>2
    <2>5. we' /\ ~re' /\ re' \in BOOLEAN /\ we' \in BOOLEAN /\ re' # we'
      BY <2>1, Zenon
    <2>6. Buffers'
      BY <2>1, <2>3, <2>4, <2>5, Zenon DEF Buffers
    <2>7. BuffersOk
      BY <1>2, <2>4, <2>5, <2>6, Zenon DEF BuffersOk
    <2> QED BY <1>1, <1>3, <2>1, <2>5, <2>7
  <1>4. CASE n >= r
    <2>1. rbuf' = <<>> /\ wbuf' = NULL /\ wlen' = 0 /\ we' = FALSE /\ re' = TRUE
      BY <1>1, <1>4 DEF Reading, AfterWrite
    <2>2. <<>> \in Seq(Nat) /\ Len(<<>>) = 0 /\ 0 <= RbufLen
      BY PipeAssumption
    <2>3. /\ rbuf' \in Seq(Nat) /\ Len(rbuf') <= RbufLen
          /\ wbuf' \in Nat \cup {NULL} /\ wlen' \in Int /\ Len(rbuf') <= taken'
          /\ \A i \in 1..Len(rbuf') : rbuf'[i] = taken' - Len(rbuf') + i
      BY <1>1, <1>2, <2>1, <2>2
    <2>4. re' /\ ~we' /\ re' \in BOOLEAN /\ we' \in BOOLEAN /\ re' # we'
      BY <2>1, Zenon
    <2>5. Buffers'
      BY <2>1, <2>3, <2>4, Zenon DEF Buffers
    <2>6. BuffersOk
      BY <1>2, <2>3, <2>4, <2>5, Zenon DEF BuffersOk
    <2> QED BY <1>1, <1>4, <2>1, <2>4, <2>6
  <1> QED BY <1>1, <1>3, <1>4

\* What the invariant says when tcpPipe runs.
LEMMA WhenReading ==
    ASSUME PipeInv, NEW buf, NEW r, NEW n, Reading(buf, r, n)
    PROVE  /\ taken \in Nat /\ r \in Nat /\ n \in Nat /\ r > 0 /\ taken' = taken + r
           /\ buf \in Seq(Nat) /\ Len(buf) = r /\ GoesOn(buf, 0, taken)
           /\ out \in Seq(Nat) /\ Ordered(out, taken)
           /\ tmp \in Texts /\ toff \in Nat /\ init \in BOOLEAN
           /\ Pending
           /\ dst' = dst /\ Plain' = Plain /\ Encrypted' = Encrypted
           /\ Plain => tmp = NoText /\ WholeTo(out, taken)
  <1>1. TypeOK /\ Ordered(out, taken) /\ Pending
    BY DEF PipeInv, Reading
  <1>2. taken \in Nat
    BY <1>1 DEF TypeOK
  <1>3. dst' = dst /\ Plain' = Plain /\ Encrypted' = Encrypted
    BY DEF Reading, Plain, Encrypted, ChunkOverhead, AddrLen, FirstOverhead
  <1>4. Plain => tmp = NoText /\ WholeTo(out, taken)
    BY DEF PipeInv, Reading, Exact, WholeTo
  <1>5. /\ r \in Nat /\ n \in Nat /\ r > 0 /\ taken' = taken + r
        /\ buf \in Seq(Nat) /\ Len(buf) = r /\ GoesOn(buf, 0, taken)
    BY DEF Reading
  <1>6. out \in Seq(Nat) /\ tmp \in Texts /\ toff \in Nat /\ init \in BOOLEAN
    BY <1>1 DEF TypeOK, Texts
  <1> QED BY <1>1, <1>2, <1>3, <1>4, <1>5, <1>6

\* tcpPipe with a raw destination.
LEMMA ReadRaw ==
    ASSUME PipeInv, NEW buf, NEW r, NEW n, Reading(buf, r, n), ~Encrypted
    PROVE  WriteOk
  <1> DEFINE z == 0
             hi == taken + n
  <1>1. Plain /\ tmp = NoText /\ toff = 0 /\ WholeTo(out, taken)
    BY WhenReading DEF Plain, Pending
  <1>2. /\ n <= r /\ out' = out \o SubSeq(buf, z + 1, n)
        /\ tmp' = tmp /\ toff' = toff /\ init' = init
    BY WhenReading DEF Reading, Write, RawWrite
  <1>3. /\ taken \in Nat /\ r \in Nat /\ n \in Nat /\ taken' = taken + r
        /\ buf \in Seq(Nat) /\ Len(buf) = r /\ GoesOn(buf, z, taken)
        /\ out \in Seq(Nat) /\ Ordered(out, taken)
    BY WhenReading
  <1>4. /\ z \in Nat /\ z <= n /\ n <= Len(buf) /\ n - z = n
        /\ hi \in Nat /\ hi = taken + n /\ hi <= taken' /\ taken + (n - z) <= hi
    BY <1>2, <1>3
  <1> HIDE DEF z, hi
  <1>5. Grown(out', out, buf, z, n)
    BY <1>2, <1>3, <1>4, AppendPart
  <1>6. Ordered(out', hi) /\ Whole(out')
    BY <1>1, <1>3, <1>4, <1>5, FreshGrown
  <1>7. out' \in Seq(Nat) /\ Len(out') = hi /\ Ordered(out', taken')
    <2>1. out' \in Seq(Nat) /\ Len(out') = Len(out) + (n - z) /\ taken' \in Nat
      BY <1>3, <1>5 DEF Grown
    <2>2. Len(out') = hi
      BY <1>1, <1>3, <1>4, <2>1 DEF WholeTo
    <2> QED BY <1>4, <1>6, <2>1, <2>2, OrderedUp
  <1>8. tmp' = NoText /\ toff' = 0 /\ tmp' \in Texts /\ toff' \in Nat /\ init' \in BOOLEAN
    BY <1>1, <1>2, WhenReading, NoTextIsText
  <1>9. Pending'
    <2>1. Ordered(tmp'.data, taken')
      BY <1>8, NoTextIsText DEF Ordered
    <2>2. Before(out', tmp'.data, DataIn(tmp', toff'))
      BY <1>8, NoTextIsText DEF Before, DataIn
    <2> QED BY <1>8, <2>1, <2>2 DEF Pending
  <1>10. /\ n < r => we' /\ ~re' /\ wlen' = r - n
         /\ n >= r => re' /\ ~we'
    BY AfterReading
  <1>11. /\ we' => wlen' >= 0 /\ wlen' = r - n /\ hi = taken' - wlen'
         /\ re' => hi = taken'
    BY <1>2, <1>3, <1>4, <1>10
  <1>12. Rest'
    BY <1>6, <1>8, <1>11 DEF Rest, Ordered
  <1>13. Exact'
    BY <1>7, <1>8, <1>11, NoTextIsText DEF Exact
  <1>14. Longer(out', out)
    BY <1>3, <1>4, <1>5, GrownLonger
  <1> QED BY <1>6, <1>7, <1>8, <1>9, <1>12, <1>13, <1>14 DEF WriteOk

\* tcpPipe with an encrypted destination and an empty tmp_buf.
LEMMA ReadFresh ==
    ASSUME PipeInv, NEW buf, NEW r, NEW n, Reading(buf, r, n), Encrypted, tmp = NoText
    PROVE  WriteOk
  <1> DEFINE c == SsPending(buf, 0, r)
  <1>1. /\ taken \in Nat /\ r \in Nat /\ n \in Nat /\ r > 0 /\ taken' = taken + r
        /\ buf \in Seq(Nat) /\ Len(buf) = r /\ GoesOn(buf, 0, taken)
        /\ out \in Seq(Nat) /\ Ordered(out, taken) /\ toff = 0
        /\ dst' = dst /\ Plain' = Plain /\ Encrypted' = Encrypted
        /\ Plain => WholeTo(out, taken)
    BY WhenReading DEF Pending
  <1>2. /\ c \in Texts
        /\ Len(c.data) = r
        /\ \A k \in 1..r : c.data[k] = buf[0 + k]
        /\ Plain => c.over = 0
    <2>1. TypeOK /\ 0 \in Nat /\ 0 + r <= Len(buf)
      BY <1>1 DEF PipeInv
    <2>2. buf \in Seq(Nat) /\ r \in Nat
      BY <1>1
    <2>3. LET d == SsPending(buf, 0, r)
          IN  /\ d \in Texts
              /\ Len(d.data) = r
              /\ \A k \in 1..r : d.data[k] = buf[0 + k]
              /\ Encrypted /\ Plain => d.over = 0
      BY <2>1, <2>2, NewText
    <2> QED BY <2>3
  <1>3. /\ n <= TextLen(c) - toff
        /\ out' = out \o DataBetween(c, toff, toff + n)
        /\ IF n = TextLen(c) - toff
           THEN tmp' = NoText /\ toff' = 0
           ELSE tmp' = c /\ toff' = toff + n
        /\ init' = FALSE
    <2>1. SsWrite(buf, 0, r, n)
      BY DEF Reading, Write
    <2>2. TextLen(c) - toff \in Int
      BY <1>1, <1>2 DEF TextLen, Texts
    <2> QED BY <2>1, <2>2 DEF SsWrite
  <1> HIDE DEF c
  <1>4. GoesOn(c.data, 0, taken) /\ \A k \in 1..r : c.data[k] = taken + k
    <2>1. ASSUME NEW k \in 1..r PROVE c.data[k] = taken + k
      <3>1. k \in 0 + 1..Len(buf) /\ 0 + k = k /\ k - 0 = k
        BY <1>1
      <3>2. buf[k] = taken + (k - 0)
        BY <1>1, <3>1 DEF GoesOn
      <3> QED BY <1>2, <3>1, <3>2
    <2>2. ASSUME NEW k \in 0 + 1..Len(c.data) PROVE c.data[k] = taken + (k - 0)
      <3>1. k \in 1..r /\ k - 0 = k
        BY <1>1, <1>2
      <3>2. c.data[k] = taken + k
        BY <2>1, <3>1
      <3> QED BY <3>1, <3>2
    <2> QED BY <2>1, <2>2 DEF GoesOn
  <1>5. TextLen(c) = c.over + r /\ c.over \in Nat
    BY <1>2 DEF TextLen, Texts
  <1>6. taken' \in Nat /\ taken + Len(c.data) <= taken' /\ n <= TextLen(c)
           /\ Len(c.data) > 0 /\ Kept(c, n)
    BY <1>1, <1>2, <1>3, <1>5 DEF Kept
  <1>7. /\ out' \in Seq(Nat) /\ Ordered(out', taken') /\ Longer(out', out)
        /\ Pending' /\ tmp' \in Texts /\ toff' \in Nat
        /\ c.over = 0 /\ WholeTo(out, taken) => Whole(out') /\ Len(out') = taken + n
    BY <1>1, <1>2, <1>3, <1>4, <1>6, FreshText
  <1>8. /\ n < r => we' /\ ~re' /\ wlen' = r - n
        /\ n >= r => re' /\ ~we'
    BY AfterReading
  <1>9. /\ n < r => tmp' = c /\ tmp' # NoText /\ toff' = n
        /\ Plain /\ n >= r => n = r /\ tmp' = NoText
    BY <1>1, <1>2, <1>3, <1>5, NoTextIsText
  <1>10. Rest'
    <2>1. CASE n < r
      <3>1. we' /\ tmp' # NoText /\ TextLen(tmp') - toff' >= wlen'
        BY <1>1, <1>5, <1>8, <1>9, <2>1
      <3> QED BY <1>1, <3>1 DEF Rest
    <2>2. CASE n >= r
      BY <1>8, <2>2 DEF Rest
    <2> QED BY <1>1, <2>1, <2>2
  <1>11. Plain => Exact'
    <2> SUFFICES ASSUME Plain PROVE Exact'
      OBVIOUS
    <2>1. c.over = 0 /\ Len(out') = taken + n
      BY <1>1, <1>2, <1>7
    <2>2. CASE n < r
      <3>1. we' /\ ~re' /\ wlen' = r - n /\ tmp' = c /\ toff' = n
        BY <1>8, <1>9, <2>2
      <3>2. wlen' >= 0 /\ Len(out') = taken' - wlen' /\ TextLen(tmp') - toff' = wlen'
        BY <1>1, <1>5, <2>1, <2>2, <3>1
      <3>3. ASSUME NEW j \in 1..wlen' PROVE tmp'.data[toff' + j] = taken' - wlen' + j
        <4>1. n + j \in 1..r
          BY <1>1, <2>2, <3>1
        <4>2. c.data[n + j] = taken + (n + j)
          BY <1>4, <4>1
        <4> QED BY <1>1, <3>1, <4>1, <4>2
      <3> QED BY <2>1, <3>1, <3>2, <3>3 DEF Exact
    <2>3. CASE n >= r
      <3>1. re' /\ ~we' /\ tmp' = NoText /\ n = r
        BY <1>8, <1>9, <2>3
      <3> QED BY <1>1, <2>1, <3>1, NoTextIsText DEF Exact
    <2> QED BY <1>1, <2>2, <2>3
  <1> QED BY <1>1, <1>2, <1>3, <1>7, <1>10, <1>11 DEF WriteOk

\* tcpPipe with ciphertext from an earlier read still in tmp_buf.
LEMMA ReadStale ==
    ASSUME PipeInv, NEW buf, NEW r, NEW n, Reading(buf, r, n), Encrypted, tmp # NoText
    PROVE  WriteOk
  <1>1. /\ taken \in Nat /\ r \in Nat /\ n \in Nat /\ r > 0 /\ taken' = taken + r
        /\ buf \in Seq(Nat) /\ Len(buf) = r
        /\ out \in Seq(Nat) /\ Ordered(out, taken) /\ toff \in Nat /\ Pending
        /\ dst' = dst /\ Plain' = Plain /\ Encrypted' = Encrypted /\ ~Plain
    BY WhenReading
  <1>2. tmp \in Texts /\ TextLen(tmp) \in Nat
    <2>1. tmp \in Texts
      BY WhenReading
    <2>2. tmp.over \in Nat /\ tmp.data \in Seq(Nat)
      BY <2>1 DEF Texts
    <2> QED BY <2>1, <2>2, LenProperties DEF TextLen
  <1>3. /\ n <= TextLen(tmp) - toff
        /\ out' = out \o DataBetween(tmp, toff, toff + n)
        /\ Kept(tmp, n)
        /\ init' = FALSE
    BY <1>1, <1>2 DEF Reading, Write, SsWrite, SsPending, Kept
  <1>4. /\ toff + n <= TextLen(tmp) /\ taken' \in Nat /\ taken <= taken'
        /\ TypeOK /\ Ordered(tmp.data, taken)
    <2>1. toff + n <= TextLen(tmp)
      BY <1>1, <1>2, <1>3
    <2>2. taken' \in Nat /\ taken <= taken'
      BY <1>1
    <2> QED BY <1>1, <2>1, <2>2 DEF PipeInv, Pending
  <1>5. /\ out' \in Seq(Nat) /\ Ordered(out', taken') /\ Ordered(out', taken)
        /\ Longer(out', out)
        /\ Pending' /\ tmp' \in Texts /\ toff' \in Nat
    BY <1>1, <1>3, <1>4, StaleText
  <1>6. /\ n < r => we' /\ ~re' /\ wlen' = r - n /\ rbuf' = buf
        /\ n >= r => re' /\ ~we'
    BY AfterReading
  <1>7. Rest'
    <2>1. CASE n < r
      <3>1. we' /\ taken' - wlen' = taken + n /\ taken' - Len(rbuf') = taken
        <4>1. we' /\ wlen' = r - n /\ Len(rbuf') = r
          BY <1>1, <1>6, <2>1
        <4> QED BY <1>1, <4>1
      <3>2. \A i \in 1..Len(out') : out'[i] \in Nat /\ out'[i] <= taken
        BY <1>5, ElementOfSeq DEF Ordered
      <3>3. tmp' = NoText => \A i \in 1..Len(out') : out'[i] <= taken' - wlen'
        BY <1>1, <3>1, <3>2
      <3>4. tmp' # NoText => \A j \in 1..Len(tmp'.data) : tmp'.data[j] <= taken
        BY <1>3, <1>4 DEF Kept, Ordered
      <3> QED BY <1>1, <3>1, <3>2, <3>3, <3>4 DEF Rest
    <2>2. CASE n >= r
      BY <1>6, <2>2 DEF Rest
    <2> QED BY <1>1, <2>1, <2>2
  <1> QED BY <1>1, <1>3, <1>5, <1>7 DEF WriteOk

LEMMA PipeDataKeeps ==
    ASSUME PipeInv, PipeData
    PROVE  PipeInv' /\ Longer(out', out)
  <1>1. PICK buf, r, n : Reading(buf, r, n)
    BY PipeDataReads
  <1>2. WriteOk
    BY <1>1, ReadRaw, ReadFresh, ReadStale
  <1>3. BuffersOk
    BY <1>1, AfterReading
  <1> QED BY <1>2, <1>3, BothOk DEF WriteOk

\* A step of PipeWriteMore whose write returns n.
Writing(n) ==
    /\ conn = "open" /\ we /\ wlen # 0 /\ (wlen > 0 \/ tmp # NoText)
    /\ n \in Nat /\ n > 0 /\ n <= WriteMax(rbuf, wbuf, wlen)
    /\ Write(rbuf, wbuf, wlen, n)
    /\ wbuf' = wbuf + n /\ wlen' = wlen - n
    /\ conn' = conn /\ dst' = dst /\ sent' = sent /\ eof' = eof /\ taken' = taken
    /\ rbuf' = rbuf /\ re' = re /\ we' = we

LEMMA PipeWriteMoreWrites ==
    ASSUME TypeOK, PipeWriteMore
    PROVE  \E n : Writing(n)
  <1>1. PICK n \in 1..WriteMax(rbuf, wbuf, wlen) :
            Write(rbuf, wbuf, wlen, n) /\ wbuf' = wbuf + n /\ wlen' = wlen - n
    BY DEF PipeWriteMore
  <1>2. n \in Nat /\ n > 0 /\ n <= WriteMax(rbuf, wbuf, wlen)
    BY <1>1
  <1>3. Writing(n)
    BY <1>1, <1>2 DEF PipeWriteMore, Writing, peerVars
  <1> QED BY <1>3

\* What the invariant says when tcpPipeWrite runs.
LEMMA WhenWriting ==
    ASSUME PipeInv, NEW n, Writing(n)
    PROVE  /\ BuffersOk /\ we' /\ ~re'
           /\ n \in Nat /\ n > 0 /\ wlen \in Int /\ wbuf \in Nat /\ wlen' = wlen - n
           /\ rbuf \in Seq(Nat) /\ wbuf + wlen = Len(rbuf) /\ Len(rbuf) <= taken
           /\ Len(rbuf) \in Nat
           /\ \A i \in 1..Len(rbuf) : rbuf[i] = taken - Len(rbuf) + i
           /\ taken \in Nat /\ taken' = taken /\ rbuf' = rbuf
           /\ out \in Seq(Nat) /\ Ordered(out, taken)
           /\ tmp \in Texts /\ toff \in Nat /\ init \in BOOLEAN
           /\ Pending
           /\ dst' = dst /\ Plain' = Plain /\ Encrypted' = Encrypted
           /\ Plain => Whole(out)
  <1>1. TypeOK /\ Ordered(out, taken) /\ Pending /\ Buffers /\ (Plain => Whole(out))
    BY DEF PipeInv, Writing
  <1>2. dst' = dst /\ Plain' = Plain /\ Encrypted' = Encrypted
    BY DEF Writing, Plain, Encrypted, ChunkOverhead, AddrLen, FirstOverhead
  <1>3. we /\ ~re /\ we' /\ ~re' /\ we' \in BOOLEAN /\ re' \in BOOLEAN /\ re' # we'
    <2>1. we /\ we' = we /\ re' = re
      BY DEF Writing
    <2>2. re # we /\ re \in BOOLEAN /\ we \in BOOLEAN
      BY <1>1 DEF Buffers, TypeOK
    <2> QED BY <2>1, <2>2, Zenon
  <1>4. /\ wbuf \in Nat /\ rbuf \in Seq(Nat) /\ wbuf + wlen = Len(rbuf) /\ Len(rbuf) <= taken
        /\ \A i \in 1..Len(rbuf) : rbuf[i] = taken - Len(rbuf) + i
        /\ Len(rbuf) <= RbufLen /\ wlen \in Int /\ taken \in Nat /\ Len(rbuf) \in Nat
    BY <1>1, <1>3, LenProperties DEF Buffers, TypeOK
  <1>5. /\ n \in Nat /\ n > 0 /\ wbuf' = wbuf + n /\ wlen' = wlen - n
        /\ conn' = "open" /\ dst' = dst /\ sent' = sent /\ eof' = eof /\ taken' = taken
        /\ rbuf' = rbuf
    BY DEF Writing
  <1>6. /\ rbuf' \in Seq(Nat) /\ Len(rbuf') <= RbufLen
        /\ wbuf' \in Nat /\ wbuf' \in Nat \cup {NULL} /\ wlen' \in Int
        /\ wbuf' + wlen' = Len(rbuf') /\ Len(rbuf') <= taken'
        /\ \A i \in 1..Len(rbuf') : rbuf'[i] = taken' - Len(rbuf') + i
    BY <1>4, <1>5
  <1>7. Buffers'
    BY <1>3, <1>6, Zenon DEF Buffers
  <1>8. /\ dst' \in Destinations /\ sent' \in 0..StreamLen /\ eof' \in BOOLEAN
        /\ taken' \in 0..sent'
    BY <1>1, <1>5 DEF TypeOK
  <1>9. BuffersOk
    BY <1>3, <1>5, <1>6, <1>7, <1>8, Zenon DEF BuffersOk
  <1>10. out \in Seq(Nat) /\ tmp \in Texts /\ toff \in Nat /\ init \in BOOLEAN
    BY <1>1 DEF TypeOK, Texts
  <1> QED BY <1>1, <1>2, <1>3, <1>4, <1>5, <1>9, <1>10

\* What is left of rbuf goes on behind base, and `out' ends there.
LEMMA RestOfBuffer ==
    ASSUME PipeInv, NEW n, Writing(n), tmp = NoText,
           NEW base, base = taken - wlen
    PROVE  /\ wlen > 0 /\ base \in Nat
           /\ GoesOn(rbuf, wbuf, base) /\ Ordered(out, base)
           /\ Plain => WholeTo(out, base)
  <1>1. /\ wlen \in Int /\ wbuf \in Nat /\ wbuf + wlen = Len(rbuf) /\ Len(rbuf) <= taken
        /\ Len(rbuf) \in Nat /\ taken \in Nat
        /\ \A i \in 1..Len(rbuf) : rbuf[i] = taken - Len(rbuf) + i
        /\ Ordered(out, taken) /\ (Plain => Whole(out))
    BY WhenWriting
  <1>2. wlen > 0
    BY DEF Writing
  <1>3. base \in Nat
    BY <1>1, <1>2
  <1>4. GoesOn(rbuf, wbuf, base)
    <2>1. ASSUME NEW k \in wbuf + 1..Len(rbuf) PROVE rbuf[k] = base + (k - wbuf)
      <3>1. k \in 1..Len(rbuf)
        BY <1>1
      <3>2. rbuf[k] = taken - Len(rbuf) + k
        BY <1>1, <3>1
      <3>3. /\ taken \in Int /\ wbuf \in Int /\ wlen \in Int /\ k \in Int
            /\ Len(rbuf) = wbuf + wlen /\ base = taken - wlen
        BY <1>1
      <3>4. taken - Len(rbuf) + k = base + (k - wbuf)
        BY <3>3
      <3> QED BY <3>2, <3>4
    <2> QED BY <2>1 DEF GoesOn
  <1>5. \A i \in 1..Len(out) : out[i] <= base
    BY DEF PipeInv, Rest, Writing
  <1>6. Ordered(out, base)
    BY <1>1, <1>5 DEF Ordered
  <1>7. Plain => Len(out) = base
    BY DEF PipeInv, Exact, Writing
  <1> QED BY <1>1, <1>2, <1>3, <1>4, <1>6, <1>7 DEF WholeTo

\* tcpPipeWrite with a raw destination.
LEMMA WriteRaw ==
    ASSUME PipeInv, NEW n, Writing(n), ~Encrypted
    PROVE  WriteOk
  <1> DEFINE base == taken - wlen
             b == wbuf + n
             hi == base + n
  <1>1. Plain /\ tmp = NoText /\ toff = 0
    BY WhenWriting DEF Plain, Pending
  <1>2. /\ n <= wlen /\ out' = out \o SubSeq(rbuf, wbuf + 1, b)
        /\ tmp' = tmp /\ toff' = toff /\ init' = init
    BY DEF Writing, WriteMax, Write, RawWrite
  <1>3. /\ wlen > 0 /\ base \in Nat
        /\ GoesOn(rbuf, wbuf, base) /\ Ordered(out, base) /\ WholeTo(out, base)
    BY <1>1, RestOfBuffer
  <1>4. /\ taken \in Nat /\ n \in Nat /\ taken' = taken /\ wbuf \in Nat /\ wlen \in Int
        /\ rbuf \in Seq(Nat) /\ wbuf + wlen = Len(rbuf) /\ out \in Seq(Nat)
        /\ wlen' = wlen - n /\ we' /\ ~re'
    BY WhenWriting
  <1>5. /\ b \in Nat /\ wbuf <= b /\ b <= Len(rbuf) /\ b - wbuf = n
        /\ hi \in Nat /\ base + (b - wbuf) <= hi /\ hi <= taken'
        /\ hi = taken' - wlen' /\ wlen' >= 0
    BY <1>2, <1>3, <1>4
  <1>6. hi = base + n
    OBVIOUS
  <1> HIDE DEF base, b, hi
  <1>7. Grown(out', out, rbuf, wbuf, b)
    BY <1>2, <1>4, <1>5, AppendPart
  <1>8. Ordered(out', hi) /\ Whole(out')
    BY <1>3, <1>4, <1>5, <1>7, FreshGrown
  <1>9. out' \in Seq(Nat) /\ Len(out') = hi
    BY <1>3, <1>5, <1>6, <1>7 DEF Grown, WholeTo
  <1>10. Ordered(out', taken')
    BY <1>4, <1>5, <1>8, <1>9, OrderedUp
  <1>11. tmp' = NoText /\ toff' = 0 /\ tmp' \in Texts /\ toff' \in Nat /\ init' \in BOOLEAN
    BY <1>1, <1>2, WhenWriting, NoTextIsText
  <1>12. Pending'
    <2>1. Ordered(tmp'.data, taken')
      BY <1>11, NoTextIsText DEF Ordered
    <2>2. Before(out', tmp'.data, DataIn(tmp', toff'))
      BY <1>11, NoTextIsText DEF Before, DataIn
    <2> QED BY <1>11, <2>1, <2>2 DEF Pending
  <1>13. Rest'
    BY <1>5, <1>8, <1>11 DEF Rest, Ordered
  <1>14. Exact'
    BY <1>4, <1>5, <1>9, <1>11, NoTextIsText DEF Exact
  <1>15. Longer(out', out)
    BY <1>4, <1>5, <1>7, GrownLonger
  <1> QED BY <1>8, <1>9, <1>10, <1>11, <1>12, <1>13, <1>14, <1>15 DEF WriteOk

\* tcpPipeWrite with an encrypted destination and an empty tmp_buf.
LEMMA WriteFresh ==
    ASSUME PipeInv, NEW n, Writing(n), Encrypted, tmp = NoText
    PROVE  WriteOk
  <1> DEFINE base == taken - wlen
             c == SsPending(rbuf, wbuf, wlen)
  <1>1. /\ taken \in Nat /\ n \in Nat /\ taken' = taken /\ wbuf \in Nat /\ wlen \in Int
        /\ rbuf \in Seq(Nat) /\ wbuf + wlen = Len(rbuf) /\ out \in Seq(Nat)
        /\ wlen' = wlen - n /\ we' /\ ~re'
        /\ dst' = dst /\ Plain' = Plain /\ Encrypted' = Encrypted /\ toff = 0
    BY WhenWriting DEF Pending
  <1>2. /\ wlen > 0 /\ base \in Nat
        /\ GoesOn(rbuf, wbuf, base) /\ Ordered(out, base) /\ (Plain => WholeTo(out, base))
    BY RestOfBuffer
  <1>3. /\ c \in Texts
        /\ Len(c.data) = wlen
        /\ \A k \in 1..wlen : c.data[k] = rbuf[wbuf + k]
        /\ Plain => c.over = 0
    <2>1. TypeOK /\ wlen \in Nat /\ wbuf + wlen <= Len(rbuf)
      BY <1>1, <1>2 DEF PipeInv
    <2>2. rbuf \in Seq(Nat) /\ wbuf \in Nat
      BY <1>1
    <2>3. LET d == SsPending(rbuf, wbuf, wlen)
          IN  /\ d \in Texts
              /\ Len(d.data) = wlen
              /\ \A k \in 1..wlen : d.data[k] = rbuf[wbuf + k]
              /\ Encrypted /\ Plain => d.over = 0
      BY <2>1, <2>2, NewText
    <2> QED BY <2>3
  <1>4. /\ n <= TextLen(c) - toff
        /\ out' = out \o DataBetween(c, toff, toff + n)
        /\ IF n = TextLen(c) - toff
           THEN tmp' = NoText /\ toff' = 0
           ELSE tmp' = c /\ toff' = toff + n
        /\ init' = FALSE
    BY <1>1, <1>3 DEF Writing, Write, WriteMax, SsWrite
  <1>5. base + wlen = taken' /\ base = taken - wlen
    BY <1>1
  <1> HIDE DEF c, base
  <1>6. GoesOn(c.data, 0, base) /\ \A k \in 1..wlen : c.data[k] = base + k
    <2>1. ASSUME NEW k \in 1..wlen PROVE c.data[k] = base + k
      <3>1. wbuf + k \in wbuf + 1..Len(rbuf) /\ (wbuf + k) - wbuf = k
        BY <1>1
      <3>2. rbuf[wbuf + k] = base + ((wbuf + k) - wbuf)
        BY <1>2, <3>1 DEF GoesOn
      <3> QED BY <1>3, <3>1, <3>2
    <2>2. ASSUME NEW k \in 0 + 1..Len(c.data) PROVE c.data[k] = base + (k - 0)
      <3>1. k \in 1..wlen /\ k - 0 = k
        BY <1>1, <1>3
      <3>2. c.data[k] = base + k
        BY <2>1, <3>1
      <3> QED BY <3>1, <3>2
    <2> QED BY <2>1, <2>2 DEF GoesOn
  <1>7. TextLen(c) = c.over + wlen /\ c.over \in Nat
    BY <1>3 DEF TextLen, Texts
  <1>8. taken' \in Nat /\ base + Len(c.data) <= taken' /\ n <= TextLen(c)
           /\ Len(c.data) > 0 /\ Kept(c, n)
    <2>1. taken' \in Nat /\ base + Len(c.data) <= taken' /\ Len(c.data) > 0
      BY <1>1, <1>2, <1>3, <1>5
    <2>2. n <= TextLen(c)
      BY <1>1, <1>4, <1>7
    <2> QED BY <1>4, <2>1, <2>2 DEF Kept
  <1>9. /\ out' \in Seq(Nat) /\ Ordered(out', taken') /\ Longer(out', out)
        /\ Pending' /\ tmp' \in Texts /\ toff' \in Nat
        /\ c.over = 0 /\ WholeTo(out, base) => Whole(out') /\ Len(out') = base + n
    BY <1>1, <1>2, <1>3, <1>4, <1>6, <1>8, FreshText
  <1>10. CASE n = TextLen(c)
    <2>1. tmp' = NoText /\ wlen' <= 0 /\ (Plain => wlen' = 0)
      <3>1. n = TextLen(c) - toff
        BY <1>1, <1>10
      <3>2. tmp' = NoText
        BY <1>4, <3>1
      <3>3. n = c.over + wlen /\ c.over \in Nat /\ wlen \in Int /\ wlen' = wlen - n
        BY <1>1, <1>7, <1>10
      <3>4. wlen' <= 0 /\ (c.over = 0 => wlen' = 0)
        BY <3>3
      <3> QED BY <1>3, <3>2, <3>4
    <2>2. \A i \in 1..Len(out') : out'[i] <= taken' - wlen'
      <3> TAKE i \in 1..Len(out')
      <3>1. out'[i] \in Nat /\ out'[i] <= taken'
        BY <1>9, ElementOfSeq DEF Ordered
      <3> QED BY <1>1, <2>1, <3>1
    <2>3. Rest'
      BY <1>1, <2>1, <2>2 DEF Rest
    <2>4. Plain => Exact'
      <3> SUFFICES ASSUME Plain PROVE Exact'
        OBVIOUS
      <3>1. Len(out') = taken' - wlen'
        <4>1. Len(out') = base + n
          BY <1>2, <1>3, <1>9
        <4> QED BY <1>1, <1>2, <1>5, <4>1
      <3> QED BY <1>1, <2>1, <3>1, NoTextIsText DEF Exact
    <2> QED BY <1>1, <1>2, <1>3, <1>4, <1>9, <2>3, <2>4 DEF WriteOk
  <1>11. CASE n # TextLen(c)
    <2>1. tmp' = c /\ tmp' # NoText /\ toff' = n
      <3>1. n # TextLen(c) - toff /\ toff + n = n
        BY <1>1, <1>7, <1>11
      <3>2. c # NoText
        BY <1>2, <1>3, NoTextIsText
      <3> QED BY <1>4, <3>1, <3>2
    <2>2. TextLen(tmp') - toff' >= wlen' /\ (Plain => TextLen(tmp') - toff' = wlen' /\ wlen' >= 0)
      <3>1. /\ TextLen(tmp') = c.over + wlen /\ c.over \in Nat /\ wlen \in Int /\ n \in Int
            /\ wlen' = wlen - n /\ toff' = n /\ n <= c.over + wlen
        BY <1>1, <1>7, <1>8, <2>1
      <3> QED BY <1>3, <3>1
    <2>3. Rest'
      BY <1>1, <2>1, <2>2 DEF Rest
    <2>4. Plain => Exact'
      <3> SUFFICES ASSUME Plain PROVE Exact'
        OBVIOUS
      <3>1. Len(out') = taken' - wlen' /\ c.over = 0
        <4>1. Len(out') = base + n /\ c.over = 0
          BY <1>2, <1>3, <1>9
        <4> QED BY <1>1, <1>2, <1>5, <4>1
      <3>2. ASSUME NEW j \in 1..wlen' PROVE tmp'.data[toff' + j] = taken' - wlen' + j
        <4>1. n + j \in 1..wlen
          BY <1>1, <1>2
        <4>2. c.data[n + j] = base + (n + j)
          BY <1>6, <4>1
        <4> QED BY <1>1, <1>2, <1>5, <2>1, <4>1, <4>2
      <3> QED BY <1>1, <2>1, <2>2, <3>1, <3>2 DEF Exact
    <2> QED BY <1>1, <1>2, <1>3, <1>4, <1>9, <2>3, <2>4 DEF WriteOk
  <1> QED BY <1>10, <1>11

\* tcpPipeWrite with ciphertext in tmp_buf.
LEMMA WriteStale ==
    ASSUME PipeInv, NEW n, Writing(n), Encrypted, tmp # NoText
    PROVE  WriteOk
  <1>1. /\ taken \in Nat /\ n \in Nat /\ n > 0 /\ taken' = taken /\ wbuf \in Nat /\ wlen \in Int
        /\ rbuf \in Seq(Nat) /\ wbuf + wlen = Len(rbuf) /\ out \in Seq(Nat)
        /\ Len(rbuf) \in Nat /\ Len(rbuf) <= taken
        /\ wlen' = wlen - n /\ we' /\ ~re' /\ rbuf' = rbuf
        /\ dst' = dst /\ Plain' = Plain /\ Encrypted' = Encrypted
        /\ toff \in Nat /\ tmp \in Texts /\ Pending /\ Ordered(out, taken)
    BY WhenWriting
  <1>2. tmp.over \in Nat /\ Len(tmp.data) \in Nat /\ TextLen(tmp) \in Nat
           /\ TextLen(tmp) = tmp.over + Len(tmp.data)
    <2>1. tmp.over \in Nat /\ tmp.data \in Seq(Nat)
      BY <1>1 DEF Texts
    <2> QED BY <2>1, LenProperties DEF TextLen
  <1>3. /\ n <= TextLen(tmp) - toff
        /\ out' = out \o DataBetween(tmp, toff, toff + n)
        /\ Kept(tmp, n)
        /\ init' = FALSE
    BY <1>1, <1>2 DEF Writing, Write, WriteMax, SsWrite, SsPending, Kept
  <1>4. /\ toff + n <= TextLen(tmp) /\ taken' \in Nat /\ taken <= taken'
        /\ TypeOK /\ Ordered(tmp.data, taken)
    <2>1. toff + n <= TextLen(tmp)
      BY <1>1, <1>2, <1>3
    <2>2. taken' \in Nat /\ taken <= taken'
      BY <1>1
    <2> QED BY <1>1, <2>1, <2>2 DEF PipeInv, Pending
  <1>5. /\ out' \in Seq(Nat) /\ Ordered(out', taken') /\ Longer(out', out)
        /\ Pending' /\ tmp' \in Texts /\ toff' \in Nat
        /\ tmp.over = 0 => Grown(out', out, tmp.data, toff, toff + n)
    BY <1>1, <1>3, <1>4, StaleText
  <1>6. /\ n = TextLen(tmp) - toff => tmp' = NoText
        /\ n # TextLen(tmp) - toff => tmp' = tmp /\ toff' = toff + n
    BY <1>3 DEF Kept
  <1>7. Rest'
    <2>1. CASE TextLen(tmp) - toff >= wlen
      <3>1. tmp' = NoText => \A i \in 1..Len(out') : out'[i] <= taken' - wlen'
        <4> SUFFICES ASSUME tmp' = NoText, NEW i \in 1..Len(out') PROVE out'[i] <= taken' - wlen'
          OBVIOUS
        <4>1. n = TextLen(tmp) - toff
          BY <1>6
        <4>2. out'[i] \in Nat /\ out'[i] <= taken'
          BY <1>5, ElementOfSeq DEF Ordered
        <4>3. wlen' \in Int /\ wlen' <= 0
          <5>1. n >= wlen
            BY <2>1, <4>1
          <5>2. n \in Int /\ wlen \in Int /\ wlen' = wlen - n
            BY <1>1
          <5> QED BY <5>1, <5>2
        <4> QED BY <1>1, <4>2, <4>3
      <3>2. tmp' # NoText => TextLen(tmp') - toff' >= wlen'
        BY <1>1, <1>2, <1>6, <2>1
      <3> QED BY <1>1, <3>1, <3>2 DEF Rest
    <2>2. CASE ~(TextLen(tmp) - toff >= wlen)
      <3> DEFINE hi == taken - Len(rbuf)
      <3>1. hi \in Nat /\ hi = taken' - Len(rbuf') /\ hi <= taken' - wlen'
        BY <1>1
      <3>2. /\ \A i \in 1..Len(out) : out[i] <= hi
            /\ \A j \in 1..Len(tmp.data) : tmp.data[j] <= hi
        BY <2>2 DEF PipeInv, Rest, Writing
      <3> HIDE DEF hi
      <3>3. Ordered(out, hi) /\ Ordered(tmp.data, hi)
        BY <1>1, <1>4, <3>2 DEF Ordered
      <3>4. Ordered(out', hi)
        BY <1>1, <1>3, <1>4, <3>1, <3>3, StaleText
      <3>5. ASSUME NEW i \in 1..Len(out') PROVE out'[i] <= hi /\ out'[i] <= taken' - wlen'
        <4>1. out'[i] \in Nat /\ out'[i] <= hi
          BY <1>5, <3>4, ElementOfSeq DEF Ordered
        <4> QED BY <1>1, <3>1, <4>1
      <3>6. tmp' # NoText => \A j \in 1..Len(tmp'.data) : tmp'.data[j] <= hi
        BY <1>6, <3>2
      <3> QED BY <1>1, <3>1, <3>5, <3>6 DEF Rest
    <2> QED BY <2>1, <2>2
  <1>8. ASSUME Plain PROVE Exact' /\ Whole(out')
    <2>1. /\ tmp.over = 0 /\ wlen >= 0 /\ Len(out) = taken - wlen
          /\ TextLen(tmp) - toff = wlen
          /\ \A j \in 1..wlen : tmp.data[toff + j] = taken - wlen + j
          /\ Whole(out)
      BY <1>8 DEF PipeInv, Exact, Writing
    <2>2. Grown(out', out, tmp.data, toff, toff + n)
      BY <1>5, <2>1
    <2>3. n <= wlen /\ wlen' >= 0 /\ Len(out') = taken' - wlen'
      <3>1. Len(out') = Len(out) + ((toff + n) - toff)
        BY <2>2 DEF Grown
      <3>2. n <= wlen
        BY <1>3, <2>1
      <3>3. /\ n \in Int /\ wlen \in Int /\ toff \in Int /\ taken \in Int
            /\ wlen' = wlen - n /\ taken' = taken /\ Len(out) = taken - wlen
        BY <1>1, <2>1
      <3> QED BY <3>1, <3>2, <3>3
    <2>4. ASSUME NEW i \in 1..Len(out') PROVE out'[i] = i
      <3>1. CASE i <= Len(out)
        <4>1. i \in 1..Len(out)
          BY <1>1, <3>1, LenProperties
        <4> QED BY <2>1, <2>2, <4>1 DEF Grown, Whole
      <3>2. CASE i > Len(out)
        <4> DEFINE j == i - Len(out)
        <4>1. i \in Len(out) + 1..Len(out') /\ j \in 1..wlen /\ Len(out) + j = i
          BY <1>1, <2>1, <2>3, <3>2, LenProperties
        <4>2. out'[i] = tmp.data[toff + j]
          BY <2>2, <4>1 DEF Grown
        <4> QED BY <1>1, <2>1, <4>1, <4>2
      <3> QED BY <1>1, <3>1, <3>2, LenProperties
    <2>5. CASE n = TextLen(tmp) - toff
      BY <1>1, <1>6, <2>1, <2>3, <2>4, <2>5, NoTextIsText DEF Exact, Whole
    <2>6. CASE n # TextLen(tmp) - toff
      <3>1. tmp' = tmp /\ toff' = toff + n /\ TextLen(tmp') - toff' = wlen'
        BY <1>1, <1>2, <1>6, <2>1, <2>6
      <3>2. ASSUME NEW j \in 1..wlen' PROVE tmp'.data[toff' + j] = taken' - wlen' + j
        <4>1. n + j \in 1..wlen /\ toff' + j = toff + (n + j)
          BY <1>1, <2>3, <3>1
        <4>2. tmp.data[toff + (n + j)] = taken - wlen + (n + j)
          BY <2>1, <4>1
        <4> QED BY <1>1, <3>1, <4>1, <4>2
      <3> QED BY <1>1, <2>1, <2>3, <2>4, <3>1, <3>2 DEF Exact, Whole
    <2> QED BY <2>5, <2>6
  <1> QED BY <1>1, <1>3, <1>5, <1>7, <1>8 DEF WriteOk

LEMMA PipeWriteMoreKeeps ==
    ASSUME PipeInv, PipeWriteMore
    PROVE  PipeInv' /\ Longer(out', out)
  <1>1. PICK n : Writing(n)
    BY PipeWriteMoreWrites DEF PipeInv
  <1>2. WriteOk
    BY <1>1, WriteRaw, WriteFresh, WriteStale
  <1>3. BuffersOk
    BY <1>1, WhenWriting
  <1> QED BY <1>2, <1>3, BothOk DEF WriteOk

\* "Write done": everything that was in the buffer is out.
LEMMA PipeWriteDoneKeeps ==
    ASSUME PipeInv, PipeWriteDone
    PROVE  PipeInv'
  <1>1. /\ conn = "open" /\ we /\ wlen = 0
        /\ rbuf' = <<>> /\ wbuf' = NULL /\ wlen' = 0 /\ re' = TRUE /\ we' = FALSE
        /\ dst' = dst /\ sent' = sent /\ eof' = eof /\ taken' = taken /\ tmp' = tmp
        /\ toff' = toff /\ init' = init /\ out' = out /\ conn' = conn
    BY DEF PipeWriteDone, peerVars
  <1>2. TypeOK /\ Ordered(out, taken) /\ Pending /\ (Plain => Whole(out) /\ Exact)
    BY <1>1 DEF PipeInv
  <1>3. Plain' = Plain /\ Encrypted' = Encrypted
    BY <1>1 DEF Plain, Encrypted, ChunkOverhead, AddrLen, FirstOverhead
  <1>4. re' /\ ~we' /\ re' \in BOOLEAN /\ we' \in BOOLEAN /\ re' # we'
    BY <1>1, Zenon
  <1>5. taken \in Nat /\ toff \in Nat /\ tmp \in Texts /\ out \in Seq(Nat)
    BY <1>2 DEF TypeOK, Texts
  <1>6. /\ rbuf' \in Seq(Nat) /\ Len(rbuf') <= RbufLen
        /\ wbuf' \in Nat \cup {NULL} /\ wlen' \in Int /\ Len(rbuf') <= taken'
        /\ \A i \in 1..Len(rbuf') : rbuf'[i] = taken' - Len(rbuf') + i
    BY <1>1, <1>5, PipeAssumption
  <1>7. Buffers'
    BY <1>1, <1>4, <1>6, Zenon DEF Buffers
  <1>8. /\ dst' \in Destinations /\ sent' \in 0..StreamLen /\ eof' \in BOOLEAN
        /\ taken' \in 0..sent' /\ init' \in BOOLEAN
    BY <1>1, <1>2 DEF TypeOK
  <1>9. BuffersOk
    BY <1>1, <1>4, <1>6, <1>7, <1>8, Zenon DEF BuffersOk
  <1>10. Pending'
    BY <1>1, <1>2, <1>3 DEF Pending
  <1>11. Rest'
    BY <1>4 DEF Rest
  <1>12. Plain => Exact'
    <2> SUFFICES ASSUME Plain PROVE Exact'
      OBVIOUS
    <2>1. tmp.over = 0 /\ Len(out) = taken /\ (tmp # NoText => TextLen(tmp) - toff = 0)
      BY <1>1, <1>2, <1>5 DEF Exact
    <2>2. tmp = NoText
      <3>1. tmp.over \in Nat /\ tmp.data \in Seq(Nat)
        BY <1>5 DEF Texts
      <3>2. TextLen(tmp) \in Nat
        BY <3>1, LenProperties DEF TextLen
      <3> QED BY <1>2, <1>5, <2>1, <3>2 DEF Pending
    <2> QED BY <1>1, <1>4, <2>1, <2>2 DEF Exact
  <1>13. Longer(out', out)
    BY <1>1, <1>5, LenProperties DEF Longer
  <1>14. WriteOk
    BY <1>1, <1>2, <1>3, <1>5, <1>8, <1>10, <1>11, <1>12, <1>13 DEF WriteOk
  <1> QED BY <1>9, <1>14, BothOk

\* The source peer changes nothing of the pipe's own state.
LEMMA PeerKeeps ==
    ASSUME PipeInv, PeerSend \/ PeerClose
    PROVE  PipeInv'
  <1>1. /\ dst' = dst /\ taken' = taken /\ rbuf' = rbuf /\ wbuf' = wbuf /\ wlen' = wlen
        /\ tmp' = tmp /\ toff' = toff /\ init' = init /\ out' = out /\ re' = re /\ we' = we
        /\ conn' = conn
    BY DEF PeerSend, PeerClose, bufVars
  <1>2. sent' \in 0..StreamLen /\ eof' \in BOOLEAN /\ taken \in 0..sent'
    <2>1. StreamLen \in Nat /\ sent \in 0..StreamLen /\ taken \in 0..sent /\ eof \in BOOLEAN
      BY PipeAssumption DEF PipeInv, TypeOK
    <2>2. CASE PeerSend
      BY <2>1, <2>2 DEF PeerSend
    <2>3. CASE PeerClose
      BY <2>1, <2>3 DEF PeerClose
    <2> QED BY <2>2, <2>3
  <1>3. TypeOK'
    BY <1>1, <1>2 DEF PipeInv, TypeOK
  <1>4. Plain' = Plain /\ Encrypted' = Encrypted
    BY <1>1 DEF Plain, Encrypted, ChunkOverhead, AddrLen, FirstOverhead
  <1>5. /\ Buffers' = Buffers
        /\ Pending' = Pending
        /\ Rest' = Rest
        /\ Exact' = Exact
    BY <1>1, <1>4 DEF Buffers, Pending, Rest, Exact
  <1> QED BY <1>1, <1>3, <1>4, <1>5 DEF PipeInv

\* A step that ends the pair, whatever it had read, and writes nothing.
LEMMA EndKeeps ==
    ASSUME PipeInv, PipeAssert \/ PipeEof \/ PipeShortHeader \/ PipeWriteNegative \/ Cut
    PROVE  PipeInv'
  <1>1. /\ dst' = dst /\ sent' = sent /\ eof' = eof /\ rbuf' = rbuf /\ wbuf' = wbuf
        /\ wlen' = wlen /\ tmp' = tmp /\ toff' = toff /\ init' = init /\ out' = out
        /\ conn' \in Ends /\ re' = FALSE /\ we' = FALSE
    BY DEF PipeAssert, PipeEof, PipeShortHeader, PipeWriteNegative, Cut, Close, peerVars, Ends
  <1>2. taken \in Nat /\ taken' \in 0..sent /\ taken <= taken'
    <2>1. taken \in 0..sent /\ sent \in Nat
      BY DEF PipeInv, TypeOK
    <2>2. CASE PipeShortHeader
      <3>1. PICK r \in 1..Room : r <= sent - taken /\ taken' = taken + r
        BY <2>2 DEF PipeShortHeader
      <3>2. r \in Nat
        BY <3>1
      <3> QED BY <2>1, <3>1, <3>2
    <2>3. CASE PipeAssert \/ PipeEof \/ PipeWriteNegative \/ Cut
      <3>1. taken' = taken
        BY <2>3 DEF PipeAssert, PipeEof, PipeWriteNegative, Cut
      <3> QED BY <2>1, <3>1
    <2> QED BY <2>2, <2>3
  <1>3. TypeOK'
    BY <1>1, <1>2 DEF PipeInv, TypeOK
  <1>4. Plain' = Plain
    BY <1>1 DEF Plain, Encrypted, ChunkOverhead, AddrLen, FirstOverhead
  <1>5. conn' # "open"
    BY <1>1 DEF Ends
  <1>6. out \in Seq(Nat) /\ taken' \in Nat /\ Ordered(out, taken)
    BY <1>2 DEF PipeInv, TypeOK
  <1>7. Ordered(out, taken')
    BY <1>2, <1>6, OrderedUp
  <1> QED BY <1>1, <1>3, <1>4, <1>5, <1>7 DEF PipeInv

LEMMA InitPipeInv ==
    ASSUME Init
    PROVE  PipeInv
  <1>1. TypeOK
    <2>1. <<>> \in Seq(Nat) /\ Len(<<>>) = 0 /\ RbufLen \in Nat /\ StreamLen \in Nat
      BY PipeAssumption
    <2>2. tmp \in [over : Nat, data : Seq(Nat)]
      BY NoTextIsText DEF Init, Texts
    <2>3. /\ eof \in BOOLEAN /\ init \in BOOLEAN /\ re \in BOOLEAN /\ we \in BOOLEAN
          /\ dst \in Destinations /\ conn \in {"open"} \cup Ends
      BY Zenon DEF Init
    <2>4. /\ sent \in 0..StreamLen /\ taken \in 0..sent /\ wlen \in Int /\ toff \in Nat
          /\ wbuf \in Nat \cup {NULL}
          /\ rbuf \in Seq(Nat) /\ Len(rbuf) <= RbufLen /\ out \in Seq(Nat)
      BY <2>1 DEF Init
    <2> QED BY <2>2, <2>3, <2>4, Zenon DEF TypeOK
  <1>2. Ordered(out, taken) /\ Whole(out) /\ Ordered(NoText.data, taken)
           /\ Before(out, tmp.data, DataIn(tmp, toff))
    BY NoTextIsText DEF Init, Ordered, Whole, Before
  <1>3. Buffers
    <2>1. re # we /\ ~we
      BY Zenon DEF Init
    <2>2. rbuf = <<>> /\ wbuf = NULL /\ wlen = 0 /\ Len(rbuf) <= taken
             /\ \A i \in 1..Len(rbuf) : rbuf[i] = taken - Len(rbuf) + i
      BY DEF Init
    <2> QED BY <2>1, <2>2, Zenon DEF Buffers
  <1>4. Pending
    BY <1>2 DEF Init, Pending
  <1>5. Rest
    BY DEF Init, Rest
  <1>6. Exact
    BY NoTextIsText DEF Init, Exact
  <1> QED BY <1>1, <1>2, <1>3, <1>4, <1>5, <1>6 DEF PipeInv

LEMMA StepPipeInv ==
    ASSUME PipeInv, [Next]_vars
    PROVE  PipeInv'
  <1>1. CASE PeerSend \/ PeerClose
    BY <1>1, PeerKeeps
  <1>2. CASE PipeData
    BY <1>2, PipeDataKeeps
  <1>3. CASE PipeAssert \/ PipeEof \/ PipeShortHeader \/ PipeWriteNegative \/ Cut
    BY <1>3, EndKeeps
  <1>4. CASE PipeWriteDone
    BY <1>4, PipeWriteDoneKeeps
  <1>5. CASE PipeWriteMore
    BY <1>5, PipeWriteMoreKeeps
  <1>6. CASE UNCHANGED vars
    BY <1>6 DEF vars, PipeInv, TypeOK, Buffers, Pending, Rest, Exact, Plain, Encrypted,
                ChunkOverhead, AddrLen, FirstOverhead
  <1> QED BY <1>1, <1>2, <1>3, <1>4, <1>5, <1>6 DEF Next, tcpPipe, tcpPipeWrite

-----------------------------------------------------------------------------
(* The theorems. *)

\* The inductive invariant of the pipe: the buffers, the ciphertext that is
\* left in tmp_buf and what is out fit together after every handler.
THEOREM PipeInvariant == Spec => []PipeInv
  <1>1. Init => PipeInv
    BY InitPipeInv
  <1>2. PipeInv /\ [Next]_vars => PipeInv'
    BY StepPipeInv
  <1> QED BY <1>1, <1>2, PTL DEF Spec

\* tcpPipe and tcpPipeWrite hand the pipe to each other: an open pipe waits for
\* input or for room for output, never for both and never for nothing.
THEOREM PipeNeverStalls == Spec => []NoStall
  <1>1. PipeInv => NoStall
    BY DEF PipeInv, NoStall, Buffers
  <1> QED BY <1>1, PipeInvariant, PTL

\* For buffers and streams of every length and whatever each write() takes:
\* wbuf_len counts exactly the bytes that are read and not out, for every
\* destination whose ciphertext is as long as the plaintext, and no such pipe
\* ends in a negative length.
THEOREM PipeOwesWhatIsLeft == Spec => []OwesWhatIsLeft
  <1> DEFINE Survives == Plain => conn # "negative"
  <1>1. ASSUME PipeInv, Plain, conn = "open"
        PROVE  wlen >= 0 /\ Len(out) + wlen = taken
    <2>1. /\ Exact /\ Buffers /\ wlen \in Int /\ taken \in Nat /\ re \in BOOLEAN /\ we \in BOOLEAN
          /\ Len(out) \in Nat
      BY <1>1, LenProperties DEF PipeInv, TypeOK
    <2>2. CASE re
      BY <2>1, <2>2 DEF Exact, Buffers
    <2>3. CASE we
      BY <2>1, <2>3 DEF Exact
    <2> QED BY <2>1, <2>2, <2>3 DEF Buffers
  <1>2. Init => Survives
    BY DEF Init
  <1>3. ASSUME PipeInv, Survives, [Next]_vars
        PROVE  Survives'
    <2>1. Plain' = Plain
      BY <1>3 DEF Next, vars, PeerSend, PeerClose, tcpPipe, PipeData, PipeAssert, PipeEof,
         PipeShortHeader, tcpPipeWrite, PipeWriteDone, PipeWriteMore, PipeWriteNegative, Cut,
         peerVars, Plain, Encrypted, ChunkOverhead, AddrLen, FirstOverhead
    <2>2. CASE PipeWriteNegative
      <3>1. conn = "open" /\ wlen < 0 /\ wlen \in Int
        BY <1>3, <2>2 DEF PipeWriteNegative, PipeInv, TypeOK
      <3>2. ~Plain
        BY <1>1, <1>3, <3>1
      <3> QED BY <2>1, <3>2
    <2>3. CASE ~PipeWriteNegative
      <3>1. conn' = conn \/ conn' \in {"eof", "cut", "assert"}
        BY <1>3, <2>3 DEF Next, vars, PeerSend, PeerClose, tcpPipe, PipeData, PipeAssert,
           PipeEof, PipeShortHeader, tcpPipeWrite, PipeWriteDone, PipeWriteMore, Cut, Close
      <3> QED BY <1>3, <2>1, <3>1
    <2> QED BY <2>2, <2>3
  <1>4. PipeInv /\ Survives /\ [Next]_vars => Survives'
    BY <1>3
  <1>5. PipeInv /\ Survives => OwesWhatIsLeft
    BY <1>1 DEF OwesWhatIsLeft
  <1> QED BY <1>2, <1>4, <1>5, PipeInvariant, PTL DEF Spec

-----------------------------------------------------------------------------
(* TcpPipe implements ByteStream. *)

LEMMA LongerIsPrefix ==
    ASSUME NEW s \in Seq(Nat), NEW u \in Seq(Nat), Longer(u, s)
    PROVE  Stream!IsPrefix(s, u)
  <1>1. Len(s) \in Nat /\ Len(u) \in Nat /\ Len(s) <= Len(u)
    BY LenProperties DEF Longer
  <1>2. SubSeq(s, 1, Len(s)) = SubSeq(u, 1, Len(s))
    <2>1. \A k \in 1..Len(s) : u[k] = s[k]
      BY DEF Longer
    <2> QED BY <1>1, <2>1
  <1> QED BY <1>1, <1>2 DEF Stream!IsPrefix

\* What is whole is the stream's beginning, and what is ordered is a part of it.
LEMMA WholeIsFirst ==
    ASSUME NEW s \in Seq(Nat), Whole(s)
    PROVE  s = Stream!First(Len(s))
  BY LenProperties DEF Whole, Stream!First

LEMMA OrderedIsPart ==
    ASSUME NEW s \in Seq(Nat), NEW n \in Nat, Ordered(s, n)
    PROVE  Stream!PartOf(s, n)
  <1>1. DOMAIN s = 1..Len(s)
    BY LenProperties
  <1>2. ASSUME NEW i \in 1..Len(s) PROVE s[i] \in 1..n
    <2>1. s[i] \in Nat /\ 1 <= s[i] /\ s[i] <= n
      BY ElementOfSeq DEF Ordered
    <2> QED BY <2>1
  <1> QED BY <1>1, <1>2 DEF Ordered, Stream!PartOf

Status == IF conn \in {"open", "eof"} THEN conn ELSE "cut"

\* Steps that hand bytes over, or none, and leave the pair open or give it up.
LEMMA DeliverStep ==
    ASSUME PipeInv, PipeInv', conn = "open", conn' \in {"open", "cut", "assert", "negative"},
           sent' = sent, dst' = dst, Longer(out', out)
    PROVE  Stream!Deliver
  <1>1. /\ out \in Seq(Nat) /\ out' \in Seq(Nat) /\ taken' \in Nat /\ sent \in Nat
        /\ taken' <= sent /\ Ordered(out', taken') /\ (Plain' => Whole(out'))
    BY DEF PipeInv, TypeOK
  <1>2. Plain' = Plain
    BY DEF Plain, Encrypted, ChunkOverhead, AddrLen, FirstOverhead
  <1>3. Stream!IsPrefix(out, out')
    BY <1>1, LongerIsPrefix
  <1>4. Ordered(out', sent)
    BY <1>1, OrderedUp
  <1>5. Stream!PartOf(out', sent)
    BY <1>1, <1>4, OrderedIsPart
  <1>6. Plain => out' = Stream!First(Len(out'))
    BY <1>1, <1>2, WholeIsFirst
  <1>7. Status = "open" /\ Status' \in {"open", "cut"}
    BY DEF Status
  <1> QED BY <1>2, <1>3, <1>5, <1>6, <1>7 DEF Stream!Deliver, Status

\* The end of the source's stream is passed on behind its last byte.
LEMMA FinishStep ==
    ASSUME PipeInv, PipeEof
    PROVE  Stream!Finish
  <1>1. /\ conn = "open" /\ conn' = "eof" /\ re
        /\ sent' = sent /\ dst' = dst /\ out' = out
        /\ Room = 0 \/ (eof /\ taken = sent)
    BY DEF PipeEof, Close, peerVars
  <1>2. rbuf = <<>> /\ RbufLen \in Nat \ {0}
    BY <1>1, PipeAssumption DEF PipeInv, Buffers
  <1>3. Room # 0
    BY <1>2 DEF Room
  <1>4. taken = sent
    BY <1>1, <1>3
  <1>5. Plain' = Plain
    BY <1>1 DEF Plain, Encrypted, ChunkOverhead, AddrLen, FirstOverhead
  <1>6. Plain => out = Stream!First(sent)
    <2> SUFFICES ASSUME Plain PROVE out = Stream!First(sent)
      OBVIOUS
    <2>1. out \in Seq(Nat) /\ Whole(out) /\ Len(out) = sent
      BY <1>1, <1>4 DEF PipeInv, TypeOK, Exact
    <2> QED BY <2>1, WholeIsFirst
  <1>7. Status = "open" /\ Status' = "eof"
    BY <1>1 DEF Status
  <1> QED BY <1>1, <1>5, <1>6, <1>7 DEF Stream!Finish, Status

\* Every step of the pipe is a step of the byte stream, or changes nothing of it.
LEMMA StreamStep ==
    ASSUME PipeInv, [Next]_vars
    PROVE  [Stream!Next]_(Stream!bsVars)
  <1>1. PipeInv'
    BY StepPipeInv
  <1>2. CASE PeerSend
    <2>1. dst' = dst /\ out' = out /\ conn' = conn /\ sent' = sent + 1 /\ sent \in Nat
      BY <1>2 DEF PeerSend, bufVars, PipeInv, TypeOK
    <2>2. Plain' = Plain
      BY <2>1 DEF Plain, Encrypted, ChunkOverhead, AddrLen, FirstOverhead
    <2>3. Stream!Send
      BY <2>1, <2>2 DEF Stream!Send
    <2> QED BY <2>3 DEF Stream!Next
  <1>3. CASE PeerClose \/ PipeWriteDone \/ UNCHANGED vars
    <2>1. dst' = dst /\ out' = out /\ conn' = conn /\ sent' = sent
      BY <1>3 DEF PeerClose, PipeWriteDone, vars, bufVars, peerVars
    <2>2. Plain' = Plain
      BY <2>1 DEF Plain, Encrypted, ChunkOverhead, AddrLen, FirstOverhead
    <2> QED BY <2>1, <2>2 DEF Stream!bsVars
  <1>4. CASE PipeData \/ PipeWriteMore
    <2>1. conn = "open" /\ conn' = "open" /\ sent' = sent /\ dst' = dst
      BY <1>4 DEF PipeData, PipeWriteMore, peerVars
    <2>2. Longer(out', out)
      BY <1>4, PipeDataKeeps, PipeWriteMoreKeeps
    <2>3. Stream!Deliver
      BY <1>1, <2>1, <2>2, DeliverStep
    <2> QED BY <2>3 DEF Stream!Next
  <1>5. CASE PipeAssert \/ PipeShortHeader \/ PipeWriteNegative \/ Cut
    <2>1. /\ conn = "open" /\ conn' \in {"cut", "assert", "negative"}
          /\ sent' = sent /\ dst' = dst /\ out' = out
      BY <1>5 DEF PipeAssert, PipeShortHeader, PipeWriteNegative, Cut, Close, peerVars
    <2>2. Longer(out', out)
      BY <2>1, LenProperties DEF PipeInv, TypeOK, Longer
    <2>3. Stream!Deliver
      BY <1>1, <2>1, <2>2, DeliverStep
    <2> QED BY <2>3 DEF Stream!Next
  <1>6. CASE PipeEof
    BY <1>6, FinishStep DEF Stream!Next
  <1> QED BY <1>2, <1>3, <1>4, <1>5, <1>6 DEF Next, tcpPipe, tcpPipeWrite

\* One direction of a relayed connection is a byte stream for buffers and
\* streams of every length, for every kind of destination and whatever each
\* write() takes: what reaches the destination is a part of what was sent, in
\* order and without repetition; where the ciphertext is as long as the
\* plaintext nothing is left out, and the end is passed on behind the last byte.
THEOREM PipeImplementsByteStream == Spec => ImplementsByteStream
  <1>1. Init => Stream!Init
    BY DEF Init, Stream!Init, Plain, Encrypted
  <1>2. PipeInv /\ [Next]_vars => [Stream!Next]_(Stream!bsVars)
    BY StreamStep
  <1> QED BY <1>1, <1>2, PipeInvariant, PTL DEF Spec, ImplementsByteStream, Stream!Spec
=============================================================================
