------------------------------ MODULE TcpPipe ------------------------------
(***************************************************************************)
(* One direction of the TCP relay: the bytes a source connection reads are *)
(* written to a destination connection by tcpPipe (on the source's read    *)
(* event) and tcpPipeWrite (on the destination's write event).  Both run   *)
(* in the single-threaded event loop, so each handler is one action; what  *)
(* interleaves with them are the two peers and the rest of the process.    *)
(*                                                                         *)
(* A byte of the stream is its position 1, 2, 3, ...; of what encryption   *)
(* adds (IV or salt, chunk length, tags) only the length matters, and a    *)
(* ciphertext has it in front.  The buffers hold real contents, so that    *)
(* losing, repeating or reordering bytes shows in `out'.                   *)
(***************************************************************************)
EXTENDS Integers, Sequences

CONSTANTS
    RbufLen,       \* capacity of the read buffer (NET_IOBUF_LEN)
    StreamLen,     \* bound: bytes the source peer ever sends
    Destinations   \* the kinds of destination: what its encryption adds

ASSUME PipeAssumption ==
    /\ RbufLen \in Nat \ {0}
    /\ StreamLen \in Nat
    /\ Destinations \subseteq
        [encrypted : BOOLEAN, addr : Nat, first : Nat, chunk : Nat, max : Nat]

VARIABLES
    dst,     \* what kind of connection the destination is
    sent,    \* bytes the source peer has sent
    eof,     \* the source peer has ended its stream
    taken,   \* bytes read from the source socket
    rbuf,    \* src->rbuf up to src->rbuf_off
    wbuf,    \* dst->wbuf as an offset into src->rbuf, or NULL
    wlen,    \* dst->wbuf_len
    tmp,     \* dst->tmp_buf, the ciphertext being written
    toff,    \* dst->tmp_buf_off
    init,    \* the address header and the first overhead are still due
    out,     \* the stream's bytes that have been written to the destination socket
    re,      \* the source's read event is registered
    we,      \* the destination's write event is registered
    conn     \* "open", or how the pair of connections ended

vars == <<dst, sent, eof, taken, rbuf, wbuf, wlen, tmp, toff, init, out, re, we, conn>>

peerVars == <<dst, sent, eof>>
bufVars  == <<taken, rbuf, wbuf, wlen, tmp, toff, init, out, re, we>>

NULL == -1

Encrypted == dst.encrypted   \* it is a shadowsocks connection
AddrLen == dst.addr          \* bytes of the encrypted address header; 0: none to send
FirstOverhead == dst.first   \* bytes the first encryption of the connection adds
ChunkOverhead == dst.chunk   \* bytes every later encryption adds
MaxChunk == dst.max          \* largest plaintext the cipher takes in one call

\* tmp_buf with tmp_buf->len = 0.
NoText == [over |-> 0, data |-> <<>>]

Ends == {"eof", "cut", "assert", "negative"}

TypeOK ==
    /\ dst \in Destinations
    /\ sent \in 0..StreamLen
    /\ eof \in BOOLEAN
    /\ taken \in 0..sent
    /\ rbuf \in Seq(Nat) /\ Len(rbuf) <= RbufLen
    /\ wbuf \in Nat \cup {NULL}
    /\ wlen \in Int
    /\ tmp \in [over : Nat, data : Seq(Nat)]
    /\ toff \in Nat
    /\ init \in BOOLEAN
    /\ out \in Seq(Nat)
    /\ re \in BOOLEAN
    /\ we \in BOOLEAN
    /\ conn \in {"open"} \cup Ends

Init ==
    /\ dst \in Destinations
    /\ sent = 0
    /\ eof = FALSE
    /\ taken = 0
    /\ rbuf = <<>>
    /\ wbuf = NULL
    /\ wlen = 0
    /\ tmp = NoText
    /\ toff = 0
    /\ init = TRUE
    /\ out = <<>>
    /\ re = TRUE
    /\ we = FALSE
    /\ conn = "open"

-----------------------------------------------------------------------------
(* The source peer. *)

PeerSend ==
    /\ ~eof
    /\ sent < StreamLen
    /\ sent' = sent + 1
    /\ UNCHANGED <<dst, eof, bufVars, conn>>

PeerClose ==
    /\ ~eof
    /\ eof' = TRUE
    /\ UNCHANGED <<dst, sent, bufVars, conn>>

-----------------------------------------------------------------------------
(* Operators the handlers are built from. *)

\* The next n bytes of the source stream.
Incoming(n) == [i \in 1..n |-> taken + i]

\* What encryption makes of a plaintext.
Ciphertext(plain, first) ==
    [over |-> IF first THEN FirstOverhead ELSE ChunkOverhead, data |-> plain]

TextLen(c) == c.over + Len(c.data)

\* How many of the first n bytes of a ciphertext are bytes of the stream.
DataIn(c, n) == IF n > c.over THEN n - c.over ELSE 0

\* The stream's bytes behind the first m and up to the n-th of a ciphertext.
DataBetween(c, m, n) == SubSeq(c.data, DataIn(c, m) + 1, DataIn(c, n))

\* Both objects are freed: no event is registered any more.
Close(how) ==
    /\ conn' = how
    /\ re' = FALSE
    /\ we' = FALSE

\* tcpWrite on a raw or socks5 destination: any part of the len bytes at
\* offset off of `buf' goes out; n is the return value.
RawWrite(buf, off, len, n) ==
    /\ n \in 0..len
    /\ out' = out \o SubSeq(buf, off + 1, off + n)
    /\ UNCHANGED <<tmp, toff, init>>

\* tmp_buf once tcpShadowsocksConnWrite has filled it: ciphertext that is still
\* there from an earlier call comes first, and the new bytes are not looked at.
SsPending(buf, off, len) ==
    IF tmp = NoText
    THEN Ciphertext(SubSeq(buf, off + 1, off + len), init /\ AddrLen = 0)
    ELSE tmp

\* Defect: tmp_buf_off is not advanced after a partial write.
SsWriteRestarts(buf, off, len, n) ==
    LET c == SsPending(buf, off, len)
    IN  /\ n \in 0..(TextLen(c) - toff)
        /\ out' = out \o DataBetween(c, toff, toff + n)
        /\ tmp' = IF n = TextLen(c) - toff THEN NoText ELSE c
        /\ toff' = 0
        /\ init' = FALSE

\* tcpShadowsocksConnWrite: the address header goes out with the first call
\* and must go out whole; then tmp_buf is filled unless it still holds
\* ciphertext; n is the number of CIPHERTEXT bytes written, and returned.
SsWrite(buf, off, len, n) ==
    LET c == SsPending(buf, off, len)
    IN  /\ n \in 0..(TextLen(c) - toff)
        /\ out' = out \o DataBetween(c, toff, toff + n)
        /\ IF n = TextLen(c) - toff
           THEN tmp' = NoText /\ toff' = 0
           ELSE tmp' = c /\ toff' = toff + n
        /\ init' = FALSE

Write(buf, off, len, n) ==
    IF Encrypted THEN SsWrite(buf, off, len, n) ELSE RawWrite(buf, off, len, n)

\* The largest value a write of len bytes can return.
WriteMax(buf, off, len) ==
    IF Encrypted THEN TextLen(SsPending(buf, off, len)) - toff ELSE len

\* aead_chunk_encrypt asserts that the plaintext fits in one chunk.
Encryptable(len) == ~Encrypted \/ tmp # NoText \/ len <= MaxChunk

\* What is left of the read buffer: the length tcpPipe asks read() for.
Room == RbufLen - Len(rbuf)

-----------------------------------------------------------------------------
(* tcpPipe, run by the source's read event. *)

\* Defect: one byte left counts as written.
AfterWriteLosesLast(buf, off, len, n) ==
    IF len - n > 1
    THEN rbuf' = buf /\ wbuf' = off + n /\ wlen' = len - n /\ we' = TRUE /\ re' = FALSE
    ELSE rbuf' = <<>> /\ wbuf' = NULL /\ wlen' = 0 /\ we' = FALSE /\ re' = TRUE

\* The end of tcpPipe, after a write of len bytes that returned n: when all
\* of them are out the buffer is released, else reading stops until the write
\* event has sent the rest.
AfterWrite(buf, off, len, n) ==
    IF len - n > 0
    THEN /\ rbuf' = buf
         /\ wbuf' = off + n
         /\ wlen' = len - n
         /\ we' = TRUE
         /\ re' = FALSE
    ELSE /\ rbuf' = <<>>
         /\ wbuf' = NULL
         /\ wlen' = 0
         /\ we' = FALSE
         /\ re' = TRUE

\* read() returns r bytes and TCP_WRITE sends some of what is buffered.
PipeData ==
    /\ conn = "open"
    /\ re
    /\ \E r \in 1..Room :
        /\ r <= sent - taken
        /\ taken' = taken + r
        /\ LET buf == rbuf \o Incoming(r)
               off == IF wbuf = NULL THEN 0 ELSE wbuf
               len == Len(buf)
           IN  /\ Encryptable(len)
               /\ \E n \in 0..WriteMax(buf, off, len) :
                   /\ Write(buf, off, len, n)
                   /\ AfterWrite(buf, off, len, n)
    /\ UNCHANGED <<peerVars, conn>>

\* A full read buffer is more than the cipher takes: the assertion in
\* aead_chunk_encrypt ends the process.
PipeAssert ==
    /\ conn = "open"
    /\ re
    /\ \E r \in 1..Room :
        /\ r <= sent - taken
        /\ ~Encryptable(Len(rbuf) + r)
    /\ Close("assert")
    /\ UNCHANGED <<peerVars, taken, rbuf, wbuf, wlen, tmp, toff, init, out>>

\* read() of the source returns 0: its stream has ended.  netTcpRead takes a
\* call without room for the same thing.
PipeEof ==
    /\ conn = "open"
    /\ re
    /\ Room = 0 \/ (eof /\ taken = sent)
    /\ Close("eof")
    /\ UNCHANGED <<peerVars, taken, rbuf, wbuf, wlen, tmp, toff, init, out>>

\* The address header is written only in part: tcpShadowsocksConnWrite gives
\* the connection up, with some of the header already out.
PipeShortHeader ==
    /\ conn = "open"
    /\ re
    /\ Encrypted /\ init /\ AddrLen > 0
    /\ \E r \in 1..Room : r <= sent - taken /\ taken' = taken + r
    /\ Close("cut")
    /\ UNCHANGED <<peerVars, rbuf, wbuf, wlen, tmp, toff, init, out>>

-----------------------------------------------------------------------------
(* tcpPipeWrite, run by the destination's write event. *)

\* Defect: the read event is not registered again.
PipeWriteDoneForgetsRead ==
    /\ conn = "open" /\ we /\ wlen = 0
    /\ rbuf' = <<>> /\ wbuf' = NULL /\ wlen' = 0 /\ re' = re /\ we' = FALSE
    /\ UNCHANGED <<peerVars, taken, tmp, toff, init, out, conn>>

\* "Write done": release the source's buffer and read again.
PipeWriteDone ==
    /\ conn = "open"
    /\ we
    /\ wlen = 0
    /\ rbuf' = <<>>
    /\ wbuf' = NULL
    /\ wlen' = 0
    /\ re' = TRUE
    /\ we' = FALSE
    /\ UNCHANGED <<peerVars, taken, tmp, toff, init, out, conn>>

\* Send more of what is left.  The event means that the socket takes at
\* least one byte; a spurious one leaves everything as it is.
PipeWriteMore ==
    /\ conn = "open"
    /\ we
    /\ wlen # 0
    /\ wlen > 0 \/ tmp # NoText
    /\ \E n \in 1..WriteMax(rbuf, wbuf, wlen) :
        /\ Write(rbuf, wbuf, wlen, n)
        /\ wbuf' = wbuf + n
        /\ wlen' = wlen - n
    /\ UNCHANGED <<peerVars, taken, rbuf, re, we, conn>>

\* A negative wbuf_len with an empty tmp_buf: memcpy of a huge size.
PipeWriteNegative ==
    /\ conn = "open"
    /\ we
    /\ wlen < 0
    /\ Encrypted /\ tmp = NoText
    /\ Close("negative")
    /\ UNCHANGED <<peerVars, taken, rbuf, wbuf, wlen, tmp, toff, init, out>>

-----------------------------------------------------------------------------
\* A read or write error, a timeout, or the other direction ends the pair.
Cut ==
    /\ conn = "open"
    /\ Close("cut")
    /\ UNCHANGED <<peerVars, taken, rbuf, wbuf, wlen, tmp, toff, init, out>>

tcpPipe == PipeData \/ PipeAssert \/ PipeEof \/ PipeShortHeader
tcpPipeWrite == PipeWriteDone \/ PipeWriteMore \/ PipeWriteNegative

Next == PeerSend \/ PeerClose \/ tcpPipe \/ tcpPipeWrite \/ Cut

Spec == Init /\ [][Next]_vars

\* With libev every event has a watcher of its own: the loop runs the handler of
\* a registered event whose socket stays ready; the destination peer goes on
\* reading.  On ae this is not given: a descriptor has one clientData, and the
\* write event that the other direction adds to the source and deletes again
\* stays there, so that a readable source may run the write handler (EventLoop).
FairSpec == Spec /\ WF_vars(tcpPipe) /\ WF_vars(tcpPipeWrite)

-----------------------------------------------------------------------------
(* Properties. *)

\* An open pipe waits for exactly one thing: input, or room for output.
\* With neither event registered the pair would hang until its timeout.
NoStall == conn = "open" => re # we

\* "Write done" (tcp.c): when the read buffer is released, every byte that
\* was read has been written.
WriteDoneIsDone ==
    conn = "open" /\ rbuf = <<>> => Len(out) = taken

\* "Write done" (tcp.c) is tested with wbuf_len == 0, which a length below
\* zero would pass by.
WriteLengthNotNegative == wlen >= 0

\* The assertion of aead_chunk_encrypt: a plaintext fits in one chunk.
ChunkFits == conn # "assert"

\* The destination takes as many bytes as it is given: a raw connection, or a
\* stream cipher whose IV goes out with the address.
Plain == ~Encrypted \/ (ChunkOverhead = 0 /\ (AddrLen > 0 \/ FirstOverhead = 0))

\* The pipe is a byte stream, whatever the partial writes: tcpPipeWrite resumes
\* exactly where the last write stopped, so that no byte is repeated or
\* overtakes another; and where the ciphertext is as long as the plaintext none
\* is left out, also when the source's end is passed on.
Stream == INSTANCE ByteStream WITH
    lossless <- Plain,
    delivered <- out,
    status <- IF conn \in {"open", "eof"} THEN conn ELSE "cut"
ImplementsByteStream == Stream!Spec

\* Where the ciphertext is as long as the plaintext, wbuf_len is what is still
\* owed of the bytes read, through any sequence of short writes that stop inside
\* tmp_buf and are resumed there: it never becomes negative, and the memcpy in
\* tcpShadowsocksConnWrite never gets such a size.
OwesWhatIsLeft ==
    Plain =>
        /\ conn = "open" => wlen >= 0 /\ Len(out) + wlen = taken
        /\ conn # "negative"

\* With libev, every byte for a plain destination is delivered unless the pair is
\* closed: the two events are re-registered so that neither direction of the
\* handshake between tcpPipe and tcpPipeWrite is ever lost.
Delivery ==
    \A k \in 1..StreamLen :
        Plain /\ sent >= k ~> (Len(out) >= k \/ conn # "open")

=============================================================================
