-------------------------- MODULE Socks5Handshake --------------------------
(***************************************************************************)
(* One socks5 client of xs-local, from the accept to the relaying of its   *)
(* data: tcp_socks5.c, tcpClientOnRead and isBypass of local.c.  The bytes *)
(* of the client are numbered: first the greeting, then the request, then  *)
(* the data.  TCP delivers them in any segments, and a read takes all that *)
(* is there.                                                               *)
(***************************************************************************)
EXTENDS Integers, Sequences

CONSTANTS
    GreetLen,     \* length of the greeting
    ReqLen,       \* length of the request
    MaxData       \* bound: data bytes of the client

ASSUME HandshakeAssumption ==
    /\ GreetLen \in Nat \ {0}
    /\ ReqLen \in Nat \ {0}
    /\ MaxData \in Nat

VARIABLES
    valid,    \* the client's messages have a version, method, command and
              \* address type that xs-local supports
    acl,      \* what the access control list says of the destination
    sent,     \* bytes of the client that have arrived
    got,      \* bytes that have been read
    state,    \* state of the connection: "init", "handshake" or "stream"
    dest,     \* addrbuf_dest: "uninit", as xs_realloc leaves it, or "set"
    remote,   \* "none", "connecting", "connected"
    via,      \* how the destination is reached: "none", "raw" or "shadowsocks"
    out,      \* bytes handed to the remote
    conn      \* "open", or why it was closed

vars == <<valid, acl, sent, got, state, dest, remote, via, out, conn>>

HandLen == GreetLen + ReqLen
Total == HandLen + MaxData
Bytes(lo, hi) == [i \in 1..(hi - lo + 1) |-> lo + i - 1]

\* on: --acl is given; mode: the default for what no rule names; name and ip:
\* what acl_match_host says of the name and of the address; found: the name
\* can be resolved.
Acls ==
    [on : BOOLEAN, mode : {"BLACK_LIST", "WHITE_LIST"}, domain : BOOLEAN,
     name : {-1, 0, 1}, ip : {-1, 0, 1}, found : BOOLEAN]

TypeOK ==
    /\ valid \in BOOLEAN
    /\ acl \in Acls
    /\ sent \in 0..Total
    /\ got \in 0..sent
    /\ state \in {"init", "handshake", "stream"}
    /\ dest \in {"uninit", "set"} /\ (state = "stream" => dest = "set")
    /\ remote \in {"none", "connecting", "connected"}
    /\ via \in {"none", "raw", "shadowsocks"} /\ (via = "none" <=> remote = "none")
    /\ conn \in {"open", "auth", "request", "reply", "remote", "peer", "timeout"}

\* tcpSocks5ConnNew.
Init ==
    /\ valid \in BOOLEAN
    /\ acl \in Acls
    /\ sent = 0
    /\ got = 0
    /\ state = "init"
    /\ dest = "uninit"
    /\ remote = "none"
    /\ via = "none"
    /\ out = <<>>
    /\ conn = "open"

-----------------------------------------------------------------------------
(* The client, which waits for an answer before it goes on (RFC 1928). *)

MaySend ==
    CASE state = "init" -> GreetLen
      [] state = "handshake" -> HandLen
      [] OTHER -> Total

ClientSend ==
    /\ conn = "open"
    /\ \E n \in sent + 1..MaySend : sent' = n
    /\ UNCHANGED <<valid, acl, got, state, dest, remote, via, out, conn>>

-----------------------------------------------------------------------------
(* The handshake: tcpSocks5ConnRead, then tcpSocks5ConnWrite. *)

\* Defect: the client's read event is not added again after the connect.
ReadableOnce == conn = "open" /\ sent > got /\ remote = "none"

\* The client's read event is there unless a connect is going on.
Readable == conn = "open" /\ sent > got /\ remote # "connecting"

\* FIRE_ERROR, FIRE_CLOSE, after tcpRead has taken the bytes.
Refuse(why) ==
    /\ got' = sent
    /\ conn' = why
    /\ UNCHANGED <<valid, acl, sent, state, dest, remote, via, out>>

\* Defect: one byte too much is asked for.
GreetingWholeMore == valid /\ sent - got > GreetLen

\* The greeting has to come in one read.
GreetingWhole == valid /\ sent - got >= GreetLen

ReadGreeting ==
    /\ Readable
    /\ state = "init"
    /\ GreetingWhole
    /\ got' = sent
    /\ state' = "handshake"
    /\ UNCHANGED <<valid, acl, sent, dest, remote, via, out, conn>>

RefuseGreeting ==
    /\ Readable
    /\ state = "init"
    /\ ~GreetingWhole
    /\ Refuse("auth")

\* So does the request.
RequestWhole == valid /\ sent - got >= ReqLen

\* tcpSocks5ConnInit keeps the destination; the answer says "succeeded"
\* although nothing has been connected yet.
ReadRequest ==
    /\ Readable
    /\ state = "handshake"
    /\ RequestWhole
    /\ got' = sent
    /\ dest' = "set"
    /\ state' = "stream"
    /\ UNCHANGED <<valid, acl, sent, remote, via, out, conn>>

RefuseRequest ==
    /\ Readable
    /\ state = "handshake"
    /\ ~RequestWhole
    /\ Refuse("request")

\* The answer cannot be written at once, or not at all.
ReplyShort ==
    /\ Readable
    /\ \/ state = "init" /\ GreetingWhole /\ dest' = dest
       \/ state = "handshake" /\ RequestWhole /\ dest' = "set"
    /\ got' = sent
    /\ conn' = "reply"
    /\ UNCHANGED <<valid, acl, sent, state, remote, via, out>>

-----------------------------------------------------------------------------
(* tcpClientOnRead and isBypass. *)

\* Defect: a rule for the name no longer goes before the address.
BypassIgnoresName(a) ==
    /\ a.on
    /\ ~a.domain \/ a.found
    /\ IF a.mode = "BLACK_LIST" THEN a.ip > 0 ELSE a.ip >= 0

isBypass(a) == IF a.mode = "BLACK_LIST" THEN a.ip > 0 ELSE a.ip >= 0

\* A rule for the name decides; otherwise the address does, if there is one.
Bypass(a) ==
    /\ a.on
    /\ \/ a.domain /\ a.name > 0
       \/ /\ a.domain => a.name = 0 /\ a.found
          /\ isBypass(a)

\* The first event after the handshake starts the connect; nothing is read.
StartRemote ==
    /\ Readable
    /\ state = "stream"
    /\ remote = "none"
    /\ remote' = "connecting"
    /\ via' = IF Bypass(acl) THEN "raw" ELSE "shadowsocks"
    /\ UNCHANGED <<valid, acl, sent, got, state, dest, out, conn>>

\* tcpRemoteNew fails, or the connect does.
RemoteFails ==
    /\ conn = "open"
    /\ \/ Readable /\ state = "stream" /\ remote = "none"
       \/ remote = "connecting"
    /\ conn' = "remote"
    /\ UNCHANGED <<valid, acl, sent, got, state, dest, remote, via, out>>

\* tcpRemoteOnConnect: both sides are read from now on.
tcpRemoteOnConnect ==
    /\ conn = "open"
    /\ remote = "connecting"
    /\ remote' = "connected"
    /\ UNCHANGED <<valid, acl, sent, got, state, dest, via, out, conn>>

\* Defect: what came before the connect was done is skipped.
PipeClientLate ==
    /\ Readable
    /\ remote = "connected"
    /\ got' = sent
    /\ out' = out \o (IF out = <<>> THEN <<sent>> ELSE Bytes(got + 1, sent))
    /\ UNCHANGED <<valid, acl, sent, state, dest, remote, via, conn>>

\* tcpPipe, here with writes that take it all.
PipeClient ==
    /\ Readable
    /\ remote = "connected"
    /\ got' = sent
    /\ out' = out \o Bytes(got + 1, sent)
    /\ UNCHANGED <<valid, acl, sent, state, dest, remote, via, conn>>

\* The client goes away, or its timer is due.
Leave ==
    /\ conn = "open"
    /\ remote # "connecting"
    /\ conn' \in {"peer", "timeout"}
    /\ UNCHANGED <<valid, acl, sent, got, state, dest, remote, via, out>>

Handshake == ReadGreeting \/ RefuseGreeting \/ ReadRequest \/ RefuseRequest \/ ReplyShort

Relay == StartRemote \/ RemoteFails \/ tcpRemoteOnConnect \/ PipeClient

Next == ClientSend \/ Handshake \/ Relay \/ Leave

Spec == Init /\ [][Next]_vars

\* The loop serves a readable socket (libev: on ae the client's write event may
\* stay in the descriptor's clientData and be run instead, see EventLoop), and
\* a connect comes to an end, at the latest by the remote's timer.
FairSpec == Spec /\ WF_vars(Handshake) /\ WF_vars(Relay)

-----------------------------------------------------------------------------
(* Properties. *)

\* The handshake takes exactly its own bytes: what the remote gets begins
\* with the first data byte, and has no gap and no byte twice, although the
\* first data starts the connect and is read much later.
OutIsData == \A i \in 1..Len(out) : out[i] = HandLen + i

\* A supported client is turned away for one reason only: one of its two
\* messages had not arrived completely when it was read.
RefusedForSplit ==
    /\ conn = "auth" /\ valid => sent < GreetLen
    /\ conn = "request" /\ valid => sent < HandLen

\* A name that a rule sends to the proxy is never connected directly,
\* whatever its address, and nothing is without --acl or without an address
\* to judge by.
ProxiedStaysProxied ==
    via = "raw" =>
        /\ acl.on
        /\ acl.domain => acl.name > 0 \/ (acl.name = 0 /\ acl.found)

\* With libev, data that has arrived after the handshake is relayed, unless the
\* session ends.
DataRelayed ==
    \A k \in 1..MaxData :
        sent >= HandLen + k ~> (Len(out) >= k \/ conn # "open")

\* "No operation is performed if 's' is NULL" (sds.c), for any other pointer
\* sdsfree frees: tcpSocks5ConnFree closes a connection only when its
\* addrbuf_dest has been assigned.
FreesWhatWasSet == conn # "open" => dest = "set"
=============================================================================
