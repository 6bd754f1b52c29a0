----------------------------- MODULE ByteStream -----------------------------
(***************************************************************************)
(* What one direction of a relayed TCP connection promises: the bytes the  *)
(* source peer sent reach the destination peer in order and at most once;  *)
(* if the stream is lossless none is left out, and an orderly end of the   *)
(* source stream is passed on only after the last byte.  The relay may     *)
(* give up at any time.  TcpPipe is shown to implement this.               *)
(***************************************************************************)
EXTENDS Naturals, Sequences, SequencesExt

VARIABLES
    lossless,   \* no byte may be left out
    sent,       \* bytes the source peer has sent
    delivered,  \* what was handed to the destination peer's socket
    status      \* "open", "eof": ended after the source's end, "cut": given up

\* The first n bytes of the stream; a byte is its position.
First(n) == [i \in 1..n |-> i]

\* Bytes of the first n, in order.
PartOf(s, n) ==
    /\ \A i \in DOMAIN s : s[i] \in 1..n
    /\ \A i, j \in DOMAIN s : i < j => s[i] < s[j]

bsVars == <<lossless, sent, delivered, status>>

Init ==
    /\ lossless \in BOOLEAN
    /\ sent = 0
    /\ delivered = <<>>
    /\ status = "open"

Send ==
    /\ sent' \in Nat
    /\ sent' >= sent
    /\ UNCHANGED <<lossless, delivered, status>>

\* Bytes may be handed over in the very step that gives up.
Deliver ==
    /\ status = "open"
    /\ IsPrefix(delivered, delivered')
    /\ PartOf(delivered', sent)
    /\ lossless => delivered' = First(Len(delivered'))
    /\ status' \in {"open", "cut"}
    /\ UNCHANGED <<lossless, sent>>

Finish ==
    /\ status = "open"
    /\ lossless => delivered = First(sent)
    /\ status' = "eof"
    /\ UNCHANGED <<lossless, sent, delivered>>

Next == Send \/ Deliver \/ Finish

Spec == Init /\ [][Next]_bsVars
=============================================================================
