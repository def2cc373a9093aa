------------------------------ MODULE RtpStream ------------------------------
(***************************************************************************)
(* The packet numbers of one direction of a call: rtp_sink_render numbers  *)
(* and sends what the payloaders produce (src/src/rtp-sink.c), the network *)
(* loses, delays, reorders and repeats it, and rtp_src_create guesses the  *)
(* number back (src/src/rtp-src.c).  A packet carries the low bits of its  *)
(* number, seq; the rest, the roll-over counter roc, is kept at both ends  *)
(* and is part of the nonce, so that a wrong guess fails the               *)
(* authentication and the packet is dropped.  There is one sink, and one   *)
(* stream of the receiver, per SSRC (audio and video).                     *)
(***************************************************************************)
EXTENDS Integers

CONSTANTS Ssrc,       \* streams of the call
          Half,       \* half the range of seq: 0x8000
          FirstSeq,   \* numbers a payloader may begin with
          RocLimit    \* bound: 2^48 in the code, which no call reaches

ASSUME RtpStreamAssumption ==
    /\ Half \in Nat \ {0}
    /\ FirstSeq \subseteq 0 .. 2 * Half - 1
    /\ RocLimit \in Nat \ {0}

VARIABLES sink,     \* per SSRC: roc of its sink, seq of its next packet
          sent,     \* packets that were sent: each may arrive at any time
          streams   \* RtpStream of the SSRCs that have been heard

vars == <<sink, sent, streams>>

Seq16 == 0 .. 2 * Half - 1

Packet == [ssrc : Ssrc, roc : 0 .. RocLimit, seq : Seq16]

\* The number of a packet: roc << 16 | seq.
Number(roc, seq) == roc * (2 * Half) + seq

-----------------------------------------------------------------------------
(***************************************************************************)
(* The roll-over counter logic of rtp_src_create: the counter of a packet, *)
(* from the state of its stream.                                           *)
(***************************************************************************)
\* Mutant: a packet from before the last roll-over is taken for a new one.
RollOverForward(stream, seq) ==
    IF stream.seq_last >= Half /\ stream.seq_last - Half > seq /\ stream.roc < RocLimit
    THEN stream.roc + 1
    ELSE stream.roc

RollOver(stream, seq) ==
    IF stream.seq_last < Half /\ stream.seq_last + Half < seq /\ stream.roc > 0
    THEN stream.roc - 1
    ELSE IF stream.seq_last >= Half /\ stream.seq_last - Half > seq /\ stream.roc < RocLimit
    THEN stream.roc + 1
    ELSE stream.roc

StreamOf(ssrc) == IF ssrc \in DOMAIN streams THEN streams[ssrc] ELSE [seq_last |-> 0, roc |-> 0]

-----------------------------------------------------------------------------
\* The payloader (a GStreamer element) begins at some number.
Init == /\ sink \in [Ssrc -> [roc : {0}, seq : FirstSeq]]
        /\ sent = {}
        /\ streams = <<>>

\* Mutant: the counter is not moved on when seq wraps.
RenderStuck(ssrc) ==
    LET seq == sink[ssrc].seq
    IN  /\ sink[ssrc].roc < RocLimit
        /\ sent' = sent \cup {[ssrc |-> ssrc, roc |-> sink[ssrc].roc, seq |-> seq]}
        /\ sink' = [sink EXCEPT ![ssrc] = [roc |-> @.roc, seq |-> (seq + 1) % (2 * Half)]]
        /\ streams' = streams

\* Mutant: the limit is looked for before the counter is moved on.
RenderLate(ssrc) ==
    LET roc == sink[ssrc].roc
        seq == sink[ssrc].seq
        last == seq = 2 * Half - 1
    IN  /\ roc <= RocLimit
        /\ sent' = sent \cup {[ssrc |-> ssrc, roc |-> roc, seq |-> seq]}
        /\ sink' = [sink EXCEPT ![ssrc] = [roc |-> IF last THEN roc + 1 ELSE roc,
                                           seq |-> IF last THEN 0 ELSE seq + 1]]
        /\ streams' = streams

\* rtp_sink_render, until its counter reaches the limit and the element fails.
Render(ssrc) ==
    LET roc == sink[ssrc].roc
        seq == sink[ssrc].seq
        last == seq = 2 * Half - 1
    IN  /\ roc < RocLimit
        /\ sent' = sent \cup {[ssrc |-> ssrc, roc |-> roc, seq |-> seq]}
        /\ sink' = [sink EXCEPT ![ssrc] = [roc |-> IF last THEN roc + 1 ELSE roc,
                                           seq |-> IF last THEN 0 ELSE seq + 1]]
        /\ streams' = streams

\* Mutant: the stream keeps the counter it had.
ReceiveUncounted(packet) ==
    /\ packet.roc = RollOver(StreamOf(packet.ssrc), packet.seq)
    /\ streams' = [x \in DOMAIN streams \cup {packet.ssrc} |->
                      IF x = packet.ssrc
                      THEN [seq_last |-> packet.seq, roc |-> StreamOf(x).roc]
                      ELSE streams[x]]
    /\ UNCHANGED <<sink, sent>>

\* rtp_src_create, for a packet that is verified with the nonce it was sent
\* with.  One that is not, or comes while the receiver is disabled, is dropped.
Receive(packet) ==
    /\ packet.roc = RollOver(StreamOf(packet.ssrc), packet.seq)
    /\ streams' = [x \in DOMAIN streams \cup {packet.ssrc} |->
                      IF x = packet.ssrc
                      THEN [seq_last |-> packet.seq, roc |-> packet.roc]
                      ELSE streams[x]]
    /\ UNCHANGED <<sink, sent>>

Next == \/ \E ssrc \in Ssrc : Render(ssrc)
        \/ \E packet \in sent : Receive(packet)

Spec == Init /\ [][Next]_vars

-----------------------------------------------------------------------------
TypeOK ==
    /\ sink \in [Ssrc -> [roc : 0 .. RocLimit, seq : Seq16]]
    /\ sent \subseteq Packet
    /\ DOMAIN streams \subseteq Ssrc
    /\ streams \in [DOMAIN streams -> [seq_last : Seq16, roc : 0 .. RocLimit]]

(***************************************************************************)
(* The state of a stream is the number of a packet its sink has sent: the  *)
(* two counters, which never meet in a packet, do not drift apart.         *)
(***************************************************************************)
StreamFollowsSink ==
    \A x \in DOMAIN streams :
        [ssrc |-> x, roc |-> streams[x].roc, seq |-> streams[x].seq_last] \in sent

(***************************************************************************)
(* Roll-over: a packet that was sent less than half a range before or      *)
(* after the one its stream has accepted last is verified, wherever the    *)
(* counter rolls over between them and in whatever order they arrive.      *)
(***************************************************************************)
NearPacketsVerified ==
    \A packet \in sent :
        packet.ssrc \in DOMAIN streams =>
            LET stream == streams[packet.ssrc]
                distance == Number(packet.roc, packet.seq) - Number(stream.roc, stream.seq_last)
            IN  -Half < distance /\ distance < Half =>
                    RollOver(stream, packet.seq) = packet.roc

(***************************************************************************)
(* No two packets of a call are encrypted with the same nonce.             *)
(***************************************************************************)
NonceFresh == [][\A ssrc \in Ssrc : Render(ssrc) => sent' # sent]_vars
=============================================================================
