--------------------------- MODULE RtpStreamProofs ---------------------------
(***************************************************************************)
(* Proofs about RtpStream, for any number of streams, any width of seq and *)
(* any number of roll-overs.  That no nonce is used twice rests on Behind: *)
(* what was sent has a smaller number than what comes next.                *)
(***************************************************************************)
EXTENDS RtpStream, TLAPS

Behind ==
    \A packet \in sent :
        LET next == sink[packet.ssrc]
        IN  packet.roc < next.roc \/ (packet.roc = next.roc /\ packet.seq < next.seq)

IInv == TypeOK /\ StreamFollowsSink /\ Behind

-----------------------------------------------------------------------------
(***************************************************************************)
(* The guess is right within half a range: the counters of two numbers     *)
(* less than Half apart differ by one at most.                             *)
(***************************************************************************)
LEMMA RollOverCorrect ==
    ASSUME NEW roc \in 0 .. RocLimit, NEW seq \in Seq16,
           NEW stream \in [seq_last : Seq16, roc : 0 .. RocLimit],
           -Half < Number(roc, seq) - Number(stream.roc, stream.seq_last),
           Number(roc, seq) - Number(stream.roc, stream.seq_last) < Half
    PROVE  RollOver(stream, seq) = roc
  <1> DEFINE M == 2 * Half
             d == roc - stream.roc
             e == seq - stream.seq_last
  <1>1. /\ Half \in Nat /\ Half > 0 /\ RocLimit \in Nat
        /\ roc \in Nat /\ roc <= RocLimit
        /\ stream.roc \in Nat /\ stream.roc <= RocLimit
        /\ seq \in Nat /\ seq < M /\ stream.seq_last \in Nat /\ stream.seq_last < M
    BY RtpStreamAssumption DEF Seq16
  <1>2. M \in Nat /\ M > 0 /\ d \in Int /\ e \in Int /\ -M < e /\ e < M
    BY <1>1
  <1>3. -Half < d * M + e /\ d * M + e < Half
    <2>1. \A a, b, m \in Int : a * m = (a - b) * m + b * m /\ a * m \in Int
      OBVIOUS
    <2> HIDE DEF M
    <2>2. /\ roc * M = d * M + stream.roc * M
          /\ roc * M \in Int /\ stream.roc * M \in Int /\ d * M \in Int
      BY <1>1, <1>2, <2>1
    <2>3. /\ Number(roc, seq) = roc * M + seq
          /\ Number(stream.roc, stream.seq_last) = stream.roc * M + stream.seq_last
      BY DEF Number, M
    <2>4. Number(roc, seq) - Number(stream.roc, stream.seq_last) = d * M + e
      BY <1>1, <1>2, <2>2, <2>3
    <2> QED BY <2>4
  <1>4. d = -1 \/ d = 0 \/ d = 1
    <2> HIDE DEF M, d, e
    <2>1. \A k, m \in Int : k >= 2 /\ m > 0 => k * m >= 2 * m
      <3>1. \A k, m \in Int : k >= 0 /\ m > 0 => k * m >= 0
        OBVIOUS
      <3>2. \A k, m \in Int : k * m = (k - 2) * m + 2 * m
        OBVIOUS
      <3> QED BY <3>1, <3>2
    <2>2. \A k, m \in Int : k <= -2 /\ m > 0 => k * m <= -2 * m
      <3>1. \A k, m \in Int : k <= 0 /\ m > 0 => k * m <= 0
        OBVIOUS
      <3>2. \A k, m \in Int : k * m = (k + 2) * m - 2 * m
        OBVIOUS
      <3> QED BY <3>1, <3>2
    <2>3. M = 2 * Half /\ d * M \in Int
      BY <1>2 DEF M
    <2>4. ~(d >= 2)
      BY <1>1, <1>2, <1>3, <2>1, <2>3
    <2>5. ~(d <= -2)
      BY <1>1, <1>2, <1>3, <2>2, <2>3
    <2> QED BY <1>2, <2>4, <2>5
  <1>5. CASE d = 0
    <2>1. \A m \in Int : 0 * m = 0
      OBVIOUS
    <2>2. d * M = 0
      <3> HIDE DEF d, M
      <3> QED BY <1>2, <1>5, <2>1
    <2>3. roc = stream.roc
      BY <1>1, <1>5
    <2>4. -Half < e /\ e < Half
      <3> HIDE DEF d, e, M
      <3> QED BY <1>1, <1>2, <1>3, <2>2
    <2> QED BY <1>1, <2>3, <2>4 DEF RollOver
  <1>6. CASE d = 1
    <2>1. M + e < Half /\ roc = stream.roc + 1
      BY <1>1, <1>2, <1>3, <1>6
    <2> QED BY <1>1, <2>1 DEF RollOver
  <1>7. CASE d = -1
    <2>1. -Half < e - M /\ roc = stream.roc - 1
      BY <1>1, <1>2, <1>3, <1>7
    <2> QED BY <1>1, <2>1 DEF RollOver
  <1> QED BY <1>4, <1>5, <1>6, <1>7

\* Sending a packet moves its sink on by one number.
LEMMA RenderInvariant == ASSUME IInv, NEW ssrc \in Ssrc, Render(ssrc) PROVE IInv' /\ sent' # sent
  <1> DEFINE roc == sink[ssrc].roc
             seq == sink[ssrc].seq
             last == seq = 2 * Half - 1
             packet == [ssrc |-> ssrc, roc |-> roc, seq |-> seq]
             next == [roc |-> IF last THEN roc + 1 ELSE roc, seq |-> IF last THEN 0 ELSE seq + 1]
  <1>1. /\ roc < RocLimit /\ sent' = sent \cup {packet}
        /\ sink' = [sink EXCEPT ![ssrc] = next] /\ streams' = streams
    BY DEF Render
  <1>2. roc \in Nat /\ roc <= RocLimit /\ RocLimit \in Nat /\ Half \in Nat /\ Half > 0
        /\ seq \in Nat /\ seq <= 2 * Half - 1
    BY RtpStreamAssumption DEF IInv, TypeOK, Seq16
  <1>3. next \in [roc : 0 .. RocLimit, seq : Seq16]
    BY <1>1, <1>2 DEF Seq16
  <1>4. packet \in Packet
    BY <1>2 DEF Packet, Seq16
  <1>5. TypeOK'
    BY <1>1, <1>3, <1>4 DEF IInv, TypeOK
  <1>6. StreamFollowsSink'
    BY <1>1 DEF IInv, StreamFollowsSink
  <1>7. packet \notin sent
    BY <1>2 DEF IInv, Behind
  <1>8. Behind'
    <2> SUFFICES ASSUME NEW p \in sent'
                 PROVE  LET n == sink'[p.ssrc]
                        IN  p.roc < n.roc \/ (p.roc = n.roc /\ p.seq < n.seq)
      BY DEF Behind
    <2>1. p.ssrc \in Ssrc /\ p.roc \in Nat /\ p.seq \in Nat /\ p.seq <= 2 * Half - 1
      BY <1>5, <1>2 DEF TypeOK, Packet, Seq16
    <2>2. sink'[ssrc] = next /\ \A x \in Ssrc \ {ssrc} : sink'[x] = sink[x]
      BY <1>1 DEF IInv, TypeOK
    <2>3. CASE p = packet
      BY <1>2, <2>2, <2>3
    <2>4. CASE p \in sent /\ p.ssrc # ssrc
      BY <2>1, <2>2, <2>4 DEF IInv, Behind
    <2>5. CASE p \in sent /\ p.ssrc = ssrc
      <3>1. p.roc < roc \/ (p.roc = roc /\ p.seq < seq)
        BY <2>5 DEF IInv, Behind
      <3> QED BY <1>2, <2>1, <2>2, <2>5, <3>1
    <2> QED BY <1>1, <2>3, <2>4, <2>5
  <1> QED BY <1>1, <1>5, <1>6, <1>7, <1>8 DEF IInv

\* Accepting a packet makes its number that of its stream.
LEMMA ReceiveInvariant == ASSUME IInv, NEW packet \in sent, Receive(packet) PROVE IInv'
  <1>1. packet \in Packet
    BY DEF IInv, TypeOK
  <1>2. packet = [ssrc |-> packet.ssrc, roc |-> packet.roc, seq |-> packet.seq]
    BY <1>1 DEF Packet
  <1> DEFINE state == [seq_last |-> packet.seq, roc |-> packet.roc]
  <1>3. /\ streams' = [x \in DOMAIN streams \cup {packet.ssrc} |->
                          IF x = packet.ssrc THEN state ELSE streams[x]]
        /\ sink' = sink /\ sent' = sent
    BY DEF Receive
  <1>4. state \in [seq_last : Seq16, roc : 0 .. RocLimit] /\ packet.ssrc \in Ssrc
    BY <1>1 DEF Packet
  <1>5. TypeOK'
    BY <1>3, <1>4 DEF IInv, TypeOK
  <1>6. StreamFollowsSink'
    BY <1>2, <1>3 DEF IInv, StreamFollowsSink
  <1>7. Behind'
    BY <1>3 DEF IInv, Behind
  <1> QED BY <1>5, <1>6, <1>7 DEF IInv

\* The invariant, and the freshness of every packet that is sent.
THEOREM Invariant == Spec => []IInv
  <1>1. Init => IInv
    <2> SUFFICES ASSUME Init PROVE IInv
      OBVIOUS
    <2>1. sink \in [Ssrc -> [roc : 0 .. RocLimit, seq : Seq16]]
      <3>1. \A r \in [roc : {0}, seq : FirstSeq] : r \in [roc : 0 .. RocLimit, seq : Seq16]
        <4>1. 0 \in 0 .. RocLimit /\ FirstSeq \subseteq Seq16
          BY RtpStreamAssumption DEF Seq16
        <4> QED BY <4>1
      <3> QED BY <3>1 DEF Init
    <2>2. sent = {} /\ DOMAIN streams = {}
      BY DEF Init
    <2>3. streams \in [DOMAIN streams -> [seq_last : Seq16, roc : 0 .. RocLimit]]
      BY DEF Init
    <2> QED BY <2>1, <2>2, <2>3 DEF IInv, TypeOK, StreamFollowsSink, Behind
  <1>2. ASSUME IInv, [Next]_vars PROVE IInv'
    <2>1. CASE Next
      BY <1>2, <2>1, RenderInvariant, ReceiveInvariant DEF Next
    <2>2. CASE UNCHANGED vars
      BY <1>2, <2>2 DEF vars, IInv, TypeOK, StreamFollowsSink, Behind
    <2> QED BY <1>2, <2>1, <2>2
  <1> QED BY <1>1, <1>2, PTL DEF Spec

\* The counters of both ends are where a packet that was sent is.
THEOREM Follows == Spec => []StreamFollowsSink
  <1>1. IInv => StreamFollowsSink
    BY DEF IInv
  <1> QED BY <1>1, Invariant, PTL

\* Roll-over is right for every packet less than half a range away.
THEOREM RollOverVerifies == Spec => []NearPacketsVerified
  <1>1. ASSUME IInv PROVE NearPacketsVerified
    <2> SUFFICES ASSUME NEW packet \in sent, packet.ssrc \in DOMAIN streams,
                        NEW stream, stream = streams[packet.ssrc],
                        -Half < Number(packet.roc, packet.seq) - Number(stream.roc, stream.seq_last),
                        Number(packet.roc, packet.seq) - Number(stream.roc, stream.seq_last) < Half
                 PROVE  RollOver(stream, packet.seq) = packet.roc
      BY DEF NearPacketsVerified
    <2>1. packet.roc \in 0 .. RocLimit /\ packet.seq \in Seq16
          /\ stream \in [seq_last : Seq16, roc : 0 .. RocLimit]
      BY <1>1 DEF IInv, TypeOK, Packet
    <2> QED BY <2>1, RollOverCorrect
  <1> QED BY <1>1, Invariant, PTL

\* No nonce is used twice.
THEOREM Fresh == Spec => NonceFresh
  <1>1. ASSUME IInv, [Next]_vars
        PROVE  [\A ssrc \in Ssrc : Render(ssrc) => sent' # sent]_vars
    BY <1>1, RenderInvariant
  <1> QED BY <1>1, Invariant, PTL DEF Spec, NonceFresh

\* The variables keep their types.
THEOREM TypeCorrect == Spec => []TypeOK
  <1>1. IInv => TypeOK
    BY DEF IInv
  <1> QED BY <1>1, Invariant, PTL
=============================================================================
