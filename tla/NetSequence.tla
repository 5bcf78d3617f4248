---------------------------- MODULE NetSequence ----------------------------
(***************************************************************************)
(* The arithmetic of vital sequence numbers.  A sequence number lives in   *)
(* 0 .. MaxSeq-1 and wraps; half of that circle counts as "already seen".  *)
(***************************************************************************)
EXTENDS Integers

CONSTANT MaxSeq            \* NET_MAX_SEQUENCE, 1024 in the code

ASSUME MaxSeqAssumption == MaxSeq \in Nat /\ MaxSeq >= 2

SeqNumber == 0 .. MaxSeq - 1

(* Seeded bugs, for the mutation runs: a whole circle that counts as seen, an
   ack checked on one side only or for being new. *)
InBackroomWhole(s, ack) == s <= ack \/ s >= (ack - MaxSeq) + MaxSeq
AckValidOneSided(ack, peerAck, sequence) == peerAck <= ack \/ ack <= sequence
AckValidStrict(ack, peerAck, sequence) ==
  IF sequence >= peerAck THEN peerAck < ack /\ ack <= sequence
                         ELSE peerAck < ack \/ ack <= sequence

\* The sequence number after s.
Succ(s) == (s + 1) % MaxSeq

\* CNetBase::IsSeqInBackroom: s is the acknowledged number or one of the
\* MaxSeq/2 numbers before it on the circle.
InBackroom(s, ack) ==
  LET bottom == ack - (MaxSeq \div 2) IN
  IF bottom < 0 THEN s <= ack \/ s >= bottom + MaxSeq
                ELSE bottom <= s /\ s <= ack

\* The check at the head of CNetConnection::Feed: the acknowledgement ack of a
\* packet lies between the last accepted one and the own sequence number.
AckValid(ack, peerAck, sequence) ==
  IF sequence >= peerAck THEN peerAck <= ack /\ ack <= sequence
                         ELSE peerAck <= ack \/ ack <= sequence
=============================================================================
