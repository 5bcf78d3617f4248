------------------------ MODULE NetConnection_proofs ------------------------
(***************************************************************************)
(* Proofs about NetConnection, for every size of the sequence numbers, the *)
(* buffers and the packets, any number of messages and any network.        *)
(***************************************************************************)
EXTENDS NetConnection, SequenceTheorems, WellFoundedInduction, TLAPS

-----------------------------------------------------------------------------
(* Sequence numbers: the number of the a-th vital message is a % MaxSeq.   *)

\* Division with remainder by a positive number.
LEMMA Division ==
  ASSUME NEW a \in Nat
  PROVE  /\ (a % MaxSeq) \in SeqNumber
         /\ a \div MaxSeq \in Nat
         /\ a = MaxSeq * (a \div MaxSeq) + (a % MaxSeq)
  BY MaxSeqAssumption DEF SeqNumber

\* A multiple of MaxSeq that is not 0 is at least MaxSeq away from 0.
LEMMA Multiple ==
  ASSUME NEW q \in Int
  PROVE  /\ MaxSeq * q \in Int
         /\ q >= 1 => MaxSeq * q >= MaxSeq
         /\ q <= -1 => MaxSeq * q <= -MaxSeq
  BY MaxSeqAssumption

\* Two numbers differ by a multiple of MaxSeq and the difference of their
\* remainders.
LEMMA Difference ==
  ASSUME NEW a \in Nat, NEW b \in Nat
  PROVE  /\ (a \div MaxSeq) - (b \div MaxSeq) \in Int
         /\ a - b = (MaxSeq * ((a \div MaxSeq) - (b \div MaxSeq)))
                    + ((a % MaxSeq) - (b % MaxSeq))
<1> DEFINE x == a \div MaxSeq
           y == b \div MaxSeq
           r == a % MaxSeq
           t == b % MaxSeq
<1>1. /\ x \in Int /\ y \in Int /\ r \in Int /\ t \in Int
      /\ a = MaxSeq * x + r /\ b = MaxSeq * y + t
  BY Division, MaxSeqAssumption DEF SeqNumber
<1> HIDE DEF x, y, r, t
<1>2. /\ MaxSeq * (x - y) = MaxSeq * x - MaxSeq * y
      /\ MaxSeq * x \in Int /\ MaxSeq * y \in Int
  BY <1>1, MaxSeqAssumption
<1>3. x - y \in Int /\ a - b = (MaxSeq * (x - y)) + (r - t)
  BY <1>1, <1>2
<1> QED BY <1>3 DEF x, y, r, t

\* For numbers less than MaxSeq apart the remainders determine the difference,
\* up to one turn of the circle.
LEMMA Close ==
  ASSUME NEW a \in Nat, NEW b \in Nat, a - b < MaxSeq, b - a < MaxSeq
  PROVE  \/ a - b = (a % MaxSeq) - (b % MaxSeq)
         \/ a - b = ((a % MaxSeq) - (b % MaxSeq)) + MaxSeq
         \/ a - b = ((a % MaxSeq) - (b % MaxSeq)) - MaxSeq
<1> DEFINE q == (a \div MaxSeq) - (b \div MaxSeq)
<1>1. q \in Int /\ a - b = (MaxSeq * q) + ((a % MaxSeq) - (b % MaxSeq))
  BY Difference
<1>2. (a % MaxSeq) \in 0 .. MaxSeq - 1 /\ (b % MaxSeq) \in 0 .. MaxSeq - 1
  BY Division DEF SeqNumber
<1> HIDE DEF q
<1>3. q >= 2 => MaxSeq * (q - 1) >= MaxSeq
  BY <1>1, Multiple
<1>4. q <= -2 => MaxSeq * (q + 1) <= -MaxSeq
  BY <1>1, Multiple
<1>5. /\ MaxSeq * (q - 1) = MaxSeq * q - MaxSeq
      /\ MaxSeq * (q + 1) = MaxSeq * q + MaxSeq
      /\ MaxSeq * q \in Int
  BY <1>1, MaxSeqAssumption
<1>6. q \in {-1, 0, 1}
  BY <1>1, <1>2, <1>3, <1>4, <1>5, MaxSeqAssumption
<1>7. MaxSeq * (-1) = -MaxSeq /\ MaxSeq * 0 = 0 /\ MaxSeq * 1 = MaxSeq
  BY MaxSeqAssumption
<1> QED BY <1>1, <1>2, <1>6, <1>7, MaxSeqAssumption

\* The number of the next message is the successor of the number of this one.
THEOREM SuccOfNumber ==
  ASSUME NEW a \in Nat
  PROVE  Succ(a % MaxSeq) = (a + 1) % MaxSeq
<1>1. (a % MaxSeq) \in 0 .. MaxSeq - 1 /\ ((a + 1) % MaxSeq) \in 0 .. MaxSeq - 1
  BY Division DEF SeqNumber
<1>2. Succ(a % MaxSeq) = IF (a % MaxSeq) + 1 = MaxSeq THEN 0 ELSE (a % MaxSeq) + 1
  BY <1>1, MaxSeqAssumption DEF Succ
<1>3. a + 1 \in Nat /\ (a + 1) - a < MaxSeq /\ a - (a + 1) < MaxSeq
  BY MaxSeqAssumption
<1>4. \/ (a + 1) - a = ((a + 1) % MaxSeq) - (a % MaxSeq)
      \/ (a + 1) - a = (((a + 1) % MaxSeq) - (a % MaxSeq)) + MaxSeq
      \/ (a + 1) - a = (((a + 1) % MaxSeq) - (a % MaxSeq)) - MaxSeq
  BY <1>3, Close
<1> QED BY <1>1, <1>2, <1>4, MaxSeqAssumption

\* Messages less than MaxSeq apart that have the same number are the same.
THEOREM NumbersDistinct ==
  ASSUME NEW a \in Nat, NEW b \in Nat, a - b < MaxSeq, b - a < MaxSeq,
         (a % MaxSeq) = (b % MaxSeq)
  PROVE  a = b
<1>1. (a % MaxSeq) \in 0 .. MaxSeq - 1 /\ (b % MaxSeq) \in 0 .. MaxSeq - 1
  BY Division DEF SeqNumber
<1>2. \/ a - b = (a % MaxSeq) - (b % MaxSeq)
      \/ a - b = ((a % MaxSeq) - (b % MaxSeq)) + MaxSeq
      \/ a - b = ((a % MaxSeq) - (b % MaxSeq)) - MaxSeq
  BY Close
<1> QED BY <1>1, <1>2, MaxSeqAssumption

\* IsSeqInBackroom tells old from new among messages less than half of the
\* sequence numbers away: seq a is in the backroom of ack b iff a <= b.
THEOREM BackroomIsOld ==
  ASSUME NEW a \in Nat, NEW b \in Nat, 2 * (a - b) < MaxSeq, 2 * (b - a) < MaxSeq
  PROVE  InBackroom(a % MaxSeq, b % MaxSeq) <=> a <= b
<1>1. (a % MaxSeq) \in 0 .. MaxSeq - 1 /\ (b % MaxSeq) \in 0 .. MaxSeq - 1
  BY Division DEF SeqNumber
<1>2. /\ MaxSeq \div 2 \in Nat
      /\ 2 * (MaxSeq \div 2) <= MaxSeq /\ MaxSeq <= 2 * (MaxSeq \div 2) + 1
  BY MaxSeqAssumption
<1>3. a - b < MaxSeq /\ b - a < MaxSeq
  BY MaxSeqAssumption
<1>4. \/ a - b = (a % MaxSeq) - (b % MaxSeq)
      \/ a - b = ((a % MaxSeq) - (b % MaxSeq)) + MaxSeq
      \/ a - b = ((a % MaxSeq) - (b % MaxSeq)) - MaxSeq
  BY <1>3, Close
<1> QED BY <1>1, <1>2, <1>4, MaxSeqAssumption DEF InBackroom

\* Feed's check tells newer from older acknowledgements: with the own sequence
\* number s, the last accepted acknowledgement p and an acknowledgement a of
\* messages within MaxSeq of each other, a is valid iff it is not before p.
THEOREM ValidIsNewer ==
  ASSUME NEW s \in Nat, NEW p \in Nat, NEW a \in Nat,
         p <= s, a <= s, s - p < MaxSeq, s - a < MaxSeq
  PROVE  AckValid(a % MaxSeq, p % MaxSeq, s % MaxSeq) => p <= a
<1>1. /\ (a % MaxSeq) \in 0 .. MaxSeq - 1
      /\ (p % MaxSeq) \in 0 .. MaxSeq - 1
      /\ (s % MaxSeq) \in 0 .. MaxSeq - 1
  BY Division DEF SeqNumber
<1>0. p - s < MaxSeq /\ a - s < MaxSeq
  BY MaxSeqAssumption
<1>2. \/ s - p = (s % MaxSeq) - (p % MaxSeq)
      \/ s - p = ((s % MaxSeq) - (p % MaxSeq)) + MaxSeq
      \/ s - p = ((s % MaxSeq) - (p % MaxSeq)) - MaxSeq
  BY <1>0, Close
<1>3. \/ s - a = (s % MaxSeq) - (a % MaxSeq)
      \/ s - a = ((s % MaxSeq) - (a % MaxSeq)) + MaxSeq
      \/ s - a = ((s % MaxSeq) - (a % MaxSeq)) - MaxSeq
  BY <1>0, Close
<1> QED BY <1>1, <1>2, <1>3, MaxSeqAssumption DEF AckValid

-----------------------------------------------------------------------------
(* Sequences.                                                              *)

\* A part of a sequence has only elements of the sequence.
LEMMA PartOf ==
  ASSUME NEW S, NEW s \in Seq(S), NEW m \in Int, NEW n \in Int, 1 <= m, n <= Len(s)
  PROVE  /\ SubSeq(s, m, n) \in Seq(S)
         /\ Elements(SubSeq(s, m, n)) \subseteq Elements(s)
         /\ Len(SubSeq(s, m, n)) = IF m <= n THEN n - m + 1 ELSE 0
         /\ \A i \in 1 .. Len(SubSeq(s, m, n)) : SubSeq(s, m, n)[i] = s[m + i - 1]
<1>1. Len(s) \in Nat /\ DOMAIN s = 1 .. Len(s)
  BY LenProperties
<1>2. \A i \in m .. n : s[i] \in S
  BY <1>1, ElementOfSeq
<1> DEFINE t == SubSeq(s, m, n)
<1>3. /\ t \in Seq(S)
      /\ Len(t) = IF m <= n THEN n - m + 1 ELSE 0
      /\ \A i \in 1 .. n - m + 1 : t[i] = s[m + i - 1]
  BY <1>2, SubSeqProperties
<1>4. DOMAIN t = 1 .. Len(t)
  BY <1>3, LenProperties
<1> HIDE DEF t
<1>5. \A i \in 1 .. Len(t) : t[i] = s[m + i - 1] /\ m + i - 1 \in 1 .. Len(s)
  BY <1>1, <1>3
<1>6. Elements(t) \subseteq Elements(s)
  BY <1>1, <1>4, <1>5 DEF Elements
<1> QED BY <1>3, <1>5, <1>6 DEF t

\* A concatenation has the elements of both parts.
LEMMA ConcatElements ==
  ASSUME NEW S, NEW s \in Seq(S), NEW t \in Seq(S)
  PROVE  /\ s \o t \in Seq(S)
         /\ Len(s \o t) = Len(s) + Len(t)
         /\ Elements(s \o t) \subseteq Elements(s) \cup Elements(t)
<1>1. /\ Len(s) \in Nat /\ DOMAIN s = 1 .. Len(s)
      /\ Len(t) \in Nat /\ DOMAIN t = 1 .. Len(t)
  BY LenProperties
<1>2. /\ s \o t \in Seq(S)
      /\ Len(s \o t) = Len(s) + Len(t)
      /\ \A i \in 1 .. Len(s) + Len(t) :
           (s \o t)[i] = IF i <= Len(s) THEN s[i] ELSE t[i - Len(s)]
  BY ConcatProperties
<1>3. DOMAIN (s \o t) = 1 .. Len(s) + Len(t)
  BY <1>2, LenProperties
<1>4. ASSUME NEW i \in 1 .. Len(s) + Len(t)
      PROVE  (s \o t)[i] \in Elements(s) \cup Elements(t)
  <2>1. CASE i <= Len(s)
    BY <1>1, <1>2, <2>1 DEF Elements
  <2>2. CASE ~(i <= Len(s))
    <3>1. i - Len(s) \in 1 .. Len(t) /\ (s \o t)[i] = t[i - Len(s)]
      BY <1>1, <1>2, <2>2
    <3> QED BY <1>1, <3>1 DEF Elements
  <2> QED BY <2>1, <2>2
<1> QED BY <1>2, <1>3, <1>4 DEF Elements

\* An element more at the end.
LEMMA AppendElements ==
  ASSUME NEW S, NEW s \in Seq(S), NEW e \in S
  PROVE  /\ Append(s, e) \in Seq(S)
         /\ Len(Append(s, e)) = Len(s) + 1
         /\ \A i \in 1 .. Len(s) : Append(s, e)[i] = s[i]
         /\ Append(s, e)[Len(s) + 1] = e
         /\ DOMAIN Append(s, e) = 1 .. Len(s) + 1
         /\ Elements(Append(s, e)) = Elements(s) \cup {e}
<1>1. /\ Append(s, e) \in Seq(S)
      /\ Len(Append(s, e)) = Len(s) + 1
      /\ \A i \in 1 .. Len(s) : Append(s, e)[i] = s[i]
      /\ Append(s, e)[Len(s) + 1] = e
  BY AppendProperties
<1>2. Len(s) \in Nat /\ DOMAIN s = 1 .. Len(s)
  BY LenProperties
<1>3. DOMAIN Append(s, e) = 1 .. Len(s) + 1
  BY <1>1, LenProperties
<1> QED BY <1>1, <1>2, <1>3 DEF Elements

\* A set of natural numbers that is not empty has a least element.
LEMMA Least ==
  ASSUME NEW T, T \subseteq Nat, T # {}
  PROVE  \E i \in T : \A j \in T : i <= j
<1>1. IsWellFoundedOn(OpToRel(<, Nat), Nat)
  BY NatLessThanWellFounded, Zenon
<1>2. PICK i \in T : \A j \in T : ~ (<<j, i>> \in OpToRel(<, Nat))
  BY <1>1, WFMin, Zenon
<1>3. \A j \in T : ~(j < i)
  BY <1>2, Zenon DEF OpToRel
<1> QED BY <1>3
\* The whole packets that n chunks fill have no more than n chunks.
LEMMA Quotient ==
  ASSUME NEW n \in Nat, NEW d \in Nat \ {0}
  PROVE  n \div d \in Nat /\ (n \div d) * d <= n
<1>1. n \div d \in Nat /\ n = d * (n \div d) + (n % d) /\ (n % d) \in Nat
  OBVIOUS
<1> DEFINE q == n \div d
           r == n % d
<1>2. q \in Nat /\ n = d * q + r /\ r \in Nat
  BY <1>1
<1> HIDE DEF q, r
<1>3. d * q = q * d /\ d * q \in Nat
  BY <1>2
<1>4. q * d <= n
  BY <1>2, <1>3
<1> QED BY <1>2, <1>4 DEF q
-----------------------------------------------------------------------------
(* Building packets.                                                       *)

\* k is a packet of peer p with chunks of the set E only.
From(p, k, E) ==
  /\ k \in Packet
  /\ k.to = Other(p) /\ k.ack = ack[p] /\ k.upTo = Len(delivered[p])
  /\ Elements(k.chunks) \subseteq E

LEMMA Building ==
  ASSUME TypeOK, NEW p \in Peers, NEW r \in BOOLEAN, NEW chunks \in Seq(Chunk),
         NEW ctrl \in {"none", "keepalive", "close"}
  PROVE  From(p, PacketOf(p, ctrl, r, chunks), Elements(chunks))
<1>1. delivered[p] \in Seq(Nat) /\ ack[p] \in SeqNumber
  BY DEF TypeOK
<1>2. Len(delivered[p]) \in Nat
  BY <1>1, LenProperties
<1>3. Other(p) \in Peers
  BY DEF Peers, Other
<1> QED BY <1>1, <1>2, <1>3 DEF From, PacketOf, Packet

\* Queueing the chunks new: what leaves and what remains are chunks of the
\* construct and of new.
LEMMA Queueing ==
  ASSUME TypeOK, NEW p \in Peers, NEW new \in Seq(Chunk)
  PROVE  /\ Rest(p, new) \in [resend : BOOLEAN, chunks : Seq(Chunk)]
         /\ Elements(Rest(p, new).chunks)
              \subseteq Elements(construct[p].chunks) \cup Elements(new)
         /\ \A k \in Overflow(p, new) :
              From(p, k, Elements(construct[p].chunks) \cup Elements(new))
<1> DEFINE old == construct[p].chunks
           all == old \o new
           w == Whole(p, new)
<1>1. old \in Seq(Chunk) /\ construct[p].resend \in BOOLEAN
  BY DEF TypeOK
<1>2. /\ all \in Seq(Chunk)
      /\ Len(all) = Len(old) + Len(new)
      /\ Elements(all) \subseteq Elements(old) \cup Elements(new)
  BY <1>1, ConcatElements
<1>3. Len(old) \in Nat /\ Len(new) \in Nat /\ (new # << >> => Len(new) > 0)
  BY <1>1, LenProperties, EmptySeq
<1>4. PacketCap \in Nat \ {0}
  BY CapAssumption
<1>5. w \in Nat /\ w * PacketCap <= Len(all)
  <2>1. CASE new = << >>
    BY <1>2, <1>3, <1>4, <2>1 DEF Whole
  <2>2. CASE new # << >>
    <3>1. w = (Len(all) - 1) \div PacketCap /\ Len(all) - 1 \in Nat
      BY <1>2, <1>3, <2>2 DEF Whole
    <3>2. w \in Nat /\ w * PacketCap <= Len(all) - 1
      BY <3>1, <1>4, Quotient
    <3>3. w * PacketCap \in Int /\ Len(all) \in Int
      BY <3>2, <1>2, <1>3, <1>4
    <3> HIDE DEF all, w
    <3> QED BY <3>2, <3>3
  <2> QED BY <2>1, <2>2
<1> HIDE DEF w
<1>6. ASSUME NEW i \in 0 .. w - 1
      PROVE  /\ SubSeq(all, (i * PacketCap) + 1, (i + 1) * PacketCap) \in Seq(Chunk)
             /\ Elements(SubSeq(all, (i * PacketCap) + 1, (i + 1) * PacketCap))
                  \subseteq Elements(all)
  <2>1. /\ (i * PacketCap) + 1 \in Int /\ 1 <= (i * PacketCap) + 1
        /\ (i + 1) * PacketCap \in Int
    BY <1>4, <1>5
  <2>2. (i + 1) * PacketCap <= w * PacketCap
    BY <1>4, <1>5
  <2>3. Len(all) \in Nat /\ w * PacketCap \in Int
    BY <1>2, <1>3, <1>4, <1>5
  <2>4. (i + 1) * PacketCap <= Len(all)
    BY <1>5, <2>1, <2>2, <2>3
  <2> HIDE DEF all
  <2> QED BY <1>2, <2>1, <2>4, PartOf
<1>7. /\ SubSeq(all, (w * PacketCap) + 1, Len(all)) \in Seq(Chunk)
      /\ Elements(SubSeq(all, (w * PacketCap) + 1, Len(all))) \subseteq Elements(all)
  <2>1. (w * PacketCap) + 1 \in Int /\ 1 <= (w * PacketCap) + 1
    BY <1>4, <1>5
  <2>2. Len(all) \in Int /\ Len(all) <= Len(all)
    BY <1>2, <1>3
  <2> HIDE DEF all
  <2> QED BY <1>2, <2>1, <2>2, PartOf
<1>8. /\ Rest(p, new) \in [resend : BOOLEAN, chunks : Seq(Chunk)]
      /\ Elements(Rest(p, new).chunks) \subseteq Elements(all)
  <2>1. Rest(p, new) = [resend |-> w = 0 /\ construct[p].resend,
                        chunks |-> SubSeq(all, (w * PacketCap) + 1, Len(all))]
    BY DEF Rest, w
  <2> HIDE DEF all
  <2> QED BY <1>1, <1>7, <2>1
<1>9. ASSUME NEW k \in Overflow(p, new)
      PROVE  From(p, k, Elements(all))
  <2>1. PICK i \in 0 .. w - 1 :
          k = PacketOf(p, "none", i = 0 /\ construct[p].resend,
                       SubSeq(all, (i * PacketCap) + 1, (i + 1) * PacketCap))
    BY DEF Overflow, w
  <2> HIDE DEF all
  <2>2. From(p, k, Elements(SubSeq(all, (i * PacketCap) + 1, (i + 1) * PacketCap)))
    BY <1>1, <1>6, <2>1, Building
  <2> QED BY <1>6, <2>2 DEF From
<1> HIDE DEF all, old
<1>10. \A k \in Overflow(p, new) : From(p, k, Elements(old) \cup Elements(new))
  BY <1>2, <1>9 DEF From
<1> QED BY <1>2, <1>8, <1>10 DEF old

\* A flush sends the chunks of the construct it is given.
LEMMA Flushing ==
  ASSUME TypeOK, NEW p \in Peers, NEW c \in [resend : BOOLEAN, chunks : Seq(Chunk)]
  PROVE  \A k \in Flushed(p, c) : From(p, k, Elements(c.chunks))
<1>1. c.resend \in BOOLEAN /\ c.chunks \in Seq(Chunk)
  OBVIOUS
<1> QED BY <1>1, Building DEF Flushed

\* A control packet has no chunks.
LEMMA Controlling ==
  ASSUME TypeOK, NEW p \in Peers, NEW ctrl \in {"keepalive", "close"}
  PROVE  From(p, Control(p, ctrl), {})
<1>1. << >> \in Seq(Chunk) /\ Elements(<< >>) = {}
  BY EmptySeq DEF Elements
<1>2. From(p, PacketOf(p, ctrl, FALSE, << >>), Elements(<< >>))
  BY <1>1, Building
<1> QED BY <1>1, <1>2 DEF Control

\* AckChunks keeps a part of the buffer, up to its end; if the buffer is in
\* ascending order of messages and old and new chunks are told apart by the
\* message u, it keeps the chunks after u and no others.
LEMMA Acking ==
  ASSUME NEW chunks \in Seq(Chunk), NEW a
  PROVE  /\ AckChunks(chunks, a) \in Seq(Chunk)
         /\ Elements(AckChunks(chunks, a)) \subseteq Elements(chunks)
<1> DEFINE left == {i \in DOMAIN chunks : ~InBackroom(chunks[i].seq, a)}
<1>1. DOMAIN chunks = 1 .. Len(chunks) /\ Len(chunks) \in Nat
  BY LenProperties
<1>2. CASE left = {}
  <2>1. AckChunks(chunks, a) = << >>
    BY <1>2 DEF AckChunks
  <2> QED BY <2>1, EmptySeq DEF Elements
<1>3. CASE left # {}
  <2> DEFINE i == CHOOSE j \in left : \A l \in left : j <= l
  <2>1. \E j \in left : \A l \in left : j <= l
    <3>1. left \subseteq Nat
      BY <1>1
    <3> HIDE DEF left
    <3> QED BY <1>3, <3>1, Least
  <2>2. i \in left
    BY <2>1
  <2>3. AckChunks(chunks, a) = SubSeq(chunks, i, Len(chunks))
    BY <1>3 DEF AckChunks
  <2>4. i \in 1 .. Len(chunks)
    BY <1>1, <2>2
  <2> HIDE DEF i, left
  <2> QED BY <1>1, <2>3, <2>4, PartOf
<1> QED BY <1>2, <1>3
-----------------------------------------------------------------------------
(* Types.                                                                  *)

\* The network gains the packets given to it and no others.
LEMMA Transmitting ==
  ASSUME NEW gone, NEW new, Transmit(gone, new)
  PROVE  net' \subseteq net \cup new
  BY DEF Transmit

LEMMA ResetTypes ==
  ASSUME TypeOK, NEW p \in Peers, Reset(p)
  PROVE  /\ state' \in [Peers -> {"offline", "online", "error"}]
         /\ sequence' \in [Peers -> SeqNumber]
         /\ ack' \in [Peers -> SeqNumber]
         /\ peerAck' \in [Peers -> SeqNumber]
         /\ buffer' \in [Peers -> Seq(Chunk)]
         /\ construct' \in [Peers -> [resend : BOOLEAN, chunks : Seq(Chunk)]]
         /\ resendRequested' \in [Peers -> BOOLEAN]
         /\ timeoutSituation' \in [Peers -> BOOLEAN]
         /\ remoteClosed' \in [Peers -> BOOLEAN]
<1>1. << >> \in Seq(Chunk) /\ 0 \in SeqNumber
  BY EmptySeq, MaxSeqAssumption DEF SeqNumber
<1>2. NoChunks \in [resend : BOOLEAN, chunks : Seq(Chunk)]
  BY <1>1 DEF NoChunks
<1> QED BY <1>1, <1>2 DEF TypeOK, Reset

LEMMA SuccType == ASSUME NEW s \in SeqNumber PROVE Succ(s) \in SeqNumber
  BY MaxSeqAssumption DEF SeqNumber, Succ

\* What UpdateOnline queues and sends: chunks of the resend buffer and of the
\* construct.
LEMMA OnlineSends ==
  ASSUME TypeOK, NEW p \in Peers, NEW answer \in BOOLEAN, NEW again \in BOOLEAN,
         NEW idle \in BOOLEAN, UpdateOnline(p, answer, again, idle)
  PROVE  \E resent \in Seq(Chunk) : \E new :
           /\ Elements(resent) \subseteq Elements(buffer[p])
           /\ Transmit({}, new)
           /\ \A k \in new :
                From(p, k, Elements(construct[p].chunks) \cup Elements(resent))
           /\ construct' = [construct EXCEPT ![p] = Rest(p, resent)]
                \/ construct' = [construct EXCEPT ![p] = NoChunks]
<1> DEFINE resent == IF resendRequested[p] /\ answer THEN buffer[p]
                     ELSE IF again /\ buffer[p] # << >> THEN <<buffer[p][1]>>
                     ELSE << >>
           overflow == Overflow(p, resent)
           flushed == IF idle /\ overflow = {} THEN Flushed(p, Rest(p, resent)) ELSE {}
           keepAlive == IF idle /\ overflow \cup flushed = {}
                        THEN {Control(p, "keepalive")} ELSE {}
           E == Elements(construct[p].chunks) \cup Elements(resent)
<1>1. buffer[p] \in Seq(Chunk)
  BY DEF TypeOK
<1>2. resent \in Seq(Chunk) /\ Elements(resent) \subseteq Elements(buffer[p])
  <2>1. << >> \in Seq(Chunk) /\ Elements(<< >>) = {}
    BY EmptySeq DEF Elements
  <2>2. ASSUME buffer[p] # << >>
        PROVE  /\ <<buffer[p][1]>> \in Seq(Chunk)
               /\ Elements(<<buffer[p][1]>>) \subseteq Elements(buffer[p])
    <3>1. 1 \in DOMAIN buffer[p] /\ buffer[p][1] \in Chunk
      BY <1>1, <2>2, EmptySeq, LenProperties, ElementOfSeq
    <3> QED BY <3>1 DEF Elements
  <2> QED BY <1>1, <2>1, <2>2
<1>3. /\ Transmit({}, overflow \cup flushed \cup keepAlive)
      /\ construct' = [construct EXCEPT ![p] = Rest(p, resent)]
           \/ construct' = [construct EXCEPT ![p] = NoChunks]
  BY DEF UpdateOnline
<1> HIDE DEF resent
<1>4. /\ \A k \in overflow : From(p, k, E)
      /\ Rest(p, resent) \in [resend : BOOLEAN, chunks : Seq(Chunk)]
      /\ Elements(Rest(p, resent).chunks) \subseteq E
  BY <1>2, Queueing
<1>5. \A k \in flushed : From(p, k, E)
  BY <1>4, Flushing DEF From
<1>6. \A k \in keepAlive : From(p, k, E)
  BY Controlling DEF From
<1> DEFINE new == overflow \cup flushed \cup keepAlive
<1>7. Transmit({}, new) /\ \A k \in new : From(p, k, E)
  BY <1>3, <1>4, <1>5, <1>6
<1> HIDE DEF new
<1> USE <1>2
<1> WITNESS resent \in Seq(Chunk)
<1> WITNESS new
<1> QED BY <1>2, <1>3, <1>7

LEMMA InitTypes == Init => TypeOK
<1>1. << >> \in Seq(Chunk) /\ << >> \in Seq(Nat) /\ 0 \in SeqNumber
  BY EmptySeq, MaxSeqAssumption DEF SeqNumber
<1> QED BY <1>1 DEF Init, TypeOK, NoChunks

LEMMA NextTypes == TypeOK /\ [Next]_vars => TypeOK'
<1> SUFFICES ASSUME TypeOK, [Next]_vars PROVE TypeOK'
  OBVIOUS
<1> USE DEF TypeOK
<1>0. << >> \in Seq(Chunk) /\ NoChunks \in [resend : BOOLEAN, chunks : Seq(Chunk)]
  BY EmptySeq DEF NoChunks
<1>1. ASSUME NEW p \in Peers, QueueChunk(p) PROVE TypeOK'
  <2>1. sequence' \in [Peers -> SeqNumber]
    BY <1>1, SuccType DEF QueueChunk
  <2>2. CASE state[p] # "online"
    BY <1>1, <2>1, <2>2 DEF QueueChunk
  <2>3. CASE state[p] = "online"
    <3> DEFINE msg == sent[p] + 1
               chunk == [seq |-> Succ(sequence[p]), msg |-> msg]
    <3>1. msg \in Nat /\ chunk \in Chunk
      BY SuccType DEF Chunk
    <3>2. <<chunk>> \in Seq(Chunk)
      BY <3>1
    <3>3. /\ construct' = [construct EXCEPT ![p] = Rest(p, <<chunk>>)]
          /\ Transmit({}, Overflow(p, <<chunk>>))
          /\ sent' = [sent EXCEPT ![p] = msg]
          /\ buffer' = [buffer EXCEPT ![p] = Append(@, chunk)] \/ buffer' = buffer
          /\ unsaved' = unsaved \/ unsaved' = [unsaved EXCEPT ![p] = @ \cup {msg}]
          /\ UNCHANGED <<state, ack, peerAck, resendRequested, timeoutSituation,
                         remoteClosed, unpacker, delivered, acked>>
      BY <1>1, <2>3 DEF QueueChunk
    <3> HIDE DEF chunk, msg
    <3>4. construct' \in [Peers -> [resend : BOOLEAN, chunks : Seq(Chunk)]]
      BY <3>2, <3>3, Queueing
    <3>5. net' \subseteq Packet
      BY <3>2, <3>3, Queueing, Transmitting DEF From
    <3>6. Append(buffer[p], chunk) \in Seq(Chunk)
      BY <3>1, AppendElements
    <3>7. buffer' \in [Peers -> Seq(Chunk)]
      BY <3>3, <3>6
    <3>8. sent' \in [Peers -> Nat] /\ unsaved' \in [Peers -> SUBSET Nat]
      <4>1. unsaved[p] \cup {msg} \in SUBSET Nat
        BY <3>1
      <4>2. sent' \in [Peers -> Nat]
        BY <3>1, <3>3
      <4>3. unsaved' \in [Peers -> SUBSET Nat]
        BY <3>1, <3>3, <4>1
      <4> QED BY <4>2, <4>3
    <3> QED BY <2>1, <3>3, <3>4, <3>5, <3>7, <3>8
  <2> QED BY <2>2, <2>3
<1>2. ASSUME NEW p \in Peers, Flush(p) PROVE TypeOK'
  <2>1. net' \subseteq Packet
    BY <1>2, Flushing, Transmitting DEF Flush, From
  <2> QED BY <1>0, <1>2, <2>1 DEF Flush, history
<1>3. ASSUME NEW p \in Peers, Disconnect(p) PROVE TypeOK'
  <2>1. net' \subseteq Packet
    BY <1>3, Controlling, Transmitting DEF Disconnect, From
  <2> QED BY <1>3, <2>1, ResetTypes DEF Disconnect, history
<1>4. ASSUME NEW p \in Peers, UnpackNextChunk(p) PROVE TypeOK'
  <2> DEFINE chunk == Head(unpacker[p])
  <2>1. unpacker[p] \in Seq(Chunk) /\ unpacker[p] # << >>
    BY <1>4 DEF UnpackNextChunk
  <2>2. chunk \in Chunk /\ Tail(unpacker[p]) \in Seq(Chunk)
    BY <2>1, HeadTailProperties
  <2>3. chunk.seq \in SeqNumber /\ chunk.msg \in Nat
    BY <2>2 DEF Chunk
  <2>4. Append(delivered[p], chunk.msg) \in Seq(Nat)
    BY <2>3, AppendElements
  <2>5. /\ ack' = ack \/ ack' = [ack EXCEPT ![p] = chunk.seq]
        /\ \/ delivered' = delivered
           \/ delivered' = [delivered EXCEPT ![p] = Append(@, chunk.msg)]
        /\ \/ unpacker' = [unpacker EXCEPT ![p] = Tail(@)]
           \/ unpacker' = [unpacker EXCEPT ![p] = << >>]
        /\ construct' = construct \/ construct' = [construct EXCEPT ![p].resend = TRUE]
        /\ UNCHANGED <<state, sequence, peerAck, buffer, resendRequested,
                       timeoutSituation, remoteClosed, net, sent, acked, unsaved>>
    BY <1>4 DEF UnpackNextChunk
  <2> HIDE DEF chunk
  <2>6. construct' \in [Peers -> [resend : BOOLEAN, chunks : Seq(Chunk)]]
    <3> DEFINE R == [resend : BOOLEAN, chunks : Seq(Chunk)]
               c == [construct[p] EXCEPT !.resend = TRUE]
    <3>1. c \in R /\ construct \in [Peers -> R]
      OBVIOUS
    <3>2. construct' = construct \/ construct' = [construct EXCEPT ![p] = c]
      BY <2>5
    <3> HIDE DEF c, R
    <3>3. construct' \in [Peers -> R]
      BY <3>1, <3>2
    <3> QED BY <3>3 DEF R
  <2>7. ack' \in [Peers -> SeqNumber]
    BY <2>3, <2>5
  <2>8. delivered' \in [Peers -> Seq(Nat)]
    BY <2>4, <2>5
  <2>9. unpacker' \in [Peers -> Seq(Chunk)]
    BY <1>0, <2>2, <2>5
  <2> QED BY <2>5, <2>6, <2>7, <2>8, <2>9
<1>5. ASSUME NEW p \in Peers, NEW over \in BOOLEAN, UpdateErrored(p, over)
      PROVE  TypeOK'
  <2>1. net' \subseteq Packet
    BY <1>5, Controlling, Transmitting DEF UpdateErrored, From
  <2> QED BY <1>5, <2>1, ResetTypes DEF UpdateErrored, history
<1>6. ASSUME NEW p \in Peers, NEW answer \in BOOLEAN, NEW silence \in BOOLEAN,
             UpdateTimedOut(p, answer, silence)
      PROVE  TypeOK'
  <2> DEFINE resent == IF resendRequested[p] /\ answer THEN buffer[p] ELSE << >>
  <2>1. resent \in Seq(Chunk)
    BY <1>0
  <2>2. /\ Transmit({}, Overflow(p, resent))
        /\ UNCHANGED <<unpacker, sent, delivered, acked, unsaved>>
    BY <1>6 DEF UpdateTimedOut, history
  <2> HIDE DEF resent
  <2>3. net' \subseteq Packet
    BY <2>1, <2>2, Queueing, Transmitting DEF From
  <2>4. CASE p \notin Protected
    <3>1. Reset(p)
      BY <1>6, <2>4 DEF UpdateTimedOut
    <3> QED BY <2>2, <2>3, <3>1, ResetTypes
  <2>5. CASE p \in Protected
    <3>1. Rest(p, resent) \in [resend : BOOLEAN, chunks : Seq(Chunk)]
      BY <2>1, Queueing
    <3>2. /\ state' = [state EXCEPT ![p] = "error"]
          /\ timeoutSituation' = [timeoutSituation EXCEPT ![p] = TRUE]
          /\ construct' = [construct EXCEPT ![p] = Rest(p, resent)]
          /\ resendRequested' = [resendRequested EXCEPT ![p] = @ /\ ~answer]
          /\ UNCHANGED <<sequence, ack, peerAck, buffer, remoteClosed>>
      BY <1>6, <2>5 DEF UpdateTimedOut, resent
    <3> QED BY <2>2, <2>3, <3>1, <3>2
  <2> QED BY <2>4, <2>5
<1>7. ASSUME NEW p \in Peers, NEW answer \in BOOLEAN, NEW again \in BOOLEAN,
             NEW idle \in BOOLEAN, UpdateOnline(p, answer, again, idle)
      PROVE  TypeOK'
  <2>1. PICK resent \in Seq(Chunk) : \E new :
          /\ Elements(resent) \subseteq Elements(buffer[p])
          /\ Transmit({}, new)
          /\ \A k \in new :
               From(p, k, Elements(construct[p].chunks) \cup Elements(resent))
          /\ construct' = [construct EXCEPT ![p] = Rest(p, resent)]
               \/ construct' = [construct EXCEPT ![p] = NoChunks]
    <3> HIDE DEF TypeOK
    <3> QED BY <1>7, OnlineSends
  <2>2. net' \subseteq Packet
    BY <2>1, Transmitting DEF From
  <2>3. construct' \in [Peers -> [resend : BOOLEAN, chunks : Seq(Chunk)]]
    <3>1. Rest(p, resent) \in [resend : BOOLEAN, chunks : Seq(Chunk)]
      BY Queueing
    <3> QED BY <1>0, <2>1, <3>1
  <2>4. /\ resendRequested' = [resendRequested EXCEPT ![p] = @ /\ ~answer]
        /\ timeoutSituation' = [timeoutSituation EXCEPT ![p] = FALSE]
        /\ UNCHANGED <<state, sequence, ack, peerAck, buffer, remoteClosed,
                       unpacker, sent, delivered, acked, unsaved>>
    BY <1>7 DEF UpdateOnline, history
  <2> QED BY <2>2, <2>3, <2>4
<1>8. ASSUME NEW pkt \in net, Lose(pkt) PROVE TypeOK'
  BY <1>8 DEF Lose, connVars, history
<1>9. ASSUME NEW pkt \in net, NEW p \in Peers, Feed(p, pkt) PROVE TypeOK'
  <2>1. PICK gone \in {{}, {pkt}} :
          \/ \E answer \in BOOLEAN : Accept(p, pkt, gone, answer)
          \/ Transmit(gone, {}) /\ UNCHANGED <<connVars, unpacker, history>>
    BY <1>9 DEF Feed
  <2>2. CASE Transmit(gone, {}) /\ UNCHANGED <<connVars, unpacker, history>>
    <3>1. net' \subseteq Packet
      BY <2>2, Transmitting
    <3> QED BY <1>0, <2>2, <3>1 DEF connVars, history
  <2>3. ASSUME NEW answer \in BOOLEAN, Accept(p, pkt, gone, answer) PROVE TypeOK'
    <3> DEFINE requested == resendRequested[p] \/ pkt.resend
               resent == IF requested /\ answer THEN buffer[p] ELSE << >>
    <3>1. resent \in Seq(Chunk)
      BY <1>0
    <3>2. /\ pkt.ack \in SeqNumber /\ pkt.upTo \in Nat /\ pkt.resend \in BOOLEAN
          /\ pkt.chunks \in Seq(Chunk)
      BY DEF Packet
    <3>3. /\ construct' = [construct EXCEPT ![p] = Rest(p, resent)]
          /\ Transmit(gone, Overflow(p, resent))
      BY <2>3 DEF Accept
    <3>4. resendRequested' \in [Peers -> BOOLEAN]
      BY <2>3, <3>2 DEF Accept
    <3> HIDE DEF resent, requested
    <3>5. net' \subseteq Packet
      BY <3>1, <3>3, Queueing, Transmitting DEF From
    <3>6. construct' \in [Peers -> [resend : BOOLEAN, chunks : Seq(Chunk)]]
      BY <3>1, <3>3, Queueing
    <3>7. AckChunks(buffer[p], pkt.ack) \in Seq(Chunk)
      BY Acking
    <3>8. /\ state' \in [Peers -> {"offline", "online", "error"}]
          /\ remoteClosed' \in [Peers -> BOOLEAN]
          /\ buffer' \in [Peers -> Seq(Chunk)]
      <4>1. \/ /\ state' = [state EXCEPT ![p] = "error"]
               /\ remoteClosed' = [remoteClosed EXCEPT ![p] = TRUE]
               /\ buffer' = buffer
            \/ /\ buffer' = [buffer EXCEPT ![p] = AckChunks(@, pkt.ack)]
               /\ state' = state /\ remoteClosed' = remoteClosed
        BY <2>3 DEF Accept
      <4>2. buffer' \in [Peers -> Seq(Chunk)]
        BY <3>7, <4>1
      <4>3. state' \in [Peers -> {"offline", "online", "error"}]
        BY <4>1
      <4>4. remoteClosed' \in [Peers -> BOOLEAN]
        BY <4>1
      <4> QED BY <4>2, <4>3, <4>4
    <3>9. /\ peerAck' \in [Peers -> SeqNumber] /\ acked' \in [Peers -> Nat]
          /\ unpacker' \in [Peers -> Seq(Chunk)]
      BY <2>3, <3>2 DEF Accept
    <3>10. UNCHANGED <<sequence, ack, timeoutSituation, sent, delivered, unsaved>>
      BY <2>3 DEF Accept
    <3> QED BY <3>4, <3>5, <3>6, <3>8, <3>9, <3>10
  <2> QED BY <2>1, <2>2, <2>3
<1>10. CASE UNCHANGED vars
  BY <1>10 DEF vars, connVars, history
<1> QED
  BY <1>1, <1>2, <1>3, <1>4, <1>5, <1>6, <1>7, <1>8, <1>9, <1>10
  DEF Next, Step, Update

\* Every variable keeps its type.
THEOREM TypesOK == Spec => []TypeOK
  BY InitTypes, NextTypes, PTL DEF Spec
-----------------------------------------------------------------------------
(* The inductive invariant.  It relates the numbers modulo MaxSeq, which   *)
(* the code keeps, to the messages they stand for.                         *)

\* Chunk c is one of the n messages sent, recent enough to be told from others.
Recent(n, c) ==
  /\ c.seq = (c.msg % MaxSeq)
  /\ c.msg \in 1 .. n /\ n - c.msg <= Window

\* Chunk c is a recent message of peer p.
Good(p, c) == Recent(sent[p], c)

\* A packet acknowledges what its sender got, and carries good chunks.
GoodPacket(k) ==
  /\ k.ack = (k.upTo % MaxSeq)
  /\ k.upTo <= Len(delivered[Other(k.to)]) /\ sent[k.to] - k.upTo <= Window
  /\ \A c \in Elements(k.chunks) : Good(Other(k.to), c)

\* The numbers of a connection that is up stand for the messages counted.
Numbers ==
  \A p \in Peers :
    /\ state[p] = "online" => sequence[p] = (sent[p] % MaxSeq)
    /\ state[p] # "offline" => /\ ack[p] = (Len(delivered[p]) % MaxSeq)
                               /\ peerAck[p] = (acked[p] % MaxSeq)

\* Acknowledged, delivered and sent messages; the window of the sender.
Counts ==
  \A p \in Peers :
    /\ acked[p] <= Len(delivered[Other(p)])
    /\ Len(delivered[Other(p)]) <= sent[p]
    /\ sent[p] - acked[p] <= Window

\* What was delivered is 1, 2, 3, ...
Streams == \A p \in Peers : \A i \in DOMAIN delivered[p] : delivered[p][i] = i

\* The chunks being packed and unpacked are good.
ChunksGood ==
  \A p \in Peers : /\ \A c \in Elements(construct[p].chunks) : Good(p, c)
                   /\ \A c \in Elements(unpacker[p]) : Good(Other(p), c)

PacketsGood == \A k \in net : GoodPacket(k)

\* The resend buffer holds good chunks in order, none acknowledged while the
\* connection is up (a CLOSE acknowledges, but frees nothing).
BufferGood ==
  \A p \in Peers :
    /\ \A i \in DOMAIN buffer[p] :
         /\ Good(p, buffer[p][i])
         /\ state[p] = "online" => acked[p] < buffer[p][i].msg
    /\ \A i, j \in DOMAIN buffer[p] : i < j => buffer[p][i].msg < buffer[p][j].msg

\* Every unacknowledged message that was saved is in the buffer.
Saved ==
  \A p \in Peers :
    state[p] # "offline" =>
      \A m \in (acked[p] + 1) .. sent[p] :
        m \in unsaved[p] \/ \E i \in DOMAIN buffer[p] : buffer[p][i].msg = m

IInv == /\ TypeOK
        /\ Numbers /\ Counts /\ Streams
        /\ ChunksGood /\ PacketsGood /\ BufferGood /\ Saved
-----------------------------------------------------------------------------
(* Preservation.                                                           *)

LEMMA Others == \A p \in Peers : /\ Other(p) \in Peers /\ Other(p) # p
                                 /\ Other(Other(p)) = p
                                 /\ \A q \in Peers : q # p => q = Other(p)
  BY DEF Peers, Other

\* The numbers of TypeOK that arithmetic needs.
LEMMA Naturals ==
  ASSUME TypeOK
  PROVE  \A p \in Peers : /\ sent[p] \in Nat /\ acked[p] \in Nat
                          /\ Len(delivered[p]) \in Nat
                          /\ DOMAIN delivered[p] = 1 .. Len(delivered[p])
                          /\ DOMAIN buffer[p] = 1 .. Len(buffer[p])
                          /\ Len(buffer[p]) \in Nat
<1>1. ASSUME NEW p \in Peers
      PROVE  /\ sent[p] \in Nat /\ acked[p] \in Nat
             /\ delivered[p] \in Seq(Nat) /\ buffer[p] \in Seq(Chunk)
  BY DEF TypeOK
<1> QED BY <1>1, LenProperties

\* A packet of a connection that is up, with good chunks, is good.
LEMMA GoodFrom ==
  ASSUME TypeOK, Numbers, Counts, NEW p \in Peers, state[p] # "offline",
         NEW k, NEW E, From(p, k, E), \A c \in E : Good(p, c)
  PROVE  GoodPacket(k)
<1>1. /\ k.to = Other(p) /\ k.ack = ack[p] /\ k.upTo = Len(delivered[p])
      /\ Elements(k.chunks) \subseteq E
  BY DEF From
<1>2. ack[p] = (Len(delivered[p]) % MaxSeq)
  BY DEF Numbers
<1>3. /\ acked[Other(p)] <= Len(delivered[p])
      /\ sent[Other(p)] - acked[Other(p)] <= Window
  BY Others DEF Counts
<1>4. sent[Other(p)] - Len(delivered[p]) <= Window
  BY <1>3, Naturals, Others, WindowAssumption
<1>5. Len(delivered[p]) <= Len(delivered[Other(Other(p))])
  BY Others, Naturals
<1> QED BY <1>1, <1>2, <1>4, <1>5, Others DEF GoodPacket

\* Chunks that are good stay good when nothing is sent.
LEMMA BufferElements ==
  ASSUME BufferGood, NEW p \in Peers, NEW c \in Elements(buffer[p])
  PROVE  Good(p, c)
  BY DEF BufferGood, Elements

\* A step of peer p that submits and delivers nothing: the connection stays,
\* fails or is reset, and sends chunks it has in the construct or the buffer.
LEMMA QuietStep ==
  ASSUME IInv, TypeOK', NEW p \in Peers, state[p] # "offline",
         UNCHANGED <<history, unpacker>>, NEW new, net' \subseteq net \cup new,
         \A k \in new :
           From(p, k, Elements(construct[p].chunks) \cup Elements(buffer[p])),
         \A q \in Peers : q # p =>
           /\ state'[q] = state[q] /\ sequence'[q] = sequence[q]
           /\ ack'[q] = ack[q] /\ peerAck'[q] = peerAck[q]
           /\ buffer'[q] = buffer[q] /\ construct'[q] = construct[q],
         \/ /\ state'[p] = "offline" /\ buffer'[p] = << >>
            /\ construct'[p].chunks = << >>
         \/ /\ state'[p] \in {state[p], "error"} /\ sequence'[p] = sequence[p]
            /\ ack'[p] = ack[p] /\ peerAck'[p] = peerAck[p]
            /\ buffer'[p] = buffer[p]
            /\ Elements(construct'[p].chunks)
                 \subseteq Elements(construct[p].chunks) \cup Elements(buffer[p])
  PROVE  IInv'
<1> USE DEF IInv
<1>0. /\ UNCHANGED <<sent, delivered, acked, unsaved, unpacker>>
      /\ \A q, c : Good(q, c)' <=> Good(q, c)
      /\ Elements(<< >>) = {} /\ DOMAIN << >> = {}
  BY DEF history, Good, Elements
<1>1. Numbers'
  BY <1>0 DEF Numbers
<1>2. Counts' /\ Streams'
  BY <1>0 DEF Counts, Streams
<1>3. ChunksGood'
  <2>1. \A c \in Elements(construct[p].chunks) \cup Elements(buffer[p]) : Good(p, c)
    BY BufferElements DEF ChunksGood
  <2>2. ASSUME NEW q \in Peers, NEW c \in Elements(construct'[q].chunks)
        PROVE  Good(q, c)
    <3>1. CASE q # p
      BY <2>2, <3>1 DEF ChunksGood
    <3>2. CASE q = p
      BY <1>0, <2>1, <2>2, <3>2
    <3> QED BY <3>1, <3>2
  <2>3. ASSUME NEW q \in Peers, NEW c \in Elements(unpacker'[q])
        PROVE  Good(Other(q), c)
    BY <1>0, <2>3 DEF ChunksGood
  <2>4. ChunksGood' <=>
          \A q \in Peers : /\ \A c \in Elements(construct'[q].chunks) : Good(q, c)'
                           /\ \A c \in Elements(unpacker'[q]) : Good(Other(q), c)'
    BY DEF ChunksGood, Elements
  <2> QED BY <1>0, <2>2, <2>3, <2>4
<1>4. PacketsGood'
  <2>1. \A c \in Elements(construct[p].chunks) \cup Elements(buffer[p]) : Good(p, c)
    BY BufferElements DEF ChunksGood
  <2>2. \A k \in new : GoodPacket(k)
    BY <2>1, GoodFrom
  <2>3. \A k \in net' : GoodPacket(k)
    BY <2>2 DEF PacketsGood
  <2>4. \A k : GoodPacket(k)' <=> GoodPacket(k)
    BY <1>0 DEF GoodPacket
  <2> QED BY <2>3, <2>4 DEF PacketsGood
<1>5. BufferGood'
  <2>1. \A q \in Peers : \/ buffer'[q] = << >>
                         \/ buffer'[q] = buffer[q] /\ state'[q] \in {state[q], "error"}
    OBVIOUS
  <2>2. ASSUME NEW q \in Peers
        PROVE  /\ \A i \in DOMAIN (buffer'[q]) :
                    /\ Recent(sent[q], buffer'[q][i])
                    /\ state'[q] = "online" => acked[q] < buffer'[q][i].msg
               /\ \A i, j \in DOMAIN (buffer'[q]) :
                    i < j => buffer'[q][i].msg < buffer'[q][j].msg
    <3>1. CASE buffer'[q] = << >>
      BY <1>0, <3>1
    <3>2. CASE buffer'[q] = buffer[q] /\ state'[q] \in {state[q], "error"}
      BY <3>2 DEF BufferGood, Good
    <3> QED BY <2>1, <3>1, <3>2
  <2> QED BY <1>0, <2>2 DEF BufferGood, Good
<1>6. Saved'
  <2>1. \A q \in Peers : state'[q] # "offline" =>
          buffer'[q] = buffer[q] /\ state[q] # "offline"
    OBVIOUS
  <2> QED BY <1>0, <2>1 DEF Saved
<1> QED BY <1>1, <1>2, <1>3, <1>4, <1>5, <1>6

\* The steps that submit and deliver nothing.
LEMMA QuietSteps ==
  ASSUME IInv, TypeOK', NEW p \in Peers,
         \/ Flush(p) \/ Disconnect(p)
         \/ \E a, b, c \in BOOLEAN : \/ UpdateErrored(p, a)
                                     \/ UpdateTimedOut(p, a, b)
                                     \/ UpdateOnline(p, a, b, c)
  PROVE  IInv'
<1>a. TypeOK
  BY DEF IInv
<1>b. /\ construct \in [Peers -> [resend : BOOLEAN, chunks : Seq(Chunk)]]
      /\ state \in [Peers -> {"offline", "online", "error"}]
      /\ buffer \in [Peers -> Seq(Chunk)]
  BY <1>a DEF TypeOK
<1>c. NoChunks.chunks = << >> /\ Elements(<< >>) = {}
  BY DEF NoChunks, Elements
<1>0. /\ TypeOK /\ construct[p] \in [resend : BOOLEAN, chunks : Seq(Chunk)]
      /\ construct \in [Peers -> [resend : BOOLEAN, chunks : Seq(Chunk)]]
      /\ state \in [Peers -> {"offline", "online", "error"}]
      /\ buffer \in [Peers -> Seq(Chunk)]
      /\ NoChunks.chunks = << >> /\ Elements(<< >>) = {}
  BY <1>a, <1>b, <1>c
<1> DEFINE E == Elements(construct[p].chunks) \cup Elements(buffer[p])
           Kept == \A q \in Peers : q # p =>
                     /\ state'[q] = state[q] /\ sequence'[q] = sequence[q]
                     /\ ack'[q] = ack[q] /\ peerAck'[q] = peerAck[q]
                     /\ buffer'[q] = buffer[q] /\ construct'[q] = construct[q]
           Gone == /\ state'[p] = "offline" /\ buffer'[p] = << >>
                   /\ construct'[p].chunks = << >>
           Up == /\ state'[p] \in {state[p], "error"} /\ sequence'[p] = sequence[p]
                 /\ ack'[p] = ack[p] /\ peerAck'[p] = peerAck[p]
                 /\ buffer'[p] = buffer[p]
                 /\ Elements(construct'[p].chunks) \subseteq E
<1>1. ASSUME Reset(p) PROVE Kept /\ Gone
  BY <1>0, <1>1 DEF Reset, IInv, TypeOK
<1>2. CASE Flush(p)
  <2>1. \A k \in Flushed(p, construct[p]) : From(p, k, E)
    <3>1. \A k \in Flushed(p, construct[p]) :
            From(p, k, Elements(construct[p].chunks))
      BY <1>0, Flushing
    <3> QED BY <3>1 DEF From
  <2>2. /\ Kept /\ Up /\ state[p] # "offline" /\ UNCHANGED <<history, unpacker>>
        /\ net' \subseteq net \cup Flushed(p, construct[p])
    BY <1>0, <1>2, Transmitting DEF Flush
  <2> QED BY <2>1, <2>2, QuietStep
<1>3. CASE Disconnect(p)
  <2> DEFINE new == IF remoteClosed[p] \/ timeoutSituation[p] THEN {}
                    ELSE {Control(p, "close")}
  <2>1. \A k \in new : From(p, k, E)
    BY <1>0, Controlling DEF From
  <2>2. /\ Kept /\ Gone /\ state[p] # "offline" /\ UNCHANGED <<history, unpacker>>
        /\ net' \subseteq net \cup new
    BY <1>1, <1>3, Transmitting DEF Disconnect
  <2> HIDE DEF new
  <2> QED BY <2>1, <2>2, QuietStep
<1>4. ASSUME NEW over \in BOOLEAN, UpdateErrored(p, over) PROVE IInv'
  <2> DEFINE new == IF remoteClosed[p] \/ (timeoutSituation[p] /\ ~over) THEN {}
                    ELSE {Control(p, "close")}
  <2>1. \A k \in new : From(p, k, E)
    BY <1>0, Controlling DEF From
  <2>2. /\ Kept /\ Gone /\ state[p] # "offline" /\ UNCHANGED <<history, unpacker>>
        /\ net' \subseteq net \cup new
    BY <1>1, <1>4, Transmitting DEF UpdateErrored
  <2> HIDE DEF new
  <2> QED BY <2>1, <2>2, QuietStep
<1>5. ASSUME NEW answer \in BOOLEAN, NEW silence \in BOOLEAN,
             UpdateTimedOut(p, answer, silence)
      PROVE  IInv'
  <2> DEFINE resent == IF resendRequested[p] /\ answer THEN buffer[p] ELSE << >>
             new == Overflow(p, resent)
  <2>1. resent \in Seq(Chunk) /\ Elements(resent) \subseteq Elements(buffer[p])
    BY <1>0, EmptySeq
  <2>2. Transmit({}, new)
    BY <1>5 DEF UpdateTimedOut
  <2>3. /\ state[p] = "online" /\ UNCHANGED <<history, unpacker>>
        /\ \/ p \notin Protected /\ Reset(p)
           \/ /\ p \in Protected
              /\ state' = [state EXCEPT ![p] = "error"]
              /\ construct' = [construct EXCEPT ![p] = Rest(p, resent)]
              /\ UNCHANGED <<sequence, ack, peerAck, buffer, remoteClosed>>
    BY <1>5 DEF UpdateTimedOut
  <2> HIDE DEF resent
  <2>4. \A k \in new : From(p, k, E)
    BY <1>0, <2>1, Queueing DEF From
  <2>5. Elements(Rest(p, resent).chunks) \subseteq E
    BY <1>0, <2>1, Queueing
  <2>6. net' \subseteq net \cup new
    BY <2>2, Transmitting
  <2>7. Kept /\ (Gone \/ Up)
    <3>1. CASE p \in Protected
      BY <1>0, <2>3, <2>5, <3>1
    <3>2. CASE p \notin Protected
      BY <1>1, <2>3, <3>2
    <3> QED BY <3>1, <3>2
  <2> HIDE DEF new
  <2> QED BY <2>3, <2>4, <2>6, <2>7, QuietStep
<1>6. ASSUME NEW answer \in BOOLEAN, NEW again \in BOOLEAN, NEW idle \in BOOLEAN,
             UpdateOnline(p, answer, again, idle)
      PROVE  IInv'
  <2>1. PICK resent \in Seq(Chunk) : \E new :
          /\ Elements(resent) \subseteq Elements(buffer[p])
          /\ Transmit({}, new)
          /\ \A k \in new :
               From(p, k, Elements(construct[p].chunks) \cup Elements(resent))
          /\ construct' = [construct EXCEPT ![p] = Rest(p, resent)]
               \/ construct' = [construct EXCEPT ![p] = NoChunks]
    BY <1>0, <1>6, OnlineSends
  <2>2. PICK new :
          /\ Transmit({}, new)
          /\ \A k \in new :
               From(p, k, Elements(construct[p].chunks) \cup Elements(resent))
          /\ construct' = [construct EXCEPT ![p] = Rest(p, resent)]
               \/ construct' = [construct EXCEPT ![p] = NoChunks]
    BY <2>1
  <2>3. /\ state[p] = "online" /\ UNCHANGED <<history, unpacker>>
        /\ UNCHANGED <<state, sequence, ack, peerAck, buffer>>
    BY <1>6 DEF UpdateOnline
  <2>4. \A k \in new : From(p, k, E)
    BY <2>1, <2>2 DEF From
  <2>5. Elements(Rest(p, resent).chunks) \subseteq E
    BY <1>0, <2>1, Queueing
  <2>6. net' \subseteq net \cup new
    BY <2>2, Transmitting
  <2>7. Kept /\ Up
    BY <1>0, <2>2, <2>3, <2>5
  <2> QED BY <2>3, <2>4, <2>6, <2>7, QuietStep
<1> QED BY <1>2, <1>3, <1>4, <1>5, <1>6

\* Submitting a message.
LEMMA QueueStep ==
  ASSUME IInv, TypeOK', NEW p \in Peers, InStep(p), QueueChunk(p)
  PROVE  IInv'
<1> USE DEF IInv
<1>1. CASE state[p] # "online"
  <2>1. /\ sequence' = [sequence EXCEPT ![p] = Succ(@)]
        /\ UNCHANGED <<state, ack, peerAck, buffer, construct, unpacker, net,
                       sent, delivered, acked, unsaved>>
    BY <1>1 DEF QueueChunk
  <2>2. \A q \in Peers : state[q] = "online" => sequence'[q] = sequence[q]
    BY <1>1, <2>1 DEF TypeOK
  <2>3. Numbers' /\ Counts' /\ Streams' /\ Saved'
    BY <2>1, <2>2 DEF Numbers, Counts, Streams, Saved
  <2>4. ChunksGood' /\ PacketsGood' /\ BufferGood'
    BY <2>1 DEF ChunksGood, PacketsGood, BufferGood, GoodPacket, Good
  <2> QED BY <2>3, <2>4
<1>2. CASE state[p] = "online"
  <2> DEFINE msg == sent[p] + 1
             chunk == [seq |-> Succ(sequence[p]), msg |-> msg]
             o == Other(p)
             fits == Len(buffer[p]) < BufferCap
             E == Elements(construct[p].chunks) \cup {chunk}
  <2>0. /\ sent \in [Peers -> Nat] /\ unsaved \in [Peers -> SUBSET Nat]
        /\ buffer \in [Peers -> Seq(Chunk)]
        /\ sequence \in [Peers -> SeqNumber]
        /\ construct \in [Peers -> [resend : BOOLEAN, chunks : Seq(Chunk)]]
    BY DEF TypeOK
  <2>1. /\ sequence' = [sequence EXCEPT ![p] = Succ(@)]
        /\ construct' = [construct EXCEPT ![p] = Rest(p, <<chunk>>)]
        /\ Transmit({}, Overflow(p, <<chunk>>))
        /\ sent' = [sent EXCEPT ![p] = msg]
        /\ buffer' = IF fits THEN [buffer EXCEPT ![p] = Append(@, chunk)] ELSE buffer
        /\ unsaved' = IF fits THEN unsaved
                              ELSE [unsaved EXCEPT ![p] = @ \cup {msg}]
        /\ UNCHANGED <<state, ack, peerAck, unpacker, delivered, acked>>
    BY <1>2 DEF QueueChunk
  <2>2. /\ o \in Peers /\ o # p /\ Other(o) = p
        /\ \A q \in Peers : q = p \/ q = o
    BY Others
  <2>3. /\ sent[p] \in Nat /\ acked[p] \in Nat /\ msg \in Nat
        /\ sent'[p] = msg /\ sent'[o] = sent[o]
        /\ Window \in Nat /\ sent[p] - acked[p] < Window /\ acked[p] <= sent[p]
    <3>1. sent[p] \in Nat /\ acked[p] \in Nat /\ Len(delivered[o]) \in Nat
      BY Naturals, Others
    <3>2. acked[p] <= sent[p]
      BY <3>1 DEF Counts
    <3>3. sent[p] - acked[p] < Window
      BY DEF InStep
    <3> QED BY <2>0, <2>1, <2>2, <3>1, <3>2, <3>3, WindowAssumption
  <2>4. chunk \in Chunk /\ chunk.seq = (msg % MaxSeq) /\ chunk.msg = msg
    <3>1. sequence[p] = (sent[p] % MaxSeq)
      BY <1>2 DEF Numbers
    <3>2. Succ(sequence[p]) = (msg % MaxSeq)
      BY <2>3, <3>1, SuccOfNumber
    <3>3. Succ(sequence[p]) \in SeqNumber
      BY <2>0, SuccType
    <3> QED BY <2>3, <3>2, <3>3 DEF Chunk
  <2> HIDE DEF chunk, o, fits
  <2>5. sequence'[p] = (sent'[p] % MaxSeq) /\ sequence'[o] = sequence[o]
    <3>1. Succ(sequence[p]) = (msg % MaxSeq)
      BY <2>4 DEF chunk
    <3> QED BY <2>0, <2>1, <2>2, <2>3, <3>1
  <2>6. Recent(msg, chunk)
    BY <2>3, <2>4 DEF Recent
  <2>7. \A c : Recent(sent[p], c) /\ sent[p] - c.msg < Window => Recent(msg, c)
    BY <2>3 DEF Recent
  <2>8. Numbers'
    BY <2>1, <2>2, <2>5 DEF Numbers
  <2>9. Counts' /\ Streams'
    <3>1. Len(delivered[o]) \in Nat /\ Len(delivered[p]) \in Nat
      BY Naturals, <2>2
    <3>2. /\ acked[p] <= Len(delivered[o]) /\ Len(delivered[o]) <= msg
          /\ msg - acked[p] <= Window
      BY <2>3, <3>1 DEF Counts, o
    <3>3. Counts'
      BY <2>1, <2>2, <2>3, <3>2 DEF Counts
    <3> QED BY <2>1, <3>3 DEF Streams
  <2>10. /\ <<chunk>> \in Seq(Chunk) /\ Elements(<<chunk>>) = {chunk}
         /\ Elements(Rest(p, <<chunk>>).chunks) \subseteq E
         /\ \A k \in Overflow(p, <<chunk>>) : From(p, k, E)
    <3>1. <<chunk>> \in Seq(Chunk) /\ Elements(<<chunk>>) = {chunk}
      BY <2>4 DEF Elements
    <3> QED BY <3>1, Queueing
  <2>11. \A c \in E : Recent(msg, c)
    <3>1. \A c \in Elements(construct[p].chunks) :
            Recent(sent[p], c) /\ sent[p] - c.msg < Window
      BY DEF ChunksGood, Good, InStep, InFlight
    <3> QED BY <2>6, <2>7, <3>1
  <2>12. ChunksGood'
    <3>1. \A c \in Elements(construct'[p].chunks) : Recent(msg, c)
      BY <2>0, <2>1, <2>10, <2>11
    <3>2. \A c \in Elements(construct'[o].chunks) : Recent(sent[o], c)
      BY <2>0, <2>1, <2>2 DEF ChunksGood, Good
    <3>3. \A c \in Elements(unpacker[p]) : Recent(sent[o], c)
      BY DEF ChunksGood, Good, o
    <3>4. \A c \in Elements(unpacker[o]) : Recent(msg, c)
      <4>1. \A c \in Elements(unpacker[o]) :
              Recent(sent[p], c) /\ sent[p] - c.msg < Window
        BY <2>2 DEF ChunksGood, Good, InStep, InFlight, o
      <4> QED BY <2>7, <4>1
    <3> QED BY <2>1, <2>2, <2>3, <3>1, <3>2, <3>3, <3>4 DEF ChunksGood, Good, o
  <2>13. PacketsGood'
    <3>1. ASSUME NEW k \in net PROVE GoodPacket(k)'
      <4>1. k.to \in Peers /\ GoodPacket(k)
        BY DEF PacketsGood, TypeOK, Packet
      <4>2. CASE k.to = p
        <5>1. sent[p] - k.upTo < Window /\ k.upTo \in Nat
          BY <4>2 DEF InStep, TypeOK, Packet
        <5>2. msg - k.upTo <= Window
          BY <2>3, <5>1
        <5> QED BY <2>1, <2>3, <4>1, <4>2, <5>2 DEF GoodPacket, Good, o
      <4>3. CASE k.to = o
        <5>1. \A c \in Elements(k.chunks) :
                Recent(sent[p], c) /\ sent[p] - c.msg < Window
          BY <2>2, <4>1, <4>3 DEF GoodPacket, Good, InStep, InFlight, o
        <5>2. \A c \in Elements(k.chunks) : Recent(msg, c)
          BY <2>7, <5>1
        <5> QED BY <2>1, <2>2, <2>3, <4>1, <4>3, <5>2 DEF GoodPacket, Good
      <4> QED BY <2>2, <4>1, <4>2, <4>3
    <3>2. ASSUME NEW k \in Overflow(p, <<chunk>>) PROVE GoodPacket(k)'
      <4>1. /\ k.to = o /\ k.ack = ack[p] /\ k.upTo = Len(delivered[p])
            /\ Elements(k.chunks) \subseteq E
        BY <2>10 DEF From, o
      <4>2. ack[p] = (Len(delivered[p]) % MaxSeq)
        BY <1>2 DEF Numbers
      <4>3. sent[o] - Len(delivered[p]) <= Window
        <5>1. acked[o] <= Len(delivered[p]) /\ sent[o] - acked[o] <= Window
          BY <2>2 DEF Counts
        <5> QED BY <2>2, <5>1, Naturals, WindowAssumption
      <4>4. Len(delivered[p]) <= Len(delivered[p])
        BY Naturals
      <4> QED BY <2>1, <2>2, <2>3, <2>11, <4>1, <4>2, <4>3, <4>4 DEF GoodPacket, Good
    <3>3. net' \subseteq net \cup Overflow(p, <<chunk>>)
      BY <2>1, Transmitting
    <3> QED BY <3>1, <3>2, <3>3 DEF PacketsGood
  <2>14. BufferGood' /\ Saved'
    <3>1. /\ Len(buffer[p]) \in Nat /\ DOMAIN buffer[p] = 1 .. Len(buffer[p])
      BY Naturals
    <3>2. \A i \in DOMAIN buffer[p] :
            Recent(msg, buffer[p][i]) /\ buffer[p][i].msg < msg
      <4>1. \A i \in DOMAIN buffer[p] :
              Recent(sent[p], buffer[p][i]) /\ acked[p] < buffer[p][i].msg
        BY <1>2 DEF BufferGood, Good
      <4>2. ASSUME NEW i \in DOMAIN buffer[p]
            PROVE  Recent(msg, buffer[p][i]) /\ buffer[p][i].msg < msg
        <5>1. /\ buffer[p][i].msg \in 1 .. sent[p] /\ acked[p] < buffer[p][i].msg
              /\ Recent(sent[p], buffer[p][i])
          BY <4>1 DEF Recent
        <5>2. sent[p] - buffer[p][i].msg < Window /\ buffer[p][i].msg < msg
          BY <2>3, <5>1
        <5> QED BY <2>7, <5>1, <5>2
      <4> QED BY <4>2
    <3>3. /\ \A i \in DOMAIN (buffer'[p]) :
               Recent(msg, buffer'[p][i]) /\ acked[p] < buffer'[p][i].msg
          /\ \A i, j \in DOMAIN (buffer'[p]) :
               i < j => buffer'[p][i].msg < buffer'[p][j].msg
          /\ \A i \in DOMAIN buffer[p] : i \in DOMAIN (buffer'[p])
                                         /\ buffer'[p][i] = buffer[p][i]
          /\ msg \in unsaved'[p] \/ \E i \in DOMAIN (buffer'[p]) : buffer'[p][i].msg = msg
      <4>1. CASE ~fits
        BY <1>2, <2>0, <2>1, <3>2, <4>1 DEF BufferGood
      <4>2. CASE fits
        <5>1. buffer'[p] = Append(buffer[p], chunk)
          BY <2>0, <2>1, <4>2
        <5>2. /\ \A i \in 1 .. Len(buffer[p]) : buffer'[p][i] = buffer[p][i]
              /\ buffer'[p][Len(buffer[p]) + 1] = chunk
              /\ DOMAIN (buffer'[p]) = 1 .. Len(buffer[p]) + 1
          BY <2>0, <2>4, <5>1, AppendElements
        <5>3. \A i \in DOMAIN (buffer'[p]) :
                i \in DOMAIN buffer[p] \/ i = Len(buffer[p]) + 1
          BY <3>1, <5>2
        <5>4. acked[p] < msg
          BY <2>3
        <5>5. \A i, j \in DOMAIN buffer[p] : i < j => buffer[p][i].msg < buffer[p][j].msg
          BY DEF BufferGood
        <5>6. \A i \in DOMAIN buffer[p] : acked[p] < buffer[p][i].msg
          BY <1>2 DEF BufferGood
        <5>7. \A i \in DOMAIN (buffer'[p]) :
                Recent(msg, buffer'[p][i]) /\ acked[p] < buffer'[p][i].msg
          BY <2>4, <2>6, <3>1, <3>2, <5>2, <5>3, <5>4, <5>6
        <5>8. ASSUME NEW i \in DOMAIN (buffer'[p]), NEW j \in DOMAIN (buffer'[p]), i < j
              PROVE  buffer'[p][i].msg < buffer'[p][j].msg
          <6>1. i \in DOMAIN buffer[p] /\ buffer'[p][i] = buffer[p][i]
            BY <3>1, <5>2, <5>8
          <6>2. CASE j \in DOMAIN buffer[p]
            BY <3>1, <5>2, <5>5, <5>8, <6>1, <6>2
          <6>3. CASE j = Len(buffer[p]) + 1
            BY <2>4, <3>2, <5>2, <6>1, <6>3
          <6> QED BY <5>3, <6>2, <6>3
        <5>9. Len(buffer[p]) + 1 \in DOMAIN (buffer'[p])
          BY <3>1, <5>2
        <5> QED BY <2>4, <3>1, <5>2, <5>7, <5>8, <5>9
      <4> QED BY <4>1, <4>2
    <3>4. /\ buffer'[o] = buffer[o] /\ unsaved'[o] = unsaved[o]
          /\ unsaved[p] \subseteq unsaved'[p]
      BY <2>0, <2>1, <2>2
    <3>5. BufferGood'
      BY <2>1, <2>2, <2>3, <3>3, <3>4 DEF BufferGood, Good
    <3>6. ASSUME NEW m \in (acked[p] + 1) .. msg
          PROVE  m \in unsaved'[p] \/ \E i \in DOMAIN (buffer'[p]) : buffer'[p][i].msg = m
      <4>1. CASE m = msg
        BY <3>3, <4>1
      <4>2. CASE m # msg
        <5>1. m \in (acked[p] + 1) .. sent[p]
          BY <2>3, <4>2
        <5>2. m \in unsaved[p] \/ \E i \in DOMAIN buffer[p] : buffer[p][i].msg = m
          BY <1>2, <5>1 DEF Saved
        <5> QED BY <3>3, <3>4, <5>2
      <4> QED BY <4>1, <4>2
    <3>7. ASSUME NEW m \in (acked[o] + 1) .. sent[o], state[o] # "offline"
          PROVE  m \in unsaved'[o] \/ \E i \in DOMAIN (buffer'[o]) : buffer'[o][i].msg = m
      BY <2>2, <3>4, <3>7 DEF Saved
    <3>8. Saved'
      <4>1. Saved' <=>
              \A q \in Peers : state'[q] # "offline" =>
                \A m \in (acked'[q] + 1) .. sent'[q] :
                  \/ m \in unsaved'[q]
                  \/ \E i \in DOMAIN (buffer'[q]) : buffer'[q][i].msg = m
        BY DEF Saved
      <4>2. ASSUME NEW q \in Peers, state'[q] # "offline",
                   NEW m \in (acked'[q] + 1) .. sent'[q]
            PROVE  m \in unsaved'[q] \/ \E i \in DOMAIN (buffer'[q]) : buffer'[q][i].msg = m
        <5>1. CASE q = p
          BY <2>1, <2>3, <3>6, <4>2, <5>1
        <5>2. CASE q = o
          BY <2>1, <2>3, <3>7, <4>2, <5>2
        <5> QED BY <2>2, <5>1, <5>2
      <4> QED BY <4>1, <4>2
    <3> QED BY <3>5, <3>8
  <2> QED BY <2>8, <2>9, <2>12, <2>13, <2>14
<1> QED BY <1>1, <1>2

\* The chunk to unpack is a message the peer sent, as far from the ones that
\* were delivered as the window allows.
LEMMA HeadIsGood ==
  ASSUME IInv, NEW p \in Peers, unpacker[p] # << >>
  PROVE  /\ Head(unpacker[p]) \in Elements(unpacker[p])
         /\ Recent(sent[Other(p)], Head(unpacker[p]))
         /\ sent[Other(p)] \in Nat /\ Len(delivered[p]) \in Nat
         /\ Len(delivered[p]) <= sent[Other(p)]
         /\ sent[Other(p)] - Len(delivered[p]) <= Window
<1>1. unpacker[p] \in Seq(Chunk)
  BY DEF IInv, TypeOK
<1>2. /\ Len(unpacker[p]) \in Nat /\ Len(unpacker[p]) >= 1
      /\ DOMAIN unpacker[p] = 1 .. Len(unpacker[p])
      /\ Head(unpacker[p]) = unpacker[p][1]
  BY <1>1, LenProperties, EmptySeq
<1>3. Head(unpacker[p]) \in Elements(unpacker[p])
  BY <1>2 DEF Elements
<1>4. Recent(sent[Other(p)], Head(unpacker[p]))
  BY <1>3 DEF IInv, ChunksGood, Good
<1>5. /\ Other(p) \in Peers /\ Other(Other(p)) = p
      /\ sent[Other(p)] \in Nat /\ Len(delivered[p]) \in Nat /\ acked[Other(p)] \in Nat
  BY Others, Naturals DEF IInv
<1>6. /\ acked[Other(p)] <= Len(delivered[p]) /\ Len(delivered[p]) <= sent[Other(p)]
      /\ sent[Other(p)] - acked[Other(p)] <= Window
  BY <1>5 DEF IInv, Counts
<1>7. sent[Other(p)] - Len(delivered[p]) <= Window
  BY <1>5, <1>6, WindowAssumption
<1> QED BY <1>3, <1>4, <1>5, <1>6, <1>7

\* The chunk in sequence is the next message of the stream.
LEMMA InSequenceIsNext ==
  ASSUME IInv, NEW p \in Peers, unpacker[p] # << >>, state[p] # "offline",
         InSequence(p, Head(unpacker[p]))
  PROVE  /\ Head(unpacker[p]).msg = Len(delivered[p]) + 1
         /\ Head(unpacker[p]).seq = ((Len(delivered[p]) + 1) % MaxSeq)
         /\ Len(delivered[p]) + 1 <= sent[Other(p)]
<1> DEFINE chunk == Head(unpacker[p])
           D == Len(delivered[p])
           n == sent[Other(p)]
<1>1. /\ chunk.msg \in 1 .. n /\ n - chunk.msg <= Window
      /\ chunk.seq = (chunk.msg % MaxSeq)
      /\ n \in Nat /\ D \in Nat /\ D <= n /\ n - D <= Window
  BY HeadIsGood DEF Recent
<1>2. ack[p] = (D % MaxSeq)
  BY DEF IInv, Numbers
<1>3. chunk.seq = ((D + 1) % MaxSeq)
  BY <1>1, <1>2, SuccOfNumber DEF InSequence
<1>4. chunk.msg - (D + 1) < MaxSeq /\ (D + 1) - chunk.msg < MaxSeq
  <2>1. Window \in Nat /\ MaxSeq \in Nat /\ Window + 1 < MaxSeq
    BY WindowAssumption, MaxSeqAssumption
  <2> HIDE DEF chunk, D, n
  <2>2. chunk.msg - (D + 1) <= Window /\ (D + 1) - chunk.msg <= Window + 1
    BY <1>1, <2>1
  <2> QED BY <1>1, <2>1, <2>2
<1>5. chunk.msg = D + 1
  BY <1>1, <1>3, <1>4, NumbersDistinct
<1> QED BY <1>1, <1>3, <1>5

\* Handing the next chunk of a packet to the application.
LEMMA UnpackStep ==
  ASSUME IInv, TypeOK', NEW p \in Peers, UnpackNextChunk(p)
  PROVE  IInv'
<1> USE DEF IInv
<1> DEFINE o == Other(p)
           chunk == Head(unpacker[p])
           D == Len(delivered[p])
<1>1. /\ unpacker[p] \in Seq(Chunk) /\ unpacker[p] # << >>
      /\ unpacker \in [Peers -> Seq(Chunk)]
      /\ delivered \in [Peers -> Seq(Nat)]
      /\ ack \in [Peers -> SeqNumber]
      /\ construct \in [Peers -> [resend : BOOLEAN, chunks : Seq(Chunk)]]
  BY DEF UnpackNextChunk, TypeOK
<1>2. /\ chunk \in Elements(unpacker[p]) /\ Tail(unpacker[p]) \in Seq(Chunk)
      /\ Elements(Tail(unpacker[p])) \subseteq Elements(unpacker[p])
  <2>1. /\ Len(unpacker[p]) \in Nat /\ Len(unpacker[p]) >= 1
        /\ DOMAIN unpacker[p] = 1 .. Len(unpacker[p])
        /\ chunk = unpacker[p][1]
    BY <1>1, LenProperties, EmptySeq
  <2>2. chunk \in Elements(unpacker[p])
    BY <2>1 DEF Elements
  <2>3. /\ Tail(unpacker[p]) \in Seq(Chunk)
        /\ Len(Tail(unpacker[p])) = Len(unpacker[p]) - 1
        /\ \A i \in 1 .. Len(Tail(unpacker[p])) : Tail(unpacker[p])[i] = unpacker[p][i + 1]
    BY <1>1, <2>1, HeadTailProperties
  <2>4. DOMAIN Tail(unpacker[p]) = 1 .. Len(Tail(unpacker[p]))
    BY <2>3, LenProperties
  <2>5. ASSUME NEW i \in DOMAIN Tail(unpacker[p])
        PROVE  Tail(unpacker[p])[i] \in Elements(unpacker[p])
    <3>1. i + 1 \in DOMAIN unpacker[p] /\ Tail(unpacker[p])[i] = unpacker[p][i + 1]
      BY <2>1, <2>3, <2>4
    <3> QED BY <3>1 DEF Elements
  <2> QED BY <2>2, <2>3, <2>5 DEF Elements
<1>3. /\ o \in Peers /\ o # p /\ Other(o) = p
      /\ \A q \in Peers : q = p \/ q = o
  BY Others
<1>4. /\ D \in Nat /\ sent[o] \in Nat /\ acked[o] \in Nat /\ Len(delivered[o]) \in Nat
      /\ DOMAIN delivered[p] = 1 .. D
  BY <1>3, Naturals
<1>5. /\ acked[o] <= D /\ D <= sent[o] /\ sent[o] - acked[o] <= Window
  BY <1>3 DEF Counts
<1>6. Recent(sent[o], chunk)
  BY <1>2 DEF ChunksGood, Good
<1>7. /\ UNCHANGED <<state, sequence, peerAck, buffer, net, sent, acked, unsaved>>
      /\ unpacker' \in {[unpacker EXCEPT ![p] = << >>],
                        [unpacker EXCEPT ![p] = Tail(@)]}
      /\ \/ /\ InSequence(p, chunk) /\ ack' = [ack EXCEPT ![p] = chunk.seq]
            /\ \/ /\ state[p] # "offline"
                  /\ delivered' = [delivered EXCEPT ![p] = Append(@, chunk.msg)]
               \/ state[p] = "offline" /\ delivered' = delivered
         \/ ack' = ack /\ delivered' = delivered
      /\ construct' \in {construct, [construct EXCEPT ![p].resend = TRUE]}
  BY DEF UnpackNextChunk
<1>8. /\ \A q \in Peers : construct'[q].chunks = construct[q].chunks
      /\ \A q \in Peers : Elements(unpacker'[q]) \subseteq Elements(unpacker[q])
      /\ \A q, c : Good(q, c)' <=> Good(q, c)
  <2>1. Elements(<< >>) = {}
    BY DEF Elements
  <2>2. \A q \in Peers : Elements(unpacker'[q]) \subseteq Elements(unpacker[q])
    BY <1>1, <1>2, <1>7, <2>1
  <2>3. \A q \in Peers : construct'[q].chunks = construct[q].chunks
    <3>1. CASE construct' = construct
      BY <3>1
    <3>2. CASE construct' = [construct EXCEPT ![p].resend = TRUE]
      <4>1. construct' = [construct EXCEPT ![p] = [construct[p] EXCEPT !.resend = TRUE]]
        BY <3>2
      <4>2. [construct[p] EXCEPT !.resend = TRUE].chunks = construct[p].chunks
        BY <1>1
      <4> QED BY <1>1, <4>1, <4>2
    <3> QED BY <1>7, <3>1, <3>2
  <2>4. \A q, c : Good(q, c)' <=> Good(q, c)
    BY <1>7 DEF Good
  <2> QED BY <2>2, <2>3, <2>4
<1>9. ASSUME InSequence(p, chunk), state[p] # "offline"
      PROVE  chunk.msg = D + 1 /\ chunk.seq = ((D + 1) % MaxSeq) /\ D + 1 <= sent[o]
  BY <1>1, <1>9, InSequenceIsNext
<1>10. \/ delivered' = delivered
       \/ /\ delivered'[o] = delivered[o] /\ delivered'[p] = Append(delivered[p], D + 1)
          /\ Len(delivered'[p]) = D + 1 /\ D + 1 <= sent[o]
          /\ \A i \in DOMAIN (delivered'[p]) : delivered'[p][i] = i
          /\ state[p] # "offline" /\ ack'[p] = ((D + 1) % MaxSeq)
  <2>1. CASE delivered' # delivered
    <3>1. /\ InSequence(p, chunk) /\ state[p] # "offline"
          /\ ack' = [ack EXCEPT ![p] = chunk.seq]
          /\ delivered' = [delivered EXCEPT ![p] = Append(@, chunk.msg)]
      BY <1>7, <2>1
    <3>2. chunk.msg = D + 1 /\ chunk.seq = ((D + 1) % MaxSeq) /\ D + 1 <= sent[o]
      BY <1>9, <3>1
    <3>3. delivered'[p] = Append(delivered[p], D + 1) /\ delivered'[o] = delivered[o]
      BY <1>1, <1>3, <3>1, <3>2
    <3>4. /\ Len(delivered'[p]) = D + 1 /\ DOMAIN (delivered'[p]) = 1 .. D + 1
          /\ \A i \in 1 .. D : delivered'[p][i] = delivered[p][i]
          /\ delivered'[p][D + 1] = D + 1
      BY <1>1, <1>4, <3>3, AppendElements
    <3>5. \A i \in 1 .. D : delivered[p][i] = i
      BY <1>4 DEF Streams
    <3>6. \A i \in 1 .. D + 1 : delivered'[p][i] = i
      BY <1>4, <3>4, <3>5
    <3>7. ack'[p] = ((D + 1) % MaxSeq)
      BY <1>1, <3>1, <3>2
    <3> QED BY <3>1, <3>2, <3>3, <3>4, <3>6, <3>7
  <2> QED BY <2>1
<1>11. \A q \in Peers : Len(delivered[q]) \in Nat /\ Len(delivered'[q]) \in Nat
                         /\ Len(delivered[q]) <= Len(delivered'[q])
                         /\ Len(delivered'[q]) <= sent[Other(q)]
                         /\ \A i \in DOMAIN (delivered'[q]) : delivered'[q][i] = i
  <2>1. \A q \in Peers : Len(delivered[q]) \in Nat /\ Len(delivered[q]) <= sent[Other(q)]
                         /\ \A i \in DOMAIN delivered[q] : delivered[q][i] = i
    BY <1>3, Naturals DEF Counts, Streams
  <2>2. CASE delivered' = delivered
    BY <2>1, <2>2
  <2>3. CASE delivered' # delivered
    BY <1>3, <1>4, <1>10, <2>1, <2>3
  <2> QED BY <2>2, <2>3
<1>12. Numbers'
  <2>1. ASSUME NEW q \in Peers, state[q] # "offline"
        PROVE  ack'[q] = (Len(delivered'[q]) % MaxSeq)
    <3>1. CASE q = o
      BY <1>1, <1>3, <1>7, <1>10, <2>1, <3>1 DEF Numbers
    <3>2. CASE q = p /\ delivered' = delivered
      <4>1. ack[p] = (D % MaxSeq)
        BY <2>1, <3>2 DEF Numbers
      <4>2. ack' = ack
        <5>1. CASE InSequence(p, chunk) /\ delivered' = [delivered EXCEPT ![p] = Append(@, chunk.msg)]
          <6>1. delivered'[p] = Append(delivered[p], chunk.msg)
            BY <1>1, <5>1
          <6>2. chunk.msg \in Nat
            BY <1>6, <1>4 DEF Recent
          <6>3. Len(delivered'[p]) = D + 1
            BY <1>1, <6>1, <6>2, AppendElements
          <6> QED BY <1>4, <3>2, <6>3
        <5> QED BY <1>7, <2>1, <3>2, <5>1
      <4> QED BY <3>2, <4>1, <4>2
    <3>3. CASE q = p /\ delivered' # delivered
      BY <1>10, <3>3
    <3> QED BY <1>3, <3>1, <3>2, <3>3
  <2> QED BY <1>7, <2>1 DEF Numbers
<1>13. Counts' /\ Streams'
  <2>1. ASSUME NEW q \in Peers
        PROVE  /\ acked[q] <= Len(delivered'[Other(q)])
               /\ Len(delivered'[Other(q)]) <= sent[q]
               /\ sent[q] - acked[q] <= Window
    <3>1. Other(q) \in Peers /\ Other(Other(q)) = q /\ acked[q] \in Nat
      BY Others, Naturals
    <3>2. acked[q] <= Len(delivered[Other(q)]) /\ sent[q] - acked[q] <= Window
      BY DEF Counts
    <3> QED BY <1>11, <3>1, <3>2
  <2> QED BY <1>7, <1>11, <2>1 DEF Counts, Streams
<1>14. ChunksGood'
  <2>1. \A q \in Peers : \A c \in Elements(construct[q].chunks) : Good(q, c)
    BY DEF ChunksGood
  <2>2. \A q \in Peers : \A c \in Elements(unpacker'[q]) : Good(Other(q), c)
    BY <1>8 DEF ChunksGood
  <2>3. ChunksGood' <=>
          \A q \in Peers : /\ \A c \in Elements(construct'[q].chunks) : Good(q, c)'
                           /\ \A c \in Elements(unpacker'[q]) : Good(Other(q), c)'
    BY DEF ChunksGood, Elements
  <2> QED BY <1>8, <2>1, <2>2, <2>3
<1>15. PacketsGood'
  <2>1. ASSUME NEW k \in net PROVE GoodPacket(k)'
    <3>1. k.to \in Peers /\ k.upTo \in Nat /\ GoodPacket(k)
      BY DEF PacketsGood, TypeOK, Packet
    <3>2. k.upTo <= Len(delivered'[Other(k.to)])
      <4>1. Other(k.to) \in Peers
        BY <3>1, Others
      <4>2. k.upTo <= Len(delivered[Other(k.to)])
        BY <3>1 DEF GoodPacket
      <4> QED BY <1>11, <3>1, <4>1, <4>2
    <3> QED BY <1>7, <3>1, <3>2 DEF GoodPacket, Good
  <2> QED BY <1>7, <2>1 DEF PacketsGood
<1>16. BufferGood' /\ Saved'
  BY <1>7 DEF BufferGood, Saved, Good
<1> QED BY <1>12, <1>13, <1>14, <1>15, <1>16

\* AckChunks keeps the chunks of an ascending buffer that are newer than u.
LEMMA AckingKeeps ==
  ASSUME NEW chunks \in Seq(Chunk), NEW u \in Nat, NEW a,
         \A i \in DOMAIN chunks : InBackroom(chunks[i].seq, a) <=> chunks[i].msg <= u,
         \A i, j \in DOMAIN chunks : i < j => chunks[i].msg < chunks[j].msg,
         NEW kept, kept = AckChunks(chunks, a)
  PROVE  /\ \A i \in DOMAIN kept : u < kept[i].msg /\ kept[i] \in Elements(chunks)
         /\ \A i, j \in DOMAIN kept : i < j => kept[i].msg < kept[j].msg
         /\ \A i \in DOMAIN chunks :
              u < chunks[i].msg => \E j \in DOMAIN kept : kept[j] = chunks[i]
<1> DEFINE left == {i \in DOMAIN chunks : ~InBackroom(chunks[i].seq, a)}
<1>1. /\ DOMAIN chunks = 1 .. Len(chunks) /\ Len(chunks) \in Nat
      /\ \A i \in DOMAIN chunks : chunks[i] \in Chunk /\ chunks[i].msg \in Nat
  <2>1. DOMAIN chunks = 1 .. Len(chunks) /\ Len(chunks) \in Nat
    BY LenProperties
  <2>2. \A i \in DOMAIN chunks : chunks[i] \in Chunk
    BY <2>1, ElementOfSeq
  <2> QED BY <2>1, <2>2 DEF Chunk
<1>2. \A i \in DOMAIN chunks : i \in left <=> u < chunks[i].msg
  BY <1>1
<1>3. CASE left = {}
  <2>1. kept = << >> /\ DOMAIN << >> = {}
    BY <1>3 DEF AckChunks
  <2> HIDE DEF left
  <2> QED BY <1>2, <1>3, <2>1
<1>4. CASE left # {}
  <2> DEFINE d == CHOOSE i \in left : \A j \in left : i <= j
  <2>1. left \subseteq Nat
    BY <1>1
  <2>2. d \in left /\ \A j \in left : d <= j
    <3> HIDE DEF left
    <3>1. \E i \in left : \A j \in left : i <= j
      BY <1>4, <2>1, Least
    <3> QED BY <3>1
  <2>3. kept = SubSeq(chunks, d, Len(chunks))
    BY <1>4 DEF AckChunks
  <2>4. d \in DOMAIN chunks /\ u < chunks[d].msg
    BY <1>2, <2>2
  <2> HIDE DEF left, d
  <2>5. d \in Nat /\ 1 <= d /\ d <= Len(chunks)
    BY <1>1, <2>4
  <2>6. /\ kept \in Seq(Chunk) /\ Len(kept) = Len(chunks) - d + 1
        /\ \A i \in 1 .. Len(kept) : kept[i] = chunks[d + i - 1]
    BY <1>1, <2>3, <2>5, PartOf
  <2>7. DOMAIN kept = 1 .. Len(kept)
    BY <2>6, LenProperties
  <2>8. \A i \in DOMAIN kept : /\ d + i - 1 \in DOMAIN chunks /\ d <= d + i - 1
                              /\ kept[i] = chunks[d + i - 1]
    <3>1. ASSUME NEW i \in DOMAIN kept
          PROVE  /\ i \in Nat /\ 1 <= i /\ i <= Len(chunks) - d + 1
                 /\ kept[i] = chunks[d + i - 1]
      <4>1. i \in 1 .. Len(kept) /\ Len(kept) = Len(chunks) - d + 1
        BY <2>6, <2>7
      <4>2. kept[i] = chunks[d + i - 1]
        BY <2>6, <4>1
      <4>3. Len(kept) \in Int
        BY <1>1, <2>5, <4>1
      <4> QED BY <4>1, <4>2, <4>3
    <3>2. ASSUME NEW i \in DOMAIN kept
          PROVE  d + i - 1 \in DOMAIN chunks /\ d <= d + i - 1
      BY <1>1, <2>5, <3>1
    <3> QED BY <3>1, <3>2
  <2>9. ASSUME NEW i \in DOMAIN kept
        PROVE  u < kept[i].msg /\ kept[i] \in Elements(chunks)
    <3>1. kept[i] \in Elements(chunks)
      BY <2>8 DEF Elements
    <3>2. CASE d = d + i - 1
      BY <2>4, <2>8, <3>1, <3>2
    <3>3. CASE d < d + i - 1
      <4>1. chunks[d].msg < chunks[d + i - 1].msg
        BY <2>4, <2>8, <3>3
      <4>2. chunks[d].msg \in Nat /\ chunks[d + i - 1].msg \in Nat
        BY <1>1, <2>4, <2>8
      <4> QED BY <2>4, <2>8, <3>1, <4>1, <4>2
    <3>4. i \in Nat
      BY <2>6, <2>7, <1>1
    <3> QED BY <2>5, <2>8, <3>2, <3>3, <3>4
  <2>10. ASSUME NEW i \in DOMAIN kept, NEW j \in DOMAIN kept, i < j
         PROVE  kept[i].msg < kept[j].msg
    <3>1. d + i - 1 < d + j - 1
      BY <1>1, <2>5, <2>6, <2>7, <2>10
    <3> QED BY <2>8, <3>1
  <2>11. ASSUME NEW i \in DOMAIN chunks, u < chunks[i].msg
         PROVE  \E j \in DOMAIN kept : kept[j] = chunks[i]
    <3>1. d <= i
      BY <1>2, <2>2, <2>11
    <3>2. i - d + 1 \in DOMAIN kept /\ d + (i - d + 1) - 1 = i
      BY <1>1, <2>5, <2>6, <2>7, <3>1
    <3>3. kept[i - d + 1] = chunks[i]
      BY <2>8, <3>2
    <3> QED BY <3>2, <3>3
  <2> QED BY <2>9, <2>10, <2>11
<1> QED BY <1>3, <1>4

\* A valid acknowledgement is not older than the last one accepted.
LEMMA AckIsNewer ==
  ASSUME IInv, NEW p \in Peers, NEW pkt \in net, pkt.to = p, state[p] = "online",
         AckValid(pkt.ack, peerAck[p], sequence[p])
  PROVE  acked[p] <= pkt.upTo
<1> DEFINE u == pkt.upTo
           n == sent[p]
           a == acked[p]
<1>1. /\ u \in Nat /\ n \in Nat /\ a \in Nat /\ Len(delivered[Other(p)]) \in Nat
      /\ Window \in Nat /\ 2 * Window < MaxSeq /\ MaxSeq \in Nat
  BY Naturals, Others, WindowAssumption, MaxSeqAssumption DEF IInv, TypeOK, Packet
<1>2. pkt.ack = (u % MaxSeq) /\ u <= Len(delivered[Other(p)]) /\ n - u <= Window
  BY DEF IInv, PacketsGood, GoodPacket
<1>3. /\ a <= Len(delivered[Other(p)]) /\ Len(delivered[Other(p)]) <= n
      /\ n - a <= Window
  BY DEF IInv, Counts
<1>4. peerAck[p] = (a % MaxSeq) /\ sequence[p] = (n % MaxSeq)
  BY DEF IInv, Numbers
<1>5. AckValid(u % MaxSeq, a % MaxSeq, n % MaxSeq)
  BY <1>2, <1>4
<1> HIDE DEF u, n, a
<1>6. a <= n /\ u <= n /\ n - a < MaxSeq /\ n - u < MaxSeq
  BY <1>1, <1>2, <1>3
<1>7. a <= u
  BY <1>1, <1>5, <1>6, ValidIsNewer
<1> QED BY <1>7 DEF a, u

\* Taking a packet whose acknowledgement is valid.
LEMMA AcceptStep ==
  ASSUME IInv, TypeOK', NEW p \in Peers, NEW pkt \in net, pkt.to = p,
         state[p] = "online", AckValid(pkt.ack, peerAck[p], sequence[p]),
         NEW gone, NEW answer \in BOOLEAN, Accept(p, pkt, gone, answer)
  PROVE  IInv'
<1> USE DEF IInv
<1> DEFINE o == Other(p)
           u == pkt.upTo
           requested == resendRequested[p] \/ pkt.resend
           resent == IF requested /\ answer THEN buffer[p] ELSE << >>
           E == Elements(construct[p].chunks) \cup Elements(buffer[p])
<1>1. /\ pkt.chunks \in Seq(Chunk) /\ u \in Nat
      /\ buffer \in [Peers -> Seq(Chunk)]
      /\ construct \in [Peers -> [resend : BOOLEAN, chunks : Seq(Chunk)]]
      /\ state \in [Peers -> {"offline", "online", "error"}]
      /\ peerAck \in [Peers -> SeqNumber] /\ acked \in [Peers -> Nat]
      /\ unpacker \in [Peers -> Seq(Chunk)]
  BY DEF TypeOK, Packet
<1>2. /\ o \in Peers /\ o # p /\ Other(o) = p
      /\ \A q \in Peers : q = p \/ q = o
  BY Others
<1>3. /\ sent[p] \in Nat /\ acked[p] \in Nat /\ Len(delivered[o]) \in Nat
      /\ DOMAIN buffer[p] = 1 .. Len(buffer[p]) /\ Len(buffer[p]) \in Nat
      /\ Window \in Nat /\ 2 * Window < MaxSeq /\ MaxSeq \in Nat
  BY <1>2, Naturals, WindowAssumption, MaxSeqAssumption
<1>4. /\ pkt.ack = (u % MaxSeq) /\ u <= Len(delivered[o]) /\ sent[p] - u <= Window
      /\ \A c \in Elements(pkt.chunks) : Good(o, c)
  BY DEF PacketsGood, GoodPacket
<1>5. /\ acked[p] <= Len(delivered[o]) /\ Len(delivered[o]) <= sent[p]
      /\ sent[p] - acked[p] <= Window
  BY DEF Counts
<1>6. acked[p] <= u
  BY AckIsNewer
<1>7. /\ peerAck' = [peerAck EXCEPT ![p] = pkt.ack]
      /\ acked' = [acked EXCEPT ![p] = u]
      /\ construct' = [construct EXCEPT ![p] = Rest(p, resent)]
      /\ Transmit(gone, Overflow(p, resent))
      /\ unpacker' = [unpacker EXCEPT ![p] = pkt.chunks]
      /\ \/ state' = [state EXCEPT ![p] = "error"] /\ buffer' = buffer
         \/ /\ state' = state
            /\ buffer' = [buffer EXCEPT ![p] = AckChunks(@, pkt.ack)]
      /\ UNCHANGED <<sequence, ack, sent, delivered, unsaved>>
  BY DEF Accept
<1>8. /\ resent \in Seq(Chunk) /\ Elements(resent) \subseteq Elements(buffer[p])
      /\ Elements(<< >>) = {}
  <2>1. << >> \in Seq(Chunk) /\ Elements(<< >>) = {}
    BY EmptySeq DEF Elements
  <2> QED BY <1>1, <2>1
<1> HIDE DEF resent, requested
<1>9. /\ Elements(Rest(p, resent).chunks) \subseteq E
      /\ \A k \in Overflow(p, resent) : From(p, k, E)
  <2>1. /\ Elements(Rest(p, resent).chunks)
             \subseteq Elements(construct[p].chunks) \cup Elements(resent)
        /\ \A k \in Overflow(p, resent) :
             From(p, k, Elements(construct[p].chunks) \cup Elements(resent))
    BY <1>8, Queueing
  <2> QED BY <1>8, <2>1 DEF From
<1>10. \A c \in E : Good(p, c)
  BY BufferElements DEF ChunksGood
<1>11. \A q, c : Good(q, c)' <=> Good(q, c)
  BY <1>7 DEF Good
<1>12. Numbers'
  <2>1. peerAck'[p] = (acked'[p] % MaxSeq) /\ state'[p] # "offline"
    BY <1>1, <1>4, <1>7
  <2>2. peerAck'[o] = peerAck[o] /\ acked'[o] = acked[o] /\ state'[o] = state[o]
    BY <1>1, <1>2, <1>7
  <2> QED BY <1>1, <1>2, <1>7, <2>1, <2>2, SMTT(20) DEF Numbers
<1>13. Counts' /\ Streams'
  <2>1. acked'[p] = u /\ acked'[o] = acked[o]
    BY <1>1, <1>2, <1>7
  <2> QED BY <1>2, <1>4, <1>7, <2>1 DEF Counts, Streams
<1>14. ChunksGood'
  <2>1. ASSUME NEW q \in Peers
        PROVE  /\ \A c \in Elements(construct'[q].chunks) : Good(q, c)
               /\ \A c \in Elements(unpacker'[q]) : Good(Other(q), c)
    <3>1. CASE q = p
      BY <1>1, <1>4, <1>7, <1>9, <1>10, <3>1
    <3>2. CASE q = o
      BY <1>1, <1>2, <1>7, <3>2 DEF ChunksGood
    <3> QED BY <1>2, <3>1, <3>2
  <2>2. ChunksGood' <=>
          \A q \in Peers : /\ \A c \in Elements(construct'[q].chunks) : Good(q, c)'
                           /\ \A c \in Elements(unpacker'[q]) : Good(Other(q), c)'
    BY DEF ChunksGood, Elements
  <2> QED BY <1>11, <2>1, <2>2
<1>15. PacketsGood'
  <2>1. net' \subseteq net \cup Overflow(p, resent)
    BY <1>7, Transmitting
  <2>2. \A k \in Overflow(p, resent) : GoodPacket(k)
    BY <1>9, <1>10, GoodFrom
  <2>3. \A k \in net' : GoodPacket(k)
    BY <2>1, <2>2 DEF PacketsGood
  <2>4. \A k : GoodPacket(k)' <=> GoodPacket(k)
    BY <1>7, <1>11 DEF GoodPacket
  <2> QED BY <2>3, <2>4 DEF PacketsGood
<1>16. /\ \A i \in DOMAIN buffer[p] : Recent(sent[p], buffer[p][i])
       /\ \A i, j \in DOMAIN buffer[p] : i < j => buffer[p][i].msg < buffer[p][j].msg
       /\ \A m \in (acked[p] + 1) .. sent[p] :
            m \in unsaved[p] \/ \E i \in DOMAIN buffer[p] : buffer[p][i].msg = m
  BY DEF BufferGood, Good, Saved
<1>17. /\ \A i \in DOMAIN (buffer'[p]) :
            /\ Recent(sent[p], buffer'[p][i])
            /\ state'[p] = "online" => u < buffer'[p][i].msg
       /\ \A i, j \in DOMAIN (buffer'[p]) :
            i < j => buffer'[p][i].msg < buffer'[p][j].msg
       /\ \A m \in (u + 1) .. sent[p] :
            m \in unsaved[p] \/ \E i \in DOMAIN (buffer'[p]) : buffer'[p][i].msg = m
  <2>0. \A m \in (u + 1) .. sent[p] : m \in (acked[p] + 1) .. sent[p]
    BY <1>1, <1>3, <1>6
  <2>1. CASE state' = [state EXCEPT ![p] = "error"] /\ buffer' = buffer
    <3>1. state'[p] # "online" /\ buffer'[p] = buffer[p]
      BY <1>1, <2>1
    <3> QED BY <1>16, <2>0, <3>1
  <2>2. CASE buffer' = [buffer EXCEPT ![p] = AckChunks(@, pkt.ack)]
    <3> DEFINE kept == AckChunks(buffer[p], pkt.ack)
    <3>1. buffer'[p] = kept
      BY <1>1, <2>2
    <3>2. ASSUME NEW i \in DOMAIN buffer[p]
          PROVE  InBackroom(buffer[p][i].seq, pkt.ack) <=> buffer[p][i].msg <= u
      <4>1. /\ buffer[p][i].msg \in 1 .. sent[p]
            /\ sent[p] - buffer[p][i].msg <= Window
            /\ buffer[p][i].seq = (buffer[p][i].msg % MaxSeq)
        BY <1>16 DEF Recent
      <4> DEFINE m == buffer[p][i].msg
      <4>2. u <= sent[p]
        BY <1>1, <1>3, <1>4, <1>5
      <4>3. m \in Nat /\ m <= sent[p] /\ sent[p] - m <= Window
        BY <1>3, <4>1
      <4> HIDE DEF m, u
      <4>4. 2 * (m - u) < MaxSeq /\ 2 * (u - m) < MaxSeq
        <5>1. u \in Nat /\ sent[p] - u <= Window
          BY <1>1, <1>4
        <5>2. m - u <= Window /\ u - m <= Window
          BY <1>3, <4>2, <4>3, <5>1, SMTT(20)
        <5> QED BY <1>3, <4>3, <5>1, <5>2, SMTT(20)
      <4>5. InBackroom(m % MaxSeq, u % MaxSeq) <=> m <= u
        BY <1>1, <4>3, <4>4, BackroomIsOld
      <4> QED BY <1>4, <4>1, <4>5 DEF m
    <3>3. /\ \A i \in DOMAIN kept : u < kept[i].msg /\ kept[i] \in Elements(buffer[p])
          /\ \A i, j \in DOMAIN kept : i < j => kept[i].msg < kept[j].msg
          /\ \A i \in DOMAIN buffer[p] :
               u < buffer[p][i].msg => \E j \in DOMAIN kept : kept[j] = buffer[p][i]
      <4>1. buffer[p] \in Seq(Chunk) /\ u \in Nat
        BY <1>1
      <4>2. \A i, j \in DOMAIN buffer[p] : i < j => buffer[p][i].msg < buffer[p][j].msg
        BY <1>16
      <4>3. \A i \in DOMAIN buffer[p] :
              InBackroom(buffer[p][i].seq, pkt.ack) <=> buffer[p][i].msg <= u
        BY <3>2
      <4>4. kept = AckChunks(buffer[p], pkt.ack)
        OBVIOUS
      <4> DEFINE chunks == buffer[p]
      <4> HIDE DEF u, kept, chunks, IInv
      <4>5. /\ chunks \in Seq(Chunk) /\ kept = AckChunks(chunks, pkt.ack)
            /\ \A i, j \in DOMAIN chunks : i < j => chunks[i].msg < chunks[j].msg
            /\ \A i \in DOMAIN chunks :
                 InBackroom(chunks[i].seq, pkt.ack) <=> chunks[i].msg <= u
        BY <4>1, <4>2, <4>3, <4>4 DEF chunks
      <4>6. /\ \A i \in DOMAIN kept : u < kept[i].msg /\ kept[i] \in Elements(chunks)
            /\ \A i, j \in DOMAIN kept : i < j => kept[i].msg < kept[j].msg
            /\ \A i \in DOMAIN chunks :
                 u < chunks[i].msg => \E j \in DOMAIN kept : kept[j] = chunks[i]
        BY <4>1, <4>5, AckingKeeps, SMTT(20)
      <4> QED BY <4>6 DEF chunks
    <3> HIDE DEF kept
    <3>4. \A c \in Elements(buffer[p]) : Recent(sent[p], c)
      BY <1>16 DEF Elements
    <3>5. ASSUME NEW m \in (u + 1) .. sent[p]
          PROVE  m \in unsaved[p] \/ \E i \in DOMAIN kept : kept[i].msg = m
      <4>1. CASE \E i \in DOMAIN buffer[p] : buffer[p][i].msg = m
        <5>1. PICK i \in DOMAIN buffer[p] : buffer[p][i].msg = m
          BY <4>1
        <5>2. u < buffer[p][i].msg
          BY <1>1, <1>3, <5>1
        <5>3. PICK j \in DOMAIN kept : kept[j] = buffer[p][i]
          BY <3>3, <5>2
        <5> QED BY <5>1, <5>3
      <4> QED BY <1>16, <2>0, <4>1
    <3> QED BY <3>1, <3>3, <3>4, <3>5
  <2> QED BY <1>7, <2>1, <2>2
<1>18. /\ acked'[p] = u /\ acked'[o] = acked[o] /\ buffer'[o] = buffer[o]
       /\ state'[o] = state[o] /\ UNCHANGED <<sent, unsaved>>
  BY <1>1, <1>2, <1>7
<1>19. BufferGood'
  BY <1>2, <1>17, <1>18 DEF BufferGood, Good
<1>20. Saved'
  <2>1. Saved' <=>
          \A q \in Peers : state'[q] # "offline" =>
            \A m \in (acked'[q] + 1) .. sent'[q] :
              \/ m \in unsaved'[q]
              \/ \E i \in DOMAIN (buffer'[q]) : buffer'[q][i].msg = m
    BY DEF Saved
  <2>2. ASSUME NEW q \in Peers, state'[q] # "offline",
               NEW m \in (acked'[q] + 1) .. sent'[q]
        PROVE  m \in unsaved'[q] \/ \E i \in DOMAIN (buffer'[q]) : buffer'[q][i].msg = m
    <3>1. CASE q = p
      BY <1>17, <1>18, <2>2, <3>1
    <3>2. CASE q = o
      BY <1>18, <2>2, <3>2 DEF Saved
    <3> QED BY <1>2, <3>1, <3>2
  <2> QED BY <2>1, <2>2
<1> QED BY <1>12, <1>13, <1>14, <1>15, <1>19, <1>20
-----------------------------------------------------------------------------
(* The theorems.                                                           *)

LEMMA InitInv == Init => IInv
<1> SUFFICES ASSUME Init PROVE IInv
  OBVIOUS
<1>1. TypeOK
  BY InitTypes
<1>2. \A p \in Peers :
        /\ sent[p] = 0 /\ acked[p] = 0 /\ delivered[p] = << >> /\ buffer[p] = << >>
        /\ sequence[p] = 0 /\ ack[p] = 0 /\ peerAck[p] = 0
        /\ construct[p].chunks = << >> /\ unpacker[p] = << >>
  BY DEF Init, NoChunks
<1>3. Len(<< >>) = 0 /\ DOMAIN << >> = {} /\ Elements(<< >>) = {}
  BY DEF Elements
<1>4. 0 % MaxSeq = 0
  BY MaxSeqAssumption
<1>5. Numbers
  BY <1>2, <1>3, <1>4 DEF Numbers
<1>6. Counts
  BY <1>2, <1>3, Others, WindowAssumption DEF Counts
<1>7. Streams /\ ChunksGood /\ BufferGood
  BY <1>2, <1>3 DEF Streams, ChunksGood, BufferGood
<1>8. PacketsGood
  BY DEF Init, PacketsGood
<1>9. Saved
  BY <1>2 DEF Saved
<1> QED BY <1>1, <1>5, <1>6, <1>7, <1>8, <1>9 DEF IInv

LEMMA NextInv == IInv /\ [Next]_vars => IInv'
<1> SUFFICES ASSUME IInv, [Next]_vars PROVE IInv'
  OBVIOUS
<1>0. TypeOK'
  BY NextTypes DEF IInv
<1>1. ASSUME NEW p \in Peers, InStep(p), QueueChunk(p) PROVE IInv'
  BY <1>0, <1>1, QueueStep
<1>2. ASSUME NEW p \in Peers, Flush(p) \/ Disconnect(p) \/ Update(p) PROVE IInv'
  BY <1>0, <1>2, QuietSteps DEF Update
<1>3. ASSUME NEW p \in Peers, UnpackNextChunk(p) PROVE IInv'
  BY <1>0, <1>3, UnpackStep
<1>4. ASSUME net' \subseteq net, UNCHANGED <<connVars, unpacker, history>> PROVE IInv'
  <2>1. UNCHANGED <<state, sequence, ack, peerAck, buffer, construct, unpacker,
                    sent, delivered, acked, unsaved>>
    BY <1>4 DEF connVars, history
  <2>2. Numbers' /\ Counts' /\ Streams' /\ Saved'
    BY <2>1 DEF IInv, Numbers, Counts, Streams, Saved
  <2>3. ChunksGood' /\ BufferGood'
    BY <2>1 DEF IInv, ChunksGood, BufferGood, Good
  <2>4. \A k : GoodPacket(k)' <=> GoodPacket(k)
    BY <2>1 DEF GoodPacket, Good
  <2>5. PacketsGood'
    BY <1>4, <2>4 DEF IInv, PacketsGood
  <2> QED BY <1>0, <2>2, <2>3, <2>5 DEF IInv
<1>5. ASSUME NEW pkt \in net, Lose(pkt) PROVE IInv'
  BY <1>4, <1>5 DEF Lose
<1>6. ASSUME NEW pkt \in net, NEW p \in Peers, Feed(p, pkt) PROVE IInv'
  <2>1. pkt.to = p /\ state[p] = "online"
    BY <1>6 DEF Feed
  <2>2. PICK gone \in {{}, {pkt}} :
          \/ /\ AckValid(pkt.ack, peerAck[p], sequence[p])
             /\ \E answer \in BOOLEAN : Accept(p, pkt, gone, answer)
          \/ Transmit(gone, {}) /\ UNCHANGED <<connVars, unpacker, history>>
    BY <1>6 DEF Feed
  <2>3. CASE Transmit(gone, {}) /\ UNCHANGED <<connVars, unpacker, history>>
    BY <1>4, <2>3, Transmitting
  <2>4. CASE /\ AckValid(pkt.ack, peerAck[p], sequence[p])
             /\ \E answer \in BOOLEAN : Accept(p, pkt, gone, answer)
    BY <1>0, <2>1, <2>4, AcceptStep
  <2> QED BY <2>2, <2>3, <2>4
<1>7. CASE UNCHANGED vars
  BY <1>4, <1>7 DEF vars
<1> QED
  BY <1>1, <1>2, <1>3, <1>5, <1>6, <1>7 DEF Next, Step

\* The inductive invariant holds in every reachable state.
THEOREM Inductive == Spec => []IInv
  BY InitInv, NextInv, PTL DEF Spec

\* The application of each peer gets the messages of the other in the order of
\* their submission, each once, for every size of the buffers, of the packets,
\* of the network and of the circle of sequence numbers.
THEOREM DeliveryInOrder == Spec => []InOrder
<1>1. IInv => InOrder
  BY Others DEF IInv, Counts, Streams, InOrder
<1> QED BY <1>1, Inductive, PTL

\* What AckChunks frees has reached the other application: an undelivered
\* message that was saved can be sent again.
THEOREM NothingFreedTooEarly == Spec => []SavedUntilDelivered
<1>1. IInv => SavedUntilDelivered
  <2> SUFFICES ASSUME IInv, NEW p \in Peers, state[p] # "offline",
                      NEW m \in (Len(delivered[Other(p)]) + 1) .. sent[p]
               PROVE  m \in unsaved[p] \/ \E c \in Elements(buffer[p]) : c.msg = m
    BY DEF SavedUntilDelivered, IInv, Counts
  <2>1. acked[p] \in Nat /\ Len(delivered[Other(p)]) \in Nat /\ sent[p] \in Nat
    BY Naturals, Others DEF IInv
  <2>2. acked[p] <= Len(delivered[Other(p)])
    BY DEF IInv, Counts
  <2>3. m \in (acked[p] + 1) .. sent[p]
    BY <2>1, <2>2
  <2>4. m \in unsaved[p] \/ \E i \in DOMAIN buffer[p] : buffer[p][i].msg = m
    BY <2>3 DEF IInv, Saved
  <2> QED BY <2>4 DEF Elements
<1> QED BY <1>1, Inductive, PTL

\* Within the window, "old packet that we already got" is true of every chunk
\* that UnpackNextChunk skips.
THEOREM SkippingIsSafe == Spec => []SkippedWasDelivered
<1>1. IInv => SkippedWasDelivered
  <2> SUFFICES ASSUME IInv, NEW p \in Peers, state[p] = "online", unpacker[p] # << >>,
                      InBackroom(Head(unpacker[p]).seq, ack[p])
               PROVE  Head(unpacker[p]).msg <= Len(delivered[p])
    BY DEF SkippedWasDelivered
  <2> DEFINE chunk == Head(unpacker[p])
             D == Len(delivered[p])
             n == sent[Other(p)]
  <2>1. /\ chunk.msg \in 1 .. n /\ n - chunk.msg <= Window
        /\ chunk.seq = (chunk.msg % MaxSeq)
        /\ n \in Nat /\ D \in Nat /\ D <= n /\ n - D <= Window
    BY HeadIsGood DEF Recent
  <2>2. ack[p] = (D % MaxSeq)
    BY DEF IInv, Numbers
  <2>3. InBackroom(chunk.msg % MaxSeq, D % MaxSeq)
    BY <2>1, <2>2
  <2> HIDE DEF chunk, D, n
  <2>4. 2 * (chunk.msg - D) < MaxSeq /\ 2 * (D - chunk.msg) < MaxSeq
    <3>1. /\ chunk.msg - D <= Window /\ D - chunk.msg <= Window
          /\ Window \in Nat /\ 2 * Window < MaxSeq /\ MaxSeq \in Nat
      BY <2>1, WindowAssumption, MaxSeqAssumption
    <3> QED BY <2>1, <3>1
  <2>5. chunk.msg <= D
    BY <2>1, <2>3, <2>4, BackroomIsOld
  <2> QED BY <2>5 DEF chunk, D
<1> QED BY <1>1, Inductive, PTL

\* The steps that neither submit, deliver nor accept an acknowledgement.
LEMMA Silent ==
  ASSUME NEW p \in Peers, Flush(p) \/ Disconnect(p) \/ Update(p)
  PROVE  UNCHANGED history
<1>1. CASE Flush(p)
  BY <1>1 DEF Flush
<1>2. CASE Disconnect(p)
  BY <1>2 DEF Disconnect
<1>3. ASSUME NEW a \in BOOLEAN, UpdateErrored(p, a) PROVE UNCHANGED history
  BY <1>3 DEF UpdateErrored
<1>4. ASSUME NEW a \in BOOLEAN, NEW b \in BOOLEAN, UpdateTimedOut(p, a, b)
      PROVE  UNCHANGED history
  BY <1>4 DEF UpdateTimedOut
<1>5. ASSUME NEW a \in BOOLEAN, NEW b \in BOOLEAN, NEW c \in BOOLEAN,
             UpdateOnline(p, a, b, c)
      PROVE  UNCHANGED history
  BY <1>5 DEF UpdateOnline
<1> QED BY <1>1, <1>2, <1>3, <1>4, <1>5 DEF Update

\* No packet, however late, takes an accepted acknowledgement back.
THEOREM AcksGoForwards == Spec => AckForwards
<1>1. IInv /\ [Next]_vars => [\A p \in Peers : acked'[p] >= acked[p]]_vars
  <2> SUFFICES ASSUME IInv, Next PROVE \A p \in Peers : acked'[p] >= acked[p]
    OBVIOUS
  <2>0. acked \in [Peers -> Nat]
    BY DEF IInv, TypeOK
  <2>1. CASE acked' = acked
    BY <2>0, <2>1
  <2>2. ASSUME NEW pkt \in net, NEW q \in Peers, Feed(q, pkt)
        PROVE  \A p \in Peers : acked'[p] >= acked[p]
    <3>1. pkt.to = q /\ state[q] = "online"
      BY <2>2 DEF Feed
    <3>2. CASE AckValid(pkt.ack, peerAck[q], sequence[q])
      <4>1. acked' = [acked EXCEPT ![q] = pkt.upTo]
        BY <2>2, <3>2 DEF Feed, Accept
      <4>2. acked[q] <= pkt.upTo /\ pkt.upTo \in Nat
        BY <3>1, <3>2, AckIsNewer DEF IInv, TypeOK, Packet
      <4> QED BY <2>0, <4>1, <4>2
    <3>3. CASE ~AckValid(pkt.ack, peerAck[q], sequence[q])
      BY <2>1, <2>2, <3>3 DEF Feed, history
    <3> QED BY <3>2, <3>3
  <2>3. ASSUME NEW p \in Peers, (InStep(p) /\ QueueChunk(p)) \/ Step(p)
        PROVE  acked' = acked
    <3>1. CASE QueueChunk(p)
      BY <3>1 DEF QueueChunk
    <3>2. CASE UnpackNextChunk(p)
      BY <3>2 DEF UnpackNextChunk
    <3> QED BY <2>3, <3>1, <3>2, Silent DEF Step, history
  <2>4. ASSUME NEW pkt \in net, Lose(pkt) PROVE acked' = acked
    BY <2>4 DEF Lose, history
  <2> QED BY <2>1, <2>2, <2>3, <2>4 DEF Next
<1> QED BY <1>1, Inductive, PTL DEF Spec, AckForwards

\* The two connections, their unpackers and the network between them implement
\* two reliable streams.
THEOREM ImplementsStreams == Spec => StreamSpec
<1>1. Init => Stream!Init
  BY DEF Init, Stream!Init, Peers, Stream!Peers
<1>2. IInv /\ [Next]_vars => [Stream!Next]_(Stream!vars)
  <2> SUFFICES ASSUME IInv, Next
               PROVE  Stream!Next \/ UNCHANGED <<sent, delivered>>
    BY DEF vars, history, Stream!vars
  <2>0. /\ sent \in [Peers -> Nat] /\ delivered \in [Peers -> Seq(Nat)]
        /\ Peers = Stream!Peers /\ \A p : Other(p) = Stream!Other(p)
    BY DEF IInv, TypeOK, Peers, Stream!Peers, Other, Stream!Other
  <2>1. ASSUME NEW p \in Peers, QueueChunk(p)
        PROVE  Stream!Submit(p) \/ UNCHANGED <<sent, delivered>>
    BY <2>0, <2>1 DEF QueueChunk, Stream!Submit
  <2>2. ASSUME NEW p \in Peers, UnpackNextChunk(p)
        PROVE  Stream!Deliver(p) \/ UNCHANGED <<sent, delivered>>
    <3>1. CASE delivered' = delivered
      BY <2>2, <3>1 DEF UnpackNextChunk
    <3>2. CASE delivered' # delivered
      <4>1. /\ unpacker[p] # << >> /\ InSequence(p, Head(unpacker[p]))
            /\ state[p] # "offline" /\ sent' = sent
            /\ delivered' = [delivered EXCEPT ![p] = Append(@, Head(unpacker[p]).msg)]
        BY <2>2, <3>2 DEF UnpackNextChunk
      <4>2. /\ Head(unpacker[p]).msg = Len(delivered[p]) + 1
            /\ Len(delivered[p]) + 1 <= sent[Other(p)]
        BY <4>1, InSequenceIsNext
      <4>3. delivered' = [delivered EXCEPT ![p] = Append(@, Len(@) + 1)]
        BY <4>1, <4>2
      <4>4. Len(delivered[p]) < sent[Other(p)]
        BY <4>2, Naturals, Others DEF IInv
      <4> QED BY <2>0, <4>1, <4>3, <4>4 DEF Stream!Deliver
    <3> QED BY <3>1, <3>2
  <2>3. ASSUME NEW p \in Peers, Step(p)
        PROVE  Stream!Deliver(p) \/ UNCHANGED <<sent, delivered>>
    BY <2>2, <2>3, Silent DEF Step, history
  <2>4. ASSUME NEW pkt \in net, Lose(pkt) PROVE UNCHANGED <<sent, delivered>>
    BY <2>4 DEF Lose, history
  <2>5. ASSUME NEW pkt \in net, NEW p \in Peers, Feed(p, pkt)
        PROVE  UNCHANGED <<sent, delivered>>
    BY <2>5 DEF Feed, Accept, history
  <2> HIDE DEF Stream!Submit, Stream!Deliver
  <2>6. \A p \in Peers : (InStep(p) /\ QueueChunk(p)) \/ Step(p)
          => Stream!Submit(p) \/ Stream!Deliver(p) \/ UNCHANGED <<sent, delivered>>
    BY <2>1, <2>3
  <2>7. (\E p \in Peers : Stream!Submit(p) \/ Stream!Deliver(p)) => Stream!Next
    BY <2>0 DEF Stream!Next
  <2> QED BY <2>4, <2>5, <2>6, <2>7 DEF Next
<1> QED BY <1>1, <1>2, Inductive, PTL DEF Spec, StreamSpec, Stream!Spec
=============================================================================
