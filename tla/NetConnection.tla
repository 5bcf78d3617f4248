--------------------------- MODULE NetConnection ---------------------------
(***************************************************************************)
(* One established connection between a client and a server: the two       *)
(* CNetConnection objects, the chunk unpackers of CNetClient::Recv and     *)
(* CNetServer::Recv that feed them, the owners' Update loops, and the UDP  *)
(* network in between, which loses, duplicates and reorders packets.       *)
(*                                                                         *)
(* Both ends start ONLINE with sequence and ack 0, which is how            *)
(* CNetConnection::DirectInit and the CONNECTACCEPT branch of Feed leave   *)
(* them.  Only vital chunks are kept: the others carry no state.           *)
(*                                                                         *)
(* Time is abstracted: what depends on a clock (the resend rate limit,     *)
(* timeouts, flush and keep-alive intervals) is a Boolean the step picks.  *)
(***************************************************************************)
EXTENDS NetSequence, Sequences, FiniteSets

CONSTANTS
  BufferCap,    \* chunks that fit the resend buffer (NET_CONN_BUFFERSIZE)
  PacketCap,    \* chunks that fit a packet (NET_MAX_PACKET_CHUNKS and its size)
  Protected,    \* peers whose m_TimeoutProtected is set (the server's, or none)
  Window,       \* how far a peer sends ahead of what is old or in flight
  NetCap,       \* packets the network holds; a full one loses them to new ones
  MaxMsgs       \* bound of the model: messages each peer submits

Peers == {"client", "server"}
Other(p) == IF p = "client" THEN "server" ELSE "client"

ASSUME CapAssumption ==
  /\ BufferCap \in Nat /\ PacketCap \in Nat \ {0} /\ NetCap \in Nat
  /\ Protected \subseteq {"server"}
  /\ MaxMsgs \in [Peers -> Nat]

\* The network and the senders are such that fewer than half of the sequence
\* numbers are in use at a time: see InStep.
ASSUME WindowAssumption == Window \in Nat /\ 2 * Window < MaxSeq

VARIABLES
  state,             \* m_State
  sequence,          \* m_Sequence, the number of the last vital chunk sent
  ack,               \* m_Ack, the number of the last vital chunk received
  peerAck,           \* m_PeerAck, the last acknowledgement accepted
  buffer,            \* m_Buffer, the chunks kept for a resend
  construct,         \* m_Construct, the packet being built
  resendRequested,   \* m_ResendRequested
  timeoutSituation,  \* m_TimeoutSituation
  remoteClosed,      \* m_RemoteClosed
  unpacker,          \* the rest of the packet in m_PacketChunkUnpacker
  net,               \* the packets in flight
  sent,              \* history: messages submitted
  delivered,         \* history: messages handed to the application
  acked,             \* history: the message peerAck stands for
  unsaved            \* history: messages that did not fit the resend buffer

connVars == <<state, sequence, ack, peerAck, buffer, construct,
              resendRequested, timeoutSituation, remoteClosed>>
history == <<sent, delivered, acked, unsaved>>
vars == <<connVars, unpacker, net, history>>

NoChunks == [resend |-> FALSE, chunks |-> << >>]

\* The packets of the model: upTo says which message the number ack means.
Chunk == [seq : SeqNumber, msg : Nat]
Packet == [to : Peers, ctrl : {"none", "keepalive", "close"}, resend : BOOLEAN,
           ack : SeqNumber, upTo : Nat, chunks : Seq(Chunk)]

Elements(s) == {s[i] : i \in DOMAIN s}

TypeOK ==
  /\ state \in [Peers -> {"offline", "online", "error"}]
  /\ sequence \in [Peers -> SeqNumber]
  /\ ack \in [Peers -> SeqNumber]
  /\ peerAck \in [Peers -> SeqNumber]
  /\ buffer \in [Peers -> Seq(Chunk)]
  /\ construct \in [Peers -> [resend : BOOLEAN, chunks : Seq(Chunk)]]
  /\ resendRequested \in [Peers -> BOOLEAN]
  /\ timeoutSituation \in [Peers -> BOOLEAN]
  /\ remoteClosed \in [Peers -> BOOLEAN]
  /\ unpacker \in [Peers -> Seq(Chunk)]
  /\ net \subseteq Packet
  /\ sent \in [Peers -> Nat]
  /\ delivered \in [Peers -> Seq(Nat)]
  /\ acked \in [Peers -> Nat]
  /\ unsaved \in [Peers -> SUBSET Nat]

Init ==
  /\ state = [p \in Peers |-> "online"]
  /\ sequence = [p \in Peers |-> 0]
  /\ ack = [p \in Peers |-> 0]
  /\ peerAck = [p \in Peers |-> 0]
  /\ buffer = [p \in Peers |-> << >>]
  /\ construct = [p \in Peers |-> NoChunks]
  /\ resendRequested = [p \in Peers |-> FALSE]
  /\ timeoutSituation = [p \in Peers |-> FALSE]
  /\ remoteClosed = [p \in Peers |-> FALSE]
  /\ unpacker = [p \in Peers |-> << >>]
  /\ net = {}
  /\ sent = [p \in Peers |-> 0]
  /\ delivered = [p \in Peers |-> << >>]
  /\ acked = [p \in Peers |-> 0]
  /\ unsaved = [p \in Peers |-> {}]
-----------------------------------------------------------------------------
(* Packets leaving a peer.                                                 *)

PacketOf(p, ctrl, resend, chunks) ==
  [to |-> Other(p), ctrl |-> ctrl, resend |-> resend, ack |-> ack[p],
   upTo |-> Len(delivered[p]), chunks |-> chunks]

\* CNetBase::SendControlMsg: a control packet has no chunks and no flags.
Control(p, ctrl) == PacketOf(p, ctrl, FALSE, << >>)

\* The network after it lost the packets of gone and was given those of new.
Transmit(gone, new) ==
  LET after == (net \ gone) \cup new IN
  net' = IF Cardinality(after) <= NetCap THEN after ELSE new

\* CNetConnection::QueueChunkEx for the chunks new, one after the other: when
\* the construct is full it is flushed first.  Whole(..) is how many packets
\* leave, Overflow(..) the packets, Rest(..) what remains in the construct.
Whole(p, new) ==
  IF new = << >> THEN 0
  ELSE (Len(construct[p].chunks \o new) - 1) \div PacketCap

Overflow(p, new) ==
  LET all == construct[p].chunks \o new IN
  {PacketOf(p, "none", i = 0 /\ construct[p].resend,
            SubSeq(all, (i * PacketCap) + 1, (i + 1) * PacketCap)) :
     i \in 0 .. Whole(p, new) - 1}

Rest(p, new) ==
  LET all == construct[p].chunks \o new IN
  [resend |-> Whole(p, new) = 0 /\ construct[p].resend,
   chunks |-> SubSeq(all, (Whole(p, new) * PacketCap) + 1, Len(all))]

\* CNetConnection::Flush of the construct c: nothing leaves when there is
\* neither a chunk nor a resend request to send.
Flushed(p, c) ==
  IF c.chunks = << >> /\ ~c.resend THEN {}
  ELSE {PacketOf(p, "none", c.resend, c.chunks)}

\* CNetConnection::Reset.
Reset(p) ==
  /\ state' = [state EXCEPT ![p] = "offline"]
  /\ sequence' = [sequence EXCEPT ![p] = 0]
  /\ ack' = [ack EXCEPT ![p] = 0]
  /\ peerAck' = [peerAck EXCEPT ![p] = 0]
  /\ buffer' = [buffer EXCEPT ![p] = << >>]
  /\ construct' = [construct EXCEPT ![p] = NoChunks]
  /\ resendRequested' = [resendRequested EXCEPT ![p] = FALSE]
  /\ timeoutSituation' = [timeoutSituation EXCEPT ![p] = FALSE]
  /\ remoteClosed' = [remoteClosed EXCEPT ![p] = FALSE]
-----------------------------------------------------------------------------
(* The application.                                                        *)

\* CNetConnection::QueueChunk of a vital chunk.  The sequence number advances
\* whatever the state; a closed connection then refuses the chunk.  A chunk
\* that does not fit the resend buffer is sent all the same, but not kept.
QueueChunk(p) ==
  /\ sent[p] < MaxMsgs[p]
  /\ sequence' = [sequence EXCEPT ![p] = Succ(@)]
  /\ \/ /\ state[p] # "online"
        /\ UNCHANGED <<buffer, construct, net, sent, unsaved>>
     \/ /\ state[p] = "online"
        /\ LET msg == sent[p] + 1
               chunk == [seq |-> Succ(sequence[p]), msg |-> msg]
               fits == Len(buffer[p]) < BufferCap
           IN
           /\ construct' = [construct EXCEPT ![p] = Rest(p, <<chunk>>)]
           /\ Transmit({}, Overflow(p, <<chunk>>))
           /\ sent' = [sent EXCEPT ![p] = msg]
           /\ buffer' = IF fits THEN [buffer EXCEPT ![p] = Append(@, chunk)]
                                ELSE buffer
           /\ unsaved' = IF fits THEN unsaved
                                 ELSE [unsaved EXCEPT ![p] = @ \cup {msg}]
  /\ UNCHANGED <<state, ack, peerAck, resendRequested, timeoutSituation,
                 remoteClosed, unpacker, delivered, acked>>

\* CNetConnection::Flush, called by the application (NETSENDFLAG_FLUSH,
\* CNetServer::EndFlushBatch).
Flush(p) ==
  /\ state[p] = "online"
  /\ Flushed(p, construct[p]) # {}
  /\ Transmit({}, Flushed(p, construct[p]))
  /\ construct' = [construct EXCEPT ![p] = NoChunks]
  /\ UNCHANGED <<state, sequence, ack, peerAck, buffer, resendRequested,
                 timeoutSituation, remoteClosed, unpacker, history>>

\* CNetConnection::Disconnect, called by the application (a kick, a quit).
Disconnect(p) ==
  /\ state[p] # "offline"
  /\ Transmit({}, IF remoteClosed[p] \/ timeoutSituation[p] THEN {}
                  ELSE {Control(p, "close")})
  /\ Reset(p)
  /\ UNCHANGED <<unpacker, history>>
-----------------------------------------------------------------------------
(* Receiving.                                                              *)

\* Seeded bug: the chunk after the acknowledged one leaves with it.
AckChunksOneMore(chunks, a) ==
  LET left == {i \in DOMAIN chunks : ~InBackroom(chunks[i].seq, Succ(a))} IN
  IF left = {} THEN << >>
  ELSE SubSeq(chunks, CHOOSE i \in left : \A j \in left : i <= j, Len(chunks))

\* CNetConnection::AckChunks: the chunks in the backroom of a leave the front
\* of the buffer, up to the first that is not.
AckChunks(chunks, a) ==
  LET left == {i \in DOMAIN chunks : ~InBackroom(chunks[i].seq, a)} IN
  IF left = {} THEN << >>
  ELSE SubSeq(chunks, CHOOSE i \in left : \A j \in left : i <= j, Len(chunks))

\* The part of CNetConnection::Feed after the acknowledgement was found valid.
\* A resend request is answered now or, within the rate limit, later; then the
\* packet closes the connection or acknowledges chunks.
Accept(p, pkt, gone, answer) ==
  LET requested == resendRequested[p] \/ pkt.resend
      resent == IF requested /\ answer THEN buffer[p] ELSE << >>
  IN
  /\ peerAck' = [peerAck EXCEPT ![p] = pkt.ack]
  /\ acked' = [acked EXCEPT ![p] = pkt.upTo]
  /\ resendRequested' = [resendRequested EXCEPT ![p] = requested /\ ~answer]
  /\ construct' = [construct EXCEPT ![p] = Rest(p, resent)]
  /\ Transmit(gone, Overflow(p, resent))
  /\ unpacker' = [unpacker EXCEPT ![p] = pkt.chunks]
  /\ \/ /\ pkt.ctrl = "close"
        /\ state' = [state EXCEPT ![p] = "error"]
        /\ remoteClosed' = [remoteClosed EXCEPT ![p] = TRUE]
        /\ UNCHANGED buffer
     \/ /\ pkt.ctrl # "close"
        /\ buffer' = [buffer EXCEPT ![p] = AckChunks(@, pkt.ack)]
        /\ UNCHANGED <<state, remoteClosed>>
  /\ UNCHANGED <<sequence, ack, timeoutSituation, sent, delivered, unsaved>>

\* CNetClient::Recv and CNetServer::Recv take a packet from the socket, once
\* the previous one is unpacked, and Feed it to the connection.  The network
\* may keep a duplicate.
Feed(p, pkt) ==
  /\ pkt \in net /\ pkt.to = p
  /\ unpacker[p] = << >>
  /\ state[p] = "online"
  /\ \E gone \in {{}, {pkt}} :
       \/ /\ AckValid(pkt.ack, peerAck[p], sequence[p])
          /\ \E answer \in BOOLEAN : Accept(p, pkt, gone, answer)
       \/ /\ ~AckValid(pkt.ack, peerAck[p], sequence[p])
          /\ Transmit(gone, {})
          /\ UNCHANGED <<connVars, unpacker, history>>

\* Seeded bug: a repetition of the last chunk is no obstacle.
InSequenceAgain(p, chunk) == chunk.seq \in {ack[p], Succ(ack[p])}

\* UnpackNextChunk's test for the next vital chunk.
InSequence(p, chunk) == chunk.seq = Succ(ack[p])

\* CPacketChunkUnpacker::UnpackNextChunk, one turn of its loop, and what Recv
\* does with the chunk it returns: the next chunk in sequence goes to the
\* application, unless that has closed the connection in the meantime, an old
\* one is skipped, and any other requests a resend.
UnpackNextChunk(p) ==
  /\ unpacker[p] # << >>
  /\ LET chunk == Head(unpacker[p]) IN
     \/ /\ InSequence(p, chunk)
        /\ ack' = [ack EXCEPT ![p] = chunk.seq]
        /\ \/ /\ state[p] # "offline"
              /\ delivered' = [delivered EXCEPT ![p] = Append(@, chunk.msg)]
              /\ unpacker' = [unpacker EXCEPT ![p] = Tail(@)]
           \/ /\ state[p] = "offline"
              /\ unpacker' = [unpacker EXCEPT ![p] = << >>]
              /\ UNCHANGED delivered
        /\ UNCHANGED construct
     \/ /\ ~InSequence(p, chunk)
        /\ unpacker' = [unpacker EXCEPT ![p] = Tail(@)]
        /\ construct' = IF InBackroom(chunk.seq, ack[p]) THEN construct
                        ELSE [construct EXCEPT ![p].resend = TRUE]
        /\ UNCHANGED <<ack, delivered>>
  /\ UNCHANGED <<state, sequence, peerAck, buffer, resendRequested,
                 timeoutSituation, remoteClosed, net, sent, acked, unsaved>>

\* The network loses a packet, or a peer that is not online ignores it.
Lose(pkt) ==
  /\ net' = net \ {pkt}
  /\ UNCHANGED <<connVars, unpacker, history>>
-----------------------------------------------------------------------------
(* CNetConnection::Update, followed by what the owner does with a connection
   in the state ERROR: CNetClient::Update disconnects it, CNetServer::Update
   drops it unless its timeout is protected.  Neither runs while a packet is
   being unpacked.                                                         *)

\* A connection in the state ERROR: the protection ends, or lasts.
UpdateErrored(p, over) ==
  /\ unpacker[p] = << >>
  /\ state[p] = "error"
  /\ LET situation == timeoutSituation[p] /\ ~over IN
     /\ ~(p \in Protected /\ situation)
     /\ Transmit({}, IF remoteClosed[p] \/ situation THEN {}
                     ELSE {Control(p, "close")})
  /\ Reset(p)
  /\ UNCHANGED <<unpacker, history>>

\* Nothing was received for too long (silence), or the oldest chunk was not
\* acknowledged for too long.  A pending resend request may be answered first.
UpdateTimedOut(p, answer, silence) ==
  LET resent == IF resendRequested[p] /\ answer THEN buffer[p] ELSE << >> IN
  /\ unpacker[p] = << >>
  /\ state[p] = "online"
  /\ silence \/ buffer[p] # << >>
  /\ Transmit({}, Overflow(p, resent))
  /\ \/ /\ p \in Protected
        /\ state' = [state EXCEPT ![p] = "error"]
        /\ timeoutSituation' = [timeoutSituation EXCEPT ![p] = TRUE]
        /\ construct' = [construct EXCEPT ![p] = Rest(p, resent)]
        /\ resendRequested' = [resendRequested EXCEPT ![p] = @ /\ ~answer]
        /\ UNCHANGED <<sequence, ack, peerAck, buffer, remoteClosed>>
     \/ /\ p \notin Protected
        /\ Reset(p)
  /\ UNCHANGED <<unpacker, history>>

\* A connection that stays up: it answers a pending resend request, or resends
\* its oldest chunk when that was not acknowledged for a second, and then
\* flushes or sends a keep-alive when it has sent nothing for long enough.
UpdateOnline(p, answer, again, idle) ==
  LET resent == IF resendRequested[p] /\ answer THEN buffer[p]
                ELSE IF again /\ buffer[p] # << >> THEN <<buffer[p][1]>>
                ELSE << >>
      overflow == Overflow(p, resent)
      flushed == IF idle /\ overflow = {} THEN Flushed(p, Rest(p, resent)) ELSE {}
      keepAlive == IF idle /\ overflow \cup flushed = {}
                   THEN {Control(p, "keepalive")} ELSE {}
  IN
  /\ unpacker[p] = << >>
  /\ state[p] = "online"
  /\ Transmit({}, overflow \cup flushed \cup keepAlive)
  /\ construct' = [construct EXCEPT ![p] = IF flushed = {} THEN Rest(p, resent)
                                           ELSE NoChunks]
  /\ resendRequested' = [resendRequested EXCEPT ![p] = @ /\ ~answer]
  /\ timeoutSituation' = [timeoutSituation EXCEPT ![p] = FALSE]
  /\ UNCHANGED <<state, sequence, ack, peerAck, buffer, remoteClosed,
                 unpacker, history>>

Update(p) ==
  \E a, b, c \in BOOLEAN :
    \/ UpdateErrored(p, a)
    \/ UpdateTimedOut(p, a, b)
    \/ UpdateOnline(p, a, b, c)
-----------------------------------------------------------------------------
(* The environment.  The code has neither a send window nor packet numbers,
   so a peer that is more than half of the sequence numbers ahead of a chunk
   or of an acknowledgement still under way confuses the other.  InStep(p)
   says that p may submit a message: what the network and the buffers still
   hold is not that old.  It is the timing assumption of the protocol:
   everything older is lost before the application has sent Window more.   *)

InFlight(p) ==
  Elements(construct[p].chunks) \cup Elements(unpacker[Other(p)])
    \cup UNION {Elements(pkt.chunks) : pkt \in {k \in net : k.to = Other(p)}}

InStep(p) ==
  /\ sent[p] - acked[p] < Window
  /\ \A c \in InFlight(p) : sent[p] - c.msg < Window
  /\ \A pkt \in net : pkt.to = p => sent[p] - pkt.upTo < Window

Step(p) ==
  \/ Flush(p)
  \/ Disconnect(p)
  \/ UnpackNextChunk(p)
  \/ Update(p)

Next ==
  \/ \E p \in Peers : (InStep(p) /\ QueueChunk(p)) \/ Step(p)
  \/ \E pkt \in net : Lose(pkt) \/ \E p \in Peers : Feed(p, pkt)

Spec == Init /\ [][Next]_vars

(* Fairness.  The owners pump their sockets and call Update every tick, so
   unpacking and the timed parts of Update go on (with a rate limit and
   intervals that pass again and again).  The network is a fair lossy link:
   a message, or an acknowledgement, that it holds again and again (in a
   packet the peer would not take for outdated) is received again and again. *)
Carries(pkt, p, m) ==
  /\ pkt.to = p /\ \E c \in Elements(pkt.chunks) : c.msg = m
  /\ AckValid(pkt.ack, peerAck[p], sequence[p])
Acknowledges(pkt, p, m) == pkt.to = p /\ pkt.upTo = m

FairLink(p) ==
  /\ \A m \in 1 .. MaxMsgs[Other(p)] :
       []<>(\E pkt \in net : Carries(pkt, p, m))
         => []<><<\E pkt \in net : Carries(pkt, p, m) /\ Feed(p, pkt)>>_vars
  /\ \A m \in 1 .. MaxMsgs[p] :
       []<>(\E pkt \in net : Acknowledges(pkt, p, m))
         => []<><<\E pkt \in net : Acknowledges(pkt, p, m) /\ Feed(p, pkt)>>_vars

Fairness ==
  \A p \in Peers : /\ WF_vars(UnpackNextChunk(p))
                   /\ SF_vars(UpdateOnline(p, TRUE, TRUE, TRUE))
                   /\ FairLink(p)

LiveSpec == Spec /\ Fairness
-----------------------------------------------------------------------------
(* Properties.                                                             *)

\* The application of a peer gets the messages of the other peer in the order
\* they were submitted, each exactly once, whatever the network does to the
\* packets (UnpackNextChunk's sequence check).
InOrder ==
  \A p \in Peers :
    /\ Len(delivered[p]) <= sent[Other(p)]
    /\ \A i \in DOMAIN delivered[p] : delivered[p][i] = i

\* What a peer takes for acknowledged has reached the other application, and
\* every message that has not is still in the resend buffer, unless it found
\* the buffer full when it was submitted: AckChunks frees nothing too early.
SavedUntilDelivered ==
  \A p \in Peers :
    /\ acked[p] <= Len(delivered[Other(p)])
    /\ state[p] # "offline" =>
         \A m \in (Len(delivered[Other(p)]) + 1) .. sent[p] :
           m \in unsaved[p] \/ \E c \in Elements(buffer[p]) : c.msg = m

\* "old packet that we already got" (the comment in UnpackNextChunk): a chunk
\* that is skipped without a resend request has been delivered before.
SkippedWasDelivered ==
  \A p \in Peers :
    state[p] = "online" /\ unpacker[p] # << >> =>
      LET chunk == Head(unpacker[p]) IN
      ~InSequence(p, chunk) /\ InBackroom(chunk.seq, ack[p])
        => chunk.msg <= Len(delivered[p])

\* Late and duplicated packets never take an acknowledgement back: the check
\* in Feed lets peerAck move only forwards through the messages.
AckForwards == [][\A p \in Peers : acked'[p] >= acked[p]]_vars

\* A submitted message is delivered at last, or one of the ends gave up, or a
\* message up to it found the resend buffer full and may be lost for good.
EventuallyDelivered ==
  \A p \in Peers : \A m \in 1 .. MaxMsgs[p] :
    sent[p] >= m ~> \/ Len(delivered[Other(p)]) >= m
                    \/ \E q \in Peers : state[q] # "online"
                    \/ \E n \in unsaved[p] : n <= m

\* The connection implements two reliable streams.
Stream == INSTANCE NetStream
StreamSpec == Stream!Spec
=============================================================================
