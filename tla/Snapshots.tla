----------------------------- MODULE Snapshots -----------------------------
(***************************************************************************)
(* The game state on its way to one client.  CServer::DoSnapshot sends     *)
(* each snapshot as a difference to the last one the client acknowledged;  *)
(* CClient keeps what it may still need as a base, shows two of them and   *)
(* acknowledges the newest with every input.  Snapshots and inputs may be  *)
(* lost, repeated and reordered; the messages of a map change come in      *)
(* order (NetConnection), but not in order with them.                      *)
(*                                                                         *)
(* Every packet carries what its sender has received of the other's vital  *)
(* messages, and CNetConnection::Feed drops a packet that knows less than  *)
(* an earlier one.  That check alone keeps the packets of the old map, and *)
(* their ticks, out of the new one.                                        *)
(***************************************************************************)
EXTENDS Integers, Sequences, FiniteSets

CONSTANTS MaxTick,      \* bound: ticks per map
          MaxEvents,    \* bound: snapshots and changes together
          MaxChanges,   \* bound: map changes, rejoins and takeovers together
          PartCounts,   \* bound: into how many parts a snapshot goes
          History,      \* three seconds in ticks
          InitEvery,    \* SNAPRATE_INIT sends in every tenth tick,
          RecoverEvery  \* SNAPRATE_RECOVER once a second

ASSUME SnapshotAssumption ==
  /\ {MaxTick, MaxEvents} \subseteq Nat /\ MaxChanges \in Nat
  /\ {History, InitEvery, RecoverEvery} \subseteq Nat \ {0}
  /\ PartCounts \subseteq Nat /\ IsFiniteSet(PartCounts)

VARIABLES
  server,   \* CServer and its m_aClients[i]
  client,   \* CClient
  vital,    \* vital messages on their way to each peer
  got,      \* how many of them each peer has received: CNetConnection::m_Ack
  peerAck,  \* the highest such count each peer has seen in a packet
  net,      \* every other packet sent; lost if it is never received
  changes,  \* how often the map, the client or the slot has changed
  made      \* how many snapshots were made

vars == <<server, client, vital, got, peerAck, net, changes, made>>

Peers == {"client", "server"}
Other(p) == IF p = "client" THEN "server" ELSE "client"

\* The content of a snapshot is known by the map, slot and tick it is made for.
Shot(map, slot, tick) == [map |-> map, slot |-> slot, tick |-> tick]
NoShot == Shot(0, 0, -1)  \* the empty snapshot, a null pointer, "not found"

Larger(a, b) == IF a > b THEN a ELSE b
Smaller(a, b) == IF a < b THEN a ELSE b
-----------------------------------------------------------------------------
(* CSnapshotStorage: a list of snapshots, the newest last. *)

\* PurgeUntil removes from the front and stops at the first that is recent.
PurgeUntil(store, tick) ==
  LET recent == {i \in 1..Len(store) : store[i].tick >= tick}
  IN IF recent = {} THEN <<>>
     ELSE SubSeq(store, CHOOSE i \in recent : \A j \in recent : i <= j,
                 Len(store))

\* Get looks from the back and gives up at the first that is older.
Get(store, tick) ==
  LET found == {i \in 1..Len(store) :
                  /\ store[i].tick = tick
                  /\ \A j \in i + 1..Len(store) : store[j].tick > tick}
  IN IF found = {} THEN NoShot ELSE store[CHOOSE i \in found : TRUE]
-----------------------------------------------------------------------------
(* Packets. *)

\* Only map_change carries a map in the code.  In the other messages it is a
\* history: the map of the server when it sent the message or the one answered.
Chunk(type, map, ack) == [type |-> type, map |-> map, ack |-> ack]

SnapPacket(shot, base, parts, part, ack) ==
  [type |-> "snap", shot |-> shot, base |-> base, parts |-> parts,
   part |-> part, ack |-> ack]

InputPacket(tick, ack) == [type |-> "input", tick |-> tick, ack |-> ack]

\* Seeded bug: the acknowledgement is not compared with the ones before.
AcceptsAll(p, packet) == TRUE

\* CNetConnection::Feed: a packet older than the newest seen is dropped.
Accepts(p, packet) == packet.ack >= peerAck[p]

Feed(p, packet) ==
  peerAck' = [peerAck EXCEPT ![p] = Larger(@, packet.ack)]

\* p receives the next vital message and sends the given ones in return.
Answer(p, type, replies) ==
  LET map == IF p = "server" THEN server.map ELSE Head(vital[p]).map
  IN /\ vital[p] # <<>> /\ Head(vital[p]).type = type
     /\ got' = [got EXCEPT ![p] = @ + 1]
     /\ Feed(p, Head(vital[p]))
     /\ vital' = [vital EXCEPT
          ![p] = Tail(@),
          ![Other(p)] = @ \o [i \in DOMAIN replies |->
                                Chunk(replies[i], map, got[p] + 1)]]

\* p sends one vital message unasked.
SendVital(p, type, map) ==
  vital' = [vital EXCEPT ![Other(p)] = Append(@, Chunk(type, map, got[p]))]
-----------------------------------------------------------------------------
(* Initial state: the server has just sent the map to a new client. *)

NewClient ==
  [map |-> 0, wanted |-> 0, online |-> FALSE, predicting |-> FALSE,
   recvTick |-> 0, ack |-> -1, parts |-> {}, received |-> 0,
   store |-> <<>>, prev |-> NoShot, cur |-> NoShot]

\* CServer::CClient::Reset.
Reset(s) == [s EXCEPT !.store = <<>>, !.acked = -1, !.rate = "init",
                      !.rejoining = FALSE]

Init ==
  /\ server = [tick |-> 0, map |-> 1, slot |-> 1, state |-> "connecting",
               ready |-> FALSE, rejoining |-> FALSE, acked |-> -1,
               rate |-> "init", store |-> <<>>]
  /\ client = NewClient
  /\ vital = [client |-> <<Chunk("map_change", 1, 0)>>, server |-> <<>>]
  /\ got = [p \in Peers |-> 0]
  /\ peerAck = [p \in Peers |-> 0]
  /\ net = {}
  /\ changes = 0 /\ made = 0

\* The bound on how much happens; a change counts for two snapshots.
Events == made + 2 * changes

Change ==
  /\ changes < MaxChanges /\ Events + 2 <= MaxEvents
  /\ changes' = changes + 1 /\ UNCHANGED made

\* An assumption on the environment: when the map changes, no more than two
\* messages of earlier handshakes are on their way or wait for a download.
\* READY, STARTINFO and ENTERGAME do not say which map they answer, and three
\* of them would take the client into a map that it has not loaded.
HandshakesEnd ==
  Len(vital["client"]) + Len(vital["server"])
    + (IF client.wanted = 0 THEN 0 ELSE 1) <= 2
-----------------------------------------------------------------------------
(* The server. *)

RateAllows(tick) ==
  CASE server.rate = "recover" -> tick % RecoverEvery = 0
    [] server.rate = "init"    -> tick % InitEvery = 0
    [] server.rate = "full"    -> TRUE

\* A tick in which nothing is sent to this client: the rate, a tick that is
\* not global, a server that catches up, a client that is not in the game.
Tick ==
  /\ server.tick < MaxTick
  /\ server' = [server EXCEPT !.tick = @ + 1]
  /\ UNCHANGED <<client, vital, got, peerAck, net, changes, made>>

\* Seeded bug: only the age counts.
PurgedByAge(tick) == PurgeUntil(server.store, tick - History)

\* What the server keeps: the last acknowledged snapshot is still needed.
Purged(tick) ==
  PurgeUntil(server.store, Larger(tick - History, server.acked))

\* A tick and its snapshot, sent in so many parts; 0 if it is too large.
DoSnapshot(parts) ==
  LET tick == server.tick + 1
      shot == Shot(server.map, server.slot, tick)
      store == Append(Purged(tick), shot)
      base == IF server.acked >= 0 THEN Get(store, server.acked) ELSE NoShot
  IN /\ tick <= MaxTick
     /\ server.state = "ingame" /\ ~server.rejoining
     /\ RateAllows(tick)
     /\ server' = [server EXCEPT
          !.tick = tick, !.store = store,
          !.rate = IF base = NoShot /\ @ = "full" THEN "recover" ELSE @]
     /\ net' = net \cup {SnapPacket(shot, base, parts, n, got["server"]) :
                           n \in 0..parts - 1}
     /\ Events < MaxEvents /\ made' = made + 1
     /\ UNCHANGED <<client, vital, got, peerAck, changes>>

\* NETMSG_INPUT: any tick up to now, newer or older than the last one.
OnInput(packet) ==
  /\ packet.type = "input" /\ Accepts("server", packet)
  /\ Feed("server", packet)
  /\ server' = IF server.state = "ingame" /\ packet.tick <= server.tick
               THEN [server EXCEPT !.acked = packet.tick,
                                   !.rate = IF packet.tick >= 0 THEN "full"
                                            ELSE @]
               ELSE server
  /\ UNCHANGED <<client, vital, got, net, changes, made>>

\* OnNetMsgReady.  A player that is made now has not sent its info.
OnReady ==
  /\ Answer("server", "ready",
            IF server.rejoining THEN <<"con_ready", "ready_to_enter">>
            ELSE <<"con_ready">>)
  /\ server' = IF server.state = "connecting"
               THEN [server EXCEPT !.state = "ready", !.ready = FALSE]
               ELSE server
  /\ UNCHANGED <<client, net, changes, made>>

\* NETMSGTYPE_CL_STARTINFO, which the game sees from STATE_READY on.
OnStartInfo ==
  LET first == server.state \in {"ready", "ingame"} /\ ~server.ready
  IN /\ Answer("server", "start_info",
               IF first THEN <<"ready_to_enter">> ELSE <<>>)
     /\ server' = [server EXCEPT !.ready = @ \/ first]
     /\ UNCHANGED <<client, net, changes, made>>

\* OnNetMsgEnterGame.
OnEnterGame ==
  /\ Answer("server", "enter_game", <<>>)
  /\ server' = IF server.rejoining THEN [server EXCEPT !.rejoining = FALSE]
               ELSE IF server.state = "ready" /\ server.ready
               THEN [server EXCEPT !.state = "ingame"]
               ELSE server
  /\ UNCHANGED <<client, net, changes, made>>

\* Seeded bug: the clients keep their snapshots when the map changes.
ChangeMapKeeps ==
  /\ Change /\ HandshakesEnd
  /\ server' = [server EXCEPT !.map = @ + 1, !.tick = 0, !.ready = FALSE,
                              !.state = "connecting"]
  /\ SendVital("server", "map_change", server.map + 1)
  /\ UNCHANGED <<client, got, peerAck, net>>

\* The server loads a map: new players, ticks from MIN_TICK on.
ChangeMap ==
  /\ Change /\ HandshakesEnd
  /\ server' = [Reset(server) EXCEPT !.map = @ + 1, !.tick = 0,
                                     !.ready = FALSE, !.state = "connecting"]
  /\ SendVital("server", "map_change", server.map + 1)
  /\ UNCHANGED <<client, got, peerAck, net>>

\* ClientRejoinCallback: the player's client was started again and connects
\* from its old address.  It has a new connection; the old packets are for
\* another token.
Rejoin ==
  /\ Change
  /\ server.state = "ingame"
  /\ server' = [Reset(server) EXCEPT !.rejoining = TRUE]
  /\ client' = NewClient
  /\ vital' = [client |-> <<Chunk("map_change", server.map, 0)>>,
               server |-> <<>>]
  /\ got' = [p \in Peers |-> 0]
  /\ peerAck' = [p \in Peers |-> 0]
  /\ net' = {}

\* SetTimedOut purges the snapshots of the slot that is taken over.
TakenOver == [server EXCEPT !.slot = @ + 1, !.acked = -1, !.store = <<>>]

\* The player, connected to another slot, takes the slot back whose connection
\* timed out.  The rate is what that slot had; m_PeerAck is not taken over.
\* The client sends its timeout code only after a second of play, so that no
\* packet from before is on its way any more.
SetTimedOut ==
  /\ Change
  /\ server.state = "ingame" /\ ~server.rejoining
  /\ \E rate \in {"init", "recover", "full"} :
       server' = [TakenOver EXCEPT !.rate = rate]
  /\ peerAck' = [peerAck EXCEPT !["server"] = 0]
  /\ net' = {m \in net : IF m.type = "snap" THEN m.shot.map = server.map
                         ELSE Accepts("server", m)}
  /\ UNCHANGED <<client, vital, got>>
-----------------------------------------------------------------------------
(* The client. *)

\* Seeded bug: the count of snapshots goes on.
LoadMapCounts(map) ==
  [client EXCEPT !.map = map, !.wanted = 0, !.online = FALSE,
                 !.store = <<>>, !.prev = NoShot, !.cur = NoShot,
                 !.parts = {}]

\* LoadMap resets the snapshots, but neither m_aAckGameTick nor
\* m_aCurrentRecvTick.
LoadMap(map) ==
  [client EXCEPT !.map = map, !.wanted = 0, !.online = FALSE,
                 !.store = <<>>, !.prev = NoShot, !.cur = NoShot,
                 !.received = 0, !.parts = {}]

\* NETMSG_MAP_CHANGE.  The map that was loaded is gone, whether the new one
\* is found or has to be downloaded.
OnMapChange ==
  \/ /\ Answer("client", "map_change", <<"ready">>)
     /\ client' = LoadMap(Head(vital["client"]).map)
     /\ UNCHANGED <<server, net, changes, made>>
  \/ /\ Answer("client", "map_change", <<>>)
     /\ client' = [LoadMap(0) EXCEPT !.wanted = Head(vital["client"]).map]
     /\ UNCHANGED <<server, net, changes, made>>

FinishMapDownload ==
  /\ client.wanted # 0
  /\ client' = LoadMap(client.wanted)
  /\ SendVital("client", "ready", client.wanted)
  /\ UNCHANGED <<server, got, peerAck, net, changes, made>>

\* NETMSG_CON_READY; it is ignored while no map is loaded.
OnConReady ==
  /\ Answer("client", "con_ready",
            IF client.map = 0 THEN <<>> ELSE <<"start_info">>)
  /\ UNCHANGED <<server, client, net, changes, made>>

\* CClient::OnEnterGame.
Entered ==
  [client EXCEPT !.store = <<>>, !.prev = NoShot, !.cur = NoShot,
                 !.received = 0, !.parts = {}, !.ack = -1, !.recvTick = 0,
                 !.predicting = FALSE]

\* NETMSGTYPE_SV_READYTOENTER: EnterGame.
OnReadyToEnter ==
  /\ Answer("client", "ready_to_enter", <<"enter_game">>)
  /\ client' = Entered
  /\ UNCHANGED <<server, net, changes, made>>

\* SendInput, with the tick to acknowledge.  Nothing is sent before the
\* prediction has started.
Input(predicting, ack) ==
  IF predicting THEN {InputPacket(ack, got["client"])} ELSE {}

\* Update, once online: the prediction reaches a new tick.
SendInput ==
  /\ client.online /\ client.cur # NoShot
  /\ client' = [client EXCEPT !.predicting = TRUE]
  /\ net' = net \cup Input(TRUE, client.ack)
  /\ UNCHANGED <<server, vital, got, peerAck, changes, made>>

\* Update, once online: the time has come for the next snapshot.
ShowNext ==
  LET later == {i \in 1..Len(client.store) - 1 : client.store[i] = client.cur}
  IN /\ client.online /\ client.cur # NoShot /\ later # {}
     /\ client' = [client EXCEPT
          !.prev = client.cur,
          !.cur = client.store[(CHOOSE i \in later : TRUE) + 1]]
     /\ UNCHANGED <<server, vital, got, peerAck, net, changes, made>>

\* The parts of the snapshot that is being received.
Gathered(packet) ==
  {packet} \cup IF packet.shot.tick # client.recvTick THEN {}
                ELSE {m \in client.parts : m.part # packet.part}

\* The base of the new snapshot and the two that are shown are kept.
PurgeTick(base) ==
  LET older(tick, shot) ==
        IF shot = NoShot THEN tick ELSE Smaller(tick, shot.tick)
  IN older(older(base.tick, client.prev), client.cur)

\* A snapshot is complete and unpacked.  The second since EnterGame puts the
\* client online.
Stored(shot, base) ==
  LET store == Append(PurgeUntil(client.store, PurgeTick(base)), shot)
      received == Smaller(client.received + 1, 3)
      c == [client EXCEPT !.store = store, !.received = received,
                          !.recvTick = shot.tick, !.ack = shot.tick,
                          !.parts = {}]
  IN IF received = 2
     THEN [c EXCEPT !.prev = Head(store), !.cur = store[Len(store)],
                    !.online = TRUE]
     ELSE c

\* A snapshot is taken if it is no older than the one being received and newer
\* than the last one acknowledged.
Fresh(tick) == tick >= client.recvTick /\ tick > client.ack

\* NETMSG_SNAP, _SNAPSINGLE and _SNAPEMPTY.  Parts of different snapshots,
\* or the wrong base, are noticed by the checksum, and the snapshot is gone.
OnSnap(packet) ==
  LET parts == Gathered(packet)
      base == Get(client.store, packet.base.tick)
      received == [client EXCEPT !.recvTick = packet.shot.tick, !.parts = {}]
  IN /\ packet.type = "snap" /\ Accepts("client", packet)
     /\ Feed("client", packet)
     /\ client.map # 0 /\ Fresh(packet.shot.tick)
     /\ \/ /\ {m.part : m \in parts} # 0..packet.parts - 1
           /\ client' = [received EXCEPT !.parts = parts]
           /\ net' = net
        \/ /\ {m.part : m \in parts} = 0..packet.parts - 1
           /\ packet.base # NoShot /\ base = NoShot
           /\ client' = [received EXCEPT !.ack = -1]
           /\ net' = net \cup Input(client.predicting, -1)
        \/ /\ {m.part : m \in parts} = 0..packet.parts - 1
           /\ packet.base = NoShot \/ base # NoShot
           /\ client' = IF base = packet.base
                           /\ \A m \in parts : m.shot = packet.shot
                        THEN Stored(packet.shot, base) ELSE received
           /\ net' = net
     /\ UNCHANGED <<server, vital, got, changes, made>>
-----------------------------------------------------------------------------
Next ==
  \/ Tick
  \/ \E parts \in PartCounts : DoSnapshot(parts)
  \/ \E packet \in net : OnInput(packet)
  \/ OnReady
  \/ OnStartInfo
  \/ OnEnterGame
  \/ ChangeMap
  \/ Rejoin
  \/ SetTimedOut
  \/ OnMapChange
  \/ FinishMapDownload
  \/ OnConReady
  \/ OnReadyToEnter
  \/ SendInput
  \/ ShowNext
  \/ \E packet \in net : OnSnap(packet)

Spec == Init /\ [][Next]_vars
-----------------------------------------------------------------------------
(* Properties. *)

Shots == [map : 1..MaxChanges + 1, slot : 1..MaxChanges + 1, tick : 1..MaxTick]
SnapPackets == [type : {"snap"}, shot : Shots, base : Shots \cup {NoShot},
                parts : PartCounts, part : Nat, ack : Nat]
InputPackets == [type : {"input"}, tick : -1..MaxTick, ack : Nat]
Chunks == [type : {"map_change", "con_ready", "ready", "start_info",
                   "ready_to_enter", "enter_game"},
           map : 1..MaxChanges + 1, ack : Nat]

\* Types of the variables; and two snapshots are shown once two were received
\* since EnterGame or LoadMap (client.cpp:2397-2424).
TypeOK ==
  /\ server \in [tick : 0..MaxTick, map : 1..MaxChanges + 1,
                 slot : 1..MaxChanges + 1,
                 state : {"connecting", "ready", "ingame"}, ready : BOOLEAN,
                 rejoining : BOOLEAN, acked : -1..MaxTick,
                 rate : {"init", "recover", "full"}, store : Seq(Shots)]
  /\ client \in [map : 0..MaxChanges + 1, wanted : 0..MaxChanges + 1,
                 online : BOOLEAN, predicting : BOOLEAN,
                 recvTick : 0..MaxTick, ack : -1..MaxTick,
                 parts : SUBSET SnapPackets, received : 0..3,
                 store : Seq(Shots), prev : Shots \cup {NoShot},
                 cur : Shots \cup {NoShot}]
  /\ client.cur # NoShot <=> client.received >= 2
  /\ vital \in [Peers -> Seq(Chunks)]
  /\ got \in [Peers -> Nat] /\ peerAck \in [Peers -> Nat]
  /\ net \subseteq SnapPackets \cup InputPackets
  /\ changes \in 0..MaxChanges /\ made \in 0..MaxEvents

\* The packets that the client would take from the game it is in.
Awaited ==
  {m \in net : /\ m.type = "snap" /\ server.state = "ingame"
               /\ m.shot.map = server.map
               /\ Accepts("client", m) /\ client.map # 0
               /\ Fresh(m.shot.tick)}

\* Whatever the order in which snapshots and acknowledgements arrive, and
\* whatever was purged at either end: the base of every snapshot that the
\* client would still take is in its storage, with the content the server
\* made the difference from, and the parts it already has are of the same
\* snapshot (server.cpp:1079-1115 against client.cpp:2231-2343).
BaseKnown ==
  \A m \in Awaited :
    /\ m.base = Get(client.store, m.base.tick)
    /\ m.shot.tick = client.recvTick =>
         \A part \in client.parts : part.shot = m.shot

Increasing(store) ==
  \A i, j \in 1..Len(store) : i < j => store[i].tick < store[j].tick

\* CSnapshotStorage::Add asserts that ticks increase, and PurgeUntil and Get
\* rely on it, through map changes that start the ticks anew and through
\* acknowledgements that are taken back (snapshot.cpp:705).
AddedInOrder == Increasing(server.store) /\ Increasing(client.store)

\* The snapshots that are shown are never freed, and the earlier is older: the
\* time between them is a divisor (client.cpp:3036).
PointersStored ==
  client.cur # NoShot =>
    /\ client.prev.tick < client.cur.tick
    /\ \E i, j \in 1..Len(client.store) :
         client.store[i] = client.prev /\ client.store[j] = client.cur

\* The storage of both ends is sound, by itself and for those who point into it.
StorageSound == AddedInOrder /\ PointersStored

\* A client in the game takes the next snapshot of the game: no tick from an
\* earlier map is left in what it compares with, and none gets there.
NeverStuck ==
  server.state = "ingame" /\ client.map = server.map /\ ~server.rejoining =>
    Fresh(server.tick + 1)
=============================================================================
