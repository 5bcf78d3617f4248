----------------------------- MODULE NetServer -----------------------------
(***************************************************************************)
(* The sessions of the server: the connection slots of CNetServer, the     *)
(* clients CServer keeps beside them and the players the game hangs on     *)
(* them.  Everything runs on the main thread, so each packet and each pass *)
(* of Update is one step; the hazards are in the order of the steps.       *)
(*                                                                         *)
(* The network may lose, delay and repeat what a peer sends: a handshake   *)
(* packet with a valid token may arrive from any address at any time.      *)
(***************************************************************************)
EXTENDS Integers, FiniteSets

CONSTANTS Slots,            \* the indices of m_aSlots and m_aClients
          Addrs, IpOf,      \* addresses, and what is left without the port
          NoAddr, NoToken,  \* an address, a 0.7 token that is not set
          MaxClientsPerIp,  \* sv_max_clients_per_ip
          Codes,            \* what players send with /timeout
          NoCode, NoPlayer  \* m_aTimeoutCode empty, m_apPlayers[i] null

Ips == {IpOf[a] : a \in Addrs}

ASSUME SessionAssumption ==
  /\ Slots \subseteq Nat /\ IsFiniteSet(Slots)
  /\ NoAddr \notin Addrs /\ NoToken \notin Ips
  /\ NoCode \notin Codes /\ NoPlayer \notin Codes \cup {NoCode}
  /\ MaxClientsPerIp \in Nat \ {0}

VARIABLES
  slots,    \* CNetServer::m_aSlots, the connections
  clients,  \* CServer::m_aClients: m_State, m_Sixup, m_Rejoining
  players   \* CGameContext::m_apPlayers: the timeout code of each player

vars == <<slots, clients, players>>

\* The security token is that of the address, or the protocol has none, or a
\* vanilla peer asked to connect again and must still echo the token.
SecurityTokens == {"valid", "unsupported", "unknown"}

\* m_Token is what a 0.7 packet must carry: GetToken hashes the address
\* without its port, so IpOf[a] stands for the token of a.
Connections ==
  [state : {"offline", "online", "error"}, addr : Addrs \cup {NoAddr},
   security : SecurityTokens, sixup : BOOLEAN, token : Ips \cup {NoToken},
   protected : BOOLEAN, situation : BOOLEAN]

ClientStates ==
  {"redirected", "empty", "preauth", "auth", "connecting", "ready", "ingame"}

TypeOK ==
  /\ slots \in [Slots -> Connections]
  /\ clients \in [Slots -> [state : ClientStates, sixup : BOOLEAN,
                            rejoining : BOOLEAN]]
  /\ players \in [Slots -> Codes \cup {NoCode, NoPlayer}]

\* CNetConnection::Reset.  (It leaves the address, which nobody reads then.)
Offline == [state |-> "offline", addr |-> NoAddr, security |-> "unknown",
            sixup |-> FALSE, token |-> NoToken, protected |-> FALSE,
            situation |-> FALSE]

\* CNetConnection::DirectInit.
DirectInit(a, security, sixup) ==
  [state |-> "online", addr |-> a, security |-> security, sixup |-> sixup,
   token |-> IF sixup THEN IpOf[a] ELSE NoToken,
   protected |-> FALSE, situation |-> FALSE]

NoClient == [state |-> "empty", sixup |-> FALSE, rejoining |-> FALSE]

\* The states from STATE_READY on: the game knows the client.
Ready(state) == state \in {"ready", "ingame"}

Init ==
  /\ slots = [s \in Slots |-> Offline]
  /\ clients = [s \in Slots |-> NoClient]
  /\ players = [s \in Slots |-> NoPlayer]
-----------------------------------------------------------------------------
(* Finding a slot. *)

First(s, S) == s \in S /\ \A t \in S : s <= t

\* GetClientSlot returns the first of these; slots in error are not looked at.
ClientSlots(a) ==
  {s \in Slots : slots[s].state = "online" /\ slots[s].addr = a}

\* Timeout protection keeps the slot of a connection that timed out.
Waiting(conn) ==
  conn.state = "error" /\ conn.protected /\ conn.situation

\* Seeded bug: protected players do not count towards the limit.
CountedOnline(conn) == conn.state = "online"

Counted(conn) == conn.state = "online" \/ Waiting(conn)

NumClientsWithAddr(a) ==
  Cardinality({s \in Slots :
                 Counted(slots[s]) /\ IpOf[slots[s].addr] = IpOf[a]})

Free == {s \in Slots : slots[s].state = "offline"}
-----------------------------------------------------------------------------
(* Joining and leaving. *)

\* CServer::NewClientCallback; after the vanilla handshake, which proved the
\* address already, NewClientNoAuthCallback, which leaves m_Sixup alone.
NewClient(c, vanilla, sixup) ==
  [state |-> IF vanilla THEN "connecting" ELSE "preauth",
   sixup |-> IF vanilla THEN c.sixup ELSE sixup,
   rejoining |-> FALSE]

\* CServer::ClientRejoinCallback: a client in the game keeps its player.
Rejoined(c, vanilla, sixup) ==
  IF c.state = "ingame"
  THEN [c EXCEPT !.sixup = sixup, !.rejoining = TRUE]
  ELSE NewClient(c, vanilla, sixup)

Rejoin(s, conn, vanilla, sixup) ==
  /\ slots' = [slots EXCEPT ![s] = conn]
  /\ clients' = [clients EXCEPT ![s] = Rejoined(@, vanilla, sixup)]
  /\ UNCHANGED players

Join(s, conn, vanilla, sixup) ==
  /\ slots' = [slots EXCEPT ![s] = conn]
  /\ clients' = [clients EXCEPT ![s] = NewClient(@, vanilla, sixup)]
  /\ UNCHANGED players

\* CNetServer::TryAcceptClient.  Connlimit may refuse the peer at any time,
\* then nothing happens.
TryAcceptClient(a, security, vanilla, sixup) ==
  LET conn == DirectInit(a, security, sixup) IN
  \/ \E s \in Slots : First(s, ClientSlots(a)) /\ Rejoin(s, conn, vanilla, sixup)
  \/ /\ ClientSlots(a) = {}
     /\ NumClientsWithAddr(a) + 1 <= MaxClientsPerIp
     /\ \E s \in Slots : First(s, Free) /\ Join(s, conn, vanilla, sixup)

\* A 0.7 connection reads every packet as 0.7 and ignores these.
Speaks6(a) == \A s \in ClientSlots(a) : ~ slots[s].sixup

\* OnTokenCtrlMsg, NET_CTRLMSG_ACCEPT with the token of the address.
AcceptToken(a) == Speaks6(a) /\ TryAcceptClient(a, "valid", FALSE, FALSE)

\* OnSixupCtrlMsg, NET_CTRLMSG_CONNECT with the token of the address.
ConnectSixup(a) == TryAcceptClient(a, "valid", FALSE, TRUE)

\* OnPreConnMsg, NET_CTRLMSG_CONNECT with sv_vanilla_antispoof: the server
\* answers, and a connection it knows must prove its address again.
ConnectVanilla(a) ==
  \E s \in Slots :
    /\ First(s, ClientSlots(a)) /\ Speaks6(a)
    /\ slots[s].security = "unsupported"
    /\ slots' = [slots EXCEPT ![s].security = "unknown"]
    /\ UNCHANGED <<clients, players>>

\* OnPreConnMsg, NETMSG_INPUT with the token in the place of the game tick.
InputVanilla(a) ==
  /\ Speaks6(a)
  /\ \A s \in ClientSlots(a) : slots[s].security = "unknown"
  /\ TryAcceptClient(a, "unsupported", TRUE, FALSE)

\* GameServer()->OnClientDrop, called for clients the game knows.
PlayersWithout(s) ==
  IF Ready(clients[s].state) THEN [players EXCEPT ![s] = NoPlayer] ELSE players

\* Seeded bug: the connection is closed before the callback and its slot with
\* it, but the client stays.
DropConnectionOnly(s) ==
  /\ slots' = [slots EXCEPT ![s] = Offline]
  /\ players' = PlayersWithout(s)
  /\ UNCHANGED clients

\* CNetServer::Drop: CServer::DelClientCallback and Disconnect.
Drop(s) ==
  /\ slots' = [slots EXCEPT ![s] = Offline]
  /\ clients' = [clients EXCEPT ![s] = NoClient]
  /\ players' = PlayersWithout(s)
-----------------------------------------------------------------------------
(* CNetServer::Update, slot by slot. *)

\* Nothing was heard of the peer, or it acknowledged nothing, for too long.
Timeout(s) ==
  /\ slots[s].state = "online"
  /\ IF slots[s].protected
     THEN /\ slots' = [slots EXCEPT ![s].state = "error", ![s].situation = TRUE]
          /\ UNCHANGED <<clients, players>>
     ELSE Drop(s)

\* Each pass forgets an earlier timeout of a connection that is resumed.
Alive(s) ==
  /\ slots[s].state = "online"
  /\ slots' = [slots EXCEPT ![s].situation = FALSE]
  /\ UNCHANGED <<clients, players>>

\* A closed connection is dropped; one that waits when the protection is over.
DropErrored(s) == slots[s].state = "error" /\ Drop(s)
-----------------------------------------------------------------------------
(* Packets of a connection. *)

\* The test of CNetConnection::Feed on 0.7 packets.
Hears(conn) == conn.sixup => conn.token = IpOf[conn.addr]

FromPeer(s) == slots[s].state = "online" /\ Hears(slots[s])

\* NET_CTRLMSG_CLOSE.
Close(s) ==
  /\ FromPeer(s)
  /\ slots' = [slots EXCEPT ![s].state = "error"]
  /\ UNCHANGED <<clients, players>>

\* CServer::PumpNetwork skips what a redirected client still sends.
MessageFrom(s) == FromPeer(s) /\ clients[s].state # "redirected"

SetState(s, state) == clients' = [clients EXCEPT ![s].state = state]

\* OnNetMsgClientVer.
ClientVer(s) ==
  /\ MessageFrom(s) /\ clients[s].state = "preauth"
  /\ SetState(s, "auth")
  /\ UNCHANGED <<slots, players>>

\* OnNetMsgInfo: a wrong version, a wrong password or a full server drops the
\* client, one that rejoins too.
Info(s) ==
  /\ MessageFrom(s)
  /\ clients[s].state \in {"preauth", "auth"} \/ clients[s].rejoining
  /\ \/ Drop(s)
     \/ /\ ~ clients[s].rejoining
        /\ SetState(s, "connecting")
        /\ UNCHANGED <<slots, players>>

\* OnNetMsgReady, with CGameContext::OnClientConnected.
ReadyMsg(s) ==
  /\ MessageFrom(s) /\ clients[s].state = "connecting"
  /\ SetState(s, "ready")
  /\ players' = [players EXCEPT ![s] = NoCode]
  /\ UNCHANGED slots

\* OnNetMsgEnterGame.
EnterGame(s) ==
  /\ MessageFrom(s)
  /\ \/ /\ clients[s].rejoining
        /\ clients' = [clients EXCEPT ![s].rejoining = FALSE]
     \/ /\ ~ clients[s].rejoining /\ clients[s].state = "ready"
        /\ players[s] # NoPlayer
        /\ SetState(s, "ingame")
  /\ UNCHANGED <<slots, players>>

\* CNetConnection::ResumeConnection.
ResumeConnection(conn, orig) ==
  [conn EXCEPT !.state = "online", !.addr = orig.addr,
               !.security = orig.security, !.sixup = orig.sixup]

\* Seeded bug: the old connection stays beside the one that continues it.
SetTimedOutKeepsOrig(s, orig) ==
  /\ slots' = [slots EXCEPT ![s] = ResumeConnection(@, slots[orig])]
  /\ clients' = [clients EXCEPT ![s].sixup = clients[orig].sixup]
  /\ UNCHANGED players

\* CServer::SetTimedOut: the slot s goes on with the connection of orig.
SetTimedOut(s, orig) ==
  /\ slots' = [slots EXCEPT ![s] = ResumeConnection(@, slots[orig]),
                            ![orig] = Offline]
  /\ clients' = [clients EXCEPT ![s].sixup = clients[orig].sixup,
                                ![orig] = NoClient]
  /\ players' = PlayersWithout(orig)

\* CGameContext::ConTimeout.  The client sends its code when it has received
\* snapshots, and a client that rejoins receives none.
TimedOutWith(s, code) ==
  {t \in Slots \ {s} : players[t] = code /\ slots[t].state = "error"}

ConTimeout(s, code) ==
  /\ MessageFrom(s) /\ clients[s].state = "ingame" /\ ~ clients[s].rejoining
  /\ \/ \E t \in Slots : First(t, TimedOutWith(s, code)) /\ SetTimedOut(t, s)
     \/ /\ TimedOutWith(s, code) = {}
        /\ slots' = [slots EXCEPT ![s].protected = TRUE]
        /\ players' = [players EXCEPT ![s] = code]
        /\ UNCHANGED clients
-----------------------------------------------------------------------------
(* What the server does of its own accord. *)

\* CServer::Kick.
Kick(s) == clients[s].state # "empty" /\ Drop(s)

\* CServer::RedirectClient and ReconnectClient.
Redirect(s) ==
  /\ clients[s].state # "empty"
  /\ players' = PlayersWithout(s)
  /\ SetState(s, "redirected")
  /\ UNCHANGED slots

\* Ten seconds later CServer::Run drops it.
RedirectOver(s) == clients[s].state = "redirected" /\ Drop(s)

\* Seeded bug: a client in the game stays there though its player goes with the
\* old map.
MapChangeKeepsReady ==
  /\ players' = [s \in Slots |-> NoPlayer]
  /\ clients' = [s \in Slots |->
       IF clients[s].state \in {"connecting", "ingame"}
       THEN [clients[s] EXCEPT !.state = "connecting", !.rejoining = FALSE]
       ELSE clients[s]]
  /\ UNCHANGED slots

\* A new map: the game starts anew and its clients load the map.
MapChange ==
  /\ players' = [s \in Slots |-> NoPlayer]
  /\ clients' = [s \in Slots |->
       IF clients[s].state = "connecting" \/ Ready(clients[s].state)
       THEN [clients[s] EXCEPT !.state = "connecting", !.rejoining = FALSE]
       ELSE clients[s]]
  /\ UNCHANGED slots
-----------------------------------------------------------------------------
Handshake(a) ==
  AcceptToken(a) \/ ConnectSixup(a) \/ ConnectVanilla(a) \/ InputVanilla(a)

Message(s) ==
  \/ ClientVer(s) \/ Info(s) \/ ReadyMsg(s) \/ EnterGame(s)
  \/ \E code \in Codes : ConTimeout(s, code)

Update(s) == Timeout(s) \/ Alive(s) \/ DropErrored(s)

Next ==
  \/ \E a \in Addrs : Handshake(a)
  \/ \E s \in Slots : Message(s) \/ Close(s) \/ Update(s)
  \/ \E s \in Slots : Kick(s) \/ Redirect(s) \/ RedirectOver(s)
  \/ MapChange

Spec == Init /\ [][Next]_vars

-----------------------------------------------------------------------------
(* Properties. *)

\* The server keeps a client for exactly the slots that have a connection,
\* whichever of the two is set up or torn down by a packet, a timeout, a
\* takeover or a kick.
SlotsAgree ==
  \A s \in Slots : clients[s].state = "empty" <=> slots[s].state = "offline"

\* A peer has one connection: its packets find their slot by its address, so
\* of two slots online with one address the second would never be heard.
OneSlotPerAddress ==
  \A s, t \in Slots :
    /\ slots[s].state = "online" /\ slots[t].state = "online"
    /\ slots[s].addr = slots[t].addr
    => s = t

\* The clients of an IP on the server, the players who may come back included.
OfIp(a) ==
  {s \in Slots : /\ slots[s].state = "online" \/ Waiting(slots[s])
                 /\ IpOf[slots[s].addr] = IpOf[a]}

\* Rejoining and taking over a slot, or a mix of both with new clients, never
\* bring more clients of one IP onto the server than sv_max_clients_per_ip.
WithinIpLimit == \A a \in Addrs : Cardinality(OfIp(a)) <= MaxClientsPerIp

\* The game has a player for every client it is told about: OnClientEnter,
\* OnClientDrop and the messages of clients in the game use it unasked.
ReadyHasPlayer ==
  \A s \in Slots : Ready(clients[s].state) => players[s] # NoPlayer

\* Messages are packed for the protocol in m_aClients and sent with the header
\* of the protocol in the connection: the two copies never differ, also when
\* the peer connects again with the other one or takes a slot over.
SixupAgrees ==
  \A s \in Slots : clients[s].sixup = slots[s].sixup

\* The two halves of a slot, the connection and the client, fit together.
HalvesFit == SlotsAgree /\ SixupAgrees

\* A client rejoins only with a player in the game.  (EnterGame of a client
\* that rejoins returns early, so one in another state would stay there.)  A
\* new map, a drop or a takeover in the middle of rejoining ends it.
RejoiningInGame ==
  \A s \in Slots :
    clients[s].rejoining => clients[s].state \in {"ingame", "redirected"}

\* GetAuthedState (server.cpp:682) asserts that the client it is asked about
\* exists.  The activity check and the kick vote ask about whoever has a
\* player.
AskedClientExists ==
  \A s \in Slots : players[s] # NoPlayer => clients[s].state # "empty"

\* SetTimedOut (server.cpp:4897) says that the slot keeps playing with the
\* resumed connection, which can use the other protocol version.
ResumedIsHeard ==
  \A s \in Slots : slots[s].state = "online" => Hears(slots[s])
=============================================================================
