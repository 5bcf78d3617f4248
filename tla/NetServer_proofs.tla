-------------------------- MODULE NetServer_proofs --------------------------
(***************************************************************************)
(* The sessions of NetServer for every number of slots and addresses.      *)
(* Four of its properties speak of one slot at a time; together with       *)
(* Resting they are inductive slot by slot (SlotOK).                       *)
(***************************************************************************)
EXTENDS NetServer, FiniteSetTheorems, TLAPS

\* The conjuncts of SlotsAgree, ReadyHasPlayer, SixupAgrees, RejoiningInGame
\* for a slot, and that a slot without a connection speaks no 0.7.
SlotOK(s) ==
  /\ clients[s].state = "empty" <=> slots[s].state = "offline"
  /\ Ready(clients[s].state) => players[s] # NoPlayer
  /\ clients[s].sixup = slots[s].sixup
  /\ clients[s].rejoining => clients[s].state \in {"ingame", "redirected"}
  /\ slots[s].state = "offline" => ~ slots[s].sixup

Inv == TypeOK /\ (\A s \in Slots : SlotOK(s)) /\ OneSlotPerAddress

\* A step after which every connection online was online before, at the same
\* address, keeps the addresses apart.
LEMMA AddressesStay ==
  ASSUME OneSlotPerAddress,
         \A s \in Slots : slots'[s].state = "online" =>
           slots[s].state = "online" /\ slots[s].addr = slots'[s].addr
  PROVE  OneSlotPerAddress'
  BY DEF OneSlotPerAddress

\* A new connection has the type of one.
LEMMA DirectInitType ==
  ASSUME NEW a \in Addrs, NEW security \in SecurityTokens,
         NEW sixup \in BOOLEAN
  PROVE  /\ DirectInit(a, security, sixup) \in Connections
         /\ DirectInit(a, security, sixup).state = "online"
         /\ DirectInit(a, security, sixup).addr = a
         /\ DirectInit(a, security, sixup).sixup = sixup
  BY SessionAssumption DEF DirectInit, Connections, Ips

LEMMA OfflineType == Offline \in Connections
  BY DEF Offline, Connections, SecurityTokens

\* So has one of which a step changes the state or a flag.
LEMMA ChangedType ==
  ASSUME NEW c \in Connections, NEW state \in {"online", "error"},
         NEW flag \in BOOLEAN
  PROVE  /\ [c EXCEPT !.state = state] \in Connections
         /\ [c EXCEPT !.protected = flag] \in Connections
         /\ [c EXCEPT !.situation = flag] \in Connections
<1>1. [c EXCEPT !.state = state] \in Connections
  BY DEF Connections
<1>2. [c EXCEPT !.protected = flag] \in Connections
  BY DEF Connections
<1>3. [c EXCEPT !.situation = flag] \in Connections
  BY DEF Connections
<1> QED BY <1>1, <1>2, <1>3

\* A client that connects again, wherever it was.
LEMMA RejoinedType ==
  ASSUME NEW c \in [state : ClientStates, sixup : BOOLEAN, rejoining : BOOLEAN],
         NEW vanilla \in BOOLEAN, NEW sixup \in BOOLEAN
  PROVE  Rejoined(c, vanilla, sixup)
           \in [state : ClientStates, sixup : BOOLEAN, rejoining : BOOLEAN]
<1>1. CASE c.state = "ingame"
  BY <1>1 DEF Rejoined
<1>2. CASE c.state # "ingame"
  BY <1>2 DEF Rejoined, NewClient, ClientStates
<1> QED BY <1>1, <1>2

\* Drop empties its slot and leaves the others alone.
LEMMA DropKeeps ==
  ASSUME Inv, NEW s \in Slots, Drop(s)
  PROVE  Inv'
<1> USE DEF Drop
<1>1. TypeOK'
  BY OfflineType DEF Inv, TypeOK, NoClient, ClientStates, PlayersWithout
<1>2. SlotOK(s)'
  BY <1>1 DEF Inv, TypeOK, SlotOK, Offline, NoClient, Ready
<1>3. ASSUME NEW t \in Slots, t # s  PROVE SlotOK(t)'
  <2>1. slots'[t] = slots[t] /\ clients'[t] = clients[t] /\ players'[t] = players[t]
    BY <1>3 DEF Inv, TypeOK, PlayersWithout
  <2> QED BY <2>1 DEF Inv, SlotOK, Ready
<1>4. OneSlotPerAddress'
  <2>1. \A t \in Slots : slots'[t].state = "online" =>
           slots[t].state = "online" /\ slots[t].addr = slots'[t].addr
    BY DEF Inv, TypeOK, Offline
  <2> QED BY <2>1, AddressesStay DEF Inv
<1> QED BY <1>1, <1>2, <1>3, <1>4 DEF Inv

\* A step that changes the client of one slot and its player, no connection.
LEMMA ClientStepKeeps ==
  ASSUME Inv, NEW s \in Slots, TypeOK', SlotOK(s)', slots' = slots,
         \A t \in Slots \ {s} :
           clients'[t] = clients[t] /\ players'[t] = players[t]
  PROVE  Inv'
<1>1. ASSUME NEW t \in Slots, t # s  PROVE SlotOK(t)'
  BY <1>1 DEF Inv, SlotOK, Ready
<1>2. OneSlotPerAddress'
  BY AddressesStay DEF Inv
<1> QED BY <1>1, <1>2 DEF Inv

\* A step that changes the connection of one slot in something else than its
\* address and its protocol, and it was online.
LEMMA ConnectionStepKeeps ==
  ASSUME Inv, NEW s \in Slots, TypeOK', slots[s].state = "online",
         slots'[s].state \in {"online", "error"},
         slots'[s].addr = slots[s].addr, slots'[s].sixup = slots[s].sixup,
         \A t \in Slots \ {s} : slots'[t] = slots[t],
         clients' = clients,
         \A t \in Slots : players'[t] = players[t] \/ players'[t] # NoPlayer
  PROVE  Inv'
<1>1. ASSUME NEW t \in Slots  PROVE SlotOK(t)'
  BY DEF Inv, SlotOK, Ready
<1>2. OneSlotPerAddress'
  <2>1. \A t \in Slots : slots'[t].state = "online" =>
           slots[t].state = "online" /\ slots[t].addr = slots'[t].addr
    OBVIOUS
  <2> QED BY <2>1, AddressesStay DEF Inv
<1> QED BY <1>1, <1>2 DEF Inv

\* A peer that is online connects again from its address.  (No vanilla peer
\* speaks 0.7, so the client of one need not be told.)
LEMMA RejoinKeeps ==
  ASSUME Inv, NEW a \in Addrs, NEW s \in Slots, s \in ClientSlots(a),
         NEW security \in SecurityTokens, NEW vanilla \in BOOLEAN,
         NEW sixup \in BOOLEAN, vanilla => ~ sixup /\ ~ slots[s].sixup,
         Rejoin(s, DirectInit(a, security, sixup), vanilla, sixup)
  PROVE  Inv'
<1> DEFINE conn == DirectInit(a, security, sixup)
<1>0. /\ conn \in Connections /\ conn.state = "online"
      /\ conn.addr = a /\ conn.sixup = sixup
  BY DirectInitType
<1> HIDE DEF conn
<1>1. /\ slots' = [slots EXCEPT ![s] = conn]
      /\ clients' = [clients EXCEPT ![s] = Rejoined(@, vanilla, sixup)]
      /\ players' = players
  BY DEF Rejoin, conn
<1>2. slots[s].state = "online" /\ slots[s].addr = a
  BY DEF ClientSlots
<1> DEFINE c == Rejoined(clients[s], vanilla, sixup)
<1>2a. clients[s] \in [state : ClientStates, sixup : BOOLEAN,
                      rejoining : BOOLEAN]
  BY DEF Inv, TypeOK
<1>2b. SlotOK(s)
  BY DEF Inv
<1>3. /\ c \in [state : ClientStates, sixup : BOOLEAN, rejoining : BOOLEAN]
      /\ c.state # "empty" /\ c.sixup = sixup
      /\ c.rejoining => clients[s].state = "ingame" /\ c.state = "ingame"
      /\ Ready(c.state) => clients[s].state = "ingame"
  <2>1. CASE clients[s].state = "ingame"
    <3>1. c = [clients[s] EXCEPT !.sixup = sixup, !.rejoining = TRUE]
      BY <2>1 DEF Rejoined
    <3>2. c.state = "ingame" /\ c.sixup = sixup
      BY <1>2a, <2>1, <3>1
    <3>3. c \in [state : ClientStates, sixup : BOOLEAN, rejoining : BOOLEAN]
      BY <1>2a, RejoinedType
    <3> QED BY <2>1, <3>2, <3>3
  <2>2. CASE clients[s].state # "ingame"
    <3>1. c = NewClient(clients[s], vanilla, sixup)
      BY <2>2 DEF Rejoined
    <3>2. /\ c.state \in {"connecting", "preauth"} /\ ~ c.rejoining
          /\ c.sixup = sixup
      BY <1>2a, <1>2b, <3>1, <1>2 DEF NewClient, SlotOK
    <3>3. c \in [state : ClientStates, sixup : BOOLEAN, rejoining : BOOLEAN]
      BY <1>2a, RejoinedType
    <3> QED BY <3>2, <3>3 DEF Ready
  <2> QED BY <2>1, <2>2
<1>3a. clients' = [clients EXCEPT ![s] = c]
  BY <1>1
<1> HIDE DEF c
<1>4. TypeOK'
  BY <1>0, <1>1, <1>3, <1>3a DEF Inv, TypeOK
<1>5. SlotOK(s)'
  <2>1. slots'[s] = conn /\ clients'[s] = c /\ players' = players
    BY <1>1, <1>3a DEF Inv, TypeOK
  <2> QED BY <1>0, <1>2b, <1>3, <2>1 DEF SlotOK, Ready
<1>6. ASSUME NEW t \in Slots, t # s  PROVE SlotOK(t)'
  <2>1. slots'[t] = slots[t] /\ clients'[t] = clients[t] /\ players' = players
    BY <1>1, <1>3a, <1>6 DEF Inv, TypeOK
  <2> QED BY <2>1 DEF Inv, SlotOK, Ready
<1>7. OneSlotPerAddress'
  <2>1. \A t \in Slots : slots'[t].state = "online" =>
           slots[t].state = "online" /\ slots[t].addr = slots'[t].addr
    BY <1>0, <1>1, <1>2 DEF Inv, TypeOK
  <2> QED BY <2>1, AddressesStay DEF Inv
<1> QED BY <1>4, <1>5, <1>6, <1>7 DEF Inv

\* A new peer gets a free slot; no connection has its address.
LEMMA JoinKeeps ==
  ASSUME Inv, NEW a \in Addrs, NEW s \in Slots, s \in Free,
         ClientSlots(a) = {},
         NEW security \in SecurityTokens, NEW vanilla \in BOOLEAN,
         NEW sixup \in BOOLEAN, vanilla => ~ sixup,
         Join(s, DirectInit(a, security, sixup), vanilla, sixup)
  PROVE  Inv'
<1> DEFINE conn == DirectInit(a, security, sixup)
<1>0. /\ conn \in Connections /\ conn.state = "online"
      /\ conn.addr = a /\ conn.sixup = sixup
  BY DirectInitType
<1> HIDE DEF conn
<1>1. /\ slots' = [slots EXCEPT ![s] = conn]
      /\ clients' = [clients EXCEPT ![s] = NewClient(@, vanilla, sixup)]
      /\ players' = players
  BY DEF Join, conn
<1>2. ~ clients[s].sixup
  BY DEF Free, Inv, TypeOK, SlotOK
<1>3. /\ NewClient(clients[s], vanilla, sixup) \in
           [state : ClientStates, sixup : BOOLEAN, rejoining : BOOLEAN]
      /\ NewClient(clients[s], vanilla, sixup).state # "empty"
      /\ NewClient(clients[s], vanilla, sixup).sixup = sixup
      /\ ~ NewClient(clients[s], vanilla, sixup).rejoining
      /\ ~ Ready(NewClient(clients[s], vanilla, sixup).state)
  BY <1>2 DEF Inv, TypeOK, NewClient, ClientStates, Ready
<1>4. TypeOK'
  BY <1>0, <1>1, <1>3 DEF Inv, TypeOK
<1>5. SlotOK(s)'
  BY <1>0, <1>1, <1>3 DEF Inv, TypeOK, SlotOK, Ready
<1>6. ASSUME NEW t \in Slots, t # s  PROVE SlotOK(t)'
  BY <1>1, <1>6 DEF Inv, TypeOK, SlotOK, Ready
<1>7. OneSlotPerAddress'
  <2>1. \A t \in Slots \ {s} : slots'[t] = slots[t]
    BY <1>1 DEF Inv, TypeOK
  <2>2. slots'[s].addr = a
    BY <1>0, <1>1 DEF Inv, TypeOK
  <2>3. \A t \in Slots : slots[t].state = "online" => slots[t].addr # a
    BY DEF ClientSlots
  <2> QED BY <2>1, <2>2, <2>3 DEF Inv, OneSlotPerAddress
<1> QED BY <1>4, <1>5, <1>6, <1>7 DEF Inv

\* What TryAcceptClient does keeps the invariant.
LEMMA TryAcceptKeeps ==
  ASSUME Inv, NEW a \in Addrs, NEW security \in SecurityTokens,
         NEW vanilla \in BOOLEAN, NEW sixup \in BOOLEAN,
         vanilla => ~ sixup /\ Speaks6(a),
         TryAcceptClient(a, security, vanilla, sixup)
  PROVE  Inv'
<1> DEFINE conn == DirectInit(a, security, sixup)
<1>1. CASE \E s \in Slots :
             First(s, ClientSlots(a)) /\ Rejoin(s, conn, vanilla, sixup)
  <2>1. PICK s \in Slots :
             First(s, ClientSlots(a)) /\ Rejoin(s, conn, vanilla, sixup)
    BY <1>1
  <2>2. s \in ClientSlots(a)
    BY <2>1 DEF First
  <2>3. vanilla => ~ slots[s].sixup
    BY <2>2 DEF Speaks6
  <2> QED BY <2>1, <2>2, <2>3, RejoinKeeps
<1>2. CASE /\ ClientSlots(a) = {}
           /\ \E s \in Slots : First(s, Free) /\ Join(s, conn, vanilla, sixup)
  <2>1. PICK s \in Slots : First(s, Free) /\ Join(s, conn, vanilla, sixup)
    BY <1>2
  <2>2. s \in Free
    BY <2>1 DEF First
  <2> QED BY <1>2, <2>1, <2>2, JoinKeeps
<1> QED BY <1>1, <1>2 DEF TryAcceptClient

\* A takeover: the connection of orig moves to the slot s, orig is emptied.
LEMMA SetTimedOutKeeps ==
  ASSUME Inv, NEW s \in Slots, NEW orig \in Slots, s # orig,
         slots[s].state = "error", slots[orig].state = "online",
         SetTimedOut(s, orig)
  PROVE  Inv'
<1> DEFINE conn == ResumeConnection(slots[s], slots[orig])
<1>0. /\ conn \in Connections /\ conn.state = "online"
      /\ conn.addr = slots[orig].addr /\ conn.sixup = slots[orig].sixup
  <2>1. slots[s] \in Connections /\ slots[orig] \in Connections
    BY DEF Inv, TypeOK
  <2>2. conn \in Connections
    BY <2>1 DEF ResumeConnection, Connections
  <2>3. /\ conn.state = "online" /\ conn.addr = slots[orig].addr
        /\ conn.sixup = slots[orig].sixup
    BY <2>1 DEF ResumeConnection, Connections
  <2> QED BY <2>2, <2>3
<1> HIDE DEF conn
<1>1. /\ slots' = [slots EXCEPT ![s] = conn, ![orig] = Offline]
      /\ clients' = [clients EXCEPT ![s].sixup = clients[orig].sixup,
                                    ![orig] = NoClient]
      /\ players' = PlayersWithout(orig)
  BY DEF SetTimedOut, conn
<1>2. TypeOK'
  BY <1>0, <1>1, OfflineType
  DEF Inv, TypeOK, NoClient, ClientStates, PlayersWithout
<1>3. SlotOK(s)'
  <2>1. /\ slots'[s] = conn /\ players'[s] = players[s]
        /\ clients'[s] = [clients[s] EXCEPT !.sixup = clients[orig].sixup]
    BY <1>1 DEF Inv, TypeOK, PlayersWithout
  <2> QED BY <1>0, <2>1 DEF Inv, TypeOK, SlotOK, Ready
<1>4. SlotOK(orig)'
  <2>1. slots'[orig] = Offline /\ clients'[orig] = NoClient
    BY <1>1 DEF Inv, TypeOK
  <2> QED BY <2>1 DEF SlotOK, Offline, NoClient, Ready
<1>5. ASSUME NEW t \in Slots, t # s, t # orig  PROVE SlotOK(t)'
  <2>1. slots'[t] = slots[t] /\ clients'[t] = clients[t] /\ players'[t] = players[t]
    BY <1>1, <1>5 DEF Inv, TypeOK, PlayersWithout
  <2> QED BY <2>1 DEF Inv, SlotOK, Ready
<1>6. OneSlotPerAddress'
  <2>1. /\ slots'[s] = conn /\ slots'[orig] = Offline
        /\ \A t \in Slots \ {s, orig} : slots'[t] = slots[t]
    BY <1>1 DEF Inv, TypeOK
  <2>2. slots'[orig].state # "online"
    BY <2>1 DEF Offline
  <2> QED BY <1>0, <2>1, <2>2 DEF Inv, OneSlotPerAddress
<1> QED BY <1>2, <1>3, <1>4, <1>5, <1>6 DEF Inv
-----------------------------------------------------------------------------
(* One lemma per kind of step. *)

LEMMA InitInv == Init => Inv
<1> SUFFICES ASSUME Init PROVE Inv
  OBVIOUS
<1>1. TypeOK
  BY OfflineType DEF Init, TypeOK, NoClient, ClientStates
<1>2. \A s \in Slots : SlotOK(s)
  BY DEF Init, SlotOK, Offline, NoClient, Ready
<1>3. OneSlotPerAddress
  BY DEF Init, OneSlotPerAddress, Offline
<1> QED BY <1>1, <1>2, <1>3 DEF Inv

\* The handshakes.
LEMMA HandshakeKeeps ==
  ASSUME Inv, NEW a \in Addrs, Handshake(a)
  PROVE  Inv'
<1>1. CASE AcceptToken(a)
  BY <1>1, TryAcceptKeeps DEF AcceptToken, SecurityTokens
<1>2. CASE ConnectSixup(a)
  BY <1>2, TryAcceptKeeps DEF ConnectSixup, SecurityTokens
<1>3. CASE ConnectVanilla(a)
  <2>1. PICK s \in Slots :
          /\ First(s, ClientSlots(a)) /\ slots[s].security = "unsupported"
          /\ slots' = [slots EXCEPT ![s].security = "unknown"]
          /\ UNCHANGED <<clients, players>>
    BY <1>3 DEF ConnectVanilla
  <2>2. slots[s].state = "online"
    BY <2>1 DEF First, ClientSlots
  <2>3. TypeOK'
    <3>1. slots[s] \in Connections
      BY DEF Inv, TypeOK
    <3>2. [slots[s] EXCEPT !.security = "unknown"] \in Connections
      BY <3>1 DEF Connections, SecurityTokens
    <3>3. slots' \in [Slots -> Connections]
      BY <2>1, <3>2 DEF Inv, TypeOK
    <3> QED BY <2>1, <3>3 DEF Inv, TypeOK
  <2>4. /\ slots'[s].state = "online" /\ slots'[s].addr = slots[s].addr
        /\ slots'[s].sixup = slots[s].sixup
        /\ \A t \in Slots \ {s} : slots'[t] = slots[t]
    BY <2>1, <2>2 DEF Inv, TypeOK, Connections
  <2> QED BY <2>1, <2>2, <2>3, <2>4, ConnectionStepKeeps
<1>4. CASE InputVanilla(a)
  BY <1>4, TryAcceptKeeps DEF InputVanilla, SecurityTokens
<1> QED BY <1>1, <1>2, <1>3, <1>4 DEF Handshake

\* The messages that move a client through its states.
LEMMA MessageKeeps ==
  ASSUME Inv, NEW s \in Slots, Message(s)
  PROVE  Inv'
<1> USE DEF SetState
<1>1. CASE ClientVer(s)
  <2>1. TypeOK' /\ SlotOK(s)' /\ slots' = slots /\
        \A t \in Slots \ {s} : clients'[t] = clients[t] /\ players'[t] = players[t]
    BY <1>1 DEF ClientVer, MessageFrom, FromPeer, Inv, TypeOK, SlotOK, Ready,
                ClientStates
  <2> QED BY <2>1, ClientStepKeeps
<1>2. CASE Info(s)
  <2>1. CASE Drop(s)
    BY <2>1, DropKeeps
  <2>2. CASE /\ MessageFrom(s) /\ ~ clients[s].rejoining
             /\ clients' = [clients EXCEPT ![s].state = "connecting"]
             /\ UNCHANGED <<slots, players>>
    <3>1. TypeOK' /\ SlotOK(s)' /\ slots' = slots /\
          \A t \in Slots \ {s} :
            clients'[t] = clients[t] /\ players'[t] = players[t]
      BY <2>2 DEF MessageFrom, FromPeer, Inv, TypeOK, SlotOK, Ready,
                  ClientStates
    <3> QED BY <3>1, ClientStepKeeps
  <2> QED BY <1>2, <2>1, <2>2 DEF Info
<1>3. CASE ReadyMsg(s)
  <2>1. TypeOK' /\ slots' = slots
    BY <1>3 DEF ReadyMsg, Inv, TypeOK, ClientStates
  <2>2. \A t \in Slots \ {s} :
          clients'[t] = clients[t] /\ players'[t] = players[t]
    BY <1>3 DEF ReadyMsg, Inv, TypeOK
  <2>3. SlotOK(s)'
    BY <1>3, SessionAssumption
    DEF ReadyMsg, MessageFrom, FromPeer, Inv, TypeOK, SlotOK, Ready
  <2> QED BY <2>1, <2>2, <2>3, ClientStepKeeps
<1>4. CASE EnterGame(s)
  <2>1. CASE /\ clients[s].rejoining /\ UNCHANGED <<slots, players>>
             /\ clients' = [clients EXCEPT ![s].rejoining = FALSE]
    <3>1. TypeOK' /\ slots' = slots
      BY <2>1 DEF Inv, TypeOK
    <3>2. \A t \in Slots \ {s} :
            clients'[t] = clients[t] /\ players'[t] = players[t]
      BY <2>1 DEF Inv, TypeOK
    <3>3. SlotOK(s)'
      BY <2>1 DEF Inv, TypeOK, SlotOK, Ready
    <3> QED BY <3>1, <3>2, <3>3, ClientStepKeeps
  <2>2. CASE /\ ~ clients[s].rejoining /\ clients[s].state = "ready"
             /\ players[s] # NoPlayer /\ UNCHANGED <<slots, players>>
             /\ clients' = [clients EXCEPT ![s].state = "ingame"]
    <3>1. TypeOK' /\ slots' = slots
      BY <2>2 DEF Inv, TypeOK, ClientStates
    <3>2. \A t \in Slots \ {s} :
            clients'[t] = clients[t] /\ players'[t] = players[t]
      BY <2>2 DEF Inv, TypeOK
    <3>3. SlotOK(s)'
      BY <2>2 DEF Inv, TypeOK, SlotOK, Ready
    <3> QED BY <3>1, <3>2, <3>3, ClientStepKeeps
  <2> QED BY <1>4, <2>1, <2>2 DEF EnterGame
<1>5. ASSUME NEW code \in Codes, ConTimeout(s, code)
      PROVE  Inv'
  <2>1. slots[s].state = "online"
    BY <1>5 DEF ConTimeout, MessageFrom, FromPeer
  <2>2. CASE \E t \in Slots : First(t, TimedOutWith(s, code)) /\ SetTimedOut(t, s)
    BY <2>1, <2>2, SetTimedOutKeeps DEF First, TimedOutWith
  <2>3. CASE /\ slots' = [slots EXCEPT ![s].protected = TRUE]
             /\ players' = [players EXCEPT ![s] = code]
             /\ UNCHANGED clients
    <3>1. TypeOK'
      <4>1. [slots[s] EXCEPT !.protected = TRUE] \in Connections
        BY ChangedType DEF Inv, TypeOK
      <4> QED BY <2>3, <4>1 DEF Inv, TypeOK
    <3>2. /\ slots'[s].state = "online" /\ slots'[s].addr = slots[s].addr
          /\ slots'[s].sixup = slots[s].sixup
          /\ \A t \in Slots \ {s} : slots'[t] = slots[t]
          /\ \A t \in Slots : players'[t] = players[t] \/ players'[t] # NoPlayer
      BY <2>1, <2>3, SessionAssumption DEF Inv, TypeOK, Connections
    <3> QED BY <2>1, <2>3, <3>1, <3>2, ConnectionStepKeeps
  <2> QED BY <1>5, <2>2, <2>3 DEF ConTimeout
<1> QED BY <1>1, <1>2, <1>3, <1>4, <1>5 DEF Message

\* A packet that closes a connection, and a pass of Update.
LEMMA ConnectionKeeps ==
  ASSUME Inv, NEW s \in Slots, Close(s) \/ Update(s)
  PROVE  Inv'
<1>1. CASE Close(s)
  <2>1. slots[s].state = "online" /\ TypeOK'
    <3>1. [slots[s] EXCEPT !.state = "error"] \in Connections
      BY ChangedType DEF Inv, TypeOK
    <3> QED BY <1>1, <3>1 DEF Close, FromPeer, Inv, TypeOK
  <2>2. /\ slots'[s].state = "error" /\ slots'[s].addr = slots[s].addr
        /\ slots'[s].sixup = slots[s].sixup
        /\ \A t \in Slots \ {s} : slots'[t] = slots[t]
    BY <1>1 DEF Close, Inv, TypeOK, Connections
  <2> QED BY <1>1, <2>1, <2>2, ConnectionStepKeeps DEF Close
<1>2. CASE Timeout(s)
  <2>1. CASE Drop(s)
    BY <2>1, DropKeeps
  <2>2. CASE /\ slots' = [slots EXCEPT ![s].state = "error",
                                       ![s].situation = TRUE]
             /\ UNCHANGED <<clients, players>>
    <3>1. slots[s].state = "online"
      BY <1>2 DEF Timeout
    <3>0. TypeOK'
      <4> DEFINE conn == [slots[s] EXCEPT !.state = "error", !.situation = TRUE]
      <4>1. conn \in Connections
        <5>1. [slots[s] EXCEPT !.state = "error"] \in Connections
          BY ChangedType DEF Inv, TypeOK
        <5>2. [[slots[s] EXCEPT !.state = "error"] EXCEPT !.situation = TRUE]
                \in Connections
          BY <5>1, ChangedType
        <5> QED BY <5>2 DEF Inv, TypeOK, Connections
      <4>2. slots' = [slots EXCEPT ![s] = conn]
        BY <2>2 DEF Inv, TypeOK, Connections
      <4> QED BY <2>2, <4>1, <4>2 DEF Inv, TypeOK
    <3>2. /\ slots'[s].state = "error" /\ slots'[s].addr = slots[s].addr
          /\ slots'[s].sixup = slots[s].sixup
          /\ \A t \in Slots \ {s} : slots'[t] = slots[t]
      BY <2>2 DEF Inv, TypeOK, Connections
    <3> QED BY <2>2, <3>0, <3>1, <3>2, ConnectionStepKeeps
  <2> QED BY <1>2, <2>1, <2>2 DEF Timeout
<1>3. CASE Alive(s)
  <2>1. slots[s].state = "online" /\ TypeOK'
    <3>1. [slots[s] EXCEPT !.situation = FALSE] \in Connections
      BY ChangedType DEF Inv, TypeOK
    <3> QED BY <1>3, <3>1 DEF Alive, Inv, TypeOK
  <2>2. /\ slots'[s].state = "online" /\ slots'[s].addr = slots[s].addr
        /\ slots'[s].sixup = slots[s].sixup
        /\ \A t \in Slots \ {s} : slots'[t] = slots[t]
    BY <1>3 DEF Alive, Inv, TypeOK, Connections
  <2> QED BY <1>3, <2>1, <2>2, ConnectionStepKeeps DEF Alive
<1>4. CASE DropErrored(s)
  BY <1>4, DropKeeps DEF DropErrored
<1> QED BY <1>1, <1>2, <1>3, <1>4 DEF Update

\* What the server does of its own accord.
LEMMA ServerKeeps ==
  ASSUME Inv, NEW s \in Slots, Kick(s) \/ Redirect(s) \/ RedirectOver(s)
  PROVE  Inv'
<1>1. CASE Kick(s) \/ RedirectOver(s)
  BY <1>1, DropKeeps DEF Kick, RedirectOver
<1>2. CASE Redirect(s)
  <2>1. TypeOK' /\ slots' = slots
    BY <1>2 DEF Redirect, SetState, PlayersWithout, Inv, TypeOK, ClientStates
  <2>2. \A t \in Slots \ {s} :
          clients'[t] = clients[t] /\ players'[t] = players[t]
    BY <1>2 DEF Redirect, SetState, PlayersWithout, Inv, TypeOK
  <2>3. SlotOK(s)'
    BY <1>2 DEF Redirect, SetState, Inv, TypeOK, SlotOK, Ready
  <2> QED BY <2>1, <2>2, <2>3, ClientStepKeeps
<1> QED BY <1>1, <1>2

\* A new map meets clients in every state.
LEMMA MapChangeKeeps == Inv /\ MapChange => Inv'
<1> SUFFICES ASSUME Inv, MapChange PROVE Inv'
  OBVIOUS
<1>1. TypeOK'
  BY DEF MapChange, Inv, TypeOK, ClientStates
<1>2. ASSUME NEW s \in Slots PROVE SlotOK(s)'
  BY DEF MapChange, Inv, TypeOK, SlotOK, Ready
<1>3. OneSlotPerAddress'
  BY AddressesStay DEF MapChange, Inv
<1> QED BY <1>1, <1>2, <1>3 DEF Inv

\* The invariant is inductive.
LEMMA NextKeeps == Inv /\ [Next]_vars => Inv'
<1> SUFFICES ASSUME Inv, [Next]_vars PROVE Inv'
  OBVIOUS
<1>1. CASE \E a \in Addrs : Handshake(a)
  BY <1>1, HandshakeKeeps
<1>2. CASE \E s \in Slots : Message(s) \/ Close(s) \/ Update(s)
  BY <1>2, MessageKeeps, ConnectionKeeps
<1>3. CASE \E s \in Slots : Kick(s) \/ Redirect(s) \/ RedirectOver(s)
  BY <1>3, ServerKeeps
<1>4. CASE MapChange
  BY <1>4, MapChangeKeeps
<1>5. CASE UNCHANGED vars
  BY <1>5 DEF vars, Inv, TypeOK, SlotOK, OneSlotPerAddress, Ready
<1> QED BY <1>1, <1>2, <1>3, <1>4, <1>5 DEF Next
-----------------------------------------------------------------------------
\* In every reachable state, for any number of slots, addresses and codes.
THEOREM Sessions == Spec => []Inv
<1> QED BY InitInv, NextKeeps, PTL DEF Spec

\* The connections, the clients and the players keep their types.
THEOREM TypesOK == Spec => []TypeOK
<1>1. Inv => TypeOK
  BY DEF Inv
<1> QED BY <1>1, Sessions, PTL

\* A slot has a client exactly when it has a connection, and the two speak the
\* same protocol.
THEOREM HalvesStayTogether == Spec => []HalvesFit
<1>1. Inv => HalvesFit
  BY DEF Inv, SlotOK, HalvesFit, SlotsAgree, SixupAgrees
<1> QED BY <1>1, Sessions, PTL

\* No two slots are online with one address.
THEOREM AddressesApart == Spec => []OneSlotPerAddress
<1>1. Inv => OneSlotPerAddress
  BY DEF Inv
<1> QED BY <1>1, Sessions, PTL

\* A client the game was told of has a player.
THEOREM PlayersExist == Spec => []ReadyHasPlayer
<1>1. Inv => ReadyHasPlayer
  BY DEF Inv, SlotOK, ReadyHasPlayer
<1> QED BY <1>1, Sessions, PTL

\* Only a client in the game rejoins, whatever happens on the way.
THEOREM RejoiningStaysInGame == Spec => []RejoiningInGame
<1>1. Inv => RejoiningInGame
  BY DEF Inv, SlotOK, RejoiningInGame
<1> QED BY <1>1, Sessions, PTL
-----------------------------------------------------------------------------
(* The limit of clients per IP. *)

\* An element more, or the one that was there already.
LEMMA OneMore ==
  ASSUME NEW S, IsFiniteSet(S), NEW x
  PROVE  /\ IsFiniteSet(S \cup {x}) /\ Cardinality(S) \in Nat
         /\ Cardinality(S \cup {x}) \in {Cardinality(S), Cardinality(S) + 1}
<1>1. IsFiniteSet(S \cup {x})
  BY FS_AddElement
<1>2. Cardinality(S) \in Nat
  BY FS_CardinalityType
<1>3. CASE x \in S
  <2>1. S \cup {x} = S
    BY <1>3
  <2> QED BY <1>1, <1>2, <2>1
<1>4. CASE x \notin S
  <2>1. Cardinality(S \cup {x}) = Cardinality(S) + 1
    BY <1>4, FS_AddElement
  <2> QED BY <1>1, <1>2, <2>1
<1> QED BY <1>3, <1>4

LEMMA OfIpFinite ==
  ASSUME NEW a PROVE IsFiniteSet(OfIp(a)) /\ Cardinality(OfIp(a)) \in Nat
<1>1. IsFiniteSet(OfIp(a))
  BY SessionAssumption, FS_Subset DEF OfIp
<1> QED BY <1>1, FS_CardinalityType

\* A step that brings no slot into the count and moves none to another IP.
LEMMA LimitStays ==
  ASSUME WithinIpLimit,
         \A s \in Slots : slots'[s].state = "online" \/ Waiting(slots'[s]) =>
           /\ slots[s].state = "online" \/ Waiting(slots[s])
           /\ slots[s].addr = slots'[s].addr
  PROVE  WithinIpLimit'
<1> SUFFICES ASSUME NEW a \in Addrs
             PROVE  Cardinality(OfIp(a)') <= MaxClientsPerIp
  BY DEF WithinIpLimit
<1>1. OfIp(a)' \subseteq OfIp(a)
  BY DEF OfIp
<1>2. IsFiniteSet(OfIp(a)')
  BY <1>1, OfIpFinite, FS_Subset
<1>3. Cardinality(OfIp(a)') <= Cardinality(OfIp(a))
  BY <1>1, OfIpFinite, FS_Subset
<1> QED BY <1>2, <1>3, OfIpFinite, FS_CardinalityType, SessionAssumption
        DEF WithinIpLimit

\* A new client is counted before it is let in.
LEMMA JoinWithinLimit ==
  ASSUME Inv, WithinIpLimit, NEW a \in Addrs, NEW s \in Slots,
         NumClientsWithAddr(a) + 1 <= MaxClientsPerIp,
         NEW conn \in Connections, conn.addr = a, conn.state = "online",
         slots' = [slots EXCEPT ![s] = conn]
  PROVE  WithinIpLimit'
<1> SUFFICES ASSUME NEW b \in Addrs
             PROVE  Cardinality(OfIp(b)') <= MaxClientsPerIp
  BY DEF WithinIpLimit
<1>0. slots'[s] = conn /\ \A t \in Slots \ {s} : slots'[t] = slots[t]
  BY DEF Inv, TypeOK
<1>1. CASE IpOf[b] = IpOf[a]
  <2>1. OfIp(b)' \subseteq OfIp(a) \cup {s}
    BY <1>0, <1>1 DEF OfIp
  <2>2. NumClientsWithAddr(a) = Cardinality(OfIp(a))
    <3>1. OfIp(a) = {t \in Slots :
                       Counted(slots[t]) /\ IpOf[slots[t].addr] = IpOf[a]}
      BY DEF OfIp, Counted
    <3> QED BY <3>1 DEF NumClientsWithAddr
  <2>3. /\ IsFiniteSet(OfIp(a) \cup {s})
        /\ Cardinality(OfIp(a) \cup {s})
             \in {Cardinality(OfIp(a)), Cardinality(OfIp(a)) + 1}
    BY OfIpFinite, OneMore
  <2>4. Cardinality(OfIp(b)') <= Cardinality(OfIp(a) \cup {s})
    BY <2>1, <2>3, FS_Subset
  <2>5. /\ Cardinality(OfIp(b)') \in Nat
        /\ Cardinality(OfIp(a) \cup {s}) \in Nat
    BY <2>1, <2>3, FS_Subset, FS_CardinalityType
  <2> QED BY <2>2, <2>3, <2>4, <2>5, OfIpFinite, SessionAssumption
<1>2. CASE IpOf[b] # IpOf[a]
  <2>1. OfIp(b)' \subseteq OfIp(b)
    BY <1>0, <1>2 DEF OfIp
  <2>2. Cardinality(OfIp(b)') <= Cardinality(OfIp(b))
    BY <2>1, OfIpFinite, FS_Subset
  <2>3. Cardinality(OfIp(b)') \in Nat
    BY <2>1, OfIpFinite, FS_Subset, FS_CardinalityType
  <2> QED BY <2>2, <2>3, OfIpFinite, SessionAssumption DEF WithinIpLimit
<1> QED BY <1>1, <1>2

\* A takeover leaves one slot for each it fills.
LEMMA TakeoverWithinLimit ==
  ASSUME Inv, WithinIpLimit, NEW s \in Slots, NEW orig \in Slots, s # orig,
         slots[orig].state = "online", SetTimedOut(s, orig)
  PROVE  WithinIpLimit'
<1> SUFFICES ASSUME NEW b \in Addrs
             PROVE  Cardinality(OfIp(b)') <= MaxClientsPerIp
  BY DEF WithinIpLimit
<1>0. /\ slots'[s].addr = slots[orig].addr
      /\ slots'[orig] = Offline
      /\ \A t \in Slots \ {s, orig} : slots'[t] = slots[t]
  BY DEF SetTimedOut, ResumeConnection, Inv, TypeOK, Connections
<1>1. orig \notin OfIp(b)'
  BY <1>0 DEF OfIp, Offline, Waiting
<1>2. CASE IpOf[b] = IpOf[slots[orig].addr]
  <2>1. orig \in OfIp(b)
    BY <1>2 DEF OfIp
  <2>2. OfIp(b)' \subseteq (OfIp(b) \ {orig}) \cup {s}
    BY <1>0, <1>1 DEF OfIp
  <2>3. /\ IsFiniteSet(OfIp(b) \ {orig})
        /\ Cardinality(OfIp(b) \ {orig}) = Cardinality(OfIp(b)) - 1
    BY <2>1, OfIpFinite, FS_RemoveElement
  <2>4. /\ IsFiniteSet((OfIp(b) \ {orig}) \cup {s})
        /\ Cardinality((OfIp(b) \ {orig}) \cup {s})
             \in {Cardinality(OfIp(b) \ {orig}),
                   Cardinality(OfIp(b) \ {orig}) + 1}
    BY <2>3, OneMore
  <2>5. Cardinality(OfIp(b)') <= Cardinality((OfIp(b) \ {orig}) \cup {s})
    BY <2>2, <2>4, FS_Subset
  <2>6. /\ Cardinality(OfIp(b)') \in Nat
        /\ Cardinality((OfIp(b) \ {orig}) \cup {s}) \in Nat
    BY <2>2, <2>4, FS_Subset, FS_CardinalityType
  <2> QED BY <2>3, <2>4, <2>5, <2>6, OfIpFinite, SessionAssumption
          DEF WithinIpLimit
<1>3. CASE IpOf[b] # IpOf[slots[orig].addr]
  <2>1. OfIp(b)' \subseteq OfIp(b)
    BY <1>0, <1>1, <1>3 DEF OfIp
  <2>2. Cardinality(OfIp(b)') <= Cardinality(OfIp(b))
    BY <2>1, OfIpFinite, FS_Subset
  <2>3. Cardinality(OfIp(b)') \in Nat
    BY <2>1, OfIpFinite, FS_Subset, FS_CardinalityType
  <2> QED BY <2>2, <2>3, OfIpFinite, SessionAssumption DEF WithinIpLimit
<1> QED BY <1>2, <1>3

\* A dropped slot is not counted any more.
LEMMA DropWithinLimit ==
  ASSUME Inv, WithinIpLimit, NEW s \in Slots, Drop(s)
  PROVE  WithinIpLimit'
<1>1. slots'[s] = Offline /\ \A t \in Slots \ {s} : slots'[t] = slots[t]
  BY DEF Drop, Inv, TypeOK
<1>2. ~ (slots'[s].state = "online" \/ Waiting(slots'[s]))
  BY <1>1 DEF Offline, Waiting
<1> QED BY <1>1, <1>2, LimitStays

\* TryAcceptClient counts new clients; one that connects again is counted.
LEMMA TryAcceptWithinLimit ==
  ASSUME Inv, WithinIpLimit, NEW a \in Addrs,
         NEW security \in SecurityTokens, NEW vanilla, NEW sixup \in BOOLEAN,
         TryAcceptClient(a, security, vanilla, sixup)
  PROVE  WithinIpLimit'
<1> DEFINE conn == DirectInit(a, security, sixup)
<1>0. conn \in Connections /\ conn.state = "online" /\ conn.addr = a
  BY DirectInitType
<1> HIDE DEF conn
<1>1. CASE \E s \in Slots : s \in ClientSlots(a)
                            /\ slots' = [slots EXCEPT ![s] = conn]
  <2>1. PICK s \in Slots : s \in ClientSlots(a)
                           /\ slots' = [slots EXCEPT ![s] = conn]
    BY <1>1
  <2>2. slots'[s] = conn /\ \A t \in Slots \ {s} : slots'[t] = slots[t]
    BY <2>1 DEF Inv, TypeOK
  <2>3. slots[s].state = "online" /\ slots[s].addr = a
    BY <2>1 DEF ClientSlots
  <2> QED BY <1>0, <2>2, <2>3, LimitStays
<1>2. CASE /\ NumClientsWithAddr(a) + 1 <= MaxClientsPerIp
           /\ \E s \in Slots : slots' = [slots EXCEPT ![s] = conn]
  BY <1>0, <1>2, JoinWithinLimit
<1> QED BY <1>1, <1>2
        DEF TryAcceptClient, First, Rejoin, Join, conn

\* Every step stays within the limit.
LEMMA NextWithinLimit == Inv /\ WithinIpLimit /\ [Next]_vars => WithinIpLimit'
<1> SUFFICES ASSUME Inv, WithinIpLimit, [Next]_vars PROVE WithinIpLimit'
  OBVIOUS
<1>1. ASSUME NEW a \in Addrs, Handshake(a) PROVE WithinIpLimit'
  <2>1. CASE ConnectVanilla(a)
    <3>1. \A s \in Slots : /\ slots'[s].state = slots[s].state
                           /\ slots'[s].addr = slots[s].addr
                           /\ slots'[s].protected = slots[s].protected
                           /\ slots'[s].situation = slots[s].situation
      BY <2>1 DEF ConnectVanilla, Inv, TypeOK, Connections
    <3> QED BY <3>1, LimitStays DEF Waiting
  <2> QED BY <1>1, <2>1, TryAcceptWithinLimit
          DEF Handshake, AcceptToken, ConnectSixup, InputVanilla, SecurityTokens
<1>2. ASSUME NEW s \in Slots, Drop(s) PROVE WithinIpLimit'
  BY <1>2, DropWithinLimit
<1>3. ASSUME UNCHANGED slots PROVE WithinIpLimit'
  BY <1>3, LimitStays
<1>4. ASSUME NEW s \in Slots, NEW code \in Codes, ConTimeout(s, code)
      PROVE  WithinIpLimit'
  <2>1. slots[s].state = "online"
    BY <1>4 DEF ConTimeout, MessageFrom, FromPeer
  <2>2. CASE \E t \in Slots : First(t, TimedOutWith(s, code)) /\ SetTimedOut(t, s)
    BY <2>1, <2>2, TakeoverWithinLimit DEF First, TimedOutWith
  <2>3. CASE slots' = [slots EXCEPT ![s].protected = TRUE]
    <3>1. \A t \in Slots : /\ slots'[t].addr = slots[t].addr
                           /\ slots'[t].state = slots[t].state
                           /\ slots[t].state # "online" => slots'[t] = slots[t]
      BY <2>1, <2>3 DEF Inv, TypeOK, Connections
    <3> QED BY <3>1, LimitStays DEF Waiting
  <2> QED BY <1>4, <2>2, <2>3 DEF ConTimeout
<1>5. ASSUME NEW s \in Slots, slots[s].state = "online",
             slots'[s].addr = slots[s].addr,
             \A t \in Slots \ {s} : slots'[t] = slots[t]
      PROVE  WithinIpLimit'
  BY <1>5, LimitStays
<1>6. ASSUME NEW s \in Slots, Close(s) \/ Update(s) PROVE WithinIpLimit'
  <2>1. CASE Close(s)
    BY <1>5, <2>1 DEF Close, FromPeer, Inv, TypeOK, Connections
  <2>2. CASE Timeout(s) /\ slots[s].protected
    BY <1>5, <2>2 DEF Timeout, Inv, TypeOK, Connections
  <2>3. CASE Alive(s)
    BY <1>5, <2>3 DEF Alive, Inv, TypeOK, Connections
  <2> QED BY <1>2, <1>6, <2>1, <2>2, <2>3 DEF Update, Timeout, DropErrored
<1>7. ASSUME NEW s \in Slots, Message(s) PROVE WithinIpLimit'
  BY <1>2, <1>3, <1>4, <1>7
  DEF Message, ClientVer, Info, ReadyMsg, EnterGame
<1>8. ASSUME NEW s \in Slots, Kick(s) \/ Redirect(s) \/ RedirectOver(s)
      PROVE  WithinIpLimit'
  BY <1>2, <1>3, <1>8 DEF Kick, Redirect, RedirectOver
<1>9. ASSUME MapChange PROVE WithinIpLimit'
  BY <1>3, <1>9 DEF MapChange
<1>10. CASE UNCHANGED vars
  BY <1>3, <1>10 DEF vars
<1> QED BY <1>1, <1>6, <1>7, <1>8, <1>9, <1>10 DEF Next

\* At most sv_max_clients_per_ip clients of an IP are online or may come back.
THEOREM IpLimitHolds == Spec => []WithinIpLimit
<1>1. Init => WithinIpLimit
  <2> SUFFICES ASSUME Init, NEW a \in Addrs
               PROVE  Cardinality(OfIp(a)) <= MaxClientsPerIp
    BY DEF WithinIpLimit
  <2>1. OfIp(a) = {}
    BY DEF Init, OfIp, Offline, Waiting
  <2> QED BY <2>1, FS_EmptySet, SessionAssumption
<1>2. Inv /\ WithinIpLimit /\ [Next]_vars => WithinIpLimit'
  BY NextWithinLimit
<1> QED BY <1>1, <1>2, Sessions, PTL DEF Spec
=============================================================================
