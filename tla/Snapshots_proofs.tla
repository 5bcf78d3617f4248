-------------------------- MODULE Snapshots_proofs --------------------------
(***************************************************************************)
(* Proofs about Snapshots, for every number of map changes, rejoins and    *)
(* takeovers, ticks, snapshots and parts.                                  *)
(***************************************************************************)
EXTENDS Snapshots, SequenceTheorems, WellFoundedInduction, TLAPS

ToClient == vital["client"]
ToServer == vital["server"]

-----------------------------------------------------------------------------
(* Sequences and storages.                                                 *)

Elements(s) == {s[i] : i \in 1 .. Len(s)}

\* What Append does, by index.
LEMMA Appended ==
  ASSUME NEW S, NEW s \in Seq(S), NEW e \in S
  PROVE  /\ Append(s, e) \in Seq(S)
         /\ Len(s) \in Nat /\ Len(Append(s, e)) = Len(s) + 1
         /\ \A i \in 1 .. Len(s) : Append(s, e)[i] = s[i]
         /\ Append(s, e)[Len(s) + 1] = e
         /\ Elements(Append(s, e)) = Elements(s) \cup {e}
<1>1. /\ Append(s, e) \in Seq(S)
      /\ Len(s) \in Nat /\ Len(Append(s, e)) = Len(s) + 1
      /\ \A i \in 1 .. Len(s) : Append(s, e)[i] = s[i]
      /\ Append(s, e)[Len(s) + 1] = e
  BY AppendProperties, LenProperties
<1> DEFINE t == Append(s, e)
<1>2. Elements(t) = Elements(s) \cup {e}
  <2> HIDE DEF t
  <2>1. \A i \in 1 .. Len(t) : i \in 1 .. Len(s) \/ i = Len(s) + 1
    BY <1>1 DEF t
  <2>2. 1 .. Len(s) \subseteq 1 .. Len(t) /\ Len(s) + 1 \in 1 .. Len(t)
    BY <1>1 DEF t
  <2> QED BY <1>1, <2>1, <2>2 DEF Elements, t
<1> QED BY <1>1, <1>2

\* Elements have an index, and are of the type.
LEMMA ElementsTyped ==
  ASSUME NEW S, NEW s \in Seq(S)
  PROVE  /\ Len(s) \in Nat
         /\ \A i \in 1 .. Len(s) : s[i] \in S
         /\ Elements(s) \subseteq S
         /\ s = <<>> <=> Len(s) = 0
         /\ Elements(<<>>) = {} /\ Len(<<>>) = 0
<1>1. Len(s) \in Nat /\ DOMAIN s = 1 .. Len(s) /\ \A i \in 1 .. Len(s) : s[i] \in S
  BY LenProperties, ElementOfSeq
<1>2. s = <<>> <=> Len(s) = 0
  BY EmptySeq, Zenon
<1>3. Len(<<>>) = 0
  OBVIOUS
<1> QED BY <1>1, <1>2, <1>3 DEF Elements

\* A set of natural numbers that is not empty has a least element.
LEMMA Least ==
  ASSUME NEW T, T \subseteq Nat, T # {}
  PROVE  \E i \in T : \A j \in T : i <= j
<1>1. IsWellFoundedOn(OpToRel(<, Nat), Nat)
  BY NatLessThanWellFounded, Zenon
<1>2. PICK i \in T : \A j \in T : ~ (<<j, i>> \in OpToRel(<, Nat))
  BY <1>1, WFMin, Zenon
<1>3. \A j \in T : ~(j < i)
  BY <1>2, Zenon DEF OpToRel
<1> QED BY <1>3

\* The snapshots of a storage have ticks.
LEMMA Ticks ==
  ASSUME NEW store \in Seq(Shots)
  PROVE  /\ Len(store) \in Nat
         /\ \A i \in 1 .. Len(store) : store[i] \in Shots /\ store[i].tick \in Nat
         /\ \A x \in Elements(store) : x \in Shots /\ x.tick \in 1 .. MaxTick
<1>1. \A x \in Shots : x.tick \in 1 .. MaxTick
  BY DEF Shots
<1>2. \A i \in 1 .. Len(store) : store[i] \in Shots
  BY ElementsTyped
<1>3. Elements(store) \subseteq Shots /\ Len(store) \in Nat
  BY ElementsTyped
<1> QED BY <1>1, <1>2, <1>3, SnapshotAssumption

\* A storage, from which the first d are taken.
Dropped(store, t, d) ==
  /\ t \in Seq(Shots) /\ Len(t) = Len(store) - d
  /\ \A i \in 1 .. Len(t) : t[i] = store[i + d]

\* PurgeUntil takes the old ones from the front.
LEMMA Purging ==
  ASSUME NEW store \in Seq(Shots), NEW tick \in Int
  PROVE  \E d \in 0 .. Len(store) :
           /\ Dropped(store, PurgeUntil(store, tick), d)
           /\ \A i \in 1 .. d : store[i].tick < tick
           /\ d < Len(store) => store[d + 1].tick >= tick
<1> DEFINE recent == {i \in 1 .. Len(store) : store[i].tick >= tick}
<1>1. Len(store) \in Nat /\ \A i \in 1 .. Len(store) : store[i] \in Shots
  BY ElementsTyped
<1>2. \A i \in 1 .. Len(store) : store[i].tick \in Int
  BY Ticks
<1>3. CASE recent = {}
  <2>1. PurgeUntil(store, tick) = <<>>
    BY <1>3 DEF PurgeUntil
  <2>2. \A i \in 1 .. Len(store) : store[i].tick < tick
    BY <1>2, <1>3
  <2>3. Dropped(store, <<>>, Len(store))
    BY <1>1 DEF Dropped
  <2> QED BY <1>1, <2>1, <2>2, <2>3
<1>4. CASE recent # {}
  <2> DEFINE first == CHOOSE i \in recent : \A j \in recent : i <= j
  <2>1. \E i \in recent : \A j \in recent : i <= j
    <3>1. recent \subseteq Nat
      BY <1>1
    <3> QED BY <1>4, <3>1, Least
  <2>2. first \in recent /\ \A j \in recent : first <= j
    BY <2>1
  <2>3. PurgeUntil(store, tick) = SubSeq(store, first, Len(store))
    BY <1>4 DEF PurgeUntil
  <2> HIDE DEF first
  <2>4. /\ SubSeq(store, first, Len(store)) \in Seq(Shots)
        /\ Len(SubSeq(store, first, Len(store))) = Len(store) - first + 1
        /\ \A i \in 1 .. Len(store) - first + 1 :
             SubSeq(store, first, Len(store))[i] = store[first + i - 1]
    BY <1>1, <2>2, SubSeqProperties
  <2> DEFINE d == first - 1
  <2>5. d \in 0 .. Len(store)
    BY <1>1, <2>2
  <2>6. Dropped(store, SubSeq(store, first, Len(store)), d)
    BY <1>1, <2>2, <2>4 DEF Dropped
  <2>7. \A i \in 1 .. d : store[i].tick < tick
    BY <1>1, <1>2, <2>2
  <2>8. store[d + 1].tick >= tick
    BY <1>1, <2>2
  <2> QED BY <2>3, <2>5, <2>6, <2>7, <2>8
<1> QED BY <1>3, <1>4

\* A storage in order from which the oldest are taken is in order and has the
\* others.
LEMMA DroppedKeeps ==
  ASSUME NEW store \in Seq(Shots), NEW tick \in Int, Increasing(store)
  PROVE  /\ PurgeUntil(store, tick) \in Seq(Shots)
         /\ Increasing(PurgeUntil(store, tick))
         /\ Elements(PurgeUntil(store, tick))
              = {x \in Elements(store) : x.tick >= tick}
<1>1. Len(store) \in Nat /\ \A i \in 1 .. Len(store) : store[i].tick \in Int
  BY Ticks
<1> DEFINE t == PurgeUntil(store, tick)
<1>2. PICK d \in 0 .. Len(store) :
        /\ Dropped(store, t, d)
        /\ \A i \in 1 .. d : store[i].tick < tick
        /\ d < Len(store) => store[d + 1].tick >= tick
  BY Purging
<1>3. /\ t \in Seq(Shots) /\ Len(t) = Len(store) - d
      /\ \A i \in 1 .. Len(t) : t[i] = store[i + d]
  BY <1>2 DEF Dropped
<1>4. \A i, j \in 1 .. Len(store) : i < j => store[i].tick < store[j].tick
  BY DEF Increasing
<1> HIDE DEF t
<1>5. Increasing(t)
  <2> SUFFICES ASSUME NEW i \in 1 .. Len(t), NEW j \in 1 .. Len(t), i < j
               PROVE  t[i].tick < t[j].tick
    BY DEF Increasing
  <2>1. i + d \in 1 .. Len(store) /\ j + d \in 1 .. Len(store) /\ i + d < j + d
    BY <1>1, <1>3
  <2> QED BY <1>3, <1>4, <2>1
<1>6. \A x \in Elements(t) : x \in Elements(store)
  BY <1>1, <1>3 DEF Elements
<1>7. ASSUME NEW i \in 1 .. Len(t) PROVE t[i].tick >= tick
  <2>1. d < Len(store) /\ d + 1 \in 1 .. Len(store) /\ i + d \in 1 .. Len(store)
    BY <1>1, <1>3
  <2>2. store[d + 1].tick >= tick /\ (i = 1 \/ store[d + 1].tick < store[i + d].tick)
    BY <1>2, <1>4, <2>1
  <2> QED BY <1>1, <1>3, <2>1, <2>2
<1>8. ASSUME NEW i \in 1 .. Len(store), store[i].tick >= tick
      PROVE  store[i] \in Elements(t)
  <2>1. ~(i <= d)
    BY <1>1, <1>2, <1>8
  <2>2. i - d \in 1 .. Len(t) /\ t[i - d] = store[i]
    BY <1>1, <1>3, <2>1
  <2> QED BY <2>2 DEF Elements
<1> QED BY <1>3, <1>5, <1>6, <1>7, <1>8 DEF t, Elements

\* Get finds the snapshot of a tick if it is there.
LEMMA Getting ==
  ASSUME NEW store \in Seq(Shots), NEW tick \in Int, Increasing(store)
  PROVE  /\ Get(store, tick) \in Elements(store) \cup {NoShot}
         /\ Get(store, tick) # NoShot => Get(store, tick).tick = tick
         /\ \A x \in Elements(store) : x.tick = tick => Get(store, tick) = x
<1> DEFINE found == {i \in 1 .. Len(store) :
                       /\ store[i].tick = tick
                       /\ \A j \in i + 1 .. Len(store) : store[j].tick > tick}
<1>1. Len(store) \in Nat /\ \A i \in 1 .. Len(store) : store[i].tick \in Nat
  BY Ticks
<1>2. \A i, j \in 1 .. Len(store) : i < j => store[i].tick < store[j].tick
  BY DEF Increasing
<1>3. \A i \in 1 .. Len(store) : store[i].tick = tick => i \in found
  BY <1>1, <1>2
<1>4. \A i, j \in found : i = j
  BY <1>1, <1>2
<1>5. CASE found = {}
  <2>1. Get(store, tick) = NoShot
    BY <1>5 DEF Get
  <2> QED BY <1>3, <1>5, <2>1 DEF Elements
<1>6. CASE found # {}
  <2>1. Get(store, tick) = store[CHOOSE i \in found : TRUE]
    BY <1>6 DEF Get
  <2> DEFINE k == CHOOSE i \in found : TRUE
  <2>2. k \in found
    BY <1>6
  <2> HIDE DEF k
  <2>3. Get(store, tick) = store[k] /\ store[k].tick = tick /\ k \in 1 .. Len(store)
    BY <2>1, <2>2 DEF k
  <2>4. \A i \in 1 .. Len(store) : store[i].tick = tick => i = k
    BY <1>3, <1>4, <2>2
  <2> QED BY <2>3, <2>4 DEF Elements
<1> QED BY <1>5, <1>6

\* A later snapshot is added to a storage.
LEMMA Storing ==
  ASSUME NEW store \in Seq(Shots), Increasing(store), NEW x \in Shots,
         \A y \in Elements(store) : y.tick < x.tick
  PROVE  /\ Append(store, x) \in Seq(Shots)
         /\ Increasing(Append(store, x))
         /\ Elements(Append(store, x)) = Elements(store) \cup {x}
<1> DEFINE t == Append(store, x)
<1>1. /\ t \in Seq(Shots)
      /\ Len(store) \in Nat /\ Len(t) = Len(store) + 1
      /\ \A i \in 1 .. Len(store) : t[i] = store[i]
      /\ t[Len(store) + 1] = x
      /\ Elements(t) = Elements(store) \cup {x}
  BY Appended
<1>2. \A i \in 1 .. Len(store) : store[i].tick < x.tick
  BY DEF Elements
<1> HIDE DEF t
<1>3. Increasing(t)
  <2> SUFFICES ASSUME NEW i \in 1 .. Len(t), NEW j \in 1 .. Len(t), i < j
               PROVE  t[i].tick < t[j].tick
    BY DEF Increasing
  <2>1. i \in 1 .. Len(store) /\ (j \in 1 .. Len(store) \/ j = Len(store) + 1)
    BY <1>1
  <2>2. CASE j \in 1 .. Len(store)
    BY <1>1, <2>1, <2>2 DEF Increasing
  <2>3. CASE j = Len(store) + 1
    BY <1>1, <1>2, <2>1, <2>3
  <2> QED BY <2>1, <2>2, <2>3
<1> QED BY <1>1, <1>3 DEF t

-----------------------------------------------------------------------------
(* Types.                                                                  *)

ServerTypes ==
  [tick : 0 .. MaxTick, map : 1 .. MaxChanges + 1, slot : 1 .. MaxChanges + 1,
   state : {"connecting", "ready", "ingame"}, ready : BOOLEAN,
   rejoining : BOOLEAN, acked : -1 .. MaxTick,
   rate : {"init", "recover", "full"}, store : Seq(Shots)]

ClientTypes ==
  [map : 0 .. MaxChanges + 1, wanted : 0 .. MaxChanges + 1, online : BOOLEAN,
   predicting : BOOLEAN, recvTick : 0 .. MaxTick, ack : -1 .. MaxTick,
   parts : SUBSET SnapPackets, received : 0 .. 3, store : Seq(Shots),
   prev : Shots \cup {NoShot}, cur : Shots \cup {NoShot}]

QueueTypes ==
  /\ vital \in [Peers -> Seq(Chunks)]
  /\ got \in [Peers -> Nat]
  /\ peerAck \in [Peers -> Nat]

\* TypeOK without the pair that is shown, which Stores is about; and maps and
\* slots are counted by the changes.
Types ==
  /\ server \in ServerTypes /\ client \in ClientTypes /\ QueueTypes
  /\ net \subseteq SnapPackets \cup InputPackets
  /\ changes \in 0 .. MaxChanges /\ made \in 0 .. MaxEvents
  /\ server.map <= changes + 1 /\ server.slot <= changes + 1

Names == {"map_change", "con_ready", "ready", "start_info", "ready_to_enter",
          "enter_game"}

\* The queue r is q without its first.
Taken(q, r) ==
  /\ Len(q) >= 1 /\ Len(r) = Len(q) - 1
  /\ \A i \in 1 .. Len(r) : r[i] = q[i + 1]

\* The queue r is q with messages of the types names at its end.
Added(q, r, names, map, ack) ==
  /\ Len(r) = Len(q) + Len(names)
  /\ \A i \in 1 .. Len(q) : i \in 1 .. Len(r) /\ r[i] = q[i]
  /\ \A i \in 1 .. Len(r) :
       \/ i \in 1 .. Len(q) /\ r[i] = q[i]
       \/ /\ i > Len(q) /\ i - Len(q) \in 1 .. Len(names)
          /\ r[i].map = map /\ r[i].ack = ack
          /\ r[i].type = names[i - Len(q)]

LEMMA Adding ==
  ASSUME NEW q \in Seq(Chunks), NEW r, NEW names \in Seq(Names), NEW map, NEW ack,
         Len(r) = Len(q) + Len(names),
         \A i \in 1 .. Len(q) : r[i] = q[i],
         \A i \in 1 .. Len(names) : r[Len(q) + i] = Chunk(names[i], map, ack)
  PROVE  Added(q, r, names, map, ack)
<1>1. Len(q) \in Nat /\ Len(names) \in Nat
  BY LenProperties
<1>2. \A type : /\ Chunk(type, map, ack).map = map /\ Chunk(type, map, ack).ack = ack
                /\ Chunk(type, map, ack).type = type
  BY DEF Chunk
<1>3. ASSUME NEW i \in 1 .. Len(r)
      PROVE  \/ i \in 1 .. Len(q) /\ r[i] = q[i]
             \/ /\ i > Len(q) /\ i - Len(q) \in 1 .. Len(names)
                /\ r[i].map = map /\ r[i].ack = ack
                /\ r[i].type = names[i - Len(q)]
  <2>1. CASE i <= Len(q)
    BY <1>1, <2>1
  <2>2. CASE ~(i <= Len(q))
    <3>1. i - Len(q) \in 1 .. Len(names) /\ i = Len(q) + (i - Len(q)) /\ i > Len(q)
      BY <1>1, <2>2
    <3>2. r[i] = Chunk(names[i - Len(q)], map, ack)
      BY <3>1
    <3> QED BY <1>2, <3>1, <3>2
  <2> QED BY <2>1, <2>2
<1> QED BY <1>1, <1>3 DEF Added

LEMMA PeerNames ==
  /\ Peers = {"client", "server"}
  /\ Other("client") = "server" /\ Other("server") = "client"
BY DEF Peers, Other

LEMMA Chunking ==
  ASSUME NEW names \in Seq(Names), NEW map \in 1 .. MaxChanges + 1, NEW ack \in Nat
  PROVE  /\ [i \in DOMAIN names |-> Chunk(names[i], map, ack)] \in Seq(Chunks)
         /\ Len([i \in DOMAIN names |-> Chunk(names[i], map, ack)]) = Len(names)
<1>1. Len(names) \in Nat /\ DOMAIN names = 1 .. Len(names)
      /\ \A i \in 1 .. Len(names) : names[i] \in Names
  BY LenProperties, ElementOfSeq
<1>2. \A i \in 1 .. Len(names) : Chunk(names[i], map, ack) \in Chunks
  BY <1>1 DEF Names, Chunk, Chunks
<1> DEFINE t == [i \in 1 .. Len(names) |-> Chunk(names[i], map, ack)]
<1>3. t \in [1 .. Len(names) -> Chunks]
  BY <1>2
<1> HIDE DEF t
<1>4. t \in Seq(Chunks)
  BY <1>1, <1>3, SeqDef
<1>5. Len(t) = Len(names)
  BY <1>1, <1>3, <1>4, LenProperties
<1> QED BY <1>1, <1>4, <1>5 DEF t

\* What a received vital message changes, by index.
LEMMA Answering ==
  ASSUME Types, NEW p \in Peers, NEW type, NEW names \in Seq(Names),
         Answer(p, type, names)
  PROVE  LET head == vital[p][1]
             map == IF p = "server" THEN server.map ELSE head.map
         IN /\ QueueTypes'
            /\ Head(vital[p]) = head /\ head \in Chunks /\ head.type = type
            /\ Taken(vital[p], vital'[p])
            /\ Added(vital[Other(p)], vital'[Other(p)], names, map, got[p] + 1)
            /\ got'[p] = got[p] + 1 /\ got'[Other(p)] = got[Other(p)]
            /\ peerAck'[p] >= head.ack /\ peerAck'[p] >= peerAck[p]
            /\ peerAck'[Other(p)] = peerAck[Other(p)]
<1> DEFINE q == Other(p)
           head == Head(vital[p])
           map == IF p = "server" THEN server.map ELSE head.map
           new == [i \in DOMAIN names |-> Chunk(names[i], map, got[p] + 1)]
<1>1. /\ vital[p] \in Seq(Chunks) /\ vital[q] \in Seq(Chunks) /\ q \in Peers /\ q # p
      /\ got[p] \in Nat /\ peerAck[p] \in Nat
  BY PeerNames DEF Types, QueueTypes
<1>2. vital[p] # <<>> /\ head.type = type
  BY DEF Answer
<1>3. /\ Len(vital[p]) \in Nat /\ Len(vital[p]) >= 1 /\ head = vital[p][1] /\ head \in Chunks
      /\ Tail(vital[p]) \in Seq(Chunks)
      /\ Taken(vital[p], Tail(vital[p]))
  <2>1. Len(vital[p]) \in Nat /\ Len(vital[p]) # 0 /\ \A i \in 1 .. Len(vital[p]) : vital[p][i] \in Chunks
    BY <1>1, <1>2, ElementsTyped
  <2>2. /\ Tail(vital[p]) \in Seq(Chunks) /\ Len(Tail(vital[p])) = Len(vital[p]) - 1
        /\ \A i \in 1 .. Len(Tail(vital[p])) : Tail(vital[p])[i] = vital[p][i + 1]
        /\ head = vital[p][1]
    BY <1>1, <1>2, HeadTailProperties
  <2> QED BY <2>1, <2>2 DEF Taken
<1>4. head.map \in 1 .. MaxChanges + 1 /\ head.ack \in Nat
  BY <1>3 DEF Chunks
<1>5. map \in 1 .. MaxChanges + 1
  BY <1>4 DEF Types, ServerTypes
<1>6. new \in Seq(Chunks) /\ Len(new) = Len(names) /\ Len(names) \in Nat
      /\ \A i \in 1 .. Len(names) : new[i] = Chunk(names[i], map, got[p] + 1)
  <2>1. got[p] + 1 \in Nat
    BY <1>1
  <2>2. Len(names) \in Nat /\ DOMAIN names = 1 .. Len(names)
    BY LenProperties
  <2> HIDE DEF map
  <2>3. new \in Seq(Chunks) /\ Len(new) = Len(names)
    BY <1>5, <2>1, Chunking
  <2> QED BY <2>2, <2>3
<1>7. /\ vital' = [vital EXCEPT ![p] = Tail(@), ![q] = @ \o new]
      /\ got' = [got EXCEPT ![p] = @ + 1]
      /\ peerAck' = [peerAck EXCEPT ![p] = Larger(@, head.ack)]
  BY Zenon DEF Answer, Feed
<1> HIDE DEF q, head, map, new
<1>8. /\ vital[q] \o new \in Seq(Chunks)
      /\ Added(vital[q], vital[q] \o new, names, map, got[p] + 1)
  <2>1. Len(vital[q]) \in Nat
    BY <1>1, LenProperties
  <2>2. /\ vital[q] \o new \in Seq(Chunks)
        /\ Len(vital[q] \o new) = Len(vital[q]) + Len(new)
        /\ \A i \in 1 .. Len(vital[q]) + Len(new) :
             (vital[q] \o new)[i] = IF i <= Len(vital[q]) THEN vital[q][i]
                                    ELSE new[i - Len(vital[q])]
    BY <1>1, <1>6, ConcatProperties
  <2>3. \A i \in 1 .. Len(new) : (vital[q] \o new)[Len(vital[q]) + i] = new[i]
    BY <1>6, <2>1, <2>2
  <2>4. \A i \in 1 .. Len(vital[q]) : (vital[q] \o new)[i] = vital[q][i]
    BY <1>6, <2>1, <2>2
  <2>5. Added(vital[q], vital[q] \o new, names, map, got[p] + 1)
    BY <1>1, <1>6, <2>2, <2>3, <2>4, Adding
  <2> QED BY <2>2, <2>5
<1>9. /\ vital'[p] = Tail(vital[p]) /\ vital'[q] = vital[q] \o new
      /\ vital' \in [Peers -> Seq(Chunks)]
  BY <1>1, <1>3, <1>7, <1>8 DEF Types, QueueTypes
<1>10. /\ got'[p] = got[p] + 1 /\ got'[q] = got[q] /\ got' \in [Peers -> Nat]
  BY <1>1, <1>7 DEF Types, QueueTypes
<1>11. /\ peerAck'[p] >= head.ack /\ peerAck'[p] >= peerAck[p]
       /\ peerAck'[q] = peerAck[q] /\ peerAck' \in [Peers -> Nat]
  BY <1>1, <1>4, <1>7, SMTT(20) DEF Types, QueueTypes, Larger
<1> QED
  BY <1>2, <1>3, <1>8, <1>9, <1>10, <1>11 DEF q, head, map, QueueTypes

\* What a vital message sent unasked changes.
LEMMA Sending ==
  ASSUME Types, NEW p \in Peers, NEW type \in Names, NEW map \in 1 .. MaxChanges + 1,
         SendVital(p, type, map)
  PROVE  /\ vital' \in [Peers -> Seq(Chunks)]
         /\ Added(vital[Other(p)], vital'[Other(p)], <<type>>, map, got[p])
         /\ vital'[p] = vital[p]
<1> DEFINE q == Other(p)
<1>1. /\ vital[q] \in Seq(Chunks) /\ q \in Peers /\ q # p /\ got[p] \in Nat
      /\ vital \in [Peers -> Seq(Chunks)]
  BY PeerNames DEF Types, QueueTypes
<1>2. Chunk(type, map, got[p]) \in Chunks
  BY <1>1 DEF Chunk, Chunks, Names
<1>3. vital' = [vital EXCEPT ![q] = Append(@, Chunk(type, map, got[p]))]
  BY DEF SendVital
<1> DEFINE r == Append(vital[q], Chunk(type, map, got[p]))
<1>4. /\ r \in Seq(Chunks) /\ Len(r) = Len(vital[q]) + 1
      /\ \A i \in 1 .. Len(vital[q]) : r[i] = vital[q][i]
      /\ r[Len(vital[q]) + 1] = Chunk(type, map, got[p])
  BY <1>1, <1>2, Appended
<1>5. Len(<<type>>) = 1 /\ <<type>>[1] = type
  OBVIOUS
<1> HIDE DEF q, r
<1>6. Added(vital[q], r, <<type>>, map, got[p])
  <2>1. <<type>> \in Seq(Names)
    OBVIOUS
  <2>2. /\ Len(r) = Len(vital[q]) + Len(<<type>>)
        /\ \A i \in 1 .. Len(<<type>>) : r[Len(vital[q]) + i] = Chunk(<<type>>[i], map, got[p])
    BY <1>4, <1>5
  <2> QED BY <1>1, <1>4, <2>1, <2>2, Adding
<1>7. vital'[q] = r /\ vital'[p] = vital[p] /\ vital' \in [Peers -> Seq(Chunks)]
  BY <1>1, <1>3, <1>4 DEF r
<1> QED BY <1>6, <1>7 DEF q

LEMMA StorageTypes ==
  ASSUME NEW store \in Seq(Shots), NEW tick \in Int
  PROVE  /\ PurgeUntil(store, tick) \in Seq(Shots)
         /\ Get(store, tick) \in Shots \cup {NoShot}
<1>1. PurgeUntil(store, tick) \in Seq(Shots)
  BY Purging DEF Dropped
<1> DEFINE found == {i \in 1 .. Len(store) :
                       /\ store[i].tick = tick
                       /\ \A j \in i + 1 .. Len(store) : store[j].tick > tick}
<1>2. CASE found = {}
  BY <1>1, <1>2 DEF Get
<1>3. CASE found # {}
  <2>1. (CHOOSE i \in found : TRUE) \in 1 .. Len(store)
    BY <1>3
  <2>2. Get(store, tick) = store[CHOOSE i \in found : TRUE]
    BY <1>3 DEF Get
  <2> QED BY <1>1, <2>1, <2>2, ElementsTyped
<1> QED BY <1>2, <1>3

LEMMA Numbers ==
  /\ MaxTick \in Nat /\ MaxEvents \in Nat /\ MaxChanges \in Nat
  /\ History \in Nat /\ PartCounts \subseteq Nat
  /\ NoShot.tick = -1 /\ NoShot.map = 0 /\ NoShot \notin Shots
<1>1. NoShot.tick = -1 /\ NoShot.map = 0
  BY DEF NoShot, Shot
<1>2. \A x \in Shots : x.tick \in 1 .. MaxTick
  BY DEF Shots
<1> QED BY <1>1, <1>2, SnapshotAssumption

LEMMA LoadTypes ==
  ASSUME client \in ClientTypes, NEW map \in 0 .. MaxChanges + 1
  PROVE  LoadMap(map) \in ClientTypes
<1>1. <<>> \in Seq(Shots) /\ {} \in SUBSET SnapPackets
  BY EmptySeq
<1>2. 0 \in 0 .. 3 /\ 0 \in 0 .. MaxChanges + 1 /\ NoShot \in Shots \cup {NoShot}
  BY Numbers
<1> QED BY <1>1, <1>2 DEF LoadMap, ClientTypes

LEMMA StoredTypes ==
  ASSUME client \in ClientTypes, NEW shot \in Shots, NEW base \in Shots \cup {NoShot}
  PROVE  Stored(shot, base) \in ClientTypes
<1>1. /\ client.store \in Seq(Shots) /\ client.received \in 0 .. 3
      /\ client.prev \in Shots \cup {NoShot} /\ client.cur \in Shots \cup {NoShot}
      /\ shot.tick \in 1 .. MaxTick
  BY DEF ClientTypes, Shots
<1>2. \A x \in Shots \cup {NoShot} : x.tick \in Int
  BY Numbers DEF Shots
<1>3. PurgeTick(base) \in Int
  BY <1>1, <1>2 DEF PurgeTick, Smaller
<1> DEFINE kept == PurgeUntil(client.store, PurgeTick(base))
           store == Append(kept, shot)
           received == Smaller(client.received + 1, 3)
<1>4. kept \in Seq(Shots)
  BY <1>1, <1>3, StorageTypes
<1> HIDE DEF kept
<1>5. store \in Seq(Shots) /\ Len(store) \in Nat /\ Len(store) # 0
  BY <1>4, Appended
<1>6. Head(store) \in Shots /\ store[Len(store)] \in Shots
  <2>1. store # <<>> /\ Len(store) \in 1 .. Len(store)
    BY <1>5, ElementsTyped
  <2> HIDE DEF store
  <2> QED BY <1>5, <2>1, HeadTailProperties, ElementsTyped
<1>7. received \in 0 .. 3
  BY <1>1 DEF Smaller
<1> HIDE DEF store, received
<1> DEFINE c == [client EXCEPT !.store = store, !.received = received,
                               !.recvTick = shot.tick, !.ack = shot.tick, !.parts = {}]
<1>8. c \in ClientTypes
  <2>1. shot.tick \in 0 .. MaxTick /\ shot.tick \in -1 .. MaxTick
    BY <1>1, Numbers
  <2> HIDE DEF ClientTypes
  <2> QED BY <1>5, <1>7, <2>1 DEF ClientTypes
<1> HIDE DEF c
<1>9. [c EXCEPT !.prev = Head(store), !.cur = store[Len(store)], !.online = TRUE] \in ClientTypes
  BY <1>6, <1>8 DEF ClientTypes
<1>10. Stored(shot, base)
         = IF received = 2
           THEN [c EXCEPT !.prev = Head(store), !.cur = store[Len(store)], !.online = TRUE]
           ELSE c
  BY DEF Stored, c, store, kept, received
<1> QED BY <1>8, <1>9, <1>10

LEMMA InitTypes == Init => Types
<1> SUFFICES ASSUME Init PROVE Types
  OBVIOUS
<1> USE DEF Init
<1>1. <<>> \in Seq(Shots) /\ <<>> \in Seq(Chunks)
  BY EmptySeq
<1>2. server \in ServerTypes
  BY <1>1, Numbers DEF ServerTypes
<1>3. client \in ClientTypes
  BY <1>1, Numbers DEF ClientTypes, NewClient
<1>4. <<Chunk("map_change", 1, 0)>> \in Seq(Chunks)
  <2>1. Chunk("map_change", 1, 0) \in Chunks
    BY Numbers DEF Chunk, Chunks
  <2> QED BY <2>1
<1> DEFINE q == <<Chunk("map_change", 1, 0)>>
<1>5. QueueTypes
  <2>1. vital = [client |-> q, server |-> <<>>] /\ q \in Seq(Chunks)
    BY <1>4
  <2> HIDE DEF q
  <2>2. vital = [p \in Peers |-> IF p = "client" THEN q ELSE <<>>]
    BY <2>1 DEF Peers
  <2>3. vital \in [Peers -> Seq(Chunks)]
    BY <1>1, <2>1, <2>2
  <2> QED BY <2>3 DEF QueueTypes
<1> QED BY <1>2, <1>3, <1>5, Numbers DEF Types

LEMMA NextTypes == Types /\ [Next]_vars => Types'
<1> SUFFICES ASSUME Types, [Next]_vars PROVE Types'
  OBVIOUS
<1>0. /\ 0 \in 0 .. MaxTick /\ -1 \in -1 .. MaxTick /\ 0 \in 0 .. 3
      /\ {} \in SUBSET SnapPackets /\ NoShot \in Shots \cup {NoShot}
  BY Numbers
<1>1. /\ server \in ServerTypes /\ client \in ClientTypes /\ QueueTypes
      /\ net \subseteq SnapPackets \cup InputPackets
      /\ changes \in 0 .. MaxChanges /\ made \in 0 .. MaxEvents
      /\ server.map <= changes + 1 /\ server.slot <= changes + 1
  BY DEF Types
<1>2. <<>> \in Seq(Shots) /\ <<>> \in Seq(Names) /\ <<>> \in Seq(Chunks)
  BY EmptySeq
<1>3. \A t1, t2 \in Names : <<t1>> \in Seq(Names) /\ <<t1, t2>> \in Seq(Names)
  OBVIOUS
<1>4. ASSUME NEW p \in Peers, NEW packet, packet.ack \in Nat, Feed(p, packet),
             UNCHANGED <<vital, got>>
      PROVE  QueueTypes'
  BY <1>1, <1>4 DEF Feed, QueueTypes, Larger
<1>5. ASSUME Change
      PROVE  /\ changes' = changes + 1 /\ made' = made
             /\ changes' \in 0 .. MaxChanges /\ made' \in 0 .. MaxEvents
             /\ server.map + 1 \in 1 .. MaxChanges + 1
             /\ server.slot + 1 \in 1 .. MaxChanges + 1
             /\ server.map \in 1 .. MaxChanges + 1
  BY <1>1, <1>5, Numbers, SMTT(20) DEF Change, ServerTypes
<1>6. CASE Tick
  <2>3. server.tick + 1 \in 0 .. MaxTick
    BY <1>1, <1>6, Numbers, SMTT(20) DEF Tick, ServerTypes
  <2>1. server' \in ServerTypes /\ server'.map = server.map /\ server'.slot = server.slot
    BY <1>1, <1>6, <2>3 DEF Tick, ServerTypes
  <2>2. UNCHANGED <<client, vital, got, peerAck, net, changes, made>>
    BY <1>6 DEF Tick
  <2> QED BY <1>1, <2>1, <2>2 DEF Types, QueueTypes
<1>7. ASSUME NEW parts \in PartCounts, DoSnapshot(parts)
      PROVE  Types'
  <2> DEFINE tick == server.tick + 1
             shot == Shot(server.map, server.slot, tick)
             store == Append(Purged(tick), shot)
             base == IF server.acked >= 0 THEN Get(store, server.acked) ELSE NoShot
             rate == IF base = NoShot /\ server.rate = "full" THEN "recover" ELSE server.rate
  <2>1. tick \in 1 .. MaxTick /\ shot \in Shots /\ server.acked \in Int
        /\ Larger(tick - History, server.acked) \in Int /\ server.store \in Seq(Shots)
    <3>1. server.tick \in Nat /\ server.acked \in Int /\ tick <= MaxTick
          /\ server.store \in Seq(Shots)
      BY <1>1, <1>7, Numbers DEF DoSnapshot, ServerTypes
    <3>2. tick \in 1 .. MaxTick /\ tick - History \in Int
      BY <3>1, Numbers
    <3>3. shot \in Shots
      BY <1>1, <3>2 DEF ServerTypes, Shot, Shots
    <3> QED BY <3>1, <3>2, <3>3 DEF Larger
  <2>2. Purged(tick) \in Seq(Shots)
    BY <2>1, StorageTypes DEF Purged
  <2>3. store \in Seq(Shots)
    BY <2>1, <2>2, Appended
  <2>4. base \in Shots \cup {NoShot}
    BY <2>1, <2>3, StorageTypes
  <2>5. /\ server' = [server EXCEPT !.tick = tick, !.store = store, !.rate = rate]
        /\ net' = net \cup {SnapPacket(shot, base, parts, n, got["server"]) : n \in 0 .. parts - 1}
        /\ Events < MaxEvents /\ made' = made + 1
        /\ UNCHANGED <<client, vital, got, peerAck, changes>>
    BY <1>7 DEF DoSnapshot
  <2>6. rate \in {"init", "recover", "full"}
    BY <1>1 DEF ServerTypes
  <2> HIDE DEF tick, shot, store, base, rate
  <2>7. server' \in ServerTypes /\ server'.map = server.map /\ server'.slot = server.slot
    <3>1. tick \in 0 .. MaxTick
      BY <2>1, Numbers
    <3> QED BY <1>1, <2>3, <2>5, <2>6, <3>1 DEF ServerTypes
  <2>8. got["server"] \in Nat
    BY <1>1, PeerNames DEF QueueTypes
  <2>9. \A n \in 0 .. parts - 1 : SnapPacket(shot, base, parts, n, got["server"]) \in SnapPackets
    BY <2>1, <2>4, <2>8 DEF SnapPacket, SnapPackets
  <2>10. made' \in 0 .. MaxEvents
    BY <1>1, <2>5, Numbers DEF Events
  <2> QED BY <1>1, <2>5, <2>7, <2>9, <2>10 DEF Types, QueueTypes
<1>8. ASSUME NEW packet \in net, OnInput(packet)
      PROVE  Types'
  <2>1. packet \in InputPackets
    BY <1>1, <1>8 DEF OnInput, SnapPackets
  <2>2. packet.ack \in Nat /\ packet.tick \in -1 .. MaxTick
    BY <2>1 DEF InputPackets
  <2>3. QueueTypes'
    BY <1>4, <1>8, <2>2, PeerNames DEF OnInput
  <2> DEFINE new == [server EXCEPT !.acked = packet.tick,
                                   !.rate = IF packet.tick >= 0 THEN "full" ELSE @]
  <2>4. new \in ServerTypes /\ new.map = server.map /\ new.slot = server.slot
    BY <1>1, <2>2 DEF ServerTypes
  <2>5. server' = new \/ server' = server
    BY <1>8 DEF OnInput
  <2>6. UNCHANGED <<client, net, changes, made>>
    BY <1>8 DEF OnInput
  <2> QED BY <1>1, <2>3, <2>4, <2>5, <2>6 DEF Types
<1>9. CASE OnReady
  <2> DEFINE names == IF server.rejoining THEN <<"con_ready", "ready_to_enter">>
                      ELSE <<"con_ready">>
  <2>1. names \in Seq(Names)
    BY <1>3 DEF Names
  <2>2. Answer("server", "ready", names)
    BY <1>9 DEF OnReady
  <2> HIDE DEF names
  <2>3. QueueTypes'
    BY <2>1, <2>2, PeerNames, Answering
  <2>4. server' \in ServerTypes /\ server'.map = server.map /\ server'.slot = server.slot
    BY <1>1, <1>9 DEF OnReady, ServerTypes
  <2>5. UNCHANGED <<client, net, changes, made>>
    BY <1>9 DEF OnReady
  <2> QED BY <1>1, <2>3, <2>4, <2>5 DEF Types
<1>10. CASE OnStartInfo
  <2> DEFINE first == server.state \in {"ready", "ingame"} /\ ~server.ready
             names == IF first THEN <<"ready_to_enter">> ELSE <<>>
  <2>1. names \in Seq(Names)
    BY <1>2, <1>3 DEF Names
  <2>2. Answer("server", "start_info", names)
    BY <1>10 DEF OnStartInfo
  <2>3. server' = [server EXCEPT !.ready = @ \/ first]
    BY <1>10 DEF OnStartInfo
  <2> HIDE DEF names
  <2>4. QueueTypes'
    BY <2>1, <2>2, PeerNames, Answering
  <2>5. server' \in ServerTypes /\ server'.map = server.map /\ server'.slot = server.slot
    BY <1>1, <2>3 DEF ServerTypes
  <2>6. UNCHANGED <<client, net, changes, made>>
    BY <1>10 DEF OnStartInfo
  <2> QED BY <1>1, <2>4, <2>5, <2>6 DEF Types
<1>11. CASE OnEnterGame
  <2>1. Answer("server", "enter_game", <<>>)
    BY <1>11 DEF OnEnterGame
  <2>2. QueueTypes'
    BY <1>2, <2>1, PeerNames, Answering
  <2>3. server' \in ServerTypes /\ server'.map = server.map /\ server'.slot = server.slot
    BY <1>1, <1>11 DEF OnEnterGame, ServerTypes
  <2>4. UNCHANGED <<client, net, changes, made>>
    BY <1>11 DEF OnEnterGame
  <2> QED BY <1>1, <2>2, <2>3, <2>4 DEF Types
<1>12. CASE ChangeMap
  <2>1. Change /\ SendVital("server", "map_change", server.map + 1)
    BY <1>12 DEF ChangeMap
  <2>2. vital' \in [Peers -> Seq(Chunks)]
    BY <1>5, <2>1, PeerNames, Sending DEF Names
  <2>3. server' = [Reset(server) EXCEPT !.map = @ + 1, !.tick = 0,
                                        !.ready = FALSE, !.state = "connecting"]
    BY <1>12 DEF ChangeMap
  <2>4. Reset(server) \in ServerTypes /\ Reset(server).map = server.map
        /\ Reset(server).slot = server.slot
    BY <1>0, <1>1, <1>2 DEF Reset, ServerTypes
  <2> HIDE DEF Reset
  <2>5. server' \in ServerTypes /\ server'.map = server.map + 1 /\ server'.slot = server.slot
    BY <1>0, <1>5, <2>1, <2>3, <2>4 DEF ServerTypes
  <2>6. UNCHANGED <<client, got, peerAck, net>>
    BY <1>12 DEF ChangeMap
  <2>7. changes' = changes + 1 /\ changes \in Nat
    BY <1>1, <1>5, <2>1
  <2>8. server'.map <= changes' + 1 /\ server'.slot <= changes' + 1
    BY <1>1, <2>5, <2>7 DEF ServerTypes
  <2> QED BY <1>1, <1>5, <2>1, <2>2, <2>5, <2>6, <2>8 DEF Types, QueueTypes
<1>13. CASE Rejoin
  <2>1. Change
    BY <1>13 DEF Rejoin
  <2>2. server' = [Reset(server) EXCEPT !.rejoining = TRUE]
    BY <1>13 DEF Rejoin
  <2>3. server' \in ServerTypes /\ server'.map = server.map /\ server'.slot = server.slot
    BY <1>0, <1>1, <1>2, <2>2 DEF Reset, ServerTypes
  <2>4. client' \in ClientTypes
    BY <1>0, <1>2, <1>13, Numbers DEF Rejoin, NewClient, ClientTypes
  <2> DEFINE q == <<Chunk("map_change", server.map, 0)>>
  <2>5. q \in Seq(Chunks)
    <3>1. Chunk("map_change", server.map, 0) \in Chunks
      BY <1>1 DEF Chunk, Chunks, ServerTypes
    <3> QED BY <3>1
  <2>6. vital' = [client |-> q, server |-> <<>>]
    BY <1>13 DEF Rejoin
  <2> HIDE DEF q
  <2>7. vital' = [p \in Peers |-> IF p = "client" THEN q ELSE <<>>]
    BY <2>6 DEF Peers
  <2>8. vital' \in [Peers -> Seq(Chunks)]
    BY <1>2, <2>5, <2>7
  <2>9. got' \in [Peers -> Nat] /\ peerAck' \in [Peers -> Nat] /\ net' = {}
    BY <1>13 DEF Rejoin
  <2>10. changes' = changes + 1 /\ changes \in Nat
    BY <1>1, <1>5, <2>1
  <2>11. server'.map <= changes' + 1 /\ server'.slot <= changes' + 1
    BY <1>1, <2>3, <2>10 DEF ServerTypes
  <2> QED BY <1>5, <2>1, <2>3, <2>4, <2>8, <2>9, <2>11 DEF Types, QueueTypes
<1>14. CASE SetTimedOut
  <2>1. Change
    BY <1>14 DEF SetTimedOut
  <2>2. PICK rate \in {"init", "recover", "full"} : server' = [TakenOver EXCEPT !.rate = rate]
    BY <1>14 DEF SetTimedOut
  <2>3. TakenOver \in ServerTypes /\ TakenOver.map = server.map
        /\ TakenOver.slot = server.slot + 1
    BY <1>0, <1>1, <1>2, <1>5, <2>1 DEF TakenOver, ServerTypes
  <2> HIDE DEF TakenOver
  <2>4. server' \in ServerTypes /\ server'.map = server.map /\ server'.slot = server.slot + 1
    BY <2>2, <2>3 DEF ServerTypes
  <2>5. net' \subseteq net /\ UNCHANGED <<client, vital, got>>
        /\ peerAck' = [peerAck EXCEPT !["server"] = 0]
    BY <1>14 DEF SetTimedOut
  <2>6. peerAck' \in [Peers -> Nat]
    BY <1>1, <2>5 DEF QueueTypes
  <2>7. changes' = changes + 1 /\ changes \in Nat
    BY <1>1, <1>5, <2>1
  <2>8. server'.map <= changes' + 1 /\ server'.slot <= changes' + 1
    BY <1>1, <2>4, <2>7, SMTT(20) DEF ServerTypes
  <2> QED BY <1>1, <1>5, <2>1, <2>4, <2>5, <2>6, <2>8 DEF Types, QueueTypes
<1>15. CASE OnMapChange
  <2>1. PICK names \in {<<"ready">>, <<>>} : Answer("client", "map_change", names)
    BY <1>15 DEF OnMapChange
  <2>2. names \in Seq(Names)
    BY <1>2, <1>3 DEF Names
  <2>3. QueueTypes' /\ Head(vital["client"]) \in Chunks
    BY <2>1, <2>2, PeerNames, Answering
  <2> DEFINE map == Head(vital["client"]).map
  <2>4. map \in 0 .. MaxChanges + 1
    BY <2>3 DEF Chunks
  <2>5. client' = LoadMap(map) \/ client' = [LoadMap(0) EXCEPT !.wanted = map]
    BY <1>15 DEF OnMapChange
  <2> HIDE DEF map
  <2>6. client' \in ClientTypes
    <3>1. LoadMap(map) \in ClientTypes /\ LoadMap(0) \in ClientTypes
      BY <1>1, <2>4, LoadTypes, Numbers
    <3>2. [LoadMap(0) EXCEPT !.wanted = map] \in ClientTypes
      BY <2>4, <3>1 DEF ClientTypes
    <3> QED BY <2>5, <3>1, <3>2
  <2>7. UNCHANGED <<server, net, changes, made>>
    BY <1>15 DEF OnMapChange
  <2> QED BY <1>1, <2>3, <2>6, <2>7 DEF Types
<1>16. CASE FinishMapDownload
  <2>1. client.wanted \in 1 .. MaxChanges + 1
    BY <1>1, <1>16 DEF FinishMapDownload, ClientTypes
  <2>2. client' \in ClientTypes
    BY <1>1, <1>16, <2>1, LoadTypes, Numbers DEF FinishMapDownload
  <2>3. vital' \in [Peers -> Seq(Chunks)]
    BY <1>16, <2>1, PeerNames, Sending DEF FinishMapDownload, Names
  <2>4. UNCHANGED <<server, got, peerAck, net, changes, made>>
    BY <1>16 DEF FinishMapDownload
  <2> QED BY <1>1, <2>2, <2>3, <2>4 DEF Types, QueueTypes
<1>17. CASE OnConReady
  <2>1. PICK names \in {<<"start_info">>, <<>>} : Answer("client", "con_ready", names)
    BY <1>17 DEF OnConReady
  <2>2. names \in Seq(Names)
    BY <1>2, <1>3 DEF Names
  <2>3. QueueTypes'
    BY <2>1, <2>2, PeerNames, Answering
  <2>4. UNCHANGED <<server, client, net, changes, made>>
    BY <1>17 DEF OnConReady
  <2> QED BY <1>1, <2>3, <2>4 DEF Types
<1>18. CASE OnReadyToEnter
  <2>1. Answer("client", "ready_to_enter", <<"enter_game">>)
    BY <1>18 DEF OnReadyToEnter
  <2>2. <<"enter_game">> \in Seq(Names)
    BY <1>3 DEF Names
  <2>3. QueueTypes'
    BY <2>1, <2>2, PeerNames, Answering
  <2>4. Entered \in ClientTypes
    BY <1>0, <1>1, <1>2 DEF Entered, ClientTypes
  <2>5. client' = Entered /\ UNCHANGED <<server, net, changes, made>>
    BY <1>18 DEF OnReadyToEnter
  <2> QED BY <1>1, <2>3, <2>4, <2>5 DEF Types
<1>19. ASSUME NEW b \in BOOLEAN, NEW ack \in -1 .. MaxTick
       PROVE  Input(b, ack) \subseteq InputPackets
  <2>1. got["client"] \in Nat
    BY <1>1, PeerNames DEF QueueTypes
  <2> QED BY <2>1 DEF Input, InputPacket, InputPackets
<1>20. CASE SendInput
  <2>1. client' \in ClientTypes
    BY <1>1, <1>20 DEF SendInput, ClientTypes
  <2>2. client.ack \in -1 .. MaxTick
    BY <1>1 DEF ClientTypes
  <2>3. net' = net \cup Input(TRUE, client.ack) /\ UNCHANGED <<server, vital, got, peerAck, changes, made>>
    BY <1>20 DEF SendInput
  <2> QED BY <1>1, <1>19, <2>1, <2>2, <2>3 DEF Types, QueueTypes
<1>21. CASE ShowNext
  <2> DEFINE later == {i \in 1 .. Len(client.store) - 1 : client.store[i] = client.cur}
             k == CHOOSE i \in later : TRUE
  <2>1. later # {} /\ client' = [client EXCEPT !.prev = client.cur, !.cur = client.store[k + 1]]
        /\ UNCHANGED <<server, vital, got, peerAck, net, changes, made>>
    BY <1>21 DEF ShowNext
  <2>2. client.store \in Seq(Shots)
    BY <1>1 DEF ClientTypes
  <2>3. k + 1 \in 1 .. Len(client.store)
    <3>1. k \in later
      BY <2>1
    <3> QED BY <2>2, <3>1, ElementsTyped
  <2>4. client.store[k + 1] \in Shots
    BY <2>2, <2>3, ElementsTyped
  <2> HIDE DEF k
  <2>5. client' \in ClientTypes
    BY <1>1, <2>1, <2>4 DEF ClientTypes
  <2> QED BY <1>1, <2>1, <2>5 DEF Types, QueueTypes
<1>22. ASSUME NEW packet \in net, OnSnap(packet)
       PROVE  Types'
  <2>1. packet \in SnapPackets
    BY <1>1, <1>22 DEF OnSnap, InputPackets
  <2>2. /\ packet.ack \in Nat /\ packet.shot \in Shots /\ packet.base \in Shots \cup {NoShot}
        /\ packet.shot.tick \in 0 .. MaxTick /\ packet.base.tick \in Int
    BY <2>1, Numbers DEF SnapPackets, Shots
  <2>3. QueueTypes'
    BY <1>4, <1>22, <2>2, PeerNames DEF OnSnap
  <2> DEFINE parts == Gathered(packet)
             base == Get(client.store, packet.base.tick)
             received == [client EXCEPT !.recvTick = packet.shot.tick, !.parts = {}]
  <2>4. parts \in SUBSET SnapPackets
    BY <1>1, <2>1 DEF Gathered, ClientTypes
  <2>5. base \in Shots \cup {NoShot}
    BY <1>1, <2>2, StorageTypes DEF ClientTypes
  <2>6. /\ \/ client' = [received EXCEPT !.parts = parts]
           \/ client' = [received EXCEPT !.ack = -1]
           \/ client' = Stored(packet.shot, base)
           \/ client' = received
        /\ net' \subseteq net \cup Input(client.predicting, -1)
        /\ UNCHANGED <<server, vital, got, changes, made>>
    BY <1>22 DEF OnSnap
  <2>7. received \in ClientTypes
    BY <1>1, <2>2 DEF ClientTypes
  <2>8. Stored(packet.shot, base) \in ClientTypes
    BY <1>1, <2>2, <2>5, StoredTypes
  <2> HIDE DEF parts, base, received
  <2>9. [received EXCEPT !.parts = parts] \in ClientTypes /\ [received EXCEPT !.ack = -1] \in ClientTypes
    BY <1>0, <2>4, <2>7 DEF ClientTypes
  <2>10. client' \in ClientTypes
    BY <2>6, <2>7, <2>8, <2>9
  <2>11. client.predicting \in BOOLEAN /\ -1 \in -1 .. MaxTick
    BY <1>0, <1>1 DEF ClientTypes
  <2>12. Input(client.predicting, -1) \subseteq InputPackets
    BY <1>19, <2>11
  <2> QED BY <1>1, <2>3, <2>6, <2>10, <2>12 DEF Types
<1>23. CASE UNCHANGED vars
  BY <1>1, <1>23 DEF vars, Types, QueueTypes
<1> QED
  BY <1>6, <1>7, <1>8, <1>9, <1>10, <1>11, <1>12, <1>13, <1>14, <1>15, <1>16, <1>17,
     <1>18, <1>20, <1>21, <1>22, <1>23 DEF Next

-----------------------------------------------------------------------------
(* The handshake.                                                          *)

\* The map that the client has loaded or downloads.
Latest == IF client.map # 0 THEN client.map ELSE client.wanted

\* The maps on the way to the client, after the one it knows.
MapAt(i) == IF i = 0 THEN Latest ELSE ToClient[i].map

\* Messages to the client are for newer and newer maps, each announced by its
\* map_change.
MarksC ==
  /\ client.map = 0 \/ client.wanted = 0
  /\ \A i, j \in 0 .. Len(ToClient) : i < j =>
       /\ MapAt(i) <= MapAt(j)
       /\ ToClient[j].type = "map_change" => MapAt(i) < MapAt(j)
       /\ ToClient[j].type # "map_change" /\ i = j - 1 => MapAt(i) = MapAt(j)
  /\ MapAt(Len(ToClient)) = server.map

\* Messages to the server are in order too, and for no map that the client does
\* not know.
MarksS ==
  /\ \A i \in 1 .. Len(ToServer) : ToServer[i].map <= Latest
  /\ \A i, j \in 1 .. Len(ToServer) : i < j => ToServer[i].map <= ToServer[j].map

Marks == MarksC /\ MarksS

\* A download that is for an old map.
Parked == IF client.wanted \in {0, server.map} THEN 0 ELSE 1

\* How many messages have taken the server where it is since the map changed.
Progress == IF server.state = "connecting" THEN 0 ELSE IF server.ready THEN 2 ELSE 1

\* The client is in the game.
Playing == server.state = "ingame" /\ ~server.rejoining

\* All messages of a queue but the first n are for the map.
AllBut(q, n, map) == \A i \in 1 .. Len(q) : i > n => q[i].map = map

\* With the messages of old handshakes alone the server does not get further
\* than to a client that is ready: the first a of its queue, the first b of the
\* client's.
Outdated ==
  /\ server.state = "connecting" => ~server.ready
  /\ server.state = "ingame" => server.ready
  /\ server.rejoining => server.state = "ingame"
  /\ \E a, b \in 0 .. 2 :
       /\ a + b + Parked + Progress <= 2
       /\ AllBut(ToServer, a, server.map) /\ AllBut(ToClient, b, server.map)

\* The message that lets the client in; after a rejoin, also those before it.
EntryTypes(rejoining) ==
  {"ready_to_enter", "enter_game"} \cup IF rejoining THEN {"map_change", "ready"} ELSE {}

Entries(q, map, rejoining) ==
  {i \in 1 .. Len(q) : q[i].map = map /\ q[i].type \in EntryTypes(rejoining)}

EntriesC == Entries(ToClient, server.map, server.rejoining)
EntriesS == Entries(ToServer, server.map, server.rejoining)

AtMostOne(T) == \A i, j \in T : i = j

\* There is one such message, and none once the client is in.
Entering ==
  /\ AtMostOne(EntriesC) /\ AtMostOne(EntriesS)
  /\ EntriesC = {} \/ EntriesS = {}
  /\ server.rejoining /\ client.wanted # 0 => EntriesC = {} /\ EntriesS = {}
  /\ EntriesC # {} \/ EntriesS # {} =>
       server.ready /\ (server.state = "ingame" => server.rejoining)

Handshake == Marks /\ Outdated /\ Entering

LEMMA HandshakeTypes ==
  ASSUME Types
  PROVE  /\ client.map \in Nat /\ client.wanted \in Nat /\ Latest \in Nat
         /\ server.map \in Nat \ {0}
         /\ server.state \in {"connecting", "ready", "ingame"}
         /\ server.ready \in BOOLEAN /\ server.rejoining \in BOOLEAN
         /\ ToClient \in Seq(Chunks) /\ ToServer \in Seq(Chunks)
         /\ Len(ToClient) \in Nat /\ Len(ToServer) \in Nat
         /\ \A i \in 1 .. Len(ToClient) :
              ToClient[i].map \in Nat \ {0} /\ ToClient[i].ack \in Nat
         /\ \A i \in 1 .. Len(ToServer) :
              ToServer[i].map \in Nat \ {0} /\ ToServer[i].ack \in Nat
         /\ \A i \in 0 .. Len(ToClient) : MapAt(i) \in Nat
         /\ got["client"] \in Nat /\ got["server"] \in Nat
         /\ peerAck["client"] \in Nat /\ peerAck["server"] \in Nat
<1>1. /\ client.map \in Nat /\ client.wanted \in Nat /\ Latest \in Nat
      /\ server.map \in Nat \ {0}
      /\ server.state \in {"connecting", "ready", "ingame"}
      /\ server.ready \in BOOLEAN /\ server.rejoining \in BOOLEAN
  BY Numbers DEF Types, ClientTypes, ServerTypes, Latest
<1>2. /\ ToClient \in Seq(Chunks) /\ ToServer \in Seq(Chunks)
      /\ got["client"] \in Nat /\ got["server"] \in Nat
      /\ peerAck["client"] \in Nat /\ peerAck["server"] \in Nat
  BY PeerNames DEF Types, QueueTypes, ToClient, ToServer
<1>3. \A m \in Chunks : m.map \in Nat \ {0} /\ m.ack \in Nat
  BY Numbers DEF Chunks
<1>4. /\ Len(ToClient) \in Nat /\ Len(ToServer) \in Nat
      /\ \A i \in 1 .. Len(ToClient) : ToClient[i] \in Chunks
      /\ \A i \in 1 .. Len(ToServer) : ToServer[i] \in Chunks
  BY <1>2, ElementsTyped
<1>5. \A i \in 0 .. Len(ToClient) : MapAt(i) \in Nat
  BY <1>1, <1>3, <1>4 DEF MapAt
<1> QED BY <1>1, <1>2, <1>3, <1>4, <1>5

\* What is known of the order, in short.
LEMMA InOrder ==
  ASSUME Types, Marks
  PROVE  /\ Latest <= server.map
         /\ \A i \in 1 .. Len(ToClient) :
              /\ Latest <= ToClient[i].map /\ ToClient[i].map <= server.map
              /\ ToClient[i].type = "map_change" => Latest < ToClient[i].map
         /\ \A i \in 1 .. Len(ToServer) : ToServer[i].map <= Latest
<1>1. /\ Len(ToClient) \in Nat /\ Latest \in Nat
      /\ \A i \in 0 .. Len(ToClient) : MapAt(i) \in Nat
  BY HandshakeTypes
<1>2. MapAt(0) = Latest /\ \A i \in 1 .. Len(ToClient) : MapAt(i) = ToClient[i].map
  BY <1>1 DEF MapAt
<1>3. /\ \A i, j \in 0 .. Len(ToClient) : i < j =>
           /\ MapAt(i) <= MapAt(j)
           /\ ToClient[j].type = "map_change" => MapAt(i) < MapAt(j)
      /\ MapAt(Len(ToClient)) = server.map
  BY DEF Marks, MarksC
<1>4. \A i \in 0 .. Len(ToClient) : MapAt(i) <= MapAt(Len(ToClient))
  <2> SUFFICES ASSUME NEW i \in 0 .. Len(ToClient) PROVE MapAt(i) <= MapAt(Len(ToClient))
    OBVIOUS
  <2>1. i < Len(ToClient) \/ i = Len(ToClient)
    BY <1>1
  <2> QED BY <1>1, <1>3, <2>1
<1>5. \A i \in 1 .. Len(ToClient) : 0 < i /\ 0 \in 0 .. Len(ToClient) /\ i \in 0 .. Len(ToClient)
  BY <1>1
<1>6. \A i \in 1 .. Len(ToServer) : ToServer[i].map <= Latest
  BY DEF Marks, MarksS
<1> QED BY <1>1, <1>2, <1>3, <1>4, <1>5, <1>6

\* The client takes a message: what it knows moves on to that message's map.
LEMMA MarksTaken ==
  ASSUME Types, MarksC, Taken(ToClient, ToClient'),
         Latest' = IF ToClient[1].type = "map_change" THEN ToClient[1].map ELSE Latest,
         client'.map = 0 \/ client'.wanted = 0, server'.map = server.map
  PROVE  MarksC' /\ Latest' = ToClient[1].map /\ Latest <= Latest'
<1>1. /\ Len(ToClient) \in Nat /\ Latest \in Nat
      /\ \A i \in 0 .. Len(ToClient) : MapAt(i) \in Nat
  BY HandshakeTypes
<1>2. /\ Len(ToClient) >= 1 /\ Len(ToClient') = Len(ToClient) - 1
      /\ \A i \in 1 .. Len(ToClient') : ToClient'[i] = ToClient[i + 1]
  BY DEF Taken
<1>3. MapAt(0) = Latest /\ MapAt(1) = ToClient[1].map
  BY <1>1, <1>2 DEF MapAt
<1>4. Latest' = MapAt(1) /\ Latest <= Latest'
  BY <1>1, <1>2, <1>3 DEF MarksC
<1>5. \A i \in 0 .. Len(ToClient') : MapAt(i)' = MapAt(i + 1)
  BY <1>1, <1>2, <1>4 DEF MapAt
<1>6. \A i, j \in 0 .. Len(ToClient') : i < j =>
        /\ MapAt(i)' <= MapAt(j)'
        /\ ToClient'[j].type = "map_change" => MapAt(i)' < MapAt(j)'
        /\ ToClient'[j].type # "map_change" /\ i = j - 1 => MapAt(i)' = MapAt(j)'
  <2> SUFFICES ASSUME NEW i \in 0 .. Len(ToClient'), NEW j \in 0 .. Len(ToClient'), i < j
               PROVE  /\ MapAt(i)' <= MapAt(j)'
                      /\ ToClient'[j].type = "map_change" => MapAt(i)' < MapAt(j)'
                      /\ ToClient'[j].type # "map_change" /\ i = j - 1 => MapAt(i)' = MapAt(j)'
    OBVIOUS
  <2>1. /\ i + 1 \in 0 .. Len(ToClient) /\ j + 1 \in 0 .. Len(ToClient) /\ i + 1 < j + 1
        /\ j \in 1 .. Len(ToClient') /\ (i = j - 1 => i + 1 = (j + 1) - 1)
    BY <1>1, <1>2
  <2>2. ToClient'[j] = ToClient[j + 1] /\ MapAt(i)' = MapAt(i + 1) /\ MapAt(j)' = MapAt(j + 1)
    BY <1>2, <1>5, <2>1
  <2> QED BY <2>1, <2>2 DEF MarksC
<1>7. MapAt(Len(ToClient))' = server'.map
  <2>1. Len(ToClient') \in 0 .. Len(ToClient') /\ Len(ToClient') + 1 = Len(ToClient)
    BY <1>1, <1>2
  <2>2. MapAt(Len(ToClient))' = MapAt(Len(ToClient))
    BY <1>5, <2>1
  <2> QED BY <2>2 DEF MarksC
<1>8. MarksC'
  <2> HIDE DEF MapAt
  <2> QED BY <1>6, <1>7 DEF MarksC
<1> QED BY <1>3, <1>4, <1>8

\* The server sends a message, for the map it has or with the next map.
LEMMA MarksAdded ==
  ASSUME Types, MarksC, NEW names \in Seq(Names), NEW ack,
         Added(ToClient, ToClient', names, server'.map, ack),
         \/ /\ server'.map = server.map
            /\ \A i \in 1 .. Len(names) : names[i] # "map_change"
         \/ server'.map = server.map + 1 /\ Len(names) = 1 /\ names[1] = "map_change",
         Latest' = Latest, client'.map = 0 \/ client'.wanted = 0
  PROVE  MarksC'
<1>1. /\ Len(ToClient) \in Nat /\ Latest \in Nat /\ server.map \in Nat
      /\ \A i \in 0 .. Len(ToClient) : MapAt(i) \in Nat
  BY HandshakeTypes
<1>2. /\ Len(names) \in Nat /\ Len(ToClient') = Len(ToClient) + Len(names)
      /\ \A i \in 1 .. Len(ToClient') :
           \/ i \in 1 .. Len(ToClient) /\ ToClient'[i] = ToClient[i]
           \/ /\ i > Len(ToClient) /\ i - Len(ToClient) \in 1 .. Len(names)
              /\ ToClient'[i].map = server'.map /\ ToClient'[i].type = names[i - Len(ToClient)]
  BY LenProperties DEF Added
<1>3. \A i \in 0 .. Len(ToClient) : MapAt(i)' = MapAt(i)
  <2> SUFFICES ASSUME NEW i \in 0 .. Len(ToClient) PROVE MapAt(i)' = MapAt(i)
    OBVIOUS
  <2>1. CASE i = 0
    BY <2>1 DEF MapAt
  <2>2. CASE i # 0
    <3>1. i \in 1 .. Len(ToClient) /\ i \in 1 .. Len(ToClient')
      BY <1>1, <1>2, <2>2
    <3>2. ToClient'[i] = ToClient[i]
      BY <1>1, <1>2, <3>1
    <3> QED BY <2>2, <3>2 DEF MapAt
  <2> QED BY <2>1, <2>2
<1>4. \A i \in 0 .. Len(ToClient') : i > Len(ToClient) => MapAt(i)' = server'.map
  <2> SUFFICES ASSUME NEW i \in 0 .. Len(ToClient'), i > Len(ToClient)
               PROVE  MapAt(i)' = server'.map
    OBVIOUS
  <2>1. i \in 1 .. Len(ToClient') /\ i # 0 /\ i \notin 1 .. Len(ToClient)
    BY <1>1, <1>2
  <2>2. ToClient'[i].map = server'.map
    BY <1>2, <2>1
  <2> QED BY <2>1, <2>2 DEF MapAt
<1>5. MapAt(Len(ToClient)) = server.map /\ Len(ToClient) \in 0 .. Len(ToClient)
  BY <1>1 DEF MarksC
<1>6. \A i \in 0 .. Len(ToClient) : MapAt(i) <= server.map
  <2> SUFFICES ASSUME NEW i \in 0 .. Len(ToClient) PROVE MapAt(i) <= server.map
    OBVIOUS
  <2>1. i < Len(ToClient) \/ i = Len(ToClient)
    BY <1>1
  <2> QED BY <1>1, <1>5, <2>1 DEF MarksC
<1>7. ASSUME NEW i \in 0 .. Len(ToClient'), NEW j \in 0 .. Len(ToClient'), i < j
      PROVE  /\ MapAt(i)' <= MapAt(j)'
             /\ ToClient'[j].type = "map_change" => MapAt(i)' < MapAt(j)'
             /\ ToClient'[j].type # "map_change" /\ i = j - 1 => MapAt(i)' = MapAt(j)'
  <2>1. j \in 1 .. Len(ToClient')
    BY <1>1, <1>2, <1>7
  <2>2. CASE j <= Len(ToClient)
    <3>1. /\ i \in 0 .. Len(ToClient) /\ j \in 0 .. Len(ToClient)
          /\ ToClient'[j] = ToClient[j]
      BY <1>1, <1>2, <1>7, <2>1, <2>2
    <3>2. MapAt(i)' = MapAt(i) /\ MapAt(j)' = MapAt(j)
      BY <1>3, <3>1
    <3> QED BY <1>7, <3>1, <3>2 DEF MarksC
  <2>3. CASE j > Len(ToClient)
    <3>1. MapAt(j)' = server'.map /\ j - Len(ToClient) \in 1 .. Len(names)
          /\ ToClient'[j].type = names[j - Len(ToClient)]
      BY <1>1, <1>2, <1>4, <2>1, <2>3
    <3>2. CASE i > Len(ToClient)
      <4>1. MapAt(i)' = server'.map
        BY <1>4, <3>2
      <4>2. Len(names) # 1
        <5>1. j \in Int /\ j <= Len(ToClient) + Len(names) /\ Len(ToClient) + 1 < j
          BY <1>1, <1>2, <1>7, <3>2
        <5>2. Len(names) > 1
          BY <1>1, <1>2, <5>1
        <5> QED BY <1>2, <5>2
      <4>3. server'.map = server.map /\ ToClient'[j].type # "map_change"
        BY <3>1, <4>2
      <4> QED BY <1>1, <3>1, <4>1, <4>3
    <3>3. CASE i <= Len(ToClient)
      <4>1. i \in 0 .. Len(ToClient)
        BY <1>1, <3>3
      <4>2. MapAt(i)' = MapAt(i) /\ MapAt(i) <= server.map /\ MapAt(i) \in Nat
        BY <1>1, <1>3, <1>6, <4>1
      <4>3. i = j - 1 => MapAt(i) = server.map
        BY <1>1, <1>5, <2>3, <3>3
      <4>4. CASE server'.map = server.map /\ \A k \in 1 .. Len(names) : names[k] # "map_change"
        BY <3>1, <4>2, <4>3, <4>4
      <4>5. CASE server'.map = server.map + 1 /\ Len(names) = 1 /\ names[1] = "map_change"
        <5>1. ToClient'[j].type = "map_change"
          BY <3>1, <4>5
        <5> QED BY <1>1, <3>1, <4>2, <4>5, <5>1
      <4> QED BY <4>4, <4>5
    <3> QED BY <1>1, <3>2, <3>3
  <2> QED BY <1>1, <2>1, <2>2, <2>3
<1>8. MapAt(Len(ToClient))' = server'.map
  <2>1. CASE Len(names) = 0
    BY <1>2, <1>3, <1>5, <2>1
  <2>2. CASE Len(names) # 0
    BY <1>1, <1>2, <1>4, <2>2
  <2> QED BY <2>1, <2>2
<1> QED
  <2> HIDE DEF MapAt
  <2> QED BY <1>7, <1>8 DEF MarksC

\* The client sends messages for the map it knows.
LEMMA MarksSent ==
  ASSUME Types, MarksS, Latest' \in Nat, Latest <= Latest',
         NEW names \in Seq(Names), NEW ack,
         Added(ToServer, ToServer', names, Latest', ack)
  PROVE  MarksS'
<1>1. /\ Len(ToServer) \in Nat /\ Latest \in Nat
      /\ \A i \in 1 .. Len(ToServer) : ToServer[i].map \in Nat
  BY HandshakeTypes
<1>2. \A i \in 1 .. Len(ToServer') :
        \/ i \in 1 .. Len(ToServer) /\ ToServer'[i] = ToServer[i]
        \/ i > Len(ToServer) /\ ToServer'[i].map = Latest'
  BY DEF Added
<1>3. \A i \in 1 .. Len(ToServer) : ToServer[i].map <= Latest'
  BY <1>1 DEF MarksS
<1>4. \A i, j \in 1 .. Len(ToServer) : i < j => ToServer[i].map <= ToServer[j].map
  BY DEF MarksS
<1>5. \A i \in 1 .. Len(ToServer') : ToServer'[i].map <= Latest'
  BY <1>2, <1>3
<1>6. ASSUME NEW i \in 1 .. Len(ToServer'), NEW j \in 1 .. Len(ToServer'), i < j
      PROVE  ToServer'[i].map <= ToServer'[j].map
  <2>1. CASE j \in 1 .. Len(ToServer) /\ ToServer'[j] = ToServer[j]
    <3>1. i \in 1 .. Len(ToServer) /\ ToServer'[i] = ToServer[i]
      BY <1>1, <1>2, <1>6, <2>1
    <3> QED BY <1>4, <1>6, <2>1, <3>1
  <2>2. CASE ToServer'[j].map = Latest'
    BY <1>5, <2>2
  <2> QED BY <1>2, <2>1, <2>2
<1> QED BY <1>5, <1>6 DEF MarksS

\* The server takes a message.
LEMMA MarksHeard ==
  ASSUME Types, MarksS, Latest' = Latest, Taken(ToServer, ToServer')
  PROVE  MarksS'
<1>1. /\ Len(ToServer) \in Nat /\ Len(ToServer') = Len(ToServer) - 1
      /\ \A i \in 1 .. Len(ToServer') : ToServer'[i] = ToServer[i + 1]
  BY HandshakeTypes DEF Taken
<1>2. \A i \in 1 .. Len(ToServer') : i + 1 \in 1 .. Len(ToServer)
  BY <1>1
<1>3. \A i, j \in 1 .. Len(ToServer') : i < j => i + 1 < j + 1
  BY <1>1
<1> QED BY <1>1, <1>2, <1>3 DEF MarksS

\* In a client that knows the map of the server, nothing waits for another.
LEMMA UpToDate ==
  ASSUME Types, MarksC, Latest = server.map
  PROVE  Parked = 0 /\ AllBut(ToClient, 0, server.map)
<1>1. /\ Len(ToClient) \in Nat
      /\ \A i \in 0 .. Len(ToClient) : MapAt(i) \in Nat
  BY HandshakeTypes
<1>2. Parked = 0
  BY DEF MarksC, Latest, Parked
<1>3. ASSUME NEW i \in 1 .. Len(ToClient)
      PROVE  ToClient[i].map = server.map
  <2>1. 0 \in 0 .. Len(ToClient) /\ i \in 0 .. Len(ToClient) /\ 0 < i
        /\ Len(ToClient) \in 0 .. Len(ToClient) /\ (i < Len(ToClient) \/ i = Len(ToClient))
    BY <1>1
  <2>2. MapAt(0) = server.map /\ MapAt(Len(ToClient)) = server.map
        /\ MapAt(i) = ToClient[i].map
    BY <2>1 DEF MarksC, MapAt
  <2>3. MapAt(0) <= MapAt(i) /\ MapAt(i) <= MapAt(Len(ToClient))
    BY <1>1, <2>1 DEF MarksC
  <2> QED BY <1>1, <2>1, <2>2, <2>3
<1> QED BY <1>2, <1>3 DEF AllBut

\* What a queue keeps when a message is taken from it or added to it.
LEMMA AllButTaken ==
  ASSUME NEW q \in Seq(Chunks), NEW r, Taken(q, r), NEW map, NEW n \in Nat, AllBut(q, n, map)
  PROVE  /\ AllBut(r, n, map)
         /\ n # 0 => AllBut(r, n - 1, map)
         /\ n = 0 => q[1].map = map
<1>1. /\ Len(q) \in Nat /\ Len(q) >= 1 /\ Len(r) = Len(q) - 1
      /\ \A i \in 1 .. Len(r) : r[i] = q[i + 1]
  BY LenProperties DEF Taken
<1>2. \A i \in 1 .. Len(r) : i + 1 \in 1 .. Len(q) /\ (i > n => i + 1 > n)
                             /\ (i > n - 1 => i + 1 > n)
  BY <1>1
<1>3. 1 \in 1 .. Len(q) /\ (n = 0 => 1 > n)
  BY <1>1
<1> QED BY <1>1, <1>2, <1>3 DEF AllBut

LEMMA AllButAdded ==
  ASSUME NEW q \in Seq(Chunks), NEW r, NEW names, NEW ack, NEW map, NEW n \in Nat,
         AllBut(q, n, map), Added(q, r, names, map, ack)
  PROVE  AllBut(r, n, map)
BY DEF AllBut, Added

\* What the server has of old messages may be no more than it has in all.
LEMMA AllButOld ==
  ASSUME NEW q \in Seq(Chunks), NEW map, NEW n \in Nat, AllBut(q, n, map),
         \A i \in 1 .. Len(q) : q[i].map # map
  PROVE  Len(q) <= n
<1>1. Len(q) \in Nat
  BY LenProperties
<1>2. Len(q) > n => Len(q) \in 1 .. Len(q)
  BY <1>1
<1> QED BY <1>1, <1>2 DEF AllBut

LEMMA Sums ==
  ASSUME NEW a \in 0 .. 2, NEW b \in 0 .. 2, NEW p \in 0 .. 1, NEW g \in 0 .. 2,
         a + b + p + g <= 2
  PROVE  /\ \A h \in 0 .. 2 : a # 0 /\ h <= g + 1 =>
                a - 1 \in 0 .. 2 /\ (a - 1) + b + p + h <= 2
         /\ \A n \in 0 .. 1, r \in 0 .. 1 : b # 0 /\ (n = 0 \/ r <= p) =>
                a + n \in 0 .. 2 /\ b - 1 \in 0 .. 2 /\ (a + n) + (b - 1) + r + g <= 2
         /\ a + b + 0 + g <= 2
OBVIOUS

\* The server takes a message and moves on by at most one.
LEMMA OutdatedHeard ==
  ASSUME Types, Marks, Outdated, UNCHANGED client, server'.map = server.map,
         Progress' \in 0 .. 2, Progress' <= Progress + 1,
         ToServer' \in Seq(Chunks), ToClient' \in Seq(Chunks),
         Taken(ToServer, ToServer'), NEW names, NEW ack,
         Added(ToClient, ToClient', names, server.map, ack)
  PROVE  \E a, b \in 0 .. 2 :
           /\ a + b + Parked' + Progress' <= 2
           /\ AllBut(ToServer', a, server'.map) /\ AllBut(ToClient', b, server'.map)
<1>1. PICK a \in 0 .. 2, b \in 0 .. 2 :
        /\ a + b + Parked + Progress <= 2
        /\ AllBut(ToServer, a, server.map) /\ AllBut(ToClient, b, server.map)
  BY DEF Outdated
<1>2. /\ ToServer \in Seq(Chunks) /\ ToClient \in Seq(Chunks)
      /\ Len(ToServer) \in Nat /\ Len(ToServer) >= 1
  BY HandshakeTypes DEF Taken
<1>3. Parked' = Parked /\ Parked \in 0 .. 1 /\ Progress \in 0 .. 2
  BY DEF Parked, Progress
<1>4. CASE a # 0
  <2>1. AllBut(ToServer', a - 1, server.map)
    BY <1>1, <1>2, <1>4, AllButTaken
  <2>2. AllBut(ToClient', b, server.map)
    BY <1>1, <1>2, AllButAdded
  <2>3. a - 1 \in 0 .. 2 /\ (a - 1) + b + Parked + Progress' <= 2
    BY <1>1, <1>3, <1>4, Sums
  <2> QED BY <1>3, <2>1, <2>2, <2>3
<1>5. CASE a = 0
  <2>1. AllBut(ToServer', 0, server.map) /\ ToServer[1].map = server.map
    BY <1>1, <1>2, <1>5, AllButTaken
  <2>2. Latest = server.map
    <3>1. ToServer[1].map <= Latest /\ Latest <= server.map
      BY <1>2, InOrder
    <3> QED BY <2>1, <3>1, HandshakeTypes
  <2>3. Parked = 0 /\ AllBut(ToClient, 0, server.map)
    BY <2>2, UpToDate DEF Marks
  <2>4. AllBut(ToClient', 0, server.map)
    BY <1>2, <2>3, AllButAdded
  <2>5. 0 + 0 + Parked' + Progress' <= 2
    <3>1. Parked' = 0
      BY <1>3, <2>3
    <3>2. \A h \in 0 .. 2 : 0 + 0 + 0 + h <= 2
      OBVIOUS
    <3> QED BY <3>1, <3>2
  <2> QED BY <2>1, <2>4, <2>5
<1> QED BY <1>4, <1>5

\* The client takes a message and answers, or waits for its map.
LEMMA OutdatedTaken ==
  ASSUME Types, Marks, Outdated, UNCHANGED server,
         ToServer' \in Seq(Chunks), ToClient' \in Seq(Chunks),
         Taken(ToClient, ToClient'), Latest' = ToClient[1].map,
         client'.map = 0 \/ client'.wanted = 0,
         NEW names \in Seq(Names), NEW ack,
         Added(ToServer, ToServer', names, ToClient[1].map, ack),
         Len(names) = 0 \/ (Len(names) = 1 /\ Parked' <= Parked)
  PROVE  Outdated'
<1>1. PICK a \in 0 .. 2, b \in 0 .. 2 :
        /\ a + b + Parked + Progress <= 2
        /\ AllBut(ToServer, a, server.map) /\ AllBut(ToClient, b, server.map)
  BY DEF Outdated
<1>2. /\ ToServer \in Seq(Chunks) /\ ToClient \in Seq(Chunks)
      /\ Len(ToServer) \in Nat /\ Len(ToClient) >= 1 /\ Len(names) \in Nat
  BY HandshakeTypes DEF Taken
<1>3. /\ Parked \in 0 .. 1 /\ Parked' \in 0 .. 1 /\ Progress \in 0 .. 2
      /\ Progress' = Progress
  BY DEF Parked, Progress
<1>4. SUFFICES \E x, y \in 0 .. 2 :
                 /\ x + y + Parked' + Progress <= 2
                 /\ AllBut(ToServer', x, server.map) /\ AllBut(ToClient', y, server.map)
  BY <1>3 DEF Outdated
<1>5. CASE ToClient[1].map = server.map
  <2>1. Parked' = 0
    BY <1>5 DEF Parked, Latest
  <2>2. AllBut(ToServer', a, server.map) /\ AllBut(ToClient', b, server.map)
    BY <1>1, <1>2, <1>5, AllButAdded, AllButTaken
  <2>3. a + b + Parked' + Progress <= 2
    BY <1>1, <1>3, <2>1
  <2> QED BY <2>2, <2>3
<1>6. CASE ToClient[1].map # server.map
  <2>1. b # 0 /\ AllBut(ToClient', b - 1, server.map)
    BY <1>1, <1>2, <1>6, AllButTaken
  <2>2. Len(ToServer) <= a
    <3>1. ASSUME NEW i \in 1 .. Len(ToServer) PROVE ToServer[i].map # server.map
      <4>1. 1 \in 1 .. Len(ToClient)
        BY <1>2, HandshakeTypes
      <4>2. ToServer[i].map <= Latest /\ Latest <= ToClient[1].map
            /\ ToClient[1].map <= server.map
        BY <4>1, InOrder
      <4>3. ToServer[i].map \in Nat /\ Latest \in Nat /\ ToClient[1].map \in Nat
            /\ server.map \in Nat
        BY <4>1, HandshakeTypes
      <4> QED BY <1>6, <4>2, <4>3
    <3> QED BY <1>1, <1>2, <3>1, AllButOld, SMTT(20)
  <2> DEFINE x == a + Len(names)
  <2>3. AllBut(ToServer', x, server.map)
    <3>1. Len(ToServer') = Len(ToServer) + Len(names)
      BY DEF Added
    <3>2. \A i \in 1 .. Len(ToServer') : ~(i > x)
      BY <1>2, <2>2, <3>1
    <3> QED BY <3>2 DEF AllBut
  <2>4. x \in 0 .. 2 /\ b - 1 \in 0 .. 2 /\ x + (b - 1) + Parked' + Progress <= 2
    <3>1. Len(names) \in 0 .. 1 /\ (Len(names) = 0 \/ Parked' <= Parked)
      OBVIOUS
    <3> QED BY <1>1, <1>3, <2>1, <3>1, Sums
  <2> QED BY <2>1, <2>3, <2>4
<1> QED BY <1>5, <1>6

\* The entries of a queue from which a message is taken.
LEMMA EntriesTaken ==
  ASSUME NEW q \in Seq(Chunks), NEW r, Taken(q, r), NEW map,
         NEW b \in BOOLEAN, NEW c \in BOOLEAN, c => b
  PROVE  /\ AtMostOne(Entries(q, map, b)) => AtMostOne(Entries(r, map, c))
         /\ Entries(q, map, b) = {} => Entries(r, map, c) = {}
         /\ 1 \in Entries(q, map, b) /\ AtMostOne(Entries(q, map, b)) =>
              Entries(r, map, c) = {}
<1>1. /\ Len(q) \in Nat /\ Len(q) >= 1 /\ Len(r) = Len(q) - 1
      /\ \A i \in 1 .. Len(r) : r[i] = q[i + 1]
  BY LenProperties DEF Taken
<1>2. EntryTypes(c) \subseteq EntryTypes(b)
  BY DEF EntryTypes
<1>3. \A i \in 1 .. Len(r) : i + 1 \in 1 .. Len(q) /\ i + 1 # 1
  BY <1>1
<1>4. \A i \in Entries(r, map, c) : i \in 1 .. Len(r) /\ i + 1 \in Entries(q, map, b) /\ i + 1 # 1
  BY <1>1, <1>2, <1>3 DEF Entries
<1>5. \A i, j \in 1 .. Len(r) : i + 1 = j + 1 => i = j
  BY <1>1
<1> QED BY <1>4, <1>5 DEF AtMostOne

\* The entries of a queue to which messages are added.
LEMMA EntriesAdded ==
  ASSUME NEW q \in Seq(Chunks), NEW r, NEW names \in Seq(Names), NEW m, NEW ack,
         Added(q, r, names, m, ack), NEW map, NEW b \in BOOLEAN
  PROVE  /\ m # map \/ (\A k \in 1 .. Len(names) : names[k] \notin EntryTypes(b)) =>
              Entries(r, map, b) = Entries(q, map, b)
         /\ Entries(q, map, b) = {} =>
              \A n \in 1 .. Len(names) :
                (\A k \in 1 .. Len(names) : names[k] \in EntryTypes(b) => k = n) =>
                   AtMostOne(Entries(r, map, b))
<1>1. /\ \A i \in 1 .. Len(q) : i \in 1 .. Len(r) /\ r[i] = q[i]
      /\ \A i \in 1 .. Len(r) :
           \/ i \in 1 .. Len(q) /\ r[i] = q[i]
           \/ /\ i > Len(q) /\ i - Len(q) \in 1 .. Len(names)
              /\ r[i].map = m /\ r[i].type = names[i - Len(q)]
  BY DEF Added
<1>2. \A i \in Entries(q, map, b) : i \in Entries(r, map, b)
  BY <1>1 DEF Entries
<1>3. \A i \in Entries(r, map, b) :
        \/ i \in Entries(q, map, b)
        \/ /\ m = map /\ i \in 1 .. Len(r)
           /\ i - Len(q) \in 1 .. Len(names) /\ names[i - Len(q)] \in EntryTypes(b)
  BY <1>1 DEF Entries
<1>4. Len(q) \in Nat /\ \A i, j \in 1 .. Len(r) : i - Len(q) = j - Len(q) => i = j
  BY LenProperties
<1>5. ASSUME Entries(q, map, b) = {}, NEW n \in 1 .. Len(names),
             \A k \in 1 .. Len(names) : names[k] \in EntryTypes(b) => k = n
      PROVE  AtMostOne(Entries(r, map, b))
  <2>1. \A i \in Entries(r, map, b) : i \in 1 .. Len(r) /\ i - Len(q) = n
    BY <1>3, <1>5
  <2> QED BY <1>4, <2>1 DEF AtMostOne
<1> QED BY <1>2, <1>3, <1>5

\* The answers that are sent.
LEMMA Replies ==
  /\ <<>> \in Seq(Names) /\ Len(<<>>) = 0
  /\ \A a \in Names : <<a>> \in Seq(Names) /\ Len(<<a>>) = 1 /\ <<a>>[1] = a
  /\ \A a, b \in Names : /\ <<a, b>> \in Seq(Names) /\ Len(<<a, b>>) = 2
                         /\ <<a, b>>[1] = a /\ <<a, b>>[2] = b
OBVIOUS

LEMMA ServerAnswers ==
  ASSUME Types, NEW type, NEW names \in Seq(Names), Answer("server", type, names)
  PROVE  /\ ToServer' \in Seq(Chunks) /\ ToClient' \in Seq(Chunks)
         /\ 1 \in 1 .. Len(ToServer) /\ ToServer[1].type = type
         /\ Taken(ToServer, ToServer')
         /\ Added(ToClient, ToClient', names, server.map, got["server"] + 1)
         /\ got'["server"] = got["server"] + 1 /\ got'["client"] = got["client"]
         /\ peerAck'["server"] >= ToServer[1].ack /\ peerAck'["server"] >= peerAck["server"]
         /\ peerAck'["client"] = peerAck["client"]
<1>1. /\ QueueTypes' /\ vital["server"][1].type = type
      /\ Taken(vital["server"], vital'["server"])
      /\ Added(vital["client"], vital'["client"], names, server.map, got["server"] + 1)
      /\ got'["server"] = got["server"] + 1 /\ got'["client"] = got["client"]
      /\ peerAck'["server"] >= vital["server"][1].ack
      /\ peerAck'["server"] >= peerAck["server"] /\ peerAck'["client"] = peerAck["client"]
  BY PeerNames, Answering
<1>2. vital' \in [Peers -> Seq(Chunks)]
  BY <1>1 DEF QueueTypes
<1>3. Len(vital["server"]) \in Nat /\ Len(vital["server"]) >= 1
  BY <1>1, HandshakeTypes DEF Taken, ToServer
<1> QED BY <1>1, <1>2, <1>3, PeerNames DEF ToServer, ToClient

LEMMA ClientAnswers ==
  ASSUME Types, NEW type, NEW names \in Seq(Names), Answer("client", type, names)
  PROVE  /\ ToServer' \in Seq(Chunks) /\ ToClient' \in Seq(Chunks)
         /\ 1 \in 1 .. Len(ToClient) /\ ToClient[1].type = type
         /\ ToClient[1] = Head(ToClient)
         /\ Taken(ToClient, ToClient')
         /\ Added(ToServer, ToServer', names, ToClient[1].map, got["client"] + 1)
         /\ got'["client"] = got["client"] + 1 /\ got'["server"] = got["server"]
         /\ peerAck'["client"] >= ToClient[1].ack /\ peerAck'["client"] >= peerAck["client"]
         /\ peerAck'["server"] = peerAck["server"]
<1>1. /\ QueueTypes' /\ vital["client"][1].type = type
      /\ Head(vital["client"]) = vital["client"][1]
      /\ Taken(vital["client"], vital'["client"])
      /\ Added(vital["server"], vital'["server"], names, vital["client"][1].map, got["client"] + 1)
      /\ got'["client"] = got["client"] + 1 /\ got'["server"] = got["server"]
      /\ peerAck'["client"] >= vital["client"][1].ack
      /\ peerAck'["client"] >= peerAck["client"] /\ peerAck'["server"] = peerAck["server"]
  BY PeerNames, Answering
<1>2. vital' \in [Peers -> Seq(Chunks)]
  BY <1>1 DEF QueueTypes
<1>3. Len(vital["client"]) \in Nat /\ Len(vital["client"]) >= 1
  BY <1>1, HandshakeTypes DEF Taken, ToClient
<1> QED BY <1>1, <1>2, <1>3, PeerNames DEF ToServer, ToClient

\* A message to the server is taken: the order is kept.
LEMMA Heard ==
  ASSUME Types, Marks, Outdated, NEW type, NEW names \in Seq(Names),
         Answer("server", type, names), UNCHANGED client, server'.map = server.map,
         \A k \in 1 .. Len(names) : names[k] # "map_change",
         server'.state \in {"connecting", "ready", "ingame"}, Progress' <= Progress + 1,
         server'.state = "connecting" => ~server'.ready,
         server'.state = "ingame" => server'.ready,
         server'.rejoining => server'.state = "ingame"
  PROVE  Marks' /\ Outdated'
<1>1. /\ ToServer' \in Seq(Chunks) /\ ToClient' \in Seq(Chunks)
      /\ Taken(ToServer, ToServer')
      /\ Added(ToClient, ToClient', names, server.map, got["server"] + 1)
  BY ServerAnswers
<1>2. Latest' = Latest /\ (client'.map = 0 \/ client'.wanted = 0)
  BY DEF Latest, Marks, MarksC
<1>3. MarksC'
  BY <1>1, <1>2, MarksAdded DEF Marks
<1>4. MarksS'
  BY <1>1, <1>2, MarksHeard DEF Marks
<1>5. Progress' \in 0 .. 2
  BY DEF Progress
<1>6. \E a, b \in 0 .. 2 :
        /\ a + b + Parked' + Progress' <= 2
        /\ AllBut(ToServer', a, server'.map) /\ AllBut(ToClient', b, server'.map)
  BY <1>1, <1>5, OutdatedHeard
<1> QED BY <1>3, <1>4, <1>6 DEF Marks, Outdated

\* A message to the client is taken: the order is kept.
LEMMA TakenIn ==
  ASSUME Types, Marks, Outdated, NEW type, NEW names \in Seq(Names),
         Answer("client", type, names), UNCHANGED server,
         Latest' = IF type = "map_change" THEN ToClient[1].map ELSE Latest,
         client'.map = 0 \/ client'.wanted = 0,
         Len(names) = 0 \/ (Len(names) = 1 /\ Parked' <= Parked)
  PROVE  Marks' /\ Outdated' /\ Latest' = ToClient[1].map /\ Latest <= Latest'
<1>1. /\ ToServer' \in Seq(Chunks) /\ ToClient' \in Seq(Chunks)
      /\ ToClient[1].type = type /\ Taken(ToClient, ToClient')
      /\ Added(ToServer, ToServer', names, ToClient[1].map, got["client"] + 1)
      /\ 1 \in 1 .. Len(ToClient)
  BY ClientAnswers
<1>2. MarksC' /\ Latest' = ToClient[1].map /\ Latest <= Latest'
  BY <1>1, MarksTaken DEF Marks
<1>3. ToClient[1].map \in Nat
  BY <1>1, HandshakeTypes
<1>4. MarksS'
  BY <1>1, <1>2, <1>3, MarksSent DEF Marks
<1>5. Outdated'
  BY <1>1, <1>2, OutdatedTaken
<1> QED BY <1>2, <1>4, <1>5 DEF Marks

\* Once a client is ready, no message of an old handshake is left.
LEMMA NothingOld ==
  ASSUME Types, Outdated, server.state # "connecting", server.ready
  PROVE  /\ Parked = 0
         /\ \A i \in 1 .. Len(ToServer) : ToServer[i].map = server.map
         /\ \A i \in 1 .. Len(ToClient) : ToClient[i].map = server.map
<1>1. PICK a \in 0 .. 2, b \in 0 .. 2 :
        /\ a + b + Parked + Progress <= 2
        /\ AllBut(ToServer, a, server.map) /\ AllBut(ToClient, b, server.map)
  BY DEF Outdated
<1>2. Parked \in 0 .. 1 /\ Progress = 2
  BY DEF Parked, Progress
<1>3. a = 0 /\ b = 0 /\ Parked = 0
  <2>1. a + b + Parked + 2 <= 2
    BY <1>1, <1>2
  <2> QED BY <1>2, <2>1
<1>4. \A i \in 1 .. Len(ToServer) : i > 0
  BY HandshakeTypes
<1>5. \A i \in 1 .. Len(ToClient) : i > 0
  BY HandshakeTypes
<1> QED BY <1>1, <1>3, <1>4, <1>5 DEF AllBut

\* While the client is in no message lets it in.
LEMMA NoEntry ==
  ASSUME Types, Handshake, Playing
  PROVE  /\ EntriesC = {} /\ EntriesS = {}
         /\ \A i \in 1 .. Len(ToClient) : ToClient[i].type # "ready_to_enter"
         /\ \A i \in 1 .. Len(ToServer) : ToServer[i].type # "enter_game"
<1>1. EntriesC = {} /\ EntriesS = {}
  BY DEF Handshake, Entering, Playing
<1>2. server.state # "connecting" /\ server.ready
  BY DEF Handshake, Outdated, Playing
<1>3. /\ \A i \in 1 .. Len(ToServer) : ToServer[i].map = server.map
      /\ \A i \in 1 .. Len(ToClient) : ToClient[i].map = server.map
  BY <1>2, NothingOld DEF Handshake
<1> QED BY <1>1, <1>3 DEF EntriesC, EntriesS, Entries, EntryTypes

LEMMA HandshakeReady ==
  ASSUME Types, Handshake, OnReady
  PROVE  Handshake'
<1>1. PICK names \in {<<"con_ready">>, <<"con_ready", "ready_to_enter">>} :
        /\ Answer("server", "ready", names)
        /\ ~server.rejoining => names = <<"con_ready">>
  BY DEF OnReady
<1>2. /\ names \in Seq(Names) /\ \A k \in 1 .. Len(names) : names[k] # "map_change"
      /\ Len(names) \in 1 .. 2 /\ names[1] = "con_ready"
      /\ \A k \in 1 .. Len(names) : names[k] = "ready_to_enter" => k = Len(names)
      /\ \A k \in 1 .. Len(names) : names[k] \in {"con_ready", "ready_to_enter"}
  <2>1. "con_ready" \in Names /\ "ready_to_enter" \in Names
    BY DEF Names
  <2>2. CASE names = <<"con_ready">>
    <3>1. names \in Seq(Names) /\ Len(names) = 1 /\ names[1] = "con_ready"
      BY <2>1, <2>2, Replies
    <3> QED BY <3>1
  <2>3. CASE names = <<"con_ready", "ready_to_enter">>
    <3>1. /\ names \in Seq(Names) /\ Len(names) = 2
          /\ names[1] = "con_ready" /\ names[2] = "ready_to_enter"
      BY <2>1, <2>3, Replies
    <3> QED BY <3>1
  <2> QED BY <1>1, <2>2, <2>3
<1>3. /\ UNCHANGED <<client, net, changes, made>>
      /\ server' = IF server.state = "connecting"
                   THEN [server EXCEPT !.state = "ready", !.ready = FALSE] ELSE server
  BY DEF OnReady
<1>4. /\ server'.map = server.map /\ server'.rejoining = server.rejoining
      /\ server.state = "connecting" => server'.state = "ready" /\ server'.ready = FALSE
      /\ server.state # "connecting" => server' = server
      /\ server.state \in {"connecting", "ready", "ingame"} /\ server.rejoining \in BOOLEAN
  BY <1>3, HandshakeTypes DEF Types, ServerTypes
<1>5. Marks' /\ Outdated'
  <2>1. Progress' <= Progress + 1
    BY <1>4 DEF Progress
  <2>2. /\ server'.state \in {"connecting", "ready", "ingame"}
        /\ server'.state = "connecting" => ~server'.ready
        /\ server'.state = "ingame" => server'.ready
        /\ server'.rejoining => server'.state = "ingame"
    BY <1>4 DEF Handshake, Outdated
  <2> QED BY <1>1, <1>2, <1>3, <1>4, <2>1, <2>2, Heard DEF Handshake
<1>6. /\ Taken(ToServer, ToServer') /\ ToServer[1].type = "ready" /\ 1 \in 1 .. Len(ToServer)
      /\ Added(ToClient, ToClient', names, server.map, got["server"] + 1)
      /\ ToServer \in Seq(Chunks) /\ ToClient \in Seq(Chunks)
  BY <1>1, <1>2, ServerAnswers, HandshakeTypes
<1>7. CASE server.rejoining
  <2>1. server.state # "connecting" /\ server.ready
    BY <1>7 DEF Handshake, Outdated
  <2>2. 1 \in EntriesS
    BY <1>6, <1>7, <2>1, NothingOld DEF Handshake, EntriesS, Entries, EntryTypes
  <2>3. EntriesC = {}
    BY <2>2 DEF Handshake, Entering
  <2>4. EntriesS' = {}
    BY <1>4, <1>6, <2>2, EntriesTaken DEF Handshake, Entering, EntriesS
  <2>5. AtMostOne(EntriesC')
    <3>1. Len(names) \in 1 .. Len(names)
          /\ \A k \in 1 .. Len(names) :
               names[k] \in EntryTypes(server.rejoining) => k = Len(names)
      BY <1>2 DEF EntryTypes
    <3> QED BY <1>2, <1>4, <1>6, <2>3, <3>1, EntriesAdded, SMTT(20) DEF EntriesC
  <2>6. ~(server.rejoining /\ client.wanted # 0)
    BY <2>2 DEF Handshake, Entering
  <2> QED BY <1>3, <1>4, <1>5, <1>7, <2>1, <2>4, <2>5, <2>6 DEF Handshake, Entering, AtMostOne
<1>8. CASE ~server.rejoining
  <2>1. EntriesC' = EntriesC
    <3>1. \A k \in 1 .. Len(names) : names[k] \notin EntryTypes(server.rejoining)
      BY <1>1, <1>8, Replies DEF EntryTypes, Names
    <3> QED BY <1>2, <1>4, <1>6, <3>1, EntriesAdded DEF EntriesC
  <2>2. /\ AtMostOne(EntriesS) => AtMostOne(EntriesS')
        /\ EntriesS = {} => EntriesS' = {}
    BY <1>4, <1>6, EntriesTaken, SMTT(20) DEF EntriesS
  <2>3. server.state = "connecting" => EntriesC = {} /\ EntriesS = {}
    BY DEF Handshake, Outdated, Entering
  <2> QED BY <1>3, <1>4, <1>5, <1>8, <2>1, <2>2, <2>3 DEF Handshake, Entering
<1> QED BY <1>7, <1>8

LEMMA HandshakeStartInfo ==
  ASSUME Types, Handshake, OnStartInfo
  PROVE  Handshake'
<1> DEFINE first == server.state \in {"ready", "ingame"} /\ ~server.ready
           names == IF first THEN <<"ready_to_enter">> ELSE <<>>
<1>1. /\ Answer("server", "start_info", names)
      /\ server' = [server EXCEPT !.ready = @ \/ first]
      /\ UNCHANGED <<client, net, changes, made>>
  BY DEF OnStartInfo
<1>2. /\ server'.map = server.map /\ server'.rejoining = server.rejoining
      /\ server'.state = server.state /\ server'.ready = (server.ready \/ first)
      /\ server.state \in {"connecting", "ready", "ingame"} /\ server.rejoining \in BOOLEAN
      /\ server.ready \in BOOLEAN
  BY <1>1, HandshakeTypes DEF Types, ServerTypes
<1>3. first => server.state = "ready" /\ ~server.rejoining /\ server'.ready
  BY <1>2 DEF Handshake, Outdated
<1>4. /\ names \in Seq(Names)
      /\ \A k \in 1 .. Len(names) : names[k] = "ready_to_enter" /\ k = 1
      /\ first => Len(names) = 1
      /\ ~first => Len(names) = 0
  <2>1. "ready_to_enter" \in Names
    BY DEF Names
  <2>2. CASE first
    <3>1. names \in Seq(Names) /\ Len(names) = 1 /\ names[1] = "ready_to_enter"
      BY <2>1, <2>2, Replies
    <3> QED BY <2>2, <3>1
  <2>3. CASE ~first
    <3>1. names \in Seq(Names) /\ Len(names) = 0
      BY <2>3, Replies
    <3> QED BY <2>3, <3>1
  <2> QED BY <2>2, <2>3
<1> HIDE DEF names
<1>5. Marks' /\ Outdated'
  <2>1. Progress' <= Progress + 1
    BY <1>2, <1>3 DEF Progress
  <2>2. /\ server'.state = "connecting" => ~server'.ready
        /\ server'.state = "ingame" => server'.ready
        /\ server'.rejoining => server'.state = "ingame"
    BY <1>2, <1>3 DEF Handshake, Outdated
  <2> HIDE DEF first
  <2> QED BY <1>1, <1>2, <1>4, <2>1, <2>2, Heard DEF Handshake
<1>6. /\ Taken(ToServer, ToServer')
      /\ Added(ToClient, ToClient', names, server.map, got["server"] + 1)
      /\ ToServer \in Seq(Chunks) /\ ToClient \in Seq(Chunks)
  BY <1>1, <1>4, ServerAnswers, HandshakeTypes
<1>7. /\ AtMostOne(EntriesS) => AtMostOne(EntriesS')
      /\ EntriesS = {} => EntriesS' = {}
  BY <1>2, <1>6, EntriesTaken DEF EntriesS
<1>8. CASE first
  <2>1. EntriesC = {} /\ EntriesS = {}
    BY <1>8 DEF Handshake, Entering
  <2>2. AtMostOne(EntriesC')
    <3>1. 1 \in 1 .. Len(names)
      BY <1>4, <1>8
    <3> QED BY <1>2, <1>4, <1>6, <2>1, <3>1, EntriesAdded DEF EntriesC
  <2>3. EntriesS' = {}
    BY <1>7, <2>1
  <2>4. AtMostOne(EntriesS')
    BY <2>3 DEF AtMostOne
  <2> QED BY <1>1, <1>2, <1>3, <1>5, <1>8, <2>2, <2>3, <2>4 DEF Handshake, Entering
<1>9. CASE ~first
  <2>1. \A k \in 1 .. Len(names) : names[k] \notin EntryTypes(server.rejoining)
    BY <1>4, <1>9
  <2>2. EntriesC' = EntriesC
    BY <1>2, <1>4, <1>6, <2>1, EntriesAdded DEF EntriesC
  <2> HIDE DEF first
  <2> QED BY <1>1, <1>2, <1>5, <1>7, <1>9, <2>2 DEF Handshake, Entering
<1> QED BY <1>8, <1>9

LEMMA HandshakeEnterGame ==
  ASSUME Types, Handshake, OnEnterGame
  PROVE  Handshake'
<1>1. PICK names \in Seq(Names) :
        /\ Answer("server", "enter_game", names) /\ Len(names) = 0
        /\ UNCHANGED <<client, net, changes, made>>
  BY Replies DEF OnEnterGame
<1> DEFINE enters == server.rejoining \/ (server.state = "ready" /\ server.ready)
<1>2. /\ server'.map = server.map /\ server'.ready = server.ready
      /\ enters => server'.state = "ingame" /\ server'.rejoining = FALSE
      /\ ~enters => server' = server
      /\ server.state \in {"connecting", "ready", "ingame"}
      /\ server.rejoining \in BOOLEAN /\ server'.rejoining \in BOOLEAN
      /\ server'.rejoining => server.rejoining
      /\ enters => server.ready /\ server.state # "connecting"
  BY HandshakeTypes DEF OnEnterGame, Types, ServerTypes, Handshake, Outdated
<1>3. Marks' /\ Outdated'
  <2>1. Progress' <= Progress + 1
    BY <1>2 DEF Progress
  <2>2. /\ server'.state \in {"connecting", "ready", "ingame"}
        /\ server'.state = "connecting" => ~server'.ready
        /\ server'.state = "ingame" => server'.ready
        /\ server'.rejoining => server'.state = "ingame"
    BY <1>2 DEF Handshake, Outdated
  <2>3. \A k \in 1 .. Len(names) : names[k] # "map_change"
    BY <1>1
  <2> QED BY <1>1, <1>2, <2>1, <2>2, <2>3, Heard DEF Handshake
<1>4. /\ Taken(ToServer, ToServer') /\ ToServer[1].type = "enter_game" /\ 1 \in 1 .. Len(ToServer)
      /\ Added(ToClient, ToClient', names, server.map, got["server"] + 1)
      /\ ToServer \in Seq(Chunks) /\ ToClient \in Seq(Chunks)
  BY <1>1, ServerAnswers, HandshakeTypes
<1>5. /\ AtMostOne(EntriesS) => AtMostOne(EntriesS')
      /\ EntriesS = {} => EntriesS' = {}
      /\ 1 \in EntriesS /\ AtMostOne(EntriesS) => EntriesS' = {}
  <2>1. ASSUME NEW b \in BOOLEAN, NEW c \in BOOLEAN, c => b
        PROVE  /\ AtMostOne(Entries(ToServer, server.map, b)) =>
                    AtMostOne(Entries(ToServer', server.map, c))
               /\ Entries(ToServer, server.map, b) = {} => Entries(ToServer', server.map, c) = {}
               /\ (   AtMostOne(Entries(ToServer, server.map, b))
                   /\ 1 \in Entries(ToServer, server.map, b)) =>
                    Entries(ToServer', server.map, c) = {}
    BY <1>4, <2>1, EntriesTaken
  <2> QED BY <1>2, <2>1 DEF EntriesS
<1>6. EntriesC' \subseteq EntriesC
  <2>1. \A k \in 1 .. Len(names) : names[k] \notin EntryTypes(server'.rejoining)
    BY <1>1
  <2>2. Entries(ToClient', server.map, server'.rejoining)
          = Entries(ToClient, server.map, server'.rejoining)
    <3>1. ASSUME NEW b \in BOOLEAN, \A k \in 1 .. Len(names) : names[k] \notin EntryTypes(b)
          PROVE  Entries(ToClient', server.map, b) = Entries(ToClient, server.map, b)
      BY <1>4, <3>1, EntriesAdded
    <3> QED BY <1>2, <2>1, <3>1
  <2>3. EntriesC' = Entries(ToClient, server.map, server'.rejoining)
    BY <1>2, <2>2 DEF EntriesC
  <2> QED BY <1>2, <2>3 DEF EntriesC, Entries, EntryTypes
<1>7. AtMostOne(EntriesC')
  BY <1>6 DEF Handshake, Entering, AtMostOne
<1>8. CASE enters
  <2>1. 1 \in EntriesS
    BY <1>2, <1>4, <1>8, NothingOld DEF Handshake, EntriesS, Entries, EntryTypes
  <2>2. EntriesC' = {} /\ EntriesS' = {}
    BY <1>5, <1>6, <2>1 DEF Handshake, Entering
  <2>3. AtMostOne(EntriesS')
    BY <2>2 DEF AtMostOne
  <2> QED BY <1>1, <1>3, <1>7, <2>2, <2>3 DEF Handshake, Entering
<1>9. CASE ~enters
  <2> HIDE DEF enters
  <2> QED BY <1>1, <1>2, <1>3, <1>5, <1>6, <1>7, <1>9 DEF Handshake, Entering
<1> QED BY <1>8, <1>9

\* What the queues and the maps are, on which the handshake alone depends.
HandshakeOnly ==
  <<vital, server.map, server.state, server.ready, server.rejoining,
    client.map, client.wanted>>

LEMMA HandshakeStill ==
  ASSUME Handshake, UNCHANGED HandshakeOnly
  PROVE  Handshake' /\ Latest' = Latest
<1>1. /\ ToClient' = ToClient /\ ToServer' = ToServer /\ Latest' = Latest
      /\ server'.map = server.map /\ server'.rejoining = server.rejoining
      /\ client'.map = client.map /\ client'.wanted = client.wanted
      /\ server'.state = server.state /\ server'.ready = server.ready
  BY DEF HandshakeOnly, ToClient, ToServer, Latest
<1>2. Marks'
  <2>1. \A i : MapAt(i)' = MapAt(i)
    BY <1>1 DEF MapAt
  <2> HIDE DEF MapAt
  <2>2. MarksC' /\ MarksS'
    BY <1>1, <2>1 DEF Handshake, Marks, MarksC, MarksS
  <2> QED BY <2>2 DEF Marks
<1>3. Outdated'
  BY <1>1 DEF Handshake, Outdated, AllBut, Parked, Progress
<1>4. Entering'
  BY <1>1 DEF Handshake, Entering, EntriesC, EntriesS
<1> QED BY <1>1, <1>2, <1>3, <1>4 DEF Handshake

LEMMA HandshakeChange ==
  ASSUME Types, Handshake, ChangeMap
  PROVE  Handshake'
<1>1. /\ HandshakesEnd /\ UNCHANGED <<client, got, peerAck, net>>
      /\ SendVital("server", "map_change", server.map + 1)
      /\ changes < MaxChanges
  BY DEF ChangeMap, Change
<1>2. /\ server'.map = server.map + 1 /\ server'.state = "connecting"
      /\ server'.ready = FALSE /\ server'.rejoining = FALSE
  BY DEF ChangeMap, Reset, Types, ServerTypes
<1>3. PICK names \in Seq(Names) :
        /\ Len(names) = 1 /\ names[1] = "map_change"
        /\ Added(ToClient, ToClient', names, server.map + 1, got["server"])
        /\ ToServer' = ToServer /\ ToClient' \in Seq(Chunks)
  <2>1. "map_change" \in Names
    BY DEF Names
  <2>2. server.map + 1 \in 1 .. MaxChanges + 1
    BY <1>1, Numbers DEF Types, ServerTypes
  <2>3. /\ vital' \in [Peers -> Seq(Chunks)] /\ vital'["server"] = vital["server"]
        /\ Added(vital["client"], vital'["client"], <<"map_change">>, server.map + 1, got["server"])
    BY <1>1, <2>1, <2>2, PeerNames, Sending
  <2>4. vital'["client"] \in Seq(Chunks)
    BY <2>3, PeerNames
  <2>5. /\ <<"map_change">> \in Seq(Names)
        /\ Len(<<"map_change">>) = 1 /\ <<"map_change">>[1] = "map_change"
    BY <2>1, Replies
  <2> QED BY <2>3, <2>4, <2>5 DEF ToClient, ToServer
<1>4. Latest' = Latest /\ (client'.map = 0 \/ client'.wanted = 0)
  BY <1>1 DEF Latest, Handshake, Marks, MarksC
<1>5. MarksC'
  BY <1>2, <1>3, <1>4, MarksAdded DEF Handshake, Marks
<1>6. MarksS'
  BY <1>3, <1>4 DEF Handshake, Marks, MarksS
<1>7. /\ ToClient \in Seq(Chunks) /\ Len(ToClient) \in Nat /\ Len(ToServer) \in Nat
      /\ client.wanted \in Nat /\ server.map \in Nat
  BY HandshakeTypes
<1>8. Outdated'
  <2> DEFINE a == Len(ToServer)
             b == Len(ToClient)
  <2> DEFINE p == IF client.wanted = 0 THEN 0 ELSE 1
  <2>1. (Parked' = p \/ Parked' = 0) /\ p \in 0 .. 1
    BY <1>1 DEF Parked
  <2>2. Progress' = 0
    BY <1>2 DEF Progress
  <2>3. a \in 0 .. 2 /\ b \in 0 .. 2 /\ a + b + Parked' + Progress' <= 2
    <3>1. b + a + p <= 2
      BY <1>1 DEF HandshakesEnd, ToClient, ToServer
    <3>2. a \in Nat /\ b \in Nat
      BY <1>7
    <3> HIDE DEF a, b, p
    <3>3. a \in 0 .. 2 /\ b \in 0 .. 2 /\ a + b + p <= 2 /\ a + b + 0 <= 2
      BY <2>1, <3>1, <3>2
    <3>4. a + b + Parked' <= 2 /\ Parked' \in Nat
      BY <2>1, <3>3
    <3>5. \A v \in Nat : a + b + v <= 2 => a + b + v + 0 <= 2
      BY <3>2
    <3>6. a + b + Parked' + 0 <= 2
      BY <3>4, <3>5
    <3> QED BY <2>2, <3>3, <3>6
  <2>4. AllBut(ToServer', a, server'.map)
    BY <1>3, <1>7 DEF AllBut
  <2>5. AllBut(ToClient', b, server'.map)
    <3>1. AllBut(ToClient, b, server'.map)
      BY <1>7 DEF AllBut
    <3> QED BY <1>2, <1>3, <1>7, <3>1, AllButAdded
  <2> HIDE DEF a, b
  <2> QED BY <1>2, <2>3, <2>4, <2>5 DEF Outdated
<1>9. EntriesS' = {}
  <2>1. \A i \in 1 .. Len(ToServer) : ToServer[i].map # server.map + 1
    <3>1. \A i \in 1 .. Len(ToServer) :
            ToServer[i].map <= Latest /\ Latest <= server.map /\ ToServer[i].map \in Nat
      BY InOrder, HandshakeTypes DEF Handshake
    <3>2. Latest \in Nat
      BY HandshakeTypes
    <3> QED BY <1>7, <3>1, <3>2
  <2> QED BY <1>2, <1>3, <2>1 DEF EntriesS, Entries
<1>10. EntriesC' = {}
  <2>1. \A i \in 1 .. Len(ToClient) : ToClient[i].map # server.map + 1
    <3>1. \A i \in 1 .. Len(ToClient) :
            ToClient[i].map <= server.map /\ ToClient[i].map \in Nat
      BY InOrder, HandshakeTypes DEF Handshake
    <3> QED BY <1>7, <3>1
  <2>2. ASSUME NEW b \in BOOLEAN, ~b, NEW map, map = server.map + 1
        PROVE  Entries(ToClient', map, b) = {}
    <3>1. Entries(ToClient, map, b) = {}
      BY <2>1, <2>2 DEF Entries
    <3>2. \A k \in 1 .. Len(names) : names[k] \notin EntryTypes(b)
      BY <1>3, <2>2 DEF EntryTypes
    <3>3. Added(ToClient, ToClient', names, map, got["server"])
      BY <1>3, <2>2
    <3>4. Entries(ToClient', map, b) = Entries(ToClient, map, b)
      BY <1>7, <3>2, <3>3, EntriesAdded
    <3> QED BY <3>1, <3>4
  <2> QED BY <1>2, <2>2 DEF EntriesC
<1> QED BY <1>2, <1>5, <1>6, <1>8, <1>9, <1>10 DEF Handshake, Marks, Entering, AtMostOne

LEMMA HandshakeRejoin ==
  ASSUME Types, Handshake, Rejoin
  PROVE  Handshake'
<1>1. /\ server'.map = server.map /\ server'.state = "ingame" /\ server'.ready
      /\ server'.rejoining = TRUE
  BY DEF Rejoin, Reset, Types, ServerTypes, Handshake, Outdated
<1>2. client'.map = 0 /\ client'.wanted = 0
  BY DEF Rejoin, NewClient
<1>3. /\ ToServer' = <<>> /\ ToClient' = <<Chunk("map_change", server.map, 0)>>
  BY DEF Rejoin, ToServer, ToClient
<1>4. /\ Len(ToServer') = 0 /\ Len(ToClient') = 1
      /\ ToClient'[1].map = server.map /\ ToClient'[1].type = "map_change"
  BY <1>3 DEF Chunk
<1>5. server.map \in Nat \ {0}
  BY HandshakeTypes
<1>6. Latest' = 0 /\ MapAt(0)' = 0 /\ MapAt(1)' = server.map
  BY <1>2, <1>4 DEF Latest, MapAt
<1>7. Marks'
  <2>1. \A i, j \in 0 .. Len(ToClient') : i < j => i = 0 /\ j = 1
    BY <1>4
  <2>2. \A i, j \in 0 .. Len(ToClient') : i < j =>
       /\ MapAt(i)' <= MapAt(j)'
       /\ ToClient'[j].type = "map_change" => MapAt(i)' < MapAt(j)'
       /\ ToClient'[j].type # "map_change" /\ i = j - 1 => MapAt(i)' = MapAt(j)'
    <3>1. MapAt(0)' < MapAt(1)' /\ MapAt(0)' <= MapAt(1)'
      BY <1>5, <1>6
    <3> QED BY <1>4, <2>1, <3>1
  <2>3. MapAt(Len(ToClient))' = server'.map
    BY <1>1, <1>4, <1>6
  <2> HIDE DEF MapAt
  <2>4. MarksC'
    BY <1>2, <2>2, <2>3 DEF MarksC
  <2>5. MarksS'
    BY <1>4 DEF MarksS
  <2> QED BY <2>4, <2>5 DEF Marks
<1>8. Outdated'
  <2>1. Parked' = 0 /\ Progress' = 2
    BY <1>1, <1>2 DEF Parked, Progress
  <2>2. AllBut(ToServer', 0, server'.map) /\ AllBut(ToClient', 0, server'.map)
    BY <1>1, <1>4 DEF AllBut
  <2>3. 0 \in 0 .. 2 /\ 0 + 0 + Parked' + Progress' <= 2
    BY <2>1
  <2> QED BY <1>1, <2>2, <2>3 DEF Outdated
<1>9. EntriesS' = {} /\ AtMostOne(EntriesC')
  BY <1>4 DEF EntriesS, EntriesC, Entries, AtMostOne
<1> QED BY <1>1, <1>2, <1>7, <1>8, <1>9 DEF Handshake, Entering, AtMostOne

\* The entries after the client has taken a message: the answer is an entry only
\* if the message was one.
LEMMA EntriesMove ==
  ASSUME Types, Handshake, Outdated', NEW names \in Seq(Names), NEW ack,
         UNCHANGED server, Taken(ToClient, ToClient'),
         Added(ToServer, ToServer', names, ToClient[1].map, ack),
         Len(names) = 0 \/ Len(names) = 1,
         \A k \in 1 .. Len(names) :
            ToClient[1].map = server.map /\ names[k] \in EntryTypes(server.rejoining) =>
              ToClient[1].type \in EntryTypes(server.rejoining),
         server.rejoining /\ client'.wanted # 0 =>
           /\ Len(names) = 0 \/ names[1] \notin EntryTypes(server.rejoining)
           /\ client.wanted # 0 \/ ToClient[1].type \in EntryTypes(server.rejoining)
  PROVE  Entering'
<1>1. /\ ToClient \in Seq(Chunks) /\ ToServer \in Seq(Chunks)
      /\ server.rejoining \in BOOLEAN /\ 1 \in 1 .. Len(ToClient)
  BY HandshakeTypes DEF Taken
<1>2. /\ AtMostOne(EntriesC) /\ AtMostOne(EntriesS)
      /\ EntriesC = {} \/ EntriesS = {}
      /\ server.rejoining /\ client.wanted # 0 => EntriesC = {} /\ EntriesS = {}
      /\ EntriesC # {} \/ EntriesS # {} =>
           server.ready /\ (server.state = "ingame" => server.rejoining)
  BY DEF Handshake, Entering
<1>3. /\ AtMostOne(EntriesC')
      /\ EntriesC = {} => EntriesC' = {}
      /\ 1 \in EntriesC => EntriesC' = {}
  <2>1. /\ AtMostOne(EntriesC) => AtMostOne(EntriesC')
        /\ EntriesC = {} => EntriesC' = {}
        /\ 1 \in EntriesC /\ AtMostOne(EntriesC) => EntriesC' = {}
    BY <1>1, EntriesTaken DEF EntriesC
  <2> QED BY <1>2, <2>1
<1>4. 1 \in EntriesC <=>
        ToClient[1].map = server.map /\ ToClient[1].type \in EntryTypes(server.rejoining)
  BY <1>1 DEF EntriesC, Entries
<1>5. CASE 1 \in EntriesC
  <2>1. EntriesS = {} /\ EntriesC' = {}
    BY <1>2, <1>3, <1>5
  <2>2. AtMostOne(EntriesS')
    <3>1. CASE Len(names) = 0
      <4>1. \A k \in 1 .. Len(names) : names[k] \notin EntryTypes(server.rejoining)
        BY <3>1
      <4>2. EntriesS' = {}
        BY <1>1, <2>1, <4>1, EntriesAdded DEF EntriesS
      <4> QED BY <4>2 DEF AtMostOne
    <3>2. CASE Len(names) = 1
      <4>1. 1 \in 1 .. Len(names) /\ \A k \in 1 .. Len(names) :
              names[k] \in EntryTypes(server.rejoining) => k = 1
        BY <3>2
      <4> QED BY <1>1, <2>1, <4>1, EntriesAdded DEF EntriesS
    <3> QED BY <3>1, <3>2
  <2>3. server.rejoining /\ client'.wanted # 0 => EntriesS' = {}
    <3> DEFINE types == EntryTypes(server.rejoining)
    <3>1. (\A k \in 1 .. Len(names) : names[k] \notin types) => EntriesS' = {}
      BY <1>1, <2>1, EntriesAdded DEF EntriesS
    <3>2. server.rejoining /\ client'.wanted # 0 => Len(names) = 0 \/ names[1] \notin types
      OBVIOUS
    <3> HIDE DEF types
    <3>3. Len(names) = 0 => \A k \in 1 .. Len(names) : names[k] \notin types
      OBVIOUS
    <3>4. Len(names) = 1 /\ names[1] \notin types =>
            \A k \in 1 .. Len(names) : names[k] \notin types
      OBVIOUS
    <3> QED BY <3>1, <3>2, <3>3, <3>4
  <2>4. server.ready /\ (server.state = "ingame" => server.rejoining)
    BY <1>2, <1>5
  <2> QED BY <1>3, <2>1, <2>2, <2>3, <2>4 DEF Entering
<1>6. CASE 1 \notin EntriesC
  <2>1. EntriesS' = EntriesS
    <3>1. ToClient[1].map # server.map
          \/ \A k \in 1 .. Len(names) : names[k] \notin EntryTypes(server.rejoining)
      BY <1>4, <1>6
    <3> QED BY <1>1, <3>1, EntriesAdded DEF EntriesS
  <2>2. server.rejoining /\ client'.wanted # 0 => EntriesC' = {} /\ EntriesS' = {}
    <3> SUFFICES ASSUME server.rejoining, client'.wanted # 0
                 PROVE  EntriesC' = {} /\ EntriesS' = {}
      OBVIOUS
    <3>1. ToClient[1].map = server.map
      BY <1>1, NothingOld DEF Handshake, Outdated
    <3>2. client.wanted # 0
      BY <1>4, <1>6, <3>1
    <3> QED BY <1>2, <1>3, <2>1, <3>2
  <2> QED BY <1>2, <1>3, <2>1, <2>2 DEF Entering
<1> QED BY <1>5, <1>6

\* The fields of a client that has loaded a map or started to wait for one.
LEMMA Loading ==
  ASSUME client \in ClientTypes, NEW map
  PROVE  /\ LoadMap(map).map = map /\ LoadMap(map).wanted = 0
         /\ LoadMap(map).store = <<>> /\ LoadMap(map).parts = {}
         /\ LoadMap(map).received = 0 /\ LoadMap(map).prev = NoShot
         /\ LoadMap(map).cur = NoShot /\ LoadMap(map).ack = client.ack
         /\ LoadMap(map).recvTick = client.recvTick
         /\ LoadMap(map).predicting = client.predicting
BY DEF LoadMap, ClientTypes

\* What OnMapChange does to the client.
LEMMA MapChanging ==
  ASSUME Types, OnMapChange
  PROVE  \E names \in Seq(Names) :
           /\ Answer("client", "map_change", names)
           /\ UNCHANGED <<server, net, changes, made>>
           /\ Len(names) = 0 \/ (Len(names) = 1 /\ names[1] = "ready" /\ client'.wanted = 0)
           /\ Latest' = ToClient[1].map
           /\ client'.map = 0 \/ client'.wanted = 0
           /\ client'.store = <<>> /\ client'.parts = {} /\ client'.received = 0
           /\ client'.prev = NoShot /\ client'.cur = NoShot
           /\ client'.ack = client.ack /\ client'.recvTick = client.recvTick
<1>1. "ready" \in Names /\ client \in ClientTypes
  BY DEF Names, Types
<1> DEFINE map == Head(vital["client"]).map
<1>2. ASSUME NEW names \in Seq(Names), Answer("client", "map_change", names)
      PROVE  map = ToClient[1].map /\ map # 0
  <2>1. ToClient[1] = Head(ToClient) /\ 1 \in 1 .. Len(ToClient)
    BY <1>2, ClientAnswers
  <2> QED BY <2>1, HandshakeTypes DEF ToClient
<1>3. CASE /\ Answer("client", "map_change", <<"ready">>)
           /\ client' = LoadMap(map)
           /\ UNCHANGED <<server, net, changes, made>>
  <2>1. <<"ready">> \in Seq(Names) /\ Len(<<"ready">>) = 1 /\ <<"ready">>[1] = "ready"
    BY <1>1, Replies
  <2>2. map = ToClient[1].map /\ map # 0
    BY <1>2, <1>3, <2>1
  <2> HIDE DEF map
  <2>3. Latest' = map /\ client'.wanted = 0
    BY <1>1, <1>3, <2>2, Loading DEF Latest
  <2> QED BY <1>1, <1>3, <2>1, <2>2, <2>3, Loading
<1>4. CASE /\ Answer("client", "map_change", <<>>)
           /\ client' = [LoadMap(0) EXCEPT !.wanted = map]
           /\ UNCHANGED <<server, net, changes, made>>
  <2>1. PICK names \in Seq(Names) : Len(names) = 0 /\ Answer("client", "map_change", names)
    BY <1>4, Replies
  <2>2. map = ToClient[1].map /\ map # 0
    BY <1>2, <2>1
  <2> HIDE DEF map
  <2>3. /\ client'.map = 0 /\ client'.wanted = map
        /\ client'.store = <<>> /\ client'.parts = {} /\ client'.received = 0
        /\ client'.prev = NoShot /\ client'.cur = NoShot
        /\ client'.ack = client.ack /\ client'.recvTick = client.recvTick
    BY <1>1, <1>4 DEF LoadMap, ClientTypes
  <2>4. Latest' = map
    BY <2>3 DEF Latest
  <2> QED BY <1>4, <2>1, <2>2, <2>3, <2>4
<1> QED BY <1>3, <1>4 DEF OnMapChange

LEMMA HandshakeMapChange ==
  ASSUME Types, Handshake, OnMapChange
  PROVE  Handshake'
<1>1. PICK names \in Seq(Names) :
        /\ Answer("client", "map_change", names)
        /\ UNCHANGED <<server, net, changes, made>>
        /\ Len(names) = 0 \/ (Len(names) = 1 /\ names[1] = "ready" /\ client'.wanted = 0)
        /\ Latest' = ToClient[1].map
        /\ client'.map = 0 \/ client'.wanted = 0
  BY MapChanging
<1>2. Len(names) = 1 => Parked' <= Parked
  BY <1>1 DEF Parked
<1>3. Marks' /\ Outdated'
  BY <1>1, <1>2, TakenIn DEF Handshake
<1>4. /\ Taken(ToClient, ToClient') /\ ToClient[1].type = "map_change"
      /\ Added(ToServer, ToServer', names, ToClient[1].map, got["client"] + 1)
  BY <1>1, ClientAnswers
<1>5. \A k \in 1 .. Len(names) :
        names[k] \in EntryTypes(server.rejoining) =>
          ToClient[1].type \in EntryTypes(server.rejoining)
  BY <1>1, <1>4 DEF EntryTypes
<1>6. server.rejoining => ToClient[1].type \in EntryTypes(server.rejoining)
  BY <1>4 DEF EntryTypes
<1>7. server.rejoining /\ client'.wanted # 0 =>
        /\ Len(names) = 0 \/ names[1] \notin EntryTypes(server.rejoining)
        /\ client.wanted # 0 \/ ToClient[1].type \in EntryTypes(server.rejoining)
  BY <1>1, <1>6
<1>8. Len(names) = 0 \/ Len(names) = 1
  BY <1>1
<1>9. Entering'
  BY <1>1, <1>3, <1>4, <1>5, <1>7, <1>8, EntriesMove
<1> QED BY <1>3, <1>9 DEF Handshake

LEMMA HandshakeConReady ==
  ASSUME Types, Handshake, OnConReady
  PROVE  Handshake'
<1>1. PICK names \in Seq(Names) :
        /\ Answer("client", "con_ready", names) /\ UNCHANGED <<server, client, net, changes, made>>
        /\ Len(names) = 0 \/ (Len(names) = 1 /\ names[1] = "start_info")
  <2>1. "start_info" \in Names
    BY DEF Names
  <2> QED BY <2>1, Replies DEF OnConReady
<1>2. /\ Parked' = Parked /\ Parked \in Nat /\ Latest' = Latest
      /\ client'.map = 0 \/ client'.wanted = 0
  BY <1>1 DEF Parked, Latest, Handshake, Marks, MarksC
<1>3. Marks' /\ Outdated'
  BY <1>1, <1>2, TakenIn DEF Handshake
<1>4. /\ Taken(ToClient, ToClient') /\ ToClient[1].type = "con_ready"
      /\ Added(ToServer, ToServer', names, ToClient[1].map, got["client"] + 1)
  BY <1>1, ClientAnswers
<1>5. \A k \in 1 .. Len(names) : names[k] \notin EntryTypes(server.rejoining)
  BY <1>1 DEF EntryTypes
<1>6. Len(names) = 0 \/ names[1] \notin EntryTypes(server.rejoining)
  BY <1>1 DEF EntryTypes
<1>7. Len(names) = 0 \/ Len(names) = 1
  BY <1>1
<1>8. Entering'
  BY <1>1, <1>3, <1>4, <1>5, <1>6, <1>7, EntriesMove
<1> QED BY <1>3, <1>8 DEF Handshake

LEMMA HandshakeReadyToEnter ==
  ASSUME Types, Handshake, OnReadyToEnter
  PROVE  Handshake' /\ Latest' = Latest
<1>1. PICK names \in Seq(Names) :
        /\ Answer("client", "ready_to_enter", names) /\ UNCHANGED <<server, net, changes, made>>
        /\ Len(names) = 1 /\ names[1] = "enter_game"
        /\ client' = Entered
  <2>1. "enter_game" \in Names
    BY DEF Names
  <2> QED BY <2>1, Replies DEF OnReadyToEnter
<1>2. client'.map = client.map /\ client'.wanted = client.wanted
  BY <1>1 DEF Entered, Types, ClientTypes
<1>3. /\ Parked' = Parked /\ Parked \in Nat /\ Latest' = Latest
      /\ client'.map = 0 \/ client'.wanted = 0
  BY <1>1, <1>2 DEF Parked, Latest, Handshake, Marks, MarksC
<1>4. Marks' /\ Outdated'
  BY <1>1, <1>3, TakenIn DEF Handshake
<1>5. /\ Taken(ToClient, ToClient') /\ ToClient[1].type = "ready_to_enter"
      /\ Added(ToServer, ToServer', names, ToClient[1].map, got["client"] + 1)
  BY <1>1, ClientAnswers
<1>6. ToClient[1].type \in EntryTypes(server.rejoining)
  BY <1>5 DEF EntryTypes
<1>7. /\ Taken(ToClient, ToClient') /\ 1 \in 1 .. Len(ToClient)
      /\ ToClient \in Seq(Chunks)
  BY <1>5, HandshakeTypes DEF Taken
<1>8. server.rejoining => client'.wanted = 0
  <2> SUFFICES ASSUME server.rejoining, client.wanted # 0 PROVE FALSE
    BY <1>2
  <2>1. ToClient[1].map = server.map
    BY <1>7, NothingOld DEF Handshake, Outdated
  <2>2. 1 \in EntriesC
    BY <1>6, <1>7, <2>1 DEF EntriesC, Entries
  <2> QED BY <2>2 DEF Handshake, Entering
<1>9. Len(names) = 0 \/ Len(names) = 1
  BY <1>1
<1>10. Entering'
  BY <1>1, <1>4, <1>5, <1>6, <1>8, <1>9, EntriesMove
<1> QED BY <1>3, <1>4, <1>10 DEF Handshake

\* What FinishMapDownload does.
LEMMA Downloading ==
  ASSUME Types, Handshake, FinishMapDownload
  PROVE  /\ client.map = 0 /\ client.wanted = Latest /\ Latest' = Latest
         /\ client.wanted # 0 /\ client' = LoadMap(client.wanted)
         /\ client'.map = client.wanted /\ client'.wanted = 0
         /\ ToClient' = ToClient /\ ToServer' \in Seq(Chunks)
         /\ UNCHANGED <<server, got, peerAck, net, changes, made>>
         /\ \E names \in Seq(Names) :
              /\ Len(names) = 1 /\ names[1] = "ready"
              /\ Added(ToServer, ToServer', names, Latest, got["client"])
<1>1. /\ client.wanted # 0 /\ client' = LoadMap(client.wanted)
      /\ SendVital("client", "ready", client.wanted)
      /\ UNCHANGED <<server, got, peerAck, net, changes, made>>
  BY DEF FinishMapDownload
<1>2. client.map = 0 /\ client.wanted = Latest
  BY <1>1 DEF Handshake, Marks, MarksC, Latest
<1>3. client'.map = client.wanted /\ client'.wanted = 0
  BY <1>1, Loading DEF Types
<1>4. Latest' = Latest
  BY <1>1, <1>2, <1>3 DEF Latest
<1>5. "ready" \in Names /\ client.wanted \in 1 .. MaxChanges + 1
  BY <1>1, Numbers DEF Names, Types, ClientTypes
<1>6. /\ vital' \in [Peers -> Seq(Chunks)] /\ vital'["client"] = vital["client"]
      /\ Added(vital["server"], vital'["server"], <<"ready">>, client.wanted, got["client"])
  BY <1>1, <1>5, PeerNames, Sending
<1>7. /\ <<"ready">> \in Seq(Names)
      /\ Len(<<"ready">>) = 1 /\ <<"ready">>[1] = "ready"
  BY <1>5, Replies
<1>8. vital'["server"] \in Seq(Chunks)
  BY <1>6, PeerNames
<1> QED BY <1>1, <1>2, <1>3, <1>4, <1>6, <1>7, <1>8 DEF ToClient, ToServer

LEMMA HandshakeDownload ==
  ASSUME Types, Handshake, FinishMapDownload
  PROVE  Handshake'
<1>1. /\ client.map = 0 /\ client.wanted = Latest /\ Latest' = Latest
      /\ client.wanted # 0
      /\ client'.map = client.wanted /\ client'.wanted = 0
      /\ ToClient' = ToClient /\ ToServer' \in Seq(Chunks)
      /\ UNCHANGED <<server, got, peerAck, net, changes, made>>
  BY Downloading
<1>2. PICK names \in Seq(Names) :
        /\ Len(names) = 1 /\ names[1] = "ready"
        /\ Added(ToServer, ToServer', names, Latest, got["client"])
  BY Downloading
<1>3. /\ ToServer \in Seq(Chunks) /\ Len(ToServer) \in Nat /\ Latest \in Nat
      /\ server.map \in Nat /\ server.rejoining \in BOOLEAN
  BY HandshakeTypes
<1>4. Marks'
  <2>1. MarksC'
    <3>1. \A i : MapAt(i)' = MapAt(i)
      BY <1>1 DEF MapAt
    <3> HIDE DEF MapAt
    <3> QED BY <1>1, <3>1 DEF Handshake, Marks, MarksC
  <2>2. MarksS'
    BY <1>1, <1>2, <1>3, MarksSent DEF Handshake, Marks
  <2> QED BY <2>1, <2>2 DEF Marks
<1>5. Outdated'
  <2>1. PICK a \in 0 .. 2, b \in 0 .. 2 :
          /\ a + b + Parked + Progress <= 2
          /\ AllBut(ToServer, a, server.map) /\ AllBut(ToClient, b, server.map)
    BY DEF Handshake, Outdated
  <2>2. Parked' = 0 /\ Progress' = Progress /\ Progress \in 0 .. 2 /\ Parked \in 0 .. 1
    BY <1>1 DEF Parked, Progress
  <2>3. AllBut(ToClient', b, server'.map)
    BY <1>1, <2>1
  <2>4. CASE Latest = server.map
    <3>1. AllBut(ToServer', a, server'.map)
      BY <1>1, <1>2, <1>3, <2>1, <2>4, AllButAdded
    <3>2. a + b + 0 + Progress <= 2
      BY <2>1, <2>2, Sums
    <3> QED BY <1>1, <2>2, <2>3, <3>1, <3>2 DEF Handshake, Outdated
  <2>5. CASE Latest # server.map
    <3>1. Parked = 1
      BY <1>1, <2>5 DEF Parked
    <3>2. Len(ToServer) <= a
      <4>1. ASSUME NEW i \in 1 .. Len(ToServer) PROVE ToServer[i].map # server.map
        <5>1. /\ ToServer[i].map <= Latest /\ Latest <= server.map /\ ToServer[i].map \in Nat
          BY InOrder, HandshakeTypes DEF Handshake
        <5> QED BY <1>3, <2>5, <5>1
      <4> QED BY <1>3, <2>1, <4>1, AllButOld
    <3>3. a + 1 \in 0 .. 2 /\ a + 1 + b + 0 + Progress <= 2
      BY <2>1, <2>2, <3>1
    <3>4. AllBut(ToServer', a + 1, server'.map)
      <4>1. Len(ToServer') = Len(ToServer) + 1
        BY <1>2 DEF Added
      <4>2. \A i \in 1 .. Len(ToServer') : ~(i > a + 1)
        BY <1>3, <2>1, <3>2, <4>1
      <4> QED BY <4>2 DEF AllBut
    <3> QED BY <1>1, <2>2, <2>3, <3>3, <3>4 DEF Handshake, Outdated
  <2> QED BY <2>4, <2>5
<1>6. EntriesC' = EntriesC
  BY <1>1 DEF EntriesC
<1>7. server.rejoining => EntriesC = {} /\ EntriesS = {}
  BY <1>1 DEF Handshake, Entering
<1>8. EntriesS = {} => AtMostOne(EntriesS')
  <2>1. 1 \in 1 .. Len(names)
        /\ \A k \in 1 .. Len(names) : names[k] \in EntryTypes(server.rejoining) => k = 1
    BY <1>2
  <2> QED BY <1>1, <1>2, <1>3, <2>1, EntriesAdded DEF EntriesS
<1>9. ~server.rejoining => EntriesS' = EntriesS
  <2>1. ~server.rejoining => \A k \in 1 .. Len(names) : names[k] \notin EntryTypes(server.rejoining)
    BY <1>2 DEF EntryTypes
  <2>2. ASSUME NEW b \in BOOLEAN, \A k \in 1 .. Len(names) : names[k] \notin EntryTypes(b)
        PROVE  Entries(ToServer', server.map, b) = Entries(ToServer, server.map, b)
    BY <1>2, <1>3, <2>2, EntriesAdded
  <2>3. (\A k \in 1 .. Len(names) : names[k] \notin EntryTypes(server.rejoining)) =>
          EntriesS' = EntriesS
    BY <1>1, <1>3, <2>2 DEF EntriesS
  <2> QED BY <2>1, <2>3
<1>10. server.rejoining => server.ready
  BY DEF Handshake, Outdated
<1>11. Entering'
  <2>1. AtMostOne(EntriesC') /\ AtMostOne(EntriesS')
    BY <1>6, <1>7, <1>8, <1>9 DEF Handshake, Entering
  <2>2. EntriesC' = {} \/ EntriesS' = {}
    BY <1>6, <1>7, <1>9 DEF Handshake, Entering
  <2>3. EntriesC' # {} \/ EntriesS' # {} =>
          server'.ready /\ (server'.state = "ingame" => server'.rejoining)
    BY <1>1, <1>6, <1>9, <1>10 DEF Handshake, Entering
  <2>4. ~(client'.wanted # 0)
    BY <1>1
  <2> QED BY <2>1, <2>2, <2>3, <2>4 DEF Entering
<1> QED BY <1>4, <1>5, <1>11 DEF Handshake

LEMMA HandshakeInit == Init => Handshake
<1> SUFFICES ASSUME Init PROVE Handshake
  OBVIOUS
<1>1. /\ server.map = 1 /\ server.state = "connecting" /\ server.ready = FALSE
      /\ server.rejoining = FALSE /\ client.map = 0 /\ client.wanted = 0
      /\ ToClient = <<Chunk("map_change", 1, 0)>> /\ ToServer = <<>>
  BY DEF Init, NewClient, ToClient, ToServer
<1>2. /\ Len(ToServer) = 0 /\ Len(ToClient) = 1
      /\ ToClient[1].map = 1 /\ ToClient[1].type = "map_change"
  BY <1>1 DEF Chunk
<1>3. Latest = 0 /\ MapAt(0) = 0 /\ MapAt(1) = 1
  BY <1>1, <1>2 DEF Latest, MapAt
<1>4. MarksC
  <2>1. \A i, j \in 0 .. Len(ToClient) : i < j => i = 0 /\ j = 1
    BY <1>2
  <2> HIDE DEF MapAt
  <2> QED BY <1>1, <1>2, <1>3, <2>1 DEF MarksC
<1>5. MarksS
  BY <1>2 DEF MarksS
<1>6. Outdated
  <2>1. Parked = 0 /\ Progress = 0
    BY <1>1 DEF Parked, Progress
  <2>2. AllBut(ToServer, 0, server.map) /\ AllBut(ToClient, 0, server.map)
    BY <1>1, <1>2 DEF AllBut
  <2>3. 0 \in 0 .. 2 /\ 0 + 0 + Parked + Progress <= 2
    BY <2>1
  <2> QED BY <1>1, <2>2, <2>3 DEF Outdated
<1>7. EntriesC = {} /\ EntriesS = {}
  BY <1>1, <1>2 DEF EntriesC, EntriesS, Entries, EntryTypes
<1> QED BY <1>1, <1>4, <1>5, <1>6, <1>7 DEF Handshake, Marks, Entering, AtMostOne

\* What a snapshot that is complete changes in the client.
LEMMA StoredFields ==
  ASSUME client \in ClientTypes, NEW shot \in Shots, NEW base \in Shots \cup {NoShot}
  PROVE  LET store == Append(PurgeUntil(client.store, PurgeTick(base)), shot)
             received == Smaller(client.received + 1, 3)
             c == Stored(shot, base)
         IN /\ c.store = store /\ c.received = received
            /\ c.recvTick = shot.tick /\ c.ack = shot.tick /\ c.parts = {}
            /\ c.map = client.map /\ c.wanted = client.wanted
            /\ c.predicting = client.predicting
            /\ received = 2 => c.prev = Head(store) /\ c.cur = store[Len(store)]
            /\ received # 2 => c.prev = client.prev /\ c.cur = client.cur
<1> DEFINE store == Append(PurgeUntil(client.store, PurgeTick(base)), shot)
           received == Smaller(client.received + 1, 3)
<1> HIDE DEF store, received
<1> DEFINE c == [client EXCEPT !.store = store, !.received = received,
                               !.recvTick = shot.tick, !.ack = shot.tick, !.parts = {}]
<1>1. Stored(shot, base) = IF received = 2
        THEN [c EXCEPT !.prev = Head(store), !.cur = store[Len(store)], !.online = TRUE]
        ELSE c
  BY DEF Stored, store, received
<1>2. /\ c.store = store /\ c.received = received
      /\ c.recvTick = shot.tick /\ c.ack = shot.tick /\ c.parts = {}
      /\ c.map = client.map /\ c.wanted = client.wanted
      /\ c.predicting = client.predicting
      /\ c.prev = client.prev /\ c.cur = client.cur
      /\ DOMAIN c = {"map", "wanted", "online", "predicting", "recvTick", "ack", "parts",
                     "received", "store", "prev", "cur"}
  BY DEF ClientTypes
<1> HIDE DEF c
<1>3. CASE received = 2
  <2> DEFINE d == [c EXCEPT !.prev = Head(store), !.cur = store[Len(store)], !.online = TRUE]
  <2>1. /\ d.store = c.store /\ d.received = c.received /\ d.recvTick = c.recvTick
        /\ d.ack = c.ack /\ d.parts = c.parts /\ d.map = c.map /\ d.wanted = c.wanted
        /\ d.predicting = c.predicting /\ d.prev = Head(store) /\ d.cur = store[Len(store)]
    BY <1>2
  <2>2. Stored(shot, base) = d
    BY <1>1, <1>3
  <2> HIDE DEF d
  <2> QED BY <1>2, <1>3, <2>1, <2>2 DEF store, received
<1>4. CASE received # 2
  BY <1>1, <1>2, <1>4 DEF store, received
<1> QED BY <1>3, <1>4

\* What a packet with a snapshot changes.
LEMMA Snapping ==
  ASSUME Types, NEW packet \in net, OnSnap(packet)
  PROVE  LET base == Get(client.store, packet.base.tick)
         IN /\ packet \in SnapPackets /\ packet.type = "snap"
            /\ packet.shot \in Shots /\ packet.base \in Shots \cup {NoShot}
            /\ base \in Shots \cup {NoShot} /\ packet.ack \in Nat
            /\ packet.ack >= peerAck["client"]
            /\ peerAck'["client"] >= peerAck["client"]
            /\ peerAck'["server"] = peerAck["server"]
            /\ client.map # 0 /\ Fresh(packet.shot.tick)
            /\ UNCHANGED <<server, vital, got, changes, made>>
            /\ client'.map = client.map /\ client'.wanted = client.wanted
            /\ client'.recvTick = packet.shot.tick
            /\ net' \subseteq net \cup Input(client.predicting, -1) /\ net \subseteq net'
            /\ \/ /\ client'.store = client.store /\ client'.received = client.received
                  /\ client'.prev = client.prev /\ client'.cur = client.cur
                  /\ client'.parts \subseteq Gathered(packet)
                  /\ \/ client'.ack = client.ack /\ net' = net
                     \/ client'.ack = -1 /\ packet.base # NoShot /\ base = NoShot
               \/ /\ client' = Stored(packet.shot, base) /\ base = packet.base
                  /\ net' = net
<1> DEFINE parts == Gathered(packet)
           base == Get(client.store, packet.base.tick)
           received == [client EXCEPT !.recvTick = packet.shot.tick, !.parts = {}]
<1>1. /\ client \in ClientTypes /\ QueueTypes
      /\ net \subseteq SnapPackets \cup InputPackets
  BY DEF Types
<1>2. packet \in SnapPackets /\ packet.type = "snap"
  BY <1>1 DEF OnSnap, InputPackets
<1>3. /\ packet.ack \in Nat /\ packet.shot \in Shots /\ packet.base \in Shots \cup {NoShot}
      /\ packet.shot.tick \in 0 .. MaxTick /\ packet.base.tick \in Int
  BY <1>2, Numbers DEF SnapPackets, Shots
<1>4. base \in Shots \cup {NoShot}
  BY <1>1, <1>3, StorageTypes DEF ClientTypes
<1>5. /\ packet.ack >= peerAck["client"]
      /\ peerAck' = [peerAck EXCEPT !["client"] = Larger(@, packet.ack)]
      /\ client.map # 0 /\ Fresh(packet.shot.tick)
      /\ UNCHANGED <<server, vital, got, changes, made>>
  BY DEF OnSnap, Accepts, Feed
<1>6. peerAck'["client"] >= peerAck["client"] /\ peerAck'["server"] = peerAck["server"]
  BY <1>1, <1>3, <1>5, PeerNames DEF QueueTypes, Larger
<1>7. \/ client' = [received EXCEPT !.parts = parts] /\ net' = net
      \/ /\ client' = [received EXCEPT !.ack = -1]
         /\ packet.base # NoShot /\ base = NoShot
         /\ net' = net \cup Input(client.predicting, -1)
      \/ client' = Stored(packet.shot, base) /\ base = packet.base /\ net' = net
      \/ client' = received /\ net' = net
  BY DEF OnSnap
<1> DEFINE same(c) == /\ c.map = client.map /\ c.wanted = client.wanted
                      /\ c.recvTick = packet.shot.tick
           still(c) == /\ c.store = client.store /\ c.received = client.received
                       /\ c.prev = client.prev /\ c.cur = client.cur
<1>8. same(received) /\ still(received) /\ received.parts = {} /\ received.ack = client.ack
  BY <1>1 DEF ClientTypes
<1>9. LET c == [received EXCEPT !.parts = parts]
      IN  same(c) /\ still(c) /\ c.parts = parts /\ c.ack = client.ack
  BY <1>1 DEF ClientTypes
<1>10. LET c == [received EXCEPT !.ack = -1]
       IN  same(c) /\ still(c) /\ c.parts = {} /\ c.ack = -1
  BY <1>1 DEF ClientTypes
<1>11. same(Stored(packet.shot, base))
  BY <1>1, <1>3, <1>4, StoredFields
<1> HIDE DEF parts, base, received
<1>12. /\ same(client')
       /\ net' \subseteq net \cup Input(client.predicting, -1) /\ net \subseteq net'
       /\ \/ /\ still(client') /\ client'.parts \subseteq parts
             /\ \/ client'.ack = client.ack /\ net' = net
                \/ client'.ack = -1 /\ packet.base # NoShot /\ base = NoShot
          \/ client' = Stored(packet.shot, base) /\ base = packet.base /\ net' = net
  <2>1. CASE client' = [received EXCEPT !.parts = parts] /\ net' = net
    BY <1>9, <2>1
  <2>2. CASE /\ client' = [received EXCEPT !.ack = -1]
             /\ packet.base # NoShot /\ base = NoShot
             /\ net' = net \cup Input(client.predicting, -1)
    BY <1>10, <2>2
  <2>3. CASE client' = Stored(packet.shot, base) /\ base = packet.base /\ net' = net
    BY <1>11, <2>3
  <2>4. CASE client' = received /\ net' = net
    BY <1>8, <2>4
  <2> QED BY <1>7, <2>1, <2>2, <2>3, <2>4
<1> QED BY <1>2, <1>3, <1>4, <1>5, <1>6, <1>12 DEF parts, base

LEMMA HandshakeNext == Types /\ Handshake /\ [Next]_vars => Handshake'
<1> SUFFICES ASSUME Types, Handshake, [Next]_vars PROVE Handshake'
  OBVIOUS
<1>1. server \in ServerTypes /\ client \in ClientTypes
  BY DEF Types
<1>2. CASE UNCHANGED HandshakeOnly
  BY <1>2, HandshakeStill
<1>3. CASE Tick
  BY <1>1, <1>2, <1>3 DEF Tick, HandshakeOnly, ServerTypes
<1>4. ASSUME NEW parts \in PartCounts, DoSnapshot(parts) PROVE Handshake'
  BY <1>1, <1>2, <1>4 DEF DoSnapshot, HandshakeOnly, ServerTypes
<1>5. ASSUME NEW packet \in net, OnInput(packet) PROVE Handshake'
  BY <1>1, <1>2, <1>5 DEF OnInput, HandshakeOnly, ServerTypes
<1>6. CASE SetTimedOut
  BY <1>1, <1>2, <1>6 DEF SetTimedOut, TakenOver, HandshakeOnly, ServerTypes
<1>7. CASE SendInput
  BY <1>1, <1>2, <1>7 DEF SendInput, HandshakeOnly, ClientTypes
<1>8. CASE ShowNext
  BY <1>1, <1>2, <1>8 DEF ShowNext, HandshakeOnly, ClientTypes
<1>9. ASSUME NEW packet \in net, OnSnap(packet) PROVE Handshake'
  <2>1. /\ UNCHANGED <<server, vital>>
        /\ client'.map = client.map /\ client'.wanted = client.wanted
    BY <1>9, Snapping
  <2> QED BY <1>2, <2>1 DEF HandshakeOnly
<1>10. CASE UNCHANGED vars
  BY <1>2, <1>10 DEF vars, HandshakeOnly
<1> QED
  BY <1>3, <1>4, <1>5, <1>6, <1>7, <1>8, <1>9, <1>10, HandshakeReady, HandshakeStartInfo,
     HandshakeEnterGame, HandshakeChange, HandshakeRejoin, HandshakeMapChange,
     HandshakeDownload, HandshakeConReady, HandshakeReadyToEnter DEF Next

-----------------------------------------------------------------------------
(* The storages.                                                           *)

StoresS ==
  /\ Increasing(server.store)
  /\ \A x \in Elements(server.store) : x.tick <= server.tick

\* What is shown is stored, in order.
Shown(c) ==
  IF c.received < 2 THEN c.prev = NoShot /\ c.cur = NoShot
  ELSE \E i, j \in 1 .. Len(c.store) :
         i < j /\ c.store[i] = c.prev /\ c.store[j] = c.cur

\* Nothing that is stored is newer than what was received last, and that is
\* acknowledged if it is stored.
StoresC ==
  /\ Increasing(client.store)
  /\ client.ack <= client.recvTick
  /\ \A x \in Elements(client.store) :
       x.tick <= client.recvTick /\ (x.tick = client.recvTick => client.ack = x.tick)
  /\ \A m \in client.parts : m.shot.tick = client.recvTick
  /\ client.received = 0 => client.store = <<>>
  /\ client.received = 1 => Len(client.store) = 1
  /\ Shown(client)

Stores == StoresS /\ StoresC

LEMMA StoresInit == Init => Stores
<1> SUFFICES ASSUME Init PROVE Stores
  OBVIOUS
<1>1. /\ server.store = <<>> /\ client.store = <<>> /\ client.ack = -1 /\ client.recvTick = 0
      /\ client.parts = {} /\ client.received = 0 /\ client.prev = NoShot /\ client.cur = NoShot
  BY DEF Init, NewClient
<1>2. Len(<<>>) = 0 /\ Elements(<<>>) = {}
  BY DEF Elements
<1> QED BY <1>1, <1>2 DEF Stores, StoresS, StoresC, Shown, Increasing

\* The parts of a snapshot.
NewSnaps(new, shot, base, ack) ==
  \A m \in new : m.type = "snap" /\ m.shot = shot /\ m.base = base /\ m.ack = ack

\* What the server has when it has made a snapshot.
LEMMA Making ==
  ASSUME Types, StoresS, NEW parts \in PartCounts, DoSnapshot(parts)
  PROVE  LET tick == server.tick + 1
             shot == Shot(server.map, server.slot, tick)
             base == IF server.acked >= 0 THEN Get(server'.store, server.acked) ELSE NoShot
         IN /\ Playing /\ shot \in Shots /\ shot.tick = tick /\ shot.map = server.map
            /\ server'.tick = tick /\ server'.map = server.map /\ server'.acked = server.acked
            /\ server'.state = server.state /\ server'.rejoining = server.rejoining
            /\ server'.store \in Seq(Shots) /\ Increasing(server'.store)
            /\ shot \in Elements(server'.store)
            /\ \A y \in Elements(server'.store) :
                 y = shot \/ (y \in Elements(server.store) /\ y.tick >= server.acked)
            /\ server.acked <= server.tick =>
                 base = NoShot \/ (base \in Elements(server.store) /\ base.tick = server.acked)
            /\ \E new : net' = net \cup new /\ NewSnaps(new, shot, base, got["server"])
            /\ UNCHANGED <<client, vital, got, peerAck, changes>>
<1> DEFINE tick == server.tick + 1
           shot == Shot(server.map, server.slot, tick)
           limit == Larger(tick - History, server.acked)
           kept == PurgeUntil(server.store, limit)
           store == Append(kept, shot)
           base == IF server.acked >= 0 THEN Get(store, server.acked) ELSE NoShot
<1>1. /\ server \in ServerTypes /\ server.map <= changes + 1 /\ server.slot <= changes + 1
      /\ changes \in 0 .. MaxChanges /\ tick <= MaxTick
  BY DEF Types, DoSnapshot
<1>2. /\ server.tick \in Nat /\ server.acked \in Int /\ server.store \in Seq(Shots)
  BY <1>1, Numbers DEF ServerTypes
<1>3. shot \in Shots /\ shot.tick = tick /\ shot.map = server.map
  BY <1>1, <1>2, Numbers DEF ServerTypes, Shots, Shot
<1>4. limit \in Int /\ limit >= server.acked
  BY <1>2, Numbers DEF Larger
<1>5. /\ kept \in Seq(Shots) /\ Increasing(kept)
      /\ Elements(kept) = {x \in Elements(server.store) : x.tick >= limit}
  <2> HIDE DEF limit
  <2> QED BY <1>2, <1>4, DroppedKeeps DEF StoresS
<1>6. \A x \in Elements(server.store) : x.tick \in Int /\ x.tick < tick
  BY <1>2, Ticks DEF StoresS
<1>8. /\ Playing
      /\ server' = [server EXCEPT
           !.tick = tick, !.store = store,
           !.rate = IF base = NoShot /\ @ = "full" THEN "recover" ELSE @]
      /\ net' = net \cup {SnapPacket(shot, base, parts, n, got["server"]) :
                            n \in 0 .. parts - 1}
      /\ UNCHANGED <<client, vital, got, peerAck, changes>>
  <2>1. Playing /\ UNCHANGED <<client, vital, got, peerAck, changes>>
    BY DEF DoSnapshot, Playing
  <2>2. store = Append(Purged(tick), shot)
    BY DEF Purged
  <2>3. net' = net \cup {SnapPacket(shot, base, parts, n, got["server"]) :
                           n \in 0 .. parts - 1}
    BY <2>2 DEF DoSnapshot
  <2>4. server' = [server EXCEPT
           !.tick = tick, !.store = store,
           !.rate = IF base = NoShot /\ @ = "full" THEN "recover" ELSE @]
    BY <2>2 DEF DoSnapshot
  <2> QED BY <2>1, <2>3, <2>4
<1> HIDE DEF tick, shot, base, store, kept, limit
<1>9. /\ server'.tick = tick /\ server'.map = server.map /\ server'.acked = server.acked
      /\ server'.state = server.state /\ server'.rejoining = server.rejoining
      /\ server'.store = store
  BY <1>1, <1>8 DEF ServerTypes
<1>10. /\ store \in Seq(Shots) /\ Increasing(store)
       /\ Elements(store) = Elements(kept) \cup {shot}
  <2>1. \A y \in Elements(kept) : y.tick < shot.tick
    BY <1>3, <1>5, <1>6
  <2> QED BY <1>3, <1>5, <2>1, Storing DEF store
<1>11. \A y \in Elements(kept) : y \in Elements(server.store) /\ y.tick >= server.acked
  <2>1. \A y \in Elements(kept) : y \in Elements(server.store) /\ y.tick >= limit /\ y.tick \in Int
    BY <1>5, <1>6
  <2> QED BY <1>2, <1>4, <2>1
<1>12. ASSUME server.acked <= server.tick
       PROVE  base = NoShot \/ (base \in Elements(server.store) /\ base.tick = server.acked)
  <2>1. base = NoShot \/ (base \in Elements(store) /\ base.tick = server.acked)
    BY <1>2, <1>10, Getting DEF base
  <2>2. shot.tick # server.acked
    BY <1>2, <1>3, <1>12 DEF tick
  <2> QED BY <1>10, <1>11, <2>1, <2>2
<1>13. NewSnaps({SnapPacket(shot, base, parts, n, got["server"]) : n \in 0 .. parts - 1},
                shot, base, got["server"])
  <2>1. \A n : LET m == SnapPacket(shot, base, parts, n, got["server"])
               IN  m.type = "snap" /\ m.shot = shot /\ m.base = base /\ m.ack = got["server"]
    BY DEF SnapPacket
  <2> QED BY <2>1 DEF NewSnaps
<1>14. \E new : net' = net \cup new /\ NewSnaps(new, shot, base, got["server"])
  BY <1>8, <1>13
<1> QED BY <1>3, <1>8, <1>9, <1>10, <1>11, <1>12, <1>14 DEF tick, shot, base

LEMMA StoresSNext == Types /\ StoresS /\ [Next]_vars => StoresS'
<1> SUFFICES ASSUME Types, StoresS, [Next]_vars PROVE StoresS'
  OBVIOUS
<1>1. /\ server \in ServerTypes /\ server.tick \in Nat /\ server.store \in Seq(Shots)
      /\ \A x \in Elements(server.store) : x.tick \in Int /\ x.tick <= server.tick
      /\ \A x \in Elements(server.store) : x.tick <= server.tick + 1
  <2>1. server \in ServerTypes /\ server.tick \in Nat /\ server.store \in Seq(Shots)
    BY Numbers DEF Types, ServerTypes
  <2> QED BY <2>1, Ticks DEF StoresS
<1>2. Elements(<<>>) = {} /\ Increasing(<<>>)
  BY DEF Elements, Increasing
<1>3. CASE server'.store = server.store /\ server'.tick \in {server.tick, server.tick + 1}
  BY <1>1, <1>3 DEF StoresS
<1>4. CASE server'.store = <<>>
  BY <1>2, <1>4 DEF StoresS
<1>5. CASE Tick
  BY <1>1, <1>3, <1>5 DEF Tick, ServerTypes
<1>6. ASSUME NEW parts \in PartCounts, DoSnapshot(parts) PROVE StoresS'
  <2> DEFINE shot == Shot(server.map, server.slot, server.tick + 1)
  <2>1. /\ shot.tick = server.tick + 1 /\ server'.tick = server.tick + 1
        /\ Increasing(server'.store)
        /\ \A y \in Elements(server'.store) : y = shot \/ y \in Elements(server.store)
    BY <1>6, Making
  <2> HIDE DEF shot
  <2>2. server.tick + 1 <= server.tick + 1
    BY <1>1
  <2> QED BY <1>1, <2>1, <2>2 DEF StoresS
<1>7. ASSUME NEW packet \in net, OnInput(packet) PROVE StoresS'
  BY <1>1, <1>3, <1>7 DEF OnInput, ServerTypes
<1>8. CASE OnReady
  BY <1>1, <1>3, <1>8 DEF OnReady, ServerTypes
<1>9. CASE OnStartInfo
  BY <1>1, <1>3, <1>9 DEF OnStartInfo, ServerTypes
<1>10. CASE OnEnterGame
  BY <1>1, <1>3, <1>10 DEF OnEnterGame, ServerTypes
<1>11. CASE ChangeMap
  BY <1>1, <1>4, <1>11 DEF ChangeMap, Reset, ServerTypes
<1>12. CASE Rejoin
  BY <1>1, <1>4, <1>12 DEF Rejoin, Reset, ServerTypes
<1>13. CASE SetTimedOut
  BY <1>1, <1>4, <1>13 DEF SetTimedOut, TakenOver, ServerTypes
<1>14. CASE OnMapChange \/ FinishMapDownload \/ OnConReady \/ OnReadyToEnter \/ SendInput
            \/ ShowNext \/ UNCHANGED vars
  <2>1. server' = server
    BY <1>14 DEF OnMapChange, FinishMapDownload, OnConReady, OnReadyToEnter, SendInput,
                 ShowNext, vars
  <2> QED BY <1>3, <2>1
<1>15. ASSUME NEW packet \in net, OnSnap(packet) PROVE StoresS'
  BY <1>3, <1>15 DEF OnSnap
<1> QED
  BY <1>5, <1>6, <1>7, <1>8, <1>9, <1>10, <1>11, <1>12, <1>13, <1>14, <1>15 DEF Next

\* The base and what is shown are not purged.
LEMMA Limit ==
  ASSUME client \in ClientTypes, NEW base \in Shots \cup {NoShot}
  PROVE  /\ PurgeTick(base) \in Int /\ PurgeTick(base) <= base.tick
         /\ client.prev # NoShot => PurgeTick(base) <= client.prev.tick
         /\ client.cur # NoShot => PurgeTick(base) <= client.cur.tick
         /\ client.prev = NoShot /\ client.cur = NoShot => PurgeTick(base) = base.tick
<1>1. \A x \in Shots \cup {NoShot} : x.tick \in Int
  BY Numbers DEF Shots
<1>2. client.prev \in Shots \cup {NoShot} /\ client.cur \in Shots \cup {NoShot}
  BY DEF ClientTypes
<1>3. base.tick \in Int /\ client.prev.tick \in Int /\ client.cur.tick \in Int
  BY <1>1, <1>2
<1> QED BY <1>3 DEF PurgeTick, Smaller

\* A newer snapshot is stored.
LEMMA StoresAdd ==
  ASSUME Types, StoresC, NEW shot \in Shots, NEW base \in Elements(client.store) \cup {NoShot},
         Fresh(shot.tick), client' = Stored(shot, base)
  PROVE  /\ StoresC' /\ client'.store \in Seq(Shots)
         /\ Elements(client'.store)
              = {x \in Elements(client.store) : x.tick >= PurgeTick(base)} \cup {shot}
<1> DEFINE store == client.store
           limit == PurgeTick(base)
           kept == PurgeUntil(store, limit)
           t == Append(kept, shot)
<1>1. /\ client \in ClientTypes /\ store \in Seq(Shots) /\ Len(store) \in Nat
      /\ client.received \in 0 .. 3 /\ client.ack \in Int /\ client.recvTick \in Int
      /\ client.prev \in Shots \cup {NoShot} /\ client.cur \in Shots \cup {NoShot}
  BY LenProperties, Numbers DEF Types, ClientTypes
<1>2. Elements(store) \subseteq Shots /\ base \in Shots \cup {NoShot}
  BY <1>1, ElementsTyped
<1>3. /\ limit \in Int /\ limit <= base.tick
      /\ client.prev # NoShot => limit <= client.prev.tick
      /\ client.cur # NoShot => limit <= client.cur.tick
      /\ client.prev = NoShot /\ client.cur = NoShot => limit = base.tick
  BY <1>1, <1>2, Limit
<1>4. /\ client'.store = t /\ client'.received = Smaller(client.received + 1, 3)
      /\ client'.recvTick = shot.tick /\ client'.ack = shot.tick /\ client'.parts = {}
      /\ client'.received = 2 => client'.prev = Head(t) /\ client'.cur = t[Len(t)]
      /\ client'.received # 2 => client'.prev = client.prev /\ client'.cur = client.cur
  <2> DEFINE c == Stored(shot, base)
             received == Smaller(client.received + 1, 3)
  <2>1. /\ c.store = t /\ c.received = received
        /\ c.recvTick = shot.tick /\ c.ack = shot.tick /\ c.parts = {}
        /\ received = 2 => c.prev = Head(t) /\ c.cur = t[Len(t)]
        /\ received # 2 => c.prev = client.prev /\ c.cur = client.cur
    BY <1>1, <1>2, StoredFields
  <2>2. client' = c
    OBVIOUS
  <2> HIDE DEF c, received, t
  <2>3. client'.received = received
    BY <2>1, <2>2
  <2> QED BY <2>1, <2>2, <2>3 DEF received
<1> HIDE DEF limit
<1>5. /\ kept \in Seq(Shots) /\ Increasing(kept)
      /\ Elements(kept) = {x \in Elements(store) : x.tick >= limit}
  BY <1>1, <1>3, DroppedKeeps DEF StoresC
<1>6. PICK d \in 0 .. Len(store) :
        /\ Dropped(store, kept, d)
        /\ \A i \in 1 .. d : store[i].tick < limit
  BY <1>1, <1>3, Purging
<1> HIDE DEF kept
<1>7. /\ Len(kept) = Len(store) - d
      /\ \A i \in 1 .. Len(kept) : kept[i] = store[i + d]
  BY <1>6 DEF Dropped
<1>8. \A x \in Elements(store) : x.tick \in Int /\ x.tick < shot.tick
  <2>1. \A x \in Elements(store) : x.tick \in Int
    BY <1>1, Ticks
  <2>2. shot.tick \in Int /\ shot.tick >= client.recvTick /\ shot.tick > client.ack
    BY Numbers DEF Fresh, Shots
  <2> QED BY <1>1, <2>1, <2>2 DEF StoresC
<1>9. /\ t \in Seq(Shots) /\ Increasing(t) /\ Elements(t) = Elements(kept) \cup {shot}
  BY <1>5, <1>8, Storing
<1>10. /\ Len(kept) \in Nat /\ Len(t) = Len(kept) + 1
       /\ \A i \in 1 .. Len(kept) : t[i] = kept[i]
  BY <1>5, Appended
<1> HIDE DEF t
<1>11. \A x \in Elements(t) :
         x.tick <= client'.recvTick /\ (x.tick = client'.recvTick => client'.ack = x.tick)
  <2>1. shot.tick \in Int
    BY Numbers DEF Shots
  <2> QED BY <1>4, <1>5, <1>8, <1>9, <2>1
<1>12. client'.ack <= client'.recvTick
  BY <1>4, Numbers DEF Shots
<1>13. /\ client'.received = 0 => t = <<>>
       /\ client'.received = 1 => Len(t) = 1
       /\ Shown(client')
  <2>1. CASE client.received = 0
    <3>1. Len(store) = 0
      BY <2>1, ElementsTyped DEF StoresC
    <3>2. Len(t) = 1
      BY <1>1, <1>6, <1>7, <1>10, <3>1
    <3>3. client'.received = 1
      BY <1>4, <2>1 DEF Smaller
    <3> QED BY <1>4, <2>1, <3>2, <3>3 DEF StoresC, Shown
  <2>2. CASE client.received = 1
    <3>1. Len(store) = 1 /\ client.prev = NoShot /\ client.cur = NoShot
      BY <2>2 DEF StoresC, Shown
    <3>2. d = 0
      <4> SUFFICES ASSUME d = 1 PROVE FALSE
        BY <1>6, <3>1
      <4>1. store[1].tick < base.tick /\ store[1].tick \in 1 .. MaxTick
        BY <1>1, <1>3, <1>6, <3>1, Ticks DEF Elements
      <4>2. base = NoShot \/ base = store[1]
        BY <3>1 DEF Elements
      <4> QED BY <4>1, <4>2, Numbers
    <3>3. Len(t) = 2
      BY <1>7, <1>10, <3>1, <3>2
    <3>4. client'.received = 2
      BY <1>4, <2>2 DEF Smaller
    <3>5. Head(t) = t[1]
      BY <1>9, <3>3, HeadTailProperties, ElementsTyped
    <3> QED BY <1>4, <3>3, <3>4, <3>5 DEF Shown
  <2>3. CASE client.received >= 2
    <3>1. client'.received = 3 /\ client'.prev = client.prev /\ client'.cur = client.cur
      BY <1>1, <1>4, <2>3 DEF Smaller
    <3>2. PICK i \in 1 .. Len(store), j \in 1 .. Len(store) :
            i < j /\ store[i] = client.prev /\ store[j] = client.cur
      BY <1>1, <2>3 DEF StoresC, Shown
    <3>3. ~(i <= d)
      <4>1. store[i].tick \in Int /\ client.prev # NoShot
        BY <1>1, <3>2, Ticks, Numbers
      <4> QED BY <1>3, <1>6, <3>2, <4>1
    <3>4. /\ i - d \in 1 .. Len(kept) /\ j - d \in 1 .. Len(kept) /\ i - d < j - d
          /\ (i - d) + d = i /\ (j - d) + d = j
      BY <1>1, <1>6, <1>7, <3>2, <3>3
    <3>5. /\ i - d \in 1 .. Len(t) /\ j - d \in 1 .. Len(t)
          /\ t[i - d] = client.prev /\ t[j - d] = client.cur
      <4>1. ASSUME NEW k \in 1 .. Len(kept) PROVE k \in 1 .. Len(t) /\ t[k] = store[k + d]
        BY <1>7, <1>10, <4>1
      <4> QED BY <3>2, <3>4, <4>1
    <3> QED BY <1>4, <3>1, <3>4, <3>5 DEF Shown
  <2> QED BY <1>1, <2>1, <2>2, <2>3
<1> QED BY <1>4, <1>5, <1>9, <1>11, <1>12, <1>13 DEF StoresC, limit

LEMMA StoresCNext == Types /\ StoresC /\ [Next]_vars => StoresC'
<1> SUFFICES ASSUME Types, StoresC, [Next]_vars PROVE StoresC'
  OBVIOUS
<1>1. /\ client \in ClientTypes /\ client.store \in Seq(Shots) /\ Len(client.store) \in Nat
      /\ client.ack \in Int /\ client.recvTick \in Nat
  BY LenProperties, Numbers DEF Types, ClientTypes
<1>2. Elements(<<>>) = {} /\ Increasing(<<>>) /\ Len(<<>>) = 0
  BY DEF Elements, Increasing
<1>3. CASE /\ client'.store = client.store /\ client'.received = client.received
           /\ client'.prev = client.prev /\ client'.cur = client.cur
           /\ client'.parts = client.parts /\ client'.ack = client.ack
           /\ client'.recvTick = client.recvTick
  BY <1>3 DEF StoresC, Shown
<1>4. CASE /\ client'.store = <<>> /\ client'.received = 0
           /\ client'.prev = NoShot /\ client'.cur = NoShot
           /\ client'.parts = {} /\ client'.ack <= client'.recvTick
  BY <1>2, <1>4 DEF StoresC, Shown
<1>5. CASE UNCHANGED client
  BY <1>3, <1>5
<1>6. CASE Rejoin
  BY <1>4, <1>6 DEF Rejoin, NewClient
<1>7. CASE OnMapChange
  <2>1. /\ client'.store = <<>> /\ client'.parts = {} /\ client'.received = 0
        /\ client'.prev = NoShot /\ client'.cur = NoShot
        /\ client'.ack = client.ack /\ client'.recvTick = client.recvTick
    BY <1>7, MapChanging
  <2> QED BY <1>4, <2>1 DEF StoresC
<1>8. CASE FinishMapDownload
  <2>1. client' = LoadMap(client.wanted)
    BY <1>8 DEF FinishMapDownload
  <2> QED BY <1>1, <1>4, <2>1, Loading DEF StoresC
<1>9. CASE OnReadyToEnter
  <2>1. client' = Entered
    BY <1>9 DEF OnReadyToEnter
  <2> QED BY <1>1, <1>4, <2>1 DEF Entered, ClientTypes
<1>10. CASE SendInput
  BY <1>1, <1>3, <1>10 DEF SendInput, ClientTypes
<1>11. CASE ShowNext
  <2> DEFINE later == {i \in 1 .. Len(client.store) - 1 : client.store[i] = client.cur}
             k == CHOOSE i \in later : TRUE
  <2>1. later # {} /\ client' = [client EXCEPT !.prev = client.cur, !.cur = client.store[k + 1]]
        /\ client.cur # NoShot
    BY <1>11 DEF ShowNext
  <2>2. k \in later
    BY <2>1
  <2>3. k \in 1 .. Len(client.store) /\ k + 1 \in 1 .. Len(client.store) /\ k < k + 1
        /\ client.store[k] = client.cur
    BY <1>1, <2>2
  <2> HIDE DEF k, later
  <2>4. /\ client'.store = client.store /\ client'.received = client.received
        /\ client'.parts = client.parts /\ client'.ack = client.ack
        /\ client'.recvTick = client.recvTick
        /\ client'.prev = client.cur /\ client'.cur = client.store[k + 1]
    BY <1>1, <2>1 DEF ClientTypes
  <2>5. ~(client.received < 2)
    BY <2>1 DEF StoresC, Shown
  <2>6. Shown(client')
    BY <2>3, <2>4, <2>5 DEF Shown
  <2> QED BY <2>4, <2>6 DEF StoresC
<1>12. ASSUME NEW packet \in net, OnSnap(packet) PROVE StoresC'
  <2> DEFINE shot == packet.shot
             base == Get(client.store, packet.base.tick)
  <2>1. /\ shot \in Shots /\ Fresh(shot.tick) /\ packet.base \in Shots \cup {NoShot}
        /\ client'.recvTick = shot.tick
        /\ \/ /\ client'.store = client.store /\ client'.received = client.received
              /\ client'.prev = client.prev /\ client'.cur = client.cur
              /\ client'.parts \subseteq Gathered(packet)
              /\ client'.ack \in {client.ack, -1}
           \/ client' = Stored(shot, base)
    BY <1>12, Snapping
  <2>2. base \in Elements(client.store) \cup {NoShot}
    <3>1. packet.base.tick \in Int
      BY <2>1, Numbers DEF Shots
    <3> QED BY <1>1, <3>1, Getting DEF StoresC
  <2>3. CASE client' = Stored(shot, base)
    <3> HIDE DEF shot, base
    <3> QED BY <2>1, <2>2, <2>3, StoresAdd
  <2>4. CASE /\ client'.store = client.store /\ client'.received = client.received
             /\ client'.prev = client.prev /\ client'.cur = client.cur
             /\ client'.parts \subseteq Gathered(packet)
             /\ client'.ack \in {client.ack, -1}
    <3>1. shot.tick \in Nat /\ shot.tick >= client.recvTick /\ shot.tick > client.ack
      BY <2>1, Numbers DEF Fresh, Shots
    <3>2. client'.ack <= client'.recvTick
      BY <1>1, <2>1, <2>4, <3>1
    <3>3. \A x \in Elements(client.store) : x.tick < shot.tick
      <4>1. \A x \in Elements(client.store) : x.tick \in Int
        BY <1>1, Ticks
      <4> QED BY <1>1, <3>1, <4>1 DEF StoresC
    <3>4. \A x \in Elements(client.store) :
            x.tick <= client'.recvTick /\ (x.tick = client'.recvTick => client'.ack = x.tick)
      <4>1. \A x \in Elements(client.store) : x.tick \in Int
        BY <1>1, Ticks
      <4> QED BY <2>1, <3>1, <3>3, <4>1
    <3>5. \A m \in client'.parts : m.shot.tick = client'.recvTick
      BY <2>1, <2>4 DEF Gathered, StoresC
    <3>6. Shown(client')
      BY <2>4 DEF Shown, StoresC
    <3> QED BY <2>4, <3>2, <3>4, <3>5, <3>6 DEF StoresC
  <2> QED BY <2>1, <2>3, <2>4
<1>13. CASE Tick \/ OnReady \/ OnStartInfo \/ OnEnterGame \/ ChangeMap \/ SetTimedOut
            \/ OnConReady \/ UNCHANGED vars
  BY <1>5, <1>13 DEF Tick, OnReady, OnStartInfo, OnEnterGame, ChangeMap, SetTimedOut,
                     OnConReady, vars
<1>14. ASSUME NEW parts \in PartCounts, DoSnapshot(parts) PROVE StoresC'
  BY <1>5, <1>14 DEF DoSnapshot
<1>15. ASSUME NEW packet \in net, OnInput(packet) PROVE StoresC'
  BY <1>5, <1>15 DEF OnInput
<1> QED
  BY <1>6, <1>7, <1>8, <1>9, <1>10, <1>11, <1>12, <1>13, <1>14, <1>15 DEF Next

-----------------------------------------------------------------------------
(* What is on its way, and what is left of the games before.              *)

\* The client as EnterGame leaves it, which no snapshot has reached since.
Untouched ==
  /\ client.store = <<>> /\ client.parts = {} /\ client.received = 0
  /\ client.ack = -1 /\ client.recvTick = 0

Snaps == {m \in net : m.type = "snap"}
Inputs == {m \in net : m.type = "input"}

\* The snapshots of the map that is played.
Current == {m \in Snaps : m.shot.map = server.map}

\* A packet has received no more vital messages than its sender now has.
Counted ==
  /\ \A m \in Snaps : m.ack <= got["server"] /\ m.shot.map <= server.map
  /\ \A m \in Inputs : m.ack <= got["client"]

\* Nothing is left when the connection is new.
Restarted == server.rejoining => net = {} /\ Untouched

\* While no game is sent nothing of it is kept.
Outside == ~Playing => Current = {} /\ server.acked = -1 /\ server.store = <<>>

\* In the game the client has the map, or takes nothing until it has.
Loaded == Playing => Latest = server.map /\ (client.map = 0 => Untouched)

\* The message that lets the client in has seen more than every snapshot before:
\* after it, the client drops them.
Announced ==
  \A m \in Elements(ToClient) :
    m.type = "ready_to_enter" /\ m.map = server.map => \A k \in Snaps : k.ack < m.ack

\* And so has its answer; after that, the server drops the inputs before.
Answered ==
  \A m \in Elements(ToServer) :
    m.type = "enter_game" /\ m.map = server.map =>
      /\ Untouched
      /\ \A k \in Snaps : k.ack < peerAck["client"]
      /\ \A k \in Inputs : k.ack < m.ack

Renewed == Restarted /\ Outside /\ Loaded /\ Announced /\ Answered

LEMMA ElementsTaken ==
  ASSUME NEW q \in Seq(Chunks), NEW r, Taken(q, r)
  PROVE  Elements(r) \subseteq Elements(q) /\ q[1] \in Elements(q)
<1>1. /\ Len(q) \in Nat /\ Len(q) >= 1 /\ Len(r) = Len(q) - 1
      /\ \A i \in 1 .. Len(r) : r[i] = q[i + 1]
  BY LenProperties DEF Taken
<1>2. 1 \in 1 .. Len(q) /\ \A i \in 1 .. Len(r) : i + 1 \in 1 .. Len(q)
  BY <1>1
<1> QED BY <1>1, <1>2 DEF Elements

LEMMA ElementsAdded ==
  ASSUME NEW q \in Seq(Chunks), NEW r, NEW names, NEW map, NEW ack, Added(q, r, names, map, ack)
  PROVE  \A m \in Elements(r) :
           \/ m \in Elements(q)
           \/ m.map = map /\ m.ack = ack /\ \E k \in 1 .. Len(names) : m.type = names[k]
BY DEF Elements, Added

\* The types of the packets.
LEMMA PacketTypes ==
  ASSUME Types
  PROVE  /\ \A m \in Snaps : m \in SnapPackets /\ m.ack \in Nat /\ m.shot \in Shots
                             /\ m.base \in Shots \cup {NoShot}
                             /\ m.shot.tick \in 1 .. MaxTick /\ m.shot.map \in Nat
                             /\ m.base.tick \in -1 .. MaxTick
         /\ \A m \in Inputs : m \in InputPackets /\ m.ack \in Nat /\ m.tick \in -1 .. MaxTick
         /\ net = Snaps \cup Inputs
<1>1. net \subseteq SnapPackets \cup InputPackets
  BY DEF Types
<1>2. /\ \A m \in SnapPackets : m.type = "snap" /\ m.ack \in Nat /\ m.shot \in Shots
                                /\ m.base \in Shots \cup {NoShot}
      /\ \A m \in InputPackets : m.type = "input" /\ m.ack \in Nat /\ m.tick \in -1 .. MaxTick
  BY DEF SnapPackets, InputPackets
<1>3. /\ \A x \in Shots : x.tick \in 1 .. MaxTick /\ x.map \in Nat
      /\ \A x \in Shots \cup {NoShot} : x.tick \in -1 .. MaxTick
  BY Numbers DEF Shots
<1>4. \A m \in Snaps : m \in SnapPackets
  BY <1>1, <1>2 DEF Snaps
<1>5. \A m \in Inputs : m \in InputPackets
  BY <1>1, <1>2 DEF Inputs
<1>6. net = Snaps \cup Inputs
  BY <1>1, <1>2 DEF Snaps, Inputs
<1> QED BY <1>2, <1>3, <1>4, <1>5, <1>6

\* The packets after an input may have been sent.
LEMMA InputSent ==
  ASSUME NEW b, NEW ack, net' \subseteq net \cup Input(b, ack), net \subseteq net'
  PROVE  /\ Snaps' = Snaps
         /\ \A m \in Inputs' : m \in Inputs \/ (m.tick = ack /\ m.ack = got["client"])
<1>1. \A m \in Input(b, ack) : m.type = "input" /\ m.tick = ack /\ m.ack = got["client"]
  BY DEF Input, InputPacket
<1> QED BY <1>1 DEF Snaps, Inputs

\* The packets after a snapshot was sent.
LEMMA SnapSent ==
  ASSUME NEW shot, NEW base, NEW ack, NEW new, net' = net \cup new, NewSnaps(new, shot, base, ack)
  PROVE  /\ Inputs' = Inputs /\ Snaps \subseteq Snaps'
         /\ \A m \in Snaps' : m \in Snaps \/ (m.shot = shot /\ m.base = base /\ m.ack = ack)
BY DEF Snaps, Inputs, NewSnaps

LEMMA CountedNext == Types /\ StoresS /\ Counted /\ [Next]_vars => Counted'
<1> SUFFICES ASSUME Types, StoresS, Counted, [Next]_vars PROVE Counted'
  OBVIOUS
<1>1. /\ server \in ServerTypes /\ server.map \in Nat
      /\ got["client"] \in Nat /\ got["server"] \in Nat
  BY HandshakeTypes DEF Types
<1>2. /\ \A m \in Snaps : m.ack \in Nat /\ m.shot.map \in Nat
      /\ \A m \in Inputs : m.ack \in Nat
  BY PacketTypes
<1>3. CASE /\ net' \subseteq net /\ server'.map \in {server.map, server.map + 1}
           /\ got'["client"] \in {got["client"], got["client"] + 1}
           /\ got'["server"] \in {got["server"], got["server"] + 1}
  <2>1. Snaps' \subseteq Snaps /\ Inputs' \subseteq Inputs
    BY <1>3 DEF Snaps, Inputs
  <2>2. server'.map >= server.map /\ got'["client"] >= got["client"]
        /\ got'["server"] >= got["server"] /\ server'.map \in Nat
        /\ got'["client"] \in Nat /\ got'["server"] \in Nat
    BY <1>1, <1>3
  <2>3. \A m \in Snaps' : m.ack <= got'["server"] /\ m.shot.map <= server'.map
    BY <1>1, <1>2, <2>1, <2>2 DEF Counted
  <2>4. \A m \in Inputs' : m.ack <= got'["client"]
    BY <1>1, <1>2, <2>1, <2>2 DEF Counted
  <2> QED BY <2>3, <2>4 DEF Counted
<1>4. ASSUME NEW type, NEW names \in Seq(Names), Answer("server", type, names),
             server'.map = server.map, net' = net
      PROVE  Counted'
  BY <1>3, <1>4, ServerAnswers
<1>5. ASSUME NEW type, NEW names \in Seq(Names), Answer("client", type, names),
             server'.map = server.map, net' = net
      PROVE  Counted'
  BY <1>3, <1>5, ClientAnswers
<1>6. /\ <<>> \in Seq(Names) /\ <<"con_ready">> \in Seq(Names)
      /\ <<"con_ready", "ready_to_enter">> \in Seq(Names)
      /\ <<"ready_to_enter">> \in Seq(Names) /\ <<"start_info">> \in Seq(Names)
      /\ <<"enter_game">> \in Seq(Names)
  BY Replies DEF Names
<1>7. CASE Tick
  BY <1>1, <1>3, <1>7 DEF Tick, ServerTypes
<1>8. ASSUME NEW parts \in PartCounts, DoSnapshot(parts) PROVE Counted'
  <2>1. PICK shot, base, new :
          /\ shot.map = server.map /\ server'.map = server.map /\ UNCHANGED got
          /\ net' = net \cup new /\ NewSnaps(new, shot, base, got["server"])
    BY <1>8, Making
  <2>2. /\ Inputs' = Inputs
        /\ \A m \in Snaps' :
              m \in Snaps \/ (m.shot = shot /\ m.base = base /\ m.ack = got["server"])
    BY <2>1, SnapSent
  <2>3. server.map <= server.map /\ got["server"] <= got["server"]
    BY <1>1
  <2> QED BY <2>1, <2>2, <2>3 DEF Counted
<1>9. ASSUME NEW packet \in net, OnInput(packet) PROVE Counted'
  BY <1>1, <1>3, <1>9 DEF OnInput, ServerTypes
<1>10. CASE OnReady
  <2>1. server'.map = server.map /\ net' = net
    BY <1>1, <1>10 DEF OnReady, ServerTypes
  <2> QED BY <1>4, <1>6, <1>10, <2>1 DEF OnReady
<1>11. CASE OnStartInfo
  <2>1. server'.map = server.map /\ net' = net
    BY <1>1, <1>11 DEF OnStartInfo, ServerTypes
  <2> QED BY <1>4, <1>6, <1>11, <2>1 DEF OnStartInfo
<1>12. CASE OnEnterGame
  <2>1. server'.map = server.map /\ net' = net
    BY <1>1, <1>12 DEF OnEnterGame, ServerTypes
  <2> QED BY <1>4, <1>6, <1>12, <2>1 DEF OnEnterGame
<1>13. CASE ChangeMap
  BY <1>1, <1>3, <1>13 DEF ChangeMap, Reset, ServerTypes
<1>14. CASE Rejoin
  BY <1>14 DEF Rejoin, Counted, Snaps, Inputs
<1>15. CASE SetTimedOut
  BY <1>1, <1>3, <1>15 DEF SetTimedOut, TakenOver, ServerTypes
<1>16. CASE OnMapChange
  BY <1>5, <1>16, MapChanging
<1>17. CASE OnConReady
  BY <1>5, <1>6, <1>17 DEF OnConReady
<1>18. CASE OnReadyToEnter
  BY <1>5, <1>6, <1>18 DEF OnReadyToEnter
<1>19. CASE FinishMapDownload \/ ShowNext \/ UNCHANGED vars
  BY <1>3, <1>19 DEF FinishMapDownload, ShowNext, vars
<1>20. ASSUME NEW b, NEW ack, net' \subseteq net \cup Input(b, ack), net \subseteq net',
              UNCHANGED <<server, got>>
       PROVE  Counted'
  <2>1. got["client"] <= got["client"]
    BY <1>1
  <2> QED BY <1>20, <2>1, InputSent DEF Counted
<1>21. CASE SendInput
  BY <1>20, <1>21 DEF SendInput
<1>22. ASSUME NEW packet \in net, OnSnap(packet) PROVE Counted'
  <2>1. net' \subseteq net \cup Input(client.predicting, -1) /\ net \subseteq net'
        /\ UNCHANGED <<server, got>>
    BY <1>22, Snapping
  <2> QED BY <1>20, <2>1
<1> QED
  BY <1>7, <1>8, <1>9, <1>10, <1>11, <1>12, <1>13, <1>14, <1>15, <1>16, <1>17, <1>18,
     <1>19, <1>21, <1>22 DEF Next

LEMMA RenewedInit == Init => Counted /\ Renewed
<1> SUFFICES ASSUME Init PROVE Counted /\ Renewed
  OBVIOUS
<1>1. Snaps = {} /\ Inputs = {} /\ net = {}
  BY DEF Init, Snaps, Inputs
<1>2. server.store = <<>> /\ server.acked = -1 /\ server.rejoining = FALSE
      /\ server.state = "connecting"
  BY DEF Init
<1>3. ToServer = <<>> /\ Elements(<<>>) = {}
  BY DEF Init, ToServer, Elements
<1>4. Counted
  BY <1>1 DEF Counted
<1>5. ~Playing
  BY <1>2 DEF Playing
<1> QED BY <1>1, <1>2, <1>3, <1>4, <1>5
        DEF Renewed, Restarted, Outside, Loaded, Announced, Answered, Current

\* A step that sends nothing and leaves the handshake alone.
LEMMA RenewedStill ==
  ASSUME Types, Renewed, Handshake, UNCHANGED HandshakeOnly, Untouched => Untouched',
         net' \subseteq net, peerAck'["client"] \in Nat,
         peerAck'["client"] >= peerAck["client"],
         ~Playing => server'.acked = server.acked /\ server'.store = server.store
  PROVE  Renewed'
<1>1. /\ ToClient' = ToClient /\ ToServer' = ToServer /\ Latest' = Latest
      /\ server'.map = server.map /\ client'.map = client.map
      /\ server'.rejoining = server.rejoining
      /\ Playing' = Playing
  BY DEF HandshakeOnly, ToClient, ToServer, Latest, Playing
<1>2. Snaps' \subseteq Snaps /\ Inputs' \subseteq Inputs /\ Current' \subseteq Current
  BY <1>1 DEF Snaps, Inputs, Current
<1>3. \A k \in Snaps : k.ack < peerAck["client"] => k.ack < peerAck'["client"]
  <2>1. /\ peerAck["client"] \in Nat
        /\ \A k \in Snaps : k.ack \in Nat
    BY PacketTypes, HandshakeTypes
  <2> QED BY <2>1
<1>4. Restarted'
  BY <1>1 DEF Renewed, Restarted
<1>5. Outside'
  BY <1>1, <1>2 DEF Renewed, Outside
<1>6. Loaded'
  BY <1>1 DEF Renewed, Loaded
<1>7. Announced'
  BY <1>1, <1>2 DEF Renewed, Announced
<1>8. Answered'
  BY <1>1, <1>2, <1>3 DEF Renewed, Answered
<1> QED BY <1>4, <1>5, <1>6, <1>7, <1>8 DEF Renewed

\* The server takes a message and answers.
LEMMA RenewedHeard ==
  ASSUME Types, Handshake, Counted, Renewed, NEW type, NEW names \in Seq(Names),
         Answer("server", type, names), UNCHANGED <<client, net>>,
         server'.map = server.map, server'.acked = server.acked, server'.store = server.store,
         server'.rejoining => server.rejoining, Playing => Playing',
         Playing' /\ ~Playing => Latest = server.map /\ Untouched
  PROVE  Renewed'
<1>1. /\ Taken(ToServer, ToServer')
      /\ Added(ToClient, ToClient', names, server.map, got["server"] + 1)
      /\ ToServer \in Seq(Chunks) /\ ToClient \in Seq(Chunks)
      /\ peerAck'["client"] = peerAck["client"] /\ got["server"] \in Nat
  BY ServerAnswers, HandshakeTypes
<1>2. /\ Snaps' = Snaps /\ Inputs' = Inputs /\ Current' = Current /\ Latest' = Latest
      /\ Untouched' = Untouched
  BY DEF Snaps, Inputs, Current, Latest, Untouched
<1>3. /\ Elements(ToServer') \subseteq Elements(ToServer)
      /\ \A m \in Elements(ToClient') : m \in Elements(ToClient) \/ m.ack = got["server"] + 1
  BY <1>1, ElementsTaken, ElementsAdded
<1>4. \A k \in Snaps : k.ack < got["server"] + 1
  <2>1. \A k \in Snaps : k.ack \in Nat /\ k.ack <= got["server"]
    BY PacketTypes DEF Counted
  <2> QED BY <1>1, <2>1
<1>5. Restarted'
  BY <1>2 DEF Renewed, Restarted
<1>6. Outside'
  BY <1>2 DEF Renewed, Outside
<1>7. Loaded'
  BY <1>2 DEF Renewed, Loaded
<1>8. Announced'
  BY <1>2, <1>3, <1>4 DEF Renewed, Announced
<1>9. Answered'
  BY <1>1, <1>2, <1>3 DEF Renewed, Answered
<1> QED BY <1>5, <1>6, <1>7, <1>8, <1>9 DEF Renewed

\* The client takes a message and answers.
LEMMA RenewedTaken ==
  ASSUME Types, Handshake, Counted, Renewed, NEW type, NEW names \in Seq(Names),
         Answer("client", type, names), UNCHANGED <<server, net>>,
         peerAck'["client"] \in Nat, Untouched => Untouched',
         Playing => Latest' = Latest /\ (client'.map = 0 => client.map = 0),
         (\A k \in 1 .. Len(names) : names[k] # "enter_game")
           \/ (type = "ready_to_enter" /\ Untouched')
  PROVE  Renewed'
<1>1. /\ Taken(ToClient, ToClient') /\ ToClient[1].type = type
      /\ Added(ToServer, ToServer', names, ToClient[1].map, got["client"] + 1)
      /\ ToServer \in Seq(Chunks) /\ ToClient \in Seq(Chunks)
      /\ peerAck'["client"] >= ToClient[1].ack /\ peerAck'["client"] >= peerAck["client"]
      /\ 1 \in 1 .. Len(ToClient) /\ got["client"] \in Nat
  BY ClientAnswers, HandshakeTypes
<1>2. /\ Snaps' = Snaps /\ Inputs' = Inputs /\ Current' = Current /\ Playing' = Playing
  BY DEF Snaps, Inputs, Current, Playing
<1>3. /\ Elements(ToClient') \subseteq Elements(ToClient) /\ ToClient[1] \in Elements(ToClient)
      /\ \A m \in Elements(ToServer') :
           \/ m \in Elements(ToServer)
           \/ /\ m.map = ToClient[1].map /\ m.ack = got["client"] + 1
              /\ \E k \in 1 .. Len(names) : m.type = names[k]
  BY <1>1, ElementsTaken, ElementsAdded
<1>4. /\ \A k \in Snaps : k.ack < peerAck["client"] => k.ack < peerAck'["client"]
      /\ \A k \in Snaps : k.ack < ToClient[1].ack => k.ack < peerAck'["client"]
      /\ \A k \in Inputs : k.ack < got["client"] + 1
  <2>1. \A k \in Snaps : k.ack \in Nat
    BY PacketTypes
  <2>2. peerAck["client"] \in Nat /\ ToClient[1].ack \in Nat
    BY <1>1, HandshakeTypes
  <2>3. \A k \in Inputs : k.ack \in Nat /\ k.ack <= got["client"]
    BY PacketTypes DEF Counted
  <2> QED BY <1>1, <2>1, <2>2, <2>3
<1>5. Restarted'
  BY DEF Renewed, Restarted
<1>6. Outside'
  BY <1>2 DEF Renewed, Outside
<1>7. Loaded'
  BY <1>2 DEF Renewed, Loaded
<1>8. Announced'
  BY <1>2, <1>3 DEF Renewed, Announced
<1>9. ASSUME NEW m \in Elements(ToServer'), m.type = "enter_game", m.map = server'.map
      PROVE  /\ Untouched'
             /\ \A k \in Snaps' : k.ack < peerAck'["client"]
             /\ \A k \in Inputs' : k.ack < m.ack
  <2>1. CASE m \in Elements(ToServer)
    BY <1>2, <1>4, <1>9, <2>1 DEF Renewed, Answered
  <2>2. CASE m.map = ToClient[1].map /\ m.ack = got["client"] + 1 /\ Untouched'
             /\ type = "ready_to_enter"
    BY <1>1, <1>2, <1>3, <1>4, <1>9, <2>2 DEF Renewed, Announced
  <2> QED BY <1>3, <1>9, <2>1, <2>2
<1>10. Answered'
  BY <1>9 DEF Answered
<1> QED BY <1>5, <1>6, <1>7, <1>8, <1>10 DEF Renewed

LEMMA RenewedEnterGame ==
  ASSUME Types, Handshake, Counted, Renewed, OnEnterGame
  PROVE  Renewed'
<1>1. PICK names \in Seq(Names) :
        Answer("server", "enter_game", names) /\ UNCHANGED <<client, net, changes, made>>
  BY Replies DEF OnEnterGame
<1> DEFINE enters == server.rejoining \/ (server.state = "ready" /\ server.ready)
<1>2. /\ server'.map = server.map /\ server'.acked = server.acked
      /\ server'.store = server.store
      /\ server'.rejoining => server.rejoining
      /\ enters => server.state # "connecting" /\ server.ready
      /\ Playing => Playing'
      /\ ~enters => server' = server
  BY DEF OnEnterGame, Types, ServerTypes, Playing, Handshake, Outdated
<1>3. Playing' /\ ~Playing => Latest = server.map /\ Untouched
  <2> SUFFICES ASSUME enters PROVE Latest = server.map /\ Untouched
    BY <1>2 DEF Playing
  <2>1. /\ 1 \in 1 .. Len(ToServer) /\ ToServer[1].type = "enter_game"
        /\ Taken(ToServer, ToServer') /\ ToServer \in Seq(Chunks)
    BY <1>1, ServerAnswers, HandshakeTypes
  <2>2. ToServer[1].map = server.map
    BY <1>2, <2>1, NothingOld DEF Handshake
  <2>3. Latest = server.map
    <3>1. ToServer[1].map <= Latest /\ Latest <= server.map
      BY <2>1, InOrder DEF Handshake
    <3> QED BY <2>2, <3>1, HandshakeTypes
  <2>4. ToServer[1] \in Elements(ToServer)
    BY <2>1, ElementsTaken
  <2> QED BY <2>1, <2>2, <2>3, <2>4 DEF Renewed, Answered
<1> QED BY <1>1, <1>2, <1>3, RenewedHeard

LEMMA RenewedChange ==
  ASSUME Types, Handshake, Counted, Renewed, ChangeMap
  PROVE  Renewed'
<1>1. /\ UNCHANGED <<client, got, peerAck, net>>
      /\ SendVital("server", "map_change", server.map + 1) /\ changes < MaxChanges
      /\ server'.map = server.map + 1 /\ server'.state = "connecting"
      /\ server'.rejoining = FALSE /\ server'.acked = -1 /\ server'.store = <<>>
  BY DEF ChangeMap, Change, Reset, Types, ServerTypes
<1>2. server.map \in Nat /\ Latest \in Nat
  BY HandshakeTypes
<1>3. /\ ToServer' = ToServer /\ ToClient \in Seq(Chunks)
      /\ Added(ToClient, ToClient', <<"map_change">>, server.map + 1, got["server"])
  <2>1. "map_change" \in Names /\ server.map + 1 \in 1 .. MaxChanges + 1
    BY <1>1, Numbers DEF Names, Types, ServerTypes
  <2>2. /\ vital'["server"] = vital["server"]
        /\ Added(vital["client"], vital'["client"], <<"map_change">>, server.map + 1, got["server"])
    BY <1>1, <2>1, PeerNames, Sending
  <2> QED BY <2>2, HandshakeTypes DEF ToClient, ToServer
<1>4. \A m \in Elements(ToClient') : m \in Elements(ToClient) \/ m.type = "map_change"
  <2>1. Len(<<"map_change">>) = 1 /\ <<"map_change">>[1] = "map_change"
    OBVIOUS
  <2> QED BY <1>3, <2>1, ElementsAdded
<1>5. /\ \A m \in Elements(ToClient) : m.map # server.map + 1
      /\ \A m \in Elements(ToServer) : m.map # server.map + 1
  <2>1. \A i \in 1 .. Len(ToClient) : ToClient[i].map <= server.map /\ ToClient[i].map \in Nat
    BY InOrder, HandshakeTypes DEF Handshake
  <2>2. \A i \in 1 .. Len(ToServer) : ToServer[i].map <= server.map /\ ToServer[i].map \in Nat
    <3>1. Latest <= server.map /\ \A i \in 1 .. Len(ToServer) :
            ToServer[i].map <= Latest /\ ToServer[i].map \in Nat
      BY InOrder, HandshakeTypes DEF Handshake
    <3> QED BY <1>2, <3>1
  <2>3. /\ \A i \in 1 .. Len(ToClient) : ToClient[i].map # server.map + 1
        /\ \A i \in 1 .. Len(ToServer) : ToServer[i].map # server.map + 1
    BY <1>2, <2>1, <2>2
  <2> QED BY <2>3 DEF Elements
<1>6. Current' = {}
  <2>1. \A m \in Snaps : m.shot.map \in Nat /\ m.shot.map <= server.map
    BY PacketTypes DEF Counted
  <2>2. \A m \in Snaps : m.shot.map # server.map + 1
    BY <1>2, <2>1
  <2> QED BY <1>1, <2>2 DEF Current, Snaps
<1>7. ~Playing'
  BY <1>1 DEF Playing
<1>8. Restarted' /\ Outside' /\ Loaded'
  BY <1>1, <1>6, <1>7 DEF Restarted, Outside, Loaded
<1>9. Announced'
  BY <1>1, <1>4, <1>5 DEF Announced
<1>10. Answered'
  BY <1>1, <1>3, <1>5 DEF Answered
<1> QED BY <1>8, <1>9, <1>10 DEF Renewed

LEMMA RenewedRejoin ==
  ASSUME Types, Rejoin
  PROVE  Renewed'
<1>1. Snaps' = {} /\ Inputs' = {} /\ net' = {}
  BY DEF Rejoin, Snaps, Inputs
<1>2. server'.store = <<>> /\ server'.acked = -1 /\ server'.rejoining = TRUE
  BY DEF Rejoin, Reset, Types, ServerTypes
<1>3. Untouched'
  BY DEF Rejoin, NewClient, Untouched
<1>4. Elements(ToServer') = {}
  BY DEF Rejoin, ToServer, Elements
<1>5. ~Playing'
  BY <1>2 DEF Playing
<1> QED BY <1>1, <1>2, <1>3, <1>4, <1>5
        DEF Renewed, Restarted, Outside, Loaded, Announced, Answered, Current

\* In the game no map_change is on its way.
LEMMA NoMapChange ==
  ASSUME Types, Handshake, Renewed, Playing, NEW names \in Seq(Names),
         Answer("client", "map_change", names)
  PROVE  FALSE
<1>1. 1 \in 1 .. Len(ToClient) /\ ToClient[1].type = "map_change"
  BY ClientAnswers
<1>2. server.state # "connecting" /\ server.ready
  BY DEF Handshake, Outdated, Playing
<1>3. ToClient[1].map = server.map
  BY <1>1, <1>2, NothingOld DEF Handshake
<1>4. Latest = server.map
  BY DEF Renewed, Loaded
<1>5. Latest < ToClient[1].map
  BY <1>1, InOrder DEF Handshake
<1> QED BY <1>3, <1>4, <1>5, HandshakeTypes

LEMMA RenewedNext ==
  Types /\ Handshake /\ Stores /\ Counted /\ Renewed /\ [Next]_vars => Renewed'
<1> SUFFICES ASSUME Types, Handshake, Stores, Counted, Renewed, [Next]_vars PROVE Renewed'
  OBVIOUS
<1>1. server \in ServerTypes /\ client \in ClientTypes
  BY DEF Types
<1>2. Types' /\ peerAck'["client"] \in Nat
  <2>1. Types'
    BY NextTypes
  <2> QED BY <2>1, PeerNames DEF Types, QueueTypes
<1>3. peerAck["client"] \in Nat /\ peerAck["client"] >= peerAck["client"]
  BY HandshakeTypes
<1>4. Untouched => client.cur = NoShot
  <2>1. Untouched => client.received < 2
    BY DEF Untouched
  <2> QED BY <2>1 DEF Stores, StoresC, Shown
<1>5. CASE Tick
  <2>1. /\ UNCHANGED <<HandshakeOnly, net, peerAck, client>>
        /\ server'.acked = server.acked /\ server'.store = server.store
    BY <1>1, <1>5 DEF Tick, HandshakeOnly, ServerTypes
  <2> QED BY <1>2, <1>3, <2>1, RenewedStill DEF Untouched
<1>6. ASSUME NEW parts \in PartCounts, DoSnapshot(parts) PROVE Renewed'
  <2>1. /\ Playing /\ server'.map = server.map
        /\ server'.state = server.state /\ server'.rejoining = server.rejoining
        /\ UNCHANGED <<client, vital, peerAck>>
    BY <1>6, Making DEF Stores
  <2>2. Playing' /\ Latest' = Latest /\ ToClient' = ToClient /\ ToServer' = ToServer
    BY <2>1 DEF Playing, Latest, ToClient, ToServer
  <2>3. /\ \A m \in Elements(ToClient) : m.type # "ready_to_enter"
        /\ \A m \in Elements(ToServer) : m.type # "enter_game"
    BY <2>1, NoEntry DEF Elements
  <2>4. Restarted' /\ Outside'
    BY <2>2 DEF Restarted, Outside, Playing
  <2>5. Loaded'
    BY <2>1, <2>2 DEF Renewed, Loaded, Untouched
  <2>6. Announced' /\ Answered'
    BY <2>2, <2>3 DEF Announced, Answered
  <2> QED BY <2>4, <2>5, <2>6 DEF Renewed
<1>7. ASSUME NEW packet \in net, OnInput(packet) PROVE Renewed'
  <2>1. /\ UNCHANGED <<HandshakeOnly, net, client>> /\ peerAck'["client"] = peerAck["client"]
        /\ ~(server.state = "ingame") =>
             server'.acked = server.acked /\ server'.store = server.store
    BY <1>1, <1>7, PeerNames DEF OnInput, Feed, HandshakeOnly, ServerTypes, Types, QueueTypes
  <2>2. ~server.rejoining
    BY <1>7 DEF Renewed, Restarted
  <2>3. ~Playing => server'.acked = server.acked /\ server'.store = server.store
    BY <2>1, <2>2 DEF Playing
  <2> QED BY <1>2, <1>3, <2>1, <2>3, RenewedStill DEF Untouched
<1>8. CASE OnReady
  <2>1. PICK names \in Seq(Names) :
          Answer("server", "ready", names) /\ UNCHANGED <<client, net, changes, made>>
    BY <1>8, Replies, ZenonT(40) DEF OnReady, Names
  <2>2. /\ server'.map = server.map /\ server'.acked = server.acked
        /\ server'.store = server.store /\ server'.rejoining = server.rejoining
        /\ Playing' = Playing
    BY <1>1, <1>8 DEF OnReady, ServerTypes, Playing
  <2> QED BY <2>1, <2>2, RenewedHeard
<1>9. CASE OnStartInfo
  <2>1. PICK names \in Seq(Names) :
          Answer("server", "start_info", names) /\ UNCHANGED <<client, net, changes, made>>
    BY <1>9, Replies, ZenonT(40) DEF OnStartInfo, Names
  <2>2. /\ server'.map = server.map /\ server'.acked = server.acked
        /\ server'.store = server.store /\ server'.rejoining = server.rejoining
        /\ Playing' = Playing
    BY <1>1, <1>9 DEF OnStartInfo, ServerTypes, Playing
  <2> QED BY <2>1, <2>2, RenewedHeard
<1>10. CASE SetTimedOut
  <2>1. /\ UNCHANGED <<HandshakeOnly, client>> /\ peerAck'["client"] = peerAck["client"]
        /\ net' \subseteq net /\ Playing
    BY <1>1, <1>10, PeerNames
       DEF SetTimedOut, TakenOver, HandshakeOnly, ServerTypes, Playing, Types, QueueTypes
  <2> QED BY <1>2, <1>3, <2>1, RenewedStill DEF Untouched
<1>11. CASE OnMapChange
  <2>1. PICK names \in Seq(Names) :
          /\ Answer("client", "map_change", names)
          /\ UNCHANGED <<server, net, changes, made>>
          /\ Len(names) = 0 \/ (Len(names) = 1 /\ names[1] = "ready" /\ client'.wanted = 0)
          /\ client'.store = <<>> /\ client'.parts = {} /\ client'.received = 0
          /\ client'.ack = client.ack /\ client'.recvTick = client.recvTick
    BY <1>11, MapChanging
  <2>2. ~Playing
    BY <2>1, NoMapChange
  <2>3. Untouched => Untouched'
    BY <2>1 DEF Untouched
  <2>4. \A k \in 1 .. Len(names) : names[k] # "enter_game"
    BY <2>1
  <2> QED BY <1>2, <2>1, <2>2, <2>3, <2>4, RenewedTaken
<1>12. CASE OnConReady
  <2>1. PICK names \in Seq(Names) :
          /\ Answer("client", "con_ready", names)
          /\ UNCHANGED <<server, client, net, changes, made>>
          /\ Len(names) = 0 \/ (Len(names) = 1 /\ names[1] = "start_info")
    <3>1. "start_info" \in Names
      BY DEF Names
    <3> QED BY <1>12, <3>1, Replies DEF OnConReady
  <2>2. \A k \in 1 .. Len(names) : names[k] # "enter_game"
    BY <2>1
  <2>3. (Untouched => Untouched') /\ Latest' = Latest
    BY <2>1 DEF Untouched, Latest
  <2> QED BY <1>2, <2>1, <2>2, <2>3, RenewedTaken
<1>13. CASE OnReadyToEnter
  <2>1. PICK names \in Seq(Names) :
          /\ Answer("client", "ready_to_enter", names)
          /\ UNCHANGED <<server, net, changes, made>> /\ client' = Entered
    <3>1. "enter_game" \in Names
      BY DEF Names
    <3> QED BY <1>13, <3>1, Replies DEF OnReadyToEnter
  <2>2. Untouched' /\ Latest' = Latest /\ client'.map = client.map
    BY <1>1, <2>1 DEF Entered, ClientTypes, Untouched, Latest
  <2> QED BY <1>2, <2>1, <2>2, RenewedTaken
<1>14. CASE FinishMapDownload
  <2>1. /\ Latest' = Latest /\ ToClient' = ToClient /\ client' = LoadMap(client.wanted)
        /\ client'.map # 0 /\ UNCHANGED <<server, got, peerAck, net>>
        /\ ToServer \in Seq(Chunks)
    BY <1>14, Downloading, HandshakeTypes
  <2>2. PICK names \in Seq(Names) :
          /\ Len(names) = 1 /\ names[1] = "ready"
          /\ Added(ToServer, ToServer', names, Latest, got["client"])
    BY <1>14, Downloading
  <2>3. Untouched => Untouched'
    BY <1>1, <2>1, Loading DEF Untouched
  <2>4. \A m \in Elements(ToServer') : m \in Elements(ToServer) \/ m.type # "enter_game"
    <3>1. \A k \in 1 .. Len(names) : names[k] # "enter_game"
      BY <2>2
    <3> QED BY <2>1, <2>2, <3>1, ElementsAdded
  <2>5. Playing' = Playing /\ Snaps' = Snaps /\ Inputs' = Inputs /\ Current' = Current
    BY <2>1 DEF Playing, Snaps, Inputs, Current
  <2>6. Restarted' /\ Outside' /\ Loaded' /\ Announced'
    BY <2>1, <2>3, <2>5 DEF Renewed, Restarted, Outside, Loaded, Announced
  <2>7. Answered'
    BY <2>1, <2>3, <2>4, <2>5 DEF Renewed, Answered
  <2> QED BY <2>6, <2>7 DEF Renewed
<1>15. ASSUME NEW b, NEW ack, net' \subseteq net \cup Input(b, ack), net \subseteq net',
              UNCHANGED <<server, vital>>, client'.map = client.map, client'.wanted = client.wanted,
              \A m \in Elements(ToServer) :
                 ~(m.type = "enter_game" /\ m.map = server.map),
              ~server.rejoining, Playing /\ client.map = 0 => Untouched'
       PROVE  Renewed'
  <2>1. /\ Snaps' = Snaps /\ Current' = Current /\ Playing' = Playing /\ Latest' = Latest
        /\ ToClient' = ToClient /\ ToServer' = ToServer
    BY <1>15, InputSent DEF Current, Playing, Latest, ToClient, ToServer
  <2>2. Restarted' /\ Outside' /\ Loaded'
    BY <1>15, <2>1 DEF Renewed, Restarted, Outside, Loaded
  <2>3. Announced' /\ Answered'
    BY <1>15, <2>1 DEF Renewed, Announced, Answered
  <2> QED BY <2>2, <2>3 DEF Renewed
<1>16. CASE SendInput
  <2>1. /\ UNCHANGED <<server, vital>> /\ client.cur # NoShot
        /\ net' = net \cup Input(TRUE, client.ack)
        /\ client'.map = client.map /\ client'.wanted = client.wanted
    BY <1>1, <1>16 DEF SendInput, ClientTypes
  <2>2. ~Untouched
    BY <1>4, <2>1
  <2>3. /\ ~server.rejoining /\ ~(Playing /\ client.map = 0)
        /\ \A m \in Elements(ToServer) : ~(m.type = "enter_game" /\ m.map = server.map)
    BY <2>2 DEF Renewed, Restarted, Loaded, Answered
  <2> QED BY <1>15, <2>1, <2>3
<1>17. CASE ShowNext
  <2>1. /\ UNCHANGED <<HandshakeOnly, server, net, peerAck>> /\ client.cur # NoShot
    BY <1>1, <1>17 DEF ShowNext, HandshakeOnly, ClientTypes
  <2>2. ~Untouched
    BY <1>4, <2>1
  <2> QED BY <1>2, <1>3, <2>1, <2>2, RenewedStill
<1>18. ASSUME NEW packet \in net, OnSnap(packet) PROVE Renewed'
  <2>1. /\ packet.type = "snap" /\ packet.ack \in Nat /\ packet.ack >= peerAck["client"]
        /\ client.map # 0 /\ UNCHANGED <<server, vital>>
        /\ client'.map = client.map /\ client'.wanted = client.wanted
        /\ net' \subseteq net \cup Input(client.predicting, -1) /\ net \subseteq net'
    BY <1>18, Snapping
  <2>2. packet \in Snaps /\ ~(packet.ack < peerAck["client"])
    BY <1>3, <2>1 DEF Snaps
  <2>3. /\ ~server.rejoining
        /\ \A m \in Elements(ToServer) : ~(m.type = "enter_game" /\ m.map = server.map)
    BY <2>2 DEF Renewed, Restarted, Answered
  <2> QED BY <1>15, <2>1, <2>3
<1>19. CASE UNCHANGED vars
  BY <1>2, <1>3, <1>19, RenewedStill DEF vars, HandshakeOnly, Untouched
<1> QED
  BY <1>5, <1>6, <1>7, <1>8, <1>9, <1>10, <1>11, <1>12, <1>13, <1>14, <1>16, <1>17, <1>18,
     <1>19, RenewedEnterGame, RenewedChange, RenewedRejoin DEF Next

-----------------------------------------------------------------------------
(* What server and client agree on while the client is in the game.       *)

\* Every snapshot of this game that is stored, sent or used as a base.
Known ==
  {m.shot : m \in Current} \cup {m.base : m \in Current}
    \cup Elements(client.store) \cup Elements(server.store)

\* The inputs that the server would still take.
Accepted == {m \in Inputs : Accepts("server", m)}

\* The ticks that are or may become acknowledged.
Acked == {server.acked, client.ack} \cup {m.tick : m \in Accepted}

\* A snapshot that the client would take is of this game.
Dropping == \A m \in Snaps : m \in Current \/ m.ack < peerAck["client"]

\* There is one snapshot for a tick, and none of a tick to come.
OneEach ==
  /\ \A x, y \in Known : x.tick = y.tick => x = y
  /\ \A x \in Known : x.tick <= server.tick
  /\ client.parts \subseteq Current /\ client.recvTick <= server.tick

\* Later snapshots have later bases, and the server keeps none from before them.
Bases ==
  /\ \A m, k \in Current : m.shot.tick = k.shot.tick => m.base = k.base
  /\ \A m, k \in Current : m.shot.tick < k.shot.tick =>
       k.base = NoShot \/ m.base.tick <= k.base.tick
  /\ \A m \in Current, y \in Elements(server.store) : m.base.tick <= y.tick

\* What the server may take for a base is stored by the client.
Acknowledged ==
  /\ \A t \in Acked : t <= server.tick
  /\ \A y \in Elements(server.store) : y.tick \in Acked => y \in Elements(client.store)

\* So is the base of what the client would take.
Based ==
  \A m \in Current : Fresh(m.shot.tick) => m.base = NoShot \/ m.base \in Elements(client.store)

Agreed == Playing => Dropping /\ OneEach /\ Bases /\ Acknowledged /\ Based

\* A step that makes no snapshot and takes none.
LEMMA AgreedStill ==
  ASSUME Types, Agreed, Playing' => Playing, server'.map = server.map,
         server'.tick \in {server.tick, server.tick + 1},
         Elements(server'.store) \subseteq Elements(server.store),
         client'.store = client.store, client'.parts = client.parts,
         client'.ack = client.ack, client'.recvTick = client.recvTick,
         Snaps' \subseteq Snaps, client.parts \subseteq Current => client.parts \subseteq Current',
         peerAck'["client"] \in Nat, peerAck'["client"] >= peerAck["client"],
         Acked' \subseteq Acked \cup {-1}
  PROVE  Agreed'
<1>1. /\ server.tick \in Nat /\ client.recvTick \in Nat /\ peerAck["client"] \in Nat
      /\ server.store \in Seq(Shots) /\ client.store \in Seq(Shots)
      /\ server.acked \in Int /\ client.ack \in Int
  BY Numbers, HandshakeTypes DEF Types, ServerTypes, ClientTypes
<1>2. /\ \A m \in Snaps : m.ack \in Nat /\ m.shot.tick \in Int /\ m.base.tick \in Int
      /\ \A m \in Inputs : m.tick \in Int
  BY PacketTypes, Numbers
<1>3. Current' \subseteq Current /\ Current \subseteq Snaps
  BY DEF Current
<1>4. Known' \subseteq Known
  BY <1>3 DEF Known
<1>5. \A x \in Known : x.tick \in Int
  BY <1>1, <1>2, <1>3, Ticks DEF Known
<1>6. \A t \in Acked : t \in Int
  BY <1>1, <1>2 DEF Acked, Accepted
<1>7. SUFFICES ASSUME Dropping, OneEach, Bases, Acknowledged, Based
               PROVE  Dropping' /\ OneEach' /\ Bases' /\ Acknowledged' /\ Based'
  BY DEF Agreed
<1>8. Dropping'
  <2>1. \A m \in Snaps' : m \in Current => m \in Current'
    BY DEF Current
  <2>2. \A m \in Snaps : m.ack < peerAck["client"] => m.ack < peerAck'["client"]
    BY <1>1, <1>2
  <2> QED BY <1>7, <2>1, <2>2 DEF Dropping
<1>9. OneEach'
  <2>1. \A x \in Known' : x.tick <= server'.tick
    BY <1>1, <1>4, <1>5, <1>7 DEF OneEach
  <2>2. client'.recvTick <= server'.tick
    BY <1>1, <1>7 DEF OneEach
  <2> HIDE DEF Known
  <2> QED BY <1>4, <1>7, <2>1, <2>2 DEF OneEach
<1>10. Bases'
  BY <1>3, <1>7 DEF Bases
<1>11. Acknowledged'
  <2>1. \A t \in Acked' : t <= server'.tick
    <3>1. -1 <= server'.tick
      BY <1>1
    <3>2. \A t \in Acked : t <= server'.tick
      BY <1>1, <1>6, <1>7 DEF Acknowledged
    <3> QED BY <3>1, <3>2
  <2>2. \A y \in Elements(server'.store) : y.tick \in Acked' => y \in Elements(client'.store)
    <3>1. \A y \in Elements(server.store) : y.tick # -1
      BY <1>1, Ticks, Numbers
    <3> QED BY <1>7, <3>1 DEF Acknowledged
  <2> HIDE DEF Acked
  <2> QED BY <2>1, <2>2 DEF Acknowledged
<1>12. Based'
  BY <1>3, <1>7 DEF Based, Fresh
<1> QED BY <1>8, <1>9, <1>10, <1>11, <1>12

\* The acknowledgements when the server has received more.
LEMMA AckedStill ==
  ASSUME Types, Inputs' \subseteq Inputs, peerAck'["server"] \in Nat,
         peerAck'["server"] >= peerAck["server"],
         server'.acked \in Acked \cup {-1}, client'.ack = client.ack
  PROVE  Acked' \subseteq Acked \cup {-1}
<1>1. peerAck["server"] \in Nat /\ \A m \in Inputs : m.ack \in Nat
  BY HandshakeTypes, PacketTypes
<1>2. Accepted' \subseteq Accepted
  <2>1. \A m \in Inputs : m.ack >= peerAck'["server"] => m.ack >= peerAck["server"]
    BY <1>1
  <2> QED BY <2>1 DEF Accepted, Accepts
<1> QED BY <1>2 DEF Acked

\* The client enters the game, in which nothing was sent so far.
LEMMA AgreedEnter ==
  ASSUME Types, Types', Renewed, Untouched, ~Playing, UNCHANGED <<client, net>>,
         server'.map = server.map, server'.store = server.store,
         server'.acked = server.acked, peerAck'["client"] = peerAck["client"],
         \A m \in Snaps : m.ack < peerAck["client"],
         \A m \in Inputs : m.ack < peerAck'["server"]
  PROVE  Agreed'
<1>1. /\ Current = {} /\ server.acked = -1 /\ server.store = <<>>
      /\ client.store = <<>> /\ client.parts = {} /\ client.ack = -1 /\ client.recvTick = 0
  BY DEF Renewed, Outside, Untouched
<1>2. server'.tick \in Nat /\ peerAck'["server"] \in Nat
  BY Numbers, PeerNames DEF Types, ServerTypes, QueueTypes
<1>3. Current' = {} /\ Snaps' = Snaps /\ Inputs' = Inputs
  BY <1>1 DEF Current, Snaps, Inputs
<1>4. Elements(<<>>) = {}
  BY DEF Elements
<1>5. Known' = {}
  BY <1>1, <1>3, <1>4 DEF Known
<1>6. Accepted' = {}
  <2>1. \A m \in Inputs : m.ack \in Nat
    BY PacketTypes
  <2>2. \A m \in Inputs : ~(m.ack >= peerAck'["server"])
    BY <1>2, <2>1
  <2> QED BY <1>3, <2>2 DEF Accepted, Accepts
<1>7. Acked' = {-1}
  BY <1>1, <1>6 DEF Acked
<1>8. Dropping'
  BY <1>3 DEF Dropping
<1>9. OneEach'
  <2>1. 0 <= server'.tick
    BY <1>2
  <2> HIDE DEF Known
  <2> QED BY <1>1, <1>5, <2>1 DEF OneEach
<1>10. Bases' /\ Based'
  BY <1>3 DEF Bases, Based
<1>11. Acknowledged'
  <2>1. -1 <= server'.tick
    BY <1>2
  <2> HIDE DEF Acked
  <2> QED BY <1>1, <1>4, <1>7, <2>1 DEF Acknowledged
<1> QED BY <1>8, <1>9, <1>10, <1>11 DEF Agreed

\* The server makes a snapshot.
LEMMA AgreedMake ==
  ASSUME Types, Stores, Agreed, NEW parts \in PartCounts, DoSnapshot(parts)
  PROVE  Agreed'
<1>1. PICK shot, base, new :
        /\ Playing /\ shot \in Shots /\ shot.tick = server.tick + 1 /\ shot.map = server.map
        /\ server'.tick = server.tick + 1 /\ server'.map = server.map
        /\ server'.acked = server.acked
        /\ server'.store \in Seq(Shots)
        /\ \A y \in Elements(server'.store) :
             y = shot \/ (y \in Elements(server.store) /\ y.tick >= server.acked)
        /\ server.acked <= server.tick =>
             base = NoShot \/ (base \in Elements(server.store) /\ base.tick = server.acked)
        /\ net' = net \cup new /\ NewSnaps(new, shot, base, got["server"])
        /\ UNCHANGED <<client, peerAck>>
  BY Making DEF Stores
<1>2. Dropping /\ OneEach /\ Bases /\ Acknowledged /\ Based
  BY <1>1 DEF Agreed
<1>3. /\ server.tick \in Nat /\ server.acked \in Int /\ client.recvTick \in Nat
      /\ client.ack \in Int
      /\ server.store \in Seq(Shots) /\ client.store \in Seq(Shots)
  BY Numbers DEF Types, ServerTypes, ClientTypes
<1>4. server.acked <= server.tick
  BY <1>2 DEF Acknowledged, Acked
<1>5. base = NoShot \/ (base \in Elements(server.store) /\ base.tick = server.acked)
  BY <1>1, <1>4
<1>6. /\ Inputs' = Inputs /\ Snaps \subseteq Snaps'
      /\ \A m \in Snaps' : m \in Snaps \/ (m.shot = shot /\ m.base = base)
  BY <1>1, SnapSent
<1>7. /\ Current \subseteq Current'
      /\ \A m \in Current' : m \in Current \/ (m.shot = shot /\ m.base = base)
      /\ \A m \in Snaps' : m.shot = shot => m \in Current'
  BY <1>1, <1>6 DEF Current
<1>8. \A x \in Known' : x \in Known \/ x = shot \/ x = base
  BY <1>1, <1>7 DEF Known
<1>9. base = NoShot \/ base \in Known
  BY <1>5 DEF Known
<1>10. \A x \in Known : x \in Shots \cup {NoShot} /\ x.tick \in Int
  <2>1. \A m \in Current : m.shot \in Shots /\ m.base \in Shots \cup {NoShot}
    BY PacketTypes DEF Current
  <2>2. \A x \in Shots \cup {NoShot} : x.tick \in Int
    BY Numbers DEF Shots
  <2> QED BY <1>3, <2>1, <2>2, Ticks DEF Known
<1>11. \A x \in Shots : x.tick \in Nat /\ x.tick # -1
  BY Numbers DEF Shots
<1>12. \A x \in Known : x.tick < shot.tick /\ x.tick <= server.tick
  BY <1>1, <1>2, <1>3, <1>10 DEF OneEach
<1>13. NoShot.tick = -1 /\ -1 < shot.tick
  BY <1>1, <1>11, Numbers
<1>14. base.tick \in Int /\ base.tick < shot.tick
  BY <1>5, <1>9, <1>10, <1>12, <1>13
<1> HIDE DEF Known
<1>15. Dropping'
  BY <1>1, <1>2, <1>6, <1>7 DEF Dropping
<1>16. OneEach'
  <2>1. \A x, y \in Known' : x.tick = y.tick => x = y
    <3>1. \A x \in Known' : x \in Known \/ x = shot \/ x = NoShot
      BY <1>8, <1>9
    <3>2. \A x \in Known : x.tick = -1 => x = NoShot
      BY <1>10, <1>11
    <3>3. \A x \in Known : x.tick # shot.tick
      BY <1>1, <1>10, <1>11, <1>12
    <3>4. shot.tick # -1
      BY <1>1, <1>11
    <3> QED BY <1>2, <1>13, <3>1, <3>2, <3>3, <3>4 DEF OneEach
  <2>2. \A x \in Known' : x.tick <= server'.tick
    <3>1. \A x \in Known : x.tick <= server.tick + 1
      BY <1>3, <1>10, <1>12
    <3>2. base.tick <= server.tick + 1 /\ shot.tick <= server.tick + 1
      BY <1>1, <1>3, <1>14
    <3> QED BY <1>1, <1>8, <3>1, <3>2
  <2>3. client'.parts \subseteq Current'
    BY <1>1, <1>2, <1>7 DEF OneEach
  <2>4. client'.recvTick <= server'.tick
    BY <1>1, <1>2, <1>3 DEF OneEach
  <2> QED BY <2>1, <2>2, <2>3, <2>4 DEF OneEach
<1>17. \A m \in Current : m.shot \in Known /\ m.base \in Known
  BY DEF Known
<1>18. Bases'
  <2>1. ASSUME NEW m \in Current', NEW k \in Current', m.shot.tick = k.shot.tick
        PROVE  m.base = k.base
    <3>1. \A c \in Current : c.shot.tick # shot.tick
      <4>1. \A c \in Current : c.shot.tick \in Int /\ c.shot.tick < shot.tick
        BY <1>10, <1>12, <1>17
      <4>2. shot.tick \in Int
        BY <1>1, <1>11
      <4> QED BY <4>1, <4>2
    <3>2. CASE m \in Current /\ k \in Current
      BY <1>2, <2>1, <3>2 DEF Bases
    <3>3. CASE m \notin Current /\ k \notin Current
      BY <1>7, <3>3
    <3>4. m \in Current <=> k \in Current
      BY <1>7, <2>1, <3>1
    <3> QED BY <3>2, <3>3, <3>4
  <2>2. ASSUME NEW m \in Current', NEW k \in Current', m.shot.tick < k.shot.tick
        PROVE  k.base = NoShot \/ m.base.tick <= k.base.tick
    <3>1. CASE m \in Current /\ k \in Current
      BY <1>2, <2>2, <3>1 DEF Bases
    <3>2. CASE m \in Current /\ k.base = base
      BY <1>2, <1>5, <3>2 DEF Bases
    <3>3. CASE m.shot = shot
      <4>1. k.shot.tick <= shot.tick
        BY <1>7, <1>11, <1>12, <1>1, <1>10, <1>17
      <4>2. k.shot.tick \in Int /\ shot.tick \in Int
        BY <1>1, <1>7, <1>10, <1>11, <1>17
      <4> QED BY <2>2, <3>3, <4>1, <4>2
    <3> QED BY <1>7, <3>1, <3>2, <3>3
  <2>3. ASSUME NEW m \in Current', NEW y \in Elements(server'.store)
        PROVE  m.base.tick <= y.tick
    <3>1. y \in Shots /\ y.tick \in Nat
      BY <1>1, <1>11, Ticks
    <3>2. CASE m.base = base
      <4>1. CASE y = shot
        BY <1>1, <1>11, <1>14, <3>2, <4>1
      <4>2. CASE y \in Elements(server.store) /\ y.tick >= server.acked
        BY <1>3, <1>5, <1>13, <3>1, <3>2, <4>2
      <4> QED BY <1>1, <4>1, <4>2
    <3>3. CASE m \in Current
      <4>1. CASE y = shot
        BY <1>1, <1>10, <1>11, <1>12, <1>17, <3>3, <4>1
      <4>2. CASE y \in Elements(server.store)
        BY <1>2, <3>3, <4>2 DEF Bases
      <4> QED BY <1>1, <4>1, <4>2
    <3> QED BY <1>7, <3>2, <3>3
  <2> QED BY <2>1, <2>2, <2>3 DEF Bases
<1>19. Acknowledged'
  <2>1. Acked' = Acked
    BY <1>1, <1>6 DEF Acked, Accepted, Accepts
  <2>2. \A t \in Acked : t \in Int
    BY <1>3, PacketTypes, Numbers DEF Acked, Accepted
  <2> HIDE DEF Acked
  <2>3. \A t \in Acked : t <= server'.tick /\ t # shot.tick
    BY <1>1, <1>2, <1>3, <2>2 DEF Acknowledged
  <2> QED BY <1>1, <1>2, <2>1, <2>3 DEF Acknowledged
<1>20. Based'
  <2>1. base = NoShot \/ base \in Elements(client.store)
    <3>1. server.acked \in Acked
      BY DEF Acked
    <3> QED BY <1>2, <1>5, <3>1 DEF Acknowledged
  <2> QED BY <1>1, <1>2, <1>7, <2>1 DEF Based, Fresh
<1> QED BY <1>15, <1>16, <1>18, <1>19, <1>20 DEF Agreed

\* The client takes a snapshot.
LEMMA AgreedTake ==
  ASSUME Types, Types', Stores, Agreed, Renewed, NEW packet \in net, OnSnap(packet)
  PROVE  Agreed'
<1> DEFINE shot == packet.shot
           base == Get(client.store, packet.base.tick)
<1>1. /\ packet \in SnapPackets /\ packet.type = "snap" /\ shot \in Shots
      /\ packet.base \in Shots \cup {NoShot}
      /\ base \in Shots \cup {NoShot} /\ packet.ack \in Nat
      /\ packet.ack >= peerAck["client"] /\ peerAck'["client"] >= peerAck["client"]
      /\ peerAck'["server"] = peerAck["server"]
      /\ Fresh(shot.tick) /\ UNCHANGED <<server, vital, got, changes, made>>
      /\ client'.recvTick = shot.tick
      /\ net' \subseteq net \cup Input(client.predicting, -1) /\ net \subseteq net'
      /\ \/ /\ client'.store = client.store /\ client'.received = client.received
            /\ client'.prev = client.prev /\ client'.cur = client.cur
            /\ client'.parts \subseteq Gathered(packet)
            /\ \/ client'.ack = client.ack /\ net' = net
               \/ client'.ack = -1 /\ packet.base # NoShot /\ base = NoShot
         \/ client' = Stored(shot, base) /\ base = packet.base /\ net' = net
  BY Snapping
<1> HIDE DEF base
<1>2. SUFFICES ASSUME Playing PROVE Agreed'
  BY <1>1 DEF Agreed, Playing
<1>3. Dropping /\ OneEach /\ Bases /\ Acknowledged /\ Based
  BY <1>2 DEF Agreed
<1>4. /\ server.tick \in Nat /\ server.acked \in Int /\ client.recvTick \in Nat
      /\ client.ack \in Int /\ client \in ClientTypes
      /\ server.store \in Seq(Shots) /\ client.store \in Seq(Shots)
      /\ peerAck["client"] \in Nat /\ peerAck'["client"] \in Nat
  BY Numbers, PeerNames DEF Types, ServerTypes, ClientTypes, QueueTypes
<1>5. packet \in Current
  <2>1. packet \in Snaps /\ ~(packet.ack < peerAck["client"])
    BY <1>1, <1>4 DEF Snaps
  <2> QED BY <1>3, <2>1 DEF Dropping
<1>6. packet.base = NoShot \/ packet.base \in Elements(client.store)
  BY <1>1, <1>3, <1>5 DEF Based
<1>7. ~(packet.base # NoShot /\ base = NoShot)
  <2>1. packet.base.tick \in Int
    BY <1>1, Numbers DEF Shots
  <2>2. packet.base \in Elements(client.store) => base = packet.base
    BY <1>4, <2>1, Getting DEF Stores, StoresC, base
  <2> QED BY <1>6, <2>2
<1>8. net' = net /\ Snaps' = Snaps /\ Inputs' = Inputs /\ Current' = Current
      /\ Accepted' = Accepted
  <2>1. net' = net
    BY <1>1, <1>7
  <2> QED BY <1>1, <2>1 DEF Snaps, Inputs, Current, Accepted, Accepts
<1>9. shot.tick \in Nat /\ shot.tick >= client.recvTick /\ shot.tick > client.ack
      /\ shot.tick <= server.tick
  <2>1. shot \in Known
    BY <1>5 DEF Known
  <2> QED BY <1>1, <1>3, <2>1, Numbers DEF Fresh, OneEach, Shots
<1>10. Dropping'
  <2>1. \A m \in Snaps : m.ack < peerAck["client"] => m.ack < peerAck'["client"]
    <3>1. \A m \in Snaps : m.ack \in Nat
      BY PacketTypes
    <3> QED BY <1>1, <1>4, <3>1
  <2> QED BY <1>3, <1>8, <2>1 DEF Dropping
<1>11. \A m \in Current : m.shot.tick \in Int
  BY PacketTypes, Numbers DEF Current
<1>12. CASE /\ client'.store = client.store /\ client'.ack = client.ack
            /\ client'.parts \subseteq Gathered(packet)
  <2>1. Known' = Known
    BY <1>1, <1>8, <1>12 DEF Known
  <2>2. client'.parts \subseteq Current'
    BY <1>3, <1>5, <1>8, <1>12 DEF Gathered, OneEach
  <2>3. OneEach'
    <3> HIDE DEF Known
    <3> QED BY <1>1, <1>3, <1>9, <2>1, <2>2 DEF OneEach
  <2>4. Bases'
    BY <1>1, <1>3, <1>8 DEF Bases
  <2>5. Acknowledged'
    BY <1>1, <1>3, <1>8, <1>12 DEF Acknowledged, Acked
  <2>6. Based'
    <3>1. \A m \in Current : Fresh(m.shot.tick)' => Fresh(m.shot.tick)
      BY <1>1, <1>4, <1>9, <1>11, <1>12 DEF Fresh
    <3> QED BY <1>3, <1>8, <1>12, <3>1 DEF Based, Fresh
  <2> QED BY <1>10, <2>3, <2>4, <2>5, <2>6 DEF Agreed
<1>13. CASE client' = Stored(shot, base) /\ base = packet.base
  <2> DEFINE limit == PurgeTick(base)
  <2>1. base \in Elements(client.store) \cup {NoShot}
    BY <1>6, <1>13
  <2>2. Elements(client'.store) = {x \in Elements(client.store) : x.tick >= limit} \cup {shot}
    BY <1>1, <1>13, <2>1, StoresAdd DEF Stores
  <2>3. limit \in Int /\ limit <= base.tick /\ base.tick \in Int
    BY <1>1, <1>4, Limit, Numbers DEF Shots
  <2>4. client'.ack = shot.tick /\ client'.parts = {}
    BY <1>1, <1>4, <1>13, StoredFields
  <2> HIDE DEF limit, shot
  <2>5. Known' \subseteq Known
    BY <1>1, <1>5, <1>8, <2>2 DEF Known, shot
  <2>6. OneEach'
    <3> HIDE DEF Known
    <3> QED BY <1>1, <1>3, <1>9, <2>4, <2>5 DEF OneEach
  <2>7. Bases'
    BY <1>1, <1>3, <1>8 DEF Bases
  <2>8. Acknowledged'
    <3>1. \A t \in Acked' : t \in Acked \/ t = shot.tick
      BY <1>1, <1>8, <2>4 DEF Acked
    <3>2. ASSUME NEW y \in Elements(server.store), y.tick \in Acked'
          PROVE  y \in Elements(client'.store)
      <4>1. CASE y.tick = shot.tick
        <5>1. y \in Known /\ shot \in Known
          BY <1>5 DEF Known, shot
        <5> QED BY <1>3, <2>2, <4>1, <5>1 DEF OneEach
      <4>2. CASE y.tick \in Acked
        <5>1. y \in Elements(client.store)
          BY <1>3, <4>2 DEF Acknowledged
        <5>2. base.tick <= y.tick /\ y.tick \in Int
          BY <1>3, <1>4, <1>5, <1>13, Ticks DEF Bases
        <5> QED BY <2>2, <2>3, <5>1, <5>2
      <4> QED BY <3>1, <3>2, <4>1, <4>2
    <3> HIDE DEF Acked
    <3> QED BY <1>1, <1>3, <1>9, <3>1, <3>2 DEF Acknowledged
  <2>9. Based'
    <3>1. ASSUME NEW m \in Current, m.shot.tick >= shot.tick, m.shot.tick > shot.tick
          PROVE  m.base = NoShot \/ m.base \in Elements(client'.store)
      <4>1. Fresh(m.shot.tick)
        BY <1>4, <1>9, <1>11, <3>1 DEF Fresh
      <4>2. m.base = NoShot \/ m.base \in Elements(client.store)
        BY <1>3, <4>1 DEF Based
      <4>3. m.base = NoShot \/ base.tick <= m.base.tick
        BY <1>3, <1>5, <1>11, <1>13, <3>1 DEF Bases, shot
      <4>4. m.base.tick \in Int
        BY PacketTypes, Numbers DEF Current
      <4> QED BY <2>2, <2>3, <4>2, <4>3, <4>4
    <3> QED BY <1>1, <1>8, <2>4, <3>1 DEF Based, Fresh
  <2> QED BY <1>10, <2>6, <2>7, <2>8, <2>9 DEF Agreed
<1> QED BY <1>1, <1>7, <1>12, <1>13

\* A step that leaves the snapshots alone.
LEMMA AgreedSame ==
  ASSUME Types, Types', Agreed, Playing' => Playing, server'.map = server.map,
         server'.tick \in {server.tick, server.tick + 1},
         server'.store = server.store, server'.acked = server.acked,
         client'.store = client.store, client'.parts = client.parts,
         client'.ack = client.ack, client'.recvTick = client.recvTick, net' = net,
         peerAck'["client"] >= peerAck["client"], peerAck'["server"] >= peerAck["server"]
  PROVE  Agreed'
<1>1. peerAck'["client"] \in Nat /\ peerAck'["server"] \in Nat
  BY PeerNames DEF Types, QueueTypes
<1>2. Snaps' = Snaps /\ Inputs' = Inputs /\ Current' = Current
  BY DEF Snaps, Inputs, Current
<1>3. server'.acked \in Acked \cup {-1}
  BY DEF Acked
<1>4. Acked' \subseteq Acked \cup {-1}
  BY <1>1, <1>2, <1>3, AckedStill
<1> HIDE DEF Acked
<1> QED BY <1>1, <1>2, <1>4, AgreedStill

LEMMA AgreedNext ==
  Types /\ Handshake /\ Stores /\ Renewed /\ Agreed /\ [Next]_vars => Agreed'
<1> SUFFICES ASSUME Types, Handshake, Stores, Renewed, Agreed, [Next]_vars PROVE Agreed'
  OBVIOUS
<1>1. server \in ServerTypes /\ client \in ClientTypes
  BY DEF Types
<1>2. Types' /\ peerAck'["client"] \in Nat /\ peerAck'["server"] \in Nat
  <2>1. Types'
    BY NextTypes
  <2> QED BY <2>1, PeerNames DEF Types, QueueTypes
<1>3. /\ peerAck["client"] \in Nat /\ peerAck["client"] >= peerAck["client"]
      /\ peerAck["server"] \in Nat /\ peerAck["server"] >= peerAck["server"]
  BY HandshakeTypes
<1>4. CASE Tick
  BY <1>1, <1>2, <1>3, <1>4, AgreedSame DEF Tick, ServerTypes, Playing
<1>5. ASSUME NEW parts \in PartCounts, DoSnapshot(parts) PROVE Agreed'
  BY <1>5, AgreedMake
<1>6. ASSUME NEW packet \in net, OnInput(packet) PROVE Agreed'
  <2>1. packet \in Accepted /\ packet.ack \in Nat
    BY <1>6, PacketTypes DEF OnInput, Accepted, Inputs
  <2>2. /\ UNCHANGED <<client, net>> /\ peerAck'["client"] = peerAck["client"]
        /\ peerAck'["server"] = Larger(peerAck["server"], packet.ack)
    BY <1>6, PeerNames DEF OnInput, Feed, Types, QueueTypes
  <2>3. peerAck'["server"] >= peerAck["server"]
    BY <1>3, <2>1, <2>2 DEF Larger
  <2>4. /\ server'.map = server.map /\ server'.tick = server.tick
        /\ server'.store = server.store /\ Playing' = Playing
        /\ server'.acked \in {server.acked, packet.tick}
    BY <1>1, <1>6 DEF OnInput, ServerTypes, Playing
  <2>5. Snaps' = Snaps /\ Inputs' = Inputs /\ Current' = Current
    BY <2>2, <2>4 DEF Snaps, Inputs, Current
  <2>6. server'.acked \in Acked \cup {-1}
    BY <2>1, <2>4 DEF Acked
  <2>7. Acked' \subseteq Acked \cup {-1}
    BY <1>2, <2>2, <2>3, <2>5, <2>6, AckedStill
  <2> HIDE DEF Acked
  <2> QED BY <1>2, <1>3, <2>2, <2>4, <2>5, <2>7, AgreedStill
<1>7. ASSUME NEW type, NEW names \in Seq(Names), Answer("server", type, names),
             UNCHANGED <<client, net>>, server'.map = server.map,
             server'.tick = server.tick, server'.acked = server.acked,
             server'.store = server.store, Playing' => Playing
      PROVE  Agreed'
  <2>1. peerAck'["server"] >= peerAck["server"] /\ peerAck'["client"] = peerAck["client"]
    BY <1>7, ServerAnswers
  <2> QED BY <1>2, <1>3, <1>7, <2>1, AgreedSame
<1>8. CASE OnReady
  <2>1. PICK names \in Seq(Names) :
          Answer("server", "ready", names) /\ UNCHANGED <<client, net, changes, made>>
    BY <1>8, Replies, ZenonT(40) DEF OnReady, Names
  <2>2. /\ server'.map = server.map /\ server'.tick = server.tick
        /\ server'.acked = server.acked /\ server'.store = server.store
        /\ Playing' = Playing
    BY <1>1, <1>8 DEF OnReady, ServerTypes, Playing
  <2> QED BY <1>7, <2>1, <2>2
<1>9. CASE OnStartInfo
  <2>1. PICK names \in Seq(Names) :
          Answer("server", "start_info", names) /\ UNCHANGED <<client, net, changes, made>>
    BY <1>9, Replies, ZenonT(40) DEF OnStartInfo, Names
  <2>2. /\ server'.map = server.map /\ server'.tick = server.tick
        /\ server'.acked = server.acked /\ server'.store = server.store
        /\ Playing' = Playing
    BY <1>1, <1>9 DEF OnStartInfo, ServerTypes, Playing
  <2> QED BY <1>7, <2>1, <2>2
<1>10. CASE OnEnterGame
  <2>1. PICK names \in Seq(Names) :
          Answer("server", "enter_game", names) /\ UNCHANGED <<client, net, changes, made>>
    BY <1>10, Replies DEF OnEnterGame
  <2>2. /\ server'.map = server.map /\ server'.tick = server.tick
        /\ server'.acked = server.acked /\ server'.store = server.store
        /\ Playing' /\ ~Playing =>
             server.rejoining \/ (server.state = "ready" /\ server.ready)
    BY <1>1, <1>10 DEF OnEnterGame, ServerTypes, Playing
  <2>3. CASE Playing' => Playing
    BY <1>7, <2>1, <2>2, <2>3
  <2>4. CASE Playing' /\ ~Playing
    <3>1. /\ 1 \in 1 .. Len(ToServer) /\ ToServer[1].type = "enter_game"
          /\ Taken(ToServer, ToServer') /\ ToServer \in Seq(Chunks)
          /\ peerAck'["server"] >= ToServer[1].ack /\ peerAck'["client"] = peerAck["client"]
      BY <2>1, ServerAnswers, HandshakeTypes
    <3>2. server.state # "connecting" /\ server.ready
      BY <2>2, <2>4 DEF Handshake, Outdated
    <3>3. ToServer[1].map = server.map
      BY <3>1, <3>2, NothingOld DEF Handshake
    <3>4. ToServer[1] \in Elements(ToServer)
      BY <3>1, ElementsTaken
    <3>5. /\ Untouched
          /\ \A m \in Snaps : m.ack < peerAck["client"]
          /\ \A m \in Inputs : m.ack < ToServer[1].ack
      BY <3>1, <3>3, <3>4 DEF Renewed, Answered
    <3>6. \A m \in Inputs : m.ack < peerAck'["server"]
      <4>1. \A m \in Inputs : m.ack \in Nat
        BY PacketTypes
      <4>2. ToServer[1].ack \in Nat
        BY <3>1, HandshakeTypes
      <4> QED BY <1>2, <3>1, <3>5, <4>1, <4>2
    <3> QED BY <1>2, <2>1, <2>2, <2>4, <3>1, <3>5, <3>6, AgreedEnter
  <2> QED BY <2>3, <2>4
<1>11. CASE ChangeMap \/ Rejoin
  <2>1. ~Playing'
    BY <1>1, <1>11 DEF ChangeMap, Rejoin, Reset, ServerTypes, Playing
  <2> QED BY <2>1 DEF Agreed
<1>12. CASE SetTimedOut
  <2>1. /\ UNCHANGED client /\ peerAck'["client"] = peerAck["client"] /\ Playing
        /\ peerAck'["server"] = 0
        /\ server'.map = server.map /\ server'.tick = server.tick
        /\ server'.store = <<>> /\ server'.acked = -1
        /\ net' = {m \in net : IF m.type = "snap" THEN m.shot.map = server.map
                               ELSE Accepts("server", m)}
    BY <1>1, <1>12, PeerNames
       DEF SetTimedOut, TakenOver, ServerTypes, Playing, Types, QueueTypes
  <2>2. Snaps' \subseteq Snaps /\ Current \subseteq Current'
    BY <2>1 DEF Snaps, Current
  <2>3. Inputs' \subseteq Accepted
    BY <2>1 DEF Inputs, Accepted
  <2>4. Acked' \subseteq Acked \cup {-1}
    BY <2>1, <2>3 DEF Acked, Accepted
  <2>5. Elements(server'.store) \subseteq Elements(server.store)
    BY <2>1 DEF Elements
  <2> HIDE DEF Acked
  <2> QED BY <1>2, <1>3, <2>1, <2>2, <2>4, <2>5, AgreedStill
<1>13. CASE OnMapChange
  <2>1. PICK names \in Seq(Names) : Answer("client", "map_change", names) /\ UNCHANGED server
    BY <1>13, MapChanging
  <2>2. ~Playing
    BY <2>1, NoMapChange
  <2> QED BY <2>1, <2>2 DEF Agreed, Playing
<1>14. CASE FinishMapDownload
  <2>1. CASE Playing
    <3>1. /\ client.map = 0 /\ client' = LoadMap(client.wanted)
          /\ UNCHANGED <<server, got, peerAck, net>>
      BY <1>14, Downloading
    <3>2. Untouched
      BY <2>1, <3>1 DEF Renewed, Loaded
    <3>3. /\ client'.store = client.store /\ client'.parts = client.parts
          /\ client'.ack = client.ack /\ client'.recvTick = client.recvTick
      BY <1>1, <3>1, <3>2, Loading DEF Untouched
    <3> QED BY <1>2, <1>3, <2>1, <3>1, <3>3, AgreedSame
  <2>2. CASE ~Playing
    BY <1>14, <2>2, Downloading DEF Agreed, Playing
  <2> QED BY <2>1, <2>2
<1>15. CASE OnConReady
  <2>1. PICK names \in Seq(Names) :
          Answer("client", "con_ready", names) /\ UNCHANGED <<server, client, net>>
    <3>1. "start_info" \in Names
      BY DEF Names
    <3> QED BY <1>15, <3>1, Replies DEF OnConReady
  <2>2. peerAck'["client"] >= peerAck["client"] /\ peerAck'["server"] = peerAck["server"]
    BY <2>1, ClientAnswers
  <2> QED BY <1>2, <1>3, <2>1, <2>2, AgreedSame DEF Playing
<1>16. CASE OnReadyToEnter
  <2>1. PICK names \in Seq(Names) :
          Answer("client", "ready_to_enter", names) /\ UNCHANGED server
    <3>1. "enter_game" \in Names
      BY DEF Names
    <3> QED BY <1>16, <3>1, Replies DEF OnReadyToEnter
  <2>2. 1 \in 1 .. Len(ToClient) /\ ToClient[1].type = "ready_to_enter"
    BY <2>1, ClientAnswers
  <2>3. ~Playing
    BY <2>2, NoEntry
  <2> QED BY <2>1, <2>3 DEF Agreed, Playing
<1>17. CASE SendInput
  <2>1. /\ UNCHANGED <<server, peerAck>> /\ net' = net \cup Input(TRUE, client.ack)
        /\ client'.store = client.store /\ client'.parts = client.parts
        /\ client'.ack = client.ack /\ client'.recvTick = client.recvTick
    BY <1>1, <1>17 DEF SendInput, ClientTypes
  <2>2. /\ Snaps' = Snaps
        /\ \A m \in Inputs' : m \in Inputs \/ m.tick = client.ack
    BY <2>1, InputSent
  <2>3. Current' = Current /\ Playing' = Playing
    BY <2>1, <2>2 DEF Current, Playing
  <2>4. Acked' \subseteq Acked \cup {-1}
    BY <2>1, <2>2 DEF Acked, Accepted, Accepts
  <2> HIDE DEF Acked
  <2> QED BY <1>2, <1>3, <2>1, <2>2, <2>3, <2>4, AgreedStill
<1>18. CASE ShowNext
  <2>1. /\ UNCHANGED <<server, net, peerAck>>
        /\ client'.store = client.store /\ client'.parts = client.parts
        /\ client'.ack = client.ack /\ client'.recvTick = client.recvTick
    BY <1>1, <1>18 DEF ShowNext, ClientTypes
  <2> QED BY <1>2, <1>3, <2>1, AgreedSame DEF Playing
<1>19. ASSUME NEW packet \in net, OnSnap(packet) PROVE Agreed'
  BY <1>2, <1>19, AgreedTake
<1>20. CASE UNCHANGED vars
  BY <1>2, <1>3, <1>20, AgreedSame DEF vars, Playing
<1> QED
  BY <1>4, <1>5, <1>6, <1>8, <1>9, <1>10, <1>11, <1>12, <1>13, <1>14, <1>15, <1>16, <1>17,
     <1>18, <1>19, <1>20 DEF Next

-----------------------------------------------------------------------------
(* The theorems.                                                           *)

\* The inductive invariant.
IInv == Types /\ Handshake /\ Stores /\ Counted /\ Renewed /\ Agreed

\* It holds in every state.
THEOREM IInvHolds == Spec => []IInv
<1>1. Init => IInv
  <2>1. Init => ~Playing
    BY DEF Init, Playing
  <2> QED BY <2>1, InitTypes, HandshakeInit, StoresInit, RenewedInit DEF IInv, Agreed
<1>2. IInv /\ [Next]_vars => IInv'
  <2>1. IInv /\ [Next]_vars => Stores'
    BY StoresSNext, StoresCNext DEF IInv, Stores
  <2>2. IInv /\ [Next]_vars => Counted'
    BY CountedNext DEF IInv, Stores
  <2>3. IInv /\ [Next]_vars => Types' /\ Handshake' /\ Renewed' /\ Agreed'
    BY NextTypes, HandshakeNext, RenewedNext, AgreedNext DEF IInv
  <2> QED BY <2>1, <2>2, <2>3 DEF IInv
<1> QED BY <1>1, <1>2, PTL DEF Spec

\* The variables have their types, and two snapshots are shown once two were
\* received (client.cpp:2397-2424).
THEOREM TypesOK == Spec => []TypeOK
<1>1. IInv => TypeOK
  <2> SUFFICES ASSUME IInv PROVE TypeOK
    OBVIOUS
  <2>1. Types /\ Shown(client)
    BY DEF IInv, Stores, StoresC
  <2>2. client.store \in Seq(Shots) /\ client.received \in Int
    BY <2>1 DEF Types, ClientTypes
  <2>3. client.cur # NoShot <=> client.received >= 2
    <3>1. CASE client.received < 2
      BY <2>1, <2>2, <3>1 DEF Shown
    <3>2. CASE ~(client.received < 2)
      <4>1. client.cur \in Elements(client.store)
        BY <2>1, <3>2 DEF Shown, Elements
      <4>2. client.cur \in Shots
        BY <2>2, <4>1, Ticks
      <4> QED BY <2>2, <3>2, <4>2, Numbers
    <3> QED BY <3>1, <3>2
  <2> QED BY <2>1, <2>3 DEF Types, ServerTypes, ClientTypes, QueueTypes, TypeOK
<1> QED BY <1>1, IInvHolds, PTL

\* Both storages are in the order of their ticks, which Add asserts and PurgeUntil
\* and Get rely on, and the two snapshots that are shown are stored, the earlier
\* being older (snapshot.cpp:705, client.cpp:3036).
THEOREM StoragesSound == Spec => []StorageSound
<1>1. IInv => StorageSound
  <2> SUFFICES ASSUME IInv PROVE StorageSound
    OBVIOUS
  <2>1. /\ Increasing(server.store) /\ Increasing(client.store) /\ Shown(client)
        /\ client.store \in Seq(Shots)
    BY DEF IInv, Stores, StoresS, StoresC, Types, ClientTypes
  <2>2. ASSUME client.cur # NoShot
        PROVE  /\ client.prev.tick < client.cur.tick
               /\ \E i, j \in 1 .. Len(client.store) :
                    client.store[i] = client.prev /\ client.store[j] = client.cur
    <3>1. PICK i, j \in 1 .. Len(client.store) :
            i < j /\ client.store[i] = client.prev /\ client.store[j] = client.cur
      BY <2>1, <2>2 DEF Shown
    <3> QED BY <2>1, <3>1 DEF Increasing
  <2> QED BY <2>1, <2>2 DEF StorageSound, AddedInOrder, PointersStored
<1> QED BY <1>1, IInvHolds, PTL

\* The base of every snapshot that the client would still take is in its storage,
\* with the content the server made the difference from, and the parts it has of
\* that tick are of the same snapshot (server.cpp:1079-1115, client.cpp:2231-2343).
THEOREM BasesKnown == Spec => []BaseKnown
<1>1. IInv => BaseKnown
  <2> SUFFICES ASSUME IInv, NEW m \in Awaited
               PROVE  /\ m.base = Get(client.store, m.base.tick)
                      /\ m.shot.tick = client.recvTick =>
                           \A part \in client.parts : part.shot = m.shot
    BY DEF BaseKnown
  <2>1. /\ m \in Current /\ Fresh(m.shot.tick) /\ server.state = "ingame" /\ m \in net
    BY DEF Awaited, Current, Snaps
  <2>2. Playing
    BY <2>1 DEF Playing, IInv, Renewed, Restarted
  <2>3. OneEach /\ Based /\ Types /\ Stores
    BY <2>2 DEF IInv, Agreed
  <2>4. client.store \in Seq(Shots) /\ Increasing(client.store)
    BY <2>3 DEF Stores, StoresC, Types, ClientTypes
  <2>5. m.base \in Shots \cup {NoShot} /\ m.base.tick \in Int
    BY <2>1, <2>3, PacketTypes, Numbers DEF Current
  <2>6. m.base = Get(client.store, m.base.tick)
    <3>1. CASE m.base \in Elements(client.store)
      BY <2>4, <2>5, <3>1, Getting
    <3>2. CASE m.base = NoShot
      <4>1. \A x \in Elements(client.store) : x.tick \in Nat
        BY <2>4, Ticks, Numbers
      <4>2. Get(client.store, -1) \in Elements(client.store) \cup {NoShot}
        BY <2>4, Getting
      <4>3. Get(client.store, -1) # NoShot => Get(client.store, -1).tick = -1
        BY <2>4, Getting
      <4>4. Get(client.store, -1) = NoShot
        BY <4>1, <4>2, <4>3
      <4> QED BY <3>2, <4>4, Numbers
    <3> QED BY <2>1, <2>3, <3>1, <3>2 DEF Based
  <2>7. ASSUME m.shot.tick = client.recvTick, NEW part \in client.parts
        PROVE  part.shot = m.shot
    <3>1. part.shot.tick = client.recvTick
      BY <2>3 DEF Stores, StoresC
    <3>2. part.shot \in Known /\ m.shot \in Known
      BY <2>1, <2>3 DEF OneEach, Known
    <3> HIDE DEF Known
    <3> QED BY <2>3, <2>7, <3>1, <3>2 DEF OneEach
  <2> QED BY <2>6, <2>7
<1> QED BY <1>1, IInvHolds, PTL

\* A client in the game takes the next snapshot of the game: no tick of an earlier
\* map or connection is left in what it compares with (client.cpp:2231-2240).
THEOREM NeverStuckHolds == Spec => []NeverStuck
<1>1. IInv => NeverStuck
  <2> SUFFICES ASSUME IInv, Playing PROVE Fresh(server.tick + 1)
    BY DEF NeverStuck, Playing
  <2>1. client.recvTick <= server.tick /\ client.ack <= client.recvTick
    BY DEF IInv, Agreed, OneEach, Stores, StoresC
  <2>2. server.tick \in Int /\ client.recvTick \in Int /\ client.ack \in Int
    BY DEF IInv, Types, ServerTypes, ClientTypes
  <2> QED BY <2>1, <2>2 DEF Fresh
<1> QED BY <1>1, IInvHolds, PTL
=============================================================================
