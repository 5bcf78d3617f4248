# Formal models of kaizo-network

TLA+ specifications of the parts of this DDNet fork whose correctness depends
on order: of packets, of threads, of callbacks, of wrap-arounds. Each module is
a translation of the C++ under `src/src`; `PROJECT.json` maps every definition
to its lines. TLC checks the modules on small instances, TLAPS proves the core
results for every value of the constants.

## 1. The system and its parts

The program is a game server and a game client built from one code base. Server
and client talk over UDP; each runs its game on one main thread and hands slow
work to other threads.

| Part | Code | Model |
|---|---|---|
| Network connection | `engine/shared/network_conn.cpp`, chunk unpacker in `network.cpp` | `NetConnection`, `NetSequence`, `NetStream` |
| Network server and sessions | `engine/shared/network_server.cpp`, session part of `engine/server/server.cpp` | `NetServer` |
| Snapshot transfer | `engine/shared/snapshot.cpp`, `server.cpp` (`DoSnapshot`), `engine/client/client.cpp` | `Snapshots` |
| Snapshot id pool | `engine/server/snap_id_pool.cpp` | `SnapIdPool`, `SnapIdLease` |
| Ring buffer | `engine/shared/ringbuffer.cpp` | `RingBuffer`, `RingQueue` |
| Job pool | `engine/shared/jobs.cpp` | `JobPool`, `JobPromise` |
| Database pool | `engine/server/databases/connection_pool.cpp`, `SaveScore` in `game/server/scoreworker.cpp` | `DbPool` |
| Teams and saved teams | `game/server/teams.cpp`, `save.cpp`, `gamemodes/ddnet.cpp`, chat commands, `score.cpp` | `GameTeams` |
| Registration on the public list | `engine/server/register.cpp` | `Register` |
| Master server | `mastersrv/src/main.rs` | `MasterServer`, `Register` |
| Background file writer | `base/aio.cpp` | `AioWriter` |
| Network client, token cache, stun, bans, econ | `network_client.cpp`, `network.cpp`, `stun.cpp`, `netban.cpp`, `econ.cpp` | no |
| Server core: inputs, map download, rcon | `engine/server/server.cpp` | no (map download first) |
| Client core: connecting, download, server browser | `engine/client/*.cpp` | no |
| Snapshot deltas, packing, compression | `snapshot.cpp`, `packer.cpp`, `huffman.cpp` | no |
| Console, storage, data files, demos, HTTP | `engine/shared/*` | no |
| Logging, teehistorian | `base/log.cpp`, `game/server/teehistorian.cpp` | no |
| Game simulation, game client, editor, tools | `game/*`, `tools` | no |

What the parts keep, what they do, what is hard about them, and what makes them
correct:

**Network connection.** State per peer: `m_State`, `m_Sequence`, `m_Ack`,
`m_PeerAck`, the resend buffer, the packet under construction, a resend request.
Operations: `QueueChunk`, `Flush`, `Feed`, `UnpackNextChunk`, `Update`,
`Disconnect`. Called by `CNetClient` and by each slot of `CNetServer`. Hard:
loss, repetition and reordering with sequence numbers of ten bits, a buffer that
overflows into an error state, timeouts against late answers. Correct when
messages arrive in order and once, a message is freed only when the other side
has it, and everything sent arrives if the network lets anything through.

**Network server and sessions.** State: 128 slots with a connection each, the
clients of `CServer` beside them (`m_State`, `m_Sixup`, `m_Rejoining`), the
players of the game beside those. Operations: the handshakes of three protocol
versions, drop, timeout, rejoin, `/timeout` takeover, the messages from INFO to
ENTERGAME, kick, redirect, map change. Callbacks lead from the slot to the
client to the game. Hard: three tables that must change together, through every
order of handshake packets, which may also be late or repeated. Correct when the
three agree, no address has two slots, and the limit per IP is kept.

**Snapshot transfer.** State: what the server stored for the client and which
tick the client acknowledged; what the client stored, shows and is assembling.
Operations: `DoSnapshot`, the input messages, the receipt of parts, the map
change messages. Uses the connection for map changes, and plain packets for
snapshots. Hard: both ends must agree on the base of every difference although
acknowledgements are lost and reordered, and ticks start anew with each map.
Correct when every base the client may need is there and is the server's.

**Snapshot id pool.** An array with a stack of free ids and a queue of resting
ids in it. Called by every entity. Correct when an id has one owner, rests five
seconds, and none gets lost.

**Ring buffer.** A doubly linked list of blocks in a fixed memory. Used for
resend buffers, chat and console logs. Correct when it is a queue and never
refuses what it has room for.

**Job pool.** A queue, a list of running jobs, an atomic state per job, a
semaphore. Main thread against workers. Correct when every job runs once or is
aborted, a job that says DONE is done with, and the shutdown ends.

**Database pool.** A ring of 512 queries that three threads walk over with two
semaphores. Correct when no rank gets lost between backup table, local table and
remote database, and the shutdown works off everything.

**Teams and saved teams.** Per team its state (open, started, unfinishable,
finished), lock, team 0 mode, practice and one pending result of a save or load;
per tee what it has done of the race. Operations: the start and finish tiles,
death, spawn, `/team`, `/lock`, `/team0mode`, `/practice`, `/unpractice`,
spectating, leaving, `/save`, `/load`, and the answer of the database many
ticks later. Hard: the handlers call each other in mid-change (a death kills the
team, the last one who leaves makes it finish), and the answer meets another
team than the one that asked. Correct when ranks go to tees that ran, an emptied
team is as new, and a team that is being saved stays together and out of the
race.

**Registration on the public list.** Per protocol: latest answer and its index,
challenge token; shared: the serial of the server info and the last one known to
be taken. Jobs on threads of their own send and apply the answers. The master
server keeps a table of addresses and one of servers, and reaches the game
server by UDP before it lists it. Hard: requests, answers and deletes overtake
each other and outlive the process that sent them. Correct when the two tables
agree, the info is left out only if the master server has it, and a server that
stays up gets listed.

**Background file writer.** A byte ring that grows, between the threads that log
and one that writes, with a reference count of two. Correct when every byte is
in the file once and in order, the end waits for them, and the last of the two
frees the memory.

**The rest** is sequential (console, storage, packing, editor), computes in
floating point (physics, prediction time), is I/O over a library (curl, SDL,
SQL), or is a program of its own. `PROJECT.json` gives the reason part by part,
and lists under "hazards" what in this code is hard to test, at its line, with
the properties that cover it or the reason why none does.

## 2. Modules

Every definition that stands for code is mapped to its lines in `PROJECT.json`.
An action is a whole handler on the main thread; in the modules with threads
(`JobPool`, `DbPool`, `AioWriter`, `Register`) it is what a thread does under one lock, or one access of
an atomic or a semaphore. Operators with "Seeded bug" in their comment are
faulty variants of a definition. No specification uses them. They show that
a property notices the fault: put in place of the right definition, TLC finds
the property violated.

| Module | Contents |
|---|---|
| `NetSequence` | sequence numbers modulo `MaxSeq`: `Succ`, `IsSeqInBackroom`, the acknowledgement check of `Feed` |
| `NetConnection` | two `CNetConnection`s, their unpackers and the network between them |
| `NetStream` | what that should amount to: two reliable streams |
| `NetServer` | slots, clients, players |
| `Snapshots` | one client's snapshots across map changes, rejoins and takeovers |
| `SnapIdPool` / `SnapIdLease` | the pool, link by link / the lease it promises |
| `RingBuffer` / `RingQueue` | the block list / the queue it promises |
| `JobPool` / `JobPromise` | threads, locks, atomics / what a job's owner is promised |
| `DbPool` | main, backup and worker thread, and the tables a rank passes |
| `AioWriter` | the byte ring, the threads that log, the writing thread, the owner |
| `Register` / `MasterServer` | the game server's requests and the network / the master server's tables |
| `GameTeams` | teams of a race, their tees, and the saved games |
| `MCEngineParts` | `SnapIdPool`, `RingBuffer` and `JobPool`, one of them at a time |
| `MCStorage` | `DbPool` and `AioWriter`, one of them at a time |
| other `MC*` | values of constants that a `.cfg` cannot write |
| `*_proofs` | theorems and proofs |

`NetConnection` gives `Snapshots` and `NetServer` what they take for granted:
vital messages arrive in order. `RingBuffer` gives `NetConnection` its resend
buffer, a queue that refuses when it is full (`FLAG_RECYCLE` is off there).
`GameTeams` takes of the database pool that every save and load is answered
once, at any later time, with what became of it. `Register` is built on the
operators of `MasterServer`, which turn tables into tables.

### NetConnection

Variables are the fields of the two connections (`state`, `sequence`, `ack`,
`peerAck`, `buffer`, `construct`, ...), the packets in flight, and two histories:
how many messages each side submitted, and what was delivered. A chunk holds its
number and, for the properties only, which message it is. Actions: `QueueChunk`,
`Flush`, `Disconnect` for the owner; `Feed` for a packet that arrives;
`UnpackNextChunk` for `Recv`; `UpdateErrored`, `UpdateTimedOut`, `UpdateOnline`
for `Update`; `Lose` and the full network for UDP. Clocks are
choices: a step of `Update` picks whether an interval has passed.

The code has no send window. With 1024 numbers the order would break if more than half of them were in use at a
time. The guard `InStep` says they are not; in the program the resend buffer
holds at most 455 chunks before the connection goes to `ERROR`, and `Window`
counts besides what old packets still in flight may carry. `Window` is an
assumption on the environment, not a fact of the code.

### NetServer

`slots[s]` is a slot's connection (`state`, `addr`, tokens, timeout protection),
`clients[s]` the client, `players[s]` the game's player with its timeout code.
The actions are handshake packets from any address at any time (a lost packet is
one that never comes, a late or repeated one is one that comes again), messages
of the client in each state, `Timeout`, `Alive`, `DropErrored`, `Close`, and
the server's own `Kick`, `Redirect`, `MapChange`. Limits by time and
bans are not modelled apart: the server may refuse an acceptable client.

### Snapshots

`server` holds the client's rate, last acknowledged tick and storage; `client`
its stored snapshots, parts, the shown pair and the tick it acknowledges;
`vital` the reliable messages on their way, `net` every packet ever sent.
A packet is received any number of times, or never. `Tick` advances
the map's clock and `DoSnapshot` runs in it or not, depending on the rate, so
that the server may skip ticks. Contents are named by map, slot and tick, and a
difference by its base; unpacking with another base is what the checksum in the
code notices. What is taken for granted:

- A packet acknowledges what its sender had received when it was sent. In the
  code a resent acknowledgement can only be later.
- `/timeout` is sent after 50 snapshots only (`client.cpp:2437`), by when the
  packets of the slot's earlier life are gone; so a takeover starts with an
  empty network.
- A snapshot too large to send is one with no parts.
- When the map changes, at most two messages of earlier handshakes are on their
  way or wait for a download (`HandshakesEnd`). The messages of a handshake do
  not say which map they answer, so this is an assumption on how fast maps
  change, not a fact of the code; see section 5.

### SnapIdPool, RingBuffer

`SnapIdPool` keeps `m_Next` as links, and the loops of `NewId` and `TimeoutIds`
are steps, so that a wrong link shows as it would in the code. `RingBuffer`
keeps headers by address, in units of one header. `CRingBufferBase` is
sequential: `Allocate` and `PopFirst` are one step each, with all the merging.
The loops of `PopFirst`, `Allocate`, `Next` and `Prev` are `Loop`: `Size` turns of
a function that leaves alone what the loop's condition ends at, which is enough
since each turn of the code drops an item, joins a block or passes one. A walk is
`Walk`, cut off after `Size + 1` places so that one that goes round is seen as wrong.

### JobPool, DbPool

A program counter per thread; the steps are those between which another thread
can act. In `JobPool` a job's `Run` is the time between `Push` and `Return`.
In `DbPool` the databases may fail at every use, and the server may die after
every statement: the tables are durable, so an invariant about the tables in
every state is an invariant after any crash.

### AioWriter

What a thread does under the lock is one step; signalling the semaphore after
the unlock is another, so that the thread may look at the ring in between. A
byte is the number of bytes written up to it, so that a wrap or a growth that
copies the wrong part shows. `Grow` allows every size that doubling may lead to.
A write to the file may fail; the error flag of the stream stays set, as the C
library's does.

### Register, MasterServer

A life of the game server is named by its secret. `jobs[p]` are the requests of
protocol `p` in the order of their index; each is sent, answered, and applied in
two steps, because `CJob::Run` takes two locks one after the other. Requests and
deletes of an earlier life stay on their way after it ended. Time is left open:
the main loop may send whenever it looks, and the master server may prune an
entry at any time. `CheckChallengeStatus` only brings the next sending forward,
so it adds nothing here. A master server that is restarted reads its dump, which
is up to a second old: `Dumps` lets it be any tables with infos that were taken.

### GameTeams

The handlers call each other in the middle of a change, so `game` is one record,
each function of `CGameTeams` is an operator from games to games, and an action
is one call from outside. `KillTeam` and the moves to team 0 go through the
players in the order of their ids (`ForEach`), as the loops do. `merit` is a
history: whether the tee has crossed the start since it spawned, and whether it
was in a practising team; it travels with a tee that is saved. `WhileSaving`
names what members may do while a result is pending that `RanksEarned` does not
survive: it is empty in the passing run, and has `"spectate"` in
`GameTeams_spectate`. With anything in it `EmptyHasNoMembers` and
`SavedRunIsOver` are proved all the same.

## 3. Runs

| Run | Distinct states | Question |
|---|---|---|
| `NetConnection_oneway` | 107 000 | Does every message arrive in order and once (`StreamSpec`), is nothing freed early (`SavedUntilDelivered`), skipped unseen (`SkippedWasDelivered`), or acknowledged backwards (`AckForwards`)? |
| `NetConnection_live` | 16 000 | Does every message arrive (`EventuallyDelivered`), unless the connection ends? |
| `NetServer` | 565 000 | Do slot, client and player agree (`HalvesFit`, `ReadyHasPlayer`), with one slot per address (`OneSlotPerAddress`) and few enough per IP (`WithinIpLimit`)? |
| `NetServer_leak` | violation | Can a player outlive its client (`AskedClientExists`)? |
| `NetServer_resume` | violation | Is a player who took over a slot heard (`ResumedIsHeard`)? |
| `Snapshots` | 1 240 000 | Is every base known (`BaseKnown`), is what both ends store in order, and still there when it is pointed to (`StorageSound`), and can the client always go on (`NeverStuck`)? |
| `EngineParts` | 151 000 | Are the snapshot ids a lease (`LeaseSpec`), none lost or refused while one is due (`EveryIdServes`)? Is the ring buffer a queue (`QueueSpec`), whole in both directions (`WalkedBothWays`) and roomy (`RefusedOnlyWhenFull`)? Do jobs keep `PromiseSpec`, is DONE the end (`DoneIsFinished`), does the shutdown leave none behind (`NoneLeftBehind`), and does all of it end (`WorkEnds`)? |
| `Storage` | 192 000 | Database pool: `NoRankLost`, `SuccessIsStored`, `StaysStored` about the tables; `Exclusive`, `WorkedThrough`, `PoolEnds` about the threads. File writer: is every byte accounted for (`AllAccounted`), is the end clean (`EndsClean`), does the thread wake up (`Flushes`)? |
| `DbPool_lost` | violation | `SuccessIsStored` when the backup database can fail |
| `Register` | 354 000 | Do the master server's tables agree (`TablesConsistent`), does it have what the serial vouches for (`SuccessIsBacked`), does the list not fall back (`InfoForwards`), and does a server get listed (`GetsListed`)? |
| `GameTeams` | 420 000 | Are ranks earned (`RanksEarned`), is an emptied team as new (`EmptyHasNoMembers`), does a team being saved stay together (`SavedTeamKept`) and out of the race (`SavedRunIsOver`)? |
| `GameTeams_spectate` | violation | `RanksEarned` when a member may spectate while its team is saved |

The parts of `EngineParts` and of `Storage` share no state, so each is checked
by itself: `Init` chooses the part, and only that part takes steps. The type
invariants are checked in `EngineParts` and `Snapshots`, where a slip in the
code would break them first; they are proved of all modules.

### Bounds, and why they are enough

- `NetConnection`: numbers 0 to 4, a resend buffer of two, a packet of one
  chunk, two packets in flight; the client sends more messages than there are
  numbers, so that numbers wrap and old packets meet new numbers; the buffer
  overflows. The other direction carries acknowledgements and resend requests.
  The run for liveness has fewer messages. `NetConnection_proofs` has no bounds.
- `NetServer`: two slots, three addresses of which two share an IP, a limit of
  one per IP, one timeout code. Two slots are the least for a takeover; a third
  would add a bystander.
- `Snapshots`: ticks 1 to 6 in each map, history of 4 ticks for the
  three seconds, six events in all where a snapshot counts one and a change
  counts two, two parts per snapshot or none. That is three maps with few
  snapshots or one with six: enough that the server purges its base, goes to
  recovery and back, and that packets of two earlier maps or slots are about.
- `SnapIdPool`: three ids (head, middle, tail of each list), a rest of 1, clock
  to 3.
- `RingBuffer`: 7 headers, sizes 1, 2, 3, 5, 7 and one too large; exhaustive,
  without a bound on the number of calls.
- `JobPool`: three jobs, one not abortable, and two workers: both sides of each
  race, and one job left in the queue.
- `DbPool`: three slots and four queries, so that the ring wraps, two outstanding
  at a time. That the ring does not overrun is the hazard at
  `connection_pool.cpp:150`: nothing in the code keeps the program from having
  512 queries outstanding, and `Outstanding` assumes it away. (With as many
  outstanding as slots TLC finds `WorkedThrough` violated.)
- `AioWriter`: a ring that starts with three bytes, a local buffer of two, two
  threads that write one or two bytes at a time, five in all: the ring wraps,
  fills and grows while the thread has part of it.
- `Register`: one protocol with two requests on their way, two lives of the game
  server, two infos, and one disturbance from outside (a switch, a restart, a
  new seed); loss and delay are free. Two requests are the least that can
  overtake each other. What several protocols share, the serial, is covered by
  the proofs, which have no bounds.
- `GameTeams`: two players, one team, at most one saved game, no bound on the
  number of calls. Two players are what every case here takes: one that leaves
  and one that stays. Three players and two teams were tried in simulation,
  without a violation.

`NetConnection`, `DbPool`, `AioWriter` and `Snapshots` stop by themselves when
the bounded messages, queries, bytes or ticks are used up, or when both ends have
hung up or shut down; their runs do not check for deadlock. Nor do those of
`Register` and `GameTeams`, where a server that is switched off, or empty, need
not do anything. The others do.

### Fairness

- `NetConnection`: `Update` and `Recv` are called in every tick, hence weak
  fairness for unpacking; the resend timer of `Update` passes again and again,
  hence strong fairness. The network is a fair lossy link: what is in it again
  and again is received again and again. Without that no protocol delivers.
- `JobPool`, `DbPool`, `AioWriter`: each thread is scheduled (weak fairness per
  thread, and for whoever has a signal to give), jobs return, databases answer,
  and a write to a file ends, well or not. Nothing is assumed about which thread gets a
  lock or a semaphore.
- `Register`: the main loop runs (weak fairness of `Update`); a request that is
  sent again and again is answered, a challenge packet received, an answer
  applied at some time (strong fairness, as each single one may be lost).
  Nothing is assumed about deletes, restarts or pruning, so `GetsListed` holds
  with an entry that is pruned again and again.
- The other modules state safety only; `NeverStuck` in `Snapshots` stands in for
  a liveness property: it says that a client in the game would take the next
  snapshot, with no tick of an earlier map in the way for ever.

### What the violations show

- `NetServer_leak`: a client that connects again while `READY` (its player
  exists, ENTERGAME has not come) is reset to `PREAUTH` without the game being
  told (`server.cpp:1186`). When it drops, `OnClientDrop` is skipped too
  (`:1338`), and the player stays for an empty client. The next vote or
  activity check asks for its authentication state, and the assertion at
  `server.cpp:682` fails.
- `NetServer_resume`: `ResumeConnection` (`network_conn.cpp:579`) does not take
  over `m_Token`. A 0.7 player who takes over a slot from another IP, or a
  slot that was used with 0.6, is not heard again.
- `DbPool_lost`: when the backup database fails, a rank that was not stored
  anywhere can be reported as stored.
- `GameTeams_spectate`: becoming a spectator takes the tee out of its team and
  asks whether the team has finished, also while it is being saved
  (`gamemodes/ddnet.cpp:255`). One member was at the finish and the other not;
  saved and killed, both respawn, the second spectates, and the first gets a rank
  for the run that is in the save.

Two more of this kind have no run of their own. `Shutdown` of the job pool
misses a job that a worker has taken and not yet entered in the list of running
jobs: it runs to its end, and the shutdown waits for it. And `/team0mode` is
possible while a team is being loaded, although `score.cpp:382` refuses to load
in that mode: with `WhileSaving = {"team0mode"}` TLC finds `RanksEarned`
violated.

## 4. Proofs

TLAPS proves the following for all values of the constants that satisfy the
named assumptions of the modules. Each `*_proofs` module follows one line: a lemma that types are
kept, an inductive invariant in named parts, one step per action, then the
properties as consequences.

**NetConnection_proofs.** First the arithmetic of the circle (`NetSequence`):
messages less than `MaxSeq` apart have different numbers; within half the circle
`IsSeqInBackroom` tells old from new; the acknowledgement check admits nothing
older. The window assumption `2 * Window < MaxSeq` enters here. The properties
speak of numbers, which repeat. The invariant ties them to messages, which do not: `Numbers` (every number is its
message modulo `MaxSeq`), `Counts` (who is how far), `Streams` (what was
delivered is 1, 2, 3, ...), `ChunksGood` and `PacketsGood` (every chunk and
acknowledgement in flight is within the window of what its receiver has),
`BufferGood` (the resend buffer is a run of consecutive messages), `Saved` (it
reaches back to the first one not delivered). From it: `DeliveryInOrder`,
`NothingFreedTooEarly`, `SkippingIsSafe`, `AcksGoForwards`, and the refinement
`ImplementsStreams`.

**NetServer_proofs.** `SlotOK(s)`, the agreement of slot, client and player of
one slot, is inductive with `TypeOK` and `OneSlotPerAddress`; the takeover,
which moves a connection between slots, needs the last. From it
`HalvesStayTogether`, `AddressesApart` and `PlayersExist`. `WithinIpLimit`
(`IpLimitHolds`) is proved over two consecutive states, since only acceptance
counts and a rejoin and a takeover must not add. Also `RejoiningStaysInGame`,
which no run lists: a client rejoins only with a player in the game.

**Snapshots_proofs.** For any number of map changes, rejoins, takeovers and
ticks. `Handshake` says which messages of the handshake may be under way and
which map each of them means (`Marks`); that those that mean an earlier map are
too few to take the client through the whole handshake (`Outdated`, where
`HandshakesEnd` enters); and that in the game there is at most one more to come
(`Entering`). `Stores` keeps both storages in the order of their ticks. `Counted`
and `Renewed` say what is left of an earlier map or connection when the client
enters the game: nothing that is still taken. On that rests `Agreed`, about a
client that plays: packets of an earlier map are dropped by the acknowledgement
check (`Dropping`), a tick has one content in everything that is stored or on
its way (`OneEach`), and the base of each snapshot that may yet come, and of the
next one, is in the client's storage as the server has it (`Bases`,
`Acknowledged`, `Based`). From it `BasesKnown`, `StoragesSound` and
`NeverStuckHolds`.

**EngineParts_proofs**, of the id pool: link by link, what hangs on the resting queue rests,
what hangs on the free stack is free, and both are disjoint from what the game
holds. From it `PoolTypes` and the refinement `ImplementsLease`. `IdsServe` is
about the lists as wholes: every id of a list has a place in it (`Chain`,
`Placed`, `Reached`), the resting ones in the order of their times (`Ordered`,
`Serving`). That following such a list from its head meets just the ids of its
state is an induction over the places, done as a first-order lemma: if a place
were missed there would be a first one missed (`WFMin`, over the naturals).

**EngineParts_proofs**, of the ring buffer, for any size of the memory and any
sizes asked for. `RingIInv` gives the ring a `Shape`: the headers tile the memory
and are linked both ways (`Tiling`), no two free blocks lie side by side
(`ApartBut`), and the blocks in use are the items, in the order of the memory but
for wraps (`InOrder`, `Behind`: between two items lies at most the one free block
that a wrap left at the end). It is not enough that the list is well linked. Why
`PopFirst` stops at the right block, and why an empty buffer is one block again, is
in `InOrder` and `ApartBut`. `MergeBack` and `Split` are summarised by what they do to the
fields (`MergeEffect`, `SplitEffect`), and `PopFirst` by what it leaves of the shape
(`Dropped`, `PopShape`). In the middle of it two free blocks do lie side by side: the
exception of `ApartBut`. `RoomMade` is what the loop of `Allocate` keeps: after
some turns the oldest items are gone and the rest has its shape; there are no more items
than places (`FewItems`), so it ends within `Size` turns. Where a new item may go is
`Fits`, and what it does there is `Taken`. `ItemsAre`, `ItemsBackAre` and `BlocksAre`
say what the three walks meet, by an argument about the least place where they would go wrong
(`Numbered`). From it `RingTypes`, `WalkedBothWaysAlways`,
`RefusedOnlyWhenFullAlways` and the refinement `RingRefinesQueue`. The three parts
never disturb each other (`PartsApart`), so `PartsTypes`.

**JobPool_proofs.** Where each job is (`Holding`, `Queued`, `Running`,
`Resting`), what states it may have there, what the main thread's place says
(`Phases`), and that the semaphore never falls behind (`EnoughWakeups`). From it
`DoneMeansFinished`, `ShutdownLeavesNothing`, `NoWakeupLost`, `AbortStays` and
the refinement `KeepsPromise`.

**Storage_proofs**, of the database pool: the two threads walk one ring and are held together by
semaphores alone. `Counting` says how far each is by what it was sent and what it
took (`Signals`, `Places`), what every slot holds (`Ring`) and which results are
in (`Results`); `RoomAssumption`, fewer queries outstanding than slots, enters
here. From it `NeverTwoAtOne` and `ShutdownWorksThrough`. `Keeping` follows a
rank through the tables (`Databases`, `Moving`, `BackedUpSoFar`, `Reported`):
`RanksStayStored` in any case, `RanksAreKept` and `SuccessesAreStored` if the
backup database does not fail, which `DbPool_lost` shows to be needed.

**Storage_proofs**, of the file writer: byte by byte, `FileHolds`, `LocalHolds`, `RingHolds` say
which byte every position has, through wraps and growth (`NoByteLost`). `Phases`
relates owner, thread and reference count, and `Promise` what was written before
the end began to what is in the file when the thread is through (`EndsWell`).

**Register_proofs.** The tables agree, and each operation on them keeps that and
never lowers a listed serial; the messages add only `Backed(known)`: every
request that leaves its info out, and every success not yet applied, is backed
by an info that the master server took. From it `TablesStayConsistent`,
`SuccessesAreBacked` and `InfosGoForwards`, for any number of protocols that
share the serial.

**GameTeams_proofs.** For any number of players, teams and saved games. Each
function is summarised by what it does to the fields of the record (`Forced`,
`Checked`, `Dead`, `DiedLocked`, `Loaded`, ...), so that a proof about a caller
never opens the callee; a loop over the players is summarised by what each of its
turns keeps (`Folding`, `FoldKeeps`). The invariant `Inv(g, X)` is of one game
and exempts the players in `X`: while a locked team is being killed it is open
already, with members that still race, and these are exempt until the loop comes
to them. Between calls nobody is (`Good`). Its parts are `Sound` (a state fits its
members; team 0 has none of its own), `Rest` (nobody races in a team that is
open, saved or loaded), `AllKept` (pending results and members) and `Ranks`: a
tee that has started with its team has crossed the start, one that is dead has
nothing, a team in team 0 mode never finishes, and a save has only what was
earned (`TeamEarns`, `TeeEarns`, `Honest`). `AllKept` is part of it only without
`"spectate"` in `WhileSaving`, and `Ranks` only if `WhileSaving` is empty. So
`TypesOK`, `EmptyTeams` and `SavedRuns` have no hypothesis, `SavedTeams` has the
first and `RanksAreEarned` the second; TLC finds `SavedTeamKept` and
`RanksEarned` violated without them.

**Model-checked only.** All liveness (`EventuallyDelivered`, `WorkEnds`,
`PoolEnds`, `Flushes`, `GetsListed`), which the prover cannot do. Every
invariant, action property and refinement of a passing run is proved. That the
abstraction of a property is the right one is for a reader: no proof relates a
module to the C++.

## 5. What is not modelled, and known limits

- Handshake and sequence numbers are in different modules: that a repeated
  `ACCEPT` resets a live connection's numbers, or that a lost one leaves the
  client alone `ONLINE`, is in neither.
- `Snapshots` assumes `HandshakesEnd`. READY, STARTINFO and ENTERGAME do not say
  which map they answer, so if three of them are left over when the map changes
  once more, the server takes a client into a map it has not loaded. Without the
  assumption TLC finds `BaseKnown` violated with three changes (`MaxChanges = 3`,
  `MaxEvents = 9`, `MaxTick = 3`): it takes three map changes within one round
  trip. In the run, with two changes, the assumption cuts nothing off: TLC finds
  the same states with and without it.
- Between `LoadMap` and `EnterGame` the client stores snapshots of the old map that
  overtook the map change; `EnterGame` clears them.
- In `NetServer`: `/timeout` without argument, `sv_connlimit`, bans, the server
  without `sv_vanilla_antispoof`, reserved slots, debug dummies, shutdown.
- `SaveTeamScore` and saved games write to the database in ways of their own;
  `DbPool` has `SaveScore`. The points, which are added before the rank is stored
  and without a transaction (`scoreworker.cpp:664`), are left out.
- A job that cannot be aborted and is added after `Shutdown` stays queued for
  ever; the owners in this code poll their jobs only while the pool runs.
- `AioWriter` says nothing of the contents of the file after an error of the
  disk.
- `Register`: `OnToken` does not ask whether the protocol is still enabled
  (`register.cpp:414`), so a server that was switched off can register once more
  and stays listed until it is pruned; no property is about that. `MasterServer`
  has the secrets of one game server only, without communities, blocked
  addresses and merged dumps.
- `GameTeams`: the super team, `/swap`, rcon commands that move a tee into a team
  (`ddracecommands.cpp:547`), practice by default, forced solo teams, kill
  protection, times and ticks; votes and invitations are there as the change they
  lead to. A saved tee is loaded as it was (in the code an invalid one gets its
  team killed), and the database answers truthfully. A loaded team whose members
  have all left in the meantime is lost: its save has been deleted
  (`teams.cpp:1249`).

## 6. Plan

Done, in this order: connection (with its proofs), id pool, ring buffer, job
pool, database pool, sessions, snapshots, file writer, registration with the
master server, teams; the proofs about the database pool, the writer and the
registration; those about the snapshots, the ids of the pool, the teams and the
ring buffer. What is left, the most important first:

1. `NetHandshake`: connecting, accepting and rejoining of one client with the
   numbers of `NetConnection`, composed with it; lost and repeated `ACCEPT`s; the
   client's side of `ResumeConnection`.
2. `MapDownload`: the window of `sv_map_window` chunks of the download.
3. `GameTeams` with `/swap` and the super team.

## 7. Running it

    tlc -config NetConnection_oneway.cfg MCNetConnection
    tlapm NetConnection_proofs.tla

`PROJECT.json` names the module of every `.cfg`. No run takes more than three
minutes on two workers.
