------------------------------ MODULE Register ------------------------------
(***************************************************************************)
(* src/engine/server/register.cpp with the master server it talks to       *)
(* (MasterServer): how a game server gets itself on the public list, one   *)
(* registration per protocol.  The main thread decides when to send;       *)
(* every request is a job on a thread of its own that waits for the HTTP   *)
(* answer and applies it.  The master server first has to reach the game   *)
(* server, with a token in a UDP packet, and wants the server's info when  *)
(* it does not have it.  Requests, answers and packets may be lost and     *)
(* overtake each other, and either side may be restarted.                  *)
(*                                                                         *)
(* Time is left open: m_NextRegister may have come whenever the main loop  *)
(* looks, so that CheckChallengeStatus, which only brings it forward, has  *)
(* nothing to add, and the master server may drop an entry at any time,    *)
(* not only after 30 seconds.                                              *)
(***************************************************************************)
EXTENDS Sequences, FiniteSets, MasterServer

CONSTANTS
  MaxInFlight,   \* bound: requests of each protocol on their way at a time
  MaxSerial,     \* bound: changes of the info in a life of the server
  MaxTurns       \* bound: other changes from outside (config, restarts, new seeds)

\* The secret of a life of this server is its number; 1 is the first.
ASSUME LifeAssumption == Secrets \subseteq Nat /\ 1 \in Secrets

\* An address of this host is named by its protocol.
Protocols == Addrs

VARIABLES
  life,        \* which life of the game server, naming its m_Secret
  enabled,     \* m_aProtocolEnabled
  serial,      \* m_InfoSerial
  latest,      \* m_LatestSuccessfulInfoSerial
  ok,          \* m_LatestResponseStatus of the protocol is STATUS_OK
  token,       \* m_aChallengeToken, NoToken without m_HaveChallengeToken
  jobs,        \* the CJobs of each protocol in the order of their m_Index
  stray,       \* requests of an earlier life that may still arrive
  deletes,     \* delete requests on their way
  tables,      \* the master server's Servers
  seed,        \* its challenge seed, counted
  packets,     \* challenge packets on their way to this life of the server
  turns,       \* bound: what happened from outside
  known        \* the highest serial of this life whose info the master server took

server == <<life, enabled, serial, latest, ok, token>>
net == <<jobs, stray, deletes, packets>>
master == <<tables, seed>>
vars == <<server, net, master, turns, known>>

NoToken == -1
Answers == {"none", "OK", "NEEDCHALLENGE", "NEEDINFO"}

\* CJob, and its request. overtaken: the answer of a later request has been
\* applied, so that m_Index > m_LatestResponseIndex no longer holds.
Jobs == [serial : Int, hasInfo : BOOLEAN, token : Int, overtaken : BOOLEAN,
         answer : Answers, phase : {"sent", "answered", "applied"}]

Requests == [proto : Protocols, life : Secrets, serial : Int, hasInfo : BOOLEAN, token : Int]

TypeOK ==
  /\ life \in Secrets
  /\ enabled \subseteq Protocols
  /\ serial \in Nat
  /\ latest \in Int
  /\ ok \in [Protocols -> BOOLEAN]
  /\ token \in [Protocols -> Int]
  /\ jobs \in [Protocols -> Seq(Jobs)]
  /\ stray \subseteq Requests
  /\ deletes \subseteq [proto : Protocols, life : Secrets]
  /\ tables \in Tables
  /\ seed \in Nat
  /\ packets \subseteq [proto : Protocols, token : Int]
  /\ turns \in Nat
  /\ known \in Int

\* CRegister up to its first Update: OnNewInfo came before, with serial 0.
Init ==
  /\ life = 1
  /\ enabled \in SUBSET Protocols
  /\ serial = 0
  /\ latest = -1
  /\ ok = [p \in Protocols |-> FALSE]
  /\ token = [p \in Protocols |-> NoToken]
  /\ known = -1
  /\ jobs = [p \in Protocols |-> <<>>]
  /\ stray = {}
  /\ deletes = {}
  /\ packets = {}
  /\ tables = NoServers
  /\ seed = 1
  /\ turns = 0

-----------------------------------------------------------------------------
\* CProtocol::SendRegister for the protocols ps, with the serial there is by then
\* and the token tok[p]. The info goes along unless the last one was taken.
SendRegister(ps, ser, tok) ==
  /\ \A p \in ps : Len(jobs[p]) < MaxInFlight[p]
  /\ jobs' = [p \in Protocols |->
       IF p \notin ps THEN jobs[p]
       ELSE Append(jobs[p], [serial |-> ser, hasInfo |-> ser > latest, token |-> tok[p],
                             overtaken |-> FALSE, answer |-> "none", phase |-> "sent"])]

\* CProtocol::Update of one protocol, its time having come.
Update(p) ==
  /\ p \in enabled
  /\ SendRegister({p}, serial, token)
  /\ UNCHANGED <<server, stray, deletes, packets, master, turns, known>>

\* CRegister::OnPacket and CProtocol::OnToken: the token is sent on at once if the
\* last answer asked for it or the time has come. Nobody asks whether the protocol
\* is still enabled.
OnToken(k) ==
  /\ packets' = packets \ {k}
  /\ token' = [token EXCEPT ![k.proto] = k.token]
  /\ SendRegister({k.proto}, serial, token') \/ UNCHANGED jobs
  /\ UNCHANGED <<life, enabled, serial, latest, ok, stray, deletes, master, turns, known>>

Turn == turns < MaxTurns /\ turns' = turns + 1

\* CRegister::OnNewInfo with another info. What is due is sent at once, and so is
\* the next protocol in line if the last request is a second old.
OnNewInfo ==
  /\ serial < MaxSerial
  /\ serial' = serial + 1
  /\ \E ps \in SUBSET enabled : SendRegister(ps, serial', token)
  /\ UNCHANGED <<life, enabled, latest, ok, token, stray, deletes, packets, master, turns, known>>

\* The delete requests of CProtocol::SendDeleteIfRegistered for the protocols ps.
Deletes(ps) == [proto : {p \in ps : ok[p]}, life : {life}]

\* CRegister::OnConfigChange, with what sv_register and its kin then say.
OnConfigChange(es) ==
  /\ Turn
  /\ es # enabled
  /\ enabled' = es
  /\ SendRegister(es \ enabled, serial, token)
  /\ deletes' = deletes \cup Deletes(enabled \ es)
  /\ ok' = [p \in Protocols |-> ok[p] /\ p \notin enabled \ es]
  /\ UNCHANGED <<life, serial, latest, token, stray, packets, master, known>>

\* The requests that have left a process when it ends, and may still arrive.
Unheard ==
  UNION {{[proto |-> p, life |-> life, serial |-> jobs[p][i].serial,
           hasInfo |-> jobs[p][i].hasInfo, token |-> jobs[p][i].token] :
             i \in {j \in DOMAIN jobs[p] : jobs[p][j].phase = "sent"}} : p \in Protocols}

\* CRegister::OnShutdown if the server is shut down, nothing of it if it dies; then
\* it is started again. The challenge packets of its earlier life are not its own.
Reboot(clean) ==
  /\ Turn
  /\ life + 1 \in Secrets
  /\ life' = life + 1
  /\ deletes' = IF clean THEN deletes \cup Deletes(enabled) ELSE deletes
  /\ stray' = stray \cup Unheard
  /\ enabled' \in SUBSET Protocols
  /\ serial' = 0
  /\ latest' = -1
  /\ ok' = [p \in Protocols |-> FALSE]
  /\ token' = [p \in Protocols |-> NoToken]
  /\ jobs' = [p \in Protocols |-> <<>>]
  /\ packets' = {}
  /\ known' = -1
  /\ UNCHANGED master

-----------------------------------------------------------------------------
\* handle_register: a request is known by its proto, life, serial, hasInfo and
\* token. The challenge is accepted for this seed and the one before, and sent
\* again unless the token is of this seed.
Accepted(r) == r.token \in {seed, seed - 1}

Answer(r) ==
  IF Accepted(r) THEN AddAnswer(tables, r.life, r.serial, r.hasInfo) ELSE "NEEDCHALLENGE"

HandleRegister(r) ==
  /\ tables' = IF Accepted(r) THEN Add(tables, r.proto, r.life, r.serial, r.hasInfo)
                              ELSE tables
  /\ packets' = packets \cup
       (IF r.token = seed \/ r.life # life THEN {} ELSE {[proto |-> r.proto, token |-> seed]})
  /\ known' = IF r.life = life /\ Answer(r) = "OK" /\ r.hasInfo /\ r.serial > known
              THEN r.serial ELSE known

\* The request of a job arrives.
Arrive(p, i) ==
  LET j == jobs[p][i]
      r == [proto |-> p, life |-> life, serial |-> j.serial, hasInfo |-> j.hasInfo,
            token |-> j.token]
  IN  /\ j.phase = "sent"
      /\ HandleRegister(r)
      /\ jobs' = [jobs EXCEPT ![p][i].phase = "answered", ![p][i].answer = Answer(r)]
      /\ UNCHANGED <<server, stray, deletes, seed, turns>>

\* One of an earlier life does, or is lost.
StrayArrives(r) ==
  /\ stray' = stray \ {r}
  /\ \/ HandleRegister(r)
     \/ UNCHANGED <<tables, packets, known>>
  /\ UNCHANGED <<server, jobs, deletes, seed, turns>>

\* handle_delete, or its request is lost.
DeleteArrives(d) ==
  /\ deletes' = deletes \ {d}
  /\ tables' \in {tables, Remove(tables, d.proto, d.life)}
  /\ UNCHANGED <<server, jobs, stray, packets, seed, turns, known>>

\* A challenge packet is lost.
LosePacket(k) ==
  /\ packets' = packets \ {k}
  /\ UNCHANGED <<server, jobs, stray, deletes, master, turns, known>>

\* prune_before.
Prune(a) ==
  /\ tables.addresses[a] # NoSecret
  /\ tables' = Unlist(tables, a)
  /\ UNCHANGED <<server, net, seed, turns, known>>

\* handle_periodic_reseed.
Reseed ==
  /\ Turn
  /\ seed' = seed + 1
  /\ UNCHANGED <<server, net, tables, known>>

\* What a dump of the tables may hold. It is written once a second, and so may be
\* behind them: here it has any infos that were taken, for addresses that may have
\* been listed at the time.
Dumps ==
  {t \in [addresses : [Addrs -> Secrets \cup {NoSecret}],
          servers : [Secrets -> [serial : 0 .. MaxSerial, addrs : SUBSET Addrs]
                                  \cup {NoServer}]] :
     /\ TablesAgree(t)
     /\ \A s \in Secrets : t.servers[s] # NoServer =>
          s < life \/ (s = life /\ t.servers[s].serial <= known)}

\* The master server is started again: with seeds of its own, and with a dump or
\* nothing.
Restart ==
  /\ Turn
  /\ tables' \in Dumps
  /\ seed' = seed + 2
  /\ UNCHANGED <<server, net, known>>

-----------------------------------------------------------------------------
Drop(s, i) == SubSeq(s, 1, i - 1) \o SubSeq(s, i + 1, Len(s))

\* CJob::Run without a usable answer: the request, or the answer, was lost.
Fail(p, i) ==
  /\ jobs[p][i].phase \in {"sent", "answered"}
  /\ jobs' = [jobs EXCEPT ![p] = Drop(@, i)]
  /\ UNCHANGED <<server, stray, deletes, packets, master, turns, known>>

\* CJob::Run under m_Lock: the status is that of the latest request answered.
Apply(p, i) ==
  LET j == jobs[p][i]
  IN  /\ j.phase = "answered"
      /\ jobs' = [jobs EXCEPT ![p] = [k \in 1 .. Len(@) |->
           CASE k = i -> [@[k] EXCEPT !.phase = "applied"]
             [] k < i /\ ~j.overtaken -> [@[k] EXCEPT !.overtaken = TRUE]
             [] OTHER -> @[k]]]
      /\ ok' = [ok EXCEPT ![p] = IF j.overtaken THEN @ ELSE j.answer = "OK"]
      /\ UNCHANGED <<life, enabled, serial, latest, token, stray, deletes,
                     packets, master, turns, known>>

\* Seeded bug: the serial is the one there is now, not the request's.
ApplyInfoOfNow(p, i) ==
  LET j == jobs[p][i]
  IN  /\ j.phase = "applied"
      /\ jobs' = [jobs EXCEPT ![p] = Drop(@, i)]
      /\ latest' = CASE j.answer = "OK" /\ serial > latest -> serial
                     [] j.answer = "NEEDINFO" /\ serial = latest -> latest - 1
                     [] OTHER -> latest
      /\ UNCHANGED <<life, enabled, serial, ok, token, stray, deletes,
                     packets, master, turns, known>>

\* Seeded bug: NEEDINFO does not make the next request carry the info.
ApplyOkOnly(p, i) ==
  LET j == jobs[p][i]
  IN  /\ j.phase = "applied"
      /\ jobs' = [jobs EXCEPT ![p] = Drop(@, i)]
      /\ latest' = IF j.answer = "OK" /\ j.serial > latest THEN j.serial ELSE latest
      /\ UNCHANGED <<life, enabled, serial, ok, token, stray, deletes,
                     packets, master, turns, known>>

\* CJob::Run under the lock of CGlobal, and the end of the job: a success vouches
\* for the info up to its serial, and NEEDINFO takes that back.
ApplyInfo(p, i) ==
  LET j == jobs[p][i]
  IN  /\ j.phase = "applied"
      /\ jobs' = [jobs EXCEPT ![p] = Drop(@, i)]
      /\ latest' = CASE j.answer = "OK" /\ j.serial > latest -> j.serial
                     [] j.answer = "NEEDINFO" /\ j.serial = latest -> latest - 1
                     [] OTHER -> latest
      /\ UNCHANGED <<life, enabled, serial, ok, token, stray, deletes,
                     packets, master, turns, known>>

Next ==
  \/ \E p \in Protocols :
       \/ Update(p)
       \/ \E i \in DOMAIN jobs[p] :
            Arrive(p, i) \/ Fail(p, i) \/ Apply(p, i) \/ ApplyInfo(p, i)
       \/ Prune(p)
  \/ \E k \in packets : OnToken(k) \/ LosePacket(k)
  \/ OnNewInfo
  \/ \E es \in SUBSET Protocols : OnConfigChange(es)
  \/ Reboot(TRUE) \/ Reboot(FALSE)
  \/ \E r \in stray : StrayArrives(r)
  \/ \E d \in deletes : DeleteArrives(d)
  \/ Reseed \/ Restart

Spec == Init /\ [][Next]_vars

\* Both sides run: the main loop and the jobs. A request that is sent
\* again and again is heard and answered at some time, and so is a challenge
\* packet; nobody has to restart anything.
LiveSpec ==
  /\ Spec
  /\ \A p \in Protocols :
       /\ WF_vars(Update(p))
       /\ SF_vars(\E i \in DOMAIN jobs[p] : Arrive(p, i))
       /\ SF_vars(\E i \in DOMAIN jobs[p] : Apply(p, i))
       /\ WF_vars(\E i \in DOMAIN jobs[p] : ApplyInfo(p, i))
       /\ SF_vars(\E k \in packets : k.proto = p /\ OnToken(k))

-----------------------------------------------------------------------------
\* The two tables of the master server agree, whatever arrives in whatever order:
\* the asserts of Servers::add and the unwraps of remove and prune_before hold.
TablesConsistent == TablesAgree(tables)

\* m_LatestSuccessfulInfoSerial never vouches for an info that the master server
\* did not take from this life of the server, however late an answer is applied.
\* Otherwise a changed info would be left out of the requests.
SuccessIsBacked == latest <= known

\* The info on the list does not fall back to an older one while its server stays
\* on it, though requests overtake each other; only the dump a master server
\* starts from may be older.
InfoForwards ==
  [][Restart \/ \A s \in Secrets :
       tables.servers[s] # NoServer /\ tables'.servers[s] # NoServer =>
         tables'.servers[s].serial >= tables.servers[s].serial]_vars

Listed(p) ==
  /\ tables.addresses[p] = life
  /\ tables.servers[life].serial = serial

\* A server that stays up and is to be registered gets onto the list with its
\* latest info, again after every loss there, after a restart of the master
\* server, after new seeds and with its own earlier life still listed.
GetsListed == \A p \in Protocols : <>[](p \in enabled) => []<>Listed(p)
=============================================================================
