-------------------------- MODULE Register_proofs --------------------------
(***************************************************************************)
(* Proofs about the registration, for any number of protocols, of lives of *)
(* the game server and of requests on their way.  What the master server's *)
(* operations do to its tables comes first, then the inductive invariant:  *)
(* a request without the info, and a success, are backed by an info that   *)
(* the master server took.                                                 *)
(***************************************************************************)
EXTENDS Register, SequenceTheorems, TLAPS

\* The tables as the master server always has them.
Sound(t) == t \in Tables /\ TablesAgree(t)

\* No server's info becomes older from t to u, while the server stays listed.
Forwards(t, u) ==
  \A s \in Secrets :
    t.servers[s] # NoServer /\ u.servers[s] # NoServer =>
      u.servers[s].serial >= t.servers[s].serial

LEMMA SoundEmpty == Sound(NoServers)
  BY MasterAssumption DEF Sound, NoServers, Tables, TablesAgree

LEMMA OtherAddrs ==
  ASSUME NEW r \in Servers, NEW as \in SUBSET Addrs
  PROVE  /\ [r EXCEPT !.addrs = as] \in Servers
         /\ [r EXCEPT !.addrs = as].serial = r.serial
         /\ [r EXCEPT !.addrs = as].addrs = as
  BY DEF Servers

\* Unlist keeps the tables sound, and no other server is touched by it.
LEMMA UnlistSound ==
  ASSUME NEW t, Sound(t), NEW a \in Addrs, t.addresses[a] # NoSecret
  PROVE  /\ Sound(Unlist(t, a))
         /\ Forwards(t, Unlist(t, a))
         /\ Unlist(t, a).addresses[a] = NoSecret
         /\ \A s \in Secrets : s # t.addresses[a] =>
              Unlist(t, a).servers[s] = t.servers[s]
<1> DEFINE s0 == t.addresses[a]
           rest == t.servers[s0].addrs \ {a}
           u == Unlist(t, a)
<1>1. /\ t.addresses \in [Addrs -> Secrets \cup {NoSecret}]
      /\ t.servers \in [Secrets -> Servers \cup {NoServer}]
      /\ s0 \in Secrets
  BY DEF Sound, Tables
<1>2. a \in {b \in Addrs : t.addresses[b] = s0}
  OBVIOUS
<1>3. /\ t.servers[s0] # NoServer
      /\ t.servers[s0] \in Servers
      /\ t.servers[s0].addrs = {b \in Addrs : t.addresses[b] = s0}
  BY <1>1, <1>2 DEF Sound, TablesAgree
<1>4. /\ u.addresses = [t.addresses EXCEPT ![a] = NoSecret]
      /\ u.servers = [t.servers EXCEPT
           ![s0] = IF rest = {} THEN NoServer
                   ELSE [t.servers[s0] EXCEPT !.addrs = rest]]
      /\ u = [addresses |-> u.addresses, servers |-> u.servers]
  BY DEF Unlist
<1> DEFINE left == [t.servers[s0] EXCEPT !.addrs = rest]
<1>5. /\ left \in Servers
      /\ left.serial = t.servers[s0].serial
      /\ left.addrs = rest
  <2>1. rest \in SUBSET Addrs
    BY <1>3
  <2> QED BY <1>3, <2>1, OtherAddrs
<1>6. u \in Tables
  BY <1>1, <1>4, <1>5 DEF Tables
<1>7. TablesAgree(u)
  <2> SUFFICES ASSUME NEW s \in Secrets
               PROVE  LET carry == {b \in Addrs : u.addresses[b] = s}
                      IN  IF u.servers[s] = NoServer THEN carry = {}
                          ELSE u.servers[s].addrs = carry /\ carry # {}
    BY DEF TablesAgree
  <2>1. CASE s = s0
    <3>1. {b \in Addrs : u.addresses[b] = s} = rest
      BY <1>1, <1>3, <1>4, <2>1, MasterAssumption
    <3>2. u.servers[s] = IF rest = {} THEN NoServer ELSE left
      BY <1>1, <1>4, <2>1
    <3>3. left # NoServer
      BY <1>5, MasterAssumption DEF Servers
    <3> QED BY <1>5, <3>1, <3>2, <3>3
  <2>2. CASE s # s0
    <3>1. {b \in Addrs : u.addresses[b] = s} = {b \in Addrs : t.addresses[b] = s}
      BY <1>1, <1>4, <2>2, MasterAssumption
    <3>2. u.servers[s] = t.servers[s]
      BY <1>1, <1>4, <2>2
    <3> QED BY <3>1, <3>2 DEF Sound, TablesAgree
  <2> QED BY <2>1, <2>2
<1>8. Forwards(t, u)
  BY <1>1, <1>3, <1>4, <1>5 DEF Forwards, Servers
<1>9. u.addresses[a] = NoSecret /\ \A s \in Secrets : s # s0 => u.servers[s] = t.servers[s]
  BY <1>1, <1>4
<1> QED BY <1>6, <1>7, <1>8, <1>9 DEF Sound

LEMMA RemoveSound ==
  ASSUME NEW t, Sound(t), NEW a \in Addrs, NEW s \in Secrets
  PROVE  Sound(Remove(t, a, s)) /\ Forwards(t, Remove(t, a, s))
<1>1. CASE t.addresses[a] = s
  BY <1>1, UnlistSound, MasterAssumption DEF Remove
<1>2. CASE t.addresses[a] # s
  BY <1>2 DEF Remove, Forwards, Sound, Tables, Servers
<1> QED BY <1>1, <1>2

\* What Servers::add makes of sound tables: they stay sound, the server is
\* listed, and the info it has is at least as new as the request's.
LEMMA EnterSound ==
  ASSUME NEW t, Sound(t), NEW a \in Addrs, NEW s \in Secrets, NEW serial0 \in Int
  PROVE  Sound(Enter(t, a, s, serial0)) /\ Forwards(t, Enter(t, a, s, serial0))
<1> DEFINE c == IF t.addresses[a] \in {NoSecret, s} THEN t ELSE Unlist(t, a)
           old == c.servers[s]
           new == IF old = NoServer THEN [serial |-> serial0, addrs |-> {a}]
                  ELSE [serial |-> IF NeedsInfo(t, s, serial0) THEN serial0 ELSE old.serial,
                        addrs |-> old.addrs \cup {a}]
           u == Enter(t, a, s, serial0)
<1>1. /\ Sound(c)
      /\ Forwards(t, c)
      /\ c.servers[s] = t.servers[s]
      /\ c.addresses[a] \in {NoSecret, s}
  <2>1. CASE t.addresses[a] \in {NoSecret, s}
    BY <2>1 DEF Forwards, Sound, Tables, Servers
  <2>2. CASE t.addresses[a] \notin {NoSecret, s}
    BY <2>2, UnlistSound
  <2> QED BY <2>1, <2>2
<1>2. /\ c.addresses \in [Addrs -> Secrets \cup {NoSecret}]
      /\ c.servers \in [Secrets -> Servers \cup {NoServer}]
  BY <1>1 DEF Sound, Tables
<1>3. old # NoServer => old \in Servers
  BY <1>2
<1>4. new \in Servers
  BY <1>3 DEF Servers
<1>5. u = [addresses |-> [c.addresses EXCEPT ![a] = s],
           servers |-> [c.servers EXCEPT ![s] = new]]
  BY DEF Enter
<1> HIDE DEF c, old, new, u
<1>6. u \in Tables
  BY <1>2, <1>4, <1>5 DEF Tables
<1>7. TablesAgree(u)
  <2> SUFFICES ASSUME NEW s1 \in Secrets
               PROVE  LET carry == {b \in Addrs : u.addresses[b] = s1}
                      IN  IF u.servers[s1] = NoServer THEN carry = {}
                          ELSE u.servers[s1].addrs = carry /\ carry # {}
    BY DEF TablesAgree
  <2> DEFINE was == {b \in Addrs : c.addresses[b] = s1}
             is == {b \in Addrs : u.addresses[b] = s1}
  <2>1. IF c.servers[s1] = NoServer THEN was = {}
        ELSE c.servers[s1].addrs = was /\ was # {}
    BY <1>1 DEF Sound, TablesAgree
  <2>2. CASE s1 = s
    <3>1. is = was \cup {a}
      BY <1>2, <1>5, <2>2
    <3>2. u.servers[s1] = new
      BY <1>2, <1>5, <2>2
    <3>3. new.addrs = was \cup {a}
      BY <2>1, <2>2 DEF new, old
    <3>4. new # NoServer
      BY <1>4, MasterAssumption DEF Servers
    <3> QED BY <3>1, <3>2, <3>3, <3>4
  <2>3. CASE s1 # s
    <3>1. is = was
      BY <1>1, <1>2, <1>5, <2>3, MasterAssumption
    <3>2. u.servers[s1] = c.servers[s1]
      BY <1>2, <1>5, <2>3
    <3> QED BY <2>1, <3>1, <3>2
  <2> QED BY <2>2, <2>3
<1>8. Forwards(t, u)
  <2> SUFFICES ASSUME NEW s1 \in Secrets, t.servers[s1] # NoServer,
                      u.servers[s1] # NoServer
               PROVE  u.servers[s1].serial >= t.servers[s1].serial
    BY DEF Forwards
  <2>1. CASE s1 = s
    <3>1. u.servers[s1] = new /\ old = t.servers[s]
      BY <1>1, <1>2, <1>5, <2>1 DEF old
    <3>2. old \in Servers
      BY <1>3, <2>1, <3>1
    <3>3. new.serial = IF NeedsInfo(t, s, serial0) THEN serial0 ELSE old.serial
      BY <2>1, <3>1 DEF new
    <3>4. NeedsInfo(t, s, serial0) => serial0 > old.serial
      BY <2>1, <3>1 DEF NeedsInfo
    <3> QED BY <2>1, <3>1, <3>2, <3>3, <3>4 DEF Servers
  <2>2. CASE s1 # s
    BY <1>1, <1>2, <1>5, <2>2 DEF Forwards
  <2> QED BY <2>1, <2>2
<1> QED BY <1>6, <1>7, <1>8 DEF Sound, u

LEMMA SameForwards ==
  ASSUME NEW t, Sound(t)
  PROVE  Forwards(t, t)
  BY DEF Forwards, Sound, Tables, Servers

LEMMA AddSound ==
  ASSUME NEW t, Sound(t), NEW a \in Addrs, NEW s \in Secrets,
         NEW serial0 \in Int, NEW hasInfo \in BOOLEAN
  PROVE  /\ Sound(Add(t, a, s, serial0, hasInfo))
         /\ Forwards(t, Add(t, a, s, serial0, hasInfo))
  BY SameForwards, EnterSound DEF Add
-----------------------------------------------------------------------------
(* The inductive invariant.                                                *)

\* The jobs that the infos up to serial k back: one that leaves the info out,
\* and one that was answered with a success.
Backed(k) ==
  {j \in Jobs : /\ ~j.hasInfo => j.serial <= k
                /\ j.answer = "OK" => j.serial <= k}

IInv ==
  /\ TypeOK
  /\ TablesConsistent
  /\ SuccessIsBacked
  /\ jobs \in [Protocols -> Seq(Backed(known))]

LEMMA InitInv == Init => IInv
<1> SUFFICES ASSUME Init PROVE IInv
  OBVIOUS
<1>1. \A S : << >> \in Seq(S)
  BY EmptySeq
<1>2. Sound(NoServers)
  BY SoundEmpty
<1>3. TypeOK
  BY <1>1, <1>2, LifeAssumption DEF Init, TypeOK, Sound, NoToken
<1>4. TablesConsistent /\ SuccessIsBacked
  BY <1>2 DEF Init, TablesConsistent, SuccessIsBacked, Sound
<1>5. jobs \in [Protocols -> Seq(Backed(known))]
  BY <1>1 DEF Init
<1> QED BY <1>3, <1>4, <1>5 DEF IInv

LEMMA DropSeq ==
  ASSUME NEW S, NEW s \in Seq(S), NEW i \in 1 .. Len(s)
  PROVE  Drop(s, i) \in Seq(S)
<1>1. Len(s) \in Nat /\ \A k \in 1 .. Len(s) : s[k] \in S
  BY LenProperties, ElementOfSeq
<1>2. SubSeq(s, 1, i - 1) \in Seq(S)
  BY <1>1, SubSeqProperties
<1>3. SubSeq(s, i + 1, Len(s)) \in Seq(S)
  BY <1>1, SubSeqProperties
<1> QED BY <1>2, <1>3, ConcatProperties DEF Drop

\* What is backed stays backed when the master server takes a newer info.
LEMMA BackedGrows ==
  ASSUME NEW k \in Int, NEW l \in Int, k <= l, NEW s \in Seq(Backed(k))
  PROVE  s \in Seq(Backed(l))
<1>1. Backed(k) \subseteq Backed(l)
  BY DEF Backed, Jobs
<1> QED BY <1>1, SeqMonotonic

LEMMA BackedTyped ==
  ASSUME NEW k, NEW s \in Seq(Backed(k))
  PROVE  s \in Seq(Jobs)
<1>1. Backed(k) \subseteq Jobs
  BY DEF Backed
<1> QED BY <1>1, SeqMonotonic

\* A request that is sent is backed: the info is left out only if a success
\* vouched for it.
LEMMA SendBacked ==
  ASSUME IInv, NEW ps, NEW ser \in Nat, NEW tok \in [Protocols -> Int],
         SendRegister(ps, ser, tok)
  PROVE  jobs' \in [Protocols -> Seq(Backed(known))]
<1>1. latest \in Int /\ known \in Int /\ latest <= known
  BY DEF IInv, TypeOK, SuccessIsBacked
<1> SUFFICES ASSUME NEW p \in Protocols
             PROVE  jobs'[p] \in Seq(Backed(known))
  BY DEF SendRegister
<1>2. jobs[p] \in Seq(Backed(known))
  BY DEF IInv
<1> DEFINE j == [serial |-> ser, hasInfo |-> ser > latest, token |-> tok[p],
                 overtaken |-> FALSE, answer |-> "none", phase |-> "sent"]
<1>3. j \in Backed(known)
  <2>1. (ser > latest) \in BOOLEAN /\ tok[p] \in Int
    BY <1>1
  <2>2. j \in Jobs
    BY <2>1 DEF Jobs, Answers
  <2>3. ~(ser > latest) => ser <= known
    BY <1>1
  <2> QED BY <2>2, <2>3 DEF Backed
<1>4. jobs'[p] = IF p \notin ps THEN jobs[p] ELSE Append(jobs[p], j)
  BY DEF SendRegister
<1> HIDE DEF j
<1> QED BY <1>2, <1>3, <1>4, AppendProperties

\* Whatever request arrives, the tables stay sound and go forwards, and the
\* highest serial taken only grows: to that of a success that brought an info.
LEMMA Handled ==
  ASSUME IInv, NEW r \in Requests, HandleRegister(r)
  PROVE  /\ Sound(tables') /\ Forwards(tables, tables')
         /\ packets' \subseteq [proto : Protocols, token : Int]
         /\ known' \in Int /\ known <= known'
         /\ r.life = life /\ Answer(r) = "OK" /\ r.hasInfo => r.serial <= known'
         /\ Answer(r) \in Answers
<1>1. /\ r.proto \in Addrs /\ r.life \in Secrets /\ r.serial \in Int
      /\ r.hasInfo \in BOOLEAN /\ r.token \in Int
  BY DEF Requests, Protocols
<1>2. Sound(tables) /\ known \in Int /\ seed \in Nat
      /\ packets \subseteq [proto : Protocols, token : Int]
  BY DEF IInv, TypeOK, TablesConsistent, Sound
<1>3. Sound(tables') /\ Forwards(tables, tables')
  BY <1>1, <1>2, AddSound, SameForwards DEF HandleRegister
<1>4. packets' \subseteq [proto : Protocols, token : Int]
  BY <1>1, <1>2 DEF HandleRegister, Protocols
<1>5. /\ known' \in Int /\ known <= known'
      /\ r.life = life /\ Answer(r) = "OK" /\ r.hasInfo => r.serial <= known'
  BY <1>1, <1>2 DEF HandleRegister
<1>6. Answer(r) \in Answers
  BY DEF Answer, AddAnswer, Answers
<1> QED BY <1>3, <1>4, <1>5, <1>6

\* What a step has to show: the invariant, and that the list goes forwards, but
\* for a master server that starts from its dump.
Good == IInv' /\ (Restart \/ Forwards(tables, tables'))

\* The steps that leave the tables, the jobs and what is known alone.
LEMMA QuietGood ==
  ASSUME IInv, TypeOK', UNCHANGED <<tables, jobs, known, latest>>
  PROVE  Good
<1>1. Forwards(tables, tables')
  BY SameForwards DEF IInv, TypeOK, TablesConsistent, Sound
<1> QED BY <1>1 DEF Good, IInv, TablesConsistent, SuccessIsBacked

LEMMA SentGood ==
  ASSUME IInv, TypeOK', UNCHANGED <<tables, known, latest>>,
         jobs' \in [Protocols -> Seq(Backed(known))]
  PROVE  Good
<1>1. Forwards(tables, tables')
  BY SameForwards DEF IInv, TypeOK, TablesConsistent, Sound
<1> QED BY <1>1 DEF Good, IInv, TablesConsistent, SuccessIsBacked

LEMMA JobsTyped ==
  ASSUME NEW k, NEW js \in [Protocols -> Seq(Backed(k))]
  PROVE  js \in [Protocols -> Seq(Jobs)]
  BY BackedTyped

LEMMA UpdateGood ==
  ASSUME IInv, NEW p \in Protocols, Update(p)
  PROVE  Good
<1>1. serial \in Nat /\ token \in [Protocols -> Int]
  BY DEF IInv, TypeOK
<1>2. jobs' \in [Protocols -> Seq(Backed(known))]
  BY <1>1, SendBacked DEF Update
<1>3. TypeOK'
  BY <1>2, JobsTyped DEF IInv, TypeOK, Update, server, master
<1> QED BY <1>2, <1>3, SentGood DEF Update, server, master

LEMMA OnTokenGood ==
  ASSUME IInv, NEW k \in packets, OnToken(k)
  PROVE  Good
<1>1. serial \in Nat /\ k.proto \in Protocols /\ k.token \in Int
      /\ token \in [Protocols -> Int]
  BY DEF IInv, TypeOK
<1>2. token' \in [Protocols -> Int]
  BY <1>1 DEF OnToken
<1>3. jobs' \in [Protocols -> Seq(Backed(known))]
  <2>1. CASE SendRegister({k.proto}, serial, token')
    BY <1>1, <1>2, <2>1, SendBacked
  <2>2. CASE UNCHANGED jobs
    BY <2>2 DEF IInv
  <2> QED BY <2>1, <2>2 DEF OnToken
<1>4. TypeOK'
  BY <1>2, <1>3, JobsTyped DEF IInv, TypeOK, OnToken, master
<1> QED BY <1>3, <1>4, SentGood DEF OnToken, master

LEMMA OnNewInfoGood ==
  ASSUME IInv, OnNewInfo
  PROVE  Good
<1>1. serial' \in Nat /\ token \in [Protocols -> Int]
  BY DEF IInv, TypeOK, OnNewInfo
<1>2. jobs' \in [Protocols -> Seq(Backed(known))]
  BY <1>1, SendBacked DEF OnNewInfo
<1>3. TypeOK'
  BY <1>1, <1>2, JobsTyped DEF IInv, TypeOK, OnNewInfo, master
<1> QED BY <1>2, <1>3, SentGood DEF OnNewInfo, master

LEMMA OnConfigChangeGood ==
  ASSUME IInv, NEW es \in SUBSET Protocols, OnConfigChange(es)
  PROVE  Good
<1>1. serial \in Nat /\ token \in [Protocols -> Int]
      /\ enabled \subseteq Protocols /\ life \in Secrets
  BY DEF IInv, TypeOK
<1>2. jobs' \in [Protocols -> Seq(Backed(known))]
  BY <1>1, SendBacked DEF OnConfigChange
<1>3. Deletes(enabled \ es) \subseteq [proto : Protocols, life : Secrets]
  BY <1>1 DEF Deletes
<1>4. ok' \in [Protocols -> BOOLEAN] /\ turns' \in Nat
  BY DEF IInv, TypeOK, OnConfigChange, Turn
<1>5. TypeOK'
  BY <1>2, <1>3, <1>4, JobsTyped DEF IInv, TypeOK, OnConfigChange, master
<1> QED BY <1>2, <1>5, SentGood DEF OnConfigChange, master

LEMMA JobTyped ==
  ASSUME IInv, NEW p \in Protocols, NEW i \in DOMAIN jobs[p]
  PROVE  /\ jobs[p][i] \in Backed(known)
         /\ jobs[p][i] \in Jobs
         /\ jobs[p] \in Seq(Backed(known))
         /\ i \in 1 .. Len(jobs[p])
<1>1. jobs[p] \in Seq(Backed(known))
  BY DEF IInv
<1>2. i \in 1 .. Len(jobs[p])
  BY <1>1, LenProperties
<1> QED BY <1>1, <1>2, ElementOfSeq DEF Backed

LEMMA RebootGood ==
  ASSUME IInv, NEW clean \in BOOLEAN, Reboot(clean)
  PROVE  Good
<1>1. \A S : << >> \in Seq(S)
  BY EmptySeq
<1>2. stray' \subseteq Requests
  <2>1. ASSUME NEW p \in Protocols, NEW i \in DOMAIN jobs[p]
        PROVE  [proto |-> p, life |-> life, serial |-> jobs[p][i].serial,
                hasInfo |-> jobs[p][i].hasInfo, token |-> jobs[p][i].token] \in Requests
    BY JobTyped DEF IInv, TypeOK, Jobs, Requests
  <2>2. Unheard \subseteq Requests
    BY <2>1 DEF Unheard
  <2> QED BY <2>2 DEF Reboot, IInv, TypeOK
<1>3. deletes' \subseteq [proto : Protocols, life : Secrets]
  BY DEF Reboot, Deletes, IInv, TypeOK
<1>4. jobs' \in [Protocols -> Seq(Backed(known'))] /\ jobs' \in [Protocols -> Seq(Jobs)]
  BY <1>1 DEF Reboot
<1>5. TypeOK'
  BY <1>2, <1>3, <1>4 DEF Reboot, IInv, TypeOK, Turn, NoToken, master
<1>6. Forwards(tables, tables')
  BY SameForwards DEF Reboot, master, IInv, TypeOK, TablesConsistent, Sound
<1> QED BY <1>4, <1>5, <1>6
        DEF Good, IInv, Reboot, TablesConsistent, SuccessIsBacked, master

\* The answer to a job's request is backed as the request was.
LEMMA ArriveGood ==
  ASSUME IInv, NEW p \in Protocols, NEW i \in DOMAIN jobs[p], Arrive(p, i)
  PROVE  Good
<1> DEFINE j == jobs[p][i]
           r == [proto |-> p, life |-> life, serial |-> j.serial,
                 hasInfo |-> j.hasInfo, token |-> j.token]
           answered == [j EXCEPT !.phase = "answered", !.answer = Answer(r)]
<1>1. /\ j \in Jobs /\ j \in Backed(known) /\ jobs[p] \in Seq(Backed(known))
      /\ i \in 1 .. Len(jobs[p])
  BY JobTyped
<1>2. r \in Requests
  BY <1>1 DEF IInv, TypeOK, Jobs, Requests
<1>3. HandleRegister(r)
  BY DEF Arrive
<1> HIDE DEF r
<1>4. /\ Sound(tables') /\ Forwards(tables, tables')
      /\ packets' \subseteq [proto : Protocols, token : Int]
      /\ known' \in Int /\ known <= known'
      /\ r.life = life /\ Answer(r) = "OK" /\ r.hasInfo => r.serial <= known'
      /\ Answer(r) \in Answers
  BY <1>2, <1>3, Handled
<1>5. known \in Int /\ latest \in Int /\ latest <= known
  BY DEF IInv, TypeOK, SuccessIsBacked
<1>6. answered \in Backed(known')
  <2>1. answered \in Jobs
    BY <1>1, <1>4 DEF Jobs
  <2>2. ~j.hasInfo => j.serial <= known'
    BY <1>1, <1>4, <1>5 DEF Backed, Jobs
  <2>3. Answer(r) = "OK" => j.serial <= known'
    BY <1>4, <2>2 DEF r
  <2>4. /\ answered.hasInfo = j.hasInfo /\ answered.serial = j.serial
        /\ answered.answer = Answer(r)
    BY <1>1 DEF Jobs
  <2> QED BY <2>1, <2>2, <2>3, <2>4 DEF Backed
<1>7. jobs' = [jobs EXCEPT ![p] = [jobs[p] EXCEPT ![i] = answered]]
  BY DEF Arrive, r
<1> HIDE DEF answered
<1>8. ASSUME NEW q \in Protocols PROVE jobs'[q] \in Seq(Backed(known'))
  <2>1. jobs[q] \in Seq(Backed(known'))
    BY <1>4, <1>5, BackedGrows DEF IInv
  <2>2. [jobs[q] EXCEPT ![i] = answered] \in Seq(Backed(known')) \/ q # p
    BY <1>1, <1>6, <2>1, ExceptSeq
  <2> QED BY <1>7, <2>1, <2>2 DEF IInv
<1>9. jobs' \in [Protocols -> Seq(Backed(known'))]
  BY <1>7, <1>8 DEF IInv
<1>10. TypeOK'
  BY <1>4, <1>9, JobsTyped DEF Arrive, IInv, TypeOK, Sound, server
<1> QED BY <1>4, <1>5, <1>9, <1>10
        DEF Good, IInv, Arrive, Sound, TablesConsistent, SuccessIsBacked, server

LEMMA StrayArrivesGood ==
  ASSUME IInv, NEW r \in stray, StrayArrives(r)
  PROVE  Good
<1>1. r \in Requests /\ known \in Int /\ latest \in Int /\ latest <= known
  BY DEF IInv, TypeOK, SuccessIsBacked
<1>2. /\ Sound(tables') /\ Forwards(tables, tables')
      /\ packets' \subseteq [proto : Protocols, token : Int]
      /\ known' \in Int /\ known <= known'
  <2>1. CASE HandleRegister(r)
    BY <1>1, <2>1, Handled
  <2>2. CASE UNCHANGED <<tables, packets, known>>
    BY <1>1, <2>2, SameForwards DEF IInv, TypeOK, TablesConsistent, Sound
  <2> QED BY <2>1, <2>2 DEF StrayArrives
<1>3. jobs' \in [Protocols -> Seq(Backed(known'))]
  BY <1>1, <1>2, BackedGrows DEF StrayArrives, IInv
<1>4. TypeOK'
  BY <1>2, <1>3, JobsTyped DEF StrayArrives, IInv, TypeOK, Sound, server
<1> QED BY <1>1, <1>2, <1>3, <1>4
        DEF Good, IInv, StrayArrives, Sound, TablesConsistent, SuccessIsBacked, server

\* The steps of the master server that only touch its tables.
LEMMA TablesGood ==
  ASSUME IInv, Sound(tables'), Restart \/ Forwards(tables, tables'), TypeOK',
         UNCHANGED <<jobs, known, latest>>
  PROVE  Good
  BY DEF Good, IInv, Sound, TablesConsistent, SuccessIsBacked

LEMMA MasterGood ==
  ASSUME IInv,
         \/ \E d \in deletes : DeleteArrives(d)
         \/ \E a \in Protocols : Prune(a)
         \/ Reseed
         \/ Restart
  PROVE  Good
<1>1. Sound(tables) /\ tables.addresses \in [Addrs -> Secrets \cup {NoSecret}]
  BY DEF IInv, TypeOK, TablesConsistent, Sound, Tables
<1>2. ASSUME NEW d \in deletes, DeleteArrives(d) PROVE Good
  <2>1. d.proto \in Addrs /\ d.life \in Secrets
    BY DEF IInv, TypeOK, Protocols
  <2>2. Sound(tables') /\ Forwards(tables, tables')
    BY <1>1, <1>2, <2>1, RemoveSound, SameForwards DEF DeleteArrives
  <2>3. TypeOK'
    BY <1>2, <2>2 DEF DeleteArrives, IInv, TypeOK, Sound, server
  <2> QED BY <1>2, <2>2, <2>3, TablesGood DEF DeleteArrives, server
<1>3. ASSUME NEW a \in Protocols, Prune(a) PROVE Good
  <2>1. Sound(tables') /\ Forwards(tables, tables')
    BY <1>1, <1>3, UnlistSound DEF Prune, Protocols
  <2>2. TypeOK'
    BY <1>3, <2>1 DEF Prune, IInv, TypeOK, Sound, server, net
  <2> QED BY <1>3, <2>1, <2>2, TablesGood DEF Prune, server, net
<1>4. CASE Reseed
  <2>1. TypeOK'
    BY <1>4 DEF Reseed, Turn, IInv, TypeOK, server, net
  <2> QED BY <1>4, <2>1, QuietGood DEF Reseed, server, net
<1>5. CASE Restart
  <2>1. Dumps \subseteq Tables
    <3>1. [serial : 0 .. MaxSerial, addrs : SUBSET Addrs] \subseteq Servers
      BY DEF Servers
    <3> QED BY <3>1 DEF Dumps, Tables
  <2>2. Sound(tables')
    BY <1>5, <2>1 DEF Restart, Dumps, Sound
  <2>3. TypeOK'
    BY <1>5, <2>2 DEF Restart, Turn, IInv, TypeOK, Sound, server, net
  <2> QED BY <1>5, <2>2, <2>3, TablesGood DEF Restart, server, net
<1> QED BY <1>2, <1>3, <1>4, <1>5

LEMMA LosePacketGood ==
  ASSUME IInv, NEW k \in packets, LosePacket(k)
  PROVE  Good
<1>1. TypeOK'
  BY DEF LosePacket, IInv, TypeOK, server, master
<1> QED BY <1>1, QuietGood DEF LosePacket, server, master

\* A job that ends leaves the others as they are.
LEMMA DropBacked ==
  ASSUME IInv, NEW p \in Protocols, NEW i \in DOMAIN jobs[p],
         jobs' = [jobs EXCEPT ![p] = Drop(@, i)]
  PROVE  jobs' \in [Protocols -> Seq(Backed(known))]
<1>1. Drop(jobs[p], i) \in Seq(Backed(known))
  BY JobTyped, DropSeq
<1> QED BY <1>1 DEF IInv

LEMMA FailGood ==
  ASSUME IInv, NEW p \in Protocols, NEW i \in DOMAIN jobs[p], Fail(p, i)
  PROVE  Good
<1>1. jobs' \in [Protocols -> Seq(Backed(known))]
  BY DropBacked DEF Fail
<1>2. TypeOK'
  BY <1>1, JobsTyped DEF Fail, IInv, TypeOK, server, master
<1> QED BY <1>1, <1>2, SentGood DEF Fail, server, master

LEMMA ApplyGood ==
  ASSUME IInv, NEW p \in Protocols, NEW i \in DOMAIN jobs[p], Apply(p, i)
  PROVE  Good
<1> DEFINE j == jobs[p][i]
           new(k) == CASE k = i -> [jobs[p][k] EXCEPT !.phase = "applied"]
                       [] k < i /\ ~j.overtaken -> [jobs[p][k] EXCEPT !.overtaken = TRUE]
                       [] OTHER -> jobs[p][k]
           s == [k \in 1 .. Len(jobs[p]) |-> new(k)]
<1>1. jobs[p] \in Seq(Backed(known)) /\ Len(jobs[p]) \in Nat
      /\ i \in 1 .. Len(jobs[p]) /\ DOMAIN jobs[p] = 1 .. Len(jobs[p])
  BY JobTyped, LenProperties
<1>2. ASSUME NEW e \in Backed(known)
      PROVE  /\ [e EXCEPT !.phase = "applied"] \in Backed(known)
             /\ [e EXCEPT !.overtaken = TRUE] \in Backed(known)
  BY DEF Backed, Jobs
<1>3. ASSUME NEW k \in 1 .. Len(jobs[p]) PROVE new(k) \in Backed(known)
  <2>1. jobs[p][k] \in Backed(known)
    BY <1>1, JobTyped
  <2> HIDE DEF j
  <2> QED BY <1>2, <2>1
<1>4. s \in Seq(Backed(known))
  <2> HIDE DEF new
  <2> QED BY <1>1, <1>3, IsASeq
<1>5. jobs' = [jobs EXCEPT ![p] = s]
  BY DEF Apply
<1> HIDE DEF s, j
<1>6. jobs' \in [Protocols -> Seq(Backed(known))]
  BY <1>4, <1>5 DEF IInv
<1>7. ok' \in [Protocols -> BOOLEAN]
  BY JobTyped DEF Apply, IInv, TypeOK, Jobs
<1>8. TypeOK'
  BY <1>6, <1>7, JobsTyped DEF Apply, IInv, TypeOK, master
<1> QED BY <1>6, <1>8, SentGood DEF Apply, master

\* A success vouches for no more than the master server took.
LEMMA ApplyInfoGood ==
  ASSUME IInv, NEW p \in Protocols, NEW i \in DOMAIN jobs[p], ApplyInfo(p, i)
  PROVE  Good
<1>1. jobs[p][i] \in Backed(known) /\ jobs[p][i] \in Jobs
  BY JobTyped
<1>2. latest \in Int /\ known \in Int /\ latest <= known
  BY DEF IInv, TypeOK, SuccessIsBacked
<1>3. latest' \in Int /\ latest' <= known
  BY <1>1, <1>2 DEF ApplyInfo, Backed, Jobs
<1>4. jobs' \in [Protocols -> Seq(Backed(known))]
  BY DropBacked DEF ApplyInfo
<1>5. TypeOK'
  BY <1>3, <1>4, JobsTyped DEF ApplyInfo, IInv, TypeOK, master
<1>6. Forwards(tables, tables')
  BY SameForwards DEF ApplyInfo, master, IInv, TypeOK, TablesConsistent, Sound
<1> QED BY <1>3, <1>4, <1>5, <1>6
        DEF Good, IInv, ApplyInfo, master, TablesConsistent, SuccessIsBacked

LEMMA StepGood ==
  ASSUME IInv, [Next]_vars
  PROVE  Good
<1>1. ASSUME NEW p \in Protocols, NEW i \in DOMAIN jobs[p],
             Arrive(p, i) \/ Fail(p, i) \/ Apply(p, i) \/ ApplyInfo(p, i)
      PROVE  Good
  BY <1>1, ArriveGood, FailGood, ApplyGood, ApplyInfoGood
<1>2. CASE UNCHANGED vars
  <2>1. TypeOK'
    BY <1>2 DEF vars, server, net, master, IInv, TypeOK
  <2> QED BY <1>2, <2>1, QuietGood DEF vars, server, net, master
<1>3. CASE Next
  BY <1>1, <1>3, UpdateGood, OnTokenGood, LosePacketGood, OnNewInfoGood,
     OnConfigChangeGood, RebootGood, StrayArrivesGood, MasterGood DEF Next
<1> QED BY <1>2, <1>3

LEMMA Invariant == Spec => []IInv
<1>1. Init => IInv
  BY InitInv
<1>2. IInv /\ [Next]_vars => IInv'
  BY StepGood DEF Good
<1> QED BY <1>1, <1>2, PTL DEF Spec
-----------------------------------------------------------------------------
\* Every variable keeps its type.
THEOREM TypesOK == Spec => []TypeOK
<1>1. IInv => TypeOK
  BY DEF IInv
<1> QED BY <1>1, Invariant, PTL

\* The asserts and unwraps of the master server hold for every number of servers,
\* protocols and requests, lost, late or of an earlier life.
THEOREM TablesStayConsistent == Spec => []TablesConsistent
<1>1. IInv => TablesConsistent
  BY DEF IInv
<1> QED BY <1>1, Invariant, PTL

\* CRegister never takes an info for known that the master server did not take,
\* whatever order the answers are applied in.
THEOREM SuccessesAreBacked == Spec => []SuccessIsBacked
<1>1. IInv => SuccessIsBacked
  BY DEF IInv
<1> QED BY <1>1, Invariant, PTL

\* A listed info is never replaced by an older one, but by a master server that
\* starts from its dump.
THEOREM InfosGoForwards == Spec => InfoForwards
<1>1. IInv /\ [Next]_vars =>
        [Restart \/ \A s \in Secrets :
           tables.servers[s] # NoServer /\ tables'.servers[s] # NoServer =>
             tables'.servers[s].serial >= tables.servers[s].serial]_vars
  BY StepGood DEF Good, Forwards
<1> QED BY <1>1, Invariant, PTL DEF Spec, InfoForwards
=============================================================================
