------------------------- MODULE GameTeams_proofs -------------------------
(***************************************************************************)
(* The invariants of GameTeams, for any numbers of clients, teams and      *)
(* saved games.                                                            *)
(*                                                                         *)
(* The functions of the game call each other, and four of them loop over   *)
(* the clients.  So each is first summarised by what it does to the fields *)
(* of the record (Forced, Checked, Dead, DiedLocked, ...), and a loop by   *)
(* what each of its turns keeps (FoldsTo, Keeps).  The invariant Inv(g, X) *)
(* is then shown function by function, where the tees of X are exempt:     *)
(* while a locked team is being killed, its members that are yet to be     *)
(* killed race in a team that is open already.                             *)
(***************************************************************************)
EXTENDS GameTeams, FiniteSetTheorems, WellFoundedInduction, TLAPS

----------------------------------------------------------------------------
(* Finite sets of clients, and loops over them.                            *)

ClientSets == SUBSET Clients

\* Sets of clients are finite, and shrink by one with each client taken out.
LEMMA ClientSetsFinite ==
  /\ \A S \in ClientSets : IsFiniteSet(S) /\ Cardinality(S) \in Nat
  /\ \A S \in ClientSets : Cardinality(S) = 0 <=> S = {}
  /\ \A S \in ClientSets : \A x \in S :
       S \ {x} \in ClientSets /\ Cardinality(S \ {x}) = Cardinality(S) - 1
<1>1. \A S \in ClientSets : IsFiniteSet(S)
  BY TeamsAssumption, FS_Subset DEF ClientSets
<1>2. \A S \in ClientSets : Cardinality(S) \in Nat
  BY <1>1, FS_CardinalityType
<1>3. \A S \in ClientSets : Cardinality(S) = 0 <=> S = {}
  BY <1>1, FS_EmptySet
<1>4. \A S \in ClientSets : \A x \in S : Cardinality(S \ {x}) = Cardinality(S) - 1
  BY <1>1, FS_RemoveElement
<1> QED BY <1>1, <1>2, <1>3, <1>4 DEF ClientSets

\* A set that has 0, and with every number the next, has all numbers.
LEMMA Numbered ==
  ASSUME NEW T, 0 \in T, \A n \in Nat : n \in T => n + 1 \in T
  PROVE  Nat \subseteq T
<1> SUFFICES ASSUME Nat \ T # {} PROVE FALSE
  OBVIOUS
<1>1. PICK n \in Nat \ T : \A m \in Nat \ T : <<m, n>> \notin OpToRel(<, Nat)
  BY NatLessThanWellFounded, WFMin
<1>2. n \in Nat /\ n \notin T /\ n # 0
  OBVIOUS
<1>3. n - 1 \in Nat /\ (n - 1) + 1 = n /\ n - 1 < n
  BY <1>2
<1>4. n - 1 \in T
  BY <1>1, <1>2, <1>3 DEF OpToRel
<1> QED BY <1>2, <1>3, <1>4

\* What holds of a set of clients if it holds of the set without one of them
\* holds of all: induction over the clients.
LEMMA ByClients ==
  ASSUME NEW T, {} \in T,
         \A S \in ClientSets : S # {} => \E x \in S : S \ {x} \in T => S \in T
  PROVE  ClientSets \subseteq T
<1> DEFINE U == {n \in Nat : \A S \in ClientSets : Cardinality(S) = n => S \in T}
<1>1. 0 \in U
  BY ClientSetsFinite
<1>2. ASSUME NEW n \in Nat, n \in U PROVE n + 1 \in U
  <2>1. ASSUME NEW S \in ClientSets, Cardinality(S) = n + 1 PROVE S \in T
    <3>1. S # {}
      BY <2>1, ClientSetsFinite
    <3>2. PICK x \in S : S \ {x} \in T => S \in T
      BY <3>1
    <3>3. S \ {x} \in ClientSets /\ Cardinality(S \ {x}) = n
      BY <2>1, ClientSetsFinite
    <3> QED BY <1>2, <3>2, <3>3
  <2> QED BY <2>1
<1> HIDE DEF U
<1>3. Nat \subseteq U
  BY <1>1, <1>2, Numbered
<1> QED BY <1>3, ClientSetsFinite DEF U

\* The client of the highest id.
LEMMA HasMost == \A S \in ClientSets : S # {} => \E m \in S : \A n \in S : n <= m
<1> DEFINE T == {S \in ClientSets : S # {} => \E m \in S : \A n \in S : n <= m}
<1>1. {} \in T
  BY DEF ClientSets
<1>2. ASSUME NEW S \in ClientSets, NEW x \in S, S \ {x} \in T PROVE S \in T
  <2>1. S \subseteq Nat
    BY TeamsAssumption DEF ClientSets
  <2>2. CASE S \ {x} = {}
    BY <2>1, <2>2
  <2>3. CASE S \ {x} # {}
    <3>1. PICK m \in S \ {x} : \A n \in S \ {x} : n <= m
      BY <1>2, <2>3
    <3>2. m \in Nat /\ x \in Nat
      BY <2>1
    <3>3. CASE x >= m
      BY <2>1, <3>1, <3>2, <3>3
    <3>4. CASE m >= x
      BY <2>1, <3>1, <3>2, <3>4
    <3> QED BY <3>2, <3>3, <3>4
  <2> QED BY <2>2, <2>3
<1> HIDE DEF T
<1>3. \A S \in ClientSets : S # {} => \E x \in S : S \ {x} \in T => S \in T
  BY <1>2
<1>4. ClientSets \subseteq T
  BY <1>1, <1>3, ByClients
<1> QED BY <1>4 DEF T

\* So Max, which ForEach uses, is one of the set.
LEMMA HasMax == \A S \in ClientSets : S # {} => Max(S) \in S
<1> SUFFICES ASSUME NEW S \in ClientSets, S # {} PROVE Max(S) \in S
  OBVIOUS
<1>1. S \subseteq Nat
  BY TeamsAssumption DEF ClientSets
<1>2. \E x \in S : \A y \in S : x >= y
  BY <1>1, HasMost
<1> QED BY <1>2 DEF Max

\* One for all: P is kept by a step for each client.
Stepping(P, K, b, it) ==
  /\ it \in [ClientSets -> P]
  /\ \A S \in ClientSets : it[S] = IF S = {} THEN b ELSE K[<<it[S \ {Max(S)}], Max(S)>>]

\* The folding has a value for every set of clients, and each is a step on.
LEMMA Steps ==
  ASSUME NEW P, NEW K \in [P \X Clients -> P], NEW b \in P
  PROVE  \E it : Stepping(P, K, b, it)
<1> DEFINE Small(n) == {S \in ClientSets : Cardinality(S) <= n}
           Fix(n, g) == /\ g \in [Small(n) -> P]
                        /\ \A S \in Small(n) : g[S] = IF S = {} THEN b
                             ELSE K[<<g[S \ {Max(S)}], Max(S)>>]
           T == {n \in Nat : \E g : Fix(n, g)}
<1>1. 0 \in T
  <2> DEFINE g == [S \in Small(0) |-> b]
  <2>1. \A S \in Small(0) : S = {}
    BY ClientSetsFinite
  <2>2. Fix(0, g)
    BY <2>1
  <2> QED BY <2>2
<1>2. ASSUME NEW n \in Nat, n \in T PROVE n + 1 \in T
  <2>1. PICK g : Fix(n, g)
    BY <1>2
  <2> DEFINE h == [S \in Small(n + 1) |-> IF S = {} THEN b
                                         ELSE K[<<g[S \ {Max(S)}], Max(S)>>]]
  <2>2. ASSUME NEW S \in Small(n + 1), S # {}
        PROVE  S \ {Max(S)} \in Small(n) /\ Max(S) \in Clients
    <3>1. Max(S) \in S /\ S \in ClientSets
      BY <2>2, HasMax
    <3>2. /\ S \ {Max(S)} \in ClientSets /\ Cardinality(S \ {Max(S)}) = Cardinality(S) - 1
          /\ Cardinality(S) \in Nat /\ Cardinality(S) <= n + 1
      BY <3>1, ClientSetsFinite
    <3>3. Cardinality(S \ {Max(S)}) <= n
      BY <3>2
    <3> QED BY <3>1, <3>2, <3>3 DEF ClientSets
  <2>3. h \in [Small(n + 1) -> P]
    <3>1. ASSUME NEW S \in Small(n + 1) PROVE (IF S = {} THEN b
                                ELSE K[<<g[S \ {Max(S)}], Max(S)>>]) \in P
      BY <2>1, <2>2, <3>1
    <3> QED BY <3>1
  <2>4. \A S \in Small(n) : S \in Small(n + 1) /\ h[S] = g[S]
    <3>1. \A S \in Small(n) : S \in Small(n + 1)
      BY ClientSetsFinite
    <3> QED BY <2>1, <3>1
  <2>5. Fix(n + 1, h)
    BY <2>2, <2>3, <2>4
  <2> HIDE DEF Fix
  <2>6. n + 1 \in Nat /\ \E k : Fix(n + 1, k)
    BY <2>5
  <2> QED BY <2>6
<1> HIDE DEF T
<1>3. Nat \subseteq T
  BY <1>1, <1>2, Numbered
<1>4. Cardinality(Clients) \in Nat /\ Small(Cardinality(Clients)) = ClientSets
  BY TeamsAssumption, FS_Subset, FS_CardinalityType DEF ClientSets
<1>5. \E g : Fix(Cardinality(Clients), g)
  BY <1>3, <1>4 DEF T
<1>6. PICK g : Fix(Cardinality(Clients), g)
  BY <1>5
<1>7. Stepping(P, K, b, g)
  BY <1>4, <1>6 DEF Stepping
<1> QED BY <1>7

\* K keeps Q, a set of games each with the clients that have had their turn.
Keeps(K, Q) ==
  \A R \in ClientSets : \A c \in Clients \ R : \A h \in Games :
    <<R, h>> \in Q => <<R \cup {c}, K[<<h, c>>]>> \in Q

\* r is g after a turn for each client.
FoldsTo(K, g, r) ==
  r \in Games /\ \A Q : <<{}, g>> \in Q /\ Keeps(K, Q) => <<Clients, r>> \in Q

\* What every turn keeps holds of the result, with all clients through.
LEMMA FoldKeeps ==
  ASSUME NEW K, NEW g, NEW r, FoldsTo(K, g, r), NEW Q, <<{}, g>> \in Q, Keeps(K, Q)
  PROVE  <<Clients, r>> \in Q
BY DEF FoldsTo

\* iter is what MapThenFoldSet recurs on.
Turns(K, g, iter) ==
  /\ iter[{}] = g
  /\ \A S \in ClientSets : S # {} /\ iter[S \ {Max(S)}] \in Games =>
       iter[S] = K[<<iter[S \ {Max(S)}], Max(S)>>]

\* ForEach folds to its result.
LEMMA Folding ==
  ASSUME NEW K \in [Games \X Clients -> Games], NEW g \in Games, NEW iter, Turns(K, g, iter)
  PROVE  FoldsTo(K, g, iter[Clients])
<1>1. ClientSets \subseteq {S \in ClientSets : iter[S] \in Games}
  <2> DEFINE T == {S \in ClientSets : iter[S] \in Games}
  <2>1. {} \in T
    BY DEF ClientSets, Turns
  <2>2. ASSUME NEW S \in ClientSets, S # {} PROVE \E x \in S : S \ {x} \in T => S \in T
    <3>1. Max(S) \in S /\ Max(S) \in Clients
      BY <2>2, HasMax DEF ClientSets
    <3>2. S \ {Max(S)} \in T => S \in T
      BY <2>2, <3>1 DEF Turns
    <3> QED BY <3>1, <3>2
  <2> HIDE DEF T
  <2>3. ClientSets \subseteq T
    BY <2>1, <2>2, ByClients
  <2> QED BY <2>3 DEF T
<1>2. ASSUME NEW Q, <<{}, g>> \in Q, Keeps(K, Q) PROVE <<Clients, iter[Clients]>> \in Q
  <2> DEFINE T == {S \in ClientSets : <<S, iter[S]>> \in Q}
  <2>1. {} \in T
    BY <1>2 DEF ClientSets, Turns
  <2>2. ASSUME NEW S \in ClientSets, S # {} PROVE \E x \in S : S \ {x} \in T => S \in T
    <3>1. /\ Max(S) \in S /\ Max(S) \in Clients \ (S \ {Max(S)})
          /\ S \ {Max(S)} \in ClientSets /\ (S \ {Max(S)}) \cup {Max(S)} = S
      BY <2>2, HasMax DEF ClientSets
    <3>2. iter[S \ {Max(S)}] \in Games
      BY <1>1, <3>1
    <3>3. iter[S] = K[<<iter[S \ {Max(S)}], Max(S)>>]
      BY <2>2, <3>2 DEF Turns
    <3>4. S \ {Max(S)} \in T => S \in T
      BY <1>2, <2>2, <3>1, <3>2, <3>3 DEF Keeps
    <3> QED BY <3>1, <3>4
  <2> HIDE DEF T
  <2>3. ClientSets \subseteq T
    BY <2>1, <2>2, ByClients
  <2> QED BY <2>3 DEF T, ClientSets
<1> QED BY <1>1, <1>2 DEF FoldsTo, ClientSets

----------------------------------------------------------------------------
(* What the functions do to the record.                                    *)

StatesSet == {TeamStates[i] : i \in DOMAIN TeamStates}

\* The states a team can be in.
LEMMA TheStates == StatesSet = {"empty", "open", "started", "unfinishable", "finished"}
<1>1. DOMAIN TeamStates = 1 .. 5
  BY DEF TeamStates
<1>2. 1 .. 5 = {1, 2, 3, 4, 5}
  OBVIOUS
<1>3. StatesSet = {TeamStates[1], TeamStates[2], TeamStates[3], TeamStates[4], TeamStates[5]}
  BY <1>1, <1>2 DEF StatesSet
<1> QED BY <1>3 DEF TeamStates

\* The types of the fields, one by one.
Fields(g) ==
  /\ g.team \in [Clients -> AllTeams]
  /\ g.body \in [Clients -> {"out", "dead", "alive"}]
  /\ g.race \in [Clients -> {"none", "started", "finished"}]
  /\ g.started \in [Clients -> BOOLEAN] /\ g.finished \in [Clients -> BOOLEAN]
  /\ g.state \in [AllTeams -> StatesSet]
  /\ g.locked \in [AllTeams -> BOOLEAN] /\ g.flock \in [AllTeams -> BOOLEAN]
  /\ g.practice \in [AllTeams -> BOOLEAN] /\ g.killTick \in [AllTeams -> BOOLEAN]
  /\ g.result \in [AllTeams -> Results]
  /\ g.merit \in [Clients -> Merits]
  /\ g.unearned \in SUBSET Clients

\* A game has them.
LEMMA GamesFields == \A g \in Games : Fields(g)
  BY DEF Games, Fields, StatesSet

\* The team that c leaves for t is emptied by that.
Empties(g, c, t) ==
  /\ t # g.team[c] /\ g.team[c] # Flock /\ g.state[g.team[c]] # "empty"
  /\ Members(g, g.team[c]) = {c}

\* What SetForceCharacterTeam does.
Forced(g, c, t, h) ==
  LET u == g.team[c]
      Reset(f, v) == IF Empties(g, c, t) THEN [f EXCEPT ![u] = v] ELSE f
  IN  /\ h \in Games
      /\ h.team = [g.team EXCEPT ![c] = t]
      /\ h.started = [g.started EXCEPT ![c] = FALSE]
      /\ h.finished = [g.finished EXCEPT ![c] = FALSE]
      /\ h.body = g.body /\ h.race = g.race /\ h.merit = g.merit
      /\ h.result = g.result /\ h.unearned = g.unearned
      /\ h.locked = Reset(g.locked, FALSE) /\ h.flock = Reset(g.flock, FALSE)
      /\ h.practice = Reset(g.practice, FALSE) /\ h.killTick = Reset(g.killTick, FALSE)
      /\ h.state = [Reset(g.state, "empty") EXCEPT ![t] =
                      IF g.state[t] = "empty" /\ ~g.locked[t] THEN "open" ELSE g.state[t]]

\* SetForceCharacterTeam, field by field.
LEMMA ForceDoes ==
  ASSUME NEW g \in Games, NEW c \in Clients, NEW t \in AllTeams
  PROVE  Forced(g, c, t, SetForceCharacterTeam(g, c, t))
<1> DEFINE u == g.team[c]
           gone == Empties(g, c, t)
           moved == [g EXCEPT !.started[c] = FALSE, !.finished[c] = FALSE, !.team[c] = t]
           reset == IF ~gone THEN moved
               ELSE [moved EXCEPT !.state[u] = "empty", !.locked[u] = FALSE,
                       !.flock[u] = FALSE, !.practice[u] = FALSE, !.killTick[u] = FALSE]
           h == IF reset.state[t] = "empty" /\ ~reset.locked[t]
                THEN [reset EXCEPT !.state[t] = "open"] ELSE reset
           Reset(f, v) == IF gone THEN [f EXCEPT ![u] = v] ELSE f
<1>1. SetForceCharacterTeam(g, c, t) = h
  BY ZenonT(40) DEF SetForceCharacterTeam, Empties
<1>2. /\ u \in AllTeams /\ moved \in Games
      /\ moved.state = g.state /\ moved.locked = g.locked /\ moved.flock = g.flock
      /\ moved.practice = g.practice /\ moved.killTick = g.killTick
      /\ moved.body = g.body /\ moved.race = g.race /\ moved.merit = g.merit
      /\ moved.result = g.result /\ moved.unearned = g.unearned
      /\ moved.team = [g.team EXCEPT ![c] = t]
      /\ moved.started = [g.started EXCEPT ![c] = FALSE]
      /\ moved.finished = [g.finished EXCEPT ![c] = FALSE]
  BY DEF Games
<1>3. "empty" \in StatesSet /\ "open" \in StatesSet
  BY TheStates
<1>4. gone => u # t
  BY DEF Empties
<1> HIDE DEF moved, u, gone
<1>5. /\ reset \in Games
      /\ reset.team = moved.team /\ reset.body = moved.body /\ reset.race = moved.race
      /\ reset.merit = moved.merit /\ reset.result = moved.result
      /\ reset.started = moved.started /\ reset.finished = moved.finished
      /\ reset.unearned = moved.unearned
      /\ reset.state = Reset(g.state, "empty")
      /\ reset.locked = Reset(g.locked, FALSE) /\ reset.flock = Reset(g.flock, FALSE)
      /\ reset.practice = Reset(g.practice, FALSE)
      /\ reset.killTick = Reset(g.killTick, FALSE)
  <2>1. CASE gone
    <3>1. reset = [moved EXCEPT !.state[u] = "empty", !.locked[u] = FALSE,
                     !.flock[u] = FALSE, !.practice[u] = FALSE, !.killTick[u] = FALSE]
      BY <2>1
    <3> HIDE DEF reset
    <3>2. /\ reset.team = moved.team /\ reset.body = moved.body /\ reset.race = moved.race
          /\ reset.merit = moved.merit /\ reset.result = moved.result
      BY <1>2, <3>1 DEF Games
    <3>3. /\ reset.started = moved.started /\ reset.finished = moved.finished
          /\ reset.unearned = moved.unearned
      BY <1>2, <3>1 DEF Games
    <3>4. /\ reset.state = [moved.state EXCEPT ![u] = "empty"]
          /\ reset.locked = [moved.locked EXCEPT ![u] = FALSE]
      BY <1>2, <3>1 DEF Games
    <3>5. /\ reset.flock = [moved.flock EXCEPT ![u] = FALSE]
          /\ reset.practice = [moved.practice EXCEPT ![u] = FALSE]
          /\ reset.killTick = [moved.killTick EXCEPT ![u] = FALSE]
      BY <1>2, <3>1 DEF Games
    <3>6. reset \in Games
      BY <1>2, <1>3, <3>1 DEF Games, StatesSet
    <3> QED BY <1>2, <2>1, <3>2, <3>3, <3>4, <3>5, <3>6
  <2>2. CASE ~gone
    BY <1>2, <2>2
  <2> QED BY <2>1, <2>2
<1>6. reset.state[t] = g.state[t] /\ reset.locked[t] = g.locked[t]
  <2>1. g.state \in [AllTeams -> StatesSet] /\ g.locked \in [AllTeams -> BOOLEAN]
    BY GamesFields DEF Fields
  <2> HIDE DEF reset
  <2>2. CASE gone
    BY <1>2, <1>4, <1>5, <2>1, <2>2
  <2>3. CASE ~gone
    BY <1>5, <2>3
  <2> QED BY <2>2, <2>3
<1>7. reset.state = [reset.state EXCEPT ![t] = g.state[t]]
  <2>1. reset.state \in [AllTeams -> StatesSet]
    BY <1>5, GamesFields DEF Fields
  <2> HIDE DEF reset
  <2> QED BY <1>6, <2>1
<1> HIDE DEF reset
<1>8. CASE g.state[t] = "empty" /\ ~g.locked[t]
  <2>1. h = [reset EXCEPT !.state[t] = "open"]
    BY <1>6, <1>8
  <2> HIDE DEF h
  <2>2. /\ h \in Games /\ h.state = [reset.state EXCEPT ![t] = "open"]
        /\ h.team = reset.team /\ h.body = reset.body /\ h.race = reset.race
        /\ h.merit = reset.merit /\ h.result = reset.result
    BY <1>3, <1>5, <2>1 DEF Games, StatesSet
  <2>3. /\ h.started = reset.started /\ h.finished = reset.finished
        /\ h.unearned = reset.unearned
        /\ h.locked = reset.locked /\ h.flock = reset.flock
        /\ h.practice = reset.practice /\ h.killTick = reset.killTick
    BY <1>5, <2>1 DEF Games
  <2>4. Forced(g, c, t, h)
    BY <1>2, <1>5, <1>8, <2>2, <2>3 DEF Forced, u, gone
  <2> QED BY <1>1, <2>4
<1>9. CASE ~(g.state[t] = "empty" /\ ~g.locked[t])
  <2>1. h = reset
    BY <1>6, <1>9
  <2> HIDE DEF h
  <2>2. Forced(g, c, t, h)
    BY <1>2, <1>5, <1>7, <1>9, <2>1 DEF Forced, u, gone
  <2> QED BY <1>1, <2>2
<1> QED BY <1>8, <1>9

\* The turn of a client in ResetSavedTeam, and in the end of CheckTeamFinished.
TurnReset(t) ==
  [p \in Games \X Clients |->
     IF p[1].team[p[2]] = t THEN SetForceCharacterTeam(p[1], p[2], Flock) ELSE p[1]]

\* ResetSavedTeam is a loop of such turns.
LEMMA ResetFolds ==
  ASSUME NEW t \in AllTeams, NEW g \in Games
  PROVE  FoldsTo(TurnReset(t), g, ResetSavedTeam(g, t))
<1> DEFINE Do(h, c) == IF h.team[c] = t THEN SetForceCharacterTeam(h, c, Flock) ELSE h
           K == TurnReset(t)
           Eq(it) == it = [S \in SUBSET Clients |->
                             IF S = {} THEN g ELSE Do(it[S \ {Max(S)}], Max(S))]
           iter == CHOOSE it : Eq(it)
<1>1. ResetSavedTeam(g, t) = iter[Clients]
  BY DEF ResetSavedTeam, ForEach, MapThenFoldSet
<1>2. /\ K \in [Games \X Clients -> Games]
      /\ \A h \in Games : \A c \in Clients : K[<<h, c>>] = Do(h, c)
  BY ForceDoes DEF TurnReset, Forced, AllTeams
<1> HIDE DEF K, Do
<1>3. \E it : Eq(it)
  <2>1. PICK it : Stepping(Games, K, g, it)
    BY <1>2, Steps
  <2>2. ASSUME NEW S \in ClientSets, S # {}
        PROVE  it[S] = Do(it[S \ {Max(S)}], Max(S))
    <3>1. Max(S) \in Clients /\ S \ {Max(S)} \in ClientSets
      BY <2>2, HasMax, ClientSetsFinite DEF ClientSets
    <3> QED BY <1>2, <2>1, <2>2, <3>1 DEF Stepping
  <2>3. it = [S \in ClientSets |-> IF S = {} THEN g ELSE Do(it[S \ {Max(S)}], Max(S))]
    BY <2>1, <2>2 DEF Stepping
  <2> QED BY <2>3 DEF ClientSets
<1>4. Eq(iter)
  BY <1>3
<1> HIDE DEF iter
<1>5. Turns(K, g, iter)
  <2>1. iter[{}] = g
    BY <1>4
  <2>2. ASSUME NEW S \in ClientSets, S # {}, iter[S \ {Max(S)}] \in Games
        PROVE  iter[S] = K[<<iter[S \ {Max(S)}], Max(S)>>]
    <3>1. Max(S) \in Clients
      BY <2>2, HasMax DEF ClientSets
    <3>2. iter[S] = Do(iter[S \ {Max(S)}], Max(S))
      BY <1>4, <2>2 DEF ClientSets
    <3> QED BY <1>2, <2>2, <3>1, <3>2
  <2> QED BY <2>1, <2>2 DEF Turns
<1>6. FoldsTo(K, g, iter[Clients])
  BY <1>2, <1>5, Folding
<1> QED BY <1>1, <1>6 DEF K

RankFold(S, g) ==
  LET ToFlock(h, c) == IF c \in S THEN SetForceCharacterTeam(h, c, Flock) ELSE h
  IN  ForEach(ToFlock, g)

TurnRank(S) ==
  [p \in Games \X Clients |->
     IF p[2] \in S THEN SetForceCharacterTeam(p[1], p[2], Flock) ELSE p[1]]

\* CheckTeamFinished ends with a loop of them.
LEMMA RankFolds ==
  ASSUME NEW S, NEW g \in Games
  PROVE  FoldsTo(TurnRank(S), g, RankFold(S, g))
<1> DEFINE Do(h, c) == IF c \in S THEN SetForceCharacterTeam(h, c, Flock) ELSE h
           K == TurnRank(S)
           Eq(it) == it = [R \in SUBSET Clients |->
                             IF R = {} THEN g ELSE Do(it[R \ {Max(R)}], Max(R))]
           iter == CHOOSE it : Eq(it)
<1>1. RankFold(S, g) = iter[Clients]
  BY DEF RankFold, ForEach, MapThenFoldSet
<1>2. /\ K \in [Games \X Clients -> Games]
      /\ \A h \in Games : \A c \in Clients : K[<<h, c>>] = Do(h, c)
  BY ForceDoes DEF TurnRank, Forced, AllTeams
<1> HIDE DEF K, Do
<1>3. \E it : Eq(it)
  <2>1. PICK it : Stepping(Games, K, g, it)
    BY <1>2, Steps
  <2>2. ASSUME NEW R \in ClientSets, R # {}
        PROVE  it[R] = Do(it[R \ {Max(R)}], Max(R))
    <3>1. Max(R) \in Clients /\ R \ {Max(R)} \in ClientSets
      BY <2>2, HasMax, ClientSetsFinite DEF ClientSets
    <3> QED BY <1>2, <2>1, <2>2, <3>1 DEF Stepping
  <2>3. it = [R \in ClientSets |-> IF R = {} THEN g ELSE Do(it[R \ {Max(R)}], Max(R))]
    BY <2>1, <2>2 DEF Stepping
  <2> QED BY <2>3 DEF ClientSets
<1>4. Eq(iter)
  BY <1>3
<1> HIDE DEF iter
<1>5. Turns(K, g, iter)
  <2>1. iter[{}] = g
    BY <1>4
  <2>2. ASSUME NEW R \in ClientSets, R # {}, iter[R \ {Max(R)}] \in Games
        PROVE  iter[R] = K[<<iter[R \ {Max(R)}], Max(R)>>]
    <3>1. Max(R) \in Clients
      BY <2>2, HasMax DEF ClientSets
    <3>2. iter[R] = Do(iter[R \ {Max(R)}], Max(R))
      BY <1>4, <2>2 DEF ClientSets
    <3> QED BY <1>2, <2>2, <3>1, <3>2
  <2> QED BY <2>1, <2>2 DEF Turns
<1>6. FoldsTo(K, g, iter[Clients])
  BY <1>2, <1>5, Folding
<1> QED BY <1>1, <1>6 DEF K

----------------------------------------------------------------------------
(* Types and teams.                                                        *)

SameTees(g, h) ==
  /\ h.body = g.body /\ h.race = g.race /\ h.merit = g.merit
  /\ h.started = g.started /\ h.finished = g.finished

SameTeams(g, h) ==
  /\ h.state = g.state /\ h.locked = g.locked /\ h.flock = g.flock
  /\ h.practice = g.practice /\ h.killTick = g.killTick /\ h.result = g.result

\* What OnFinish does.
Ranked(g, S, h) ==
  /\ h \in Games /\ h.team = g.team /\ SameTeams(g, h)
  /\ h.body = g.body /\ h.merit = g.merit
  /\ h.started = g.started /\ h.finished = g.finished
  /\ h.race = [c \in Clients |-> IF c \in S THEN "finished" ELSE g.race[c]]
  /\ h.unearned = g.unearned \cup {c \in S : g.merit[c] # "crossed"}

\* OnFinish, field by field.
LEMMA FinishDoes ==
  ASSUME NEW g \in Games, NEW S \in SUBSET Clients
  PROVE  Ranked(g, S, OnFinish(g, S))
<1> DEFINE h == OnFinish(g, S)
<1>1. h \in Games
  BY DEF OnFinish, Games
<1>2. /\ h.race = [c \in Clients |-> IF c \in S THEN "finished" ELSE g.race[c]]
      /\ h.unearned = g.unearned \cup {c \in S : g.merit[c] # "crossed"}
  BY DEF OnFinish, Games
<1>3. /\ h.team = g.team /\ h.body = g.body /\ h.merit = g.merit
      /\ h.started = g.started /\ h.finished = g.finished
  BY DEF OnFinish, Games
<1>4. SameTeams(g, h)
  BY DEF OnFinish, Games, SameTeams
<1> QED BY <1>1, <1>2, <1>3, <1>4 DEF Ranked

\* What CheckTeamFinished does to a team that has finished.
Done(g, t, h) ==
  LET S == Playing(g, t)
  IN  /\ h \in Games /\ h.team = g.team /\ h.body = g.body /\ h.merit = g.merit
      /\ h.started = [c \in Clients |-> g.started[c] /\ c \notin S]
      /\ h.finished = [c \in Clients |-> g.finished[c] /\ c \notin S]
      /\ h.race = [c \in Clients |-> IF c \in S THEN "finished" ELSE g.race[c]]
      /\ h.state = [g.state EXCEPT ![t] = "finished"]
      /\ h.locked = g.locked /\ h.flock = g.flock /\ h.practice = g.practice
      /\ h.killTick = g.killTick /\ h.result = g.result /\ h.unearned = g.unearned

\* What CheckTeamFinished makes of g, in steps.
Checked(g, t, r) ==
  \/ r = g
  \/ /\ TeamFinished(g, t) /\ Playing(g, t) # {}
     /\ \E done : /\ Done(g, t, done)
                  /\ \/ g.practice[t] /\ r = done
                     \/ /\ ~g.practice[t]
                        /\ \E k : /\ Ranked(done, Playing(g, t), k)
                                  /\ r = k \/ r = RankFold(Playing(g, t), k)

\* CheckTeamFinished: nothing, a finish, or a finish and the way to team 0.
LEMMA CheckDoes ==
  ASSUME NEW g \in Games, NEW t \in AllTeams
  PROVE  Checked(g, t, CheckTeamFinished(g, t))
<1> DEFINE S == Playing(g, t)
           done == [g EXCEPT
             !.started = [c \in Clients |-> @[c] /\ c \notin S],
             !.finished = [c \in Clients |-> @[c] /\ c \notin S],
             !.race = [c \in Clients |-> IF c \in S THEN "finished" ELSE @[c]],
             !.state[t] = "finished"]
           r == CheckTeamFinished(g, t)
<1>1. r = IF ~TeamFinished(g, t) \/ S = {} THEN g
          ELSE IF g.practice[t] THEN done
          ELSE IF g.locked[t] \/ ~SvRejoinTeam0 THEN OnFinish(done, S)
          ELSE RankFold(S, OnFinish(done, S))
  BY DEF CheckTeamFinished, RankFold
<1>2. S \in SUBSET Clients
  BY DEF Playing, Members
<1>3. "finished" \in StatesSet
  BY TheStates
<1> HIDE DEF S, r
<1>4. done \in Games
  BY <1>3 DEF Games, StatesSet
<1>5. /\ done.team = g.team /\ done.body = g.body /\ done.merit = g.merit
      /\ done.started = [c \in Clients |-> g.started[c] /\ c \notin S]
      /\ done.finished = [c \in Clients |-> g.finished[c] /\ c \notin S]
  BY DEF Games
<1>6. /\ done.race = [c \in Clients |-> IF c \in S THEN "finished" ELSE g.race[c]]
      /\ done.state = [g.state EXCEPT ![t] = "finished"]
  BY DEF Games
<1>7. /\ done.locked = g.locked /\ done.flock = g.flock /\ done.practice = g.practice
      /\ done.killTick = g.killTick /\ done.result = g.result /\ done.unearned = g.unearned
  BY DEF Games
<1> HIDE DEF done
<1>8. Done(g, t, done)
  BY <1>4, <1>5, <1>6, <1>7 DEF Done, S
<1>9. Ranked(done, S, OnFinish(done, S))
  BY <1>2, <1>4, FinishDoes
<1>10. CASE ~TeamFinished(g, t) \/ S = {}
  BY <1>1, <1>10 DEF Checked, r
<1>11. CASE TeamFinished(g, t) /\ S # {} /\ g.practice[t]
  <2>1. r = done
    BY <1>1, <1>11
  <2> QED BY <1>8, <1>11, <2>1 DEF Checked, r, S
<1>12. CASE TeamFinished(g, t) /\ S # {} /\ ~g.practice[t]
  <2>1. r = OnFinish(done, S) \/ r = RankFold(S, OnFinish(done, S))
    BY <1>1, <1>12
  <2> QED BY <1>8, <1>9, <1>12, <2>1 DEF Checked, r, S
<1> QED BY <1>10, <1>11, <1>12

\* What CCharacter::Die does before the team hears of it.
Dead(g, c, h) ==
  /\ h \in Games /\ h.team = g.team /\ SameTeams(g, h)
  /\ h.started = g.started /\ h.finished = g.finished /\ h.unearned = g.unearned
  /\ h.body = [g.body EXCEPT ![c] = "dead"]
  /\ h.race = [g.race EXCEPT ![c] = "none"]
  /\ h.merit = [g.merit EXCEPT ![c] = "none"]

\* A team has lost a member before it has started.
Lost(g, t, h) ==
  /\ h \in Games /\ h.team = g.team /\ SameTees(g, h) /\ h.unearned = g.unearned
  /\ h.state = [g.state EXCEPT ![t] = "unfinishable"]
  /\ h.killTick = [g.killTick EXCEPT ![t] = TRUE]
  /\ h.locked = g.locked /\ h.flock = g.flock /\ h.practice = g.practice
  /\ h.result = g.result

\* A locked team that has started is open again.
Reopened(g, t, h) ==
  /\ h \in Games /\ h.team = g.team /\ SameTees(g, h) /\ h.unearned = g.unearned
  /\ h.state = [g.state EXCEPT ![t] = "open"]
  /\ h.practice = [g.practice EXCEPT ![t] = FALSE]
  /\ h.locked = g.locked /\ h.flock = g.flock /\ h.killTick = g.killTick
  /\ h.result = g.result

\* What DieAlone makes of g, in steps: nothing more while the team is saved, ...
DiedSaved(g, c, r) == GetSaving(g, g.team[c]) /\ Dead(g, c, r)

\* ... in a locked team the tee stays, ...
DiedLocked(g, c, weapon, r) ==
  LET t == g.team[c]
  IN  /\ ~GetSaving(g, t) /\ g.locked[t] /\ weapon # "game"
      /\ \E dead, again :
           /\ Dead(g, c, dead) /\ Forced(dead, c, t, again)
           /\ \/ (g.state[t] = "open" \/ g.flock[t]) /\ r = again
              \/ g.state[t] # "open" /\ ~g.flock[t] /\ Reopened(again, t, r)

\* ... and else it leaves.
DiedLeaving(g, c, weapon, r) ==
  LET t == g.team[c]
  IN  /\ ~GetSaving(g, t) /\ (~g.locked[t] \/ weapon = "game")
      /\ \E dead, lost, out :
           /\ Dead(g, c, dead) /\ Forced(lost, c, Flock, out)
           /\ \/ lost = dead
              \/ g.state[t] = "started" /\ ~g.started[c] /\ ~g.flock[t] /\ Lost(dead, t, lost)
           /\ r = CheckTeamFinished(out, t)

\* DieAlone: a death while saving, in a locked team, or by leaving the team.
LEMMA DieDoes ==
  ASSUME NEW g \in Games, NEW c \in Clients, NEW weapon
  PROVE  LET r == DieAlone(g, c, weapon)
         IN  DiedSaved(g, c, r) \/ DiedLocked(g, c, weapon, r) \/ DiedLeaving(g, c, weapon, r)
<1> DEFINE t == g.team[c]
           dead == [g EXCEPT !.body[c] = "dead", !.race[c] = "none", !.merit[c] = "none"]
           again == SetForceCharacterTeam(dead, c, t)
           open == [again EXCEPT !.state[t] = "open", !.practice[t] = FALSE]
           less == [dead EXCEPT !.state[t] = "unfinishable", !.killTick[t] = TRUE]
           lost == IF g.state[t] = "started" /\ ~g.started[c] /\ ~g.flock[t]
                   THEN less ELSE dead
           out == SetForceCharacterTeam(lost, c, Flock)
           r == DieAlone(g, c, weapon)
<1>1. r = IF GetSaving(g, t) THEN dead
          ELSE IF g.locked[t] /\ weapon # "game"
          THEN IF g.state[t] # "open" /\ ~g.flock[t] THEN open ELSE again
          ELSE CheckTeamFinished(out, t)
  BY DEF DieAlone
<1>2. t \in AllTeams /\ Flock \in AllTeams
  BY GamesFields DEF Fields, AllTeams
<1> HIDE DEF t, r
<1>3. Dead(g, c, dead)
  <2>1. dead \in Games
    BY DEF Games, Merits
  <2>2. /\ dead.team = g.team /\ dead.unearned = g.unearned
        /\ dead.started = g.started /\ dead.finished = g.finished
        /\ dead.body = [g.body EXCEPT ![c] = "dead"]
    BY DEF Games
  <2>3. /\ dead.race = [g.race EXCEPT ![c] = "none"]
        /\ dead.merit = [g.merit EXCEPT ![c] = "none"]
    BY DEF Games
  <2>4. SameTeams(g, dead)
    BY DEF Games, SameTeams
  <2> QED BY <2>1, <2>2, <2>3, <2>4 DEF Dead
<1> HIDE DEF dead
<1>4. dead \in Games
  BY <1>3 DEF Dead
<1>5. Forced(dead, c, t, again)
  BY <1>2, <1>4, ForceDoes
<1>6. Lost(dead, t, less)
  <2>1. less \in Games
    BY <1>2, <1>4, TheStates DEF Games, StatesSet
  <2>2. /\ less.team = dead.team /\ less.unearned = dead.unearned
        /\ less.state = [dead.state EXCEPT ![t] = "unfinishable"]
        /\ less.killTick = [dead.killTick EXCEPT ![t] = TRUE]
    BY <1>2, <1>4 DEF Games
  <2>3. SameTees(dead, less)
    BY <1>2, <1>4 DEF Games, SameTees
  <2>4. /\ less.locked = dead.locked /\ less.flock = dead.flock
        /\ less.practice = dead.practice /\ less.result = dead.result
    BY <1>2, <1>4 DEF Games
  <2> QED BY <2>1, <2>2, <2>3, <2>4 DEF Lost
<1> HIDE DEF again
<1>7. Reopened(again, t, open)
  <2>0. again \in Games
    BY <1>5 DEF Forced
  <2>1. open \in Games
    BY <1>2, <2>0, TheStates DEF Games, StatesSet
  <2>2. /\ open.team = again.team /\ open.unearned = again.unearned
        /\ open.state = [again.state EXCEPT ![t] = "open"]
        /\ open.practice = [again.practice EXCEPT ![t] = FALSE]
    BY <1>2, <2>0 DEF Games
  <2>3. SameTees(again, open)
    BY <1>2, <2>0 DEF Games, SameTees
  <2>4. /\ open.locked = again.locked /\ open.flock = again.flock
        /\ open.killTick = again.killTick /\ open.result = again.result
    BY <1>2, <2>0 DEF Games
  <2> QED BY <2>1, <2>2, <2>3, <2>4 DEF Reopened
<1> HIDE DEF less, open
<1>8. Forced(lost, c, Flock, out)
  <2>1. lost \in Games
    BY <1>4, <1>6 DEF Lost
  <2> HIDE DEF lost
  <2> QED BY <1>2, <2>1, ForceDoes
<1>9. CASE GetSaving(g, t)
  <2>1. r = dead
    BY <1>1, <1>9
  <2> QED BY <1>3, <1>9, <2>1 DEF DiedSaved, t, r
<1>10. CASE ~GetSaving(g, t) /\ g.locked[t] /\ weapon # "game"
  <2>1. \/ (g.state[t] = "open" \/ g.flock[t]) /\ r = again
        \/ g.state[t] # "open" /\ ~g.flock[t] /\ r = open
    BY <1>1, <1>10
  <2> QED BY <1>3, <1>5, <1>7, <1>10, <2>1 DEF DiedLocked, t, r
<1>11. CASE ~GetSaving(g, t) /\ (~g.locked[t] \/ weapon = "game")
  <2>1. r = CheckTeamFinished(out, t)
    BY <1>1, <1>11
  <2>2. \/ lost = dead
        \/ g.state[t] = "started" /\ ~g.started[c] /\ ~g.flock[t] /\ Lost(dead, t, lost)
    BY <1>6
  <2> HIDE DEF lost, out
  <2> QED BY <1>3, <1>8, <1>11, <2>1, <2>2 DEF DiedLeaving, t, r
<1> QED BY <1>9, <1>10, <1>11 DEF r

----------------------------------------------------------------------------
(* The invariant, of a game g in which the tees of X are exempt: those that *)
(* are still to be killed with their team.                                  *)

\* EmptyHasNoMembers of one team.
EmptyOK(g, t) ==
  /\ g.state[t] = "empty" <=> Members(g, t) = {}
  /\ g.state[t] = "empty" =>
       ~g.locked[t] /\ ~g.flock[t] /\ ~g.practice[t] /\ ~g.killTick[t]

\* Team 0 has no state of its own.
FlockOK(g) ==
  /\ g.state[Flock] \in {"empty", "open"} /\ g.result[Flock] = NoResult
  /\ ~g.locked[Flock] /\ ~g.flock[Flock] /\ ~g.practice[Flock]

Sound(g) == FlockOK(g) /\ \A t \in Teams : EmptyOK(g, t)

\* Whoever is in a team that is open, saved or loaded does not race.
Resting(g, c) ==
  LET t == g.team[c]
  IN  /\ t # Flock /\ g.body[c] = "alive"
      /\ g.state[t] = "open" \/ g.result[t] # NoResult
      => g.race[c] # "started"

Rest(g, X) == \A c \in Clients \ X : Resting(g, c)

\* SavedTeamKept of one team.
Kept(g, t) ==
  LET r == g.result[t]
      those == IF r.kind = "save" THEN DOMAIN r.save.tees ELSE r.who
  IN  r # NoResult => Members(g, t) = those \ r.left

AllKept(g) == \A t \in Teams : Kept(g, t)

\* What a saved tee can be loaded with.
Honest(save) ==
  \A c \in DOMAIN save.tees :
    LET s == save.tees[c]
    IN  s.merit # "practised" /\ (s.started \/ s.finished => s.merit = "crossed")

\* A team in team 0 mode does not practise and never finishes, and while it is
\* saved or loaded a team does neither.
TeamEarns(g, t) ==
  LET r == g.result[t]
  IN  /\ g.flock[t] => ~g.practice[t] /\ g.state[t] \in {"open", "started"}
      /\ r # NoResult => ~g.flock[t] /\ ~g.practice[t]
      /\ r.kind = "load" /\ Members(g, t) # {} => g.state[t] = "open"
      /\ r.kind = "save" \/ (r.kind = "load" /\ r.answer = "ok") => Honest(r.save)

\* A tee that has started or finished with its team has the merit, and so has one
\* that races for itself; the others have nothing that could become a rank.
TeeEarns(g, c) ==
  LET t == g.team[c]
      alive == g.body[c] = "alive"
  IN  /\ ~alive => g.merit[c] = "none" /\ g.race[c] = "none"
      /\ ~alive /\ g.result[t].kind # "save" => ~g.started[c] /\ ~g.finished[c]
      /\ t # Flock /\ g.state[t] = "open" => ~g.started[c] /\ ~g.finished[c]
      /\ g.flock[t] => ~g.finished[c]
      /\ alive /\ g.merit[c] = "practised" => g.practice[t]
      /\ alive /\ g.result[t] = NoResult /\ (g.started[c] \/ g.finished[c]) =>
           g.merit[c] # "none"
      /\ alive /\ g.race[c] = "started" /\ (t = Flock \/ g.flock[t]) => g.merit[c] # "none"
      /\ alive /\ g.race[c] = "started" => g.state[t] # "finished"

Ranks(g, X) ==
  /\ g.unearned = {}
  /\ \A t \in Teams : TeamEarns(g, t)
  /\ \A c \in Clients \ X : TeeEarns(g, c)

\* What of it holds depends on what members may do while their team is saved.
Inv(g, X) ==
  /\ Sound(g) /\ Rest(g, X)
  /\ "spectate" \notin WhileSaving => AllKept(g)
  /\ WhileSaving = {} => Ranks(g, X)

----------------------------------------------------------------------------
(* A tee changes its team.                                                 *)

\* Team 0 is one of all teams, and none of those with a state.
LEMMA FlockIn == Flock \in AllTeams /\ Flock \notin Teams /\ Teams \subseteq AllTeams
  BY TeamsAssumption DEF AllTeams

\* Who stays finds the team unchanged.
LEMMA Others ==
  ASSUME NEW g \in Games, NEW c \in Clients, NEW t \in AllTeams, NEW h,
         Forced(g, c, t, h), Sound(g), NEW d \in Clients, d # c
  PROVE  LET u == g.team[d]
         IN  /\ u \in AllTeams /\ h.team[d] = u
             /\ h.flock[u] = g.flock[u] /\ h.practice[u] = g.practice[u]
             /\ u # Flock => h.state[u] = g.state[u]
             /\ h.started[d] = g.started[d] /\ h.finished[d] = g.finished[d]
<1> DEFINE u == g.team[d]
<1>1. Fields(g) /\ u \in AllTeams
  BY GamesFields DEF Fields
<1>2. d \in Members(g, u)
  BY DEF Members
<1>3. /\ h.team = [g.team EXCEPT ![c] = t]
      /\ h.started = [g.started EXCEPT ![c] = FALSE]
      /\ h.finished = [g.finished EXCEPT ![c] = FALSE]
  BY DEF Forced
<1>4. /\ h.team[d] = u
      /\ h.started[d] = g.started[d] /\ h.finished[d] = g.finished[d]
  BY <1>1, <1>3 DEF Fields
<1>5. Empties(g, c, t) => u # g.team[c]
  BY <1>2 DEF Empties
<1>6. h.flock[u] = g.flock[u] /\ h.practice[u] = g.practice[u]
  <2>1. CASE Empties(g, c, t)
    BY <1>1, <1>5, <2>1 DEF Forced, Fields
  <2>2. CASE ~Empties(g, c, t)
    BY <2>2 DEF Forced
  <2> QED BY <2>1, <2>2
<1>7. u # Flock => h.state[u] = g.state[u]
  <2>1. u # Flock => u \in Teams /\ g.state[u] # "empty"
    BY <1>1, <1>2 DEF Sound, EmptyOK, AllTeams
  <2>2. CASE Empties(g, c, t)
    BY <1>1, <1>5, <2>1, <2>2 DEF Forced, Fields
  <2>3. CASE ~Empties(g, c, t)
    BY <1>1, <2>1, <2>3 DEF Forced, Fields
  <2> QED BY <2>2, <2>3
<1> QED BY <1>1, <1>4, <1>6, <1>7

\* However a tee changes its team, no team is left that is not what it says.
LEMMA SoundForce ==
  ASSUME NEW g \in Games, NEW c \in Clients, NEW t \in AllTeams, NEW h,
         Forced(g, c, t, h), Sound(g)
  PROVE  Sound(h)
<1> DEFINE u == g.team[c]
           gone == Empties(g, c, t)
<1>1. Fields(g) /\ u \in AllTeams /\ (gone => u # t /\ u # Flock)
  BY GamesFields DEF Fields, Empties
<1>2. h.result = g.result /\ h.team = [g.team EXCEPT ![c] = t]
  BY DEF Forced
<1>3. \A x \in AllTeams : gone /\ x = u =>
        /\ h.state[x] = "empty" /\ h.locked[x] = FALSE /\ h.flock[x] = FALSE
        /\ h.practice[x] = FALSE /\ h.killTick[x] = FALSE
  BY <1>1 DEF Forced, Fields
<1>4. ASSUME NEW x \in AllTeams, ~(gone /\ x = u)
      PROVE  /\ h.locked[x] = g.locked[x] /\ h.flock[x] = g.flock[x]
             /\ h.practice[x] = g.practice[x] /\ h.killTick[x] = g.killTick[x]
             /\ x # t => h.state[x] = g.state[x]
  <2>1. CASE gone
    <3>1. x # u
      BY <1>4, <2>1
    <3>2. /\ h.locked[x] = g.locked[x] /\ h.flock[x] = g.flock[x]
          /\ h.practice[x] = g.practice[x] /\ h.killTick[x] = g.killTick[x]
      BY <1>1, <2>1, <3>1 DEF Forced, Fields
    <3>3. x # t => h.state[x] = g.state[x]
      BY <1>1, <2>1, <3>1 DEF Forced, Fields
    <3> QED BY <3>2, <3>3
  <2>2. CASE ~gone
    BY <1>1, <2>2 DEF Forced, Fields
  <2> QED BY <2>1, <2>2
<1>5. h.state[t] = IF g.state[t] = "empty" /\ ~g.locked[t] THEN "open" ELSE g.state[t]
  <2>1. CASE gone
    BY <1>1, <2>1 DEF Forced, Fields
  <2>2. CASE ~gone
    BY <1>1, <2>2 DEF Forced, Fields
  <2> QED BY <2>1, <2>2
<1>6. FlockOK(h)
  <2>1. ~(gone /\ Flock = u)
    BY <1>1
  <2> QED BY <1>2, <1>4, <1>5, <2>1, FlockIn DEF Sound, FlockOK
<1>7. ASSUME NEW x \in Teams PROVE EmptyOK(h, x)
  <2>1. EmptyOK(g, x) /\ x \in AllTeams
    BY FlockIn DEF Sound
  <2>2. \A d \in Clients : h.team[d] = IF d = c THEN t ELSE g.team[d]
    BY <1>1, <1>2 DEF Fields
  <2>3. CASE gone /\ x = u
    <3>1. Members(h, x) = {}
      BY <1>1, <2>2, <2>3 DEF Empties, Members
    <3> QED BY <1>3, <2>1, <2>3, <3>1 DEF EmptyOK
  <2>4. CASE x = t
    <3>1. Members(h, x) # {}
      BY <2>2, <2>4 DEF Members
    <3>2. h.state[x] # "empty"
      BY <1>5, <2>1, <2>4 DEF EmptyOK
    <3> QED BY <3>1, <3>2 DEF EmptyOK
  <2>5. CASE x # t /\ ~(gone /\ x = u)
    <3>1. (Members(h, x) = {}) <=> (Members(g, x) = {})
      <4>1. CASE x # u
        BY <2>2, <2>5, <4>1 DEF Members
      <4>2. CASE x = u
        <5>1. c \in Members(g, x)
          BY <4>2 DEF Members
        <5>2. g.state[u] # "empty" /\ u # Flock /\ t # u
          BY <2>1, <2>5, <4>2, <5>1, FlockIn DEF EmptyOK
        <5>3. Members(g, u) # {c}
          BY <2>5, <4>2, <5>2 DEF Empties
        <5>4. PICK d \in Members(g, u) : d # c
          BY <4>2, <5>1, <5>3
        <5>5. d \in Members(h, x)
          BY <2>2, <4>2, <5>4 DEF Members
        <5> QED BY <5>1, <5>5
      <4> QED BY <4>1, <4>2
    <3> QED BY <1>4, <2>1, <2>5, <3>1 DEF EmptyOK
  <2> QED BY <2>3, <2>4, <2>5
<1> QED BY <1>6, <1>7 DEF Sound

\* It does not race in the team it comes to.
LEMMA RestForce ==
  ASSUME NEW g \in Games, NEW c \in Clients, NEW t \in AllTeams, NEW h,
         Forced(g, c, t, h), Sound(g), NEW X, Rest(g, X), t = Flock \/ g.race[c] # "started"
  PROVE  Rest(h, X \ {c})
<1>1. /\ h.team = [g.team EXCEPT ![c] = t] /\ h.body = g.body /\ h.race = g.race
      /\ h.result = g.result
  BY DEF Forced
<1>2. h.team[c] = t
  BY <1>1, GamesFields DEF Fields
<1>3. ASSUME NEW d \in Clients, d # c, d \notin X PROVE Resting(h, d)
  <2>1. h.team[d] = g.team[d] /\ (g.team[d] # Flock => h.state[g.team[d]] = g.state[g.team[d]])
    BY <1>3, Others
  <2> QED BY <1>1, <1>3, <2>1 DEF Rest, Resting
<1>4. Resting(h, c)
  BY <1>1, <1>2 DEF Resting
<1> QED BY <1>3, <1>4 DEF Rest

\* A team that is saved or loaded keeps its members if it is neither left nor joined.
LEMMA KeptForce ==
  ASSUME NEW g \in Games, NEW c \in Clients, NEW t \in AllTeams, NEW h,
         Forced(g, c, t, h), AllKept(g),
         t = g.team[c] \/ (~GetSaving(g, t) /\ ~GetSaving(g, g.team[c]))
  PROVE  AllKept(h)
<1>1. h.team = [g.team EXCEPT ![c] = t] /\ h.result = g.result
  BY DEF Forced
<1>2. \A d \in Clients : h.team[d] = IF d = c THEN t ELSE g.team[d]
  BY <1>1, GamesFields DEF Fields
<1>3. ASSUME NEW x \in Teams, h.result[x] # NoResult PROVE Members(h, x) = Members(g, x)
  BY <1>1, <1>2, <1>3, FlockIn DEF Members, GetSaving
<1> QED BY <1>1, <1>3 DEF AllKept, Kept

\* It brings nothing that could become a rank.
LEMMA RanksForce ==
  ASSUME NEW g \in Games, NEW c \in Clients, NEW t \in AllTeams, NEW h,
         Forced(g, c, t, h), Sound(g), NEW X, Ranks(g, X),
         t = g.team[c] \/ ~GetSaving(g, t),
         g.body[c] = "alive" => g.merit[c] # "practised",
         g.body[c] # "alive" => g.merit[c] = "none" /\ g.race[c] = "none",
         g.body[c] = "alive" /\ g.race[c] = "started" => t = Flock /\ g.merit[c] # "none"
  PROVE  Ranks(h, X \ {c})
<1>0. Fields(g)
  BY GamesFields
<1>1. /\ h.team = [g.team EXCEPT ![c] = t] /\ h.body = g.body /\ h.race = g.race
      /\ h.result = g.result /\ h.merit = g.merit /\ h.unearned = g.unearned
      /\ h.started = [g.started EXCEPT ![c] = FALSE]
      /\ h.finished = [g.finished EXCEPT ![c] = FALSE]
  BY DEF Forced
<1>2. h.team[c] = t /\ h.started[c] = FALSE /\ h.finished[c] = FALSE
  BY <1>0, <1>1 DEF Fields
<1>3. ASSUME NEW d \in Clients, d # c, d \notin X PROVE TeeEarns(h, d)
  <2> DEFINE u == g.team[d]
  <2>1. /\ h.team[d] = u
        /\ h.flock[u] = g.flock[u] /\ h.practice[u] = g.practice[u]
        /\ u # Flock => h.state[u] = g.state[u]
        /\ h.started[d] = g.started[d] /\ h.finished[d] = g.finished[d]
    BY <1>3, Others
  <2>2. h.state[Flock] # "finished"
    BY SoundForce DEF Sound, FlockOK
  <2>3. TeeEarns(g, d)
    BY <1>3 DEF Ranks
  <2> QED BY <1>1, <2>1, <2>2, <2>3 DEF TeeEarns
<1>4. TeeEarns(h, c)
  <2>1. t = Flock => h.state[t] # "finished"
    BY SoundForce DEF Sound, FlockOK
  <2> QED BY <1>1, <1>2, <2>1 DEF TeeEarns
<1>5. ASSUME NEW x \in Teams PROVE TeamEarns(h, x)
  <2> DEFINE u == g.team[c]
             gone == Empties(g, c, t)
  <2>1. x \in AllTeams /\ x # Flock /\ TeamEarns(g, x) /\ EmptyOK(g, x)
    BY FlockIn DEF Ranks, Sound
  <2>2. \A d \in Clients : h.team[d] = IF d = c THEN t ELSE g.team[d]
    BY <1>0, <1>1 DEF Fields
  <2>3. CASE gone /\ x = u
    <3>1. h.flock[x] = FALSE /\ h.practice[x] = FALSE
      BY <1>0, <2>1, <2>3 DEF Forced, Fields
    <3>2. Members(h, x) = {}
      BY <2>2, <2>3 DEF Empties, Members
    <3> QED BY <1>1, <2>1, <3>1, <3>2 DEF TeamEarns
  <2>4. CASE ~(gone /\ x = u)
    <3>1. h.flock[x] = g.flock[x] /\ h.practice[x] = g.practice[x]
      <4>1. CASE gone
        BY <1>0, <2>1, <2>4, <4>1, ZenonT(40) DEF Forced, Fields
      <4>2. CASE ~gone
        BY <4>2 DEF Forced
      <4> QED BY <4>1, <4>2
    <3>2. h.state[x] = g.state[x] \/ (x = t /\ g.state[x] = "empty")
      <4>1. CASE gone
        BY <1>0, <2>1, <2>4, <4>1 DEF Forced, Fields
      <4>2. CASE ~gone
        BY <1>0, <2>1, <4>2 DEF Forced, Fields
      <4> QED BY <4>1, <4>2
    <3>3. CASE h.state[x] # g.state[x]
      <4>1. ~g.flock[x] /\ x # u
        <5>1. Members(g, u) # {}
          BY DEF Members
        <5> QED BY <2>1, <3>2, <3>3, <5>1 DEF EmptyOK
      <4>2. g.result[x] = NoResult
        BY <2>1, <3>2, <3>3, <4>1 DEF GetSaving
      <4> QED BY <1>1, <2>1, <3>1, <4>1, <4>2 DEF TeamEarns, NoResult
    <3>4. CASE h.state[x] = g.state[x]
      <4>1. g.result[x].kind = "load" /\ Members(h, x) # {} => Members(g, x) # {}
        <5>1. CASE x = t /\ x # u
          BY <2>1, <5>1 DEF GetSaving, NoResult
        <5>2. CASE x # t \/ x = u
          BY <2>2, <5>2 DEF Members
        <5> QED BY <5>1, <5>2
      <4> QED BY <1>1, <2>1, <3>1, <3>4, <4>1 DEF TeamEarns
    <3> QED BY <3>3, <3>4
  <2> QED BY <2>3, <2>4
<1> QED BY <1>1, <1>3, <1>4, <1>5 DEF Ranks

\* All of that together.
LEMMA InvForce ==
  ASSUME NEW g \in Games, NEW c \in Clients, NEW t \in AllTeams, NEW h,
         Forced(g, c, t, h), NEW X, Inv(g, X),
         t = Flock \/ g.race[c] # "started",
         "spectate" \notin WhileSaving =>
           t = g.team[c] \/ (~GetSaving(g, t) /\ ~GetSaving(g, g.team[c])),
         WhileSaving = {} =>
           /\ g.body[c] = "alive" => g.merit[c] # "practised"
           /\ g.body[c] # "alive" => g.merit[c] = "none" /\ g.race[c] = "none"
           /\ g.body[c] = "alive" /\ g.race[c] = "started" => t = Flock /\ g.merit[c] # "none"
  PROVE  Inv(h, X \ {c})
<1>1. Sound(h) /\ Rest(h, X \ {c})
  BY SoundForce, RestForce DEF Inv
<1>2. "spectate" \notin WhileSaving => AllKept(h)
  BY KeptForce DEF Inv
<1>3. WhileSaving = {} => Ranks(h, X \ {c})
  <2> SUFFICES ASSUME WhileSaving = {} PROVE Ranks(h, X \ {c})
    OBVIOUS
  <2>1. "spectate" \notin WhileSaving
    OBVIOUS
  <2>2. t = g.team[c] \/ ~GetSaving(g, t)
    BY <2>1
  <2> QED BY <2>2, RanksForce DEF Inv
<1> QED BY <1>1, <1>2, <1>3 DEF Inv

----------------------------------------------------------------------------
(* A team finishes.                                                        *)

\* Nothing but deaths and moves to team 0.
Kills(g, h) ==
  /\ h \in Games /\ h.result = g.result
  /\ \A d \in Clients : h.team[d] \in {g.team[d], Flock}
  /\ \A d \in Clients : h.body[d] \in {g.body[d], "dead"}

\* CheckTeamFinished leaves the dead alone.
Spares(g, h) ==
  /\ h \in Games /\ h.result = g.result /\ h.body = g.body /\ h.merit = g.merit
  /\ \A d \in Clients : h.team[d] \in {g.team[d], Flock}
  /\ \A d \in Clients : g.body[d] # "alive" => h.race[d] = g.race[d]

\* The games on the way to the end of RankFold.
OnTheWay(S, k) ==
  {p \in ClientSets \X Games :
     /\ p[2].body = k.body /\ p[2].race = k.race /\ p[2].merit = k.merit
     /\ p[2].result = k.result /\ p[2].unearned = k.unearned
     /\ \A d \in Clients : p[2].team[d] = IF d \in S /\ d \in p[1] THEN Flock ELSE k.team[d]}

\* A turn of the loop: one more tee is back in team 0.
LEMMA WayForce ==
  ASSUME NEW S, NEW k \in Games, NEW R \in ClientSets, NEW c \in Clients \ R, NEW h \in Games,
         <<R, h>> \in OnTheWay(S, k)
  PROVE  <<R \cup {c}, TurnRank(S)[<<h, c>>]>> \in OnTheWay(S, k)
<1>1. TurnRank(S)[<<h, c>>] = IF c \in S THEN SetForceCharacterTeam(h, c, Flock) ELSE h
  BY DEF TurnRank
<1>2. R \cup {c} \in ClientSets
  BY DEF ClientSets
<1>3. CASE c \in S
  <2>1. Forced(h, c, Flock, TurnRank(S)[<<h, c>>])
    BY <1>1, <1>3, ForceDoes, FlockIn
  <2> DEFINE n == TurnRank(S)[<<h, c>>]
  <2> HIDE DEF n
  <2>2. /\ n \in Games /\ n.team = [h.team EXCEPT ![c] = Flock]
        /\ n.body = h.body /\ n.race = h.race /\ n.merit = h.merit
        /\ n.result = h.result /\ n.unearned = h.unearned
    BY <2>1 DEF Forced, n
  <2>3. h.team \in [Clients -> AllTeams]
    BY GamesFields DEF Fields
  <2>4. <<R \cup {c}, n>> \in OnTheWay(S, k)
    BY <1>2, <1>3, <2>2, <2>3 DEF OnTheWay
  <2> QED BY <2>4 DEF n
<1>4. CASE c \notin S
  BY <1>1, <1>2, <1>4 DEF OnTheWay
<1> QED BY <1>3, <1>4

\* CheckTeamFinished touches only the tees of its team.
LEMMA CheckSpares ==
  ASSUME NEW g \in Games, NEW t \in AllTeams
  PROVE  Spares(g, CheckTeamFinished(g, t))
<1> DEFINE r == CheckTeamFinished(g, t)
           S == Playing(g, t)
<1>1. Checked(g, t, r)
  BY CheckDoes
<1> HIDE DEF r
<1>2. CASE r = g
  BY <1>2 DEF Spares, r
<1>3. CASE r # g
  <2>1. PICK done : /\ Done(g, t, done)
                    /\ \/ r = done
                       \/ \E k : Ranked(done, S, k) /\ (r = k \/ r = RankFold(S, k))
    BY <1>1, <1>3 DEF Checked
  <2>2. Spares(g, done)
    BY <2>1 DEF Done, Spares, Playing, SameTeams
  <2>3. CASE r = done
    BY <2>2, <2>3 DEF r
  <2>4. CASE r # done
    <3>1. PICK k : Ranked(done, S, k) /\ (r = k \/ r = RankFold(S, k))
      BY <2>1, <2>4
    <3>2. Spares(g, k) /\ k \in Games
      BY <2>2, <3>1 DEF Ranked, Spares, Playing, SameTeams
    <3>3. CASE r = k
      BY <3>2, <3>3 DEF r
    <3>4. CASE r = RankFold(S, k)
      <4>1. FoldsTo(TurnRank(S), k, r)
        BY <3>2, <3>4, RankFolds
      <4>2. <<{}, k>> \in OnTheWay(S, k)
        BY <3>2 DEF OnTheWay, ClientSets
      <4>3. Keeps(TurnRank(S), OnTheWay(S, k))
        BY <3>2, WayForce DEF Keeps
      <4>4. <<Clients, r>> \in OnTheWay(S, k)
        BY <4>1, <4>2, <4>3, FoldKeeps
      <4>5. /\ r \in Games /\ r.body = k.body /\ r.race = k.race /\ r.merit = k.merit
            /\ r.result = k.result
            /\ \A d \in Clients : r.team[d] \in {k.team[d], Flock}
        BY <4>4 DEF OnTheWay
      <4> QED BY <3>2, <4>5 DEF Spares, r
    <3> QED BY <3>1, <3>3, <3>4
  <2> QED BY <2>3, <2>4
<1> QED BY <1>2, <1>3

\* The state of the team is "finished".
LEMMA InvDone ==
  ASSUME NEW g \in Games, NEW t \in AllTeams, Inv(g, {}), TeamFinished(g, t),
         Playing(g, t) # {}, "spectate" \in WhileSaving \/ ~GetSaving(g, t),
         NEW done, Done(g, t, done)
  PROVE  /\ Inv(done, {}) /\ t \in Teams
         /\ WhileSaving = {} => ~done.flock[t] /\ \A m \in Playing(g, t) :
              g.merit[m] # "none" /\ (~g.practice[t] => g.merit[m] = "crossed")
<1> DEFINE S == Playing(g, t)
<1>1. Fields(g) /\ Fields(done) /\ done.state = [g.state EXCEPT ![t] = "finished"]
  BY GamesFields DEF Done
<1>2. /\ done.team = g.team /\ done.body = g.body /\ done.merit = g.merit
      /\ done.locked = g.locked /\ done.flock = g.flock /\ done.practice = g.practice
      /\ done.killTick = g.killTick /\ done.result = g.result /\ done.unearned = g.unearned
      /\ \A c \in Clients : done.started[c] = (g.started[c] /\ c \notin S)
      /\ \A c \in Clients : done.finished[c] = (g.finished[c] /\ c \notin S)
      /\ \A c \in Clients : done.race[c] = IF c \in S THEN "finished" ELSE g.race[c]
  BY DEF Done
<1>3. g.state[t] = "started" /\ t \in Teams
  BY DEF TeamFinished, Inv, Sound, FlockOK, AllTeams
<1>4. /\ done.state[t] = "finished"
      /\ \A x \in AllTeams : x # t => done.state[x] = g.state[x]
  BY <1>1 DEF Fields
<1>5. Sound(done)
  BY <1>2, <1>3, <1>4, FlockIn DEF Inv, Sound, FlockOK, EmptyOK, Members
<1>6. Rest(done, {})
  <2> SUFFICES ASSUME NEW c \in Clients PROVE Resting(done, c)
    BY DEF Rest
  <2>1. Resting(g, c) /\ g.team[c] \in AllTeams
    BY <1>1 DEF Inv, Rest, Fields
  <2>2. CASE g.team[c] = t
    BY <1>2, <1>4, <2>1, <2>2 DEF Resting
  <2>3. CASE g.team[c] # t
    BY <1>2, <1>4, <2>1, <2>3 DEF Resting
  <2> QED BY <2>2, <2>3
<1>7. "spectate" \notin WhileSaving => AllKept(done)
  BY <1>2 DEF Inv, AllKept, Kept, Members
<1>8. ASSUME WhileSaving = {}
      PROVE  /\ Ranks(done, {}) /\ ~done.flock[t]
             /\ \A m \in S : g.merit[m] # "none" /\ (~g.practice[t] => g.merit[m] = "crossed")
  <2>1. Ranks(g, {}) /\ g.result[t] = NoResult
    BY <1>3, <1>8, FlockIn DEF Inv, GetSaving
  <2>2. ASSUME NEW m \in S
        PROVE  /\ ~g.flock[t] /\ g.merit[m] # "none"
               /\ ~g.practice[t] => g.merit[m] = "crossed"
    <3>1. m \in Clients /\ g.team[m] = t /\ g.body[m] = "alive" /\ g.finished[m]
      BY DEF Playing, Members, TeamFinished
    <3>2. TeeEarns(g, m) /\ g.merit[m] \in Merits
      BY <1>1, <2>1, <3>1 DEF Ranks, Fields
    <3>3. ~g.flock[t] /\ g.merit[m] # "none"
      BY <2>1, <3>1, <3>2 DEF TeeEarns
    <3>4. ~g.practice[t] => g.merit[m] # "practised"
      BY <3>1, <3>2 DEF TeeEarns
    <3> QED BY <3>2, <3>3, <3>4 DEF Merits
  <2>3. ~g.flock[t]
    BY <2>2
  <2>4. ASSUME NEW c \in Clients PROVE TeeEarns(done, c)
    <3>1. TeeEarns(g, c) /\ g.team[c] \in AllTeams
      BY <1>1, <2>1 DEF Ranks, Fields
    <3>2. CASE c \in S
      <4>1. g.team[c] = t /\ g.body[c] = "alive"
        BY <3>2 DEF Playing, Members
      <4>2. done.race[c] = "finished" /\ done.started[c] = FALSE /\ done.finished[c] = FALSE
        BY <1>2, <3>2
      <4> QED BY <1>2, <1>4, <3>1, <4>1, <4>2 DEF TeeEarns
    <3>3. CASE c \notin S
      <4>1. /\ done.race[c] = g.race[c] /\ done.started[c] = g.started[c]
            /\ done.finished[c] = g.finished[c]
        BY <1>1, <1>2, <3>3 DEF Fields
      <4>2. g.team[c] = t => g.body[c] # "alive"
        BY <3>3 DEF Playing, Members
      <4>3. CASE g.team[c] = t
        BY <1>2, <1>4, <3>1, <4>1, <4>2, <4>3 DEF TeeEarns
      <4>4. CASE g.team[c] # t
        BY <1>2, <1>4, <3>1, <4>1, <4>4 DEF TeeEarns
      <4> QED BY <4>3, <4>4
    <3> QED BY <3>2, <3>3
  <2>5. ASSUME NEW x \in Teams PROVE TeamEarns(done, x)
    <3>1. TeamEarns(g, x) /\ x \in AllTeams
      BY <2>1, FlockIn DEF Ranks
    <3>2. CASE x = t
      BY <1>2, <2>1, <2>3, <3>1, <3>2 DEF TeamEarns, NoResult
    <3>3. CASE x # t
      BY <1>2, <1>4, <3>1, <3>3 DEF TeamEarns, Members
    <3> QED BY <3>2, <3>3
  <2> QED BY <1>2, <2>1, <2>2, <2>3, <2>4, <2>5 DEF Ranks
<1> QED BY <1>3, <1>5, <1>6, <1>7, <1>8 DEF Inv

\* Tees get a rank.
LEMMA InvRanked ==
  ASSUME NEW g \in Games, NEW S \in SUBSET Clients, Inv(g, {}), NEW k, Ranked(g, S, k),
         WhileSaving = {} => \A m \in S : g.merit[m] = "crossed"
  PROVE  Inv(k, {})
<1>1. /\ k.team = g.team /\ k.body = g.body /\ k.merit = g.merit
      /\ k.started = g.started /\ k.finished = g.finished
      /\ k.unearned = g.unearned \cup {c \in S : g.merit[c] # "crossed"}
      /\ \A c \in Clients : k.race[c] = IF c \in S THEN "finished" ELSE g.race[c]
  BY DEF Ranked
<1>2. /\ k.state = g.state /\ k.locked = g.locked /\ k.flock = g.flock
      /\ k.practice = g.practice /\ k.killTick = g.killTick /\ k.result = g.result
  BY DEF Ranked, SameTeams
<1>3. Sound(k)
  BY <1>1, <1>2 DEF Inv, Sound, FlockOK, EmptyOK, Members
<1>4. Rest(k, {})
  BY <1>1, <1>2 DEF Inv, Rest, Resting
<1>5. "spectate" \notin WhileSaving => AllKept(k)
  BY <1>1, <1>2 DEF Inv, AllKept, Kept, Members
<1>6. ASSUME WhileSaving = {} PROVE Ranks(k, {})
  <2>1. Ranks(g, {}) /\ k.unearned = {}
    BY <1>1, <1>6 DEF Inv, Ranks
  <2>2. \A c \in Clients : TeeEarns(k, c)
    BY <1>1, <1>2, <2>1 DEF Ranks, TeeEarns
  <2>3. \A x \in Teams : TeamEarns(k, x)
    BY <1>1, <1>2, <2>1 DEF Ranks, TeamEarns, Members
  <2> QED BY <2>1, <2>2, <2>3 DEF Ranks
<1> QED BY <1>3, <1>4, <1>5, <1>6 DEF Inv

\* CheckTeamFinished keeps the invariant.
LEMMA InvCheck ==
  ASSUME NEW g \in Games, NEW t \in AllTeams, NEW X, Inv(g, X),
         "spectate" \in WhileSaving \/ ~GetSaving(g, t), g.state[t] = "started" => X = {}
  PROVE  Inv(CheckTeamFinished(g, t), X)
<1> DEFINE r == CheckTeamFinished(g, t)
           S == Playing(g, t)
<1>1. Checked(g, t, r) /\ S \in SUBSET Clients
  BY CheckDoes DEF Playing, Members
<1> HIDE DEF r
<1>2. CASE r = g
  BY <1>2 DEF r
<1>3. CASE r # g
  <2>1. /\ TeamFinished(g, t) /\ Playing(g, t) # {}
        /\ \E done : /\ Done(g, t, done)
                     /\ \/ r = done
                        \/ /\ ~g.practice[t]
                           /\ \E k : Ranked(done, S, k) /\ (r = k \/ r = RankFold(S, k))
    BY <1>1, <1>3 DEF Checked
  <2>2. X = {}
    BY <2>1 DEF TeamFinished
  <2>3. PICK done : /\ Done(g, t, done)
                    /\ \/ r = done
                       \/ /\ ~g.practice[t]
                          /\ \E k : Ranked(done, S, k) /\ (r = k \/ r = RankFold(S, k))
    BY <2>1
  <2>4. /\ Inv(done, {}) /\ t \in Teams
        /\ WhileSaving = {} => ~done.flock[t] /\ \A m \in Playing(g, t) :
             g.merit[m] # "none" /\ (~g.practice[t] => g.merit[m] = "crossed")
    BY <2>1, <2>2, <2>3, InvDone
  <2>5. done \in Games /\ done.merit = g.merit /\ done.team = g.team /\ done.body = g.body
        /\ done.result = g.result /\ \A m \in S : done.race[m] = "finished"
    BY <1>1, <2>3 DEF Done
  <2>6. CASE r = done
    BY <2>2, <2>4, <2>6 DEF r
  <2>7. CASE r # done
    <3>0. ~g.practice[t]
      BY <2>3, <2>7
    <3>1. PICK k : Ranked(done, S, k) /\ (r = k \/ r = RankFold(S, k))
      BY <2>3, <2>7
    <3>2. Inv(k, {})
      BY <1>1, <2>4, <2>5, <3>0, <3>1, InvRanked
    <3>3. CASE r = k
      BY <2>2, <3>2, <3>3 DEF r
    <3>4. CASE r = RankFold(S, k)
      <4> DEFINE Q == {p \in OnTheWay(S, k) : Inv(p[2], {})}
      <4>1. /\ k \in Games /\ k.team = g.team /\ k.body = g.body /\ k.merit = g.merit
            /\ k.result = g.result /\ \A m \in S : k.race[m] = "finished"
        BY <1>1, <2>5, <3>1 DEF Ranked, SameTeams
      <4>2. FoldsTo(TurnRank(S), k, r)
        BY <3>4, <4>1, RankFolds
      <4>3. <<{}, k>> \in Q
        BY <3>2, <4>1 DEF OnTheWay, ClientSets
      <4>4. ASSUME NEW R \in ClientSets, NEW c \in Clients \ R, NEW h \in Games, <<R, h>> \in Q
            PROVE  <<R \cup {c}, TurnRank(S)[<<h, c>>]>> \in Q
        <5>1. <<R, h>> \in OnTheWay(S, k) /\ Inv(h, {})
          BY <4>4
        <5>2. <<R \cup {c}, TurnRank(S)[<<h, c>>]>> \in OnTheWay(S, k)
          BY <4>1, <5>1, WayForce
        <5>3. TurnRank(S)[<<h, c>>] = IF c \in S THEN SetForceCharacterTeam(h, c, Flock) ELSE h
          BY DEF TurnRank
        <5>4. Inv(TurnRank(S)[<<h, c>>], {})
          <6>1. CASE c \in S
            <7> DEFINE n == SetForceCharacterTeam(h, c, Flock)
            <7>1. Forced(h, c, Flock, n)
              BY ForceDoes, FlockIn
            <7>2. /\ h.body[c] = g.body[c] /\ h.merit[c] = g.merit[c]
                  /\ h.race[c] = "finished" /\ h.result = g.result /\ h.team[c] = g.team[c]
              BY <4>1, <5>1, <6>1 DEF OnTheWay
            <7>3. g.body[c] = "alive" /\ g.team[c] = t
              BY <6>1 DEF Playing, Members
            <7>4. "spectate" \notin WhileSaving => ~GetSaving(h, Flock) /\ ~GetSaving(h, h.team[c])
              BY <7>2, <7>3 DEF GetSaving
            <7>5. WhileSaving = {} => h.merit[c] # "practised"
              BY <2>4, <3>0, <6>1, <7>2
            <7> HIDE DEF n
            <7>6. Inv(n, {} \ {c})
              BY <5>1, <7>1, <7>2, <7>3, <7>4, <7>5, FlockIn, InvForce
            <7>7. {} \ {c} = {}
              OBVIOUS
            <7> QED BY <5>3, <6>1, <7>6, <7>7 DEF n
          <6>2. CASE c \notin S
            BY <5>1, <5>3, <6>2
          <6> QED BY <6>1, <6>2
        <5> QED BY <5>2, <5>4
      <4>5. Keeps(TurnRank(S), Q)
        BY <4>4 DEF Keeps
      <4> HIDE DEF Q
      <4>6. <<Clients, r>> \in Q
        BY <4>2, <4>3, <4>5, FoldKeeps
      <4> QED BY <2>2, <4>6 DEF Q, r
    <3> QED BY <3>1, <3>3, <3>4
  <2> QED BY <2>6, <2>7
<1> QED BY <1>2, <1>3

----------------------------------------------------------------------------
(* A tee dies.                                                             *)

\* Its death opens the team again, so that the others are killed.
Reopens(g, c, weapon) ==
  LET t == g.team[c]
  IN  /\ ~GetSaving(g, t) /\ g.locked[t] /\ weapon # "game"
      /\ g.state[t] # "open" /\ ~g.flock[t]

\* What DieAlone makes of the tee and of the others.
Killed(g, c, r) ==
  /\ Kills(g, r) /\ r.body[c] = "dead" /\ r.race[c] = "none" /\ r.merit[c] = "none"
  /\ g.state[g.team[c]] = "open" =>
       /\ r.state[g.team[c]] \in {"open", "empty"}
       /\ \A d \in Clients : d # c => r.team[d] = g.team[d] /\ r.body[d] = g.body[d]

\* What becomes of the states of the teams.
LEMMA ForcedState ==
  ASSUME NEW g \in Games, NEW c \in Clients, NEW t \in AllTeams, NEW h, Forced(g, c, t, h),
         NEW x \in AllTeams
  PROVE  h.state[x] \in {g.state[x], "empty", "open"}
<1>1. g.state \in [AllTeams -> StatesSet] /\ g.team[c] \in AllTeams
  BY GamesFields DEF Fields
<1>2. CASE Empties(g, c, t)
  BY <1>1, <1>2 DEF Forced
<1>3. CASE ~Empties(g, c, t)
  BY <1>1, <1>3 DEF Forced
<1> QED BY <1>2, <1>3

\* A death, whatever its kind.
LEMMA DieKills ==
  ASSUME NEW g \in Games, NEW c \in Clients, NEW weapon
  PROVE  Killed(g, c, DieAlone(g, c, weapon))
<1> DEFINE t == g.team[c]
           r == DieAlone(g, c, weapon)
<1>0. Fields(g) /\ t \in AllTeams
  BY GamesFields DEF Fields
<1>1. ASSUME NEW dead, Dead(g, c, dead)
      PROVE  /\ dead \in Games /\ dead.team = g.team /\ dead.result = g.result
             /\ dead.state = g.state
             /\ dead.body[c] = "dead" /\ dead.race[c] = "none" /\ dead.merit[c] = "none"
             /\ \A d \in Clients : d # c => dead.body[d] = g.body[d]
  BY <1>0, <1>1 DEF Dead, SameTeams, Fields
<1>2. DiedSaved(g, c, r) \/ DiedLocked(g, c, weapon, r) \/ DiedLeaving(g, c, weapon, r)
  BY DieDoes
<1> HIDE DEF r
<1>3. CASE DiedSaved(g, c, r)
  <2>1. Dead(g, c, r)
    BY <1>3 DEF DiedSaved
  <2>2. Killed(g, c, r)
    BY <1>1, <2>1 DEF Killed, Kills
  <2> QED BY <2>2 DEF r
<1>4. CASE DiedLocked(g, c, weapon, r)
  <2>1. PICK dead, again :
          /\ Dead(g, c, dead) /\ Forced(dead, c, t, again)
          /\ \/ (g.state[t] = "open" \/ g.flock[t]) /\ r = again
             \/ g.state[t] # "open" /\ ~g.flock[t] /\ Reopened(again, t, r)
    BY <1>4 DEF DiedLocked
  <2>2. /\ again \in Games /\ again.team = [dead.team EXCEPT ![c] = t]
        /\ again.body = dead.body /\ again.race = dead.race /\ again.merit = dead.merit
        /\ again.result = dead.result
    BY <2>1 DEF Forced
  <2>3. again.team = g.team
    BY <1>0, <1>1, <2>1, <2>2 DEF Fields
  <2>4. again.state[t] \in {g.state[t], "empty", "open"}
    BY <1>0, <1>1, <2>1, ForcedState
  <2>5. CASE r = again
    <3>1. Killed(g, c, again)
      BY <1>1, <2>1, <2>2, <2>3, <2>4 DEF Killed, Kills
    <3> QED BY <2>5, <3>1 DEF r
  <2>6. CASE g.state[t] # "open" /\ Reopened(again, t, r)
    <3>1. /\ r \in Games /\ r.team = again.team /\ r.body = again.body /\ r.race = again.race
          /\ r.merit = again.merit /\ r.result = again.result
      BY <2>6 DEF Reopened, SameTees
    <3>2. Killed(g, c, r)
      BY <1>1, <2>1, <2>2, <2>3, <2>6, <3>1 DEF Killed, Kills
    <3> QED BY <3>2 DEF r
  <2> QED BY <2>1, <2>5, <2>6
<1>5. CASE DiedLeaving(g, c, weapon, r)
  <2>1. PICK dead, lost, out :
          /\ Dead(g, c, dead) /\ Forced(lost, c, Flock, out)
          /\ \/ lost = dead
             \/ g.state[t] = "started" /\ ~g.started[c] /\ ~g.flock[t] /\ Lost(dead, t, lost)
          /\ r = CheckTeamFinished(out, t)
    BY <1>5 DEF DiedLeaving
  <2>2. /\ lost \in Games /\ lost.team = g.team /\ lost.result = g.result
        /\ lost.body = dead.body /\ lost.race = dead.race /\ lost.merit = dead.merit
        /\ g.state[t] = "open" => lost.state = g.state
    BY <1>1, <2>1 DEF Lost, SameTees
  <2>3. /\ out \in Games /\ out.team = [g.team EXCEPT ![c] = Flock]
        /\ out.body = dead.body /\ out.race = dead.race /\ out.merit = dead.merit
        /\ out.result = g.result
    BY <2>1, <2>2 DEF Forced
  <2>4. \A d \in Clients : out.team[d] = IF d = c THEN Flock ELSE g.team[d]
    BY <1>0, <2>3 DEF Fields
  <2>5. Spares(out, r)
    BY <1>0, <2>1, <2>3, CheckSpares
  <2>6. Kills(g, r) /\ r.body[c] = "dead" /\ r.race[c] = "none" /\ r.merit[c] = "none"
    BY <1>1, <2>1, <2>3, <2>4, <2>5 DEF Spares, Kills
  <2>7. ASSUME g.state[t] = "open"
        PROVE  /\ r.state[t] \in {"open", "empty"}
               /\ \A d \in Clients : d # c => r.team[d] = g.team[d] /\ r.body[d] = g.body[d]
    <3>1. out.state[t] \in {"open", "empty"}
      BY <1>0, <2>1, <2>2, <2>7, ForcedState, FlockIn
    <3>2. Checked(out, t, r)
      BY <1>0, <2>1, <2>3, CheckDoes
    <3>3. r = out
      BY <3>1, <3>2 DEF Checked, TeamFinished
    <3>4. \A d \in Clients : d # c => out.team[d] = g.team[d]
      BY <2>4
    <3>5. \A d \in Clients : d # c => out.body[d] = g.body[d]
      BY <1>1, <2>1, <2>3
    <3> HIDE DEF t
    <3> QED BY <3>1, <3>3, <3>4, <3>5
  <2>8. Killed(g, c, r)
    BY <2>6, <2>7 DEF Killed
  <2> QED BY <2>8 DEF r
<1> QED BY <1>2, <1>3, <1>4, <1>5

\* The tee has no race left; nothing else has changed.
LEMMA InvDead ==
  ASSUME NEW g \in Games, NEW c \in Clients, NEW X, Inv(g, X), NEW dead, Dead(g, c, dead)
  PROVE  /\ Inv(dead, X \cup {c})
         /\ GetSaving(g, g.team[c]) /\ X = {} => Inv(dead, {})
<1>0. Fields(g)
  BY GamesFields
<1>1. /\ dead.team = g.team /\ dead.started = g.started /\ dead.finished = g.finished
      /\ dead.unearned = g.unearned
      /\ \A d \in Clients : d # c => /\ dead.body[d] = g.body[d] /\ dead.race[d] = g.race[d]
                                     /\ dead.merit[d] = g.merit[d]
      /\ dead.body[c] = "dead" /\ dead.race[c] = "none" /\ dead.merit[c] = "none"
  BY <1>0 DEF Dead, Fields
<1>2. /\ dead.state = g.state /\ dead.locked = g.locked /\ dead.flock = g.flock
      /\ dead.practice = g.practice /\ dead.killTick = g.killTick /\ dead.result = g.result
  BY DEF Dead, SameTeams
<1>3. Sound(dead)
  BY <1>1, <1>2 DEF Inv, Sound, FlockOK, EmptyOK, Members
<1>4. Rest(dead, X)
  BY <1>1, <1>2 DEF Inv, Rest, Resting
<1>5. "spectate" \notin WhileSaving => AllKept(dead)
  BY <1>1, <1>2 DEF Inv, AllKept, Kept, Members
<1>6. ASSUME WhileSaving = {}
      PROVE  /\ Ranks(dead, X \cup {c})
             /\ GetSaving(g, g.team[c]) /\ X = {} => Ranks(dead, {})
  <2>1. Ranks(g, X)
    BY <1>6 DEF Inv
  <2>2. \A d \in Clients \ (X \cup {c}) : TeeEarns(dead, d)
    BY <1>1, <1>2, <2>1 DEF Ranks, TeeEarns
  <2>3. \A x \in Teams : TeamEarns(dead, x)
    BY <1>1, <1>2, <2>1 DEF Ranks, TeamEarns, Members
  <2>4. ASSUME GetSaving(g, g.team[c]), X = {} PROVE TeeEarns(dead, c)
    <3> DEFINE t == g.team[c]
    <3>1. t \in Teams /\ g.result[t] # NoResult /\ t # Flock
      BY <1>0, <2>4, FlockIn DEF GetSaving, Fields, AllTeams
    <3>2. TeamEarns(g, t) /\ TeeEarns(g, c)
      BY <2>1, <2>4, <3>1 DEF Ranks
    <3>3. g.result[t].kind # "save" => g.result[t].kind = "load"
      BY <1>0, <3>1 DEF Fields, Results
    <3>4. c \in Members(g, t)
      BY DEF Members
    <3>5. g.result[t].kind # "save" => ~g.started[c] /\ ~g.finished[c]
      BY <3>1, <3>2, <3>3, <3>4 DEF TeamEarns, TeeEarns
    <3> QED BY <1>1, <1>2, <3>2, <3>5 DEF TeeEarns
  <2> QED BY <1>1, <2>1, <2>2, <2>3, <2>4 DEF Ranks
<1> QED BY <1>3, <1>4, <1>5, <1>6 DEF Inv, Rest

\* A team that has lost a tee that had not started cannot finish.
LEMMA InvLost ==
  ASSUME NEW g \in Games, NEW t \in AllTeams, NEW X, Inv(g, X), NEW lost, Lost(g, t, lost),
         g.state[t] = "started", ~g.flock[t], ~GetSaving(g, t)
  PROVE  Inv(lost, X)
<1>0. Fields(g) /\ t \in Teams /\ g.result[t] = NoResult
  BY GamesFields, FlockIn DEF Inv, Sound, FlockOK, AllTeams, GetSaving
<1>1. /\ lost.team = g.team /\ lost.started = g.started /\ lost.finished = g.finished
      /\ lost.body = g.body /\ lost.race = g.race /\ lost.merit = g.merit
      /\ lost.unearned = g.unearned /\ lost.locked = g.locked /\ lost.flock = g.flock
      /\ lost.practice = g.practice /\ lost.result = g.result
  BY DEF Lost, SameTees
<1>2. /\ lost.state[t] = "unfinishable"
      /\ \A x \in AllTeams : x # t => /\ lost.state[x] = g.state[x]
                                      /\ lost.killTick[x] = g.killTick[x]
  BY <1>0 DEF Lost, Fields
<1>3. Sound(lost)
  BY <1>0, <1>1, <1>2, FlockIn DEF Inv, Sound, FlockOK, EmptyOK, Members
<1>4. \A c \in Clients : g.team[c] \in AllTeams
  BY <1>0 DEF Fields
<1>5. Rest(lost, X)
  BY <1>0, <1>1, <1>2, <1>4 DEF Inv, Rest, Resting
<1>6. "spectate" \notin WhileSaving => AllKept(lost)
  BY <1>1 DEF Inv, AllKept, Kept, Members
<1>7. ASSUME WhileSaving = {} PROVE Ranks(lost, X)
  <2>1. Ranks(g, X)
    BY <1>7 DEF Inv
  <2>2. ASSUME NEW c \in Clients \ X PROVE TeeEarns(lost, c)
    <3>1. TeeEarns(g, c)
      BY <2>1 DEF Ranks
    <3>2. CASE g.team[c] = t
      BY <1>1, <1>2, <3>1, <3>2 DEF TeeEarns
    <3>3. CASE g.team[c] # t
      BY <1>1, <1>2, <1>4, <3>1, <3>3 DEF TeeEarns
    <3> QED BY <3>2, <3>3
  <2>3. ASSUME NEW x \in Teams PROVE TeamEarns(lost, x)
    <3>1. TeamEarns(g, x) /\ x \in AllTeams
      BY <2>1, FlockIn DEF Ranks
    <3>2. CASE x = t
      BY <1>0, <1>1, <3>1, <3>2 DEF TeamEarns, NoResult
    <3>3. CASE x # t
      BY <1>1, <1>2, <3>1, <3>3 DEF TeamEarns, Members
    <3> QED BY <3>2, <3>3
  <2> QED BY <1>1, <2>1, <2>2, <2>3 DEF Ranks
<1> QED BY <1>3, <1>5, <1>6, <1>7 DEF Inv

\* The others of the reopened team are exempt until they are killed.
LEMMA InvReopened ==
  ASSUME NEW g \in Games, NEW t \in AllTeams, Inv(g, {}), NEW r, Reopened(g, t, r),
         g.locked[t], ~g.flock[t], ~GetSaving(g, t), Members(g, t) # {}
  PROVE  Inv(r, Playing(g, t)) /\ r.state[t] = "open"
<1> DEFINE P == Playing(g, t)
<1>0. Fields(g) /\ t \in Teams /\ g.result[t] = NoResult
  BY GamesFields, FlockIn DEF Inv, Sound, FlockOK, AllTeams, GetSaving
<1>1. /\ r.team = g.team /\ r.started = g.started /\ r.finished = g.finished
      /\ r.body = g.body /\ r.race = g.race /\ r.merit = g.merit
      /\ r.unearned = g.unearned /\ r.locked = g.locked /\ r.flock = g.flock
      /\ r.killTick = g.killTick /\ r.result = g.result
  BY DEF Reopened, SameTees
<1>2. /\ r.state[t] = "open" /\ r.practice[t] = FALSE
      /\ \A x \in AllTeams : x # t => /\ r.state[x] = g.state[x]
                                      /\ r.practice[x] = g.practice[x]
  BY <1>0 DEF Reopened, Fields
<1>3. Sound(r)
  BY <1>0, <1>1, <1>2, FlockIn DEF Inv, Sound, FlockOK, EmptyOK, Members
<1>4. \A c \in Clients : g.team[c] \in AllTeams
  BY <1>0 DEF Fields
<1>5. Rest(r, P)
  <2> SUFFICES ASSUME NEW c \in Clients \ P PROVE Resting(r, c)
    BY DEF Rest
  <2>1. Resting(g, c)
    BY DEF Inv, Rest
  <2>2. CASE g.team[c] = t
    BY <1>1, <2>2 DEF Resting, Playing, Members
  <2>3. CASE g.team[c] # t
    BY <1>1, <1>2, <1>4, <2>1, <2>3 DEF Resting
  <2> QED BY <2>2, <2>3
<1>6. "spectate" \notin WhileSaving => AllKept(r)
  BY <1>1 DEF Inv, AllKept, Kept, Members
<1>7. ASSUME WhileSaving = {} PROVE Ranks(r, P)
  <2>1. Ranks(g, {})
    BY <1>7 DEF Inv
  <2>2. ASSUME NEW c \in Clients \ P PROVE TeeEarns(r, c)
    <3>1. TeeEarns(g, c)
      BY <2>1 DEF Ranks
    <3>2. CASE g.team[c] = t
      <4>1. g.body[c] # "alive" /\ g.result[t].kind # "save"
        BY <1>0, <3>2 DEF Playing, Members, NoResult
      <4> QED BY <1>1, <1>2, <3>1, <3>2, <4>1 DEF TeeEarns
    <3>3. CASE g.team[c] # t
      BY <1>1, <1>2, <1>4, <3>1, <3>3 DEF TeeEarns
    <3> QED BY <3>2, <3>3
  <2>3. ASSUME NEW x \in Teams PROVE TeamEarns(r, x)
    <3>1. TeamEarns(g, x) /\ x \in AllTeams
      BY <2>1, FlockIn DEF Ranks
    <3>2. CASE x = t
      BY <1>0, <1>1, <3>1, <3>2 DEF TeamEarns, NoResult
    <3>3. CASE x # t
      BY <1>1, <1>2, <3>1, <3>3 DEF TeamEarns, Members
    <3> QED BY <3>2, <3>3
  <2> QED BY <1>1, <2>1, <2>2, <2>3 DEF Ranks
<1> QED BY <1>2, <1>3, <1>5, <1>6, <1>7 DEF Inv

\* X is empty, or the team has been opened for the killing of X.
LEMMA InvDieAlone ==
  ASSUME NEW g \in Games, NEW c \in Clients, NEW weapon, NEW X, Inv(g, X),
         X = {} \/ (~GetSaving(g, g.team[c]) /\ g.state[g.team[c]] = "open")
  PROVE  LET r == DieAlone(g, c, weapon)
         IN  IF Reopens(g, c, weapon)
             THEN /\ Inv(r, Playing(g, g.team[c]) \ {c}) /\ r.team = g.team
                  /\ r.state[g.team[c]] = "open"
                  /\ \A d \in Clients : d # c => r.body[d] = g.body[d]
             ELSE Inv(r, X \ {c})
<1> DEFINE t == g.team[c]
           r == DieAlone(g, c, weapon)
<1>0. Fields(g) /\ t \in AllTeams
  BY GamesFields DEF Fields
<1>1. DiedSaved(g, c, r) \/ DiedLocked(g, c, weapon, r) \/ DiedLeaving(g, c, weapon, r)
  BY DieDoes
<1>2. ASSUME NEW dead, Dead(g, c, dead)
      PROVE  /\ dead \in Games /\ dead.team = g.team /\ dead.result = g.result
             /\ dead.state = g.state /\ dead.flock = g.flock /\ dead.locked = g.locked
             /\ dead.body[c] = "dead" /\ dead.race[c] = "none" /\ dead.merit[c] = "none"
             /\ \A d \in Clients : d # c => dead.body[d] = g.body[d]
             /\ Inv(dead, X \cup {c})
             /\ GetSaving(g, t) /\ X = {} => Inv(dead, {})
  <2>1. /\ dead \in Games /\ dead.team = g.team /\ dead.result = g.result
        /\ dead.state = g.state /\ dead.flock = g.flock /\ dead.locked = g.locked
        /\ dead.body[c] = "dead" /\ dead.race[c] = "none" /\ dead.merit[c] = "none"
        /\ \A d \in Clients : d # c => dead.body[d] = g.body[d]
    BY <1>0, <1>2 DEF Dead, SameTeams, Fields
  <2> QED BY <1>2, <2>1, InvDead
<1>3. (X \cup {c}) \ {c} = X \ {c}
  OBVIOUS
<1> HIDE DEF r
<1>4. CASE DiedSaved(g, c, r)
  <2>1. Dead(g, c, r) /\ GetSaving(g, t)
    BY <1>4 DEF DiedSaved
  <2>2. X = {} /\ ~Reopens(g, c, weapon) /\ X \ {c} = {}
    BY <2>1 DEF Reopens
  <2>3. Inv(r, X \ {c})
    BY <1>2, <2>1, <2>2
  <2> QED BY <2>2, <2>3 DEF r
<1>5. CASE DiedLocked(g, c, weapon, r)
  <2>1. PICK dead, again :
          /\ Dead(g, c, dead) /\ Forced(dead, c, t, again)
          /\ \/ (g.state[t] = "open" \/ g.flock[t]) /\ r = again
             \/ g.state[t] # "open" /\ ~g.flock[t] /\ Reopened(again, t, r)
    BY <1>5 DEF DiedLocked
  <2>2. ~GetSaving(g, t) /\ g.locked[t] /\ weapon # "game"
    BY <1>5 DEF DiedLocked
  <2>3. Inv(again, X \ {c})
    <3>1. Inv(dead, X \cup {c}) /\ dead \in Games /\ dead.race[c] = "none" /\ dead.body[c] = "dead"
          /\ dead.merit[c] = "none" /\ dead.team[c] = t
      BY <1>2, <2>1
    <3>2. Inv(again, (X \cup {c}) \ {c})
      BY <1>0, <2>1, <3>1, InvForce
    <3> QED BY <1>3, <3>2
  <2>4. CASE (g.state[t] = "open" \/ g.flock[t]) /\ r = again
    <3>1. ~Reopens(g, c, weapon)
      BY <2>4 DEF Reopens
    <3> QED BY <2>3, <2>4, <3>1 DEF r
  <2>5. CASE g.state[t] # "open" /\ ~g.flock[t] /\ Reopened(again, t, r)
    <3>1. Reopens(g, c, weapon)
      BY <2>2, <2>5 DEF Reopens
    <3>2. X \ {c} = {}
      BY <2>5
    <3>3. /\ again \in Games /\ again.team = [dead.team EXCEPT ![c] = t]
          /\ again.body = dead.body /\ again.result = dead.result
      BY <2>1 DEF Forced
    <3>4. /\ again.team = g.team
          /\ \A d \in Clients : d # c => again.body[d] = g.body[d]
          /\ again.body[c] = "dead" /\ again.result = g.result
      BY <1>0, <1>2, <2>1, <3>3 DEF Fields
    <3>5. c \in Members(again, t)
      BY <3>4 DEF Members
    <3>6. /\ again.locked[t] /\ ~again.flock[t] /\ ~GetSaving(again, t)
      <4>1. ~Empties(dead, c, t)
        BY <1>2, <2>1 DEF Empties
      <4>2. again.locked = g.locked /\ again.flock = g.flock
        BY <1>2, <2>1, <4>1 DEF Forced
      <4> QED BY <2>2, <2>5, <3>4, <4>2 DEF GetSaving
    <3>7. Inv(r, Playing(again, t)) /\ r.state[t] = "open"
      BY <1>0, <2>3, <2>5, <3>2, <3>3, <3>5, <3>6, InvReopened
    <3>8. Playing(again, t) = Playing(g, t) \ {c}
      BY <3>4 DEF Playing, Members
    <3>9. r.team = again.team /\ r.body = again.body
      BY <2>5 DEF Reopened, SameTees
    <3> QED BY <3>1, <3>4, <3>7, <3>8, <3>9 DEF r
  <2> QED BY <2>1, <2>4, <2>5
<1>6. CASE DiedLeaving(g, c, weapon, r)
  <2>1. PICK dead, lost, out :
          /\ Dead(g, c, dead) /\ Forced(lost, c, Flock, out)
          /\ \/ lost = dead
             \/ g.state[t] = "started" /\ ~g.started[c] /\ ~g.flock[t] /\ Lost(dead, t, lost)
          /\ r = CheckTeamFinished(out, t)
    BY <1>6 DEF DiedLeaving
  <2>2. ~GetSaving(g, t) /\ (~g.locked[t] \/ weapon = "game")
    BY <1>6 DEF DiedLeaving
  <2>3. ~Reopens(g, c, weapon)
    BY <2>2 DEF Reopens
  <2>4. /\ lost \in Games /\ lost.team = g.team /\ lost.result = g.result
        /\ lost.body[c] = "dead" /\ lost.race[c] = "none" /\ lost.merit[c] = "none"
        /\ g.state[t] = "open" => lost.state = g.state
    BY <1>2, <2>1 DEF Lost, SameTees
  <2>5. Inv(lost, X \cup {c})
    <3>1. CASE lost = dead
      BY <1>2, <2>1, <3>1
    <3>2. CASE g.state[t] = "started" /\ ~g.started[c] /\ ~g.flock[t] /\ Lost(dead, t, lost)
      <4>1. /\ dead \in Games /\ Inv(dead, X \cup {c}) /\ dead.state[t] = "started"
            /\ ~dead.flock[t] /\ ~GetSaving(dead, t)
        BY <1>2, <2>1, <2>2, <3>2 DEF GetSaving
      <4> QED BY <1>0, <3>2, <4>1, InvLost
    <3> QED BY <2>1, <3>1, <3>2
  <2>6. Inv(out, X \ {c})
    <3>1. ~GetSaving(lost, Flock) /\ ~GetSaving(lost, lost.team[c])
      BY <2>2, <2>4 DEF GetSaving
    <3>2. Inv(out, (X \cup {c}) \ {c})
      BY <2>1, <2>4, <2>5, <3>1, FlockIn, InvForce
    <3> QED BY <1>3, <3>2
  <2>7. out \in Games /\ ~GetSaving(out, t)
    BY <2>1, <2>2, <2>4 DEF Forced, GetSaving
  <2>8. out.state[t] = "started" => X \ {c} = {}
    <3>1. g.state[t] = "open" => out.state[t] \in {"open", "empty"}
      BY <1>0, <2>1, <2>4, ForcedState, FlockIn
    <3> QED BY <3>1
  <2>9. Inv(r, X \ {c})
    BY <1>0, <2>1, <2>6, <2>7, <2>8, InvCheck
  <2> QED BY <2>3, <2>9 DEF r
<1> QED BY <1>1, <1>4, <1>5, <1>6

----------------------------------------------------------------------------
(* A death kills the team.                                                 *)

DieFold(t, g) ==
  LET Each(h, d) == IF h.team[d] = t /\ h.body[d] = "alive" THEN DieAlone(h, d, "self") ELSE h
  IN  ForEach(Each, g)

TurnDie(t) == [p \in Games \X Clients |->
                 IF p[1].team[p[2]] = t /\ p[1].body[p[2]] = "alive"
                 THEN DieAlone(p[1], p[2], "self") ELSE p[1]]

\* The death of a locked team is a loop of deaths.
LEMMA DieFolds ==
  ASSUME NEW t, NEW g \in Games
  PROVE  FoldsTo(TurnDie(t), g, DieFold(t, g))
<1> DEFINE Do(h, d) == IF h.team[d] = t /\ h.body[d] = "alive" THEN DieAlone(h, d, "self") ELSE h
           K == TurnDie(t)
           Eq(it) == it = [R \in SUBSET Clients |->
                             IF R = {} THEN g ELSE Do(it[R \ {Max(R)}], Max(R))]
           iter == CHOOSE it : Eq(it)
<1>1. DieFold(t, g) = iter[Clients]
  BY DEF DieFold, ForEach, MapThenFoldSet
<1>2. /\ K \in [Games \X Clients -> Games]
      /\ \A h \in Games : \A d \in Clients : K[<<h, d>>] = Do(h, d)
  BY DieKills DEF TurnDie, Killed, Kills
<1> HIDE DEF K, Do
<1>3. \E it : Eq(it)
  <2>1. PICK it : Stepping(Games, K, g, it)
    BY <1>2, Steps
  <2>2. ASSUME NEW R \in ClientSets, R # {}
        PROVE  it[R] = Do(it[R \ {Max(R)}], Max(R))
    <3>1. Max(R) \in Clients /\ R \ {Max(R)} \in ClientSets
      BY <2>2, HasMax, ClientSetsFinite DEF ClientSets
    <3> QED BY <1>2, <2>1, <2>2, <3>1 DEF Stepping
  <2>3. it = [R \in ClientSets |-> IF R = {} THEN g ELSE Do(it[R \ {Max(R)}], Max(R))]
    BY <2>1, <2>2 DEF Stepping
  <2> QED BY <2>3 DEF ClientSets
<1>4. Eq(iter)
  BY <1>3
<1> HIDE DEF iter
<1>5. Turns(K, g, iter)
  <2>1. iter[{}] = g
    BY <1>4
  <2>2. ASSUME NEW R \in ClientSets, R # {}, iter[R \ {Max(R)}] \in Games
        PROVE  iter[R] = K[<<iter[R \ {Max(R)}], Max(R)>>]
    <3>1. Max(R) \in Clients
      BY <2>2, HasMax DEF ClientSets
    <3>2. iter[R] = Do(iter[R \ {Max(R)}], Max(R))
      BY <1>4, <2>2 DEF ClientSets
    <3> QED BY <1>2, <2>2, <3>1, <3>2
  <2> QED BY <2>1, <2>2 DEF Turns
<1>6. FoldsTo(K, g, iter[Clients])
  BY <1>2, <1>5, Folding
<1> QED BY <1>1, <1>6 DEF K

\* The lock of a team has changed.
Locked(g, t, h) ==
  /\ h \in Games /\ h.team = g.team /\ SameTees(g, h) /\ h.unearned = g.unearned
  /\ h.state = g.state /\ h.flock = g.flock /\ h.practice = g.practice
  /\ h.killTick = g.killTick /\ h.result = g.result
  /\ \A x \in AllTeams : x # t => h.locked[x] = g.locked[x]

\* The lock, field by field.
LEMMA LockDoes ==
  ASSUME NEW g \in Games, NEW t \in AllTeams, NEW v \in BOOLEAN
  PROVE  Locked(g, t, [g EXCEPT !.locked[t] = v])
<1> DEFINE h == [g EXCEPT !.locked[t] = v]
<1>1. h \in Games
  BY DEF Games
<1>2. /\ h.team = g.team /\ h.unearned = g.unearned /\ h.state = g.state
      /\ h.flock = g.flock /\ h.practice = g.practice
      /\ h.killTick = g.killTick /\ h.result = g.result
  BY DEF Games
<1>3. SameTees(g, h)
  BY DEF Games, SameTees
<1>4. \A x \in AllTeams : x # t => h.locked[x] = g.locked[x]
  BY DEF Games
<1> QED BY <1>1, <1>2, <1>3, <1>4 DEF Locked

\* A team with members may be locked and unlocked.
LEMMA InvLocked ==
  ASSUME NEW g \in Games, NEW t \in Teams, NEW X, Inv(g, X), NEW h, Locked(g, t, h),
         g.state[t] # "empty"
  PROVE  Inv(h, X)
<1>1. /\ h.team = g.team /\ h.unearned = g.unearned /\ h.state = g.state
      /\ h.flock = g.flock /\ h.practice = g.practice
      /\ h.killTick = g.killTick /\ h.result = g.result
      /\ \A x \in AllTeams : x # t => h.locked[x] = g.locked[x]
      /\ h.body = g.body /\ h.race = g.race /\ h.merit = g.merit
      /\ h.started = g.started /\ h.finished = g.finished
  BY DEF Locked, SameTees
<1>2. Sound(h)
  BY <1>1, FlockIn DEF Inv, Sound, FlockOK, EmptyOK, Members
<1>3. Rest(h, X)
  BY <1>1 DEF Inv, Rest, Resting
<1>4. "spectate" \notin WhileSaving => AllKept(h)
  BY <1>1 DEF Inv, AllKept, Kept, Members
<1>5. ASSUME WhileSaving = {} PROVE Ranks(h, X)
  <2>1. Ranks(g, X)
    BY <1>5 DEF Inv
  <2>2. \A c \in Clients \ X : TeeEarns(h, c)
    BY <1>1, <2>1 DEF Ranks, TeeEarns
  <2>3. \A x \in Teams : TeamEarns(h, x)
    BY <1>1, <2>1 DEF Ranks, TeamEarns, Members
  <2> QED BY <1>1, <2>1, <2>2, <2>3 DEF Ranks
<1> QED BY <1>2, <1>3, <1>4, <1>5 DEF Inv

\* Nobody is killed back to life.
LEMMA KillsKills ==
  ASSUME NEW g, NEW h, NEW k, Kills(g, h), Kills(h, k)
  PROVE  Kills(g, k)
BY DEF Kills

\* Die, in steps: the tee, and perhaps the others of its locked team.
LEMMA DieSteps ==
  ASSUME NEW g \in Games, NEW c \in Clients, NEW weapon
  PROVE  LET t == g.team[c]
             alone == DieAlone(g, c, weapon)
             r == Die(g, c, weapon)
         IN  \/ r = alone /\ ~Reopens(g, c, weapon)
             \/ /\ Reopens(g, c, weapon)
                /\ \E b : Locked(alone, t, b) /\ r = DieFold(t, b)
<1> DEFINE t == g.team[c]
           alone == DieAlone(g, c, weapon)
           disbanded == Cardinality(Members(alone, t)) > MaxTeamSize
           b == [alone EXCEPT !.locked[t] = @ /\ ~disbanded]
           r == Die(g, c, weapon)
<1>1. r = IF Reopens(g, c, weapon) THEN DieFold(t, b) ELSE alone
  BY DEF Die, DieFold, Reopens
<1>2. alone \in Games /\ t \in AllTeams
  BY DieKills, GamesFields DEF Killed, Kills, Fields
<1> HIDE DEF disbanded, alone, t, r
<1>3. b = [alone EXCEPT !.locked[t] = alone.locked[t] /\ ~disbanded]
  OBVIOUS
<1>4. Locked(alone, t, b)
  <2>1. (alone.locked[t] /\ ~disbanded) \in BOOLEAN
    OBVIOUS
  <2> QED BY <1>2, <1>3, <2>1, LockDoes
<1> HIDE DEF b
<1> QED BY <1>1, <1>4 DEF alone, t, r

\* Die makes a game.
LEMMA DieGames ==
  ASSUME NEW g \in Games, NEW c \in Clients, NEW weapon
  PROVE  Die(g, c, weapon) \in Games
<1>1. DieAlone(g, c, weapon) \in Games
  BY DieKills DEF Killed, Kills
<1>2. ASSUME NEW b, Locked(DieAlone(g, c, weapon), g.team[c], b)
      PROVE  DieFold(g.team[c], b) \in Games
  <2>1. b \in Games
    BY <1>2 DEF Locked
  <2> QED BY <2>1, DieFolds DEF FoldsTo
<1> QED BY <1>1, <1>2, DieSteps

\* The games on the way to the end of DieFold, of which b is the first: those of P
\* that have not had their turn wait for it.
Dying(t, P, b) ==
  {p \in ClientSets \X Games :
     /\ Inv(p[2], P \ p[1]) /\ Kills(b, p[2])
     /\ p[2].state[t] \in {"open", "empty"}
     /\ \A d \in P \ p[1] : p[2].team[d] = t /\ p[2].body[d] = "alive"}

\* A turn of the loop kills one more of the exempt tees.
LEMMA DyingKeeps ==
  ASSUME NEW t \in Teams, NEW P \in SUBSET Clients, NEW b, ~GetSaving(b, t)
  PROVE  Keeps(TurnDie(t), Dying(t, P, b))
<1> SUFFICES ASSUME NEW R \in ClientSets, NEW c \in Clients \ R, NEW h \in Games,
                    <<R, h>> \in Dying(t, P, b)
             PROVE  <<R \cup {c}, TurnDie(t)[<<h, c>>]>> \in Dying(t, P, b)
  BY DEF Keeps
<1> DEFINE n == TurnDie(t)[<<h, c>>]
<1>1. n = IF h.team[c] = t /\ h.body[c] = "alive" THEN DieAlone(h, c, "self") ELSE h
  BY DEF TurnDie
<1>2. /\ Inv(h, P \ R) /\ Kills(b, h) /\ h.state[t] \in {"open", "empty"}
      /\ \A d \in P \ R : h.team[d] = t /\ h.body[d] = "alive"
  BY DEF Dying
<1>3. R \cup {c} \in ClientSets /\ (P \ R) \ {c} = P \ (R \cup {c})
  BY DEF ClientSets
<1> HIDE DEF n
<1>4. CASE h.team[c] = t /\ h.body[c] = "alive"
  <2>1. n = DieAlone(h, c, "self")
    BY <1>1, <1>4
  <2>2. c \in Members(h, t)
    BY <1>4 DEF Members
  <2>3. h.state[t] = "open" /\ ~GetSaving(h, t)
    BY <1>2, <2>2 DEF Inv, Sound, EmptyOK, Kills, GetSaving
  <2>4. Inv(n, (P \ R) \ {c})
    <3>1. ~Reopens(h, c, "self")
      BY <1>4, <2>3 DEF Reopens
    <3> QED BY <1>2, <1>4, <2>1, <2>3, <3>1, InvDieAlone
  <2>5. Killed(h, c, n)
    BY <2>1, DieKills
  <2>6. /\ Kills(h, n) /\ n.state[t] \in {"open", "empty"} /\ n \in Games
        /\ \A d \in Clients : d # c => n.team[d] = h.team[d] /\ n.body[d] = h.body[d]
    BY <1>4, <2>3, <2>5 DEF Killed, Kills
  <2>7. Kills(b, n)
    BY <1>2, <2>6, KillsKills
  <2>8. \A d \in P \ (R \cup {c}) : n.team[d] = t /\ n.body[d] = "alive"
    BY <1>2, <2>6
  <2> QED BY <1>3, <2>4, <2>6, <2>7, <2>8 DEF Dying, n
<1>5. CASE ~(h.team[c] = t /\ h.body[c] = "alive")
  <2>1. n = h
    BY <1>1, <1>5
  <2>2. P \ (R \cup {c}) = P \ R
    BY <1>2, <1>5
  <2> QED BY <1>2, <1>3, <2>1, <2>2 DEF Dying, n
<1> QED BY <1>4, <1>5

\* At its end none is exempt.
LEMMA InvDie ==
  ASSUME NEW g \in Games, NEW c \in Clients, NEW weapon, Inv(g, {})
  PROVE  LET r == Die(g, c, weapon)
         IN  /\ Inv(r, {}) /\ Kills(g, r) /\ r.body[c] = "dead"
             /\ GetSaving(g, g.team[c]) => r = DieAlone(g, c, weapon)
<1> DEFINE t == g.team[c]
           alone == DieAlone(g, c, weapon)
           r == Die(g, c, weapon)
<1>0. Fields(g) /\ t \in AllTeams
  BY GamesFields DEF Fields
<1>1. Killed(g, c, alone) /\ alone \in Games
  BY DieKills DEF Killed, Kills
<1>2. \/ r = alone /\ ~Reopens(g, c, weapon)
      \/ /\ Reopens(g, c, weapon)
         /\ \E b : Locked(alone, t, b) /\ r = DieFold(t, b)
  BY DieSteps
<1>3. IF Reopens(g, c, weapon)
      THEN /\ Inv(alone, Playing(g, t) \ {c}) /\ alone.team = g.team
           /\ alone.state[t] = "open"
           /\ \A d \in Clients : d # c => alone.body[d] = g.body[d]
      ELSE Inv(alone, {} \ {c})
  BY InvDieAlone
<1> HIDE DEF alone, r
<1>4. CASE r = alone /\ ~Reopens(g, c, weapon)
  <2>1. {} \ {c} = {}
    OBVIOUS
  <2> QED BY <1>1, <1>3, <1>4, <2>1 DEF Killed, alone, r
<1>5. CASE Reopens(g, c, weapon)
  <2>1. PICK b : Locked(alone, t, b) /\ r = DieFold(t, b)
    BY <1>2, <1>5
  <2> DEFINE P == Playing(g, t) \ {c}
  <2>2. t \in Teams /\ ~GetSaving(g, t)
    BY <1>0, <1>5 DEF Reopens, Inv, Sound, FlockOK, AllTeams
  <2>3. /\ b \in Games /\ b.team = alone.team /\ b.body = alone.body /\ b.result = alone.result
        /\ b.state = alone.state
    BY <2>1 DEF Locked, SameTees
  <2>4. Inv(b, P)
    BY <1>1, <1>3, <1>5, <2>1, <2>2, InvLocked
  <2>5. Kills(alone, b) /\ Kills(g, alone) /\ alone.body[c] = "dead"
    BY <1>1, <2>3 DEF Kills, Killed
  <2>6. Kills(g, b) /\ ~GetSaving(b, t) /\ b.body[c] = "dead"
    BY <2>2, <2>3, <2>5, KillsKills DEF Kills, GetSaving
  <2>7. FoldsTo(TurnDie(t), b, r)
    BY <2>1, <2>3, DieFolds
  <2>8. P \in SUBSET Clients
    BY DEF Playing, Members
  <2>9. <<{}, b>> \in Dying(t, P, b)
    <3>1. \A d \in P : b.team[d] = t /\ b.body[d] = "alive"
      BY <1>3, <1>5, <2>3 DEF Playing, Members
    <3>2. P \ {} = P /\ {} \in ClientSets
      BY DEF ClientSets
    <3>3. Kills(b, b)
      BY <2>3 DEF Kills
    <3>4. b.state[t] \in {"open", "empty"}
      BY <1>3, <1>5, <2>3
    <3> HIDE DEF P
    <3> QED BY <2>3, <2>4, <3>1, <3>2, <3>3, <3>4 DEF Dying
  <2> HIDE DEF P
  <2>10. Keeps(TurnDie(t), Dying(t, P, b))
    BY <2>2, <2>6, <2>8, DyingKeeps
  <2>11. <<Clients, r>> \in Dying(t, P, b)
    BY <2>7, <2>9, <2>10, FoldKeeps
  <2>12. Inv(r, P \ Clients) /\ Kills(b, r) /\ P \ Clients = {}
    BY <2>8, <2>11 DEF Dying
  <2>13. Kills(g, r) /\ r.body[c] = "dead"
    BY <2>6, <2>12, KillsKills DEF Kills
  <2> QED BY <2>2, <2>12, <2>13 DEF r
<1>6. GetSaving(g, t) => ~Reopens(g, c, weapon)
  BY DEF Reopens
<1> QED BY <1>2, <1>4, <1>5, <1>6 DEF r, alone

----------------------------------------------------------------------------
(* A team is killed.                                                       *)

TurnKill(t) == [p \in Games \X Clients |->
                  IF p[1].team[p[2]] = t /\ p[1].body[p[2]] = "alive"
                  THEN Die(p[1], p[2], "self") ELSE p[1]]

\* KillTeam is a loop of deaths.
LEMMA KillFolds ==
  ASSUME NEW t, NEW g \in Games
  PROVE  FoldsTo(TurnKill(t), g, KillTeam(g, t))
<1> DEFINE Do(h, d) == IF h.team[d] = t /\ h.body[d] = "alive" THEN Die(h, d, "self") ELSE h
           K == TurnKill(t)
           Eq(it) == it = [R \in SUBSET Clients |->
                             IF R = {} THEN g ELSE Do(it[R \ {Max(R)}], Max(R))]
           iter == CHOOSE it : Eq(it)
<1>1. KillTeam(g, t) = iter[Clients]
  BY DEF KillTeam, ForEach, MapThenFoldSet
<1>2. /\ K \in [Games \X Clients -> Games]
      /\ \A h \in Games : \A d \in Clients : K[<<h, d>>] = Do(h, d)
  BY DieGames DEF TurnKill
<1> HIDE DEF K, Do
<1>3. \E it : Eq(it)
  <2>1. PICK it : Stepping(Games, K, g, it)
    BY <1>2, Steps
  <2>2. ASSUME NEW R \in ClientSets, R # {}
        PROVE  it[R] = Do(it[R \ {Max(R)}], Max(R))
    <3>1. Max(R) \in Clients /\ R \ {Max(R)} \in ClientSets
      BY <2>2, HasMax, ClientSetsFinite DEF ClientSets
    <3> QED BY <1>2, <2>1, <2>2, <3>1 DEF Stepping
  <2>3. it = [R \in ClientSets |-> IF R = {} THEN g ELSE Do(it[R \ {Max(R)}], Max(R))]
    BY <2>1, <2>2 DEF Stepping
  <2> QED BY <2>3 DEF ClientSets
<1>4. Eq(iter)
  BY <1>3
<1> HIDE DEF iter
<1>5. Turns(K, g, iter)
  <2>1. iter[{}] = g
    BY <1>4
  <2>2. ASSUME NEW R \in ClientSets, R # {}, iter[R \ {Max(R)}] \in Games
        PROVE  iter[R] = K[<<iter[R \ {Max(R)}], Max(R)>>]
    <3>1. Max(R) \in Clients
      BY <2>2, HasMax DEF ClientSets
    <3>2. iter[R] = Do(iter[R \ {Max(R)}], Max(R))
      BY <1>4, <2>2 DEF ClientSets
    <3> QED BY <1>2, <2>2, <3>1, <3>2
  <2> QED BY <2>1, <2>2 DEF Turns
<1>6. FoldsTo(K, g, iter[Clients])
  BY <1>2, <1>5, Folding
<1> QED BY <1>1, <1>6 DEF K

Killing(t, g) ==
  {p \in ClientSets \X Games :
     /\ Inv(p[2], {}) /\ Kills(g, p[2])
     /\ \A d \in p[1] : ~(p[2].team[d] = t /\ p[2].body[d] = "alive")}

\* All its members are dead, or have left it.
LEMMA InvKillTeam ==
  ASSUME NEW t \in Teams, NEW g \in Games, Inv(g, {})
  PROVE  LET r == KillTeam(g, t)
         IN  /\ Inv(r, {}) /\ Kills(g, r)
             /\ \A d \in Clients : ~(r.team[d] = t /\ r.body[d] = "alive")
<1> DEFINE r == KillTeam(g, t)
<1>1. FoldsTo(TurnKill(t), g, r)
  BY KillFolds
<1>2. <<{}, g>> \in Killing(t, g)
  BY DEF Killing, Kills, ClientSets
<1>3. ASSUME NEW R \in ClientSets, NEW c \in Clients \ R, NEW h \in Games,
             <<R, h>> \in Killing(t, g)
      PROVE  <<R \cup {c}, TurnKill(t)[<<h, c>>]>> \in Killing(t, g)
  <2> DEFINE n == TurnKill(t)[<<h, c>>]
  <2>1. n = IF h.team[c] = t /\ h.body[c] = "alive" THEN Die(h, c, "self") ELSE h
    BY DEF TurnKill
  <2>2. /\ Inv(h, {}) /\ Kills(g, h)
        /\ \A d \in R : ~(h.team[d] = t /\ h.body[d] = "alive")
    BY <1>3 DEF Killing
  <2>3. R \cup {c} \in ClientSets
    BY DEF ClientSets
  <2> HIDE DEF n
  <2>4. CASE h.team[c] = t /\ h.body[c] = "alive"
    <3>1. n = Die(h, c, "self")
      BY <2>1, <2>4
    <3>2. Inv(n, {}) /\ Kills(h, n) /\ n.body[c] = "dead"
      BY <2>2, <3>1, InvDie
    <3>3. Kills(g, n) /\ n \in Games
      BY <2>2, <3>2, KillsKills DEF Kills
    <3>4. t # Flock
      BY FlockIn
    <3>5. \A d \in R \cup {c} : ~(n.team[d] = t /\ n.body[d] = "alive")
      BY <2>2, <3>2, <3>4 DEF Kills, ClientSets
    <3> QED BY <2>3, <3>2, <3>3, <3>5 DEF Killing, n
  <2>5. CASE ~(h.team[c] = t /\ h.body[c] = "alive")
    <3>1. n = h
      BY <2>1, <2>5
    <3> QED BY <2>2, <2>3, <2>5, <3>1 DEF Killing, n
  <2> QED BY <2>4, <2>5
<1>4. Keeps(TurnKill(t), Killing(t, g))
  BY <1>3 DEF Keeps
<1> HIDE DEF r
<1>5. <<Clients, r>> \in Killing(t, g)
  BY <1>1, <1>2, <1>4, FoldKeeps
<1> QED BY <1>5 DEF Killing, r

----------------------------------------------------------------------------
(* What a call from outside does to one tee or to one team.                *)

\* Only the tee of c has changed, and not its team.
OneTee(g, c, h) ==
  /\ h \in Games /\ h.team = g.team /\ SameTeams(g, h) /\ h.unearned = g.unearned
  /\ \A d \in Clients : d # c =>
       /\ h.body[d] = g.body[d] /\ h.race[d] = g.race[d] /\ h.merit[d] = g.merit[d]
       /\ h.started[d] = g.started[d] /\ h.finished[d] = g.finished[d]

\* A change of one tee concerns that tee.
LEMMA InvOneTee ==
  ASSUME NEW g \in Games, NEW c \in Clients, NEW X, Inv(g, X), NEW h, OneTee(g, c, h)
  PROVE  /\ Inv(h, X \cup {c})
         /\ Resting(h, c) /\ (WhileSaving = {} => TeeEarns(h, c)) => Inv(h, X \ {c})
<1>1. /\ h.team = g.team /\ h.unearned = g.unearned
      /\ \A d \in Clients : d # c =>
           /\ h.body[d] = g.body[d] /\ h.race[d] = g.race[d] /\ h.merit[d] = g.merit[d]
           /\ h.started[d] = g.started[d] /\ h.finished[d] = g.finished[d]
  BY DEF OneTee
<1>2. /\ h.state = g.state /\ h.locked = g.locked /\ h.flock = g.flock
      /\ h.practice = g.practice /\ h.killTick = g.killTick /\ h.result = g.result
  BY DEF OneTee, SameTeams
<1>3. Sound(h)
  BY <1>1, <1>2 DEF Inv, Sound, FlockOK, EmptyOK, Members
<1>4. Rest(h, X \cup {c})
  BY <1>1, <1>2 DEF Inv, Rest, Resting
<1>5. "spectate" \notin WhileSaving => AllKept(h)
  BY <1>1, <1>2 DEF Inv, AllKept, Kept, Members
<1>6. ASSUME WhileSaving = {} PROVE Ranks(h, X \cup {c})
  <2>1. Ranks(g, X)
    BY <1>6 DEF Inv
  <2>2. \A d \in Clients \ (X \cup {c}) : TeeEarns(h, d)
    BY <1>1, <1>2, <2>1 DEF Ranks, TeeEarns
  <2>3. \A x \in Teams : TeamEarns(h, x)
    BY <1>1, <1>2, <2>1 DEF Ranks, TeamEarns, Members
  <2> QED BY <1>1, <2>1, <2>2, <2>3 DEF Ranks
<1>7. Inv(h, X \cup {c})
  BY <1>3, <1>4, <1>5, <1>6 DEF Inv
<1>8. ASSUME Resting(h, c), WhileSaving = {} => TeeEarns(h, c) PROVE Inv(h, X \ {c})
  BY <1>7, <1>8 DEF Inv, Rest, Ranks
<1> QED BY <1>7, <1>8

\* The state invariant of one game, and what a call makes of it.
Good(g) == g \in Games /\ Inv(g, {})

\* The game that Becomes marks.
Marked(g) == [g EXCEPT !.merit = [c \in Clients |->
                IF g.body[c] = "alive" /\ g.practice[g.team[c]] THEN "practised"
                ELSE g.merit[c]]]

\* Becomes keeps the invariant.
LEMMA GoodMarked == \A g : Good(g) => Good(Marked(g))
<1> SUFFICES ASSUME NEW g, Good(g) PROVE Good(Marked(g))
  OBVIOUS
<1> DEFINE h == Marked(g)
<1>1. g \in Games /\ Inv(g, {}) /\ Fields(g)
  BY GamesFields DEF Good
<1>2. h \in Games
  BY <1>1 DEF Marked, Games, Merits
<1>3. /\ h.team = g.team /\ h.body = g.body /\ h.race = g.race /\ h.started = g.started
      /\ h.finished = g.finished /\ h.unearned = g.unearned
  BY <1>1 DEF Marked, Games
<1>4. SameTeams(g, h)
  BY <1>1 DEF Marked, Games, SameTeams
<1>5. \A c \in Clients : h.merit[c] = IF g.body[c] = "alive" /\ g.practice[g.team[c]]
                                      THEN "practised" ELSE g.merit[c]
  BY <1>1 DEF Marked, Games
<1> HIDE DEF h
<1>6. /\ h.state = g.state /\ h.locked = g.locked /\ h.flock = g.flock
      /\ h.practice = g.practice /\ h.killTick = g.killTick /\ h.result = g.result
  BY <1>4 DEF SameTeams
<1>7. Sound(h)
  BY <1>1, <1>3, <1>6 DEF Inv, Sound, FlockOK, EmptyOK, Members
<1>8. Rest(h, {})
  BY <1>1, <1>3, <1>6 DEF Inv, Rest, Resting
<1>9. "spectate" \notin WhileSaving => AllKept(h)
  BY <1>1, <1>3, <1>6 DEF Inv, AllKept, Kept, Members
<1>10. ASSUME WhileSaving = {} PROVE Ranks(h, {})
  <2>1. Ranks(g, {})
    BY <1>1, <1>10 DEF Inv
  <2>2. \A c \in Clients : TeeEarns(h, c)
    BY <1>3, <1>5, <1>6, <2>1 DEF Ranks, TeeEarns
  <2>3. \A x \in Teams : TeamEarns(h, x)
    BY <1>3, <1>6, <2>1 DEF Ranks, TeamEarns, Members
  <2> QED BY <1>3, <2>1, <2>2, <2>3 DEF Ranks
<1> QED BY <1>2, <1>7, <1>8, <1>9, <1>10 DEF Inv, Good, h

\* A body and a race that a tee can have where it is.
LEMMA BodyDoes ==
  ASSUME NEW g \in Games, NEW c \in Clients, NEW v \in {"out", "dead", "alive"}
  PROVE  LET h == [g EXCEPT !.body[c] = v]
         IN  /\ OneTee(g, c, h) /\ h.race = g.race /\ h.merit = g.merit
             /\ h.started = g.started /\ h.finished = g.finished /\ h.body[c] = v
<1> DEFINE h == [g EXCEPT !.body[c] = v]
<1>1. h \in Games
  BY DEF Games
<1>2. /\ h.team = g.team /\ h.unearned = g.unearned /\ h.race = g.race /\ h.merit = g.merit
      /\ h.started = g.started /\ h.finished = g.finished
      /\ h.body = [g.body EXCEPT ![c] = v]
  BY DEF Games
<1>3. SameTeams(g, h)
  BY DEF Games, SameTeams
<1>4. h.body[c] = v /\ \A d \in Clients : d # c => h.body[d] = g.body[d]
  BY <1>2, GamesFields DEF Fields
<1> QED BY <1>1, <1>2, <1>3, <1>4 DEF OneTee

\* Whoever is not alive may be out or dead.
LEMMA GoodBody ==
  ASSUME NEW g, Good(g), NEW c \in Clients, NEW v \in {"out", "dead"}, g.body[c] # "alive"
  PROVE  Good([g EXCEPT !.body[c] = v])
<1> DEFINE h == [g EXCEPT !.body[c] = v]
<1>1. g \in Games /\ Inv(g, {})
  BY DEF Good
<1>2. /\ OneTee(g, c, h) /\ h.race = g.race /\ h.merit = g.merit
      /\ h.started = g.started /\ h.finished = g.finished /\ h.body[c] = v
  <2>1. v \in {"out", "dead", "alive"} /\ g \in Games
    BY <1>1
  <2> QED BY <2>1, BodyDoes, ZenonT(40)
<1> HIDE DEF h
<1>3. /\ h \in Games /\ h.team = g.team
      /\ h.state = g.state /\ h.locked = g.locked /\ h.flock = g.flock
      /\ h.practice = g.practice /\ h.killTick = g.killTick /\ h.result = g.result
  BY <1>2 DEF OneTee, SameTeams
<1>4. Resting(h, c)
  BY <1>2 DEF Resting
<1>5. ASSUME WhileSaving = {} PROVE TeeEarns(h, c)
  <2>1. TeeEarns(g, c)
    BY <1>1, <1>5 DEF Inv, Ranks
  <2> QED BY <1>2, <1>3, <2>1 DEF TeeEarns
<1>6. Inv(h, {} \ {c}) /\ {} \ {c} = {}
  BY <1>1, <1>2, <1>4, <1>5, InvOneTee
<1> QED BY <1>3, <1>6 DEF Good, h

----------------------------------------------------------------------------
(* Spawns, starts and finishes.                                            *)

SpawnPlaced(g, c) ==
  LET t == g.team[c]
      alive == [g EXCEPT !.body[c] = "alive"]
  IN  IF GetSaving(g, t) \/ g.locked[t] THEN alive
      ELSE LET out == SetForceCharacterTeam(alive, c, Flock)
           IN  IF out.flock[t] THEN out ELSE CheckTeamFinished(out, t)

\* The newcomer is exempt until it has its race.
LEMMA InvPlaced ==
  ASSUME NEW g, Good(g), NEW c \in Clients, g.body[c] = "dead"
  PROVE  LET t == g.team[c]
             placed == SpawnPlaced(g, c)
         IN  /\ placed \in Games /\ Inv(placed, {c})
             /\ \/ placed = [g EXCEPT !.body[c] = "alive"]
                \/ placed.team[c] = Flock /\ Inv(placed, {})
<1> DEFINE t == g.team[c]
           alive == [g EXCEPT !.body[c] = "alive"]
           out == SetForceCharacterTeam(alive, c, Flock)
           placed == SpawnPlaced(g, c)
<1>0. g \in Games /\ Inv(g, {}) /\ Fields(g) /\ t \in AllTeams
  BY GamesFields DEF Good, Fields
<1>1. /\ OneTee(g, c, alive) /\ alive.race = g.race /\ alive.merit = g.merit
      /\ alive.body[c] = "alive"
  BY <1>0, BodyDoes
<1>2. placed = IF GetSaving(g, t) \/ g.locked[t] THEN alive
               ELSE IF out.flock[t] THEN out ELSE CheckTeamFinished(out, t)
  BY DEF SpawnPlaced
<1> HIDE DEF alive, placed
<1>3. /\ alive \in Games /\ alive.team = g.team /\ alive.result = g.result
      /\ Inv(alive, {} \cup {c}) /\ {} \cup {c} = {c}
  BY <1>0, <1>1, InvOneTee DEF OneTee, SameTeams
<1>4. CASE GetSaving(g, t) \/ g.locked[t]
  BY <1>2, <1>3, <1>4 DEF alive, placed
<1>5. CASE ~(GetSaving(g, t) \/ g.locked[t])
  <2>1. Forced(alive, c, Flock, out)
    BY <1>3, ForceDoes, FlockIn
  <2>2. ~GetSaving(alive, Flock) /\ ~GetSaving(alive, alive.team[c])
    BY <1>3, <1>5 DEF GetSaving
  <2>3. ASSUME WhileSaving = {} PROVE alive.merit[c] = "none" /\ alive.race[c] = "none"
    <3>1. TeeEarns(g, c)
      BY <1>0, <2>3 DEF Inv, Ranks
    <3> QED BY <1>1, <3>1 DEF TeeEarns
  <2> HIDE DEF out
  <2>4. Inv(out, {c} \ {c}) /\ {c} \ {c} = {}
    BY <1>1, <1>3, <2>1, <2>2, <2>3, FlockIn, InvForce
  <2>5. out \in Games /\ ~GetSaving(out, t) /\ out.team[c] = Flock
    BY <1>3, <1>5, <2>1, GamesFields DEF Forced, GetSaving, Fields
  <2>6. Inv(CheckTeamFinished(out, t), {}) /\ Spares(out, CheckTeamFinished(out, t))
    BY <1>0, <2>4, <2>5, InvCheck, CheckSpares
  <2>7. placed \in {out, CheckTeamFinished(out, t)}
    BY <1>2, <1>5
  <2>8. placed \in Games /\ Inv(placed, {}) /\ placed.team[c] = Flock
    BY <2>4, <2>5, <2>6, <2>7 DEF Spares
  <2>9. Inv(placed, {c})
    BY <2>8 DEF Inv, Rest, Ranks
  <2> QED BY <2>8, <2>9 DEF placed
<1> QED BY <1>4, <1>5

\* A tee spawns with no race, or that of a mate in a locked team.
LEMMA GoodSpawn ==
  ASSUME NEW g, Good(g), NEW c \in Clients, g.body[c] = "dead",
         NEW placed \in Games, Inv(placed, {c}),
         \/ placed = [g EXCEPT !.body[c] = "alive"]
         \/ placed.team[c] = Flock /\ Inv(placed, {}),
         NEW v, LET u == placed.team[c]
                   IN  v = "none" \/ /\ placed.locked[u] /\ ~placed.flock[u]
                                        /\ \E m \in Playing(placed, u) \ {c} : v = placed.race[m]
  PROVE  Good([placed EXCEPT !.race[c] = v])
<1> DEFINE t == g.team[c]
           u == placed.team[c]
           alive == [g EXCEPT !.body[c] = "alive"]
           h == [placed EXCEPT !.race[c] = v]
<1>0. g \in Games /\ Inv(g, {}) /\ Fields(g)
  BY GamesFields DEF Good
<1>1. /\ placed \in Games /\ Fields(placed) /\ Inv(placed, {c})
      /\ placed = alive \/ (u = Flock /\ Inv(placed, {}))
  BY GamesFields
<1>2. v \in {"none", "started", "finished"}
  BY <1>1 DEF Playing, Members, Fields
<1>3. /\ OneTee(placed, c, h) /\ h.body = placed.body /\ h.merit = placed.merit
      /\ h.started = placed.started /\ h.finished = placed.finished /\ h.race[c] = v
  <2>1. h \in Games
    BY <1>1, <1>2 DEF Games
  <2>2. /\ h.team = placed.team /\ h.unearned = placed.unearned /\ h.body = placed.body
        /\ h.merit = placed.merit /\ h.started = placed.started
        /\ h.finished = placed.finished /\ h.race = [placed.race EXCEPT ![c] = v]
    BY <1>1 DEF Games
  <2>3. SameTeams(placed, h)
    BY <1>1 DEF Games, SameTeams
  <2>4. h.race[c] = v /\ \A d \in Clients : d # c => h.race[d] = placed.race[d]
    BY <1>1, <2>2 DEF Fields
  <2> QED BY <2>1, <2>2, <2>3, <2>4 DEF OneTee
<1>4. /\ OneTee(g, c, alive) /\ alive.race = g.race /\ alive.merit = g.merit
      /\ alive.body[c] = "alive" /\ alive.started = g.started /\ alive.finished = g.finished
  BY <1>0, BodyDoes, ZenonT(40)
<1> HIDE DEF h, alive
<1>5. /\ h \in Games /\ h.team = placed.team
      /\ h.state = placed.state /\ h.locked = placed.locked /\ h.flock = placed.flock
      /\ h.practice = placed.practice /\ h.killTick = placed.killTick
      /\ h.result = placed.result
  BY <1>3 DEF OneTee, SameTeams
<1>6. FlockOK(placed)
  BY <1>1 DEF Inv, Sound
<1>7. CASE v = "none"
  <2>1. Resting(h, c)
    BY <1>3, <1>7 DEF Resting
  <2>2. ASSUME WhileSaving = {} PROVE TeeEarns(h, c)
    <3>1. CASE placed = alive
      <4>1. /\ placed.team = g.team /\ placed.state = g.state /\ placed.flock = g.flock
            /\ placed.practice = g.practice /\ placed.result = g.result
        BY <1>4, <3>1 DEF OneTee, SameTeams
      <4>2. TeeEarns(g, c)
        BY <1>0, <2>2 DEF Inv, Ranks
      <4> QED BY <1>3, <1>4, <1>5, <1>7, <3>1, <4>1, <4>2 DEF TeeEarns, NoResult
    <3>2. CASE Inv(placed, {})
      <4>1. TeeEarns(placed, c)
        BY <2>2, <3>2 DEF Inv, Ranks
      <4> QED BY <1>3, <1>5, <1>7, <4>1 DEF TeeEarns
    <3> QED BY <1>1, <3>1, <3>2
  <2>3. Inv(h, {c} \ {c}) /\ {c} \ {c} = {}
    BY <1>1, <1>3, <2>1, <2>2, InvOneTee
  <2> QED BY <1>5, <2>3 DEF Good, h
<1>8. CASE v # "none"
  <2>1. /\ placed.locked[u] /\ ~placed.flock[u]
        /\ \E m \in Playing(placed, u) \ {c} : v = placed.race[m]
    BY <1>8
  <2>2. PICK m \in Playing(placed, u) \ {c} : v = placed.race[m]
    BY <2>1
  <2>3. u # Flock
    BY <1>6, <2>1 DEF FlockOK
  <2>4. placed = alive
    BY <1>1, <2>3
  <2>5. m \in Clients \ {c} /\ placed.team[m] = u /\ placed.body[m] = "alive"
    BY <2>2 DEF Playing, Members
  <2>6. Resting(h, c)
    <3>1. Resting(placed, m)
      BY <1>1, <2>5 DEF Inv, Rest
    <3> QED BY <1>3, <1>5, <2>2, <2>5, <3>1 DEF Resting
  <2>7. ASSUME WhileSaving = {} PROVE TeeEarns(h, c)
    <3>1. /\ placed.team = g.team /\ placed.state = g.state /\ placed.flock = g.flock
          /\ placed.practice = g.practice /\ placed.result = g.result
      BY <1>4, <2>4 DEF OneTee, SameTeams
    <3>2. TeeEarns(g, c)
      BY <1>0, <2>7 DEF Inv, Ranks
    <3>3. TeeEarns(placed, m)
      BY <1>1, <2>5, <2>7 DEF Inv, Ranks
    <3>4. v = "started" => placed.state[u] # "finished"
      BY <2>2, <2>5, <3>3 DEF TeeEarns
    <3> QED BY <1>3, <1>4, <1>5, <2>1, <2>3, <2>4, <3>1, <3>2, <3>4 DEF TeeEarns, NoResult
  <2>8. Inv(h, {c} \ {c}) /\ {c} \ {c} = {}
    BY <1>1, <1>3, <2>6, <2>7, InvOneTee
  <2> QED BY <1>5, <2>8 DEF Good, h
<1> QED BY <1>7, <1>8

\* The states before STARTED.
LEMMA BeforeStarted ==
  /\ \A s : Before(s, "started") <=> s \in {"empty", "open"}
  /\ \A s : Before("open", s) <=> s \in {"started", "unfinishable", "finished"}
<1>1. DOMAIN TeamStates = {1, 2, 3, 4, 5}
  <2>1. DOMAIN TeamStates = 1 .. 5
    BY DEF TeamStates
  <2> QED BY <2>1
<1>2. /\ TeamStates[1] = "empty" /\ TeamStates[2] = "open" /\ TeamStates[3] = "started"
      /\ TeamStates[4] = "unfinishable" /\ TeamStates[5] = "finished"
  BY DEF TeamStates
<1>3. \A s : Before(s, "started") <=> s \in {"empty", "open"}
  BY <1>1, <1>2 DEF Before
<1>4. \A s : Before("open", s) <=> s \in {"started", "unfinishable", "finished"}
  BY <1>1, <1>2 DEF Before
<1> QED BY <1>3, <1>4

\* What a start does: c has crossed the start with its team, whose members may race
\* from now on.
Raced(g, c, h) ==
  LET t == g.team[c]
  IN  /\ h \in Games /\ h.team = g.team /\ h.body = g.body /\ h.finished = g.finished
      /\ h.unearned = g.unearned /\ h.locked = g.locked /\ h.flock = g.flock
      /\ h.practice = g.practice /\ h.result = g.result
      /\ \A d \in Clients : d # c =>
           h.started[d] = g.started[d] /\ h.merit[d] = g.merit[d]
      /\ h.started[c] = TRUE
      /\ h.merit[c] = IF g.merit[c] = "none" THEN "crossed" ELSE g.merit[c]
      /\ \A x \in AllTeams : x # t => h.state[x] = g.state[x] /\ h.killTick[x] = g.killTick[x]
      /\ \A d \in Clients : h.race[d] # g.race[d] =>
           /\ h.race[d] = "started" /\ g.body[d] = "alive" /\ g.team[d] = t
           /\ d = c \/ (t # Flock /\ ~g.flock[t])
           /\ t # Flock /\ ~g.flock[t] => h.state[t] = "started"
      /\ t = Flock => h.state[t] = g.state[t]
      /\ t # Flock => h.state[t] \in StatesSet \ {"empty", "open"}
      /\ g.state[t] \notin {"empty", "open"} => h.state[t] = g.state[t]
      /\ g.state[t] \in {"empty", "open"} /\ t # Flock => h.state[t] = "started"

\* A team starts as a whole.
LEMMA GoodRaced ==
  ASSUME NEW g, Good(g), NEW c \in Clients, g.body[c] = "alive", ~GetSaving(g, g.team[c]),
         NEW h, Raced(g, c, h)
  PROVE  Good(h)
<1> DEFINE t == g.team[c]
<1>0. g \in Games /\ Inv(g, {}) /\ Fields(g) /\ t \in AllTeams
  BY GamesFields DEF Good, Fields
<1>1. /\ h \in Games /\ h.team = g.team /\ h.body = g.body /\ h.finished = g.finished
      /\ h.unearned = g.unearned /\ h.locked = g.locked /\ h.flock = g.flock
      /\ h.practice = g.practice /\ h.result = g.result
      /\ \A x \in AllTeams : x # t => h.state[x] = g.state[x] /\ h.killTick[x] = g.killTick[x]
      /\ t = Flock => h.state[t] = g.state[t]
      /\ t # Flock => h.state[t] \notin {"empty", "open"}
      /\ g.state[t] \notin {"empty", "open"} => h.state[t] = g.state[t]
      /\ g.state[t] \in {"empty", "open"} /\ t # Flock => h.state[t] = "started"
  BY DEF Raced
<1>2. /\ \A d \in Clients : d # c => h.started[d] = g.started[d] /\ h.merit[d] = g.merit[d]
      /\ h.started[c] = TRUE
      /\ h.merit[c] = IF g.merit[c] = "none" THEN "crossed" ELSE g.merit[c]
      /\ \A d \in Clients : h.race[d] # g.race[d] =>
           /\ h.race[d] = "started" /\ g.body[d] = "alive" /\ g.team[d] = t
           /\ d = c \/ (t # Flock /\ ~g.flock[t])
           /\ t # Flock /\ ~g.flock[t] => h.state[t] = "started"
  BY DEF Raced
<1>3. \A d \in Clients : g.team[d] \in AllTeams
  BY <1>0 DEF Fields
<1>4. t # Flock => t \in Teams /\ g.result[t] = NoResult
  BY <1>0 DEF AllTeams, GetSaving
<1>5. Members(g, t) # {}
  BY DEF Members
<1>6. FlockOK(g) /\ FlockOK(h)
  BY <1>0, <1>1, FlockIn DEF Inv, Sound, FlockOK
<1>7. Sound(h)
  <2>1. ASSUME NEW x \in Teams PROVE EmptyOK(h, x)
    <3>1. EmptyOK(g, x) /\ x \in AllTeams /\ x # Flock
      BY <1>0, FlockIn DEF Inv, Sound
    <3>2. CASE x = t
      BY <1>1, <1>5, <3>1, <3>2 DEF EmptyOK, Members
    <3>3. CASE x # t
      BY <1>1, <3>1, <3>3 DEF EmptyOK, Members
    <3> QED BY <3>2, <3>3
  <2> QED BY <1>6, <2>1 DEF Sound
<1>8. Rest(h, {})
  <2> SUFFICES ASSUME NEW d \in Clients PROVE Resting(h, d)
    BY DEF Rest
  <2>1. Resting(g, d)
    BY <1>0 DEF Inv, Rest
  <2>2. CASE g.team[d] = t
    BY <1>1, <1>4, <2>2 DEF Resting
  <2>3. CASE g.team[d] # t
    BY <1>1, <1>2, <1>3, <2>1, <2>3 DEF Resting
  <2> QED BY <2>2, <2>3
<1>9. "spectate" \notin WhileSaving => AllKept(h)
  BY <1>0, <1>1 DEF Inv, AllKept, Kept, Members
<1>10. ASSUME WhileSaving = {} PROVE Ranks(h, {})
  <2>1. Ranks(g, {})
    BY <1>0, <1>10 DEF Inv
  <2>2. t # Flock /\ g.flock[t] => h.state[t] = "started" /\ ~g.practice[t]
    BY <1>1, <1>4, <2>1 DEF Ranks, TeamEarns
  <2>3. ~g.practice[t] => g.merit[c] # "practised"
    BY <2>1 DEF Ranks, TeeEarns
  <2>4. t = Flock => ~g.practice[t] /\ ~g.flock[t] /\ g.state[t] \in {"empty", "open"}
    BY <1>6 DEF FlockOK
  <2>5. ASSUME NEW d \in Clients PROVE TeeEarns(h, d)
    <3>1. TeeEarns(g, d)
      BY <2>1 DEF Ranks
    <3>2. CASE d = c
      <4>1. h.race[c] = "started" => h.state[t] # "finished"
        <5>1. CASE h.race[c] = g.race[c]
          BY <1>1, <2>4, <3>1, <3>2, <5>1 DEF TeeEarns
        <5>2. CASE h.race[c] # g.race[c]
          BY <1>1, <1>2, <2>2, <2>4, <5>2
        <5> QED BY <5>1, <5>2
      <4>2. h.merit[c] # "none" /\ (h.merit[c] = "practised" => g.practice[t])
        BY <1>2, <2>3
      <4>3. g.flock[t] => ~g.finished[c]
        BY <3>1, <3>2 DEF TeeEarns
      <4>4. h.team[c] = t /\ h.body[c] = "alive"
        BY <1>1
      <4> HIDE DEF t
      <4> QED BY <1>1, <3>2, <4>1, <4>2, <4>3, <4>4 DEF TeeEarns
    <3>3. CASE d # c /\ g.team[d] = t
      <4>1. /\ h.started[d] = g.started[d] /\ h.finished[d] = g.finished[d]
            /\ h.merit[d] = g.merit[d] /\ h.body[d] = g.body[d] /\ h.team[d] = t
        BY <1>1, <1>2, <3>3
      <4>2. h.race[d] # g.race[d] => /\ g.body[d] = "alive" /\ t # Flock /\ ~g.flock[t]
                                     /\ h.state[t] = "started"
        BY <1>2, <3>3
      <4>3. h.state[t] = "finished" => g.state[t] = "finished"
        BY <1>1, <2>4
      <4>4. t # Flock => h.state[t] # "open"
        BY <1>1
      <4> HIDE DEF t
      <4> QED BY <1>1, <3>1, <3>3, <4>1, <4>2, <4>3, <4>4 DEF TeeEarns
    <3>4. CASE d # c /\ g.team[d] # t
      <4>1. /\ h.started[d] = g.started[d] /\ h.finished[d] = g.finished[d]
            /\ h.merit[d] = g.merit[d] /\ h.race[d] = g.race[d]
            /\ h.state[g.team[d]] = g.state[g.team[d]]
        BY <1>1, <1>2, <1>3, <3>4
      <4> QED BY <1>1, <3>1, <4>1 DEF TeeEarns
    <3> QED BY <3>2, <3>3, <3>4
  <2>6. ASSUME NEW x \in Teams PROVE TeamEarns(h, x)
    <3>1. TeamEarns(g, x) /\ x \in AllTeams
      BY <2>1, FlockIn DEF Ranks
    <3>2. CASE x = t
      BY <1>1, <1>4, <2>2, <3>1, <3>2, FlockIn DEF TeamEarns, NoResult
    <3>3. CASE x # t
      BY <1>1, <3>1, <3>3 DEF TeamEarns, Members
    <3> QED BY <3>2, <3>3
  <2> QED BY <1>1, <2>1, <2>5, <2>6 DEF Ranks
<1> QED BY <1>1, <1>7, <1>8, <1>9, <1>10 DEF Inv, Good

\* The start, in each of its cases.
LEMMA GoodStart ==
  ASSUME NEW g, Good(g), NEW c \in Clients, g.body[c] = "alive", ~GetSaving(g, g.team[c])
  PROVE  Good(OnCharacterStart(g, c))
<1> DEFINE t == g.team[c]
           waiting == \E m \in Playing(g, t) : g.race[m] = "finished"
           crossed == [g EXCEPT !.started[c] = TRUE,
                                !.merit[c] = IF @ = "none" THEN "crossed" ELSE @]
           early == Before(g.state[t], "started")
           own == [crossed EXCEPT !.race[c] = "started",
                     !.state[t] = IF g.flock[t] /\ early THEN "started" ELSE @]
           wait == [g EXCEPT !.race[c] = "none"]
           first == [crossed EXCEPT !.state[t] = "started", !.killTick[t] = FALSE,
                       !.race = [m \in Clients |-> IF m \in Playing(g, t) THEN "started" ELSE @[m]]]
           r == OnCharacterStart(g, c)
<1>0. g \in Games /\ Inv(g, {}) /\ Fields(g) /\ t \in AllTeams
  BY GamesFields DEF Good, Fields
<1>1. r = IF t = Flock \/ g.flock[t] THEN own
          ELSE IF g.race[c] = "finished" THEN g
          ELSE IF waiting THEN wait
          ELSE IF early THEN first ELSE crossed
  BY DEF OnCharacterStart
<1>2. early <=> g.state[t] \in {"empty", "open"}
  BY BeforeStarted
<1>3. /\ crossed \in Games /\ crossed.team = g.team /\ crossed.body = g.body
      /\ crossed.race = g.race /\ crossed.finished = g.finished
      /\ crossed.unearned = g.unearned
  BY <1>0 DEF Games, Merits
<1>4. SameTeams(g, crossed)
  BY <1>0 DEF Games, SameTeams
<1>5. /\ crossed.started[c] = TRUE
      /\ crossed.merit[c] = IF g.merit[c] = "none" THEN "crossed" ELSE g.merit[c]
      /\ \A d \in Clients : d # c =>
           crossed.started[d] = g.started[d] /\ crossed.merit[d] = g.merit[d]
  BY <1>0 DEF Games
<1> HIDE DEF crossed, early, waiting, r
<1>6. CASE r = own /\ (t = Flock \/ g.flock[t])
  <2> DEFINE v == IF g.flock[t] /\ early THEN "started" ELSE crossed.state[t]
  <2>1. own = [crossed EXCEPT !.race[c] = "started", !.state[t] = v]
    OBVIOUS
  <2>2. v \in StatesSet
    BY <1>0, <1>3, GamesFields, TheStates DEF Fields
  <2> HIDE DEF v, own, t
  <2>3. own \in Games
    BY <1>0, <1>3, <2>1, <2>2 DEF Games, StatesSet
  <2>4. /\ own.team = crossed.team /\ own.body = crossed.body
        /\ own.finished = crossed.finished /\ own.unearned = crossed.unearned
        /\ own.started = crossed.started /\ own.merit = crossed.merit
    BY <1>0, <1>3, <2>1 DEF Games
  <2>5. /\ own.locked = crossed.locked /\ own.flock = crossed.flock
        /\ own.practice = crossed.practice /\ own.result = crossed.result
        /\ own.killTick = crossed.killTick
    BY <1>0, <1>3, <2>1 DEF Games
  <2>6. /\ own.race[c] = "started" /\ \A d \in Clients : d # c => own.race[d] = crossed.race[d]
        /\ own.state[t] = v /\ \A x \in AllTeams : x # t => own.state[x] = crossed.state[x]
    BY <1>0, <1>3, <2>1 DEF Games
  <2>7. t = Flock => ~g.flock[t]
    BY <1>0 DEF Inv, Sound, FlockOK
  <2>8. own.state[t] = IF g.flock[t] /\ early THEN "started" ELSE g.state[t]
    BY <1>4, <2>6 DEF v, SameTeams
  <2>9. /\ t = Flock => own.state[t] = g.state[t]
        /\ t # Flock => own.state[t] \in StatesSet \ {"empty", "open"}
        /\ g.state[t] \notin {"empty", "open"} => own.state[t] = g.state[t]
        /\ g.state[t] \in {"empty", "open"} /\ t # Flock => own.state[t] = "started"
    BY <1>0, <1>2, <1>6, <2>7, <2>8, TheStates DEF Fields, t
  <2>10. \A x \in AllTeams : x # t =>
           own.state[x] = g.state[x] /\ own.killTick[x] = g.killTick[x]
    BY <1>4, <2>5, <2>6 DEF SameTeams
  <2>11. \A d \in Clients : own.race[d] # g.race[d] =>
           /\ own.race[d] = "started" /\ g.body[d] = "alive" /\ g.team[d] = t
           /\ d = c \/ (t # Flock /\ ~g.flock[t])
           /\ t # Flock /\ ~g.flock[t] => own.state[t] = "started"
    BY <1>3, <1>6, <2>6 DEF t
  <2>12. Raced(g, c, own)
    BY <1>3, <1>4, <1>5, <2>3, <2>4, <2>5, <2>9, <2>10, <2>11 DEF Raced, SameTeams, t
  <2>13. Good(own)
    BY <2>12, GoodRaced
  <2> QED BY <1>6, <2>13 DEF r
<1>7. CASE r = g
  BY <1>7 DEF r
<1>8. CASE r = wait
  <2>1. wait \in Games
    BY <1>0 DEF Games
  <2>2. /\ wait.team = g.team /\ wait.unearned = g.unearned /\ wait.body = g.body
        /\ wait.merit = g.merit /\ wait.started = g.started /\ wait.finished = g.finished
        /\ wait.race = [g.race EXCEPT ![c] = "none"]
    BY <1>0 DEF Games
  <2>3. SameTeams(g, wait)
    BY <1>0 DEF Games, SameTeams
  <2> HIDE DEF wait
  <2>4. wait.race[c] = "none" /\ \A d \in Clients : d # c => wait.race[d] = g.race[d]
    BY <1>0, <2>2 DEF Fields
  <2>5. OneTee(g, c, wait)
    BY <2>1, <2>2, <2>3, <2>4 DEF OneTee
  <2>6. Resting(wait, c)
    BY <2>4 DEF Resting
  <2>7. ASSUME WhileSaving = {} PROVE TeeEarns(wait, c)
    <3>1. TeeEarns(g, c)
      BY <1>0, <2>7 DEF Inv, Ranks
    <3> QED BY <2>2, <2>3, <2>4, <3>1 DEF TeeEarns, SameTeams
  <2>8. Inv(wait, {} \ {c}) /\ {} \ {c} = {}
    BY <1>0, <2>5, <2>6, <2>7, InvOneTee
  <2> QED BY <1>8, <2>1, <2>8 DEF Good, r
<1>9. CASE r = first /\ ~(t = Flock \/ g.flock[t]) /\ early
  <2>1. first = [crossed EXCEPT !.state[t] = "started", !.killTick[t] = FALSE,
                   !.race = [m \in Clients |-> IF m \in Playing(g, t) THEN "started"
                                               ELSE crossed.race[m]]]
    OBVIOUS
  <2> HIDE DEF first, t
  <2>2. first \in Games
    BY <1>0, <1>3, <2>1, TheStates DEF Games, StatesSet
  <2>3. /\ first.team = crossed.team /\ first.body = crossed.body
        /\ first.finished = crossed.finished /\ first.unearned = crossed.unearned
        /\ first.started = crossed.started /\ first.merit = crossed.merit
    BY <1>0, <1>3, <2>1 DEF Games
  <2>4. /\ first.locked = crossed.locked /\ first.flock = crossed.flock
        /\ first.practice = crossed.practice /\ first.result = crossed.result
    BY <1>0, <1>3, <2>1 DEF Games
  <2>5. /\ first.state = [crossed.state EXCEPT ![t] = "started"]
        /\ first.killTick = [crossed.killTick EXCEPT ![t] = FALSE]
    BY <1>0, <1>3, <2>1 DEF Games
  <2>6. \A d \in Clients : first.race[d] = IF d \in Playing(g, t) THEN "started"
                                            ELSE crossed.race[d]
    BY <1>3, <2>1 DEF Games
  <2>7. /\ first.state[t] = "started"
        /\ \A x \in AllTeams : x # t => /\ first.state[x] = crossed.state[x]
                                        /\ first.killTick[x] = crossed.killTick[x]
    BY <1>0, <1>3, <2>5, GamesFields DEF Fields
  <2>8. \A x \in AllTeams : x # t =>
           first.state[x] = g.state[x] /\ first.killTick[x] = g.killTick[x]
    BY <1>4, <2>7 DEF SameTeams
  <2>9. /\ t # Flock => first.state[t] \in StatesSet \ {"empty", "open"}
        /\ t = Flock => first.state[t] = g.state[t]
        /\ g.state[t] \notin {"empty", "open"} => first.state[t] = g.state[t]
        /\ g.state[t] \in {"empty", "open"} /\ t # Flock => first.state[t] = "started"
    BY <1>2, <1>9, <2>7, TheStates DEF t
  <2>10. \A d \in Clients : first.race[d] # g.race[d] =>
           /\ first.race[d] = "started" /\ g.body[d] = "alive" /\ g.team[d] = t
           /\ d = c \/ (t # Flock /\ ~g.flock[t])
           /\ t # Flock /\ ~g.flock[t] => first.state[t] = "started"
    BY <1>3, <1>9, <2>6, <2>7 DEF Playing, Members
  <2>11. Raced(g, c, first)
    BY <1>3, <1>4, <1>5, <2>2, <2>3, <2>4, <2>8, <2>9, <2>10 DEF Raced, SameTeams, t
  <2>12. Good(first)
    BY <2>11, GoodRaced
  <2> QED BY <1>9, <2>12 DEF r
<1>10. CASE r = crossed /\ ~(t = Flock \/ g.flock[t]) /\ ~early
  <2>1. /\ t # Flock => crossed.state[t] \in StatesSet \ {"empty", "open"}
        /\ crossed.state = g.state
    BY <1>0, <1>2, <1>4, <1>10 DEF SameTeams, Fields
  <2>2. Raced(g, c, crossed)
    BY <1>2, <1>3, <1>4, <1>5, <1>10, <2>1 DEF Raced, SameTeams
  <2>3. Good(crossed)
    BY <2>2, GoodRaced
  <2> QED BY <1>10, <2>3 DEF r
<1> QED BY <1>1, <1>6, <1>7, <1>8, <1>9, <1>10

\* The finish, alone or with the team.
LEMMA GoodFinish ==
  ASSUME NEW g, Good(g), NEW c \in Clients, g.body[c] = "alive", g.race[c] = "started"
  PROVE  LET t == g.team[c]
         IN  Good(IF t = Flock \/ g.flock[t] THEN OnFinish(g, {c})
                  ELSE CheckTeamFinished([g EXCEPT !.finished[c] = @ \/ g.started[c]], t))
<1> DEFINE t == g.team[c]
           h == [g EXCEPT !.finished[c] = @ \/ g.started[c]]
<1>0. g \in Games /\ Inv(g, {}) /\ Fields(g) /\ t \in AllTeams
  BY GamesFields DEF Good, Fields
<1>1. CASE t = Flock \/ g.flock[t]
  <2>1. Ranked(g, {c}, OnFinish(g, {c}))
    BY <1>0, FinishDoes
  <2>2. ASSUME WhileSaving = {} PROVE g.merit[c] = "crossed"
    <3>1. Ranks(g, {}) /\ TeeEarns(g, c)
      BY <1>0, <2>2 DEF Inv, Ranks
    <3>2. ~g.practice[t]
      <4>1. CASE t = Flock
        BY <1>0, <4>1 DEF Inv, Sound, FlockOK
      <4>2. CASE t # Flock
        <5>1. TeamEarns(g, t)
          BY <1>0, <3>1, <4>2 DEF Ranks, AllTeams
        <5> QED BY <1>1, <4>2, <5>1 DEF TeamEarns
      <4> QED BY <4>1, <4>2
    <3>3. g.merit[c] \in Merits
      BY <1>0 DEF Fields
    <3> QED BY <1>1, <3>1, <3>2, <3>3 DEF TeeEarns, Merits
  <2>3. Inv(OnFinish(g, {c}), {})
    BY <1>0, <2>1, <2>2, InvRanked
  <2> QED BY <1>1, <2>1, <2>3 DEF Good, Ranked
<1>2. CASE ~(t = Flock \/ g.flock[t])
  <2>0. h = [g EXCEPT !.finished[c] = g.finished[c] \/ g.started[c]]
    OBVIOUS
  <2> DEFINE v == g.finished[c] \/ g.started[c]
  <2>1. v \in BOOLEAN /\ h = [g EXCEPT !.finished[c] = v]
    BY <2>0
  <2> HIDE DEF v, h
  <2>2. h \in Games
    BY <1>0, <2>1 DEF Games
  <2>3. /\ h.team = g.team /\ h.unearned = g.unearned /\ h.body = g.body
        /\ h.merit = g.merit /\ h.started = g.started /\ h.race = g.race
        /\ h.finished = [g.finished EXCEPT ![c] = v]
    BY <1>0, <2>1 DEF Games
  <2>4. SameTeams(g, h)
    BY <1>0, <2>1 DEF Games, SameTeams
  <2>5. h.finished[c] = v /\ \A d \in Clients : d # c => h.finished[d] = g.finished[d]
    BY <1>0, <2>3 DEF Fields
  <2>6. OneTee(g, c, h)
    BY <2>2, <2>3, <2>4, <2>5 DEF OneTee
  <2>7. Resting(g, c)
    BY <1>0 DEF Inv, Rest
  <2>8. Resting(h, c)
    BY <2>3, <2>4, <2>7 DEF Resting, SameTeams
  <2>9. ASSUME WhileSaving = {} PROVE TeeEarns(h, c)
    <3>1. TeeEarns(g, c)
      BY <1>0, <2>9 DEF Inv, Ranks
    <3>2. h.finished[c] => g.finished[c] \/ g.started[c]
      BY <2>5 DEF v
    <3>3. /\ h.state = g.state /\ h.flock = g.flock /\ h.practice = g.practice
          /\ h.result = g.result
      BY <2>4 DEF SameTeams
    <3> QED BY <1>2, <2>3, <3>1, <3>2, <3>3 DEF TeeEarns
  <2>10. Inv(h, {} \ {c}) /\ {} \ {c} = {}
    BY <1>0, <2>6, <2>8, <2>9, InvOneTee
  <2>11. ~GetSaving(h, t)
    BY <2>4, <2>7 DEF Resting, GetSaving, SameTeams
  <2>12. Inv(CheckTeamFinished(h, t), {}) /\ Spares(h, CheckTeamFinished(h, t))
    BY <1>0, <2>2, <2>10, <2>11, InvCheck, CheckSpares
  <2>13. Good(CheckTeamFinished(h, t))
    BY <2>12 DEF Good, Spares
  <2> QED BY <1>2, <2>13 DEF h
<1> QED BY <1>1, <1>2

----------------------------------------------------------------------------
(* Commands.                                                               *)

\* Who may join a team finds it open.
LEMMA GoodJoin ==
  ASSUME NEW g, Good(g), NEW c \in Clients, NEW t \in AllTeams, CanJoinTeam(g, c, t)
  PROVE  Good(SetForceCharacterTeam(g, c, t))
<1> DEFINE u == g.team[c]
           h == SetForceCharacterTeam(g, c, t)
<1>0. g \in Games /\ Inv(g, {}) /\ Fields(g)
  BY GamesFields DEF Good
<1>1. /\ g.body[c] = "alive"
      /\ g.race[c] # "none" => g.state[u] = "finished" /\ t = Flock
      /\ ~g.practice[u] /\ ~GetSaving(g, t) /\ ~GetSaving(g, u)
  BY DEF CanJoinTeam
<1>2. Forced(g, c, t, h)
  BY <1>0, ForceDoes
<1>3. t = Flock \/ g.race[c] # "started"
  BY <1>1
<1>4. ASSUME WhileSaving = {} PROVE g.merit[c] # "practised" /\ g.race[c] # "started"
  <2>1. TeeEarns(g, c)
    BY <1>0, <1>4 DEF Inv, Ranks
  <2> QED BY <1>1, <2>1 DEF TeeEarns
<1> HIDE DEF h
<1>5. Inv(h, {} \ {c}) /\ {} \ {c} = {}
  BY <1>0, <1>1, <1>2, <1>3, <1>4, InvForce
<1> QED BY <1>2, <1>5 DEF Good, Forced, h

\* A team with members is not empty.
LEMMA NotEmpty ==
  ASSUME NEW g, Good(g), NEW t \in Teams, Members(g, t) # {}
  PROVE  g.state[t] # "empty"
BY DEF Good, Inv, Sound, EmptyOK

\* /lock and /unlock.
LEMMA GoodLock ==
  ASSUME NEW g, Good(g), NEW t \in Teams, NEW v \in BOOLEAN, Members(g, t) # {}
  PROVE  Good([g EXCEPT !.locked[t] = v])
<1> DEFINE h == [g EXCEPT !.locked[t] = v]
<1>1. g \in Games /\ Inv(g, {}) /\ t \in AllTeams /\ g.state[t] # "empty"
  BY NotEmpty, FlockIn DEF Good
<1>2. Locked(g, t, h)
  BY <1>1, LockDoes
<1> HIDE DEF h
<1>3. Inv(h, {})
  BY <1>1, <1>2, InvLocked
<1> QED BY <1>2, <1>3 DEF Good, Locked, h

\* /team0mode, of a team that is open and does not practise.
LEMMA GoodTeam0Mode ==
  ASSUME NEW g, Good(g), NEW t \in Teams, g.state[t] = "open",
         WhileSaving = {} => ~GetSaving(g, t), g.flock[t] \/ ~g.practice[t]
  PROVE  Good([g EXCEPT !.flock[t] = ~@])
<1> DEFINE v == ~g.flock[t]
           h == [g EXCEPT !.flock[t] = v]
<1>0. g \in Games /\ Inv(g, {}) /\ Fields(g) /\ t \in AllTeams /\ t # Flock
  BY GamesFields, FlockIn DEF Good
<1> HIDE DEF v
<1>1. h \in Games
  BY <1>0 DEF Games, v
<1>2. /\ h.team = g.team /\ h.unearned = g.unearned /\ h.state = g.state
      /\ h.locked = g.locked /\ h.practice = g.practice
      /\ h.killTick = g.killTick /\ h.result = g.result
      /\ h.flock = [g.flock EXCEPT ![t] = v]
  BY <1>0 DEF Games
<1>3. SameTees(g, h)
  BY <1>0 DEF Games, SameTees
<1> HIDE DEF h
<1>4. /\ h.body = g.body /\ h.race = g.race /\ h.merit = g.merit
      /\ h.started = g.started /\ h.finished = g.finished
  BY <1>3 DEF SameTees
<1>5. h.flock[t] = v /\ \A x \in AllTeams : x # t => h.flock[x] = g.flock[x]
  BY <1>0, <1>2 DEF Fields
<1>6. Sound(h)
  BY <1>0, <1>2, <1>4, <1>5, FlockIn DEF Inv, Sound, FlockOK, EmptyOK, Members
<1>7. Rest(h, {})
  BY <1>0, <1>2, <1>4 DEF Inv, Rest, Resting
<1>8. "spectate" \notin WhileSaving => AllKept(h)
  BY <1>0, <1>2 DEF Inv, AllKept, Kept, Members
<1>9. ASSUME WhileSaving = {} PROVE Ranks(h, {})
  <2>1. Ranks(g, {}) /\ g.result[t] = NoResult
    BY <1>0, <1>9 DEF Inv, GetSaving
  <2>2. ASSUME NEW c \in Clients PROVE TeeEarns(h, c)
    <3>1. TeeEarns(g, c) /\ Resting(g, c) /\ g.team[c] \in AllTeams
      BY <1>0, <2>1 DEF Ranks, Inv, Rest, Fields
    <3>2. CASE g.team[c] = t
      <4>1. g.body[c] = "alive" => g.race[c] # "started"
        BY <1>0, <3>1, <3>2 DEF Resting
      <4>2. ~g.started[c] /\ ~g.finished[c]
        BY <1>0, <3>1, <3>2 DEF TeeEarns
      <4> QED BY <1>2, <1>4, <3>1, <3>2, <4>1, <4>2 DEF TeeEarns
    <3>3. CASE g.team[c] # t
      BY <1>2, <1>4, <1>5, <3>1, <3>3 DEF TeeEarns
    <3> QED BY <3>2, <3>3
  <2>3. ASSUME NEW x \in Teams PROVE TeamEarns(h, x)
    <3>1. TeamEarns(g, x) /\ x \in AllTeams
      BY <2>1, FlockIn DEF Ranks
    <3>2. CASE x = t
      <4>1. h.flock[t] => ~g.practice[t]
        BY <1>5 DEF v
      <4> QED BY <1>2, <2>1, <3>1, <3>2, <4>1 DEF TeamEarns, NoResult
    <3>3. CASE x # t
      BY <1>2, <1>5, <3>1, <3>3 DEF TeamEarns, Members
    <3> QED BY <3>2, <3>3
  <2> QED BY <1>2, <1>4, <2>1, <2>2, <2>3 DEF Ranks
<1> QED BY <1>1, <1>6, <1>7, <1>8, <1>9 DEF Inv, Good, h, v

\* Practice ends only without tees that have practised.
LEMMA GoodPractice ==
  ASSUME NEW g, Good(g), NEW t \in Teams, NEW v \in BOOLEAN,
         v => Members(g, t) # {} /\ ~g.flock[t] /\ ~GetSaving(g, t),
         ~v => \A d \in Clients : ~(g.team[d] = t /\ g.body[d] = "alive")
  PROVE  Good([g EXCEPT !.practice[t] = v])
<1> DEFINE h == [g EXCEPT !.practice[t] = v]
<1>0. g \in Games /\ Inv(g, {}) /\ Fields(g) /\ t \in AllTeams /\ t # Flock
  BY GamesFields, FlockIn DEF Good
<1>1. h \in Games
  BY <1>0 DEF Games
<1>2. /\ h.team = g.team /\ h.unearned = g.unearned /\ h.state = g.state
      /\ h.locked = g.locked /\ h.flock = g.flock
      /\ h.killTick = g.killTick /\ h.result = g.result
      /\ h.practice = [g.practice EXCEPT ![t] = v]
  BY <1>0 DEF Games
<1>3. SameTees(g, h)
  BY <1>0 DEF Games, SameTees
<1> HIDE DEF h
<1>4. /\ h.body = g.body /\ h.race = g.race /\ h.merit = g.merit
      /\ h.started = g.started /\ h.finished = g.finished
  BY <1>3 DEF SameTees
<1>5. h.practice[t] = v /\ \A x \in AllTeams : x # t => h.practice[x] = g.practice[x]
  BY <1>0, <1>2 DEF Fields
<1>6. Sound(h)
  <2>1. v => g.state[t] # "empty"
    BY NotEmpty
  <2>2. ASSUME NEW x \in Teams PROVE EmptyOK(h, x)
    <3>1. EmptyOK(g, x) /\ x \in AllTeams
      BY <1>0, FlockIn DEF Inv, Sound
    <3> QED BY <1>2, <1>5, <2>1, <3>1 DEF EmptyOK, Members
  <2>3. FlockOK(h)
    BY <1>0, <1>2, <1>5, FlockIn DEF Inv, Sound, FlockOK
  <2> QED BY <2>2, <2>3 DEF Sound
<1>7. Rest(h, {})
  BY <1>0, <1>2, <1>4 DEF Inv, Rest, Resting
<1>8. "spectate" \notin WhileSaving => AllKept(h)
  BY <1>0, <1>2 DEF Inv, AllKept, Kept, Members
<1>9. ASSUME WhileSaving = {} PROVE Ranks(h, {})
  <2>1. Ranks(g, {})
    BY <1>0, <1>9 DEF Inv
  <2>2. ASSUME NEW c \in Clients PROVE TeeEarns(h, c)
    <3>1. TeeEarns(g, c) /\ g.team[c] \in AllTeams
      BY <1>0, <2>1 DEF Ranks, Fields
    <3>2. g.body[c] = "alive" /\ g.practice[g.team[c]] => h.practice[g.team[c]]
      BY <1>5, <3>1
    <3> QED BY <1>2, <1>4, <3>1, <3>2 DEF TeeEarns
  <2>3. ASSUME NEW x \in Teams PROVE TeamEarns(h, x)
    <3>1. TeamEarns(g, x) /\ x \in AllTeams
      BY <2>1, FlockIn DEF Ranks
    <3>2. v => ~g.flock[t] /\ g.result[t] = NoResult
      BY <1>0 DEF GetSaving
    <3>3. CASE x = t
      BY <1>2, <1>5, <3>1, <3>2, <3>3 DEF TeamEarns, Members
    <3>4. CASE x # t
      BY <1>2, <1>5, <3>1, <3>4 DEF TeamEarns, Members
    <3> QED BY <3>3, <3>4
  <2> QED BY <1>2, <1>4, <2>1, <2>2, <2>3 DEF Ranks
<1> QED BY <1>1, <1>6, <1>7, <1>8, <1>9 DEF Inv, Good, h

\* KillTeam leaves no tee alive.
LEMMA GoodKillTeam ==
  ASSUME NEW g, Good(g), NEW t \in Teams
  PROVE  LET r == KillTeam(g, t)
         IN  Good(r) /\ \A d \in Clients : ~(r.team[d] = t /\ r.body[d] = "alive")
BY InvKillTeam DEF Good, Kills

\* /unpractice.
LEMMA GoodUnpractice ==
  ASSUME NEW g, Good(g), NEW t \in Teams
  PROVE  Good([KillTeam(g, t) EXCEPT !.practice[t] = FALSE])
<1> DEFINE r == KillTeam(g, t)
<1>1. Good(r) /\ \A d \in Clients : ~(r.team[d] = t /\ r.body[d] = "alive")
  BY GoodKillTeam
<1> HIDE DEF r
<1>2. FALSE \in BOOLEAN
  OBVIOUS
<1>3. Good([r EXCEPT !.practice[t] = FALSE])
  BY <1>1, <1>2, GoodPractice
<1> QED BY <1>3 DEF r

\* A team may be taken off the clock.
LEMMA GoodKillTick ==
  ASSUME NEW g, Good(g), NEW t \in Teams
  PROVE  Good([g EXCEPT !.killTick[t] = FALSE])
<1> DEFINE h == [g EXCEPT !.killTick[t] = FALSE]
<1>0. g \in Games /\ Inv(g, {}) /\ Fields(g) /\ t \in AllTeams
  BY GamesFields, FlockIn DEF Good
<1>1. h \in Games
  BY <1>0 DEF Games
<1>2. /\ h.team = g.team /\ h.unearned = g.unearned /\ h.state = g.state
      /\ h.locked = g.locked /\ h.flock = g.flock
      /\ h.practice = g.practice /\ h.result = g.result
      /\ h.killTick = [g.killTick EXCEPT ![t] = FALSE]
  BY <1>0 DEF Games
<1>3. SameTees(g, h)
  BY <1>0 DEF Games, SameTees
<1> HIDE DEF h
<1>4. /\ h.body = g.body /\ h.race = g.race /\ h.merit = g.merit
      /\ h.started = g.started /\ h.finished = g.finished
  BY <1>3 DEF SameTees
<1>5. \A x \in AllTeams : h.killTick[x] => g.killTick[x]
  BY <1>0, <1>2 DEF Fields
<1>6. Sound(h)
  BY <1>0, <1>2, <1>5, FlockIn DEF Inv, Sound, FlockOK, EmptyOK, Members
<1>7. Rest(h, {})
  BY <1>0, <1>2, <1>4 DEF Inv, Rest, Resting
<1>8. "spectate" \notin WhileSaving => AllKept(h)
  BY <1>0, <1>2 DEF Inv, AllKept, Kept, Members
<1>9. ASSUME WhileSaving = {} PROVE Ranks(h, {})
  <2>1. Ranks(g, {})
    BY <1>0, <1>9 DEF Inv
  <2>2. \A c \in Clients : TeeEarns(h, c)
    BY <1>2, <1>4, <2>1 DEF Ranks, TeeEarns
  <2>3. \A x \in Teams : TeamEarns(h, x)
    BY <1>2, <2>1 DEF Ranks, TeamEarns, Members
  <2> QED BY <1>2, <2>1, <2>2, <2>3 DEF Ranks
<1> QED BY <1>1, <1>6, <1>7, <1>8, <1>9 DEF Inv, Good, h

----------------------------------------------------------------------------
(* A player leaves.                                                        *)

\* The tee dies twice, as a member and in team 0.
LEMMA GoodSpectate ==
  ASSUME NEW g, Good(g), NEW c \in Clients, g.body[c] = "alive",
         GetSaving(g, g.team[c]) => "spectate" \in WhileSaving,
         NEW died, died = (IF GetSaving(g, g.team[c]) THEN g
                           ELSE [DieAlone(g, c, "game") EXCEPT !.body[c] = "alive"])
  PROVE  LET out == CheckTeamFinished(SetForceCharacterTeam(died, c, Flock), died.team[c])
             gone == DieAlone(out, c, "game")
         IN  Good(gone) /\ gone.body[c] = "dead" /\ gone.result = g.result
<1> DEFINE t == g.team[c]
           now == died.team[c]
           moved == SetForceCharacterTeam(died, c, Flock)
           out == CheckTeamFinished(moved, now)
           gone == DieAlone(out, c, "game")
<1>0. g \in Games /\ Inv(g, {}) /\ Fields(g) /\ t \in AllTeams
  BY GamesFields DEF Good, Fields
<1>1. /\ died \in Games /\ Inv(died, {c}) /\ died.result = g.result
      /\ now \in AllTeams /\ ("spectate" \in WhileSaving \/ ~GetSaving(g, now))
      /\ WhileSaving = {} => died.merit[c] = "none" /\ died.race[c] = "none"
  <2>1. CASE GetSaving(g, t)
    <3>1. died = g /\ WhileSaving # {}
      BY <2>1
    <3>2. Inv(g, {c})
      BY <1>0, <3>1 DEF Inv, Rest, Ranks
    <3> QED BY <1>0, <2>1, <3>1, <3>2
  <2>2. CASE ~GetSaving(g, t)
    <3> DEFINE d == DieAlone(g, c, "game")
    <3>1. died = [d EXCEPT !.body[c] = "alive"]
      BY <2>2
    <3>2. ~Reopens(g, c, "game")
      BY DEF Reopens
    <3>3. Inv(d, {} \ {c}) /\ Killed(g, c, d) /\ {} \ {c} = {}
      BY <1>0, <3>2, InvDieAlone, DieKills
    <3> HIDE DEF d
    <3>4. /\ d \in Games /\ Inv(d, {}) /\ d.result = g.result /\ d.team[c] \in {t, Flock}
          /\ d.race[c] = "none" /\ d.merit[c] = "none"
      BY <3>3 DEF Killed, Kills
    <3>5. "alive" \in {"out", "dead", "alive"}
      OBVIOUS
    <3>6. OneTee(d, c, died) /\ died.race = d.race /\ died.merit = d.merit
      <4> DEFINE e == [d EXCEPT !.body[c] = "alive"]
      <4>1. OneTee(d, c, e) /\ e.race = d.race /\ e.merit = d.merit
        BY <3>4, <3>5, BodyDoes
      <4> HIDE DEF e
      <4> QED BY <3>1, <4>1 DEF e
    <3>7. died \in Games /\ died.team = d.team /\ died.result = d.result
      BY <3>6 DEF OneTee, SameTeams
    <3>8. Inv(died, {} \cup {c}) /\ {} \cup {c} = {c}
      BY <3>4, <3>6, InvOneTee
    <3>9. now \in {t, Flock} /\ ~GetSaving(g, now)
      BY <2>2, <3>4, <3>7 DEF GetSaving
    <3> QED BY <1>0, <3>4, <3>6, <3>7, <3>8, <3>9, FlockIn
  <2> QED BY <2>1, <2>2
<1>2. Forced(died, c, Flock, moved)
  BY <1>1, ForceDoes, FlockIn
<1>3. /\ GetSaving(died, now) <=> GetSaving(g, now)
      /\ ~GetSaving(died, Flock)
  BY <1>1 DEF GetSaving
<1> HIDE DEF moved
<1>4. Inv(moved, {c} \ {c}) /\ {c} \ {c} = {}
  BY <1>1, <1>2, <1>3, FlockIn, InvForce
<1>5. moved \in Games /\ moved.result = g.result
  BY <1>1, <1>2 DEF Forced
<1>6. "spectate" \in WhileSaving \/ ~GetSaving(moved, now)
  BY <1>1, <1>5 DEF GetSaving
<1>7. Inv(out, {}) /\ Spares(moved, out)
  BY <1>1, <1>4, <1>5, <1>6, InvCheck, CheckSpares
<1> HIDE DEF out
<1>8. out \in Games /\ out.result = g.result
  BY <1>5, <1>7 DEF Spares
<1>9. ~Reopens(out, c, "game")
  BY DEF Reopens
<1>10. Inv(gone, {} \ {c}) /\ Killed(out, c, gone) /\ {} \ {c} = {}
  BY <1>7, <1>8, <1>9, InvDieAlone, DieKills
<1> HIDE DEF gone
<1>11. Good(gone) /\ gone.body[c] = "dead" /\ gone.result = g.result
  BY <1>8, <1>10 DEF Good, Killed, Kills
<1> QED BY <1>11 DEF gone, out, moved

\* The result of a team has changed, to v.
OneResult(g, t, v, h) ==
  /\ h \in Games /\ h.team = g.team /\ SameTees(g, h) /\ h.unearned = g.unearned
  /\ h.state = g.state /\ h.locked = g.locked /\ h.flock = g.flock
  /\ h.practice = g.practice /\ h.killTick = g.killTick
  /\ h.result[t] = v /\ \A x \in AllTeams : x # t => h.result[x] = g.result[x]

\* The result of a team, field by field.
LEMMA ResultDoes ==
  ASSUME NEW g \in Games, NEW t \in AllTeams, NEW v \in Results
  PROVE  OneResult(g, t, v, [g EXCEPT !.result[t] = v])
<1> DEFINE h == [g EXCEPT !.result[t] = v]
<1>1. h \in Games
  BY DEF Games
<1>2. /\ h.team = g.team /\ h.unearned = g.unearned /\ h.state = g.state
      /\ h.locked = g.locked /\ h.flock = g.flock /\ h.practice = g.practice
      /\ h.killTick = g.killTick /\ h.result = [g.result EXCEPT ![t] = v]
  BY DEF Games
<1>3. SameTees(g, h)
  BY DEF Games, SameTees
<1>4. h.result[t] = v /\ \A x \in AllTeams : x # t => h.result[x] = g.result[x]
  BY <1>2, GamesFields DEF Fields
<1> QED BY <1>1, <1>2, <1>3, <1>4 DEF OneResult

\* The kinds of results.
LEMMA ResultKinds ==
  ASSUME NEW r \in Results, r # NoResult
  PROVE  /\ r.kind \in {"save", "load"} /\ r.left \in SUBSET Clients
         /\ r.kind = "save" => r.save \in Saves /\ r.answer \in {"none", "ok", "failed"}
              /\ r = [kind |-> "save", answer |-> r.answer, save |-> r.save, left |-> r.left]
         /\ r.kind = "load" => /\ r.who \in SUBSET Clients
              /\ \/ /\ r.answer \in {"none", "failed"}
                    /\ r = [kind |-> "load", answer |-> r.answer, who |-> r.who,
                            left |-> r.left]
                 \/ /\ r.answer = "ok" /\ r.save \in Saves
                    /\ r = [kind |-> "load", answer |-> "ok", who |-> r.who,
                            save |-> r.save, left |-> r.left]
BY DEF Results

\* None of the results under way is no result.
LEMMA ResultsAre ==
  /\ NoResult \in Results /\ NoResult.kind = "none"
  /\ \A v, w, x : [kind |-> "save", answer |-> v, save |-> w, left |-> x] # NoResult
  /\ \A v, w, x : [kind |-> "load", answer |-> v, who |-> w, left |-> x] # NoResult
  /\ \A v, w, x, y :
       [kind |-> "load", answer |-> v, who |-> w, save |-> y, left |-> x] # NoResult
<1>1. NoResult \in Results /\ NoResult.kind = "none"
  BY DEF Results, NoResult
<1>2. \A v, w, x : [kind |-> "save", answer |-> v, save |-> w, left |-> x] # NoResult
  <2> SUFFICES ASSUME NEW v, NEW w, NEW x
               PROVE  [kind |-> "save", answer |-> v, save |-> w, left |-> x] # NoResult
    OBVIOUS
  <2>1. [kind |-> "save", answer |-> v, save |-> w, left |-> x].kind = "save"
    OBVIOUS
  <2> QED BY <1>1, <2>1
<1>3. \A v, w, x : [kind |-> "load", answer |-> v, who |-> w, left |-> x] # NoResult
  <2> SUFFICES ASSUME NEW v, NEW w, NEW x
               PROVE  [kind |-> "load", answer |-> v, who |-> w, left |-> x] # NoResult
    OBVIOUS
  <2>1. [kind |-> "load", answer |-> v, who |-> w, left |-> x].kind = "load"
    OBVIOUS
  <2> QED BY <1>1, <2>1
<1>4. \A v, w, x, y :
       [kind |-> "load", answer |-> v, who |-> w, save |-> y, left |-> x] # NoResult
  <2> SUFFICES ASSUME NEW v, NEW w, NEW x, NEW y
               PROVE  [kind |-> "load", answer |-> v, who |-> w, save |-> y, left |-> x] # NoResult
    OBVIOUS
  <2>1. [kind |-> "load", answer |-> v, who |-> w, save |-> y, left |-> x].kind = "load"
    OBVIOUS
  <2> QED BY <1>1, <2>1
<1> QED BY <1>1, <1>2, <1>3, <1>4

\* A new result is sound if the team and its tees are.
LEMMA InvResult ==
  ASSUME NEW g \in Games, NEW t \in Teams, NEW X, NEW v, NEW h, OneResult(g, t, v, h), Sound(g),
         \A c \in Clients \ X : IF g.team[c] = t THEN Resting(h, c) ELSE Resting(g, c),
         "spectate" \notin WhileSaving => Kept(h, t) /\ \A x \in Teams : x # t => Kept(g, x),
         WhileSaving = {} =>
           /\ g.unearned = {}
           /\ TeamEarns(h, t) /\ \A x \in Teams : x # t => TeamEarns(g, x)
           /\ \A c \in Clients \ X : IF g.team[c] = t THEN TeeEarns(h, c) ELSE TeeEarns(g, c)
  PROVE  Inv(h, X)
<1>1. /\ h.team = g.team /\ h.unearned = g.unearned
      /\ h.state = g.state /\ h.locked = g.locked /\ h.flock = g.flock
      /\ h.practice = g.practice /\ h.killTick = g.killTick
      /\ \A x \in AllTeams : x # t => h.result[x] = g.result[x]
      /\ h.body = g.body /\ h.race = g.race /\ h.merit = g.merit
      /\ h.started = g.started /\ h.finished = g.finished
  BY DEF OneResult, SameTees
<1>2. \A c \in Clients : g.team[c] \in AllTeams
  BY GamesFields DEF Fields
<1>3. Sound(h)
  BY <1>1, FlockIn DEF Sound, FlockOK, EmptyOK, Members
<1>4. Rest(h, X)
  <2> SUFFICES ASSUME NEW c \in Clients \ X PROVE Resting(h, c)
    BY DEF Rest
  <2>1. CASE g.team[c] = t
    BY <2>1
  <2>2. CASE g.team[c] # t
    <3>1. Resting(g, c) /\ h.result[g.team[c]] = g.result[g.team[c]]
      BY <1>1, <1>2, <2>2
    <3> QED BY <1>1, <3>1 DEF Resting
  <2> QED BY <2>1, <2>2
<1>5. "spectate" \notin WhileSaving => AllKept(h)
  <2> SUFFICES ASSUME "spectate" \notin WhileSaving, NEW x \in Teams PROVE Kept(h, x)
    BY DEF AllKept
  <2>1. CASE x # t
    <3>1. Kept(g, x) /\ h.result[x] = g.result[x]
      BY <1>1, <2>1, FlockIn
    <3> QED BY <1>1, <3>1 DEF Kept, Members
  <2> QED BY <2>1
<1>6. ASSUME WhileSaving = {} PROVE Ranks(h, X)
  <2>1. ASSUME NEW c \in Clients \ X PROVE TeeEarns(h, c)
    <3>1. CASE g.team[c] = t
      BY <1>6, <3>1
    <3>2. CASE g.team[c] # t
      <4>1. TeeEarns(g, c) /\ h.result[g.team[c]] = g.result[g.team[c]]
        BY <1>1, <1>2, <1>6, <3>2
      <4> QED BY <1>1, <4>1 DEF TeeEarns
    <3> QED BY <3>1, <3>2
  <2>2. ASSUME NEW x \in Teams PROVE TeamEarns(h, x)
    <3>1. CASE x # t
      <4>1. TeamEarns(g, x) /\ h.result[x] = g.result[x]
        BY <1>1, <1>6, <3>1, FlockIn
      <4> QED BY <1>1, <4>1 DEF TeamEarns, Members
    <3> QED BY <1>6, <3>1
  <2> QED BY <1>1, <1>6, <2>1, <2>2 DEF Ranks
<1> QED BY <1>3, <1>4, <1>5, <1>6 DEF Inv

\* While a team is saved or loaded its result may change in all but what is checked.
LEMMA GoodSameResult ==
  ASSUME NEW g, Good(g), NEW t \in Teams, NEW v \in Results, NEW h, OneResult(g, t, v, h),
         v # NoResult, g.result[t] # NoResult, v.kind = g.result[t].kind,
         "spectate" \notin WhileSaving => Kept(h, t),
         v.kind = "save" => v.save = g.result[t].save,
         WhileSaving = {} /\ v.kind = "load" /\ v.answer = "ok" => Honest(v.save)
  PROVE  Good(h)
<1>0. g \in Games /\ Inv(g, {}) /\ Fields(g) /\ t \in AllTeams
  BY GamesFields, FlockIn DEF Good
<1>1. /\ h \in Games /\ h.team = g.team /\ h.unearned = g.unearned
      /\ h.state = g.state /\ h.locked = g.locked /\ h.flock = g.flock
      /\ h.practice = g.practice /\ h.killTick = g.killTick /\ h.result[t] = v
      /\ h.body = g.body /\ h.race = g.race /\ h.merit = g.merit
      /\ h.started = g.started /\ h.finished = g.finished
  BY DEF OneResult, SameTees
<1>2. \A c \in Clients : IF g.team[c] = t THEN Resting(h, c) ELSE Resting(g, c)
  BY <1>0, <1>1 DEF Inv, Rest, Resting
<1>3. "spectate" \notin WhileSaving => Kept(h, t) /\ \A x \in Teams : x # t => Kept(g, x)
  BY <1>0 DEF Inv, AllKept
<1>4. ASSUME WhileSaving = {}
      PROVE  /\ g.unearned = {}
             /\ TeamEarns(h, t) /\ \A x \in Teams : x # t => TeamEarns(g, x)
             /\ \A c \in Clients : IF g.team[c] = t THEN TeeEarns(h, c) ELSE TeeEarns(g, c)
  <2>1. Ranks(g, {})
    BY <1>0, <1>4 DEF Inv
  <2>2. TeamEarns(h, t)
    <3>1. TeamEarns(g, t)
      BY <2>1 DEF Ranks
    <3>2. v.kind = "save" \/ (v.kind = "load" /\ v.answer = "ok") => Honest(v.save)
      BY <1>4, <3>1 DEF TeamEarns
    <3> QED BY <1>1, <3>1, <3>2 DEF TeamEarns, Members
  <2>3. ASSUME NEW c \in Clients, g.team[c] = t PROVE TeeEarns(h, c)
    <3>1. TeeEarns(g, c)
      BY <2>1 DEF Ranks
    <3> QED BY <1>1, <2>3, <3>1 DEF TeeEarns
  <2> QED BY <2>1, <2>2, <2>3 DEF Ranks
<1>5. Sound(g)
  BY <1>0 DEF Inv
<1>6. Inv(h, {})
  BY <1>0, <1>2, <1>3, <1>4, <1>5, InvResult
<1> QED BY <1>1, <1>6 DEF Good

\* The history notes that c has left.
LEMMA LeftDoes ==
  ASSUME NEW g \in Games, NEW t \in Teams, NEW c \in Clients, GetSaving(g, t)
  PROVE  \E v \in Results :
           /\ OneResult(g, t, v, Left(g, t, c)) /\ v # NoResult
           /\ v.kind = g.result[t].kind /\ v.left = g.result[t].left \cup {c}
           /\ v.kind = "save" => v.save = g.result[t].save
           /\ v.kind = "load" => v.who = g.result[t].who
           /\ v.kind = "load" /\ v.answer = "ok" =>
                g.result[t].answer = "ok" /\ v.save = g.result[t].save
<1> DEFINE r == g.result[t]
           v == [r EXCEPT !.left = r.left \cup {c}]
<1>1. t \in AllTeams /\ r \in Results /\ r # NoResult
  BY GamesFields, FlockIn DEF Fields, GetSaving
<1>2. Left(g, t, c) = [g EXCEPT !.result[t] = v]
  BY DEF Left
<1> HIDE DEF r
<1>3. /\ r.kind \in {"save", "load"} /\ r.left \in SUBSET Clients
      /\ r.kind = "save" => r.save \in Saves /\ r.answer \in {"none", "ok", "failed"}
           /\ r = [kind |-> "save", answer |-> r.answer, save |-> r.save, left |-> r.left]
      /\ r.kind = "load" => /\ r.who \in SUBSET Clients
           /\ \/ /\ r.answer \in {"none", "failed"}
                 /\ r = [kind |-> "load", answer |-> r.answer, who |-> r.who,
                         left |-> r.left]
              \/ /\ r.answer = "ok" /\ r.save \in Saves
                 /\ r = [kind |-> "load", answer |-> "ok", who |-> r.who,
                         save |-> r.save, left |-> r.left]
  BY <1>1, ResultKinds
<1>4. r.left \cup {c} \in SUBSET Clients
  BY <1>3
<1>5. /\ v \in Results /\ v # NoResult /\ v.kind = r.kind /\ v.left = r.left \cup {c}
      /\ v.kind = "save" => v.save = r.save
      /\ v.kind = "load" => v.who = r.who
      /\ v.kind = "load" /\ v.answer = "ok" => r.answer = "ok" /\ v.save = r.save
  <2>1. CASE r.kind = "save"
    <3>1. v = [kind |-> "save", answer |-> r.answer, save |-> r.save, left |-> r.left \cup {c}]
      BY <1>3, <2>1
    <3> HIDE DEF v
    <3>2. v \in Results
      BY <1>3, <1>4, <2>1, <3>1 DEF Results
    <3> QED BY <2>1, <3>1, <3>2, ResultsAre
  <2>2. CASE r.kind = "load" /\ r.answer = "ok"
    <3>1. v = [kind |-> "load", answer |-> "ok", who |-> r.who, save |-> r.save,
               left |-> r.left \cup {c}] /\ r.save \in Saves
      BY <1>3, <2>2
    <3> HIDE DEF v
    <3>2. v \in Results
      BY <1>3, <1>4, <2>2, <3>1 DEF Results
    <3> QED BY <2>2, <3>1, <3>2, ResultsAre
  <2>3. CASE r.kind = "load" /\ r.answer # "ok"
    <3>1. v = [kind |-> "load", answer |-> r.answer, who |-> r.who, left |-> r.left \cup {c}]
          /\ r.answer \in {"none", "failed"}
      BY <1>3, <2>3
    <3> HIDE DEF v
    <3>2. v \in Results
      BY <1>3, <1>4, <2>3, <3>1 DEF Results
    <3> QED BY <2>3, <3>1, <3>2, ResultsAre
  <2> QED BY <1>3, <2>1, <2>2, <2>3
<1> HIDE DEF v
<1>6. OneResult(g, t, v, [g EXCEPT !.result[t] = v])
  BY <1>1, <1>5, ResultDoes
<1> QED BY <1>2, <1>5, <1>6 DEF r

\* The history notes who became a spectator.
LEMMA GoodSpectateLeft ==
  ASSUME NEW g, Good(g), NEW t \in AllTeams, NEW c \in Clients, g.body[c] = "dead",
         GetSaving(g, t) => "spectate" \in WhileSaving
  PROVE  Good([Left(g, t, c) EXCEPT !.body[c] = "out"])
<1> DEFINE h == Left(g, t, c)
<1>1. Good(h) /\ h.body[c] = "dead"
  <2>1. CASE ~GetSaving(g, t)
    BY <2>1 DEF Left
  <2>2. CASE GetSaving(g, t)
    <3>1. g \in Games /\ t \in Teams /\ g.result[t] # NoResult
      BY <2>2 DEF Good, GetSaving, AllTeams
    <3>2. PICK v \in Results :
           /\ OneResult(g, t, v, h) /\ v # NoResult
           /\ v.kind = g.result[t].kind
           /\ v.kind = "save" => v.save = g.result[t].save
      BY <2>2, <3>1, LeftDoes
    <3> HIDE DEF h
    <3>3. Good(h)
      BY <2>2, <3>1, <3>2, GoodSameResult
    <3> QED BY <3>2, <3>3 DEF OneResult, SameTees
  <2> QED BY <2>1, <2>2
<1> HIDE DEF h
<1>2. Good([h EXCEPT !.body[c] = "out"])
  BY <1>1, GoodBody
<1> QED BY <1>2 DEF h

\* While its team is saved a tee just dies.
LEMMA DieSaved ==
  ASSUME NEW g \in Games, NEW c \in Clients, NEW weapon, GetSaving(g, g.team[c])
  PROVE  Dead(g, c, Die(g, c, weapon))
<1>1. Die(g, c, weapon) = DieAlone(g, c, weapon)
  BY DieSteps DEF Reopens
<1>2. Dead(g, c, DieAlone(g, c, weapon))
  BY DieDoes DEF DiedSaved, DiedLocked, DiedLeaving
<1> QED BY <1>1, <1>2

\* A player leaves, and the history notes it.
LEMMA GoodDisconnect ==
  ASSUME NEW g, Good(g), NEW c \in Clients,
         NEW died, died = IF g.body[c] = "alive" THEN Die(g, c, "game") ELSE g
  PROVE  LET out == SetForceCharacterTeam(died, c, Flock)
         IN  Good([Left(out, g.team[c], c) EXCEPT !.body[c] = "out"])
<1> DEFINE t == g.team[c]
           out == SetForceCharacterTeam(died, c, Flock)
           h == Left(out, t, c)
<1>0. g \in Games /\ Inv(g, {}) /\ Fields(g) /\ t \in AllTeams
  BY GamesFields DEF Good, Fields
<1>1. /\ died \in Games /\ Inv(died, {}) /\ died.body[c] # "alive" /\ died.result = g.result
      /\ died.team[c] \in {t, Flock}
      /\ GetSaving(g, t) => died.team = g.team
  <2>1. CASE g.body[c] = "alive"
    <3>1. died = Die(g, c, "game")
      BY <2>1
    <3>2. Inv(died, {}) /\ Kills(g, died) /\ died.body[c] = "dead"
      BY <1>0, <3>1, InvDie
    <3>3. GetSaving(g, t) => died.team = g.team
      <4> SUFFICES ASSUME GetSaving(g, t) PROVE died.team = g.team
        OBVIOUS
      <4>1. Dead(g, c, Die(g, c, "game"))
        BY <1>0, DieSaved
      <4> QED BY <3>1, <4>1 DEF Dead
    <3> QED BY <3>2, <3>3 DEF Kills
  <2>2. CASE g.body[c] # "alive"
    BY <1>0, <2>2
  <2> QED BY <2>1, <2>2
<1>2. Forced(died, c, Flock, out)
  BY <1>1, ForceDoes, FlockIn
<1>3. ASSUME WhileSaving = {} PROVE died.merit[c] = "none" /\ died.race[c] = "none"
  <2>1. TeeEarns(died, c)
    BY <1>1, <1>3 DEF Inv, Ranks
  <2> QED BY <1>1, <2>1 DEF TeeEarns
<1> HIDE DEF out, h
<1>4. /\ out \in Games /\ out.result = g.result /\ out.body[c] # "alive"
      /\ out.team = [died.team EXCEPT ![c] = Flock]
  BY <1>1, <1>2 DEF Forced
<1>5. CASE ~GetSaving(g, t)
  <2>1. ~GetSaving(died, Flock) /\ ~GetSaving(died, died.team[c])
    BY <1>1, <1>5 DEF GetSaving
  <2>2. Inv(out, {} \ {c}) /\ {} \ {c} = {}
    BY <1>1, <1>2, <1>3, <2>1, FlockIn, InvForce
  <2>3. h = out
    BY <1>4, <1>5 DEF h, Left, GetSaving
  <2>4. Good(h) /\ h.body[c] # "alive"
    BY <1>4, <2>2, <2>3 DEF Good
  <2>5. Good([h EXCEPT !.body[c] = "out"])
    BY <2>4, GoodBody
  <2> QED BY <2>5 DEF h, out
<1>6. CASE GetSaving(g, t)
  <2>0. t \in Teams /\ t # Flock /\ GetSaving(out, t) /\ g.result[t] # NoResult
    BY <1>0, <1>4, <1>6 DEF GetSaving, AllTeams
  <2>1. Sound(out) /\ Rest(out, {} \ {c}) /\ {} \ {c} = {}
    BY <1>1, <1>2, FlockIn, SoundForce, RestForce DEF Inv
  <2>2. WhileSaving = {} => Ranks(out, {} \ {c})
    <3>1. ~GetSaving(died, Flock)
      BY DEF GetSaving
    <3> QED BY <1>1, <1>2, <1>3, <3>1, FlockIn, RanksForce DEF Inv
  <2>3. PICK v \in Results :
           /\ OneResult(out, t, v, h) /\ v # NoResult
           /\ v.kind = out.result[t].kind /\ v.left = out.result[t].left \cup {c}
           /\ v.kind = "save" => v.save = out.result[t].save
           /\ v.kind = "load" => v.who = out.result[t].who
           /\ v.kind = "load" /\ v.answer = "ok" =>
                out.result[t].answer = "ok" /\ v.save = out.result[t].save
    BY <1>4, <2>0, LeftDoes DEF h
  <2>4. \A d \in Clients : out.team[d] = IF d = c THEN Flock ELSE died.team[d]
    BY <1>1, <1>4, GamesFields DEF Fields
  <2>5. /\ h \in Games /\ h.team = out.team /\ h.unearned = out.unearned
        /\ h.state = out.state /\ h.locked = out.locked /\ h.flock = out.flock
        /\ h.practice = out.practice /\ h.killTick = out.killTick /\ h.result[t] = v
        /\ h.body = out.body /\ h.race = out.race /\ h.merit = out.merit
        /\ h.started = out.started /\ h.finished = out.finished
    BY <2>3 DEF OneResult, SameTees
  <2>6. out.result[t] # NoResult /\ out.result[t].kind = v.kind
    BY <2>0, <2>3 DEF GetSaving
  <2>7. \A d \in Clients : IF out.team[d] = t THEN Resting(h, d) ELSE Resting(out, d)
    BY <2>1, <2>5, <2>6 DEF Rest, Resting
  <2>8. ASSUME "spectate" \notin WhileSaving
        PROVE  Kept(h, t) /\ \A x \in Teams : x # t => Kept(out, x)
    <3>1. AllKept(died)
      BY <1>1, <2>8 DEF Inv
    <3>2. ASSUME NEW x \in Teams, x # t PROVE Kept(out, x)
      <4>1. Members(out, x) = Members(died, x)
        BY <1>1, <1>6, <2>4, <3>2, FlockIn DEF Members
      <4>2. Kept(died, x)
        BY <3>1 DEF AllKept
      <4> QED BY <1>1, <1>4, <4>1, <4>2 DEF Kept
    <3>3. Members(h, t) = Members(died, t) \ {c}
      BY <2>0, <2>4, <2>5 DEF Members
    <3>4. Kept(died, t) /\ died.result = out.result
      BY <1>1, <1>4, <2>0, <3>1 DEF AllKept
    <3>5. v.kind \in {"save", "load"}
      BY <2>3, ResultKinds
    <3>6. (IF v.kind = "save" THEN DOMAIN v.save.tees ELSE v.who)
            = (IF out.result[t].kind = "save" THEN DOMAIN out.result[t].save.tees
               ELSE out.result[t].who)
      BY <2>3, <3>5
    <3>7. Kept(h, t)
      <4> DEFINE those == IF out.result[t].kind = "save" THEN DOMAIN out.result[t].save.tees
                          ELSE out.result[t].who
      <4>1. Members(died, t) = those \ out.result[t].left
        BY <2>6, <3>4 DEF Kept
      <4> HIDE DEF those
      <4>2. Members(h, t) = those \ v.left
        BY <2>3, <3>3, <4>1
      <4>3. (IF v.kind = "save" THEN DOMAIN v.save.tees ELSE v.who) = those
        BY <3>6 DEF those
      <4> QED BY <2>5, <4>2, <4>3 DEF Kept
    <3> QED BY <3>2, <3>7
  <2>9. ASSUME WhileSaving = {}
        PROVE  /\ out.unearned = {}
               /\ TeamEarns(h, t) /\ \A x \in Teams : x # t => TeamEarns(out, x)
               /\ \A d \in Clients : IF out.team[d] = t THEN TeeEarns(h, d)
                                     ELSE TeeEarns(out, d)
    <3>1. Ranks(out, {})
      BY <2>1, <2>2, <2>9
    <3>2. TeamEarns(h, t)
      <4>1. TeamEarns(out, t)
        BY <2>0, <3>1 DEF Ranks
      <4>2. v.kind = "save" \/ (v.kind = "load" /\ v.answer = "ok") => Honest(v.save)
        BY <2>3, <4>1 DEF TeamEarns
      <4> QED BY <2>5, <2>6, <4>1, <4>2 DEF TeamEarns, Members
    <3>3. ASSUME NEW d \in Clients, out.team[d] = t PROVE TeeEarns(h, d)
      <4>1. TeeEarns(out, d)
        BY <3>1 DEF Ranks
      <4> HIDE DEF t
      <4> QED BY <2>3, <2>5, <2>6, <3>3, <4>1 DEF TeeEarns
    <3> QED BY <3>1, <3>2, <3>3 DEF Ranks
  <2>10. Inv(h, {})
    BY <1>4, <2>0, <2>1, <2>3, <2>7, <2>8, <2>9, InvResult
  <2>11. Good(h) /\ h.body[c] # "alive"
    BY <1>4, <2>5, <2>10 DEF Good
  <2>12. Good([h EXCEPT !.body[c] = "out"])
    BY <2>11, GoodBody
  <2> QED BY <2>12 DEF h, out
<1> QED BY <1>5, <1>6

----------------------------------------------------------------------------
(* Saves and loads.                                                        *)

\* The games on the way to the end of KillTeam while the team is saved.
Quiet(t, X, b) ==
  {p \in ClientSets \X Games :
     /\ Inv(p[2], X \ p[1]) /\ p[2].team = b.team /\ p[2].state = b.state
     /\ p[2].flock = b.flock /\ p[2].result = b.result
     /\ \A d \in X \ p[1] : p[2].body[d] = "alive"}

\* The members of a saved team die and stay in it.
LEMMA KillSaved ==
  ASSUME NEW b \in Games, NEW t \in Teams, b.result[t].kind = "save", b.result[t] # NoResult,
         b.state[t] # "open", ~b.flock[t], Inv(b, Members(b, t)),
         \A d \in Members(b, t) : b.body[d] = "alive"
  PROVE  Good(KillTeam(b, t))
<1> DEFINE X == Members(b, t)
           r == KillTeam(b, t)
<1>0. X \in SUBSET Clients /\ t # Flock
  BY FlockIn DEF Members
<1>1. FoldsTo(TurnKill(t), b, r)
  BY KillFolds
<1>2. <<{}, b>> \in Quiet(t, X, b)
  <2>1. X \ {} = X /\ {} \in ClientSets
    BY DEF ClientSets
  <2> HIDE DEF X
  <2>2. Inv(b, X) /\ \A d \in X : b.body[d] = "alive"
    BY DEF X
  <2> QED BY <2>1, <2>2 DEF Quiet
<1>3. ASSUME NEW R \in ClientSets, NEW c \in Clients \ R, NEW h \in Games,
             <<R, h>> \in Quiet(t, X, b)
      PROVE  <<R \cup {c}, TurnKill(t)[<<h, c>>]>> \in Quiet(t, X, b)
  <2> DEFINE n == TurnKill(t)[<<h, c>>]
  <2>1. n = IF h.team[c] = t /\ h.body[c] = "alive" THEN Die(h, c, "self") ELSE h
    BY DEF TurnKill
  <2>2. /\ Inv(h, X \ R) /\ h.team = b.team /\ h.state = b.state
        /\ h.flock = b.flock /\ h.result = b.result
        /\ \A d \in X \ R : h.body[d] = "alive"
    BY <1>3 DEF Quiet
  <2>3. R \cup {c} \in ClientSets /\ (X \ R) \ {c} = X \ (R \cup {c})
    BY DEF ClientSets
  <2> HIDE DEF n, X
  <2>4. CASE h.team[c] = t /\ h.body[c] = "alive"
    <3>1. n = Die(h, c, "self") /\ GetSaving(h, h.team[c])
      BY <1>0, <2>1, <2>2, <2>4 DEF GetSaving
    <3>2. Dead(h, c, n)
      BY <3>1, DieSaved
    <3>3. /\ n \in Games /\ n.team = h.team /\ SameTeams(h, n) /\ n.unearned = h.unearned
          /\ n.started = h.started /\ n.finished = h.finished
          /\ n.body[c] = "dead" /\ n.race[c] = "none" /\ n.merit[c] = "none"
          /\ \A d \in Clients : d # c => /\ n.body[d] = h.body[d] /\ n.race[d] = h.race[d]
                                         /\ n.merit[d] = h.merit[d]
      BY <3>2, GamesFields DEF Dead, Fields
    <3>4. OneTee(h, c, n)
      BY <3>3 DEF OneTee
    <3>5. Resting(n, c)
      BY <3>3 DEF Resting
    <3>6. /\ n.state = b.state /\ n.flock = b.flock /\ n.result = b.result
          /\ n.team = b.team
      BY <2>2, <3>3 DEF SameTeams
    <3>7. TeeEarns(n, c)
      BY <2>2, <2>4, <3>3, <3>6 DEF TeeEarns
    <3>8. Inv(n, (X \ R) \ {c})
      BY <2>2, <3>4, <3>5, <3>7, InvOneTee
    <3>9. \A d \in X \ (R \cup {c}) : n.body[d] = "alive"
      BY <1>0, <2>2, <3>3
    <3> QED BY <2>3, <3>3, <3>6, <3>8, <3>9 DEF Quiet, n
  <2>5. CASE ~(h.team[c] = t /\ h.body[c] = "alive")
    <3>1. n = h
      BY <2>1, <2>5
    <3>2. c \notin X \ R
      <4>1. c \in X => h.team[c] = t
        BY <2>2 DEF X, Members
      <4> QED BY <2>2, <2>5, <4>1
    <3>3. X \ (R \cup {c}) = X \ R
      BY <3>2
    <3> QED BY <2>2, <2>3, <3>1, <3>3 DEF Quiet, n
  <2> QED BY <2>4, <2>5
<1>4. Keeps(TurnKill(t), Quiet(t, X, b))
  BY <1>3 DEF Keeps
<1> HIDE DEF r, X
<1>5. <<Clients, r>> \in Quiet(t, X, b)
  BY <1>1, <1>2, <1>4, FoldKeeps
<1>6. Inv(r, X \ Clients) /\ X \ Clients = {} /\ r \in Games
  BY <1>0, <1>5 DEF Quiet
<1> QED BY <1>6 DEF Good, r

\* A save of the members is a save, of just them.
LEMMA SaveIs ==
  ASSUME NEW g \in Games, NEW t \in AllTeams, Members(g, t) # {}
  PROVE  LET s == SaveOf(g, t)
         IN  /\ s \in Saves /\ DOMAIN s.tees = Members(g, t)
             /\ \A c \in Members(g, t) :
                  /\ s.tees[c].merit = g.merit[c] /\ s.tees[c].started = g.started[c]
                  /\ s.tees[c].finished = g.finished[c]
<1> DEFINE S == Members(g, t)
           tees == [c \in S |-> [started |-> g.started[c], finished |-> g.finished[c],
                                 race |-> g.race[c], merit |-> g.merit[c]]]
           s == SaveOf(g, t)
<1>1. s = [locked |-> g.locked[t], tees |-> tees]
  BY DEF SaveOf
<1>2. Fields(g) /\ S \in (SUBSET Clients) \ {{}}
  BY GamesFields DEF Members
<1> HIDE DEF S
<1>3. tees \in [S -> SavedTees]
  <2>1. ASSUME NEW c \in S
        PROVE  [started |-> g.started[c], finished |-> g.finished[c],
                race |-> g.race[c], merit |-> g.merit[c]] \in SavedTees
    <3>1. c \in Clients
      BY <1>2
    <3>2. /\ g.started[c] \in BOOLEAN /\ g.finished[c] \in BOOLEAN
          /\ g.race[c] \in {"none", "started", "finished"} /\ g.merit[c] \in Merits
      BY <1>2, <3>1 DEF Fields
    <3> QED BY <3>2 DEF SavedTees
  <2> QED BY <2>1
<1>4. \A c \in S : /\ tees[c].merit = g.merit[c] /\ tees[c].started = g.started[c]
                   /\ tees[c].finished = g.finished[c]
  OBVIOUS
<1>5. DOMAIN tees = S
  OBVIOUS
<1> HIDE DEF tees, s
<1>6. g.locked[t] \in BOOLEAN
  BY <1>2 DEF Fields
<1>7. s \in Saves
  BY <1>1, <1>2, <1>3, <1>6 DEF Saves
<1>8. s.tees = tees
  BY <1>1
<1> QED BY <1>4, <1>5, <1>7, <1>8 DEF S, s

\* /save.
LEMMA GoodSave ==
  ASSUME NEW g, Good(g), NEW t \in Teams, Members(g, t) # {}, ~GetSaving(g, t),
         ~g.practice[t], ~g.flock[t], g.state[t] = "started", Playing(g, t) = Members(g, t)
  PROVE  Good(KillTeam([g EXCEPT !.result[t] =
           [kind |-> "save", answer |-> "none", save |-> SaveOf(g, t), left |-> {}]], t))
<1> DEFINE X == Members(g, t)
           s == SaveOf(g, t)
           v == [kind |-> "save", answer |-> "none", save |-> s, left |-> {}]
           b == [g EXCEPT !.result[t] = v]
<1>0. /\ g \in Games /\ Inv(g, {}) /\ Fields(g) /\ t \in AllTeams /\ t # Flock
      /\ g.result[t] = NoResult
  BY GamesFields, FlockIn DEF Good, GetSaving
<1>1. /\ s \in Saves /\ DOMAIN s.tees = X
      /\ \A c \in X :
           /\ s.tees[c].merit = g.merit[c] /\ s.tees[c].started = g.started[c]
           /\ s.tees[c].finished = g.finished[c]
  BY <1>0, SaveIs
<1> HIDE DEF s
<1>2. v \in Results /\ v # NoResult /\ v.kind = "save" /\ v.save = s /\ v.left = {}
  BY <1>1, ResultsAre DEF Results
<1> HIDE DEF v
<1>3. OneResult(g, t, v, b)
  BY <1>0, <1>2, ResultDoes
<1> HIDE DEF b
<1>4. /\ b \in Games /\ b.team = g.team /\ b.unearned = g.unearned
      /\ b.state = g.state /\ b.flock = g.flock
      /\ b.practice = g.practice /\ b.result[t] = v
      /\ b.body = g.body /\ b.race = g.race /\ b.merit = g.merit
      /\ b.started = g.started /\ b.finished = g.finished
  BY <1>3 DEF OneResult, SameTees
<1>5. Members(b, t) = X
  BY <1>4 DEF Members
<1>6. \A c \in Clients : g.team[c] = t <=> c \in X
  BY DEF Members
<1>7. \A c \in X : c \in Clients /\ g.body[c] = "alive" /\ g.team[c] = t
  BY DEF Members, Playing
<1> HIDE DEF X
<1>8. \A c \in Clients \ X : IF g.team[c] = t THEN Resting(b, c) ELSE Resting(g, c)
  BY <1>0, <1>6 DEF Inv, Rest
<1>9. "spectate" \notin WhileSaving => Kept(b, t) /\ \A x \in Teams : x # t => Kept(g, x)
  <2>1. Kept(b, t)
    <3>1. X \ {} = X
      OBVIOUS
    <3> QED BY <1>1, <1>2, <1>4, <1>5, <3>1 DEF Kept
  <2> QED BY <1>0, <2>1 DEF Inv, AllKept
<1>10. ASSUME WhileSaving = {}
       PROVE  /\ g.unearned = {}
              /\ TeamEarns(b, t) /\ \A x \in Teams : x # t => TeamEarns(g, x)
              /\ \A c \in Clients \ X : IF g.team[c] = t THEN TeeEarns(b, c) ELSE TeeEarns(g, c)
  <2>1. Ranks(g, {})
    BY <1>0, <1>10 DEF Inv
  <2>2. Honest(s)
    <3>1. ASSUME NEW c \in X
          PROVE  /\ g.merit[c] # "practised"
                 /\ g.started[c] \/ g.finished[c] => g.merit[c] = "crossed"
      <4>1. TeeEarns(g, c) /\ c \in Clients /\ g.merit[c] \in Merits
        BY <1>0, <1>7, <2>1 DEF Ranks, Fields
      <4> QED BY <1>0, <1>7, <4>1 DEF TeeEarns, Merits
    <3> QED BY <1>1, <3>1 DEF Honest
  <2>3. TeamEarns(b, t)
    BY <1>2, <1>4, <2>2 DEF TeamEarns
  <2> QED BY <1>6, <2>1, <2>3 DEF Ranks
<1>11. Sound(g)
  BY <1>0 DEF Inv
<1>12. Inv(b, X)
  BY <1>0, <1>3, <1>8, <1>9, <1>10, <1>11, InvResult
<1>13. Good(KillTeam(b, t))
  BY <1>2, <1>4, <1>5, <1>7, <1>12, KillSaved
<1> QED BY <1>13 DEF b, v, s

\* /load.
LEMMA GoodLoadBegun ==
  ASSUME NEW g, Good(g), NEW t \in Teams, ~GetSaving(g, t),
         ~g.practice[t], ~g.flock[t], g.state[t] = "open"
  PROVE  Good([g EXCEPT !.result[t] =
           [kind |-> "load", answer |-> "none", who |-> Members(g, t), left |-> {}]])
<1> DEFINE X == Members(g, t)
           v == [kind |-> "load", answer |-> "none", who |-> X, left |-> {}]
           b == [g EXCEPT !.result[t] = v]
<1>0. /\ g \in Games /\ Inv(g, {}) /\ Fields(g) /\ t \in AllTeams /\ t # Flock
      /\ g.result[t] = NoResult
  BY GamesFields, FlockIn DEF Good, GetSaving
<1>1. X \in SUBSET Clients
  BY DEF Members
<1>2. /\ v \in Results /\ v # NoResult /\ v.kind = "load" /\ v.who = X /\ v.left = {}
      /\ v.answer = "none"
  BY <1>1, ResultsAre DEF Results
<1> HIDE DEF v
<1>3. OneResult(g, t, v, b)
  BY <1>0, <1>2, ResultDoes
<1> HIDE DEF b
<1>4. /\ b \in Games /\ b.team = g.team /\ b.unearned = g.unearned
      /\ b.state = g.state /\ b.flock = g.flock
      /\ b.practice = g.practice /\ b.result[t] = v
      /\ b.body = g.body /\ b.race = g.race /\ b.merit = g.merit
      /\ b.started = g.started /\ b.finished = g.finished
  BY <1>3 DEF OneResult, SameTees
<1>5. Members(b, t) = X /\ X \ {} = X
  BY <1>4 DEF Members
<1> HIDE DEF X
<1>6. \A c \in Clients \ {} : IF g.team[c] = t THEN Resting(b, c) ELSE Resting(g, c)
  BY <1>0, <1>4 DEF Inv, Rest, Resting
<1>7. "spectate" \notin WhileSaving => Kept(b, t) /\ \A x \in Teams : x # t => Kept(g, x)
  BY <1>0, <1>2, <1>4, <1>5 DEF Inv, AllKept, Kept
<1>8. ASSUME WhileSaving = {}
      PROVE  /\ g.unearned = {}
             /\ TeamEarns(b, t) /\ \A x \in Teams : x # t => TeamEarns(g, x)
             /\ \A c \in Clients \ {} : IF g.team[c] = t THEN TeeEarns(b, c) ELSE TeeEarns(g, c)
  <2>1. Ranks(g, {})
    BY <1>0, <1>8 DEF Inv
  <2>2. TeamEarns(b, t)
    BY <1>2, <1>4 DEF TeamEarns
  <2>3. ASSUME NEW c \in Clients, g.team[c] = t PROVE TeeEarns(b, c)
    <3>1. TeeEarns(g, c)
      BY <2>1 DEF Ranks
    <3>2. g.result[t].kind # "save"
      BY <1>0, ResultsAre
    <3> QED BY <1>0, <1>4, <2>3, <3>1, <3>2 DEF TeeEarns
  <2> QED BY <2>1, <2>2, <2>3 DEF Ranks
<1>9. Sound(g)
  BY <1>0 DEF Inv
<1>10. Inv(b, {})
  BY <1>0, <1>3, <1>6, <1>7, <1>8, <1>9, InvResult
<1> QED BY <1>4, <1>10 DEF Good, b, v, X

\* Those a result is for.
Those(r) == IF r.kind = "save" THEN DOMAIN r.save.tees ELSE r.who

\* The database has saved the game, or failed.
LEMMA GoodAnswer ==
  ASSUME NEW g, Good(g), NEW t \in Teams, g.result[t] # NoResult, g.result[t].answer = "none",
         NEW a \in {"ok", "failed"}, a = "ok" => g.result[t].kind = "save"
  PROVE  Good([g EXCEPT !.result[t].answer = a])
<1> DEFINE r == g.result[t]
           v == [r EXCEPT !.answer = a]
           h == [g EXCEPT !.result[t] = v]
<1>0. g \in Games /\ Inv(g, {}) /\ t \in AllTeams /\ r \in Results
  BY GamesFields, FlockIn DEF Good, Fields
<1>1. [g EXCEPT !.result[t].answer = a] = h
  OBVIOUS
<1> HIDE DEF r
<1>2. r # NoResult /\ r.answer = "none" /\ (a = "ok" => r.kind = "save")
  BY DEF r
<1>3. /\ r.kind \in {"save", "load"} /\ r.left \in SUBSET Clients
      /\ r.kind = "save" => r.save \in Saves /\ r.answer \in {"none", "ok", "failed"}
           /\ r = [kind |-> "save", answer |-> r.answer, save |-> r.save, left |-> r.left]
      /\ r.kind = "load" => /\ r.who \in SUBSET Clients
           /\ \/ /\ r.answer \in {"none", "failed"}
                 /\ r = [kind |-> "load", answer |-> r.answer, who |-> r.who,
                         left |-> r.left]
              \/ /\ r.answer = "ok" /\ r.save \in Saves
                 /\ r = [kind |-> "load", answer |-> "ok", who |-> r.who,
                         save |-> r.save, left |-> r.left]
  BY <1>0, <1>2, ResultKinds
<1>4. /\ v \in Results /\ v # NoResult /\ v.kind = r.kind /\ v.left = r.left
      /\ v.kind = "save" => v.save = r.save
      /\ v.kind = "load" => v.answer # "ok" /\ v.who = r.who
  <2>1. CASE r.kind = "save"
    <3>1. v = [kind |-> "save", answer |-> a, save |-> r.save, left |-> r.left]
      BY <1>3, <2>1
    <3> HIDE DEF v
    <3>2. v \in Results
      BY <1>3, <2>1, <3>1 DEF Results
    <3> QED BY <2>1, <3>1, <3>2, ResultsAre
  <2>2. CASE r.kind = "load"
    <3>1. v = [kind |-> "load", answer |-> "failed", who |-> r.who, left |-> r.left]
      BY <1>2, <1>3, <2>2
    <3> HIDE DEF v
    <3>2. v \in Results
      BY <1>3, <2>2, <3>1 DEF Results
    <3> QED BY <2>2, <3>1, <3>2, ResultsAre
  <2> QED BY <1>3, <2>1, <2>2
<1> HIDE DEF v
<1>5. OneResult(g, t, v, h)
  BY <1>0, <1>4, ResultDoes
<1>6. ASSUME "spectate" \notin WhileSaving PROVE Kept(h, t)
  <2>1. Kept(g, t)
    BY <1>0, <1>6 DEF Inv, AllKept
  <2>2. h.result[t] = v /\ Members(h, t) = Members(g, t)
    BY <1>5 DEF OneResult, Members
  <2>3. Members(g, t) = Those(r) \ r.left
    BY <1>2, <2>1 DEF Kept, Those, r
  <2>4. Those(v) = Those(r)
    BY <1>3, <1>4 DEF Those
  <2> QED BY <1>4, <2>2, <2>3, <2>4 DEF Kept, Those
<1> HIDE DEF h
<1>7. Good(h)
  BY <1>2, <1>4, <1>5, <1>6, GoodSameResult DEF r
<1> QED BY <1>1, <1>7

\* The database has found the game.
LEMMA GoodLoaded ==
  ASSUME NEW g, Good(g), NEW t \in Teams, g.result[t] # NoResult, g.result[t].kind = "load",
         NEW s \in Saves, WhileSaving = {} => Honest(s)
  PROVE  Good([g EXCEPT !.result[t] =
           [kind |-> "load", answer |-> "ok", who |-> g.result[t].who, save |-> s,
            left |-> g.result[t].left]])
<1> DEFINE r == g.result[t]
           v == [kind |-> "load", answer |-> "ok", who |-> r.who, save |-> s, left |-> r.left]
           h == [g EXCEPT !.result[t] = v]
<1>0. g \in Games /\ Inv(g, {}) /\ t \in AllTeams /\ r \in Results
  BY GamesFields, FlockIn DEF Good, Fields
<1> HIDE DEF r
<1>1. r # NoResult /\ r.kind = "load"
  BY DEF r
<1>2. r.left \in SUBSET Clients /\ r.who \in SUBSET Clients
  BY <1>0, <1>1, ResultKinds
<1>3. /\ v \in Results /\ v # NoResult /\ v.kind = "load" /\ v.left = r.left /\ v.who = r.who
      /\ v.save = s
  BY <1>2, ResultsAre DEF Results
<1> HIDE DEF v
<1>4. OneResult(g, t, v, h)
  BY <1>0, <1>3, ResultDoes
<1>5. ASSUME "spectate" \notin WhileSaving PROVE Kept(h, t)
  <2>1. Kept(g, t)
    BY <1>0, <1>5 DEF Inv, AllKept
  <2>2. h.result[t] = v /\ Members(h, t) = Members(g, t)
    BY <1>4 DEF OneResult, Members
  <2> QED BY <1>1, <1>3, <2>1, <2>2 DEF Kept, r
<1> HIDE DEF h
<1>6. Good(h)
  BY <1>1, <1>3, <1>4, <1>5, GoodSameResult DEF r
<1> QED BY <1>6 DEF h, v, r

\* The answer has been dealt with.
LEMMA GoodClear ==
  ASSUME NEW g, Good(g), NEW t \in Teams, g.result[t] # NoResult,
         g.result[t].kind = "load" \/ Members(g, t) = {}
  PROVE  Good([g EXCEPT !.result[t] = NoResult])
<1> DEFINE h == [g EXCEPT !.result[t] = NoResult]
<1>0. g \in Games /\ Inv(g, {}) /\ t \in AllTeams /\ t # Flock
  BY FlockIn DEF Good
<1>1. OneResult(g, t, NoResult, h)
  BY <1>0, ResultDoes, ResultsAre
<1> HIDE DEF h
<1>2. /\ h \in Games /\ h.team = g.team
      /\ h.state = g.state /\ h.flock = g.flock
      /\ h.practice = g.practice /\ h.result[t] = NoResult
      /\ h.body = g.body /\ h.race = g.race /\ h.merit = g.merit
      /\ h.started = g.started /\ h.finished = g.finished
  BY <1>1 DEF OneResult, SameTees
<1>3. \A c \in Clients \ {} : IF g.team[c] = t THEN Resting(h, c) ELSE Resting(g, c)
  BY <1>0, <1>2 DEF Inv, Rest, Resting
<1>4. "spectate" \notin WhileSaving => Kept(h, t) /\ \A x \in Teams : x # t => Kept(g, x)
  BY <1>0, <1>2 DEF Inv, AllKept, Kept
<1>5. ASSUME WhileSaving = {}
      PROVE  /\ g.unearned = {}
             /\ TeamEarns(h, t) /\ \A x \in Teams : x # t => TeamEarns(g, x)
             /\ \A c \in Clients \ {} : IF g.team[c] = t THEN TeeEarns(h, c) ELSE TeeEarns(g, c)
  <2>1. Ranks(g, {})
    BY <1>0, <1>5 DEF Inv
  <2>2. TeamEarns(g, t)
    BY <2>1 DEF Ranks
  <2>3. TeamEarns(h, t)
    BY <1>2, <2>2, ResultsAre DEF TeamEarns
  <2>4. ASSUME NEW c \in Clients, g.team[c] = t PROVE TeeEarns(h, c)
    <3>1. TeeEarns(g, c)
      BY <2>1 DEF Ranks
    <3>2. g.result[t].kind = "load" /\ g.state[t] = "open"
      BY <2>2, <2>4 DEF TeamEarns, Members
    <3>3. ~g.started[c] /\ ~g.finished[c]
      BY <1>0, <2>4, <3>1, <3>2 DEF TeeEarns
    <3> QED BY <1>0, <1>2, <2>2, <2>4, <3>1, <3>2, <3>3 DEF TeeEarns, TeamEarns
  <2> QED BY <2>1, <2>3, <2>4 DEF Ranks
<1>6. Sound(g)
  BY <1>0 DEF Inv
<1>7. Inv(h, {})
  BY <1>0, <1>1, <1>3, <1>4, <1>5, <1>6, InvResult
<1> QED BY <1>2, <1>7 DEF Good, h

\* What Load does.
Loaded(g, t, save, h) ==
  LET back == Members(g, t) \cap DOMAIN save.tees
  IN  /\ h \in Games /\ h.team = g.team /\ h.unearned = g.unearned
      /\ h.flock = g.flock /\ h.killTick = g.killTick /\ h.result = g.result
      /\ h.state[t] = "started" /\ h.locked[t] = save.locked /\ h.practice[t] = FALSE
      /\ \A x \in AllTeams : x # t => /\ h.state[x] = g.state[x] /\ h.locked[x] = g.locked[x]
                                      /\ h.practice[x] = g.practice[x]
      /\ \A c \in Clients :
           IF c \in back
           THEN LET s == save.tees[c]
                IN  /\ h.body[c] = "alive" /\ h.race[c] = s.race /\ h.merit[c] = s.merit
                    /\ h.started[c] = s.started /\ h.finished[c] = s.finished
           ELSE /\ h.body[c] = g.body[c] /\ h.race[c] = g.race[c] /\ h.merit[c] = g.merit[c]
                /\ h.started[c] = g.started[c] /\ h.finished[c] = g.finished[c]

\* CSaveTeam::Load, field by field.
LEMMA LoadDoes ==
  ASSUME NEW g \in Games, NEW t \in AllTeams, NEW save \in Saves
  PROVE  Loaded(g, t, save, Load(g, t, save))
<1> DEFINE back == Members(g, t) \cap DOMAIN save.tees
           body == [c \in Clients |-> IF c \in back THEN "alive" ELSE g.body[c]]
           race == [c \in Clients |-> IF c \in back THEN save.tees[c].race ELSE g.race[c]]
           started == [c \in Clients |-> IF c \in back THEN save.tees[c].started ELSE g.started[c]]
           finished == [c \in Clients |-> IF c \in back THEN save.tees[c].finished
                                          ELSE g.finished[c]]
           merit == [c \in Clients |-> IF c \in back THEN save.tees[c].merit ELSE g.merit[c]]
           h == Load(g, t, save)
<1>1. h = [g EXCEPT !.state[t] = "started", !.locked[t] = save.locked, !.practice[t] = FALSE,
             !.body = body, !.race = race, !.started = started, !.finished = finished,
             !.merit = merit]
  BY DEF Load
<1>2. save.locked \in BOOLEAN /\ \A c \in back : save.tees[c] \in SavedTees
  BY DEF Saves
<1>3. Fields(g)
  BY GamesFields
<1> HIDE DEF back
<1>4. /\ body \in [Clients -> {"out", "dead", "alive"}]
      /\ race \in [Clients -> {"none", "started", "finished"}]
      /\ merit \in [Clients -> Merits]
  <2>1. body \in [Clients -> {"out", "dead", "alive"}]
    BY <1>3 DEF Fields
  <2>2. race \in [Clients -> {"none", "started", "finished"}]
    BY <1>2, <1>3 DEF Fields, SavedTees
  <2>3. merit \in [Clients -> Merits]
    BY <1>2, <1>3 DEF Fields, SavedTees
  <2> QED BY <2>1, <2>2, <2>3
<1>5. started \in [Clients -> BOOLEAN] /\ finished \in [Clients -> BOOLEAN]
  <2>1. started \in [Clients -> BOOLEAN]
    BY <1>2, <1>3 DEF Fields, SavedTees
  <2>2. finished \in [Clients -> BOOLEAN]
    BY <1>2, <1>3 DEF Fields, SavedTees
  <2> QED BY <2>1, <2>2
<1>6. /\ \A c \in Clients : /\ body[c] = IF c \in back THEN "alive" ELSE g.body[c]
                            /\ race[c] = IF c \in back THEN save.tees[c].race ELSE g.race[c]
                            /\ merit[c] = IF c \in back THEN save.tees[c].merit ELSE g.merit[c]
      /\ \A c \in Clients :
           /\ started[c] = IF c \in back THEN save.tees[c].started ELSE g.started[c]
           /\ finished[c] = IF c \in back THEN save.tees[c].finished ELSE g.finished[c]
  OBVIOUS
<1> HIDE DEF body, race, merit, started, finished, h
<1>7. h \in Games
  BY <1>1, <1>2, <1>4, <1>5, TheStates DEF Games, StatesSet
<1>8. /\ h.team = g.team /\ h.unearned = g.unearned
      /\ h.flock = g.flock /\ h.killTick = g.killTick /\ h.result = g.result
  BY <1>1 DEF Games
<1>9. /\ h.state = [g.state EXCEPT ![t] = "started"]
      /\ h.locked = [g.locked EXCEPT ![t] = save.locked]
      /\ h.practice = [g.practice EXCEPT ![t] = FALSE]
  BY <1>1 DEF Games
<1>10. h.body = body /\ h.race = race /\ h.merit = merit
  BY <1>1 DEF Games
<1>11. h.started = started /\ h.finished = finished
  BY <1>1 DEF Games
<1>12. /\ h.state[t] = "started" /\ h.locked[t] = save.locked /\ h.practice[t] = FALSE
       /\ \A x \in AllTeams : x # t => /\ h.state[x] = g.state[x] /\ h.locked[x] = g.locked[x]
                                       /\ h.practice[x] = g.practice[x]
  BY <1>3, <1>9 DEF Fields
<1> QED BY <1>6, <1>7, <1>8, <1>10, <1>11, <1>12 DEF Loaded, back, h

\* A loaded team is as it was saved, and so has earned what it has.
LEMMA GoodLoad ==
  ASSUME NEW g, Good(g), NEW t \in Teams, g.result[t] # NoResult, Members(g, t) # {},
         NEW save \in Saves, WhileSaving = {} => Honest(save),
         g.result[t].kind = "save" => save = g.result[t].save
  PROVE  Good([Load(g, t, save) EXCEPT !.result[t] = NoResult])
<1> DEFINE h == Load(g, t, save)
           k == [h EXCEPT !.result[t] = NoResult]
           back == Members(g, t) \cap DOMAIN save.tees
<1>0. g \in Games /\ Inv(g, {}) /\ Fields(g) /\ t \in AllTeams /\ t # Flock
  BY GamesFields, FlockIn DEF Good
<1>1. Loaded(g, t, save, h)
  BY <1>0, LoadDoes
<1> HIDE DEF h
<1>2. h \in Games
  BY <1>1 DEF Loaded
<1>3. OneResult(h, t, NoResult, k)
  BY <1>0, <1>2, ResultDoes, ResultsAre
<1> HIDE DEF k
<1>4. /\ h.team = g.team /\ h.unearned = g.unearned
      /\ h.flock = g.flock /\ h.killTick = g.killTick /\ h.result = g.result
      /\ h.state[t] = "started" /\ h.practice[t] = FALSE
      /\ \A x \in AllTeams : x # t => /\ h.state[x] = g.state[x] /\ h.locked[x] = g.locked[x]
                                      /\ h.practice[x] = g.practice[x]
  BY <1>1 DEF Loaded
<1>5. \A c \in Clients :
        IF c \in back
        THEN LET s == save.tees[c]
             IN  /\ h.body[c] = "alive" /\ h.race[c] = s.race /\ h.merit[c] = s.merit
                 /\ h.started[c] = s.started /\ h.finished[c] = s.finished
        ELSE /\ h.body[c] = g.body[c] /\ h.race[c] = g.race[c] /\ h.merit[c] = g.merit[c]
             /\ h.started[c] = g.started[c] /\ h.finished[c] = g.finished[c]
  BY <1>1 DEF Loaded
<1>6. /\ k \in Games /\ k.team = h.team
      /\ k.state = h.state /\ k.flock = h.flock
      /\ k.practice = h.practice /\ k.result[t] = NoResult
      /\ k.body = h.body /\ k.race = h.race /\ k.merit = h.merit
      /\ k.started = h.started /\ k.finished = h.finished
  BY <1>3 DEF OneResult, SameTees
<1>7. \A c \in Clients : g.team[c] # t => c \notin back
  BY DEF Members
<1>8. \A c \in Clients : g.team[c] \in AllTeams
  BY <1>0 DEF Fields
<1>9. Sound(h)
  <2>1. FlockOK(h)
    BY <1>0, <1>4, FlockIn DEF Inv, Sound, FlockOK
  <2>2. ASSUME NEW x \in Teams PROVE EmptyOK(h, x)
    <3>1. EmptyOK(g, x) /\ x \in AllTeams /\ Members(h, x) = Members(g, x)
      BY <1>0, <1>4, FlockIn DEF Inv, Sound, Members
    <3>2. CASE x = t
      BY <1>4, <3>1, <3>2 DEF EmptyOK
    <3>3. CASE x # t
      BY <1>4, <3>1, <3>3 DEF EmptyOK
    <3> QED BY <3>2, <3>3
  <2> QED BY <2>1, <2>2 DEF Sound
<1> HIDE DEF back
<1>10. ASSUME NEW c \in Clients, g.team[c] # t
       PROVE  /\ h.state[g.team[c]] = g.state[g.team[c]]
              /\ h.practice[g.team[c]] = g.practice[g.team[c]]
              /\ h.body[c] = g.body[c] /\ h.race[c] = g.race[c] /\ h.merit[c] = g.merit[c]
              /\ h.started[c] = g.started[c] /\ h.finished[c] = g.finished[c]
  BY <1>4, <1>5, <1>7, <1>8, <1>10
<1>11. \A c \in Clients \ {} : IF h.team[c] = t THEN Resting(k, c) ELSE Resting(h, c)
  <2> SUFFICES ASSUME NEW c \in Clients
               PROVE  IF h.team[c] = t THEN Resting(k, c) ELSE Resting(h, c)
    OBVIOUS
  <2>1. Resting(g, c)
    BY <1>0 DEF Inv, Rest
  <2>2. CASE g.team[c] = t
    BY <1>4, <1>6, <2>2 DEF Resting
  <2>3. CASE g.team[c] # t
    BY <1>4, <1>10, <2>1, <2>3 DEF Resting
  <2> QED BY <2>2, <2>3
<1>12. "spectate" \notin WhileSaving => Kept(k, t) /\ \A x \in Teams : x # t => Kept(h, x)
  BY <1>0, <1>4, <1>6 DEF Inv, AllKept, Kept, Members
<1>13. ASSUME WhileSaving = {}
       PROVE  /\ h.unearned = {}
              /\ TeamEarns(k, t) /\ \A x \in Teams : x # t => TeamEarns(h, x)
              /\ \A c \in Clients \ {} : IF h.team[c] = t THEN TeeEarns(k, c) ELSE TeeEarns(h, c)
  <2>1. Ranks(g, {}) /\ Kept(g, t)
    BY <1>0, <1>13 DEF Inv, AllKept
  <2>2. TeamEarns(g, t)
    BY <2>1 DEF Ranks
  <2>3. ~g.flock[t] /\ ~g.practice[t]
    BY <2>2 DEF TeamEarns
  <2>4. TeamEarns(k, t)
    BY <1>4, <1>6, <2>3, ResultsAre DEF TeamEarns
  <2>5. ASSUME NEW x \in Teams, x # t PROVE TeamEarns(h, x)
    <3>1. TeamEarns(g, x) /\ x \in AllTeams
      BY <2>1, FlockIn DEF Ranks
    <3> QED BY <1>4, <2>5, <3>1 DEF TeamEarns, Members
  <2>6. ASSUME NEW c \in Clients, g.team[c] = t PROVE TeeEarns(k, c)
    <3>1. /\ k.team[c] = t /\ k.state[t] = "started" /\ ~k.flock[t] /\ k.result[t] = NoResult
      BY <1>4, <1>6, <2>3, <2>6
    <3>2. CASE c \in back
      <4>1. /\ k.body[c] = "alive" /\ k.merit[c] = save.tees[c].merit
            /\ k.started[c] = save.tees[c].started /\ k.finished[c] = save.tees[c].finished
        BY <1>5, <1>6, <3>2
      <4>2. /\ k.merit[c] # "practised"
            /\ k.started[c] \/ k.finished[c] => k.merit[c] = "crossed"
        BY <1>13, <3>2, <4>1 DEF Honest, back
      <4> QED BY <1>0, <3>1, <4>1, <4>2 DEF TeeEarns
    <3>3. CASE c \notin back
      <4>1. /\ k.body[c] = g.body[c] /\ k.race[c] = g.race[c] /\ k.merit[c] = g.merit[c]
            /\ k.started[c] = g.started[c] /\ k.finished[c] = g.finished[c]
        BY <1>5, <1>6, <3>3
      <4>2. c \in Members(g, t) /\ c \notin DOMAIN save.tees
        BY <2>6, <3>3 DEF Members, back
      <4>3. g.result[t].kind # "save"
        BY <2>1, <4>2 DEF Kept
      <4>4. g.result[t].kind = "load"
        BY <1>0, <4>3, ResultKinds DEF Fields
      <4>5. g.state[t] = "open" /\ TeeEarns(g, c)
        BY <2>1, <2>2, <4>2, <4>4 DEF TeamEarns, Ranks
      <4>6. ~g.started[c] /\ ~g.finished[c] /\ (g.body[c] = "alive" => g.merit[c] # "practised")
        BY <1>0, <2>3, <2>6, <4>5 DEF TeeEarns
      <4> QED BY <1>0, <2>6, <3>1, <4>1, <4>5, <4>6 DEF TeeEarns
    <3> QED BY <3>2, <3>3
  <2>7. ASSUME NEW c \in Clients, g.team[c] # t PROVE TeeEarns(h, c)
    <3>1. TeeEarns(g, c)
      BY <2>1 DEF Ranks
    <3> QED BY <1>4, <1>10, <2>7, <3>1 DEF TeeEarns
  <2> QED BY <1>4, <2>1, <2>4, <2>5, <2>6, <2>7 DEF Ranks
<1>14. Inv(k, {})
  BY <1>2, <1>3, <1>9, <1>11, <1>12, <1>13, InvResult
<1> QED BY <1>6, <1>14 DEF Good, k, h

\* The games on the way to the end of ResetSavedTeam.
Resetting(t, g) ==
  {p \in ClientSets \X Games :
     /\ Sound(p[2]) /\ Rest(p[2], {}) /\ p[2].result = g.result
     /\ "spectate" \notin WhileSaving => \A x \in Teams : x # t => Kept(p[2], x)
     /\ WhileSaving = {} => Ranks(p[2], {})
     /\ \A d \in p[1] : p[2].team[d] # t}

\* A saved team goes to team 0.
LEMMA GoodReset ==
  ASSUME NEW g, Good(g), NEW t \in Teams, g.result[t] # NoResult
  PROVE  Good([ResetSavedTeam(g, t) EXCEPT !.result[t] = NoResult])
<1> DEFINE r == ResetSavedTeam(g, t)
           k == [r EXCEPT !.result[t] = NoResult]
<1>0. g \in Games /\ Inv(g, {}) /\ t \in AllTeams /\ t # Flock
  BY FlockIn DEF Good
<1>1. FoldsTo(TurnReset(t), g, r)
  BY <1>0, ResetFolds
<1>2. <<{}, g>> \in Resetting(t, g)
  BY <1>0 DEF Inv, AllKept, Resetting, ClientSets
<1>3. ASSUME NEW R \in ClientSets, NEW c \in Clients \ R, NEW h \in Games,
             <<R, h>> \in Resetting(t, g)
      PROVE  <<R \cup {c}, TurnReset(t)[<<h, c>>]>> \in Resetting(t, g)
  <2> DEFINE n == TurnReset(t)[<<h, c>>]
  <2>1. n = IF h.team[c] = t THEN SetForceCharacterTeam(h, c, Flock) ELSE h
    BY DEF TurnReset
  <2>2. /\ Sound(h) /\ Rest(h, {}) /\ h.result = g.result
        /\ "spectate" \notin WhileSaving => \A x \in Teams : x # t => Kept(h, x)
        /\ WhileSaving = {} => Ranks(h, {})
        /\ \A d \in R : h.team[d] # t
    BY <1>3 DEF Resetting
  <2>3. R \cup {c} \in ClientSets
    BY DEF ClientSets
  <2> HIDE DEF n
  <2>4. CASE h.team[c] = t
    <3>1. Forced(h, c, Flock, n)
      BY <2>1, <2>4, ForceDoes, FlockIn
    <3>2. /\ n \in Games /\ n.team = [h.team EXCEPT ![c] = Flock] /\ n.result = g.result
      BY <2>2, <3>1 DEF Forced
    <3>3. \A d \in Clients : n.team[d] = IF d = c THEN Flock ELSE h.team[d]
      BY <3>2, GamesFields DEF Fields
    <3>4. Sound(n) /\ Rest(n, {} \ {c}) /\ {} \ {c} = {}
      BY <2>2, <3>1, FlockIn, SoundForce, RestForce
    <3>5. ASSUME "spectate" \notin WhileSaving, NEW x \in Teams, x # t PROVE Kept(n, x)
      <4>1. Members(n, x) = Members(h, x)
        BY <2>4, <3>3, <3>5, FlockIn DEF Members
      <4>2. Kept(h, x)
        BY <2>2, <3>5
      <4> QED BY <2>2, <3>2, <4>1, <4>2 DEF Kept
    <3>6. ASSUME WhileSaving = {} PROVE Ranks(n, {})
      <4>1. Ranks(h, {}) /\ TeamEarns(h, t) /\ TeeEarns(h, c)
        BY <2>2, <3>6 DEF Ranks
      <4>2. ~h.practice[t]
        BY <2>2, <4>1 DEF TeamEarns
      <4>3. /\ h.body[c] = "alive" => h.merit[c] # "practised"
            /\ h.body[c] # "alive" => h.merit[c] = "none" /\ h.race[c] = "none"
        BY <2>4, <4>1, <4>2 DEF TeeEarns
      <4>4. h.body[c] = "alive" => h.race[c] # "started"
        BY <1>0, <2>2, <2>4 DEF Rest, Resting
      <4>5. ~GetSaving(h, Flock)
        BY DEF GetSaving
      <4>6. Ranks(n, {} \ {c})
        BY <2>2, <3>1, <4>1, <4>3, <4>4, <4>5, FlockIn, RanksForce
      <4> QED BY <3>4, <4>6
    <3>7. \A d \in R \cup {c} : n.team[d] # t
      BY <1>0, <2>2, <3>3 DEF ClientSets
    <3> QED BY <2>3, <3>2, <3>4, <3>5, <3>6, <3>7 DEF Resetting, n
  <2>5. CASE h.team[c] # t
    BY <2>1, <2>2, <2>3, <2>5 DEF Resetting, n
  <2> QED BY <2>4, <2>5
<1>4. Keeps(TurnReset(t), Resetting(t, g))
  BY <1>3 DEF Keeps
<1> HIDE DEF r
<1>5. <<Clients, r>> \in Resetting(t, g)
  BY <1>1, <1>2, <1>4, FoldKeeps
<1>6. /\ r \in Games /\ Sound(r) /\ Rest(r, {}) /\ r.result = g.result
      /\ "spectate" \notin WhileSaving => \A x \in Teams : x # t => Kept(r, x)
      /\ WhileSaving = {} => Ranks(r, {})
      /\ \A d \in Clients : r.team[d] # t
  BY <1>5 DEF Resetting
<1>7. OneResult(r, t, NoResult, k)
  BY <1>0, <1>6, ResultDoes, ResultsAre
<1> HIDE DEF k
<1>8. k \in Games /\ k.result[t] = NoResult /\ k.flock = r.flock /\ k.practice = r.practice
      /\ k.state = r.state
  BY <1>7 DEF OneResult
<1>9. \A c \in Clients \ {} : IF r.team[c] = t THEN Resting(k, c) ELSE Resting(r, c)
  BY <1>6 DEF Rest
<1>10. "spectate" \notin WhileSaving => Kept(k, t) /\ \A x \in Teams : x # t => Kept(r, x)
  BY <1>6, <1>8 DEF Kept
<1>11. ASSUME WhileSaving = {}
       PROVE  /\ r.unearned = {}
              /\ TeamEarns(k, t) /\ \A x \in Teams : x # t => TeamEarns(r, x)
              /\ \A c \in Clients \ {} : IF r.team[c] = t THEN TeeEarns(k, c) ELSE TeeEarns(r, c)
  <2>1. Ranks(r, {}) /\ TeamEarns(r, t)
    BY <1>6, <1>11 DEF Ranks
  <2>2. TeamEarns(k, t)
    BY <1>8, <2>1, ResultsAre DEF TeamEarns
  <2> QED BY <1>6, <2>1, <2>2 DEF Ranks
<1>12. Inv(k, {})
  BY <1>6, <1>7, <1>9, <1>10, <1>11, InvResult
<1> QED BY <1>8, <1>12 DEF Good, k, r

----------------------------------------------------------------------------
(* The invariant of the specification, one call at a time.                 *)

StateInv ==
  /\ Good(game) /\ stored \in SUBSET Saves
  /\ WhileSaving = {} => \A s \in stored : Honest(s)

\* A call keeps the invariant if what it computes does.
LEMMA BecomesGood ==
  ASSUME NEW g, Good(g), Becomes(g)
  PROVE  Good(game')
<1>1. game' = Marked(g)
  BY DEF Becomes, Marked
<1> QED BY <1>1, GoodMarked

\* Likewise with the saved games unchanged.
LEMMA OnlyGood ==
  ASSUME StateInv, NEW g, Good(g), Only(g)
  PROVE  StateInv'
<1>1. Good(game') /\ stored' = stored
  BY BecomesGood DEF Only
<1> QED BY <1>1 DEF StateInv

\* At first nobody is in the game and every team is empty.
LEMMA InitGood == Init => StateInv
<1> SUFFICES ASSUME Init PROVE StateInv
  OBVIOUS
<1> DEFINE g == game
<1>1. /\ g.team = [c \in Clients |-> Flock] /\ g.body = [c \in Clients |-> "out"]
      /\ g.race = [c \in Clients |-> "none"]
      /\ g.started = [c \in Clients |-> FALSE] /\ g.finished = [c \in Clients |-> FALSE]
      /\ g.state = [t \in AllTeams |-> "empty"]
  BY DEF Init
<1>2. /\ g.locked = [t \in AllTeams |-> FALSE] /\ g.flock = [t \in AllTeams |-> FALSE]
      /\ g.practice = [t \in AllTeams |-> FALSE] /\ g.killTick = [t \in AllTeams |-> FALSE]
      /\ g.result = [t \in AllTeams |-> NoResult]
      /\ g.merit = [c \in Clients |-> "none"] /\ g.unearned = {}
  BY DEF Init
<1>3. "empty" \in StatesSet /\ NoResult \in Results
  BY TheStates, ResultsAre
<1>4. g \in Games
  <2>1. g = [team |-> g.team, body |-> g.body, race |-> g.race, started |-> g.started,
             finished |-> g.finished, state |-> g.state, locked |-> g.locked,
             flock |-> g.flock, practice |-> g.practice, killTick |-> g.killTick,
             result |-> g.result, merit |-> g.merit, unearned |-> g.unearned]
    BY DEF Init
  <2> HIDE DEF g
  <2>2. /\ g.team \in [Clients -> AllTeams] /\ g.body \in [Clients -> {"out", "dead", "alive"}]
        /\ g.race \in [Clients -> {"none", "started", "finished"}]
        /\ g.started \in [Clients -> BOOLEAN] /\ g.finished \in [Clients -> BOOLEAN]
        /\ g.merit \in [Clients -> Merits] /\ g.unearned \in SUBSET Clients
    BY <1>1, <1>2, FlockIn DEF Merits
  <2>3. /\ g.state \in [AllTeams -> StatesSet]
        /\ g.locked \in [AllTeams -> BOOLEAN] /\ g.flock \in [AllTeams -> BOOLEAN]
        /\ g.practice \in [AllTeams -> BOOLEAN] /\ g.killTick \in [AllTeams -> BOOLEAN]
        /\ g.result \in [AllTeams -> Results]
    BY <1>1, <1>2, <1>3
  <2> QED BY <2>1, <2>2, <2>3 DEF Games, StatesSet
<1> HIDE DEF g
<1>5. Sound(g)
  <2>1. FlockOK(g)
    BY <1>1, <1>2, FlockIn DEF FlockOK
  <2>2. ASSUME NEW t \in Teams PROVE EmptyOK(g, t)
    BY <1>1, <1>2, FlockIn DEF EmptyOK, Members
  <2> QED BY <2>1, <2>2 DEF Sound
<1>6. Rest(g, {})
  BY <1>1 DEF Rest, Resting
<1>7. AllKept(g)
  BY <1>2, FlockIn DEF AllKept, Kept
<1>8. Ranks(g, {})
  <2>1. ASSUME NEW t \in Teams PROVE TeamEarns(g, t)
    BY <1>2, FlockIn, ResultsAre DEF TeamEarns
  <2>2. ASSUME NEW c \in Clients PROVE TeeEarns(g, c)
    BY <1>1, <1>2, FlockIn, ResultsAre DEF TeeEarns
  <2> QED BY <1>2, <2>1, <2>2 DEF Ranks
<1>9. Good(game)
  BY <1>4, <1>5, <1>6, <1>7, <1>8 DEF Inv, Good, g
<1> QED BY <1>9 DEF StateInv, Init

\* A player comes, spawns, dies, crosses the start and the finish.
LEMMA EnterStep ==
  ASSUME StateInv, NEW c \in Clients, Enter(c)
  PROVE  StateInv'
<1>1. Good([game EXCEPT !.body[c] = "dead"])
  BY GoodBody DEF StateInv, Enter
<1> QED BY <1>1, OnlyGood DEF Enter

\* The race a tee takes over is that of a mate, the last by id.
LEMMA SpawnStep ==
  ASSUME StateInv, NEW c \in Clients, Spawn(c)
  PROVE  StateInv'
<1> DEFINE placed == SpawnPlaced(game, c)
           u == placed.team[c]
           mates == Playing(placed, u) \ {c}
           race == IF placed.locked[u] /\ ~placed.flock[u] /\ mates # {}
                   THEN placed.race[CHOOSE m \in mates : \A n \in mates : n <= m] ELSE "none"
<1>1. game.body[c] = "dead" /\ Only([placed EXCEPT !.race[c] = race])
  BY DEF Spawn, SpawnPlaced
<1>2. Good(game)
  BY DEF StateInv
<1>3. /\ placed \in Games /\ Inv(placed, {c})
      /\ \/ placed = [game EXCEPT !.body[c] = "alive"]
         \/ placed.team[c] = Flock /\ Inv(placed, {})
  BY <1>1, <1>2, InvPlaced
<1> HIDE DEF placed
<1>4. race = "none" \/ /\ placed.locked[u] /\ ~placed.flock[u]
                       /\ \E m \in Playing(placed, u) \ {c} : race = placed.race[m]
  <2>1. CASE placed.locked[u] /\ ~placed.flock[u] /\ mates # {}
    <3>1. mates \in ClientSets /\ mates # {}
      BY <2>1 DEF Playing, Members, ClientSets
    <3>2. \E m \in mates : \A n \in mates : n <= m
      BY <3>1, HasMost
    <3>3. (CHOOSE m \in mates : \A n \in mates : n <= m) \in mates
      BY <3>2
    <3> QED BY <2>1, <3>3
  <2> QED BY <2>1
<1> HIDE DEF race
<1>5. Good([placed EXCEPT !.race[c] = race])
  BY <1>1, <1>2, <1>3, <1>4, GoodSpawn
<1> QED BY <1>1, <1>5, OnlyGood

\* /kill.
LEMMA KillStep ==
  ASSUME StateInv, NEW c \in Clients, Kill(c)
  PROVE  StateInv'
<1>1. Good(game)
  BY DEF StateInv
<1>2. Good(Die(game, c, "world"))
  BY <1>1, InvDie, DieGames DEF Good
<1> QED BY <1>2, OnlyGood DEF Kill

\* The start tile kills while the team is saved or loaded.
LEMMA StartStep ==
  ASSUME StateInv, NEW c \in Clients, StartTile(c)
  PROVE  StateInv'
<1>1. Good(game)
  BY DEF StateInv
<1>2. CASE GetSaving(game, game.team[c])
  <2>1. Good(Die(game, c, "world"))
    BY <1>1, InvDie, DieGames DEF Good
  <2> QED BY <1>2, <2>1, OnlyGood DEF StartTile
<1>3. CASE ~GetSaving(game, game.team[c])
  <2>1. Good(OnCharacterStart(game, c))
    BY <1>1, <1>3, GoodStart DEF StartTile
  <2> QED BY <1>3, <2>1, OnlyGood DEF StartTile
<1> QED BY <1>2, <1>3

\* The finish tile.
LEMMA FinishStep ==
  ASSUME StateInv, NEW c \in Clients, FinishTile(c)
  PROVE  StateInv'
<1> DEFINE t == game.team[c]
           g == IF t = Flock \/ game.flock[t] THEN OnFinish(game, {c})
                ELSE CheckTeamFinished([game EXCEPT !.finished[c] = @ \/ game.started[c]], t)
<1>1. Good(g) /\ Only(g)
  BY GoodFinish DEF StateInv, FinishTile
<1> QED BY <1>1, OnlyGood

\* A player leaves the game.
LEMMA SpectateStep ==
  ASSUME StateInv, NEW c \in Clients, Spectate(c)
  PROVE  StateInv'
<1>1. Good(game) /\ game.body[c] # "out" /\ game.team[c] \in AllTeams
  BY GamesFields DEF StateInv, Spectate, Good, Fields
<1>2. CASE game.body[c] = "dead"
  <2>1. Good([game EXCEPT !.body[c] = "out"])
    BY <1>1, <1>2, GoodBody
  <2> QED BY <1>2, <2>1, OnlyGood DEF Spectate
<1>3. CASE game.body[c] # "dead"
  <2> DEFINE t == game.team[c]
             died == IF GetSaving(game, t) THEN game
                     ELSE [DieAlone(game, c, "game") EXCEPT !.body[c] = "alive"]
             out == CheckTeamFinished(SetForceCharacterTeam(died, c, Flock), died.team[c])
             gone == DieAlone(out, c, "game")
             last == [Left(gone, t, c) EXCEPT !.body[c] = "out"]
  <2>1. GetSaving(game, t) => "spectate" \in WhileSaving
    BY DEF Spectate
  <2>2. Only(last)
    BY <1>3 DEF Spectate
  <2>3. game.body[c] \in {"out", "dead", "alive"}
    BY <1>1, GamesFields DEF Good, Fields
  <2>4. game.body[c] = "alive"
    BY <1>1, <1>3, <2>3
  <2>5. Good(gone) /\ gone.body[c] = "dead" /\ gone.result = game.result
    BY <1>1, <2>1, <2>4, GoodSpectate
  <2> HIDE DEF gone
  <2>6. GetSaving(gone, t) => "spectate" \in WhileSaving
    BY <2>1, <2>5 DEF GetSaving
  <2>7. Good(last)
    BY <1>1, <2>5, <2>6, GoodSpectateLeft
  <2> HIDE DEF last
  <2> QED BY <2>2, <2>7, OnlyGood
<1> QED BY <1>2, <1>3

\* OnPlayerDisconnect.
LEMMA DisconnectStep ==
  ASSUME StateInv, NEW c \in Clients, Disconnect(c)
  PROVE  StateInv'
<1> DEFINE died == IF game.body[c] = "alive" THEN Die(game, c, "game") ELSE game
           out == SetForceCharacterTeam(died, c, Flock)
           last == [Left(out, game.team[c], c) EXCEPT !.body[c] = "out"]
<1>1. Good(last)
  BY GoodDisconnect DEF StateInv
<1>2. Only(last)
  BY DEF Disconnect
<1> HIDE DEF last
<1> QED BY <1>1, <1>2, OnlyGood

\* Commands.
LEMMA JoinStep ==
  ASSUME StateInv, NEW c \in Clients, NEW t \in AllTeams, JoinTeam(c, t)
  PROVE  StateInv'
<1>1. Good(SetForceCharacterTeam(game, c, t)) /\ Only(SetForceCharacterTeam(game, c, t))
  BY GoodJoin DEF StateInv, JoinTeam
<1> QED BY <1>1, OnlyGood

\* /lock and /unlock.
LEMMA LockStep ==
  ASSUME StateInv, NEW t \in Teams, NEW lock \in BOOLEAN, Lock(t, lock)
  PROVE  StateInv'
<1>1. Good([game EXCEPT !.locked[t] = lock]) /\ Only([game EXCEPT !.locked[t] = lock])
  BY GoodLock DEF StateInv, Lock
<1> QED BY <1>1, OnlyGood

\* /team0mode.
LEMMA Team0ModeStep ==
  ASSUME StateInv, NEW t \in Teams, Team0Mode(t)
  PROVE  StateInv'
<1>1. /\ Good(game) /\ game.state[t] = "open"
      /\ WhileSaving = {} => ~GetSaving(game, t)
      /\ game.flock[t] \/ ~game.practice[t]
  BY DEF StateInv, Team0Mode
<1>2. Good([game EXCEPT !.flock[t] = ~@])
  BY <1>1, GoodTeam0Mode
<1>3. Only([game EXCEPT !.flock[t] = ~@])
  BY DEF Team0Mode
<1> QED BY <1>2, <1>3, OnlyGood

\* /practice.
LEMMA PracticeStep ==
  ASSUME StateInv, NEW t \in Teams, Practice(t)
  PROVE  StateInv'
<1>1. /\ Good(game) /\ TRUE \in BOOLEAN
      /\ Members(game, t) # {} /\ ~game.flock[t] /\ ~GetSaving(game, t)
  BY DEF StateInv, Practice
<1>2. Good([game EXCEPT !.practice[t] = TRUE])
  BY <1>1, GoodPractice
<1> QED BY <1>2, OnlyGood DEF Practice

\* /unpractice.
LEMMA UnpracticeStep ==
  ASSUME StateInv, NEW t \in Teams, Unpractice(t)
  PROVE  StateInv'
<1>1. Good([KillTeam(game, t) EXCEPT !.practice[t] = FALSE])
  BY GoodUnpractice DEF StateInv
<1>2. Only([KillTeam(game, t) EXCEPT !.practice[t] = FALSE])
  BY DEF Unpractice
<1> QED BY <1>1, <1>2, OnlyGood

\* The clock of a team that cannot finish.
LEMMA TickStep ==
  ASSUME StateInv, NEW t \in Teams, Tick(t)
  PROVE  StateInv'
<1>1. Good([game EXCEPT !.killTick[t] = FALSE]) /\ Good(KillTeam(game, t))
  BY GoodKillTick, GoodKillTeam DEF StateInv
<1>2. Only([game EXCEPT !.killTick[t] = FALSE]) \/ Only(KillTeam(game, t))
  BY DEF Tick
<1> QED BY <1>1, <1>2, OnlyGood

\* Saving and loading.
LEMMA SaveStep ==
  ASSUME StateInv, NEW t \in Teams, SaveTeam(t)
  PROVE  StateInv'
<1> DEFINE g == KillTeam([game EXCEPT !.result[t] =
             [kind |-> "save", answer |-> "none", save |-> SaveOf(game, t), left |-> {}]], t)
<1>1. Only(g)
  BY DEF SaveTeam
<1>2. /\ Good(game) /\ Members(game, t) # {} /\ ~GetSaving(game, t)
      /\ ~game.practice[t] /\ ~game.flock[t] /\ game.state[t] = "started"
      /\ Playing(game, t) = Members(game, t)
  BY DEF StateInv, SaveTeam
<1>3. Good(g)
  BY <1>2, GoodSave
<1> HIDE DEF g
<1> QED BY <1>1, <1>3, OnlyGood

\* CScore::LoadTeam.
LEMMA LoadStep ==
  ASSUME StateInv, NEW t \in Teams, LoadTeam(t)
  PROVE  StateInv'
<1> DEFINE g == [game EXCEPT !.result[t] =
             [kind |-> "load", answer |-> "none", who |-> Members(game, t), left |-> {}]]
<1>1. Only(g)
  BY DEF LoadTeam
<1>2. /\ Good(game) /\ ~GetSaving(game, t)
      /\ ~game.practice[t] /\ ~game.flock[t] /\ game.state[t] = "open"
  BY DEF StateInv, LoadTeam
<1>3. Good(g)
  BY <1>2, GoodLoadBegun
<1> HIDE DEF g
<1> QED BY <1>1, <1>3, OnlyGood

\* What a result under way says of the save in it.
LEMMA ResultGood ==
  ASSUME StateInv, NEW t \in Teams, game.result[t] # NoResult
  PROVE  LET r == game.result[t]
         IN  /\ r.kind \in {"save", "load"}
             /\ r.kind = "save" \/ r.answer = "ok" =>
                  r.save \in Saves /\ (WhileSaving = {} => Honest(r.save))
<1> DEFINE r == game.result[t]
<1>1. r \in Results /\ r # NoResult
  BY GamesFields, FlockIn DEF StateInv, Good, Fields
<1>2. WhileSaving = {} => TeamEarns(game, t)
  BY DEF StateInv, Good, Inv, Ranks
<1>3. WhileSaving = {} /\ (r.kind = "save" \/ (r.kind = "load" /\ r.answer = "ok"))
        => Honest(r.save)
  BY <1>2 DEF TeamEarns
<1> HIDE DEF r
<1>4. /\ r.kind \in {"save", "load"}
      /\ r.kind = "save" => r.save \in Saves
      /\ r.kind = "load" => r.answer \in {"none", "failed"} \/ (r.answer = "ok" /\ r.save \in Saves)
  BY <1>1, ResultKinds
<1> QED BY <1>3, <1>4 DEF r

\* What the database stores is what a team has earned.
LEMMA AnswerStep ==
  ASSUME StateInv, NEW t \in Teams, Answer(t)
  PROVE  StateInv'
<1> DEFINE r == game.result[t]
           Loading(s) == [game EXCEPT !.result[t] =
             [kind |-> "load", answer |-> "ok", who |-> r.who, save |-> s, left |-> r.left]]
<1>1. Good(game) /\ r # NoResult /\ r.answer = "none"
  BY DEF StateInv, Answer
<1>2. CASE /\ r.kind = "save" /\ stored' = stored \cup {r.save}
           /\ Becomes([game EXCEPT !.result[t].answer = "ok"])
  <2>1. Good([game EXCEPT !.result[t].answer = "ok"])
    BY <1>1, <1>2, GoodAnswer
  <2>2. Good(game')
    BY <1>2, <2>1, BecomesGood
  <2>3. r.save \in Saves /\ (WhileSaving = {} => Honest(r.save))
    BY <1>1, <1>2, ResultGood
  <2> QED BY <1>2, <2>2, <2>3 DEF StateInv
<1>3. ASSUME NEW s \in stored, r.kind = "load", stored' = stored \ {s}, Becomes(Loading(s))
      PROVE  StateInv'
  <2>1. s \in Saves /\ (WhileSaving = {} => Honest(s))
    BY <1>3 DEF StateInv
  <2>2. Good(Loading(s))
    BY <1>1, <1>3, <2>1, GoodLoaded
  <2> HIDE DEF Loading
  <2>3. Good(game')
    BY <1>3, <2>2, BecomesGood
  <2> QED BY <1>3, <2>3 DEF StateInv
<1>4. CASE Only([game EXCEPT !.result[t].answer = "failed"])
  <2>1. Good([game EXCEPT !.result[t].answer = "failed"])
    BY <1>1, GoodAnswer
  <2> QED BY <1>4, <2>1, OnlyGood
<1> QED BY <1>2, <1>3, <1>4 DEF Answer

\* ProcessSaveTeam, after a save, a load, or neither.
LEMMA ProcessStep ==
  ASSUME StateInv, NEW t \in Teams, ProcessSaveTeam(t)
  PROVE  StateInv'
<1> DEFINE r == game.result[t]
           Cleared(h) == [h EXCEPT !.result[t] = NoResult]
<1>1. Good(game) /\ r # NoResult
  BY DEF StateInv, ProcessSaveTeam
<1>2. CASE r.kind = "save" /\ r.answer = "ok"
  <2>1. Good(Cleared(ResetSavedTeam(game, t)))
    BY <1>1, GoodReset
  <2>2. Only(Cleared(ResetSavedTeam(game, t)))
    BY <1>2 DEF ProcessSaveTeam
  <2> QED BY <2>1, <2>2, OnlyGood
<1>3. CASE /\ ~(r.kind = "save" /\ r.answer = "ok")
           /\ Members(game, t) # {} /\ (r.kind = "save" \/ r.answer = "ok")
  <2>1. r.save \in Saves /\ (WhileSaving = {} => Honest(r.save))
    BY <1>1, <1>3, ResultGood
  <2>2. Good(Cleared(Load(game, t, r.save)))
    BY <1>1, <1>3, <2>1, GoodLoad
  <2>3. Only(Cleared(Load(game, t, r.save)))
    BY <1>3 DEF ProcessSaveTeam
  <2> QED BY <2>2, <2>3, OnlyGood
<1>4. CASE /\ ~(r.kind = "save" /\ r.answer = "ok")
           /\ ~(Members(game, t) # {} /\ (r.kind = "save" \/ r.answer = "ok"))
  <2>1. r.kind = "load" \/ Members(game, t) = {}
    BY <1>1, <1>4, ResultGood
  <2>2. Good(Cleared(game))
    BY <1>1, <2>1, GoodClear
  <2>3. Only(Cleared(game))
    BY <1>4 DEF ProcessSaveTeam
  <2> QED BY <2>2, <2>3, OnlyGood
<1> QED BY <1>2, <1>3, <1>4

\* Every call keeps the invariant.
LEMMA NextGood == StateInv /\ [Next]_vars => StateInv'
<1> SUFFICES ASSUME StateInv, [Next]_vars PROVE StateInv'
  OBVIOUS
<1>1. ASSUME NEW c \in Clients,
             \/ Enter(c) \/ Spawn(c) \/ Kill(c) \/ StartTile(c) \/ FinishTile(c)
             \/ Spectate(c) \/ Disconnect(c)
             \/ \E t \in AllTeams : JoinTeam(c, t)
      PROVE  StateInv'
  BY <1>1, EnterStep, SpawnStep, KillStep, StartStep, FinishStep, SpectateStep,
     DisconnectStep, JoinStep
<1>2. ASSUME NEW t \in Teams,
             \/ \E lock \in BOOLEAN : Lock(t, lock)
             \/ Team0Mode(t) \/ Practice(t) \/ Unpractice(t) \/ Tick(t)
             \/ SaveTeam(t) \/ LoadTeam(t) \/ Answer(t) \/ ProcessSaveTeam(t)
      PROVE  StateInv'
  BY <1>2, LockStep, Team0ModeStep, PracticeStep, UnpracticeStep, TickStep, SaveStep,
     LoadStep, AnswerStep, ProcessStep
<1>3. CASE UNCHANGED vars
  BY <1>3 DEF vars, StateInv
<1> QED BY <1>1, <1>2, <1>3 DEF Next

\* The invariant holds of every game that the calls lead to.
THEOREM StateInvHolds == Spec => []StateInv
  BY InitGood, NextGood, PTL DEF Spec

----------------------------------------------------------------------------
(* The properties that the runs check.                                     *)

\* The teams and tees have their types, whatever the clients call.
THEOREM TypesOK == Spec => []TypeOK
<1>1. StateInv => TypeOK
  BY DEF StateInv, Good, TypeOK
<1> QED BY <1>1, StateInvHolds, PTL

\* A team is empty exactly if it has no members, and then it has no lock, mode or
\* practice for the next to come: SetForceCharacterTeam is the only way in and
\* out of a team, and no other function gives a team without members anything.
THEOREM EmptyTeams == Spec => []EmptyHasNoMembers
<1>1. StateInv => EmptyHasNoMembers
  BY DEF StateInv, Good, Inv, Sound, EmptyOK, EmptyHasNoMembers
<1> QED BY <1>1, StateInvHolds, PTL

\* No tee races in a team that is saved or loaded, so that a run is never both in
\* the save and in the game.
THEOREM SavedRuns == Spec => []SavedRunIsOver
<1>1. StateInv => SavedRunIsOver
  <2> SUFFICES ASSUME StateInv, NEW t \in Teams, game.result[t] # NoResult,
                      NEW c \in Playing(game, t)
               PROVE  game.race[c] # "started"
    BY DEF SavedRunIsOver
  <2>1. Resting(game, c) /\ c \in Clients /\ game.team[c] = t /\ game.body[c] = "alive"
    BY DEF StateInv, Good, Inv, Rest, Playing, Members
  <2> QED BY <2>1, FlockIn DEF Resting
<1> QED BY <1>1, StateInvHolds, PTL

\* A team that is saved or loaded keeps its members, all but those who leave the
\* game, unless they become spectators meanwhile.
THEOREM SavedTeams ==
  ASSUME "spectate" \notin WhileSaving
  PROVE  Spec => []SavedTeamKept
<1>1. StateInv => SavedTeamKept
  BY DEF StateInv, Good, Inv, AllKept, Kept, SavedTeamKept
<1> QED BY <1>1, StateInvHolds, PTL

\* Every rank is earned, if the members neither become spectators nor change the
\* mode of the team while it is saved or loaded.
THEOREM RanksAreEarned ==
  ASSUME WhileSaving = {}
  PROVE  Spec => []RanksEarned
<1>1. StateInv => RanksEarned
  BY DEF StateInv, Good, Inv, Ranks, RanksEarned
<1> QED BY <1>1, StateInvHolds, PTL
=============================================================================
