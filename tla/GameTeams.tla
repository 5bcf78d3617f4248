----------------------------- MODULE GameTeams -----------------------------
(***************************************************************************)
(* Teams of a race, and saving them: src/game/server/teams.cpp with its    *)
(* callers (the start, finish and unlock tiles, deaths, spawns, chat       *)
(* commands) and CScore::SaveTeam, LoadTeam, CSaveTeam.  The handlers call *)
(* each other in mid-change, so the game is one record and each function   *)
(* an operator from games to games; an action is one call from outside.    *)
(*                                                                         *)
(* With sv_team 1 and no practice by default; the super team, /swap and    *)
(* the rcon command that forces a tee into a team are not modelled.        *)
(***************************************************************************)
EXTENDS Integers, FiniteSets, FiniteSetsExt

CONSTANTS
  Clients,      \* client ids
  Teams,        \* team numbers, but for team 0
  MaxTeamSize,  \* sv_max_team_size
  SvRejoinTeam0,
  MaxSaves,     \* bound: saved games in the database
  WhileSaving   \* what members do while their team is saved or loaded

Flock == 0
AllTeams == Teams \cup {Flock}

ASSUME TeamsAssumption ==
  /\ Clients \subseteq Nat /\ IsFiniteSet(Clients)
  /\ Teams \subseteq Nat \ {Flock}
  /\ SvRejoinTeam0 \in BOOLEAN
  /\ WhileSaving \subseteq {"spectate", "team0mode"}

VARIABLES
  game,     \* the teams and tees
  stored    \* the saved games in the database

vars == <<game, stored>>

NoResult == [kind |-> "none"]

\* ETeamState, in its order.
TeamStates == <<"empty", "open", "started", "unfinishable", "finished">>
Before(s1, s2) == \E i, j \in DOMAIN TeamStates :
                    i < j /\ TeamStates[i] = s1 /\ TeamStates[j] = s2

\* History: whether the tee has crossed the start since it spawned, unless it has
\* been in a practising team.
Merits == {"none", "crossed", "practised"}

\* A saved tee, with what the history says of it; a saved team has started and
\* does not practise.
SavedTees == [started : BOOLEAN, finished : BOOLEAN, race : {"none", "started", "finished"},
              merit : Merits]
Saves == [locked : BOOLEAN, tees : UNION {[S -> SavedTees] : S \in (SUBSET Clients) \ {{}}}]

\* m_apSaveTeamResult[Team]: of /save with the game saved, of /load with the
\* members at that time, and later the game loaded. `left` is a history: members
\* that have disconnected or become spectators since.
Results == {NoResult}
  \cup [kind : {"save"}, answer : {"none", "ok", "failed"}, save : Saves, left : SUBSET Clients]
  \cup [kind : {"load"}, answer : {"none", "failed"}, who : SUBSET Clients, left : SUBSET Clients]
  \cup [kind : {"load"}, answer : {"ok"}, who : SUBSET Clients, save : Saves, left : SUBSET Clients]

\* `unearned` is a history: the tees that got a rank without the merit.
Games ==
  [team : [Clients -> AllTeams],
   body : [Clients -> {"out", "dead", "alive"}],        \* no player or spectator; no character
   race : [Clients -> {"none", "started", "finished"}], \* m_DDRaceState of the character
   started : [Clients -> BOOLEAN], finished : [Clients -> BOOLEAN],
   state : [AllTeams -> {TeamStates[i] : i \in DOMAIN TeamStates}],
   locked : [AllTeams -> BOOLEAN], flock : [AllTeams -> BOOLEAN],
   practice : [AllTeams -> BOOLEAN],
   killTick : [AllTeams -> BOOLEAN],                    \* m_aTeamUnfinishableKillTick is set
   result : [AllTeams -> Results],
   merit : [Clients -> Merits],
   unearned : SUBSET Clients]

TypeOK == game \in Games /\ stored \in SUBSET Saves

Members(g, t) == {c \in Clients : g.team[c] = t}
Playing(g, t) == {c \in Members(g, t) : g.body[c] = "alive"}
GetSaving(g, t) == t # Flock /\ g.result[t] # NoResult

\* Do changes the game for each client, in the order of their ids.
ForEach(Do(_, _), g) ==
  MapThenFoldSet(LAMBDA c, h : Do(h, c), g, LAMBDA c : c, Max, Clients)

Init ==
  /\ game \in [team : {[c \in Clients |-> Flock]},
               body : {[c \in Clients |-> "out"]},
               race : {[c \in Clients |-> "none"]},
               started : {[c \in Clients |-> FALSE]}, finished : {[c \in Clients |-> FALSE]},
               state : {[t \in AllTeams |-> "empty"]},
               locked : {[t \in AllTeams |-> FALSE]}, flock : {[t \in AllTeams |-> FALSE]},
               practice : {[t \in AllTeams |-> FALSE]},
               killTick : {[t \in AllTeams |-> FALSE]},
               result : {[t \in AllTeams |-> NoResult]},
               merit : {[c \in Clients |-> "none"]},
               unearned : {{}}]
  /\ stored = {}

----------------------------------------------------------------------------
(* The functions of CGameTeams that call each other.                       *)

\* Seeded bug: an emptied team keeps its lock.
ForceKeepsLock(g, c, t) ==
  LET old == g.team[c]
      emptied == t # old /\ old # Flock /\ g.state[old] # "empty" /\ Members(g, old) = {c}
      moved == [g EXCEPT !.started[c] = FALSE, !.finished[c] = FALSE, !.team[c] = t]
      reset == IF ~emptied THEN moved
               ELSE [moved EXCEPT !.state[old] = "empty", !.flock[old] = FALSE,
                       !.practice[old] = FALSE, !.killTick[old] = FALSE]
  IN  IF reset.state[t] = "empty" /\ ~reset.locked[t]
      THEN [reset EXCEPT !.state[t] = "open"] ELSE reset

\* SetForceCharacterTeam: the last to leave empties the team, though not its
\* result; the first to join opens it.
SetForceCharacterTeam(g, c, t) ==
  LET old == g.team[c]
      emptied == t # old /\ old # Flock /\ g.state[old] # "empty" /\ Members(g, old) = {c}
      moved == [g EXCEPT !.started[c] = FALSE, !.finished[c] = FALSE, !.team[c] = t]
      reset == IF ~emptied THEN moved
               ELSE [moved EXCEPT !.state[old] = "empty", !.locked[old] = FALSE,
                       !.flock[old] = FALSE, !.practice[old] = FALSE, !.killTick[old] = FALSE]
  IN  IF reset.state[t] = "empty" /\ ~reset.locked[t]
      THEN [reset EXCEPT !.state[t] = "open"] ELSE reset

\* OnFinish: a rank for each tee.
OnFinish(g, S) ==
  [g EXCEPT !.race = [c \in Clients |-> IF c \in S THEN "finished" ELSE @[c]],
            !.unearned = @ \cup {c \in S : g.merit[c] # "crossed"}]

TeamFinished(g, t) == g.state[t] = "started" /\ \A c \in Members(g, t) : g.finished[c]

\* CheckTeamFinished and OnTeamFinish: the members with a character get their
\* rank, unless the team practises, and go back to team 0.
CheckTeamFinished(g, t) ==
  LET S == Playing(g, t)
      done == [g EXCEPT
        !.started = [c \in Clients |-> @[c] /\ c \notin S],
        !.finished = [c \in Clients |-> @[c] /\ c \notin S],
        !.race = [c \in Clients |-> IF c \in S THEN "finished" ELSE @[c]],
        !.state[t] = "finished"]
      ToFlock(h, c) == IF c \in S THEN SetForceCharacterTeam(h, c, Flock) ELSE h
  IN  IF ~TeamFinished(g, t) \/ S = {} THEN g
      ELSE IF g.practice[t] THEN done
      ELSE IF g.locked[t] \/ ~SvRejoinTeam0 THEN OnFinish(done, S)
      ELSE ForEach(ToFlock, OnFinish(done, S))

\* CCharacter::Die, and OnCharacterDeath but for the kill of a locked team.
DieAlone(g, c, weapon) ==
  LET t == g.team[c]
      dead == [g EXCEPT !.body[c] = "dead", !.race[c] = "none", !.merit[c] = "none"]
      again == SetForceCharacterTeam(dead, c, t)
      lost == IF g.state[t] = "started" /\ ~g.started[c] /\ ~g.flock[t]
              THEN [dead EXCEPT !.state[t] = "unfinishable", !.killTick[t] = TRUE]
              ELSE dead
  IN  IF GetSaving(g, t) THEN dead
      ELSE IF g.locked[t] /\ weapon # "game"
      THEN IF g.state[t] # "open" /\ ~g.flock[t]
           THEN [again EXCEPT !.state[t] = "open", !.practice[t] = FALSE] ELSE again
      ELSE CheckTeamFinished(SetForceCharacterTeam(lost, c, Flock), t)

\* OnCharacterDeath: a death in a locked team that has started kills the others,
\* in a team that is open by then.
Die(g, c, weapon) ==
  LET t == g.team[c]
      alone == DieAlone(g, c, weapon)
      disbanded == Cardinality(Members(alone, t)) > MaxTeamSize
      Kill(h, d) == IF h.team[d] = t /\ h.body[d] = "alive" THEN DieAlone(h, d, "self") ELSE h
  IN  IF \/ GetSaving(g, t) \/ ~g.locked[t] \/ weapon = "game"
         \/ g.state[t] = "open" \/ g.flock[t]
      THEN alone
      ELSE ForEach(Kill, [alone EXCEPT !.locked[t] = @ /\ ~disbanded])

KillTeam(g, t) ==
  LET Kill(h, c) == IF h.team[c] = t /\ h.body[c] = "alive" THEN Die(h, c, "self") ELSE h
  IN  ForEach(Kill, g)

----------------------------------------------------------------------------
(* Calls from outside.                                                     *)

\* The game changes to g; whoever is alive in a practising team has practised.
Becomes(g) ==
  game' = [g EXCEPT !.merit = [c \in Clients |->
             IF g.body[c] = "alive" /\ g.practice[g.team[c]] THEN "practised" ELSE @[c]]]

Only(g) == Becomes(g) /\ UNCHANGED stored

\* A player connects or joins the game from the spectators.
Enter(c) ==
  /\ game.body[c] = "out"
  /\ Only([game EXCEPT !.body[c] = "dead"])

\* CCharacter::Spawn: OnCharacterSpawn, then DDRaceInit, which takes the race of
\* the last teammate that has one in a locked team.
Spawn(c) ==
  LET t == game.team[c]
      alive == [game EXCEPT !.body[c] = "alive"]
      placed == IF GetSaving(game, t) \/ game.locked[t] THEN alive
                ELSE LET out == SetForceCharacterTeam(alive, c, Flock)
                     IN  IF out.flock[t] THEN out ELSE CheckTeamFinished(out, t)
      mates == Playing(placed, placed.team[c]) \ {c}
      race == IF placed.locked[placed.team[c]] /\ ~placed.flock[placed.team[c]] /\ mates # {}
              THEN placed.race[CHOOSE m \in mates : \A n \in mates : n <= m] ELSE "none"
  IN  /\ game.body[c] = "dead"
      /\ Only([placed EXCEPT !.race[c] = race])

\* /kill, or a tile that kills.
Kill(c) == game.body[c] = "alive" /\ Only(Die(game, c, "world"))

\* OnCharacterStart: team 0 and teams in its mode race each for himself; a team
\* waits for a member that has finished, and starts as a whole.
OnCharacterStart(g, c) ==
  LET t == g.team[c]
      waiting == \E m \in Playing(g, t) : g.race[m] = "finished"
      crossed == [g EXCEPT !.started[c] = TRUE,
                           !.merit[c] = IF @ = "none" THEN "crossed" ELSE @]
      early == Before(g.state[t], "started")
  IN  IF t = Flock \/ g.flock[t]
      THEN [crossed EXCEPT !.race[c] = "started",
              !.state[t] = IF g.flock[t] /\ early THEN "started" ELSE @]
      ELSE IF g.race[c] = "finished" THEN g
      ELSE IF waiting THEN [g EXCEPT !.race[c] = "none"]
      ELSE IF early
      THEN [crossed EXCEPT !.state[t] = "started", !.killTick[t] = FALSE,
              !.race = [m \in Clients |-> IF m \in Playing(g, t) THEN "started" ELSE @[m]]]
      ELSE crossed

\* Seeded bug: a tee may start while its team is saved or loaded.
StartAnyway(c) ==
  /\ game.body[c] = "alive"
  /\ Only(OnCharacterStart(game, c))

\* HandleCharacterTiles on the start: not while the team is saved or loaded.
StartTile(c) ==
  /\ game.body[c] = "alive"
  /\ Only(IF GetSaving(game, game.team[c]) THEN Die(game, c, "world")
          ELSE OnCharacterStart(game, c))

\* HandleCharacterTiles on the finish, OnCharacterFinish. Time passes between
\* start and finish.
FinishTile(c) ==
  LET t == game.team[c]
  IN  /\ game.body[c] = "alive" /\ game.race[c] = "started"
      /\ Only(IF t = Flock \/ game.flock[t] THEN OnFinish(game, {c})
              ELSE CheckTeamFinished([game EXCEPT !.finished[c] = @ \/ game.started[c]], t))

\* CanJoinTeam.
CanJoinTeam(g, c, t) ==
  LET current == g.team[c]
  IN  /\ Before("open", g.state[t]) => g.practice[t] \/ g.flock[t]
      /\ current # t
      /\ g.body[c] = "alive"
      /\ g.race[c] # "none" => g.state[current] = "finished" /\ t = Flock
      /\ ~g.practice[current]
      /\ ~GetSaving(g, t)
      /\ ~GetSaving(g, current)

\* /team, AttemptJoinTeam. Into a locked team after an invitation, which a member
\* can give at any time.
JoinTeam(c, t) ==
  /\ \/ t = Flock \/ game.flock[t] \/ game.practice[t]
     \/ Cardinality(Members(game, t)) < MaxTeamSize
  /\ game.locked[t] => Members(game, t) # {}
  /\ CanJoinTeam(game, c, t)
  /\ Only(SetForceCharacterTeam(game, c, t))

\* /lock and /unlock; a tile unlocks as well.
Lock(t, lock) ==
  /\ Members(game, t) # {}
  /\ Only([game EXCEPT !.locked[t] = lock])

\* /team0mode.
Team0Mode(t) ==
  /\ Members(game, t) # {} /\ game.state[t] = "open"
  /\ GetSaving(game, t) => "team0mode" \in WhileSaving
  /\ IF game.flock[t] THEN Cardinality(Members(game, t)) <= MaxTeamSize
     ELSE ~game.practice[t]
  /\ Only([game EXCEPT !.flock[t] = ~@])

\* /practice, when enough members have voted.
Practice(t) ==
  /\ Members(game, t) # {}
  /\ ~game.flock[t] /\ ~game.practice[t] /\ ~GetSaving(game, t)
  /\ Only([game EXCEPT !.practice[t] = TRUE])

\* Seeded bug: practice ends before the team is killed.
UnpracticeFirst(t) ==
  /\ Members(game, t) # {}
  /\ game.practice[t] /\ ~GetSaving(game, t)
  /\ game.locked[t] => Cardinality(Members(game, t)) <= MaxTeamSize
  /\ Only(KillTeam([game EXCEPT !.practice[t] = FALSE], t))

\* /unpractice: the team is killed first.
Unpractice(t) ==
  /\ Members(game, t) # {}
  /\ game.practice[t] /\ ~GetSaving(game, t)
  /\ game.locked[t] => Cardinality(Members(game, t)) <= MaxTeamSize
  /\ Only([KillTeam(game, t) EXCEPT !.practice[t] = FALSE])

\* The member has left its team, says the history of the team's result.
Left(g, t, c) ==
  IF GetSaving(g, t) THEN [g EXCEPT !.result[t].left = @ \cup {c}] ELSE g

\* DoTeamChange to the spectators: a tee leaves its team, which may have finished
\* by that; a player without a character stays in it.
Spectate(c) ==
  LET t == game.team[c]
      died == IF GetSaving(game, t) THEN game
              ELSE LET d == DieAlone(game, c, "game") IN [d EXCEPT !.body[c] = "alive"]
      now == died.team[c]
      out == CheckTeamFinished(SetForceCharacterTeam(died, c, Flock), now)
      gone == DieAlone(out, c, "game")
  IN  /\ game.body[c] # "out"
      /\ GetSaving(game, t) => "spectate" \in WhileSaving
      /\ Only(IF game.body[c] = "dead" THEN [game EXCEPT !.body[c] = "out"]
              ELSE [Left(gone, t, c) EXCEPT !.body[c] = "out"])

\* OnPlayerDisconnect.
Disconnect(c) ==
  LET died == IF game.body[c] = "alive" THEN Die(game, c, "game") ELSE game
      out == SetForceCharacterTeam(died, c, Flock)
  IN  /\ game.body[c] # "out" \/ game.team[c] # Flock
      /\ Only([Left(out, game.team[c], c) EXCEPT !.body[c] = "out"])

\* Tick: a team that cannot finish is killed after a minute, unless it practises.
Tick(t) ==
  /\ game.killTick[t] /\ game.state[t] = "unfinishable"
  /\ Only(IF game.practice[t] THEN [game EXCEPT !.killTick[t] = FALSE] ELSE KillTeam(game, t))

----------------------------------------------------------------------------
(* Saving and loading.                                                     *)

\* CSaveTeam::Save of the members, who must all be alive.
SaveOf(g, t) ==
  [locked |-> g.locked[t],
   tees |-> [c \in Members(g, t) |->
     [started |-> g.started[c], finished |-> g.finished[c], race |-> g.race[c],
      merit |-> g.merit[c]]]]

\* Seeded bug: the team is killed before the result is set.
KillBeforeSaving(t) ==
  /\ Members(game, t) # {} /\ ~GetSaving(game, t) /\ ~game.practice[t]
  /\ ~game.flock[t] /\ game.state[t] = "started"
  /\ Playing(game, t) = Members(game, t)
  /\ Only([KillTeam(game, t) EXCEPT !.result[t] =
            [kind |-> "save", answer |-> "none", save |-> SaveOf(game, t), left |-> {}]])

\* CScore::SaveTeam: the result is set before the team is killed, so that the
\* dead stay in it.
SaveTeam(t) ==
  /\ Members(game, t) # {} /\ ~GetSaving(game, t) /\ ~game.practice[t]
  /\ ~game.flock[t] /\ game.state[t] = "started"
  /\ Playing(game, t) = Members(game, t)
  /\ Only(KillTeam([game EXCEPT !.result[t] =
            [kind |-> "save", answer |-> "none", save |-> SaveOf(game, t), left |-> {}]], t))

\* CScore::LoadTeam: the members are remembered by name.
LoadTeam(t) ==
  /\ Members(game, t) # {} /\ ~GetSaving(game, t) /\ ~game.practice[t]
  /\ ~game.flock[t] /\ game.state[t] = "open"
  /\ Only([game EXCEPT !.result[t] =
            [kind |-> "load", answer |-> "none", who |-> Members(game, t), left |-> {}]])

\* The database answers. A game is loaded for the tees it was saved with, all of
\* them, and deleted.
Answer(t) ==
  LET r == game.result[t]
  IN  /\ r # NoResult /\ r.answer = "none"
      /\ \/ /\ r.kind = "save" /\ Cardinality(stored) < MaxSaves
            /\ stored' = stored \cup {r.save}
            /\ Becomes([game EXCEPT !.result[t].answer = "ok"])
         \/ \E s \in stored :
              /\ r.kind = "load" /\ DOMAIN s.tees = r.who
              /\ stored' = stored \ {s}
              /\ Becomes([game EXCEPT !.result[t] =
                   [kind |-> "load", answer |-> "ok", who |-> r.who, save |-> s, left |-> r.left]])
         \/ Only([game EXCEPT !.result[t].answer = "failed"])

\* CSaveTeam::Load: the team is as it was, and so are its tees that are still
\* members, whatever they are now.
Load(g, t, save) ==
  LET back == Members(g, t) \cap DOMAIN save.tees
      Each(f(_), old) == [c \in Clients |-> IF c \in back THEN f(save.tees[c]) ELSE old[c]]
  IN  [g EXCEPT !.state[t] = "started", !.locked[t] = save.locked, !.practice[t] = FALSE,
         !.body = Each(LAMBDA s : "alive", @), !.race = Each(LAMBDA s : s.race, @),
         !.started = Each(LAMBDA s : s.started, @), !.finished = Each(LAMBDA s : s.finished, @),
         !.merit = Each(LAMBDA s : s.merit, @)]

\* ResetSavedTeam.
ResetSavedTeam(g, t) ==
  LET ToFlock(h, c) == IF h.team[c] = t THEN SetForceCharacterTeam(h, c, Flock) ELSE h
  IN  ForEach(ToFlock, g)

\* ProcessSaveTeam: a saved team is sent to team 0, one whose save failed is put
\* back into the game, and a loaded one into it.
ProcessSaveTeam(t) ==
  LET r == game.result[t]
      handled == IF r.kind = "save" /\ r.answer = "ok" THEN ResetSavedTeam(game, t)
                 ELSE IF Members(game, t) # {} /\ (r.kind = "save" \/ r.answer = "ok")
                 THEN Load(game, t, r.save) ELSE game
  IN  /\ r # NoResult /\ r.answer # "none"
      /\ Only([handled EXCEPT !.result[t] = NoResult])

Next ==
  \/ \E c \in Clients :
       \/ Enter(c) \/ Spawn(c) \/ Kill(c) \/ StartTile(c) \/ FinishTile(c)
       \/ Spectate(c) \/ Disconnect(c)
       \/ \E t \in AllTeams : JoinTeam(c, t)
  \/ \E t \in Teams :
       \/ \E lock \in BOOLEAN : Lock(t, lock)
       \/ Team0Mode(t) \/ Practice(t) \/ Unpractice(t) \/ Tick(t)
       \/ SaveTeam(t) \/ LoadTeam(t) \/ Answer(t) \/ ProcessSaveTeam(t)

Spec == Init /\ [][Next]_vars

----------------------------------------------------------------------------
(* Properties.                                                             *)

\* A rank is only given to a tee that has crossed the start since it spawned (or
\* had when it was saved), and has not been in a practising team: whatever the
\* order in which members start, practise, die, leave, save and load.
RanksEarned == game.unearned = {}

\* A team is EMPTY exactly if it has no members, whichever of the eight ways out
\* the last took: an empty team must be found by /team -1, and must not keep its
\* lock, mode or practice for the next to come.
EmptyHasNoMembers ==
  \A t \in Teams :
    /\ game.state[t] = "empty" <=> Members(game, t) = {}
    /\ game.state[t] = "empty" =>
         ~game.locked[t] /\ ~game.flock[t] /\ ~game.practice[t] /\ ~game.killTick[t]

\* While a team is saved or loaded it keeps its members, though they die, respawn
\* and run about: nobody joins, and nobody is missing but who left the game. So
\* the answer finds those it is for.
SavedTeamKept ==
  \A t \in Teams :
    LET r == game.result[t]
        those == IF r.kind = "save" THEN DOMAIN r.save.tees ELSE r.who
    IN  r # NoResult => Members(game, t) = those \ r.left

\* While a team is saved or loaded none of its tees races: its run is in the save
\* alone, or not there yet.
SavedRunIsOver ==
  \A t \in Teams : game.result[t] # NoResult =>
    \A c \in Playing(game, t) : game.race[c] # "started"
=============================================================================
