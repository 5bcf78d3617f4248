---------------------------- MODULE SnapIdPool -----------------------------
(***************************************************************************)
(* CSnapIdPool: the ids of snapshot items.  Two singly linked lists run    *)
(* through one array: the free ids, a stack, and the ids that were given   *)
(* back less than five seconds ago, a queue.  The loops of NewId and       *)
(* TimeoutIds are steps of their own, so that the links are the code's.    *)
(***************************************************************************)
EXTENDS Integers, FiniteSets

CONSTANTS MaxIds,    \* MAX_IDS, 32 * 1024
          Hold,      \* time_freq() * 5
          MaxTime    \* bound of the model: the clock stops there

\* m_Next is a short, which an index of the array must fit.
ASSUME PoolAssumption ==
  MaxIds \in 1 .. 32768 /\ Hold \in Nat /\ MaxTime \in Nat

Ids == 0 .. MaxIds - 1
Nil == -1

VARIABLES
  next, state, timeout,              \* m_aIds: m_Next, m_State, m_Timeout
  firstFree, firstTimed, lastTimed,  \* the heads of the lists and a tail
  usage, inUsage,                    \* m_Usage, m_InUsage
  call,                              \* the method with a loop in progress
  callNow,                           \* Now, read once by NewId
  now,                               \* time_get()
  held,                              \* history: ids in the hands of the game
  freedAt,                           \* history: when an id was given back
  refused                            \* history: the last NewId returned nullopt

lists == <<next, state, timeout, firstFree, firstTimed, lastTimed, usage>>
poolVars == <<lists, inUsage, call, callNow, now, held, freedAt, refused>>

PoolTypeOK ==
  /\ next \in [Ids -> Ids \cup {Nil}]
  /\ state \in [Ids -> {"free", "allocated", "timed"}]
  /\ timeout \in [Ids -> Nat]
  /\ firstFree \in Ids \cup {Nil}
  /\ firstTimed \in Ids \cup {Nil}
  /\ lastTimed \in Ids \cup {Nil}
  /\ usage \in Nat /\ inUsage \in Nat
  /\ call \in {"none", "NewId", "TimeoutIds"}
  /\ callNow \in Nat /\ now \in Nat
  /\ held \subseteq Ids
  /\ freedAt \in [Ids -> Nat \cup {-1}]
  /\ refused \in BOOLEAN

\* CSnapIdPool::Reset.
PoolInit ==
  /\ next = [id \in Ids |-> IF id = MaxIds - 1 THEN Nil ELSE id + 1]
  /\ state = [id \in Ids |-> "free"]
  /\ timeout = [id \in Ids |-> 0]
  /\ firstFree = 0 /\ firstTimed = Nil /\ lastTimed = Nil
  /\ usage = 0 /\ inUsage = 0
  /\ call = "none" /\ callNow = 0 /\ now = 0
  /\ held = {} /\ freedAt = [id \in Ids |-> -1] /\ refused = FALSE
-----------------------------------------------------------------------------
\* Seeded bug: the tail of the queue outlives the queue.
RemoveFirstTimeoutKeepsTail ==
  /\ next' = [next EXCEPT ![firstTimed] = firstFree]
  /\ state' = [state EXCEPT ![firstTimed] = "free"]
  /\ firstFree' = firstTimed
  /\ firstTimed' = next[firstTimed]
  /\ usage' = usage - 1
  /\ UNCHANGED <<timeout, lastTimed>>

\* CSnapIdPool::RemoveFirstTimeout.
RemoveFirstTimeout ==
  /\ next' = [next EXCEPT ![firstTimed] = firstFree]
  /\ state' = [state EXCEPT ![firstTimed] = "free"]
  /\ firstFree' = firstTimed
  /\ firstTimed' = next[firstTimed]
  /\ lastTimed' = IF next[firstTimed] = Nil THEN Nil ELSE lastTimed
  /\ usage' = usage - 1
  /\ UNCHANGED timeout

\* Seeded bug: the id is released a moment too early.
ExpiredEarly == firstTimed # Nil /\ timeout[firstTimed] <= callNow

\* The condition of NewId's loop.
Expired == firstTimed # Nil /\ timeout[firstTimed] < callNow

\* CSnapIdPool::NewId reads the clock, ...
NewId ==
  /\ call = "none"
  /\ call' = "NewId" /\ callNow' = now /\ refused' = FALSE
  /\ UNCHANGED <<lists, inUsage, now, held, freedAt>>

\* ... returns the expired ids to the free list, ...
NewIdExpire ==
  /\ call = "NewId" /\ Expired
  /\ RemoveFirstTimeout
  /\ UNCHANGED <<inUsage, call, callNow, now, held, freedAt, refused>>

\* ... and takes the first free id ...
NewIdTake ==
  /\ call = "NewId" /\ ~Expired /\ firstFree # Nil
  /\ firstFree' = next[firstFree]
  /\ state' = [state EXCEPT ![firstFree] = "allocated"]
  /\ usage' = usage + 1 /\ inUsage' = inUsage + 1
  /\ held' = held \cup {firstFree}
  /\ call' = "none"
  /\ UNCHANGED <<next, timeout, firstTimed, lastTimed, callNow, now, freedAt,
                 refused>>

\* ... or returns nullopt: the pool is exhausted.
NewIdRefuse ==
  /\ call = "NewId" /\ ~Expired /\ firstFree = Nil
  /\ call' = "none" /\ refused' = TRUE
  /\ UNCHANGED <<lists, inUsage, callNow, now, held, freedAt>>

\* CSnapIdPool::TimeoutIds, called when the map changes.
TimeoutIds ==
  /\ call = "none"
  /\ call' = "TimeoutIds" /\ refused' = FALSE
  /\ UNCHANGED <<lists, inUsage, callNow, now, held, freedAt>>

TimeoutIdsStep ==
  /\ call = "TimeoutIds"
  /\ \/ /\ firstTimed # Nil
        /\ RemoveFirstTimeout
        /\ freedAt' = [freedAt EXCEPT ![firstTimed] = -1]
        /\ UNCHANGED call
     \/ /\ firstTimed = Nil
        /\ call' = "none"
        /\ UNCHANGED <<lists, freedAt>>
  /\ UNCHANGED <<inUsage, callNow, now, held, refused>>

\* CSnapIdPool::FreeId of an id its caller holds.  That the id is allocated is
\* asserted by the code.
FreeId(id) ==
  /\ call = "none" /\ id \in held /\ state[id] = "allocated"
  /\ inUsage' = inUsage - 1
  /\ state' = [state EXCEPT ![id] = "timed"]
  /\ timeout' = [timeout EXCEPT ![id] = now + Hold]
  /\ next' = IF lastTimed = Nil THEN [next EXCEPT ![id] = Nil]
             ELSE [next EXCEPT ![id] = Nil, ![lastTimed] = id]
  /\ firstTimed' = IF lastTimed = Nil THEN id ELSE firstTimed
  /\ lastTimed' = id
  /\ held' = held \ {id}
  /\ freedAt' = [freedAt EXCEPT ![id] = now]
  /\ refused' = FALSE
  /\ UNCHANGED <<firstFree, usage, call, callNow, now>>

\* Time passes, within a call too.
Tick ==
  /\ now < MaxTime
  /\ now' = now + 1
  /\ UNCHANGED <<lists, inUsage, call, callNow, held, freedAt, refused>>

PoolNext ==
  \/ NewId \/ NewIdExpire \/ NewIdTake \/ NewIdRefuse
  \/ TimeoutIds \/ TimeoutIdsStep
  \/ \E id \in Ids : FreeId(id)
  \/ Tick

PoolSpec == PoolInit /\ [][PoolNext]_poolVars
-----------------------------------------------------------------------------
(* Properties.                                                             *)

\* The ids of the list that starts with first.
Listed(first) ==
  LET node[n \in Nat] ==
        IF n = 0 THEN first
        ELSE IF node[n - 1] = Nil THEN Nil ELSE next[node[n - 1]]
  IN {node[n] : n \in 0 .. MaxIds} \ {Nil}

\* No id is ever lost: the ids that are free or resting are those the two
\* lists hold, the game has the others, and the counters say how many.
NoIdLost ==
  /\ Listed(firstFree) = {id \in Ids : state[id] = "free"}
  /\ Listed(firstTimed) = {id \in Ids : state[id] = "timed"}
  /\ held = {id \in Ids : state[id] = "allocated"}
  /\ usage = Cardinality({id \in Ids : state[id] # "free"})
  /\ inUsage = Cardinality(held)

\* NewId returns nullopt only when every id is in use or still resting: it is
\* enough to look at the head of the queue.
RefusedWhenExhausted ==
  refused => \A id \in Ids : id \in held \/ callNow <= freedAt[id] + Hold

\* Every id is of use: it is in one place, and there it is found in time.
EveryIdServes == NoIdLost /\ RefusedWhenExhausted

\* The pool implements the lease: an id has one holder, and rests after it.
Lease == INSTANCE SnapIdLease
LeaseSpec == Lease!Spec
=============================================================================
