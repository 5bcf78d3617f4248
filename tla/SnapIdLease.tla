---------------------------- MODULE SnapIdLease ----------------------------
(***************************************************************************)
(* What the snapshot id pool promises its users: an id has one holder at a *)
(* time, and after it was given back nobody gets it for more than Hold, so *)
(* that no client takes a new item for the old one.  A change of the map   *)
(* (TimeoutIds) makes every returned id available at once.                 *)
(***************************************************************************)
EXTENDS Integers

CONSTANTS Ids,      \* the ids of the pool
          Hold      \* how long a returned id rests

VARIABLES held,     \* the ids in the hands of the game
          freedAt,  \* when an id was given back; -1 when that no longer counts
          now       \* the clock

vars == <<held, freedAt, now>>

Rested(id) == freedAt[id] = -1 \/ freedAt[id] + Hold < now

Init == /\ held = {}
        /\ freedAt = [id \in Ids |-> -1]
        /\ now = 0

New(id) == /\ id \notin held /\ Rested(id)
           /\ held' = held \cup {id}
           /\ UNCHANGED <<freedAt, now>>

Free(id) == /\ id \in held
            /\ held' = held \ {id}
            /\ freedAt' = [freedAt EXCEPT ![id] = now]
            /\ UNCHANGED now

Forget(id) == /\ id \notin held
              /\ freedAt' = [freedAt EXCEPT ![id] = -1]
              /\ UNCHANGED <<held, now>>

Tick == /\ now' = now + 1
        /\ UNCHANGED <<held, freedAt>>

Next == Tick \/ \E id \in Ids : New(id) \/ Free(id) \/ Forget(id)

Spec == Init /\ [][Next]_vars
=============================================================================
