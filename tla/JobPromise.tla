----------------------------- MODULE JobPromise ----------------------------
(***************************************************************************)
(* What the job pool promises the owner of a job: a job that an open pool  *)
(* took runs exactly once, unless it can be aborted, and when the pool is  *)
(* closed no job waits or runs.  A pool that is closed refuses jobs.       *)
(***************************************************************************)
CONSTANTS Jobs,        \* the jobs
          Abortables   \* those that can be aborted

VARIABLES life,        \* where each job is
          open         \* the pool has been started and Shutdown did not return

vars == <<life, open>>

Init == /\ life = [j \in Jobs |-> "new"]
        /\ open = FALSE

Move(j, from, to) == /\ life[j] \in from
                     /\ life' = [life EXCEPT ![j] = to]
                     /\ UNCHANGED open

Take(j) == open /\ Move(j, {"new"}, "waiting")

Refuse(j) == ~open /\ Move(j, {"new"}, "refused")

Start(j) == Move(j, {"waiting"}, "running")

End(j) == Move(j, {"running"}, "over")

\* An abort before the job was started.
Drop(j) == j \in Abortables /\ Move(j, {"new", "waiting"}, "dropped")

Open == /\ ~open
        /\ open' = TRUE
        /\ UNCHANGED life

Close == /\ open
         /\ \A j \in Jobs : life[j] \notin {"waiting", "running"}
         /\ open' = FALSE
         /\ UNCHANGED life

Next == \/ Open \/ Close
        \/ \E j \in Jobs : Take(j) \/ Refuse(j) \/ Start(j) \/ End(j) \/ Drop(j)

Spec == Init /\ [][Next]_vars
=============================================================================
