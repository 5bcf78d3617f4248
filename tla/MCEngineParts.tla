--------------------------- MODULE MCEngineParts ---------------------------
(***************************************************************************)
(* Three parts of the engine that call none of the others: the snapshot id *)
(* pool, the ring buffer and the job pool.  Each is checked by itself: the *)
(* part is chosen at the start, and only it takes steps.  The job pool has *)
(* three jobs, of which two can be aborted, and two worker threads.        *)
(***************************************************************************)
EXTENDS SnapIdPool, RingBuffer, JobPool

CONSTANTS download, lookup, save, w1, w2

MCJobs == {download, lookup, save}
MCAbortables == {download, lookup}
MCWorkers == {w1, w2}

VARIABLE part

vars == <<part, poolVars, ringVars, jobVars>>

Init ==
  /\ part \in {"ids", "ring", "jobs"}
  /\ PoolInit /\ RingInit /\ JobInit
  /\ part # "ring" => ~recycle

Next ==
  /\ UNCHANGED part
  /\ \/ part = "ids" /\ PoolNext /\ UNCHANGED <<ringVars, jobVars>>
     \/ part = "ring" /\ RingNext /\ UNCHANGED <<poolVars, jobVars>>
     \/ part = "jobs" /\ JobNext /\ UNCHANGED <<poolVars, ringVars>>

\* JobFairness holds of the other parts too: there nothing is enabled.
Spec == Init /\ [][Next]_vars /\ JobFairness

\* Every variable of the three keeps its type.
TypeOK == PoolTypeOK /\ RingTypeOK /\ JobTypeOK
=============================================================================
