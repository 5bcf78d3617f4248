--------------------------- MODULE JobPool_proofs ---------------------------
(***************************************************************************)
(* Proofs about JobPool, for any number of jobs and worker threads: no     *)
(* wakeup is lost, a finished job is finished, an abort is final, nothing  *)
(* is left behind by Shutdown, and the pool keeps its promise.             *)
(***************************************************************************)
EXTENDS JobPool, FiniteSetTheorems, SequenceTheorems, TLAPS

Busy == {"claim", "push", "run", "erase", "finish"}

InQueue(j) == \E i \in 1 .. Len(queue) : queue[i] = j
Held(j) == \E w \in Workers : job[w] = j

\* A worker holds a job from Fetch to Finish, and no two the same.
Holding ==
  /\ \A w \in Workers : job[w] # NoJob <=> pc[w] \in Busy
  /\ \A v, w \in Workers : job[v] = job[w] => v = w \/ job[v] = NoJob

\* A queued job is queued once, was not started, and nobody holds it.
Queued ==
  /\ \A i \in 1 .. Len(queue) :
       /\ given[queue[i]] = "taken"
       /\ jobState[queue[i]] \in {"queued", "aborted"}
       /\ queue[i] \notin ran
       /\ ~Held(queue[i])
  /\ \A i, k \in 1 .. Len(queue) : queue[i] = queue[k] => i = k

\* What is true of a job while a worker is at each place.
Running ==
  /\ \A w \in Workers : pc[w] \in Busy =>
       /\ given[job[w]] = "taken"
       /\ job[w] \in ran <=> pc[w] \in {"erase", "finish"}
       /\ job[w] \in running <=> pc[w] \in {"run", "erase"}
       /\ pc[w] = "claim" => jobState[job[w]] \in {"queued", "aborted"}
       /\ pc[w] # "claim" => jobState[job[w]] \in {"running", "aborted"}
  /\ \A j \in running : Held(j)

\* Where a job is that no worker holds.
Resting ==
  \A j \in Jobs : ~Held(j) =>
    /\ given[j] # "taken" => j \notin ran /\ jobState[j] \in {"queued", "aborted"}
    /\ given[j] = "taken" =>
         \/ InQueue(j)
         \/ j \in ran /\ jobState[j] \in {"done", "aborted"}
         \/ j \notin ran /\ jobState[j] = "aborted"
    /\ jobState[j] = "done" => j \in ran

OnlyAbortables == \A j \in Jobs : jobState[j] = "aborted" => j \in Abortables

\* What the main thread's place says, and that no worker gives up too early.
Phases ==
  /\ main \in {"lock", "scan", "abort", "wake"} => shutdown
  /\ main = "signal" => ~shutdown
  /\ Closed => \A w \in Workers : pc[w] = "exited"
  /\ scan # 0 <=> main = "scan"
  /\ \A w \in Workers : pc[w] \in {"empty", "exited"} => shutdown /\ queue = << >>

IInv == /\ JobTypeOK /\ Holding /\ Queued /\ Running /\ Resting
        /\ OnlyAbortables /\ Phases /\ EnoughWakeups
-----------------------------------------------------------------------------
\* Two sets of workers that differ at most in one of them.
LEMMA OneMoves ==
  ASSUME NEW A \in SUBSET Workers, NEW B \in SUBSET Workers, NEW w \in Workers,
         \A v \in Workers : v # w => (v \in A <=> v \in B)
  PROVE  /\ Cardinality(A) \in Nat /\ Cardinality(B) \in Nat
         /\ Cardinality(B) = Cardinality(A) + (IF w \in B THEN 1 ELSE 0)
                                            - (IF w \in A THEN 1 ELSE 0)
<1>1. IsFiniteSet(A) /\ IsFiniteSet(B)
  BY JobAssumption, FS_Subset
<1>2. Cardinality(A) \in Nat /\ Cardinality(B) \in Nat
  BY <1>1, FS_CardinalityType
<1>3. CASE w \in A /\ w \notin B
  <2>1. B = A \ {w}
    BY <1>3
  <2> QED BY <1>1, <1>2, <1>3, <2>1, FS_RemoveElement
<1>4. CASE w \notin A /\ w \in B
  <2>1. B = A \cup {w}
    BY <1>4
  <2> QED BY <1>1, <1>2, <1>4, <2>1, FS_AddElement
<1>5. CASE w \in A <=> w \in B
  <2>1. A = B
    BY <1>5
  <2> QED BY <1>2, <1>5, <2>1
<1> QED BY <1>3, <1>4, <1>5

\* How the two counts change when one worker moves.
LEMMA Counts ==
  ASSUME JobTypeOK, NEW w \in Workers, NEW to, pc' = [pc EXCEPT ![w] = to]
  PROVE  /\ Cardinality(Fetching) \in Nat /\ Cardinality(Stopping) \in Nat
         /\ Cardinality(Fetching)' = Cardinality(Fetching)
              + (IF to = "fetch" THEN 1 ELSE 0) - (IF pc[w] = "fetch" THEN 1 ELSE 0)
         /\ Cardinality(Stopping)' = Cardinality(Stopping)
              + (IF to \in {"empty", "exited"} THEN 0 ELSE 1)
              - (IF pc[w] \in {"empty", "exited"} THEN 0 ELSE 1)
<1>1. \A v \in Workers : pc'[v] = IF v = w THEN to ELSE pc[v]
  BY DEF JobTypeOK
<1>2. /\ Fetching \in SUBSET Workers /\ Fetching' \in SUBSET Workers
      /\ \A v \in Workers : v # w => (v \in Fetching <=> v \in Fetching')
      /\ w \in Fetching <=> pc[w] = "fetch"
      /\ w \in Fetching' <=> to = "fetch"
  BY <1>1 DEF Fetching
<1>3. /\ Stopping \in SUBSET Workers /\ Stopping' \in SUBSET Workers
      /\ \A v \in Workers : v # w => (v \in Stopping <=> v \in Stopping')
      /\ w \in Stopping <=> pc[w] \notin {"empty", "exited"}
      /\ w \in Stopping' <=> to \notin {"empty", "exited"}
  BY <1>1 DEF Stopping
<1>4. /\ Cardinality(Fetching) \in Nat /\ Cardinality(Fetching') \in Nat
      /\ Cardinality(Fetching') = Cardinality(Fetching)
              + (IF w \in Fetching' THEN 1 ELSE 0) - (IF w \in Fetching THEN 1 ELSE 0)
  BY <1>2, OneMoves
<1>5. /\ Cardinality(Stopping) \in Nat /\ Cardinality(Stopping') \in Nat
      /\ Cardinality(Stopping') = Cardinality(Stopping)
              + (IF w \in Stopping' THEN 1 ELSE 0) - (IF w \in Stopping THEN 1 ELSE 0)
  BY <1>3, OneMoves
<1> QED BY <1>2, <1>3, <1>4, <1>5

LEMMA CountsAreNat == Cardinality(Fetching) \in Nat /\ Cardinality(Stopping) \in Nat
<1>1. IsFiniteSet(Fetching) /\ IsFiniteSet(Stopping)
  BY JobAssumption, FS_Subset DEF Fetching, Stopping
<1> QED BY <1>1, FS_CardinalityType

LEMMA WaitStep ==
  ASSUME IInv, NEW w \in Workers, Wait(w) PROVE IInv'
<1>0. /\ JobTypeOK /\ Holding /\ Queued /\ Running /\ Resting
      /\ OnlyAbortables /\ Phases /\ EnoughWakeups
  BY DEF IInv
<1>1. JobTypeOK'
  BY <1>0 DEF Wait, JobTypeOK, Busy, Holding, mainVars
<1>2. Holding'
  BY <1>0 DEF Wait, JobTypeOK, Busy, Holding, mainVars
<1>3. Queued'
  BY <1>0 DEF Wait, JobTypeOK, Busy, Holding, Queued, Running, Held, mainVars
<1>4. Running'
  BY <1>0 DEF Wait, JobTypeOK, Busy, Holding, Running, Held, mainVars
<1>5. Resting'
  BY <1>0 DEF Wait, JobTypeOK, Busy, Holding, Running, Resting, Held, InQueue, mainVars
<1>6. OnlyAbortables'
  BY <1>0 DEF Wait, JobTypeOK, OnlyAbortables, mainVars
<1>7. Phases'
  BY <1>0 DEF Wait, JobTypeOK, Phases, Closed, mainVars
<1>8. EnoughWakeups'
  <2>1. pc' = [pc EXCEPT ![w] = "fetch"]
    BY <1>0 DEF Wait
  <2>2. /\ Cardinality(Fetching) \in Nat /\ Cardinality(Stopping) \in Nat
        /\ Cardinality(Fetching)' = Cardinality(Fetching)
             + (IF "fetch" = "fetch" THEN 1 ELSE 0) - (IF pc[w] = "fetch" THEN 1 ELSE 0)
        /\ Cardinality(Stopping)' = Cardinality(Stopping)
             + (IF "fetch" \in {"empty", "exited"} THEN 0 ELSE 1)
             - (IF pc[w] \in {"empty", "exited"} THEN 0 ELSE 1)
    BY <1>0, <2>1, Counts
  <2> QED BY <1>0, <2>2 DEF Wait, JobTypeOK, EnoughWakeups, Phases, mainVars
<1> QED BY <1>1, <1>2, <1>3, <1>4, <1>5, <1>6, <1>7, <1>8 DEF IInv

LEMMA LeaveStep ==
  ASSUME IInv, NEW w \in Workers, Leave(w) PROVE IInv'
<1>0. /\ JobTypeOK /\ Holding /\ Queued /\ Running /\ Resting
      /\ OnlyAbortables /\ Phases /\ EnoughWakeups
  BY DEF IInv
<1>1. JobTypeOK'
  BY <1>0 DEF Leave, JobTypeOK, Busy, Holding, mainVars
<1>2. Holding'
  BY <1>0 DEF Leave, JobTypeOK, Busy, Holding, mainVars
<1>3. Queued'
  BY <1>0 DEF Leave, JobTypeOK, Busy, Holding, Queued, Running, Held, mainVars
<1>4. Running'
  BY <1>0 DEF Leave, JobTypeOK, Busy, Holding, Running, Held, mainVars
<1>5. Resting'
  BY <1>0 DEF Leave, JobTypeOK, Busy, Holding, Running, Resting, Held, InQueue, mainVars
<1>6. OnlyAbortables'
  BY <1>0 DEF Leave, JobTypeOK, OnlyAbortables, mainVars
<1>7. Phases'
  BY <1>0 DEF Leave, JobTypeOK, Phases, Closed, mainVars
<1>8. EnoughWakeups'
  <2>1. pc' = [pc EXCEPT ![w] = (IF shutdown THEN "exited" ELSE "wait")]
    BY <1>0 DEF Leave
  <2>2. /\ Cardinality(Fetching) \in Nat /\ Cardinality(Stopping) \in Nat
        /\ Cardinality(Fetching)' = Cardinality(Fetching)
             + (IF (IF shutdown THEN "exited" ELSE "wait") = "fetch" THEN 1 ELSE 0) - (IF pc[w] = "fetch" THEN 1 ELSE 0)
        /\ Cardinality(Stopping)' = Cardinality(Stopping)
             + (IF (IF shutdown THEN "exited" ELSE "wait") \in {"empty", "exited"} THEN 0 ELSE 1)
             - (IF pc[w] \in {"empty", "exited"} THEN 0 ELSE 1)
    BY <1>0, <2>1, Counts
  <2> QED BY <1>0, <2>2 DEF Leave, JobTypeOK, EnoughWakeups, Phases, mainVars
<1> QED BY <1>1, <1>2, <1>3, <1>4, <1>5, <1>6, <1>7, <1>8 DEF IInv

LEMMA PushStep ==
  ASSUME IInv, NEW w \in Workers, Push(w) PROVE IInv'
<1>0. /\ JobTypeOK /\ Holding /\ Queued /\ Running /\ Resting
      /\ OnlyAbortables /\ Phases /\ EnoughWakeups
  BY DEF IInv
<1>1. JobTypeOK'
  BY <1>0 DEF Push, JobTypeOK, Busy, Holding, mainVars
<1>2. Holding'
  BY <1>0 DEF Push, JobTypeOK, Busy, Holding, mainVars
<1>3. Queued'
  BY <1>0 DEF Push, JobTypeOK, Busy, Holding, Queued, Running, Held, mainVars
<1>4. Running'
  BY <1>0 DEF Push, JobTypeOK, Busy, Holding, Running, Held, mainVars
<1>5. Resting'
  BY <1>0 DEF Push, JobTypeOK, Busy, Holding, Running, Resting, Held, InQueue, mainVars
<1>6. OnlyAbortables'
  BY <1>0 DEF Push, JobTypeOK, OnlyAbortables, mainVars
<1>7. Phases'
  BY <1>0 DEF Push, JobTypeOK, Phases, Closed, mainVars
<1>8. EnoughWakeups'
  <2>1. pc' = [pc EXCEPT ![w] = "run"]
    BY <1>0 DEF Push
  <2>2. /\ Cardinality(Fetching) \in Nat /\ Cardinality(Stopping) \in Nat
        /\ Cardinality(Fetching)' = Cardinality(Fetching)
             + (IF "run" = "fetch" THEN 1 ELSE 0) - (IF pc[w] = "fetch" THEN 1 ELSE 0)
        /\ Cardinality(Stopping)' = Cardinality(Stopping)
             + (IF "run" \in {"empty", "exited"} THEN 0 ELSE 1)
             - (IF pc[w] \in {"empty", "exited"} THEN 0 ELSE 1)
    BY <1>0, <2>1, Counts
  <2> QED BY <1>0, <2>2 DEF Push, JobTypeOK, EnoughWakeups, Phases, mainVars
<1> QED BY <1>1, <1>2, <1>3, <1>4, <1>5, <1>6, <1>7, <1>8 DEF IInv

LEMMA ReturnStep ==
  ASSUME IInv, NEW w \in Workers, Return(w) PROVE IInv'
<1>0. /\ JobTypeOK /\ Holding /\ Queued /\ Running /\ Resting
      /\ OnlyAbortables /\ Phases /\ EnoughWakeups
  BY DEF IInv
<1>1. JobTypeOK'
  BY <1>0 DEF Return, JobTypeOK, Busy, Holding, mainVars
<1>2. Holding'
  BY <1>0 DEF Return, JobTypeOK, Busy, Holding, mainVars
<1>3. Queued'
  BY <1>0 DEF Return, JobTypeOK, Busy, Holding, Queued, Running, Held, mainVars
<1>4. Running'
  BY <1>0 DEF Return, JobTypeOK, Busy, Holding, Running, Held, mainVars
<1>5. Resting'
  BY <1>0 DEF Return, JobTypeOK, Busy, Holding, Running, Resting, Held, InQueue, mainVars
<1>6. OnlyAbortables'
  BY <1>0 DEF Return, JobTypeOK, OnlyAbortables, mainVars
<1>7. Phases'
  BY <1>0 DEF Return, JobTypeOK, Phases, Closed, mainVars
<1>8. EnoughWakeups'
  <2>1. pc' = [pc EXCEPT ![w] = "erase"]
    BY <1>0 DEF Return
  <2>2. /\ Cardinality(Fetching) \in Nat /\ Cardinality(Stopping) \in Nat
        /\ Cardinality(Fetching)' = Cardinality(Fetching)
             + (IF "erase" = "fetch" THEN 1 ELSE 0) - (IF pc[w] = "fetch" THEN 1 ELSE 0)
        /\ Cardinality(Stopping)' = Cardinality(Stopping)
             + (IF "erase" \in {"empty", "exited"} THEN 0 ELSE 1)
             - (IF pc[w] \in {"empty", "exited"} THEN 0 ELSE 1)
    BY <1>0, <2>1, Counts
  <2> QED BY <1>0, <2>2 DEF Return, JobTypeOK, EnoughWakeups, Phases, mainVars
<1> QED BY <1>1, <1>2, <1>3, <1>4, <1>5, <1>6, <1>7, <1>8 DEF IInv

LEMMA EraseStep ==
  ASSUME IInv, NEW w \in Workers, Erase(w) PROVE IInv'
<1>0. /\ JobTypeOK /\ Holding /\ Queued /\ Running /\ Resting
      /\ OnlyAbortables /\ Phases /\ EnoughWakeups
  BY DEF IInv
<1>1. JobTypeOK'
  BY <1>0 DEF Erase, JobTypeOK, Busy, Holding, mainVars
<1>2. Holding'
  BY <1>0 DEF Erase, JobTypeOK, Busy, Holding, mainVars
<1>3. Queued'
  BY <1>0 DEF Erase, JobTypeOK, Busy, Holding, Queued, Running, Held, mainVars
<1>4. Running'
  BY <1>0 DEF Erase, JobTypeOK, Busy, Holding, Running, Held, mainVars
<1>5. Resting'
  BY <1>0 DEF Erase, JobTypeOK, Busy, Holding, Running, Resting, Held, InQueue, mainVars
<1>6. OnlyAbortables'
  BY <1>0 DEF Erase, JobTypeOK, OnlyAbortables, mainVars
<1>7. Phases'
  BY <1>0 DEF Erase, JobTypeOK, Phases, Closed, mainVars
<1>8. EnoughWakeups'
  <2>1. pc' = [pc EXCEPT ![w] = "finish"]
    BY <1>0 DEF Erase
  <2>2. /\ Cardinality(Fetching) \in Nat /\ Cardinality(Stopping) \in Nat
        /\ Cardinality(Fetching)' = Cardinality(Fetching)
             + (IF "finish" = "fetch" THEN 1 ELSE 0) - (IF pc[w] = "fetch" THEN 1 ELSE 0)
        /\ Cardinality(Stopping)' = Cardinality(Stopping)
             + (IF "finish" \in {"empty", "exited"} THEN 0 ELSE 1)
             - (IF pc[w] \in {"empty", "exited"} THEN 0 ELSE 1)
    BY <1>0, <2>1, Counts
  <2> QED BY <1>0, <2>2 DEF Erase, JobTypeOK, EnoughWakeups, Phases, mainVars
<1> QED BY <1>1, <1>2, <1>3, <1>4, <1>5, <1>6, <1>7, <1>8 DEF IInv

LEMMA FinishStep ==
  ASSUME IInv, NEW w \in Workers, Finish(w) PROVE IInv'
<1>0. /\ JobTypeOK /\ Holding /\ Queued /\ Running /\ Resting
      /\ OnlyAbortables /\ Phases /\ EnoughWakeups
  BY DEF IInv
<1>1. JobTypeOK'
  BY <1>0 DEF Finish, JobTypeOK, Busy, Holding, mainVars
<1>2. Holding'
  BY <1>0 DEF Finish, JobTypeOK, Busy, Holding, mainVars
<1>3. Queued'
  <2>1. \A i \in 1 .. Len(queue) : queue[i] # job[w] /\ queue[i] \in Jobs
    BY <1>0 DEF Finish, Held, Queued, JobTypeOK
  <2>2. \A j \in Jobs : Held(j)' => Held(j)
    BY <1>0, JobAssumption DEF Finish, Held, JobTypeOK
  <2>3. /\ queue' = queue /\ given' = given /\ ran' = ran
        /\ \A j \in Jobs : j # job[w] => jobState'[j] = jobState[j]
    BY <1>0 DEF Finish, JobTypeOK, mainVars
  <2> QED BY <1>0, <2>1, <2>2, <2>3 DEF Queued
<1>4. Running'
  BY <1>0 DEF Finish, JobTypeOK, Busy, Holding, Running, Held, mainVars
<1>5. Resting'
  BY <1>0 DEF Finish, JobTypeOK, Busy, Holding, Running, Resting, Held, InQueue, mainVars
<1>6. OnlyAbortables'
  BY <1>0 DEF Finish, JobTypeOK, OnlyAbortables, mainVars
<1>7. Phases'
  BY <1>0 DEF Finish, JobTypeOK, Phases, Closed, mainVars
<1>8. EnoughWakeups'
  <2>1. pc' = [pc EXCEPT ![w] = "wait"]
    BY <1>0 DEF Finish
  <2>2. /\ Cardinality(Fetching) \in Nat /\ Cardinality(Stopping) \in Nat
        /\ Cardinality(Fetching)' = Cardinality(Fetching)
             + (IF "wait" = "fetch" THEN 1 ELSE 0) - (IF pc[w] = "fetch" THEN 1 ELSE 0)
        /\ Cardinality(Stopping)' = Cardinality(Stopping)
             + (IF "wait" \in {"empty", "exited"} THEN 0 ELSE 1)
             - (IF pc[w] \in {"empty", "exited"} THEN 0 ELSE 1)
    BY <1>0, <2>1, Counts
  <2> QED BY <1>0, <2>2 DEF Finish, JobTypeOK, EnoughWakeups, Phases, mainVars
<1> QED BY <1>1, <1>2, <1>3, <1>4, <1>5, <1>6, <1>7, <1>8 DEF IInv

LEMMA ClaimStep ==
  ASSUME IInv, NEW w \in Workers, Claim(w) PROVE IInv'
<1>0. /\ JobTypeOK /\ Holding /\ Queued /\ Running /\ Resting
      /\ OnlyAbortables /\ Phases /\ EnoughWakeups
  BY DEF IInv
<1>1. JobTypeOK'
  BY <1>0 DEF Claim, JobTypeOK, Busy, Holding, mainVars
<1>2. Holding'
  BY <1>0 DEF Claim, JobTypeOK, Busy, Holding, mainVars
<1>3. Queued'
  <2>1. \A i \in 1 .. Len(queue) : queue[i] # job[w] /\ queue[i] \in Jobs
    BY <1>0 DEF Claim, Held, Queued, JobTypeOK
  <2>2. \A j \in Jobs : Held(j)' => Held(j)
    BY <1>0, JobAssumption DEF Claim, Held, JobTypeOK
  <2>3. /\ queue' = queue /\ given' = given /\ ran' = ran
        /\ \A j \in Jobs : j # job[w] => jobState'[j] = jobState[j]
    BY <1>0 DEF Claim, JobTypeOK, mainVars
  <2> QED BY <1>0, <2>1, <2>2, <2>3 DEF Queued
<1>4. Running'
  BY <1>0 DEF Claim, JobTypeOK, Busy, Holding, Running, Held, mainVars
<1>5. Resting'
  BY <1>0 DEF Claim, JobTypeOK, Busy, Holding, Running, Resting, Held, InQueue, mainVars
<1>6. OnlyAbortables'
  BY <1>0 DEF Claim, JobTypeOK, OnlyAbortables, mainVars
<1>7. Phases'
  BY <1>0 DEF Claim, JobTypeOK, Phases, Closed, mainVars
<1>8. EnoughWakeups'
  <2>1. pc' = [pc EXCEPT ![w] = (IF jobState[job[w]] = "queued" THEN "push" ELSE "wait")]
    BY <1>0 DEF Claim
  <2>2. /\ Cardinality(Fetching) \in Nat /\ Cardinality(Stopping) \in Nat
        /\ Cardinality(Fetching)' = Cardinality(Fetching)
             + (IF (IF jobState[job[w]] = "queued" THEN "push" ELSE "wait") = "fetch" THEN 1 ELSE 0) - (IF pc[w] = "fetch" THEN 1 ELSE 0)
        /\ Cardinality(Stopping)' = Cardinality(Stopping)
             + (IF (IF jobState[job[w]] = "queued" THEN "push" ELSE "wait") \in {"empty", "exited"} THEN 0 ELSE 1)
             - (IF pc[w] \in {"empty", "exited"} THEN 0 ELSE 1)
    BY <1>0, <2>1, Counts
  <2> QED BY <1>0, <2>2 DEF Claim, JobTypeOK, EnoughWakeups, Phases, mainVars
<1> QED BY <1>1, <1>2, <1>3, <1>4, <1>5, <1>6, <1>7, <1>8 DEF IInv

\* A worker that looks for a job has a wakeup to itself.
LEMMA SomeFetching ==
  ASSUME NEW w \in Workers, pc[w] = "fetch"
  PROVE  Cardinality(Fetching) >= 1
<1>1. w \in Fetching /\ IsFiniteSet(Fetching)
  BY JobAssumption, FS_Subset DEF Fetching
<1> QED BY <1>1, CountsAreNat, FS_EmptySet

LEMMA FetchJobStep ==
  ASSUME IInv, NEW w \in Workers, Fetch(w), queue # << >> PROVE IInv'
<1>0. /\ JobTypeOK /\ Holding /\ Queued /\ Running /\ Resting
      /\ OnlyAbortables /\ Phases /\ EnoughWakeups
  BY DEF IInv
<1> DEFINE h == Head(queue)
<1>a. /\ pc' = [pc EXCEPT ![w] = "claim"] /\ job' = [job EXCEPT ![w] = h]
      /\ queue' = Tail(queue) /\ pc[w] = "fetch" /\ scan = 0
      /\ UNCHANGED <<shutdown, sem, running, jobState, main, scan, wakeups, given, ran>>
  BY DEF Fetch, mainVars
<1>p. pc' = [pc EXCEPT ![w] = "claim"]
  BY <1>a
<1>b. /\ Len(queue) \in Nat /\ Len(queue) >= 1 /\ h = queue[1] /\ h \in Jobs
      /\ queue' \in Seq(Jobs) /\ Len(queue') = Len(queue) - 1
      /\ \A i \in 1 .. Len(queue') : queue'[i] = queue[i + 1]
  BY <1>0, <1>a, HeadTailProperties DEF JobTypeOK
<1>c. /\ given[h] = "taken" /\ jobState[h] \in {"queued", "aborted"}
      /\ h \notin ran /\ ~Held(h) /\ h \notin running /\ h # NoJob
  BY <1>0, <1>b, JobAssumption DEF Queued, Running
<1>d. /\ \A v \in Workers : pc'[v] = IF v = w THEN "claim" ELSE pc[v]
      /\ \A v \in Workers : job'[v] = IF v = w THEN h ELSE job[v]
      /\ job[w] = NoJob
  BY <1>0, <1>a DEF JobTypeOK, Holding, Busy
<1>e. \A j \in Jobs : Held(j)' <=> Held(j) \/ j = h
  BY <1>c, <1>d, <1>0, JobAssumption DEF Held
<1>f. \A j \in Jobs : InQueue(j) => InQueue(j)' \/ j = h
  <2> SUFFICES ASSUME NEW j \in Jobs, NEW i \in 1 .. Len(queue), queue[i] = j, j # h
               PROVE  InQueue(j)'
    BY DEF InQueue
  <2>1. i - 1 \in 1 .. Len(queue') /\ queue'[i - 1] = j
    BY <1>b
  <2> QED BY <2>1 DEF InQueue
<1>1. JobTypeOK'
  BY <1>0, <1>a, <1>b DEF JobTypeOK
<1>2. Holding'
  BY <1>0, <1>c, <1>d DEF Holding, Busy, Held
<1>3. Queued'
  <2>1. \A i \in 1 .. Len(queue') : i + 1 \in 1 .. Len(queue) /\ queue'[i] = queue[i + 1]
    BY <1>b
  <2>2. \A i \in 1 .. Len(queue') : queue'[i] # h /\ queue'[i] \in Jobs
    BY <1>0, <1>b, <2>1 DEF Queued, JobTypeOK
  <2>3. \A i \in 1 .. Len(queue') : \A v \in Workers : job'[v] # queue'[i]
    BY <1>0, <1>d, <2>1, <2>2 DEF Queued, Held
  <2>4. \A i, k \in 1 .. Len(queue') : queue'[i] = queue'[k] => i = k
    BY <1>0, <1>b, <2>1 DEF Queued
  <2>5. \A i \in 1 .. Len(queue') :
          given[queue'[i]] = "taken" /\ queue'[i] \notin ran
          /\ jobState[queue'[i]] \in {"queued", "aborted"}
    BY <1>0, <2>1 DEF Queued
  <2> QED BY <1>a, <2>3, <2>4, <2>5 DEF Queued, Held
<1>4. Running'
  BY <1>0, <1>a, <1>c, <1>d, <1>e DEF Running, Busy, JobTypeOK
<1>5. Resting'
  BY <1>0, <1>a, <1>e, <1>f DEF Resting
<1>6. OnlyAbortables'
  BY <1>0, <1>a DEF OnlyAbortables
<1>7. Phases'
  BY <1>0, <1>a, <1>b, <1>d DEF Phases, Closed
<1>8. EnoughWakeups'
  <2>2. /\ Cardinality(Fetching) \in Nat /\ Cardinality(Stopping) \in Nat
        /\ Cardinality(Fetching)' = Cardinality(Fetching)
             + (IF "claim" = "fetch" THEN 1 ELSE 0) - (IF pc[w] = "fetch" THEN 1 ELSE 0)
        /\ Cardinality(Stopping)' = Cardinality(Stopping)
             + (IF "claim" \in {"empty", "exited"} THEN 0 ELSE 1)
             - (IF pc[w] \in {"empty", "exited"} THEN 0 ELSE 1)
    BY <1>0, <1>p, Counts
  <2> QED BY <1>0, <1>a, <1>b, <2>2, SMTT(20) DEF JobTypeOK, EnoughWakeups
<1> QED BY <1>1, <1>2, <1>3, <1>4, <1>5, <1>6, <1>7, <1>8 DEF IInv

LEMMA FetchNothingStep ==
  ASSUME IInv, NEW w \in Workers, Fetch(w), queue = << >> PROVE IInv'
<1>0. /\ JobTypeOK /\ Holding /\ Queued /\ Running /\ Resting
      /\ OnlyAbortables /\ Phases /\ EnoughWakeups
  BY DEF IInv
<1>a. /\ pc' = [pc EXCEPT ![w] = "empty"] /\ pc[w] = "fetch" /\ Len(queue) = 0
      /\ UNCHANGED <<shutdown, queue, sem, running, jobState, job, main, scan, wakeups, given, ran>>
  BY DEF Fetch, mainVars
<1>p. pc' = [pc EXCEPT ![w] = "empty"]
  BY <1>a
<1>1. JobTypeOK'
  BY <1>0, <1>a DEF JobTypeOK
<1>2. Holding'
  BY <1>0, <1>a DEF Holding, Busy, JobTypeOK
<1>3. Queued'
  BY <1>0, <1>a DEF Queued, Held
<1>4. Running'
  BY <1>0, <1>a DEF Running, Busy, Held, JobTypeOK
<1>5. Resting'
  BY <1>0, <1>a DEF Resting, Held, InQueue
<1>6. OnlyAbortables'
  BY <1>0, <1>a DEF OnlyAbortables
<1>7. Phases'
  <2>1. shutdown
    BY <1>0, <1>a, SomeFetching, CountsAreNat DEF EnoughWakeups, JobTypeOK
  <2> QED BY <1>0, <1>a, <2>1 DEF Phases, Closed, JobTypeOK
<1>8. EnoughWakeups'
  <2>1. shutdown
    BY <1>0, <1>a, SomeFetching, CountsAreNat DEF EnoughWakeups, JobTypeOK
  <2>2. /\ Cardinality(Fetching) \in Nat /\ Cardinality(Stopping) \in Nat
        /\ Cardinality(Fetching)' = Cardinality(Fetching)
             + (IF "empty" = "fetch" THEN 1 ELSE 0) - (IF pc[w] = "fetch" THEN 1 ELSE 0)
        /\ Cardinality(Stopping)' = Cardinality(Stopping)
             + (IF "empty" \in {"empty", "exited"} THEN 0 ELSE 1)
             - (IF pc[w] \in {"empty", "exited"} THEN 0 ELSE 1)
    BY <1>0, <1>p, Counts
  <2>3. Cardinality(Fetching) >= 1
    BY <1>a, SomeFetching
  <2> QED BY <1>0, <1>a, <2>1, <2>2, <2>3 DEF JobTypeOK, EnoughWakeups, Phases
<1> QED BY <1>1, <1>2, <1>3, <1>4, <1>5, <1>6, <1>7, <1>8 DEF IInv

LEMMA SignalStep ==
  ASSUME IInv, Signal PROVE IInv'
<1>0. /\ JobTypeOK /\ Holding /\ Queued /\ Running /\ Resting
      /\ OnlyAbortables /\ Phases /\ EnoughWakeups
  BY DEF IInv
<1>1. JobTypeOK'
  BY <1>0, JobAssumption, FS_CardinalityType DEF Signal, JobTypeOK
<1>2. Holding'
  BY <1>0 DEF Signal, Holding, Busy
<1>3. Queued'
  BY <1>0 DEF Signal, Queued, Held
<1>4. Running'
  BY <1>0 DEF Signal, Running, Busy, Held
<1>5. Resting'
  BY <1>0 DEF Signal, Resting, Held, InQueue
<1>6. OnlyAbortables'
  BY <1>0 DEF Signal, OnlyAbortables
<1>7. Phases'
  BY <1>0 DEF Signal, Phases, Closed, JobTypeOK
<1>8. EnoughWakeups'
  <2>1. Fetching' = Fetching /\ Stopping' = Stopping
    BY DEF Signal, Fetching, Stopping, mainVars
  <2> QED BY <1>0, <2>1, CountsAreNat DEF Signal, JobTypeOK, EnoughWakeups, Phases, mainVars
<1> QED BY <1>1, <1>2, <1>3, <1>4, <1>5, <1>6, <1>7, <1>8 DEF IInv

LEMMA ShutdownStep ==
  ASSUME IInv, Shutdown PROVE IInv'
<1>0. /\ JobTypeOK /\ Holding /\ Queued /\ Running /\ Resting
      /\ OnlyAbortables /\ Phases /\ EnoughWakeups
  BY DEF IInv
<1>1. JobTypeOK'
  BY <1>0, JobAssumption, FS_CardinalityType DEF Shutdown, JobTypeOK
<1>2. Holding'
  BY <1>0 DEF Shutdown, Holding, Busy
<1>3. Queued'
  BY <1>0 DEF Shutdown, Queued, Held
<1>4. Running'
  BY <1>0 DEF Shutdown, Running, Busy, Held
<1>5. Resting'
  BY <1>0 DEF Shutdown, Resting, Held, InQueue
<1>6. OnlyAbortables'
  BY <1>0 DEF Shutdown, OnlyAbortables
<1>7. Phases'
  BY <1>0 DEF Shutdown, Phases, Closed, JobTypeOK
<1>8. EnoughWakeups'
  <2>1. Fetching' = Fetching /\ Stopping' = Stopping
    BY DEF Shutdown, Fetching, Stopping, mainVars
  <2> QED BY <1>0, <2>1, CountsAreNat DEF Shutdown, JobTypeOK, EnoughWakeups, Phases, mainVars
<1> QED BY <1>1, <1>2, <1>3, <1>4, <1>5, <1>6, <1>7, <1>8 DEF IInv

LEMMA LockStep ==
  ASSUME IInv, Lock PROVE IInv'
<1>0. /\ JobTypeOK /\ Holding /\ Queued /\ Running /\ Resting
      /\ OnlyAbortables /\ Phases /\ EnoughWakeups
  BY DEF IInv
<1>1. JobTypeOK'
  BY <1>0, JobAssumption, FS_CardinalityType DEF Lock, JobTypeOK
<1>2. Holding'
  BY <1>0 DEF Lock, Holding, Busy
<1>3. Queued'
  BY <1>0 DEF Lock, Queued, Held
<1>4. Running'
  BY <1>0 DEF Lock, Running, Busy, Held
<1>5. Resting'
  BY <1>0 DEF Lock, Resting, Held, InQueue
<1>6. OnlyAbortables'
  BY <1>0 DEF Lock, OnlyAbortables
<1>7. Phases'
  BY <1>0 DEF Lock, Phases, Closed, JobTypeOK
<1>8. EnoughWakeups'
  <2>1. Fetching' = Fetching /\ Stopping' = Stopping
    BY DEF Lock, Fetching, Stopping, mainVars
  <2> QED BY <1>0, <2>1, CountsAreNat DEF Lock, JobTypeOK, EnoughWakeups, Phases, mainVars
<1> QED BY <1>1, <1>2, <1>3, <1>4, <1>5, <1>6, <1>7, <1>8 DEF IInv

LEMMA UnlockStep ==
  ASSUME IInv, Unlock PROVE IInv'
<1>0. /\ JobTypeOK /\ Holding /\ Queued /\ Running /\ Resting
      /\ OnlyAbortables /\ Phases /\ EnoughWakeups
  BY DEF IInv
<1>1. JobTypeOK'
  BY <1>0, JobAssumption, FS_CardinalityType DEF Unlock, JobTypeOK
<1>2. Holding'
  BY <1>0 DEF Unlock, Holding, Busy
<1>3. Queued'
  BY <1>0 DEF Unlock, Queued, Held
<1>4. Running'
  BY <1>0 DEF Unlock, Running, Busy, Held
<1>5. Resting'
  BY <1>0 DEF Unlock, Resting, Held, InQueue
<1>6. OnlyAbortables'
  BY <1>0 DEF Unlock, OnlyAbortables
<1>7. Phases'
  BY <1>0 DEF Unlock, Phases, Closed, JobTypeOK
<1>8. EnoughWakeups'
  <2>1. Fetching' = Fetching /\ Stopping' = Stopping
    BY DEF Unlock, Fetching, Stopping, mainVars
  <2> QED BY <1>0, <2>1, CountsAreNat DEF Unlock, JobTypeOK, EnoughWakeups, Phases, mainVars
<1> QED BY <1>1, <1>2, <1>3, <1>4, <1>5, <1>6, <1>7, <1>8 DEF IInv

LEMMA WakeStep ==
  ASSUME IInv, Wake PROVE IInv'
<1>0. /\ JobTypeOK /\ Holding /\ Queued /\ Running /\ Resting
      /\ OnlyAbortables /\ Phases /\ EnoughWakeups
  BY DEF IInv
<1>1. JobTypeOK'
  BY <1>0, JobAssumption, FS_CardinalityType DEF Wake, JobTypeOK
<1>2. Holding'
  BY <1>0 DEF Wake, Holding, Busy
<1>3. Queued'
  BY <1>0 DEF Wake, Queued, Held
<1>4. Running'
  BY <1>0 DEF Wake, Running, Busy, Held
<1>5. Resting'
  BY <1>0 DEF Wake, Resting, Held, InQueue
<1>6. OnlyAbortables'
  BY <1>0 DEF Wake, OnlyAbortables
<1>7. Phases'
  BY <1>0 DEF Wake, Phases, Closed, JobTypeOK
<1>8. EnoughWakeups'
  <2>1. Fetching' = Fetching /\ Stopping' = Stopping
    BY DEF Wake, Fetching, Stopping, mainVars
  <2> QED BY <1>0, <2>1, CountsAreNat DEF Wake, JobTypeOK, EnoughWakeups, Phases, mainVars
<1> QED BY <1>1, <1>2, <1>3, <1>4, <1>5, <1>6, <1>7, <1>8 DEF IInv

LEMMA JoinStep ==
  ASSUME IInv, Join PROVE IInv'
<1>0. /\ JobTypeOK /\ Holding /\ Queued /\ Running /\ Resting
      /\ OnlyAbortables /\ Phases /\ EnoughWakeups
  BY DEF IInv
<1>1. JobTypeOK'
  BY <1>0, JobAssumption, FS_CardinalityType DEF Join, JobTypeOK
<1>2. Holding'
  BY <1>0 DEF Join, Holding, Busy
<1>3. Queued'
  BY <1>0 DEF Join, Queued, Held
<1>4. Running'
  BY <1>0 DEF Join, Running, Busy, Held
<1>5. Resting'
  BY <1>0 DEF Join, Resting, Held, InQueue
<1>6. OnlyAbortables'
  BY <1>0 DEF Join, OnlyAbortables
<1>7. Phases'
  BY <1>0 DEF Join, Phases, Closed, JobTypeOK
<1>8. EnoughWakeups'
  <2>1. Fetching' = Fetching /\ Stopping' = Stopping
    BY DEF Join, Fetching, Stopping, mainVars
  <2>2. queue = << >>
    BY <1>0, JobAssumption DEF Join, Phases
  <2> QED BY <1>0, <2>1, <2>2, CountsAreNat DEF Join, JobTypeOK, EnoughWakeups, Phases, mainVars
<1> QED BY <1>1, <1>2, <1>3, <1>4, <1>5, <1>6, <1>7, <1>8 DEF IInv

\* An abort changes states to STATE_ABORTED, of jobs that allow it.
LEMMA AbortedStates ==
  ASSUME JobTypeOK, NEW jobs, jobState' = Aborted(jobs)
  PROVE  /\ jobState' \in [Jobs -> {"queued", "running", "done", "aborted"}]
         /\ \A j \in Jobs :
              jobState'[j] = jobState[j] \/ (jobState'[j] = "aborted" /\ j \in Abortables)
  BY DEF JobTypeOK, Aborted

LEMMA AbortKeeps ==
  ASSUME IInv, NEW jobs, jobState' = Aborted(jobs),
         UNCHANGED <<queue, running, pc, job, given, ran>>
  PROVE  Holding' /\ Queued' /\ Running' /\ Resting' /\ OnlyAbortables'
<1>0. /\ JobTypeOK /\ Holding /\ Queued /\ Running /\ Resting /\ OnlyAbortables
  BY DEF IInv
<1>1. \A j \in Jobs :
              jobState'[j] = jobState[j] \/ (jobState'[j] = "aborted" /\ j \in Abortables)
  BY <1>0, AbortedStates
<1>2. Holding'
  BY <1>0 DEF Holding
<1>3. Queued'
  <2>1. \A i \in 1 .. Len(queue) : queue[i] \in Jobs
    BY <1>0 DEF JobTypeOK
  <2> QED BY <1>0, <1>1, <2>1 DEF Queued, Held
<1>4. Running'
  <2>1. \A w \in Workers : pc[w] \in Busy => job[w] \in Jobs
    BY <1>0 DEF JobTypeOK, Holding
  <2> QED BY <1>0, <1>1, <2>1 DEF Running, Held
<1>5. Resting'
  BY <1>0, <1>1 DEF Resting, Held, InQueue
<1>6. OnlyAbortables'
  BY <1>0, <1>1 DEF OnlyAbortables
<1> QED BY <1>2, <1>3, <1>4, <1>5, <1>6

LEMMA AbortStep ==
  ASSUME IInv, NEW j \in Jobs, Abort(j) PROVE IInv'
<1>0. JobTypeOK /\ Phases /\ EnoughWakeups
  BY DEF IInv
<1>1. /\ jobState' = Aborted({j})
      /\ UNCHANGED <<shutdown, queue, sem, running, pc, job, mainVars, ran>>
  BY DEF Abort
<1>2. Holding' /\ Queued' /\ Running' /\ Resting' /\ OnlyAbortables'
  BY <1>1, AbortKeeps DEF mainVars
<1>3. JobTypeOK'
  BY <1>0, <1>1, AbortedStates DEF JobTypeOK, mainVars
<1>4. Phases'
  BY <1>0, <1>1 DEF Phases, Closed, mainVars
<1>5. EnoughWakeups'
  <2>1. Fetching' = Fetching /\ Stopping' = Stopping
    BY <1>1 DEF Fetching, Stopping
  <2> QED BY <1>0, <1>1, <2>1 DEF EnoughWakeups, mainVars
<1> QED BY <1>2, <1>3, <1>4, <1>5 DEF IInv

LEMMA AbortRunningStep ==
  ASSUME IInv, AbortRunning PROVE IInv'
<1>0. JobTypeOK /\ Phases /\ EnoughWakeups
  BY DEF IInv
<1>1. /\ main = "abort" /\ main' = "wake"
      /\ jobState' = Aborted(running) /\ wakeups' = Cardinality(Workers)
      /\ UNCHANGED <<shutdown, queue, sem, running, pc, job, scan, given, ran>>
  BY DEF AbortRunning
<1>2. Holding' /\ Queued' /\ Running' /\ Resting' /\ OnlyAbortables'
  BY <1>1, AbortKeeps
<1>3. Cardinality(Workers) \in Nat
  BY JobAssumption, FS_CardinalityType
<1>4. JobTypeOK'
  BY <1>0, <1>1, <1>3, AbortedStates DEF JobTypeOK
<1>5. Phases'
  BY <1>0, <1>1 DEF Phases, Closed
<1>6. EnoughWakeups'
  <2>1. Fetching' = Fetching /\ Stopping' = Stopping
    BY <1>1 DEF Fetching, Stopping
  <2>2. Cardinality(Stopping) <= Cardinality(Workers)
    BY JobAssumption, FS_Subset DEF Stopping
  <2>3. shutdown
    BY <1>0, <1>1 DEF Phases
  <2>4. Len(queue) \in Nat /\ sem \in Nat
    BY <1>0 DEF JobTypeOK
  <2> QED BY <1>0, <1>1, <1>3, <2>1, <2>2, <2>3, <2>4, CountsAreNat DEF EnoughWakeups
<1> QED BY <1>2, <1>4, <1>5, <1>6 DEF IInv

LEMMA StartStep ==
  ASSUME IInv, Start PROVE IInv'
<1>0. /\ JobTypeOK /\ Holding /\ Queued /\ Running /\ Resting
      /\ OnlyAbortables /\ Phases /\ EnoughWakeups
  BY DEF IInv
<1>1. /\ main = "free" /\ shutdown /\ shutdown' = FALSE /\ queue' = << >> /\ sem' = 0
      /\ pc' = [w \in Workers |-> "wait"]
      /\ UNCHANGED <<running, jobState, job, main, scan, wakeups, given, ran>>
  BY DEF Start, mainVars
<1>2. /\ \A w \in Workers : pc[w] = "exited" /\ job[w] = NoJob
      /\ queue = << >> /\ Len(queue) = 0
  BY <1>0, <1>1, JobAssumption DEF Phases, Closed, Holding, Busy
<1>3. JobTypeOK'
  <2>1. pc' \in [Workers -> {"wait"}] /\ queue' \in Seq(Jobs) /\ sem' \in Nat
    BY <1>1, EmptySeq
  <2> QED BY <1>0, <1>1, <2>1 DEF JobTypeOK
<1>4. Holding'
  BY <1>1, <1>2 DEF Holding, Busy
<1>5. Queued' /\ Resting'
  BY <1>0, <1>1, <1>2 DEF Queued, Resting, Held, InQueue
<1>6. Running'
  BY <1>0, <1>1, <1>2 DEF Running, Held, Busy
<1>7. OnlyAbortables' /\ Phases'
  BY <1>0, <1>1 DEF OnlyAbortables, Phases, Closed, JobTypeOK
<1>8. EnoughWakeups'
  <2>1. Fetching' = {}
    BY <1>1 DEF Fetching
  <2>2. Cardinality({}) = 0
    BY FS_EmptySet
  <2>3. main' = "free" /\ Len(queue') = 0
    BY <1>1
  <2> QED BY <1>0, <1>1, <2>1, <2>2, <2>3 DEF EnoughWakeups
<1> QED BY <1>3, <1>4, <1>5, <1>6, <1>7, <1>8 DEF IInv

LEMMA AddStep ==
  ASSUME IInv, NEW j \in Jobs, Add(j) PROVE IInv'
<1>0. /\ JobTypeOK /\ Holding /\ Queued /\ Running /\ Resting
      /\ OnlyAbortables /\ Phases /\ EnoughWakeups
  BY DEF IInv
<1>1. /\ main = "free" /\ given[j] = "no"
      /\ UNCHANGED <<shutdown, sem, running, pc, job, scan, wakeups, ran>>
  BY DEF Add
<1>2. /\ ~Held(j) /\ j \notin ran /\ j \notin running
      /\ jobState[j] \in {"queued", "aborted"}
      /\ \A i \in 1 .. Len(queue) : queue[i] # j /\ queue[i] \in Jobs
      /\ \A w \in Workers : pc[w] \in Busy => job[w] # j /\ job[w] \in Jobs
  <2>1. \A w \in Workers : pc[w] \in Busy => job[w] # j /\ job[w] \in Jobs
    BY <1>0, <1>1 DEF Running, Holding, JobTypeOK
  <2>2. ~Held(j)
    BY <1>0, <2>1, JobAssumption DEF Held, Holding
  <2>3. \A i \in 1 .. Len(queue) : queue[i] # j /\ queue[i] \in Jobs
    BY <1>0, <1>1 DEF Queued, JobTypeOK
  <2> QED BY <1>0, <1>1, <2>1, <2>2, <2>3 DEF Resting, Running
<1>3. Fetching' = Fetching /\ Stopping' = Stopping
  BY <1>1 DEF Fetching, Stopping
<1>4. CASE shutdown
  <2>1. /\ jobState' = Aborted({j}) /\ given' = [given EXCEPT ![j] = "refused"]
        /\ queue' = queue /\ main' = main
    BY <1>4 DEF Add
  <2>2. /\ jobState' \in [Jobs -> {"queued", "running", "done", "aborted"}]
        /\ \A k \in Jobs : k # j => jobState'[k] = jobState[k]
        /\ jobState'[j] = jobState[j] \/ (jobState'[j] = "aborted" /\ j \in Abortables)
    BY <1>0, <2>1 DEF Aborted, JobTypeOK
  <2>3. \A k \in Jobs : given'[k] = IF k = j THEN "refused" ELSE given[k]
    BY <1>0, <2>1 DEF JobTypeOK
  <2>4. JobTypeOK'
    BY <1>0, <1>1, <2>1, <2>2 DEF JobTypeOK
  <2>5. Holding' /\ OnlyAbortables'
    BY <1>0, <1>1, <2>2 DEF Holding, OnlyAbortables
  <2>6. Queued'
    <3>1. \A i \in 1 .. Len(queue) :
            jobState'[queue[i]] = jobState[queue[i]] /\ given'[queue[i]] = given[queue[i]]
      BY <1>2, <2>2, <2>3
    <3> QED BY <1>0, <1>1, <2>1, <3>1, ZenonT(40) DEF Queued, Held
  <2>7. Running'
    BY <1>0, <1>1, <1>2, <2>2, <2>3 DEF Running, Held
  <2>8. Resting'
    <3>1. \A k \in Jobs : (Held(k)' <=> Held(k)) /\ (InQueue(k)' <=> InQueue(k))
      BY <1>1, <2>1 DEF Held, InQueue
    <3> QED BY <1>0, <1>1, <1>2, <2>2, <2>3, <3>1 DEF Resting
  <2>9. Phases'
    BY <1>0, <1>1, <2>1 DEF Phases, Closed
  <2>10. EnoughWakeups'
    BY <1>0, <1>1, <1>3, <1>4, <2>1 DEF EnoughWakeups
  <2> QED BY <2>4, <2>5, <2>6, <2>7, <2>8, <2>9, <2>10 DEF IInv
<1>5. CASE ~shutdown
  <2>1. /\ queue' = Append(queue, j) /\ given' = [given EXCEPT ![j] = "taken"]
        /\ jobState' = jobState /\ main' = "signal"
    BY <1>5 DEF Add
  <2>2. /\ queue' \in Seq(Jobs) /\ Len(queue') = Len(queue) + 1
        /\ \A i \in 1 .. Len(queue) : queue'[i] = queue[i]
        /\ queue'[Len(queue) + 1] = j
        /\ Len(queue) \in Nat
    BY <1>0, <2>1, AppendProperties DEF JobTypeOK
  <2>3. \A k \in Jobs : given'[k] = IF k = j THEN "taken" ELSE given[k]
    BY <1>0, <2>1 DEF JobTypeOK
  <2>4. JobTypeOK'
    BY <1>0, <1>1, <2>1, <2>2 DEF JobTypeOK
  <2>5. Holding' /\ OnlyAbortables'
    BY <1>0, <1>1, <2>1 DEF Holding, OnlyAbortables
  <2>6. Queued'
    <3>1. \A i \in 1 .. Len(queue') : i \in 1 .. Len(queue) \/ i = Len(queue) + 1
      BY <2>2
    <3>2. \A i \in 1 .. Len(queue') :
            /\ given'[queue'[i]] = "taken" /\ queue'[i] \notin ran
            /\ jobState[queue'[i]] \in {"queued", "aborted"}
            /\ \A w \in Workers : job[w] # queue'[i]
      BY <1>0, <1>2, <2>2, <2>3, <3>1 DEF Queued, Held
    <3>3. \A i, k \in 1 .. Len(queue') : queue'[i] = queue'[k] => i = k
      BY <1>0, <1>2, <2>2, <3>1 DEF Queued
    <3> QED BY <1>1, <2>1, <3>2, <3>3 DEF Queued, Held
  <2>7. Running'
    BY <1>0, <1>1, <1>2, <2>1, <2>3 DEF Running, Held
  <2>8. Resting'
    <3>1. InQueue(j)'
      BY <2>2 DEF InQueue
    <3>2. \A k \in Jobs : InQueue(k) => InQueue(k)'
      BY <2>2 DEF InQueue
    <3>3. \A k \in Jobs : Held(k)' <=> Held(k)
      BY <1>1 DEF Held
    <3> QED BY <1>0, <1>1, <1>2, <2>1, <2>3, <3>1, <3>2, <3>3 DEF Resting
  <2>9. Phases'
    BY <1>0, <1>1, <1>5, <2>1 DEF Phases, Closed
  <2>10. EnoughWakeups'
    BY <1>0, <1>1, <1>3, <1>5, <2>1, <2>2, CountsAreNat DEF EnoughWakeups, JobTypeOK
  <2> QED BY <2>4, <2>5, <2>6, <2>7, <2>8, <2>9, <2>10 DEF IInv
<1> QED BY <1>4, <1>5

\* A job is taken out of the middle of the queue.
LEMMA WithoutIsShorter ==
  ASSUME NEW s \in Seq(Jobs), NEW n \in 1 .. Len(s)
  PROVE  /\ Without(s, n) \in Seq(Jobs)
         /\ Len(Without(s, n)) = Len(s) - 1
         /\ \A i \in 1 .. Len(s) - 1 : Without(s, n)[i] = IF i < n THEN s[i] ELSE s[i + 1]
<1> DEFINE t == Without(s, n)
<1>1. Len(s) \in Nat /\ Len(s) - 1 \in Nat
  OBVIOUS
<1>2. \A i \in 1 .. Len(s) - 1 : (IF i < n THEN s[i] ELSE s[i + 1]) \in Jobs
  BY <1>1
<1>3. t \in [1 .. Len(s) - 1 -> Jobs]
  BY <1>2 DEF Without
<1>4. t \in Seq(Jobs) /\ Len(t) = Len(s) - 1
  BY <1>1, <1>3, IsASeq, LenProperties
<1> QED BY <1>4 DEF Without

LEMMA ScanStep ==
  ASSUME IInv, Scan PROVE IInv'
<1> DEFINE h == queue[scan]
<1>0. /\ JobTypeOK /\ Holding /\ Queued /\ Running /\ Resting
      /\ OnlyAbortables /\ Phases /\ EnoughWakeups
  BY DEF IInv
<1>1. /\ main = "scan" /\ main' = main /\ jobState' = Aborted({h})
      /\ UNCHANGED <<shutdown, sem, running, pc, job, wakeups, given, ran>>
  BY DEF Scan
<1>2. /\ shutdown /\ Len(queue) \in Nat /\ scan \in 1 .. Len(queue) /\ h \in Jobs
  BY <1>0, <1>1 DEF Scan, Phases, JobTypeOK
<1>3. Fetching' = Fetching /\ Stopping' = Stopping
  BY <1>1 DEF Fetching, Stopping
<1>4. CASE h \notin Abortables
  <2>1. queue' = queue /\ scan' = scan + 1
    BY <1>4 DEF Scan
  <2>2. Holding' /\ Queued' /\ Running' /\ Resting' /\ OnlyAbortables'
    BY <1>1, <2>1, AbortKeeps
  <2>3. JobTypeOK'
    <3>1. jobState' \in [Jobs -> {"queued", "running", "done", "aborted"}]
      BY <1>0, <1>1, AbortedStates
    <3>2. scan' \in Nat
      BY <1>2, <2>1
    <3> QED BY <1>0, <1>1, <2>1, <3>1, <3>2 DEF JobTypeOK
  <2>4. Phases'
    BY <1>0, <1>1, <1>2, <2>1 DEF Phases, Closed
  <2>5. EnoughWakeups'
    BY <1>0, <1>1, <1>3, <2>1 DEF EnoughWakeups
  <2> QED BY <2>2, <2>3, <2>4, <2>5 DEF IInv
<1>5. CASE h \in Abortables
  <2>1. queue' = Without(queue, scan) /\ scan' = scan
    BY <1>5 DEF Scan
  <2>2. /\ queue' \in Seq(Jobs) /\ Len(queue') = Len(queue) - 1
        /\ \A i \in 1 .. Len(queue) - 1 :
              queue'[i] = IF i < scan THEN queue[i] ELSE queue[i + 1]
    BY <1>0, <1>2, <2>1, WithoutIsShorter DEF JobTypeOK
  <2>3. /\ jobState' \in [Jobs -> {"queued", "running", "done", "aborted"}]
        /\ \A k \in Jobs : k # h => jobState'[k] = jobState[k]
        /\ jobState'[h] = "aborted"
    BY <1>0, <1>1, <1>2, <1>5 DEF Aborted, JobTypeOK
  <2>4. ~Held(h) /\ given[h] = "taken" /\ h \notin ran
    BY <1>0, <1>2 DEF Queued
  <2>5. JobTypeOK'
    BY <1>0, <1>1, <2>1, <2>2, <2>3 DEF JobTypeOK
  <2>6. Holding' /\ OnlyAbortables'
    BY <1>0, <1>1, <1>5, <2>3 DEF Holding, OnlyAbortables
  <2>7. Queued'
    <3>1. \A i \in 1 .. Len(queue') : \E k \in 1 .. Len(queue) :
            k # scan /\ queue'[i] = queue[k] /\ k = IF i < scan THEN i ELSE i + 1
      BY <1>2, <2>2
    <3>2. \A i \in 1 .. Len(queue') :
            /\ given[queue'[i]] = "taken" /\ queue'[i] \notin ran
            /\ jobState[queue'[i]] \in {"queued", "aborted"}
            /\ queue'[i] # h /\ queue'[i] \in Jobs
            /\ \A w \in Workers : job[w] # queue'[i]
      <4> SUFFICES ASSUME NEW i \in 1 .. Len(queue'), NEW k \in 1 .. Len(queue),
                          k # scan, queue'[i] = queue[k]
                   PROVE  /\ given[queue[k]] = "taken" /\ queue[k] \notin ran
                          /\ jobState[queue[k]] \in {"queued", "aborted"}
                          /\ queue[k] # h /\ queue[k] \in Jobs
                          /\ \A w \in Workers : job[w] # queue[k]
        BY <3>1
      <4> QED BY <1>0, <1>2 DEF Queued, Held, JobTypeOK
    <3>3. \A i, k \in 1 .. Len(queue') : queue'[i] = queue'[k] => i = k
      BY <1>0, <1>2, <2>2, <3>1 DEF Queued
    <3>4. \A i \in 1 .. Len(queue') : jobState'[queue'[i]] \in {"queued", "aborted"}
      BY <2>3, <3>2
    <3> QED BY <1>1, <3>2, <3>3, <3>4 DEF Queued, Held
  <2>8. Running'
    <3>1. \A w \in Workers : pc[w] \in Busy => job[w] \in Jobs /\ job[w] # h
      BY <1>0, <2>4 DEF Holding, Held, JobTypeOK
    <3> QED BY <1>0, <1>1, <2>3, <3>1 DEF Running, Held
  <2>9. Resting'
    <3>1. \A k \in Jobs : InQueue(k) /\ k # h => InQueue(k)'
      <4> SUFFICES ASSUME NEW k \in Jobs, NEW i \in 1 .. Len(queue), queue[i] = k, k # h
                   PROVE  InQueue(k)'
        BY DEF InQueue
      <4>1. CASE i < scan
        BY <1>2, <2>2, <4>1 DEF InQueue
      <4>2. CASE i > scan
        <5>1. i - 1 \in 1 .. Len(queue') /\ queue'[i - 1] = queue[i]
          BY <1>2, <2>2, <4>2
        <5> QED BY <5>1 DEF InQueue
      <4> QED BY <1>2, <4>1, <4>2
    <3>2. \A k \in Jobs : Held(k)' <=> Held(k)
      BY <1>1 DEF Held
    <3> QED BY <1>0, <1>1, <2>3, <2>4, <3>1, <3>2 DEF Resting
  <2>10. Phases'
    BY <1>0, <1>1, <1>2, <2>1 DEF Phases, Closed
  <2>11. EnoughWakeups'
    BY <1>0, <1>1, <1>2, <1>3, <2>2, CountsAreNat DEF EnoughWakeups, JobTypeOK
  <2> QED BY <2>5, <2>6, <2>7, <2>8, <2>9, <2>10, <2>11 DEF IInv
<1> QED BY <1>4, <1>5

LEMMA InitInv == JobInit => IInv
<1> SUFFICES ASSUME JobInit PROVE IInv
  OBVIOUS
<1>1. JobTypeOK
  BY DEF JobInit, JobTypeOK
<1>2. Holding /\ Queued /\ Running /\ Resting /\ OnlyAbortables /\ Phases
  BY DEF JobInit, Holding, Queued, Running, Resting, OnlyAbortables, Phases, Closed, Busy, Held
<1>3. EnoughWakeups
  BY CountsAreNat DEF JobInit, EnoughWakeups
<1> QED BY <1>1, <1>2, <1>3 DEF IInv

LEMMA NextInv == IInv /\ [JobNext]_jobVars => IInv'
<1> SUFFICES ASSUME IInv, [JobNext]_jobVars PROVE IInv'
  OBVIOUS
<1>1. CASE Start \/ Shutdown
  BY <1>1, StartStep, ShutdownStep
<1>2. CASE Proceed
  BY <1>2, SignalStep, LockStep, ScanStep, UnlockStep, AbortRunningStep, WakeStep,
     JoinStep DEF Proceed
<1>3. ASSUME NEW j \in Jobs, Add(j) \/ Abort(j) PROVE IInv'
  BY <1>3, AddStep, AbortStep
<1>4. ASSUME NEW w \in Workers, Work(w) PROVE IInv'
  <2>1. CASE Fetch(w)
    BY <2>1, FetchJobStep, FetchNothingStep
  <2> QED BY <1>4, <2>1, WaitStep, LeaveStep, ClaimStep, PushStep, ReturnStep,
             EraseStep, FinishStep DEF Work
<1>5. CASE UNCHANGED jobVars
  <2>1. /\ Fetching' = Fetching /\ Stopping' = Stopping
    BY <1>5 DEF jobVars, Fetching, Stopping
  <2>2. EnoughWakeups' /\ Phases' /\ JobTypeOK'
    BY <1>5, <2>1 DEF IInv, jobVars, mainVars, EnoughWakeups, Phases, Closed, JobTypeOK
  <2>3. Holding' /\ Queued' /\ Running' /\ Resting' /\ OnlyAbortables'
    BY <1>5 DEF IInv, jobVars, mainVars, Holding, Queued, Running, Resting,
                OnlyAbortables, Held, InQueue
  <2> QED BY <2>2, <2>3 DEF IInv
<1> QED BY <1>1, <1>2, <1>3, <1>4, <1>5 DEF JobNext
-----------------------------------------------------------------------------
\* Where the jobs are, and what the main thread and the workers know of it.
THEOREM Inductive == JobSpec => []IInv
  BY InitInv, NextInv, PTL DEF JobSpec

\* Every variable keeps its type; the semaphore never goes below 0.
THEOREM TypesOK == JobSpec => []JobTypeOK
  BY Inductive, PTL DEF IInv

\* No wakeup is lost, with any number of workers: Shutdown cannot wait for a
\* worker that nothing will wake up.
THEOREM NoWakeupLost == JobSpec => []EnoughWakeups
  BY Inductive, PTL DEF IInv

\* The results of a job in STATE_DONE can be read without a lock.
THEOREM DoneMeansFinished == JobSpec => []DoneIsFinished
<1>1. IInv => DoneIsFinished
  <2> SUFFICES ASSUME IInv, NEW j \in Jobs, jobState[j] = "done"
               PROVE  j \in ran /\ j \notin running /\ \A w \in Workers : job[w] # j
    BY DEF DoneIsFinished
  <2>1. ~Held(j)
    <3> SUFFICES ASSUME NEW w \in Workers, job[w] = j PROVE FALSE
      BY DEF Held
    <3>1. pc[w] \in Busy
      BY JobAssumption DEF IInv, Holding
    <3> QED BY <3>1 DEF IInv, Running
  <2> QED BY <2>1 DEF IInv, Resting, Running, Held
<1> QED BY <1>1, Inductive, PTL

\* When Shutdown has returned, every job the pool took has ended, those that
\* cannot be aborted by being done.
THEOREM ShutdownLeavesNothing == JobSpec => []NoneLeftBehind
<1>1. IInv => NoneLeftBehind
  <2> SUFFICES ASSUME IInv, Closed, NEW j \in Jobs, given[j] = "taken"
               PROVE  jobState[j] = "done" \/ (j \in Abortables /\ jobState[j] = "aborted")
    BY DEF NoneLeftBehind
  <2>1. \A w \in Workers : pc[w] = "exited"
    BY DEF IInv, Phases
  <2>2. queue = << >> /\ Len(queue) = 0
    BY <2>1, JobAssumption DEF IInv, Phases
  <2>3. ~Held(j)
    BY <2>1, JobAssumption DEF IInv, Holding, Busy, Held
  <2>4. ~InQueue(j)
    BY <2>2 DEF InQueue
  <2> QED BY <2>3, <2>4 DEF IInv, Resting, OnlyAbortables
<1> QED BY <1>1, Inductive, PTL

\* An accepted abort is never overwritten by a worker.
THEOREM AbortStays == JobSpec => AbortIsFinal
<1>1. IInv /\ [JobNext]_jobVars =>
        [\A j \in Jobs : jobState[j] = "aborted" => jobState'[j] = "aborted"]_jobVars
  <2> SUFFICES ASSUME IInv, JobNext, NEW j \in Jobs, jobState[j] = "aborted"
               PROVE  jobState'[j] = "aborted"
    OBVIOUS
  <2>0. JobTypeOK
    BY DEF IInv
  <2>1. ASSUME NEW jobs, jobState' = Aborted(jobs) PROVE jobState'[j] = "aborted"
    BY <2>1 DEF Aborted
  <2>2. ASSUME NEW w \in Workers, Work(w) PROVE jobState'[j] = "aborted"
    <3>1. CASE Claim(w) \/ Finish(w)
      BY <2>0, <3>1 DEF Claim, Finish, JobTypeOK
    <3>2. CASE Wait(w) \/ Fetch(w) \/ Leave(w) \/ Push(w) \/ Return(w) \/ Erase(w)
      BY <3>2 DEF Wait, Fetch, Leave, Push, Return, Erase
    <3> QED BY <2>2, <3>1, <3>2 DEF Work
  <2>3. CASE Proceed
    BY <2>1, <2>3 DEF Proceed, Signal, Lock, Scan, Unlock, AbortRunning, Wake, Join
  <2>4. ASSUME NEW k \in Jobs, Add(k) \/ Abort(k) PROVE jobState'[j] = "aborted"
    BY <2>1, <2>4 DEF Add, Abort
  <2>5. CASE Start \/ Shutdown
    BY <2>5 DEF Start, Shutdown
  <2> QED BY <2>2, <2>3, <2>4, <2>5 DEF JobNext
<1> QED BY <1>1, Inductive, PTL DEF JobSpec, AbortIsFinal

-----------------------------------------------------------------------------
(* The promise.                                                            *)

AtRun(j) == \E w \in Workers : pc[w] = "run" /\ job[w] = j
AtPush(j) == \E w \in Workers : pc[w] = "push" /\ job[w] = j

LifeByCases(j) ==
  IF given[j] = "no" THEN "new"
  ELSE IF given[j] = "refused" THEN "refused"
  ELSE IF AtRun(j) THEN "running"
  ELSE IF j \in ran THEN "over"
  ELSE IF jobState[j] = "aborted" /\ ~AtPush(j) THEN "dropped"
  ELSE "waiting"

LEMMA LifeIs ==
  ASSUME JobTypeOK, NEW j \in Jobs
  PROVE  Life(j) = LifeByCases(j)
<1>1. given[j] \in {"no", "taken", "refused"}
  BY DEF JobTypeOK
<1>2. CASE given[j] = "no"
  BY <1>2 DEF Life, LifeByCases
<1>3. CASE given[j] = "refused"
  BY <1>3 DEF Life, LifeByCases
<1>4. CASE given[j] = "taken"
  <2>1. CASE AtRun(j)
    BY <1>4, <2>1 DEF Life, LifeByCases, AtRun
  <2>2. CASE ~AtRun(j) /\ j \in ran
    BY <1>4, <2>2 DEF Life, LifeByCases, AtRun
  <2>3. CASE ~AtRun(j) /\ j \notin ran
    BY <1>4, <2>3 DEF Life, LifeByCases, AtRun, AtPush
  <2> QED BY <1>4, <2>1, <2>2, <2>3
<1> QED BY <1>1, <1>2, <1>3, <1>4

LEMMA LifeIsNext ==
  ASSUME NEW j \in Jobs
  PROVE  (JobTypeOK => Life(j) = LifeByCases(j))'
<1>1. JobTypeOK => Life(j) = LifeByCases(j)
  BY LifeIs
<1> QED BY <1>1, PTL

\* A step that leaves alone what the life of a job is read from.
LEMMA LifeSame ==
  ASSUME JobTypeOK, JobTypeOK', NEW j \in Jobs, given'[j] = given[j],
         AtRun(j)' <=> AtRun(j), AtPush(j)' <=> AtPush(j),
         j \in ran' <=> j \in ran,
         jobState'[j] = "aborted" <=> jobState[j] = "aborted"
  PROVE  Life(j)' = Life(j)
  BY LifeIs, LifeIsNext DEF LifeByCases

Lives == [k \in Jobs |-> Life(k)]

\* One job moves on, the others stay where they are.
LEMMA OneLifeMoves ==
  ASSUME NEW j \in Jobs, NEW to, Life(j)' = to,
         \A k \in Jobs : k # j => Life(k)' = Life(k)
  PROVE  Lives' = [Lives EXCEPT ![j] = to] /\ Lives[j] = Life(j)
  BY DEF Lives

LEMMA NoLifeMoves ==
  ASSUME \A k \in Jobs : Life(k)' = Life(k) PROVE Lives' = Lives
  BY DEF Lives

\* A worker that neither starts nor ends a job changes no life.
LEMMA WorkerQuiet ==
  ASSUME JobTypeOK, JobTypeOK', NEW w \in Workers,
         \A v \in Workers : v # w => pc'[v] = pc[v] /\ job'[v] = job[v],
         pc[w] \notin {"run", "push"}, pc'[w] \notin {"run", "push"},
         given' = given, ran' = ran,
         \A j \in Jobs : jobState'[j] = "aborted" <=> jobState[j] = "aborted"
  PROVE  Lives' = Lives
<1> SUFFICES ASSUME NEW k \in Jobs PROVE Life(k)' = Life(k)
  BY NoLifeMoves
<1>1. (AtRun(k)' <=> AtRun(k)) /\ (AtPush(k)' <=> AtPush(k))
  BY DEF AtRun, AtPush
<1> QED BY <1>1, LifeSame

LEMMA WorkMapped ==
  ASSUME IInv, IInv', NEW w \in Workers, Work(w)
  PROVE  \/ \E j \in Jobs : Promise!Start(j) \/ Promise!End(j)
         \/ UNCHANGED <<Lives, Closed>>
<1>0. /\ JobTypeOK /\ JobTypeOK' /\ Holding /\ Running
      /\ pc \in [Workers -> {"wait", "fetch", "empty", "claim", "push", "run",
                             "erase", "finish", "exited"}]
      /\ job \in [Workers -> Jobs \cup {NoJob}]
      /\ jobState \in [Jobs -> {"queued", "running", "done", "aborted"}]
      /\ NoJob \notin Jobs
  BY JobAssumption DEF IInv, JobTypeOK
<1>1. /\ UNCHANGED <<shutdown, main, given>> /\ Closed' = Closed
  BY DEF Work, Wait, Fetch, Leave, Claim, Push, Return, Erase, Finish, mainVars, Closed
<1>2. CASE Wait(w) \/ Leave(w) \/ Fetch(w) \/ Erase(w)
  <2>1. /\ \A v \in Workers : v # w => pc'[v] = pc[v] /\ job'[v] = job[v]
        /\ pc[w] \notin {"run", "push"} /\ pc'[w] \notin {"run", "push"}
        /\ ran' = ran /\ jobState' = jobState
    BY <1>0, <1>2 DEF Wait, Leave, Fetch, Erase
  <2> QED BY <1>0, <1>1, <2>1, WorkerQuiet
<1>3. CASE Finish(w) \/ (Claim(w) /\ jobState[job[w]] = "aborted")
  <2>1. pc[w] \in Busy /\ job[w] \in Jobs
    BY <1>0, <1>3 DEF Finish, Claim, Busy, Holding
  <2>2. \A j \in Jobs : jobState'[j] = "aborted" <=> jobState[j] = "aborted"
    BY <1>0, <1>3, <2>1 DEF Finish, Claim
  <2>3. /\ \A v \in Workers : v # w => pc'[v] = pc[v] /\ job'[v] = job[v]
        /\ pc[w] \notin {"run", "push"} /\ pc'[w] \notin {"run", "push"}
        /\ ran' = ran
    BY <1>0, <1>3 DEF Finish, Claim
  <2> QED BY <1>0, <1>1, <2>2, <2>3, WorkerQuiet
<1>4. CASE Claim(w) /\ jobState[job[w]] # "aborted"
  <2> DEFINE h == job[w]
  <2>1. /\ pc[w] = "claim" /\ h \in Jobs /\ h \notin ran /\ given[h] = "taken"
        /\ jobState[h] = "queued" /\ jobState' = [jobState EXCEPT ![h] = "running"]
        /\ pc' = [pc EXCEPT ![w] = "push"] /\ job' = job /\ ran' = ran
    BY <1>0, <1>4 DEF Claim, Busy, Holding, Running
  <2>2. /\ \A k \in Jobs : AtRun(k)' <=> AtRun(k)
        /\ \A k \in Jobs : k # h => (AtPush(k)' <=> AtPush(k))
        /\ \A k \in Jobs : jobState'[k] = "aborted" <=> jobState[k] = "aborted"
    BY <1>0, <2>1 DEF AtRun, AtPush
  <2>3. \A k \in Jobs : k # h => Life(k)' = Life(k)
    BY <1>0, <1>1, <2>1, <2>2, LifeSame
  <2>4. \A k \in Jobs : k = h => Life(k)' = Life(k)
    BY <1>0, <1>1, <2>1, <2>2, LifeIs, LifeIsNext DEF LifeByCases
  <2>5. \A k \in Jobs : Life(k)' = Life(k)
    BY <2>3, <2>4
  <2> QED BY <1>1, <2>5, NoLifeMoves
<1>5. CASE Push(w)
  <2> DEFINE h == job[w]
  <2>1. /\ pc[w] = "push" /\ h \in Jobs /\ h \notin ran /\ given[h] = "taken"
        /\ jobState' = jobState /\ pc' = [pc EXCEPT ![w] = "run"] /\ job' = job /\ ran' = ran
    BY <1>0, <1>5 DEF Push, Busy, Holding, Running
  <2>2. \A v \in Workers : job[v] = h => v = w
    BY <1>0, <2>1 DEF Holding
  <2>3. /\ \A k \in Jobs : k # h => (AtRun(k)' <=> AtRun(k)) /\ (AtPush(k)' <=> AtPush(k))
        /\ AtPush(h) /\ ~AtRun(h) /\ AtRun(h)'
    BY <1>0, <2>1, <2>2 DEF AtRun, AtPush
  <2>4. \A k \in Jobs : k # h => Life(k)' = Life(k)
    BY <1>0, <1>1, <2>1, <2>3, LifeSame
  <2>5. Life(h) = "waiting" /\ Life(h)' = "running"
    BY <1>0, <1>1, <2>1, <2>3, LifeIs, LifeIsNext DEF LifeByCases
  <2>6. Lives' = [Lives EXCEPT ![h] = "running"] /\ Lives[h] = "waiting"
    BY <2>1, <2>4, <2>5, OneLifeMoves
  <2>7. Promise!Start(h)
    BY <1>1, <2>6 DEF Promise!Start, Promise!Move, Lives
  <2> QED BY <2>1, <2>7
<1>6. CASE Return(w)
  <2> DEFINE h == job[w]
  <2>1. /\ pc[w] = "run" /\ h \in Jobs /\ given[h] = "taken" /\ ran' = ran \cup {h}
        /\ jobState' = jobState /\ pc' = [pc EXCEPT ![w] = "erase"] /\ job' = job
    BY <1>0, <1>6 DEF Return, Busy, Holding, Running
  <2>2. \A v \in Workers : job[v] = h => v = w
    BY <1>0, <2>1 DEF Holding
  <2>3. /\ \A k \in Jobs : k # h => (AtRun(k)' <=> AtRun(k)) /\ (AtPush(k)' <=> AtPush(k))
        /\ AtRun(h) /\ ~AtRun(h)'
    BY <1>0, <2>1, <2>2 DEF AtRun, AtPush
  <2>4. \A k \in Jobs : k # h => Life(k)' = Life(k)
    BY <1>0, <1>1, <2>1, <2>3, LifeSame
  <2>5. Life(h) = "running" /\ Life(h)' = "over"
    BY <1>0, <1>1, <2>1, <2>3, LifeIs, LifeIsNext DEF LifeByCases
  <2>6. Lives' = [Lives EXCEPT ![h] = "over"] /\ Lives[h] = "running"
    BY <2>1, <2>4, <2>5, OneLifeMoves
  <2>7. Promise!End(h)
    BY <1>1, <2>6 DEF Promise!End, Promise!Move, Lives
  <2> QED BY <2>1, <2>7
<1> QED BY <1>2, <1>3, <1>4, <1>5, <1>6 DEF Work

\* The abort of one job drops it, unless it was started.
LEMMA AbortMapped ==
  ASSUME IInv, IInv', NEW j \in Jobs, j \in Abortables, jobState' = Aborted({j}),
         UNCHANGED <<pc, job, given, ran, Closed>>
  PROVE  Promise!Drop(j) \/ UNCHANGED <<Lives, Closed>>
<1>0. JobTypeOK /\ JobTypeOK'
  BY DEF IInv
<1>1. /\ \A k \in Jobs : (AtRun(k)' <=> AtRun(k)) /\ (AtPush(k)' <=> AtPush(k))
      /\ \A k \in Jobs : k # j => jobState'[k] = jobState[k]
      /\ jobState'[j] = "aborted"
  BY <1>0 DEF AtRun, AtPush, Aborted, JobTypeOK
<1>2. \A k \in Jobs : k # j => Life(k)' = Life(k)
  BY <1>0, <1>1, LifeSame
<1>3. Life(j)' = Life(j) \/ (Life(j) = "waiting" /\ Life(j)' = "dropped")
  BY <1>0, <1>1, LifeIs, LifeIsNext DEF LifeByCases
<1>4. CASE Life(j)' = Life(j)
  BY <1>2, <1>4, NoLifeMoves
<1>5. CASE Life(j) = "waiting" /\ Life(j)' = "dropped"
  <2>1. Lives' = [Lives EXCEPT ![j] = "dropped"] /\ Lives[j] = "waiting"
    BY <1>2, <1>5, OneLifeMoves
  <2> QED BY <2>1 DEF Promise!Drop, Promise!Move, Lives
<1> QED BY <1>3, <1>4, <1>5

LEMMA AddMapped ==
  ASSUME IInv, IInv', NEW j \in Jobs, Add(j)
  PROVE  Promise!Take(j) \/ Promise!Refuse(j) \/ Promise!Drop(j)
<1>0. /\ JobTypeOK /\ JobTypeOK' /\ given[j] = "no" /\ main = "free"
      /\ UNCHANGED <<shutdown, pc, job, ran>>
  BY DEF IInv, Add
<1>1. /\ \A k \in Jobs : (AtRun(k)' <=> AtRun(k)) /\ (AtPush(k)' <=> AtPush(k))
      /\ \A k \in Jobs : k # j => jobState'[k] = jobState[k] /\ given'[k] = given[k]
  BY <1>0 DEF Add, AtRun, AtPush, Aborted, JobTypeOK
<1>2. \A k \in Jobs : k # j => Life(k)' = Life(k)
  BY <1>0, <1>1, LifeSame
<1>3. Life(j) = "new"
  BY <1>0, LifeIs DEF LifeByCases
<1>4. CASE shutdown
  <2>1. given'[j] = "refused" /\ main' = "free" /\ Closed /\ Closed' /\ Closed' = Closed
    BY <1>0, <1>4 DEF Add, Closed, JobTypeOK
  <2>2. Life(j)' = "refused"
    BY <1>0, <2>1, LifeIsNext DEF LifeByCases
  <2>3. Lives' = [Lives EXCEPT ![j] = "refused"] /\ Lives[j] = "new"
    BY <1>2, <1>3, <2>2, OneLifeMoves
  <2>4. Promise!Refuse(j)
    BY <2>1, <2>3 DEF Promise!Refuse, Promise!Move, Lives
  <2> QED BY <2>4
<1>5. CASE ~shutdown
  <2>1. given'[j] = "taken" /\ jobState' = jobState /\ ~Closed /\ ~Closed' /\ Closed' = Closed
    BY <1>0, <1>5 DEF Add, Closed, JobTypeOK
  <2>2. ~Held(j) /\ j \notin ran
    <3>1. ~Held(j)
      <4> SUFFICES ASSUME NEW w \in Workers, job[w] = j PROVE FALSE
        BY DEF Held
      <4> QED BY <1>0, JobAssumption DEF IInv, Holding, Running
    <3> QED BY <1>0, <3>1 DEF IInv, Resting
  <2>3. ~AtRun(j) /\ ~AtPush(j)
    BY <2>2 DEF AtRun, AtPush, Held
  <2>4. CASE jobState[j] = "aborted"
    <3>1. Life(j)' = "dropped" /\ j \in Abortables
      BY <1>0, <1>1, <2>1, <2>2, <2>3, <2>4, LifeIsNext DEF LifeByCases, IInv, OnlyAbortables
    <3>2. Lives' = [Lives EXCEPT ![j] = "dropped"] /\ Lives[j] = "new"
      BY <1>2, <1>3, <3>1, OneLifeMoves
    <3>3. Promise!Drop(j)
      BY <2>1, <3>1, <3>2 DEF Promise!Drop, Promise!Move, Lives
    <3> QED BY <3>3
  <2>5. CASE jobState[j] # "aborted"
    <3>1. Life(j)' = "waiting"
      BY <1>0, <1>1, <2>1, <2>2, <2>3, <2>5, LifeIsNext DEF LifeByCases
    <3>2. Lives' = [Lives EXCEPT ![j] = "waiting"] /\ Lives[j] = "new"
      BY <1>2, <1>3, <3>1, OneLifeMoves
    <3>3. Promise!Take(j)
      BY <2>1, <3>2 DEF Promise!Take, Promise!Move, Lives
    <3> QED BY <3>3
  <2> QED BY <2>4, <2>5
<1> QED BY <1>4, <1>5

LEMMA StartMapped ==
  ASSUME IInv, IInv', Start
  PROVE  Promise!Open
<1>0. /\ JobTypeOK /\ JobTypeOK' /\ Closed /\ ~Closed' /\ given' = given /\ ran' = ran
      /\ jobState' = jobState /\ pc' = [w \in Workers |-> "wait"] /\ job' = job
      /\ \A w \in Workers : pc[w] = "exited"
  BY DEF IInv, Phases, Start, Closed, mainVars
<1>1. \A k \in Jobs : (AtRun(k)' <=> AtRun(k)) /\ (AtPush(k)' <=> AtPush(k))
  BY <1>0 DEF AtRun, AtPush
<1>2. \A k \in Jobs : Life(k)' = Life(k)
  BY <1>0, <1>1, LifeSame
<1>3. Lives' = Lives
  BY <1>2, NoLifeMoves
<1> QED BY <1>0, <1>3 DEF Promise!Open, Lives

LEMMA JoinMapped ==
  ASSUME IInv, IInv', Join
  PROVE  Promise!Close
<1>0. /\ JobTypeOK /\ JobTypeOK' /\ main = "wake" /\ shutdown /\ shutdown' /\ main' = "free"
      /\ UNCHANGED <<jobState, pc, job, given, ran>>
      /\ \A w \in Workers : pc[w] = "exited"
  BY DEF IInv, Phases, Join
<1>1. ~Closed /\ Closed'
  BY <1>0 DEF Closed
<1>2. \A k \in Jobs : ~AtRun(k) /\ ~AtPush(k) /\ ~AtRun(k)' /\ ~AtPush(k)'
  BY <1>0 DEF AtRun, AtPush
<1>3. \A k \in Jobs : Life(k)' = Life(k)
  BY <1>0, <1>2, LifeSame
<1>4. Lives' = Lives
  BY <1>3, NoLifeMoves
<1>5. ASSUME NEW k \in Jobs PROVE Life(k) \notin {"waiting", "running"}
  <2>1. queue = << >> /\ Len(queue) = 0
    BY <1>0, JobAssumption DEF IInv, Phases
  <2>2. ~Held(k) /\ ~InQueue(k)
    BY <1>0, <2>1, JobAssumption DEF IInv, Holding, Busy, Held, InQueue
  <2>3. given[k] \in {"no", "taken", "refused"}
    BY <1>0 DEF JobTypeOK
  <2>4. given[k] = "taken" => k \in ran \/ jobState[k] = "aborted"
    BY <2>2 DEF IInv, Resting
  <2> QED BY <1>0, <1>2, <2>3, <2>4, LifeIs DEF LifeByCases
<1>6. \A k \in Jobs : Lives[k] \notin {"waiting", "running"}
  BY <1>5 DEF Lives
<1> QED BY <1>1, <1>4, <1>6 DEF Promise!Close, Lives

LEMMA ProceedMapped ==
  ASSUME IInv, IInv', Proceed
  PROVE  \/ Promise!Close \/ \E j \in Jobs : Promise!Drop(j)
         \/ UNCHANGED <<Lives, Closed>>
<1>0. JobTypeOK /\ JobTypeOK' /\ Phases
  BY DEF IInv
<1>1. CASE Join
  BY <1>1, JoinMapped
<1>2. CASE Signal \/ Lock \/ Unlock \/ Wake
  <2>1. UNCHANGED <<jobState, pc, job, given, ran>> /\ Closed' = Closed
    BY <1>0, <1>2 DEF Signal, Lock, Unlock, Wake, Closed, Phases
  <2>2. \A k \in Jobs : (AtRun(k)' <=> AtRun(k)) /\ (AtPush(k)' <=> AtPush(k))
    BY <2>1 DEF AtRun, AtPush
  <2>3. \A k \in Jobs : Life(k)' = Life(k)
    BY <1>0, <2>1, <2>2, LifeSame
  <2> QED BY <2>1, <2>3, NoLifeMoves
<1>3. CASE AbortRunning
  <2>1. /\ UNCHANGED <<pc, job, given, ran>> /\ Closed' = Closed
        /\ jobState' = Aborted(running)
    BY <1>0, <1>3 DEF AbortRunning, Closed, Phases
  <2>2. \A k \in Jobs : (AtRun(k)' <=> AtRun(k)) /\ (AtPush(k)' <=> AtPush(k))
    BY <2>1 DEF AtRun, AtPush
  <2>3. ASSUME NEW k \in Jobs, k \notin running PROVE Life(k)' = Life(k)
    <3>1. jobState'[k] = jobState[k]
      BY <2>1, <2>3 DEF Aborted
    <3> QED BY <1>0, <2>1, <2>2, <3>1, LifeSame
  <2>4. ASSUME NEW k \in Jobs, k \in running PROVE Life(k)' = Life(k)
    <3>1. PICK w \in Workers : job[w] = k
      BY <2>4 DEF IInv, Running, Held
    <3>2. pc[w] \in {"run", "erase"} /\ (k \in ran <=> pc[w] \in {"erase", "finish"})
      BY <2>4, <3>1, JobAssumption DEF IInv, Running, Holding
    <3>3. AtRun(k) \/ k \in ran
      BY <3>1, <3>2 DEF AtRun
    <3> QED BY <1>0, <2>1, <2>2, <3>3, LifeIs, LifeIsNext DEF LifeByCases
  <2> QED BY <2>1, <2>3, <2>4, NoLifeMoves
<1>4. CASE Scan
  <2> DEFINE h == queue[scan]
  <2>1. /\ UNCHANGED <<pc, job, given, ran>> /\ Closed' = Closed
        /\ jobState' = Aborted({h}) /\ h \in Jobs
    BY <1>0, <1>4 DEF Scan, Closed, Phases, JobTypeOK
  <2>2. CASE h \in Abortables
    BY <2>1, <2>2, AbortMapped
  <2>3. CASE h \notin Abortables
    <3>1. jobState' = jobState
      BY <1>0, <2>1, <2>3 DEF Aborted, JobTypeOK
    <3>2. \A k \in Jobs : (AtRun(k)' <=> AtRun(k)) /\ (AtPush(k)' <=> AtPush(k))
      BY <2>1 DEF AtRun, AtPush
    <3>3. \A k \in Jobs : Life(k)' = Life(k)
      BY <1>0, <2>1, <3>1, <3>2, LifeSame
    <3> QED BY <2>1, <3>3, NoLifeMoves
  <2> QED BY <2>1, <2>2, <2>3
<1> QED BY <1>1, <1>2, <1>3, <1>4 DEF Proceed

\* The pool keeps its promise: every job it took runs once, or was aborted
\* before its start, and Shutdown returns when none waits or runs.
THEOREM KeepsPromise == JobSpec => PromiseSpec
<1>1. JobInit => Promise!Init
  <2> SUFFICES ASSUME JobInit PROVE Lives = [k \in Jobs |-> "new"] /\ Closed
    BY DEF Promise!Init, Lives
  <2>1. JobTypeOK
    BY InitInv DEF IInv
  <2>2. \A k \in Jobs : Life(k) = "new"
    BY <2>1, LifeIs DEF JobInit, LifeByCases
  <2> QED BY <2>2 DEF JobInit, Closed, Lives
<1>2. IInv /\ IInv' /\ [JobNext]_jobVars => [Promise!Next]_(Promise!vars)
  <2> SUFFICES ASSUME IInv, IInv', [JobNext]_jobVars
               PROVE  Promise!Next \/ UNCHANGED <<Lives, Closed>>
    BY DEF Promise!vars, Lives
  <2>0. JobTypeOK /\ JobTypeOK' /\ Phases
    BY DEF IInv
  <2>1. CASE Start
    BY <2>1, StartMapped DEF Promise!Next
  <2>2. CASE Proceed
    BY <2>2, ProceedMapped DEF Promise!Next
  <2>3. ASSUME NEW j \in Jobs, Add(j) PROVE Promise!Next
    BY <2>3, AddMapped DEF Promise!Next
  <2>4. ASSUME NEW j \in Jobs, Abort(j)
        PROVE  Promise!Next \/ UNCHANGED <<Lives, Closed>>
    <3>1. /\ j \in Abortables /\ jobState' = Aborted({j}) /\ Closed' = Closed
          /\ UNCHANGED <<pc, job, given, ran>>
      BY <2>4 DEF Abort, mainVars, Closed
    <3> QED BY <3>1, AbortMapped DEF Promise!Next
  <2>5. ASSUME NEW w \in Workers, Work(w)
        PROVE  Promise!Next \/ UNCHANGED <<Lives, Closed>>
    BY <2>5, WorkMapped DEF Promise!Next
  <2>6. CASE Shutdown \/ UNCHANGED jobVars
    <3>1. UNCHANGED <<jobState, pc, job, given, ran>> /\ Closed' = Closed
      BY <2>6 DEF Shutdown, Closed, jobVars, mainVars
    <3>2. \A k \in Jobs : (AtRun(k)' <=> AtRun(k)) /\ (AtPush(k)' <=> AtPush(k))
      BY <3>1 DEF AtRun, AtPush
    <3>3. \A k \in Jobs : Life(k)' = Life(k)
      BY <2>0, <3>1, <3>2, LifeSame
    <3> QED BY <3>1, <3>3, NoLifeMoves
  <2> QED BY <2>1, <2>2, <2>3, <2>4, <2>5, <2>6 DEF JobNext
<1> QED BY <1>1, <1>2, Inductive, PTL DEF JobSpec, PromiseSpec, Promise!Spec

=============================================================================
