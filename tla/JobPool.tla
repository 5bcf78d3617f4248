------------------------------ MODULE JobPool ------------------------------
(***************************************************************************)
(* CJobPool: the main thread hands jobs to worker threads through a queue, *)
(* a lock and a semaphore, and Shutdown gets the workers to stop.  A step  *)
(* is what a thread does under a lock, or one access of an atomic or of    *)
(* the semaphore.                                                          *)
(*                                                                         *)
(* Init, Shutdown and Add are called by the main thread only, a job is     *)
(* handed over once, and whether it is abortable is settled when it is     *)
(* created: so it is everywhere in the code.                               *)
(***************************************************************************)
EXTENDS Integers, Sequences, FiniteSets

CONSTANTS Jobs,        \* the jobs the program creates
          Abortables,  \* those with m_Abortable set
          Workers,     \* the worker threads
          NoJob        \* a null pointer

ASSUME JobAssumption ==
  /\ Abortables \subseteq Jobs
  /\ NoJob \notin Jobs
  /\ IsFiniteSet(Workers)
  /\ Workers # {}

VARIABLES
  shutdown,   \* m_Shutdown
  queue,      \* the list from m_pFirstJob to m_pLastJob
  sem,        \* m_Semaphore
  running,    \* m_RunningJobs
  jobState,      \* m_State of each job
  pc,         \* where each worker is in RunLoop
  job,        \* pJob of each worker
  main,       \* where the main thread is in Add or Shutdown
  scan,       \* how far Shutdown is in the queue, with m_Lock held; or 0
  wakeups,    \* the signals Shutdown has yet to give
  given,      \* history: whether the pool took the job
  ran         \* history: the jobs whose Run has returned

mainVars == <<main, scan, wakeups, given>>
jobVars == <<shutdown, queue, sem, running, jobState, pc, job, mainVars, ran>>

JobTypeOK ==
  /\ shutdown \in BOOLEAN
  /\ queue \in Seq(Jobs)
  /\ sem \in Nat
  /\ running \subseteq Jobs
  /\ jobState \in [Jobs -> {"queued", "running", "done", "aborted"}]
  /\ pc \in [Workers -> {"wait", "fetch", "empty", "claim", "push", "run",
                         "erase", "finish", "exited"}]
  /\ job \in [Workers -> Jobs \cup {NoJob}]
  /\ main \in {"free", "signal", "lock", "scan", "abort", "wake"}
  /\ scan \in Nat
  /\ wakeups \in Nat
  /\ given \in [Jobs -> {"no", "taken", "refused"}]
  /\ ran \subseteq Jobs

\* The pool before Init was called.
JobInit ==
  /\ shutdown = TRUE
  /\ queue = << >>
  /\ sem = 0
  /\ running = {}
  /\ jobState = [j \in Jobs |-> "queued"]
  /\ pc = [w \in Workers |-> "exited"]
  /\ job = [w \in Workers |-> NoJob]
  /\ main = "free"
  /\ scan = 0
  /\ wakeups = 0
  /\ given = [j \in Jobs |-> "no"]
  /\ ran = {}

\* IJob::Abort on the jobs of a set.
Aborted(jobs) ==
  [j \in Jobs |-> IF j \in jobs \cap Abortables THEN "aborted" ELSE jobState[j]]

Without(s, n) == [i \in 1 .. Len(s) - 1 |-> IF i < n THEN s[i] ELSE s[i + 1]]
-----------------------------------------------------------------------------
(* The main thread.                                                        *)

\* CJobPool::Init.
Start ==
  /\ main = "free"
  /\ shutdown
  /\ shutdown' = FALSE
  /\ queue' = << >>
  /\ sem' = 0
  /\ pc' = [w \in Workers |-> "wait"]
  /\ UNCHANGED <<running, jobState, job, mainVars, ran>>

\* CJobPool::Add up to the end of the critical section ...
Add(j) ==
  /\ main = "free"
  /\ given[j] = "no"
  /\ \/ /\ shutdown
        /\ jobState' = Aborted({j})
        /\ given' = [given EXCEPT ![j] = "refused"]
        /\ UNCHANGED <<queue, main>>
     \/ /\ ~shutdown
        /\ queue' = Append(queue, j)
        /\ given' = [given EXCEPT ![j] = "taken"]
        /\ main' = "signal"
        /\ UNCHANGED jobState
  /\ UNCHANGED <<shutdown, sem, running, pc, job, scan, wakeups, ran>>

\* ... and the signal.
Signal ==
  /\ main = "signal"
  /\ sem' = sem + 1
  /\ main' = "free"
  /\ UNCHANGED <<shutdown, queue, running, jobState, pc, job, scan, wakeups, given, ran>>

\* CJobPool::Shutdown sets the flag, ...
Shutdown ==
  /\ main = "free"
  /\ ~shutdown
  /\ shutdown' = TRUE
  /\ main' = "lock"
  /\ UNCHANGED <<queue, sem, running, jobState, pc, job, scan, wakeups, given, ran>>

\* ... takes the lock, ...
Lock ==
  /\ main = "lock"
  /\ main' = "scan"
  /\ scan' = 1
  /\ UNCHANGED <<shutdown, queue, sem, running, jobState, pc, job, wakeups, given, ran>>

\* Seeded bug: jobs that cannot be aborted are taken out too.
ScanDropsAll ==
  /\ main = "scan"
  /\ scan <= Len(queue)
  /\ jobState' = Aborted({queue[scan]})
  /\ queue' = Without(queue, scan)
  /\ UNCHANGED <<shutdown, sem, running, pc, job, mainVars, ran>>

\* ... aborts the queued jobs, taking out those that can be aborted, ...
Scan ==
  /\ main = "scan"
  /\ scan <= Len(queue)
  /\ jobState' = Aborted({queue[scan]})
  /\ \/ /\ queue[scan] \in Abortables
        /\ queue' = Without(queue, scan)
        /\ UNCHANGED scan
     \/ /\ queue[scan] \notin Abortables
        /\ scan' = scan + 1
        /\ UNCHANGED queue
  /\ UNCHANGED <<shutdown, sem, running, pc, job, main, wakeups, given, ran>>

\* ... gives the lock back, ...
Unlock ==
  /\ main = "scan"
  /\ scan > Len(queue)
  /\ main' = "abort"
  /\ scan' = 0
  /\ UNCHANGED <<shutdown, queue, sem, running, jobState, pc, job, wakeups, given, ran>>

\* Seeded bug: one signal is to wake up all workers.
AbortRunningWakesOne ==
  /\ main = "abort"
  /\ jobState' = Aborted(running)
  /\ main' = "wake"
  /\ wakeups' = 1
  /\ UNCHANGED <<shutdown, queue, sem, running, pc, job, scan, given, ran>>

\* ... aborts the running jobs, ...
AbortRunning ==
  /\ main = "abort"
  /\ jobState' = Aborted(running)
  /\ main' = "wake"
  /\ wakeups' = Cardinality(Workers)
  /\ UNCHANGED <<shutdown, queue, sem, running, pc, job, scan, given, ran>>

\* ... signals once for every worker ...
Wake ==
  /\ main = "wake"
  /\ wakeups > 0
  /\ sem' = sem + 1
  /\ wakeups' = wakeups - 1
  /\ UNCHANGED <<shutdown, queue, running, jobState, pc, job, main, scan, given, ran>>

\* ... and waits for their end.
Join ==
  /\ main = "wake"
  /\ wakeups = 0
  /\ \A w \in Workers : pc[w] = "exited"
  /\ sem' = 0
  /\ main' = "free"
  /\ UNCHANGED <<shutdown, queue, running, jobState, pc, job, scan, wakeups, given, ran>>

\* IJob::Abort, called by the owner of a job.
Abort(j) ==
  /\ j \in Abortables
  /\ jobState' = Aborted({j})
  /\ UNCHANGED <<shutdown, queue, sem, running, pc, job, mainVars, ran>>
-----------------------------------------------------------------------------
(* A worker thread, CJobPool::RunLoop.                                     *)

Wait(w) ==
  /\ pc[w] = "wait"
  /\ sem > 0
  /\ sem' = sem - 1
  /\ pc' = [pc EXCEPT ![w] = "fetch"]
  /\ UNCHANGED <<shutdown, queue, running, jobState, job, mainVars, ran>>

Fetch(w) ==
  /\ pc[w] = "fetch"
  /\ scan = 0
  /\ \/ /\ queue # << >>
        /\ job' = [job EXCEPT ![w] = Head(queue)]
        /\ queue' = Tail(queue)
        /\ pc' = [pc EXCEPT ![w] = "claim"]
     \/ /\ queue = << >>
        /\ pc' = [pc EXCEPT ![w] = "empty"]
        /\ UNCHANGED <<queue, job>>
  /\ UNCHANGED <<shutdown, sem, running, jobState, mainVars, ran>>

\* There was no job: leave the loop when the pool shuts down.
Leave(w) ==
  /\ pc[w] = "empty"
  /\ pc' = [pc EXCEPT ![w] = IF shutdown THEN "exited" ELSE "wait"]
  /\ UNCHANGED <<shutdown, queue, sem, running, jobState, job, mainVars, ran>>

\* Seeded bug: an aborted job is run too.
ClaimAny(w) ==
  /\ pc[w] = "claim"
  /\ jobState' = [jobState EXCEPT ![job[w]] = IF @ = "queued" THEN "running" ELSE @]
  /\ pc' = [pc EXCEPT ![w] = "push"]
  /\ UNCHANGED <<shutdown, queue, sem, running, job, mainVars, ran>>

\* From STATE_QUEUED to STATE_RUNNING, unless the job has been aborted.
Claim(w) ==
  /\ pc[w] = "claim"
  /\ \/ /\ jobState[job[w]] = "queued"
        /\ jobState' = [jobState EXCEPT ![job[w]] = "running"]
        /\ pc' = [pc EXCEPT ![w] = "push"]
        /\ UNCHANGED job
     \/ /\ jobState[job[w]] = "aborted"
        /\ pc' = [pc EXCEPT ![w] = "wait"]
        /\ job' = [job EXCEPT ![w] = NoJob]
        /\ UNCHANGED jobState
  /\ UNCHANGED <<shutdown, queue, sem, running, mainVars, ran>>

\* Remember the job in m_RunningJobs and call its Run ...
Push(w) ==
  /\ pc[w] = "push"
  /\ running' = running \cup {job[w]}
  /\ pc' = [pc EXCEPT ![w] = "run"]
  /\ UNCHANGED <<shutdown, queue, sem, jobState, job, mainVars, ran>>

\* Seeded bug: the state is set when Run returns, with the job still listed.
ReturnDone(w) ==
  /\ pc[w] = "run"
  /\ ran' = ran \cup {job[w]}
  /\ jobState' = [jobState EXCEPT ![job[w]] = IF @ = "running" THEN "done" ELSE @]
  /\ pc' = [pc EXCEPT ![w] = "erase"]
  /\ UNCHANGED <<shutdown, queue, sem, running, job, mainVars>>

\* ... which returns.
Return(w) ==
  /\ pc[w] = "run"
  /\ ran' = ran \cup {job[w]}
  /\ pc' = [pc EXCEPT ![w] = "erase"]
  /\ UNCHANGED <<shutdown, queue, sem, running, jobState, job, mainVars>>

Erase(w) ==
  /\ pc[w] = "erase"
  /\ running' = running \ {job[w]}
  /\ pc' = [pc EXCEPT ![w] = "finish"]
  /\ UNCHANGED <<shutdown, queue, sem, jobState, job, mainVars, ran>>

\* From STATE_RUNNING to STATE_DONE, unless the job has been aborted.
Finish(w) ==
  /\ pc[w] = "finish"
  /\ jobState' = [jobState EXCEPT ![job[w]] = IF @ = "running" THEN "done" ELSE @]
  /\ pc' = [pc EXCEPT ![w] = "wait"]
  /\ job' = [job EXCEPT ![w] = NoJob]
  /\ UNCHANGED <<shutdown, queue, sem, running, mainVars, ran>>

Work(w) == \/ Wait(w) \/ Fetch(w) \/ Leave(w) \/ Claim(w) \/ Push(w)
           \/ Return(w) \/ Erase(w) \/ Finish(w)

\* What the main thread does once it is in Add or in Shutdown.
Proceed == Signal \/ Lock \/ Scan \/ Unlock \/ AbortRunning \/ Wake \/ Join

JobNext == \/ Start \/ Shutdown \/ Proceed
        \/ \E j \in Jobs : Add(j) \/ Abort(j)
        \/ \E w \in Workers : Work(w)

JobSpec == JobInit /\ [][JobNext]_jobVars

\* The threads are scheduled, and Run returns.
JobFairness == WF_jobVars(Proceed) /\ \A w \in Workers : WF_jobVars(Work(w))
-----------------------------------------------------------------------------
(* Properties.                                                             *)

Closed == shutdown /\ main = "free"

\* A job whose state is STATE_DONE has run to its end and no worker touches it
\* any more: its results can be used without a lock.
DoneIsFinished ==
  \A j \in Jobs : jobState[j] = "done" =>
    j \in ran /\ j \notin running /\ \A w \in Workers : job[w] # j

\* An accepted abort stays: no worker overwrites it with another state, although
\* it may come between any two steps of the worker.
AbortIsFinal ==
  [][\A j \in Jobs : jobState[j] = "aborted" => jobState'[j] = "aborted"]_jobVars

\* When Shutdown has returned, no job it took is left: one that cannot be
\* aborted is done, the others are done or aborted, and no worker runs.
NoneLeftBehind ==
  Closed => \A j \in Jobs : given[j] = "taken" =>
    \/ jobState[j] = "done"
    \/ j \in Abortables /\ jobState[j] = "aborted"

Fetching == {w \in Workers : pc[w] = "fetch"}
Stopping == {w \in Workers : pc[w] \notin {"empty", "exited"}}

\* No wakeup is lost: there is one for every job in the queue, whoever takes
\* it, and while Shutdown waits there is one more for every worker to stop.
EnoughWakeups ==
  LET awake == sem + Cardinality(Fetching) IN
  /\ ~shutdown => awake + (IF main = "signal" THEN 1 ELSE 0) = Len(queue)
  /\ shutdown => awake >= Len(queue)
  /\ main = "wake" => awake + wakeups >= Len(queue) + Cardinality(Stopping)

Life(j) ==
  LET at(where) == \E w \in Workers : pc[w] = where /\ job[w] = j IN
  CASE given[j] = "no" -> "new"
    [] given[j] = "refused" -> "refused"
    [] given[j] = "taken" /\ at("run") -> "running"
    [] given[j] = "taken" /\ ~at("run") /\ j \in ran -> "over"
    [] given[j] = "taken" /\ ~at("run") /\ j \notin ran ->
         IF jobState[j] = "aborted" /\ ~at("push") THEN "dropped" ELSE "waiting"

\* The job pool keeps its promise: a job is run once, and not after an abort
\* that came before its start; Shutdown returns when no job waits or runs.
Promise == INSTANCE JobPromise
  WITH life <- [j \in Jobs |-> Life(j)], open <- ~Closed
PromiseSpec == Promise!Spec

\* Shutdown always returns.
ShutdownEnds == main = "lock" ~> Closed

\* A job the pool took ends, with the pool running or shutting down.
EveryJobEnds ==
  \A j \in Jobs : given[j] = "taken" ~> jobState[j] \in {"done", "aborted"}

\* No one waits for ever, neither the owner of a job nor the caller of Shutdown.
WorkEnds == ShutdownEnds /\ EveryJobEnds
=============================================================================
