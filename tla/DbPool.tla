------------------------------- MODULE DbPool -------------------------------
(***************************************************************************)
(* CDbConnectionPool: the main thread puts database queries in a ring of   *)
(* slots; the backup thread looks at each first and stores a rank in the   *)
(* local backup database, then the worker thread executes it and moves the *)
(* rank out of the backup table.  A write is the saving of a rank,         *)
(* CScoreWorker::SaveScore; a query is named by its place in the order of  *)
(* submission, which is also its number in both threads, less one.         *)
(***************************************************************************)
EXTENDS Integers, Sequences, FiniteSets

CONSTANTS
  Slots,        \* std::size(m_aQueries)
  Kinds,        \* the kinds of queries the program submits
  BackupFails,  \* whether storing a rank in the backup database can fail
  MaxQueries,   \* bound of the model: queries submitted
  Outstanding   \* bound of the model: queries not yet completed

ASSUME DbAssumption ==
  /\ Slots \in Nat \ {0} /\ MaxQueries \in Nat /\ Outstanding \in Nat
  /\ Kinds \subseteq {"read", "write", "addRead", "addWrite", "addBackup", "print"}
  /\ BackupFails \in BOOLEAN

\* What the code takes for granted: a slot is free when its turn comes again.
ASSUME RoomAssumption == Outstanding < Slots

Queries == 1 .. MaxQueries
Null == 0

VARIABLES
  slots,      \* m_aQueries
  kind,       \* the kinds of the queries submitted so far
  numBackup,  \* m_NumBackup
  numWorker,  \* m_NumWorker
  shutdown,   \* the m_Shutdown both sides share
  stopping,   \* CDbConnectionPool::m_Shutdown
  backup,     \* the backup thread: pc, JobNum, the query, whether it has a database
  worker,     \* the worker thread: pc, JobNum, the query, FailMode, the databases
  temp,       \* the ranks in the table race_backup of the backup database,
  fallback,   \* in its table race,
  remote,     \* and in the table race of the database for writing
  result      \* m_Completed and m_Success of each query

tables == <<temp, fallback, remote>>
dbVars == <<slots, kind, numBackup, numWorker, shutdown, stopping, backup, worker,
          tables, result>>

BackupThreads ==
  [pc : {"wait", "exec", "done"}, job : Nat, query : Queries \cup {Null},
   db : BOOLEAN]

WorkerThreads ==
  [pc : {"top", "wait", "exec", "move", "delete", "post", "done"}, job : Nat,
   query : Queries \cup {Null}, fail : BOOLEAN, success : BOOLEAN, read : BOOLEAN,
   write : BOOLEAN, db : BOOLEAN]

DbTypeOK ==
  /\ slots \in [0 .. Slots - 1 -> Queries \cup {Null}]
  /\ kind \in Seq(Kinds)
  /\ numBackup \in Nat /\ numWorker \in Nat
  /\ shutdown \in BOOLEAN /\ stopping \in BOOLEAN
  /\ backup \in BackupThreads
  /\ worker \in WorkerThreads
  /\ temp \subseteq Queries /\ fallback \subseteq Queries /\ remote \subseteq Queries
  /\ result \in [Queries -> {"pending", "failed", "ok"}]

DbInit ==
  /\ slots = [i \in 0 .. Slots - 1 |-> Null]
  /\ kind = << >>
  /\ numBackup = 0 /\ numWorker = 0
  /\ shutdown = FALSE /\ stopping = FALSE
  /\ backup = [pc |-> "wait", job |-> 0, query |-> Null, db |-> FALSE]
  /\ worker = [pc |-> "top", job |-> 0, query |-> Null, fail |-> FALSE,
               success |-> FALSE, read |-> FALSE, write |-> FALSE, db |-> FALSE]
  /\ temp = {} /\ fallback = {} /\ remote = {}
  /\ result = [q \in Queries |-> "pending"]

Submitted == 1 .. Len(kind)
Pending == {q \in Submitted : result[q] = "pending"}
-----------------------------------------------------------------------------
(* The main thread.                                                        *)

\* Execute, ExecuteWrite, Print and Register...Database: the slot at m_InsertIdx
\* is overwritten, whatever it holds.  The server submits nothing once it shut
\* the pool down.
Execute(k) ==
  /\ ~stopping
  /\ Len(kind) < MaxQueries
  /\ Cardinality(Pending) < Outstanding
  /\ kind' = Append(kind, k)
  /\ slots' = [slots EXCEPT ![Len(kind) % Slots] = Len(kind) + 1]
  /\ numBackup' = numBackup + 1
  /\ UNCHANGED <<numWorker, shutdown, stopping, backup, worker, tables, result>>

\* OnShutdown, which then waits for the worker thread to reset the flag.
OnShutdown ==
  /\ ~stopping
  /\ stopping' = TRUE
  /\ shutdown' = TRUE
  /\ numBackup' = numBackup + 1
  /\ UNCHANGED <<slots, kind, numWorker, backup, worker, tables, result>>
-----------------------------------------------------------------------------
(* The backup thread.                                                      *)

\* Seeded bug: the worker is signalled before the backup thread is done.
BackupWaitSignals ==
  /\ backup.pc = "wait"
  /\ numBackup > 0
  /\ numBackup' = numBackup - 1
  /\ numWorker' = numWorker + 1
  /\ LET query == slots[backup.job % Slots] IN
     backup' = IF query # Null
               THEN [backup EXCEPT !.pc = "exec", !.query = query]
               ELSE [backup EXCEPT !.pc = "done"]
  /\ UNCHANGED <<slots, kind, shutdown, stopping, worker, tables, result>>

\* A slot without a query is the sign to stop, which the worker gets in turn.
BackupWait ==
  /\ backup.pc = "wait"
  /\ numBackup > 0
  /\ numBackup' = numBackup - 1
  /\ LET query == slots[backup.job % Slots] IN
     \/ /\ query # Null
        /\ backup' = [backup EXCEPT !.pc = "exec", !.query = query]
        /\ UNCHANGED numWorker
     \/ /\ query = Null
        /\ backup' = [backup EXCEPT !.pc = "done"]
        /\ numWorker' = numWorker + 1
  /\ UNCHANGED <<slots, kind, shutdown, stopping, worker, tables, result>>

BackupDone == [backup EXCEPT !.pc = "wait", !.job = @ + 1, !.query = Null]

\* Seeded bug: the backup thread leaves the writes of the shutdown to the worker.
BackupExecSkips ==
  /\ backup.pc = "exec"
  /\ LET k == kind[backup.query] IN
     /\ backup' = [BackupDone EXCEPT !.db = @ \/ k = "addBackup"]
     /\ temp' = IF k = "write" /\ backup.db /\ ~shutdown
                THEN temp \cup {backup.query} ELSE temp
  /\ numWorker' = numWorker + 1
  /\ UNCHANGED <<slots, kind, numBackup, shutdown, stopping, worker, fallback,
                 remote, result>>

\* ADD_SQLITE opens the backup database, a write is stored there (BACKUP_FIRST),
\* everything else is passed on.
BackupExec ==
  /\ backup.pc = "exec"
  /\ LET k == kind[backup.query] IN
     /\ backup' = [BackupDone EXCEPT !.db = @ \/ k = "addBackup"]
     /\ \/ /\ k = "write" /\ backup.db
           /\ temp' = temp \cup {backup.query}
        \/ /\ ~(k = "write" /\ backup.db) \/ BackupFails
           /\ UNCHANGED temp
  /\ numWorker' = numWorker + 1
  /\ UNCHANGED <<slots, kind, numBackup, shutdown, stopping, worker, fallback,
                 remote, result>>
-----------------------------------------------------------------------------
(* The worker thread.                                                      *)

\* Leave FailMode when no query waits.
Top ==
  /\ worker.pc = "top"
  /\ worker' = [worker EXCEPT !.pc = "wait", !.fail = @ /\ numWorker # 0]
  /\ UNCHANGED <<slots, kind, numBackup, numWorker, shutdown, stopping, backup,
                 tables, result>>

\* Seeded bug: the shutdown stops the worker, whatever is queued.
WorkerWaitStops ==
  /\ worker.pc = "wait"
  /\ numWorker > 0
  /\ numWorker' = numWorker - 1
  /\ LET at == worker.job % Slots
         query == slots[at] IN
     \/ /\ query # Null /\ ~shutdown
        /\ worker' = [worker EXCEPT !.pc = "exec", !.query = query, !.success = FALSE]
        /\ slots' = [slots EXCEPT ![at] = Null]
        /\ UNCHANGED shutdown
     \/ /\ query = Null \/ shutdown
        /\ worker' = [worker EXCEPT !.pc = "done"]
        /\ shutdown' = FALSE
        /\ UNCHANGED slots
  /\ UNCHANGED <<kind, numBackup, stopping, backup, tables, result>>

\* The query moves out of its slot; an empty slot is the sign to stop.
WorkerWait ==
  /\ worker.pc = "wait"
  /\ numWorker > 0
  /\ numWorker' = numWorker - 1
  /\ LET at == worker.job % Slots
         query == slots[at] IN
     \/ /\ query # Null
        /\ worker' = [worker EXCEPT !.pc = "exec", !.query = query, !.success = FALSE]
        /\ slots' = [slots EXCEPT ![at] = Null]
        /\ UNCHANGED shutdown
     \/ /\ query = Null
        /\ worker' = [worker EXCEPT !.pc = "done"]
        /\ shutdown' = FALSE
        /\ UNCHANGED slots
  /\ UNCHANGED <<kind, numBackup, stopping, backup, tables, result>>

\* Reads are dismissed in FailMode, during the shutdown and without a database.
WorkerRead ==
  /\ worker.pc = "exec"
  /\ kind[worker.query] = "read"
  /\ \E success \in BOOLEAN :
       /\ success => worker.read /\ ~shutdown /\ ~worker.fail
       /\ worker' = [worker EXCEPT !.pc = "post", !.success = success,
                                   !.fail = @ \/ ~success]
  /\ UNCHANGED <<slots, kind, numBackup, numWorker, shutdown, stopping, backup,
                 tables, result>>

Skipped == (shutdown \/ worker.fail) /\ worker.db

\* Seeded bug: a skipped write counts as done.
WorkerWriteSkipOk ==
  /\ worker.pc = "exec"
  /\ kind[worker.query] = "write"
  /\ \E success \in BOOLEAN :
       /\ Skipped => success
       /\ success => worker.write
       /\ remote' = IF success /\ ~Skipped THEN remote \cup {worker.query} ELSE remote
       /\ worker' = [worker EXCEPT !.pc = "move", !.success = success,
                                   !.fail = @ \/ ~success]
  /\ UNCHANGED <<slots, kind, numBackup, numWorker, shutdown, stopping, backup,
                 temp, fallback, result>>

\* A write is left to the backup database in FailMode and during the shutdown.
\* The database for writing may store a rank and its answer get lost.
WorkerWrite ==
  /\ worker.pc = "exec"
  /\ kind[worker.query] = "write"
  /\ \E success \in BOOLEAN :
       /\ success => worker.write /\ ~Skipped
       /\ \/ worker.write /\ ~Skipped /\ remote' = remote \cup {worker.query}
          \/ ~success /\ UNCHANGED remote
       /\ worker' = [worker EXCEPT !.pc = "move", !.success = success,
                                   !.fail = @ \/ ~success]
  /\ UNCHANGED <<slots, kind, numBackup, numWorker, shutdown, stopping, backup,
                 temp, fallback, result>>

\* Seeded bug: a rank that could not be written is only deleted, not copied.
MoveNothing ==
  /\ worker.pc = "move" /\ worker.db /\ ~worker.success
  /\ worker' = [worker EXCEPT !.pc = "delete"]
  /\ UNCHANGED <<slots, kind, numBackup, numWorker, shutdown, stopping, backup,
                 tables, result>>

\* NORMAL_FAILED: copy the rank from race_backup to race, if it is there, ...
Move ==
  /\ worker.pc = "move" /\ worker.db /\ ~worker.success
  /\ \/ /\ fallback' = fallback \cup (temp \cap {worker.query})
        /\ worker' = [worker EXCEPT !.pc = "delete"]
     \/ /\ worker' = [worker EXCEPT !.pc = "post"]
        /\ UNCHANGED fallback
  /\ UNCHANGED <<slots, kind, numBackup, numWorker, shutdown, stopping, backup,
                 temp, remote, result>>

\* NORMAL_SUCCEEDED has nothing to copy; nor has a pool without a backup.
NoMove ==
  /\ worker.pc = "move"
  /\ worker.success \/ ~worker.db
  /\ worker' = [worker EXCEPT !.pc = IF worker.db THEN "delete" ELSE "post"]
  /\ UNCHANGED <<slots, kind, numBackup, numWorker, shutdown, stopping, backup,
                 tables, result>>

\* ... and delete it from race_backup.
Delete ==
  /\ worker.pc = "delete"
  /\ \/ /\ temp' = temp \ {worker.query}
        /\ worker' = [worker EXCEPT !.pc = "post", !.success = TRUE]
     \/ /\ worker' = [worker EXCEPT !.pc = "post"]
        /\ UNCHANGED temp
  /\ UNCHANGED <<slots, kind, numBackup, numWorker, shutdown, stopping, backup,
                 fallback, remote, result>>

\* A database is added, or the databases are printed.
WorkerRegister ==
  /\ worker.pc = "exec"
  /\ LET k == kind[worker.query] IN
     /\ k \notin {"read", "write"}
     /\ worker' = [worker EXCEPT !.pc = "post", !.success = TRUE,
                     !.read = @ \/ k = "addRead", !.write = @ \/ k = "addWrite",
                     !.db = @ \/ k = "addBackup"]
  /\ UNCHANGED <<slots, kind, numBackup, numWorker, shutdown, stopping, backup,
                 tables, result>>

\* Seeded bug: only a success is reported.
PostSuccess ==
  /\ worker.pc = "post"
  /\ result' = IF worker.success THEN [result EXCEPT ![worker.query] = "ok"] ELSE result
  /\ worker' = [worker EXCEPT !.pc = "top", !.job = @ + 1, !.query = Null]
  /\ UNCHANGED <<slots, kind, numBackup, numWorker, shutdown, stopping, backup, tables>>

\* m_Success, then m_Completed, tell the main thread.
Post ==
  /\ worker.pc = "post"
  /\ result' = [result EXCEPT ![worker.query] = IF worker.success THEN "ok" ELSE "failed"]
  /\ worker' = [worker EXCEPT !.pc = "top", !.job = @ + 1, !.query = Null]
  /\ UNCHANGED <<slots, kind, numBackup, numWorker, shutdown, stopping, backup, tables>>

Backup == BackupWait \/ BackupExec
Worker == \/ Top \/ WorkerWait \/ WorkerRead \/ WorkerWrite \/ WorkerRegister
          \/ Move \/ NoMove \/ Delete \/ Post

DbNext == OnShutdown \/ Backup \/ Worker \/ \E k \in Kinds : Execute(k)

DbSpec == DbInit /\ [][DbNext]_dbVars

\* The threads are scheduled and the databases answer.
DbFairness == WF_dbVars(Backup) /\ WF_dbVars(Worker)
-----------------------------------------------------------------------------
(* Properties.                                                             *)

Stored == temp \cup fallback \cup remote
Writes == {q \in Submitted : kind[q] = "write"}
BackedUp == {q \in Writes : \E p \in 1 .. q - 1 : kind[p] = "addBackup"}

\* A rank that was ever stored is stored ever after, whenever the server dies:
\* it leaves one table only when it is in another.
StaysStored == [][Stored \subseteq Stored']_dbVars

\* With a backup database no rank is lost, whether the write fails, is skipped
\* or the server shuts down.
NoRankLost == \A q \in BackedUp : result[q] # "pending" => q \in Stored

\* A write reported as a success is in a table that counts.
SuccessIsStored ==
  \A q \in Writes : result[q] = "ok" => q \in fallback \cup remote

\* The backup thread and the worker thread never work at the same query.
Exclusive ==
  backup.pc = "exec" => worker.query # backup.query /\ result[backup.query] = "pending"

\* When OnShutdown returns, every query has been worked through.
WorkedThrough == stopping /\ ~shutdown => Pending = {}

\* The shutdown lets both threads end, and every query is completed.
BothEnd == stopping ~> (backup.pc = "done" /\ worker.pc = "done")
AllCompleted == \A q \in Queries : (q \in Submitted) ~> (result[q] # "pending")

\* No one waits for ever, neither for a result nor for the pool to shut down.
PoolEnds == BothEnd /\ AllCompleted
=============================================================================
