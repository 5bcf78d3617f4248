--------------------------- MODULE Storage_proofs ---------------------------
(***************************************************************************)
(* Proofs about the two parts that keep what the server has to say: the    *)
(* database pool and the background file writer.                           *)
(*                                                                         *)
(* The database pool, for any number of slots and of queries, as long as   *)
(* fewer are outstanding than there are slots.  The counts of the two      *)
(* semaphores say where each thread is in the order of submission; from    *)
(* that, which slots hold a query; from that, that the two threads never   *)
(* meet at one; and from that, that a rank is always in a table.           *)
(*                                                                         *)
(* The file writer, for rings and local buffers of any size, any number of *)
(* threads that log and any amount of bytes.  The bytes are followed one   *)
(* position at a time through the ring, the local buffer and the file; the *)
(* end of the file rests on where the owner and the thread are.            *)
(***************************************************************************)
EXTENDS DbPool, AioWriter, SequenceTheorems, FiniteSetTheorems, TLAPS

----------------------------------------------------------------------------
(* The database pool.                                                      *)

Busy == worker.pc \in {"exec", "move", "delete", "post"}

\* The queries the worker thread has taken out of their slots.
Taken == worker.job + IF Busy THEN 1 ELSE 0

\* The signals the backup thread was sent and has taken, and likewise the worker.
SentBackup == Len(kind) + IF stopping THEN 1 ELSE 0
TookBackup == backup.job + IF backup.pc \in {"exec", "done"} THEN 1 ELSE 0
SentWorker == backup.job + IF backup.pc = "done" THEN 1 ELSE 0
TookWorker == Taken + IF worker.pc = "done" THEN 1 ELSE 0

\* What was signalled is what a thread has worked through and what it has yet to.
Signals ==
  /\ numBackup + TookBackup = SentBackup
  /\ numWorker + TookWorker = SentWorker

\* How far the threads are in the order of submission.
Places ==
  /\ backup.job <= Len(kind)
  /\ worker.job <= backup.job
  /\ Len(kind) <= MaxQueries
  /\ Len(kind) - worker.job <= Outstanding
  /\ backup.pc = "exec" => backup.query = backup.job + 1 /\ backup.job < Len(kind)
  /\ backup.pc = "done" => stopping /\ backup.job = Len(kind)
  /\ Busy => worker.query = worker.job + 1 /\ worker.job < backup.job
  /\ ~Busy => worker.query = Null
  /\ worker.pc = "done" => backup.pc = "done" /\ worker.job = Len(kind)
  /\ shutdown <=> stopping /\ worker.pc # "done"

Counts == Signals /\ Places

\* A slot holds the query whose turn it is there, until the worker takes it.
Ring ==
  \A p \in 0 .. Slots - 1 : \A q \in Queries :
    slots[p] = q <=> Taken < q /\ q <= Len(kind) /\ (q - 1) % Slots = p

\* The worker completes the queries in their order.
Results == \A q \in Queries : result[q] = "pending" <=> q > worker.job

Counting == DbTypeOK /\ Counts /\ Ring /\ Results

-----------------------------------------------------------------------------
(* The ring.                                                               *)

\* Numbers less than a turn of the ring apart are at different slots.
LEMMA SlotsDistinct ==
  ASSUME NEW a \in Nat, NEW b \in Nat, a < b, b - a < Slots
  PROVE  a % Slots # b % Slots
<1> DEFINE x == a \div Slots
           y == b \div Slots
           r == a % Slots
           t == b % Slots
<1>1. /\ x \in Int /\ y \in Int /\ r \in 0 .. Slots - 1 /\ t \in 0 .. Slots - 1
      /\ a = Slots * x + r /\ b = Slots * y + t
  BY DbAssumption
<1> HIDE DEF x, y, r, t
<1> SUFFICES ASSUME r = t PROVE FALSE
  BY DEF r, t
<1>2. Slots * (y - x) = Slots * y - Slots * x
      /\ Slots * x \in Int /\ Slots * y \in Int
  BY <1>1, DbAssumption
<1>3. Slots * (y - x) = b - a
  BY <1>1, <1>2
<1>4. y - x >= 1 => Slots * (y - x) >= Slots
  BY <1>1, DbAssumption
<1>5. y - x <= 0 => Slots * (y - x) <= 0
  BY <1>1, DbAssumption
<1> QED
  BY <1>1, <1>3, <1>4, <1>5, DbAssumption

LEMMA SlotOf ==
  ASSUME NEW a \in Nat
  PROVE  a % Slots \in 0 .. Slots - 1
  BY DbAssumption

LEMMA Numbers ==
  ASSUME Counting
  PROVE  /\ Len(kind) \in Nat /\ backup.job \in Nat /\ worker.job \in Nat
         /\ numBackup \in Nat /\ numWorker \in Nat
         /\ Taken \in Nat /\ Taken >= worker.job /\ Taken <= worker.job + 1
         /\ Taken <= backup.job
<1>1. /\ kind \in Seq(Kinds) /\ numBackup \in Nat /\ numWorker \in Nat
      /\ backup.job \in Nat /\ worker.job \in Nat
  BY DEF Counting, DbTypeOK, BackupThreads, WorkerThreads
<1>2. Len(kind) \in Nat
  BY <1>1
<1> QED
  BY <1>1, <1>2, SMTT(20)
     DEF Counting, Counts, Signals, Places, Taken, SentBackup, TookBackup, SentWorker,
         TookWorker

LEMMA Sums ==
  ASSUME Counting
  PROVE  /\ SentBackup \in Nat /\ TookBackup \in Nat
         /\ SentWorker \in Nat /\ TookWorker \in Nat
         /\ numBackup \in Nat /\ numWorker \in Nat
         /\ numBackup + TookBackup = SentBackup
         /\ numWorker + TookWorker = SentWorker
  BY Numbers, SMTT(20)
     DEF Counting, Counts, Signals, Places, SentBackup, TookBackup, SentWorker, TookWorker

\* The slot whose turn comes next is free.
LEMMA NextIsFree ==
  ASSUME Counting
  PROVE  slots[Len(kind) % Slots] = Null
<1> DEFINE n == Len(kind)
<1>1. n \in Nat /\ Taken \in Nat /\ n - Taken <= Outstanding
  <2>1. n \in Nat /\ Taken \in Nat /\ worker.job \in Nat /\ Taken >= worker.job
    BY Numbers
  <2>2. n - worker.job <= Outstanding
    BY DEF Counting, Counts, Signals, Places
  <2> QED
    BY <2>1, <2>2, DbAssumption
<1>2. slots[n % Slots] \in Queries \cup {Null}
  BY <1>1, SlotOf DEF Counting, DbTypeOK, BackupThreads, WorkerThreads
<1>3. ASSUME NEW q \in Queries, slots[n % Slots] = q
      PROVE  FALSE
  <2>1. Taken < q /\ q <= n /\ (q - 1) % Slots = n % Slots
    BY <1>1, <1>3, SlotOf DEF Counting, Ring
  <2>2. q - 1 \in Nat /\ q - 1 < n /\ n - (q - 1) < Slots
    BY <1>1, <2>1, RoomAssumption, DbAssumption DEF Queries
  <2> QED
    BY <1>1, <2>1, <2>2, SlotsDistinct
<1> QED
  BY <1>2, <1>3

\* A query that is not taken yet is where the threads look for it.
LEMMA TurnIsThere ==
  ASSUME Counting, NEW j \in Nat, Taken <= j, j < Len(kind)
  PROVE  slots[j % Slots] = j + 1 /\ j + 1 \in Queries
<1>1. Taken \in Nat /\ Len(kind) \in Nat /\ Len(kind) <= MaxQueries
  BY Numbers DEF Counting, Counts, Signals, Places
<1>2. j + 1 \in Queries /\ Taken < j + 1 /\ j + 1 <= Len(kind) /\ (j + 1) - 1 = j
  BY <1>1, DbAssumption DEF Queries
<1> QED
  BY <1>2, SlotOf DEF Counting, Ring

LEMMA PendingIs ==
  ASSUME Counting
  PROVE  Pending = (worker.job + 1) .. Len(kind)
<1>1. Len(kind) \in Nat /\ worker.job \in Nat /\ Len(kind) <= MaxQueries
  BY Numbers DEF Counting, Counts, Signals, Places
<1>2. Submitted \subseteq Queries
  BY <1>1, DbAssumption DEF Submitted, Queries
<1> QED
  BY <1>1, <1>2 DEF Pending, Submitted, Counting, Results

-----------------------------------------------------------------------------
(* The steps.                                                              *)

LEMMA CountingInit == DbInit => Counting
<1> SUFFICES ASSUME DbInit PROVE Counting
  OBVIOUS
<1>1. DbTypeOK
  <2>1. slots \in [0 .. Slots - 1 -> Queries \cup {Null}]
    BY DEF DbInit
  <2>2. kind \in Seq(Kinds)
    BY DEF DbInit
  <2>3. backup \in BackupThreads
    BY DEF DbInit, BackupThreads
  <2>4. worker \in WorkerThreads
    BY DEF DbInit, WorkerThreads
  <2>5. result \in [Queries -> {"pending", "failed", "ok"}]
    BY DEF DbInit
  <2> QED
    BY <2>1, <2>2, <2>3, <2>4, <2>5 DEF DbInit, DbTypeOK
<1>2. Len(kind) = 0 /\ Taken = 0 /\ ~Busy
  BY DEF DbInit, Taken, Busy
<1>3. Counts
  BY <1>2, DbAssumption DEF DbInit, Counts, Signals, Places
<1>4. Ring
  BY <1>2, DbAssumption DEF DbInit, Ring, Queries, Null
<1>5. Results
  BY DEF DbInit, Results, Queries
<1> QED
  BY <1>1, <1>3, <1>4, <1>5 DEF Counting

\* Submission: the query goes to a free slot.
LEMMA ExecuteStep ==
  ASSUME Counting, NEW k \in Kinds, Execute(k)
  PROVE  Counting'
<1> DEFINE n == Len(kind)
<1>1. /\ n \in Nat /\ n < MaxQueries /\ ~stopping
      /\ kind' = Append(kind, k)
      /\ slots' = [slots EXCEPT ![n % Slots] = n + 1]
      /\ numBackup' = numBackup + 1
      /\ UNCHANGED <<numWorker, shutdown, stopping, backup, worker, temp, fallback,
                     remote, result>>
  BY Numbers DEF Execute, tables
<1>2. kind \in Seq(Kinds) /\ kind' \in Seq(Kinds) /\ Len(kind') = n + 1
  BY <1>1 DEF Counting, DbTypeOK, BackupThreads, WorkerThreads
<1>3. n + 1 \in Queries
  BY <1>1, DbAssumption DEF Queries
<1>4. DbTypeOK'
  <2>1. slots' \in [0 .. Slots - 1 -> Queries \cup {Null}]
    BY <1>1, <1>3, SlotOf DEF Counting, DbTypeOK
  <2> QED
    BY <1>1, <1>2, <2>1, Numbers DEF Counting, DbTypeOK
<1>5. Taken' = Taken /\ Busy' = Busy /\ Taken \in Nat /\ Taken <= n
  BY <1>1, Numbers DEF Taken, Busy, Counting, Counts, Signals, Places
<1>6. n - worker.job < Outstanding
  <2>1. worker.job + 1 \in Int /\ worker.job \in Nat
    BY Numbers
  <2>2. Cardinality((worker.job + 1) .. n) < Outstanding
    BY PendingIs DEF Execute
  <2> QED
    <3> DEFINE first == worker.job + 1
    <3>0. first \in Int /\ n \in Int /\ first = worker.job + 1
      BY <1>1, <2>1
    <3> HIDE DEF first, n
    <3>1. Cardinality(first .. n) = IF first > n THEN 0 ELSE n - first + 1
      BY <3>0, FS_Interval
    <3>2. worker.job <= n
      BY DEF n, Counting, Counts, Signals, Places, DbTypeOK, BackupThreads, WorkerThreads
    <3> QED
      BY <1>1, <2>1, <2>2, <3>0, <3>1, <3>2, DbAssumption
<1>7. Counts'
  <2>1. Counts
    BY DEF Counting
  <2>2. n + 1 - worker.job <= Outstanding /\ n + 1 <= MaxQueries
    BY <1>1, <1>6, Numbers, DbAssumption, SMTT(20)
  <2>3. numBackup' + TookBackup' = SentBackup'
    <3>1. SentBackup' = SentBackup + 1
      BY <1>1, <1>2 DEF SentBackup
    <3>2. TookBackup' = TookBackup
      BY <1>1 DEF TookBackup
    <3> QED
      BY <1>1, <3>1, <3>2, Sums
  <2>4. numWorker' + TookWorker' = SentWorker'
    BY <1>1, <1>5, Sums DEF SentWorker, TookWorker
  <2>5. backup'.pc # "done"
    BY <1>1, <2>1 DEF Counts, Signals, Places
  <2>6. worker'.pc # "done"
    BY <1>1, <2>1 DEF Counts, Signals, Places
  <2>7. backup'.job <= n + 1 /\ worker'.job <= backup'.job
    BY <1>1, <2>1, Numbers DEF Counts, Signals, Places
  <2> QED
    BY <1>1, <1>2, <1>5, <2>1, <2>2, <2>3, <2>4, <2>5, <2>6, <2>7, Numbers, SMTT(20)
       DEF Counts, Signals, Places
<1>8. Ring'
  <2> SUFFICES ASSUME NEW p \in 0 .. Slots - 1, NEW q \in Queries
               PROVE  slots'[p] = q <=> Taken < q /\ q <= n + 1 /\ (q - 1) % Slots = p
    BY <1>2, <1>5 DEF Ring
  <2>1. slots[p] = q <=> Taken < q /\ q <= n /\ (q - 1) % Slots = p
    BY DEF Counting, Ring
  <2>2. CASE p = n % Slots
    <3>1. slots'[p] = n + 1
      BY <1>1, <2>2 DEF Counting, DbTypeOK, BackupThreads, WorkerThreads
    <3>2. slots[p] = Null /\ q # Null
      BY <2>2, NextIsFree DEF Queries, Null
    <3>3. (n + 1) - 1 = n
      BY <1>1
    <3> QED
      BY <1>1, <1>5, <2>1, <2>2, <3>1, <3>2, <3>3 DEF Queries
  <2>3. CASE p # n % Slots
    <3>1. slots'[p] = slots[p]
      BY <1>1, <2>3 DEF Counting, DbTypeOK, BackupThreads, WorkerThreads
    <3>2. (n + 1) - 1 = n
      BY <1>1
    <3> QED
      BY <1>1, <2>1, <2>3, <3>1, <3>2 DEF Queries
  <2> QED
    BY <2>2, <2>3
<1>9. Results'
  BY <1>1 DEF Counting, Results
<1> QED
  BY <1>4, <1>7, <1>8, <1>9 DEF Counting

\* A step that leaves the slots, the results and the worker's place alone.
LEMMA SameRing ==
  ASSUME Ring, Results, UNCHANGED <<slots, kind, result>>,
         worker'.job = worker.job, Taken' = Taken
  PROVE  Ring' /\ Results'
  BY DEF Ring, Results

LEMMA OnShutdownStep ==
  ASSUME Counting, OnShutdown
  PROVE  Counting'
<1>1. /\ ~stopping /\ stopping' = TRUE /\ shutdown' = TRUE
      /\ numBackup' = numBackup + 1
      /\ UNCHANGED <<slots, kind, numWorker, backup, worker, temp, fallback, remote,
                     result>>
  BY DEF OnShutdown, tables
<1>2. DbTypeOK'
  BY <1>1, Numbers DEF Counting, DbTypeOK
<1>3. Taken' = Taken /\ Busy' = Busy
  BY <1>1 DEF Taken, Busy
<1>4. Counts'
  <2>1. SentBackup' = SentBackup + 1 /\ TookBackup' = TookBackup
    BY <1>1, Numbers DEF SentBackup, TookBackup
  <2>2. SentWorker' = SentWorker /\ TookWorker' = TookWorker
    BY <1>1, <1>3 DEF SentWorker, TookWorker
  <2>3. Signals'
    BY <1>1, <2>1, <2>2, Sums DEF Signals
  <2>4. Places
    BY DEF Counting, Counts
  <2>5. backup.pc # "done" /\ worker.pc # "done"
    BY <1>1, <2>4 DEF Places
  <2>6. Places'
    BY <1>1, <1>3, <2>4, <2>5 DEF Places
  <2> QED
    BY <2>3, <2>6 DEF Counts
<1>5. Ring' /\ Results'
  BY <1>1, <1>3, SameRing DEF Counting
<1> QED
  BY <1>2, <1>4, <1>5 DEF Counting

\* The backup thread takes up the query whose turn it is, or the sign to stop.
LEMMA BackupWaitStep ==
  ASSUME Counting, BackupWait
  PROVE  Counting'
<1> DEFINE n == Len(kind)
           query == slots[backup.job % Slots]
<1>1. /\ backup.pc = "wait" /\ numBackup > 0 /\ numBackup' = numBackup - 1
      /\ UNCHANGED <<slots, kind, shutdown, stopping, worker, temp, fallback, remote,
                     result>>
  BY DEF BackupWait, tables
<1>2. Taken' = Taken /\ Busy' = Busy /\ Taken <= backup.job /\ worker.pc # "done"
      /\ n \in Nat /\ backup.job \in Nat /\ worker.job \in Nat
      /\ numBackup \in Nat /\ numWorker \in Nat
  BY <1>1, Numbers DEF Taken, Busy, Counting, Counts, Signals, Places
<1>3. CASE backup.job < n
  <2>1. query = backup.job + 1 /\ query \in Queries /\ query # Null
    BY <1>2, <1>3, TurnIsThere DEF Queries, Null
  <2>2. backup' = [backup EXCEPT !.pc = "exec", !.query = query] /\ numWorker' = numWorker
    BY <2>1 DEF BackupWait
  <2>3. /\ backup'.pc = "exec" /\ backup'.job = backup.job
        /\ backup'.query = backup.job + 1
    BY <2>1, <2>2 DEF Counting, DbTypeOK, BackupThreads, WorkerThreads
  <2>4. DbTypeOK'
    <3>1. backup' \in BackupThreads
      BY <2>1, <2>2 DEF Counting, DbTypeOK, BackupThreads
    <3> QED
      BY <1>1, <1>2, <2>2, <3>1 DEF Counting, DbTypeOK
  <2>5. Counts'
    <3>1. SentBackup' = SentBackup /\ TookBackup' = TookBackup + 1
      BY <1>1, <1>2, <2>3 DEF SentBackup, TookBackup
    <3>2. SentWorker' = SentWorker /\ TookWorker' = TookWorker
      BY <1>1, <1>2, <2>3 DEF SentWorker, TookWorker
    <3>3. Signals'
      BY <1>1, <2>2, <3>1, <3>2, Sums DEF Signals
    <3>4. Places
      BY DEF Counting, Counts
    <3>5. Places'
      BY <1>1, <1>2, <1>3, <2>3, <3>4 DEF Places
    <3> QED
      BY <3>3, <3>5 DEF Counts
  <2> QED
    BY <1>1, <1>2, <2>4, <2>5, SameRing DEF Counting
<1>4. CASE backup.job >= n
  <2>1. backup.job = n /\ stopping
    BY <1>1, <1>2, <1>4 DEF Counting, Counts, Signals, Places, SentBackup, TookBackup, SentWorker, TookWorker
  <2>2. query = Null
    BY <2>1, NextIsFree
  <2>3. backup' = [backup EXCEPT !.pc = "done"] /\ numWorker' = numWorker + 1
    BY <2>2 DEF BackupWait
  <2>4. backup'.pc = "done" /\ backup'.job = backup.job
    BY <2>3 DEF Counting, DbTypeOK, BackupThreads, WorkerThreads
  <2>5. DbTypeOK'
    <3>1. backup' \in BackupThreads
      BY <2>3 DEF Counting, DbTypeOK, BackupThreads
    <3> QED
      BY <1>1, <1>2, <2>3, <3>1 DEF Counting, DbTypeOK
  <2>6. Counts'
    <3>1. SentBackup' = SentBackup /\ TookBackup' = TookBackup + 1
      BY <1>1, <1>2, <2>4 DEF SentBackup, TookBackup
    <3>2. SentWorker' = SentWorker + 1 /\ TookWorker' = TookWorker
      BY <1>1, <1>2, <2>4 DEF SentWorker, TookWorker
    <3>3. Signals'
      BY <1>1, <2>3, <3>1, <3>2, Sums DEF Signals
    <3>4. Places
      BY DEF Counting, Counts
    <3>5. Places'
      BY <1>1, <1>2, <2>1, <2>4, <3>4 DEF Places
    <3> QED
      BY <3>3, <3>5 DEF Counts
  <2> QED
    BY <1>1, <1>2, <2>5, <2>6, SameRing DEF Counting
<1> QED
  BY <1>2, <1>3, <1>4

LEMMA BackupExecStep ==
  ASSUME Counting, BackupExec
  PROVE  Counting'
<1>1. /\ backup.pc = "exec" /\ numWorker' = numWorker + 1
      /\ backup' = [backup EXCEPT !.pc = "wait", !.job = @ + 1, !.query = Null,
                                  !.db = @ \/ kind[backup.query] = "addBackup"]
      /\ temp' = temp \/ temp' = temp \cup {backup.query}
      /\ UNCHANGED <<slots, kind, numBackup, shutdown, stopping, worker, fallback,
                     remote, result>>
  BY DEF BackupExec, BackupDone
<1>2. /\ backup.job \in Nat /\ backup.query = backup.job + 1
      /\ backup.job < Len(kind) /\ backup.query \in Queries
  BY <1>1, Numbers, DbAssumption DEF Counting, Counts, Signals, Places, Queries
<1>3. backup'.pc = "wait" /\ backup'.job = backup.job + 1
  BY <1>1 DEF Counting, DbTypeOK, BackupThreads, WorkerThreads
<1>4. DbTypeOK'
  <2>1. backup' \in BackupThreads
    <3>1. backup \in BackupThreads /\ backup.db \in BOOLEAN
      BY DEF Counting, DbTypeOK, BackupThreads
    <3>2. PICK d \in BOOLEAN :
            backup' = [backup EXCEPT !.pc = "wait", !.job = @ + 1, !.query = Null,
                                     !.db = d]
      BY <1>1
    <3>3. backup' = [pc |-> "wait", job |-> backup.job + 1, query |-> Null, db |-> d]
      BY <3>1, <3>2 DEF BackupThreads
    <3> QED
      BY <1>2, <3>3 DEF BackupThreads
  <2> QED
    BY <1>1, <1>2, <2>1, Numbers DEF Counting, DbTypeOK
<1>5. Taken' = Taken /\ Busy' = Busy
  BY <1>1 DEF Taken, Busy
<1>6. Counts'
  <2>1. SentBackup' = SentBackup /\ TookBackup' = TookBackup
    BY <1>1, <1>2, <1>3 DEF SentBackup, TookBackup
  <2>2. SentWorker' = SentWorker + 1 /\ TookWorker' = TookWorker
    BY <1>1, <1>2, <1>3, <1>5 DEF SentWorker, TookWorker
  <2>3. Signals'
    BY <1>1, <2>1, <2>2, Sums DEF Signals
  <2>4. Places
    BY DEF Counting, Counts
  <2>5. Places'
    BY <1>1, <1>2, <1>3, <1>5, <2>4, Numbers DEF Places
  <2> QED
    BY <2>3, <2>5 DEF Counts
<1> QED
  BY <1>1, <1>4, <1>5, <1>6, SameRing DEF Counting

\* The worker thread takes its query out of the slot, or gets the sign to stop.
LEMMA WorkerWaitStep ==
  ASSUME Counting, WorkerWait
  PROVE  Counting'
<1> DEFINE n == Len(kind)
           at == worker.job % Slots
           query == slots[at]
<1>1. /\ worker.pc = "wait" /\ numWorker > 0 /\ numWorker' = numWorker - 1
      /\ UNCHANGED <<kind, numBackup, stopping, backup, temp, fallback, remote, result>>
  BY DEF WorkerWait, tables
<1>2. /\ n \in Nat /\ backup.job \in Nat /\ worker.job \in Nat
      /\ numBackup \in Nat /\ numWorker \in Nat
      /\ ~Busy /\ Taken = worker.job
  BY <1>1, Numbers DEF Taken, Busy
<1>3. CASE worker.job < backup.job
  <2>1. query = worker.job + 1 /\ query \in Queries /\ query # Null
    BY <1>2, <1>3, TurnIsThere DEF Counting, Counts, Signals, Places, Queries, Null
  <2>2. /\ worker' = [worker EXCEPT !.pc = "exec", !.query = query, !.success = FALSE]
        /\ slots' = [slots EXCEPT ![at] = Null]
        /\ shutdown' = shutdown
    BY <2>1 DEF WorkerWait
  <2>3. /\ worker'.pc = "exec" /\ worker'.job = worker.job
        /\ worker'.query = worker.job + 1
    BY <2>1, <2>2 DEF Counting, DbTypeOK, BackupThreads, WorkerThreads
  <2>4. DbTypeOK'
    <3>1. worker' \in WorkerThreads
      BY <2>1, <2>2 DEF Counting, DbTypeOK, WorkerThreads
    <3>2. slots' \in [0 .. Slots - 1 -> Queries \cup {Null}]
      BY <2>2 DEF Counting, DbTypeOK
    <3> QED
      BY <1>1, <1>2, <2>2, <3>1, <3>2 DEF Counting, DbTypeOK
  <2>5. Busy' /\ Taken' = worker.job + 1
    BY <2>3 DEF Busy, Taken
  <2>6. Counts'
    BY <1>1, <1>2, <1>3, <2>2, <2>3, <2>5 DEF Counting, Counts, Signals, Places, SentBackup, TookBackup, SentWorker, TookWorker
  <2>7. Ring'
    <3> SUFFICES ASSUME NEW p \in 0 .. Slots - 1, NEW q \in Queries
                 PROVE  slots'[p] = q <=> worker.job + 1 < q /\ q <= n /\ (q - 1) % Slots = p
      BY <1>1, <2>5 DEF Ring
    <3>1. slots[p] = q <=> worker.job < q /\ q <= n /\ (q - 1) % Slots = p
      BY <1>2 DEF Counting, Ring
    <3>2. q \in Nat /\ q # Null
      BY DbAssumption DEF Queries, Null
    <3>3. CASE p = at
      <4>1. slots'[p] = Null
        BY <2>2, <3>3 DEF Counting, DbTypeOK, BackupThreads, WorkerThreads
      <4>2. slots[p] = worker.job + 1
        BY <2>1, <3>3
      <4> QED
        BY <1>2, <3>1, <3>2, <4>1, <4>2
    <3>4. CASE p # at
      <4>1. slots'[p] = slots[p]
        BY <2>2, <3>4 DEF Counting, DbTypeOK, BackupThreads, WorkerThreads
      <4>2. q = worker.job + 1 => (q - 1) % Slots = at
        BY <1>2
      <4> QED
        BY <1>2, <3>1, <3>2, <3>4, <4>1, <4>2
    <3> QED
      BY <3>3, <3>4
  <2>8. Results'
    BY <1>1, <2>3 DEF Counting, Results
  <2> QED
    BY <2>4, <2>6, <2>7, <2>8 DEF Counting
<1>4. CASE worker.job >= backup.job
  <2>1. worker.job = n /\ backup.pc = "done" /\ stopping
    BY <1>1, <1>2, <1>4 DEF Counting, Counts, Signals, Places, SentBackup, TookBackup, SentWorker, TookWorker
  <2>2. query = Null
    BY <2>1, NextIsFree
  <2>3. /\ worker' = [worker EXCEPT !.pc = "done"]
        /\ slots' = slots /\ shutdown' = FALSE
    BY <2>2 DEF WorkerWait
  <2>4. /\ worker'.pc = "done" /\ worker'.job = worker.job
        /\ worker'.query = worker.query
    BY <2>3 DEF Counting, DbTypeOK, BackupThreads, WorkerThreads
  <2>5. DbTypeOK'
    <3>1. worker' \in WorkerThreads
      BY <2>3 DEF Counting, DbTypeOK, WorkerThreads
    <3>2. shutdown' \in BOOLEAN
      BY <2>3
    <3> QED
      BY <1>1, <1>2, <2>3, <3>1, <3>2 DEF Counting, DbTypeOK
  <2>6. ~Busy' /\ Taken' = Taken
    BY <1>2, <2>4 DEF Busy, Taken
  <2>7. Counts'
    BY <1>1, <1>2, <2>1, <2>3, <2>4, <2>6, SMTT(20)
       DEF Counting, Counts, Signals, Places, SentBackup, TookBackup, SentWorker, TookWorker
  <2> QED
    BY <1>1, <2>3, <2>4, <2>5, <2>6, <2>7, SameRing DEF Counting
<1> QED
  BY <1>2, <1>3, <1>4

\* A step of the worker thread on the query it has, or on none.
LEMMA WorkerStays ==
  ASSUME Counting,
         worker' \in WorkerThreads,
         worker'.job = worker.job, worker'.query = worker.query,
         Busy' <=> Busy, worker.pc # "done", worker'.pc # "done",
         UNCHANGED <<slots, kind, numBackup, numWorker, shutdown, stopping, backup,
                     result>>,
         temp' \subseteq Queries, fallback' \subseteq Queries, remote' \subseteq Queries
  PROVE  Counting'
<1>1. DbTypeOK'
  BY DEF Counting, DbTypeOK
<1>2. Taken' = Taken
  BY DEF Taken
<1>3. /\ SentBackup' = SentBackup /\ TookBackup' = TookBackup
      /\ SentWorker' = SentWorker /\ TookWorker' = TookWorker
  BY <1>2 DEF SentBackup, TookBackup, SentWorker, TookWorker
<1>4. Signals'
  BY <1>3, Sums DEF Signals
<1>5. Places'
  BY DEF Counting, Counts, Places
<1>6. Ring' /\ Results'
  BY <1>2, SameRing DEF Counting
<1> QED
  BY <1>1, <1>4, <1>5, <1>6 DEF Counting, Counts

\* The query the worker thread has.
LEMMA AtWork ==
  ASSUME Counting, Busy
  PROVE  /\ worker.query = worker.job + 1 /\ worker.query \in Queries
         /\ worker.query <= backup.job /\ worker.query <= Len(kind)
         /\ worker.query \in 1 .. Len(kind)
<1>1. /\ worker.query = worker.job + 1 /\ worker.job < backup.job
      /\ backup.job <= Len(kind) /\ Len(kind) <= MaxQueries
  BY DEF Counting, Counts, Places
<1> QED
  BY <1>1, Numbers, DbAssumption DEF Queries

LEMMA WorkerSteps ==
  ASSUME Counting, Top \/ WorkerRead \/ WorkerWrite \/ WorkerRegister \/ Move
                   \/ NoMove \/ Delete
  PROVE  Counting'
<1> USE DEF WorkerThreads
<1>0. /\ worker \in WorkerThreads
      /\ temp \subseteq Queries /\ fallback \subseteq Queries /\ remote \subseteq Queries
  BY DEF Counting, DbTypeOK
<1>1. CASE Top
  <2>1. PICK f \in BOOLEAN : worker' = [worker EXCEPT !.pc = "wait", !.fail = f]
    BY <1>1 DEF Top
  <2> QED
    BY <1>0, <1>1, <2>1, WorkerStays DEF Top, Busy, tables
<1>2. CASE WorkerRead
  <2>1. PICK s \in BOOLEAN, f \in BOOLEAN :
          worker' = [worker EXCEPT !.pc = "post", !.success = s, !.fail = f]
    BY <1>2 DEF WorkerRead
  <2> QED
    BY <1>0, <1>2, <2>1, WorkerStays DEF WorkerRead, Busy, tables
<1>3. CASE WorkerWrite
  <2>1. PICK s \in BOOLEAN, f \in BOOLEAN :
          worker' = [worker EXCEPT !.pc = "move", !.success = s, !.fail = f]
    BY <1>3 DEF WorkerWrite
  <2>2. Busy /\ worker.pc = "exec"
    BY <1>3 DEF WorkerWrite, Busy
  <2>3. remote' \subseteq Queries
    <3>1. remote' = remote \/ remote' = remote \cup {worker.query}
      BY <1>3 DEF WorkerWrite
    <3>2. worker.query \in Queries
      BY <2>2, AtWork
    <3> QED
      BY <1>0, <3>1, <3>2
  <2> QED
    BY <1>0, <1>3, <2>1, <2>2, <2>3, WorkerStays DEF WorkerWrite, Busy
<1>4. CASE WorkerRegister
  <2>1. PICK r \in BOOLEAN, w \in BOOLEAN, d \in BOOLEAN :
          worker' = [worker EXCEPT !.pc = "post", !.success = TRUE,
                                   !.read = r, !.write = w, !.db = d]
    BY <1>4 DEF WorkerRegister
  <2> QED
    BY <1>0, <1>4, <2>1, WorkerStays DEF WorkerRegister, Busy, tables
<1>5. CASE Move
  <2>1. /\ worker' = [worker EXCEPT !.pc = "delete"] \/ worker' = [worker EXCEPT !.pc = "post"]
        /\ fallback' \subseteq fallback \cup temp
    BY <1>5 DEF Move
  <2> QED
    BY <1>0, <1>5, <2>1, WorkerStays DEF Move, Busy
<1>6. CASE NoMove
  <2>1. worker' = [worker EXCEPT !.pc = "delete"] \/ worker' = [worker EXCEPT !.pc = "post"]
    BY <1>6 DEF NoMove
  <2> QED
    BY <1>0, <1>6, <2>1, WorkerStays DEF NoMove, Busy, tables
<1>7. CASE Delete
  <2>1. /\ \/ worker' = [worker EXCEPT !.pc = "post", !.success = TRUE]
           \/ worker' = [worker EXCEPT !.pc = "post"]
        /\ temp' \subseteq temp
    BY <1>7 DEF Delete
  <2> QED
    BY <1>0, <1>7, <2>1, WorkerStays DEF Delete, Busy
<1> QED
  BY <1>1, <1>2, <1>3, <1>4, <1>5, <1>6, <1>7

\* The result is told, and the worker goes on to the next query.
LEMMA PostStep ==
  ASSUME Counting, Post
  PROVE  Counting'
<1>1. /\ worker.pc = "post" /\ Busy
      /\ worker' = [worker EXCEPT !.pc = "top", !.job = @ + 1, !.query = Null]
      /\ \E r \in {"ok", "failed"} : result' = [result EXCEPT ![worker.query] = r]
      /\ UNCHANGED <<slots, kind, numBackup, numWorker, shutdown, stopping, backup,
                     temp, fallback, remote>>
  BY DEF Post, tables, Busy
<1>2. /\ worker.query = worker.job + 1 /\ worker.query \in Queries
      /\ worker.job < backup.job /\ worker.job \in Nat
  BY <1>1, AtWork, Numbers DEF Counting, Counts, Places
<1>3. worker' \in WorkerThreads /\ worker'.pc = "top" /\ worker'.job = worker.job + 1
      /\ worker'.query = Null
  <2>1. worker \in WorkerThreads
    BY DEF Counting, DbTypeOK
  <2>2. worker' \in WorkerThreads
    <3>1. worker.job + 1 \in Nat
      BY <1>2
    <3> QED
      BY <1>1, <2>1, <3>1 DEF WorkerThreads
  <2> QED
    BY <1>1, <2>1, <2>2 DEF WorkerThreads
<1>4. DbTypeOK'
  BY <1>1, <1>3 DEF Counting, DbTypeOK
<1>5. ~Busy' /\ Taken = worker.job + 1 /\ Taken' = worker.job + 1
  <2>1. ~Busy'
    BY <1>3 DEF Busy
  <2>2. worker'.job + 0 = worker.job + 1
    BY <1>2, <1>3
  <2> QED
    BY <1>1, <2>1, <2>2 DEF Taken
<1>6. /\ SentBackup' = SentBackup /\ TookBackup' = TookBackup
      /\ SentWorker' = SentWorker /\ TookWorker' = TookWorker
  BY <1>1, <1>3, <1>5 DEF SentBackup, TookBackup, SentWorker, TookWorker
<1>7. Signals'
  BY <1>1, <1>6, Sums DEF Signals
<1>8. Places'
  <2>1. Places
    BY DEF Counting, Counts
  <2>2. Len(kind) - (worker.job + 1) <= Outstanding
    BY <2>1, Numbers, DbAssumption DEF Places
  <2> QED
    BY <1>1, <1>2, <1>3, <1>5, <2>1, <2>2, Numbers DEF Places
<1>9. Ring'
  BY <1>1, <1>5 DEF Counting, Ring
<1>10. Results'
  <2> SUFFICES ASSUME NEW q \in Queries
               PROVE  result'[q] = "pending" <=> q > worker.job + 1
    BY <1>3 DEF Results
  <2>1. q \in Nat
    BY DbAssumption DEF Queries
  <2>2. result[q] = "pending" <=> q > worker.job
    BY DEF Counting, Results
  <2>3. CASE q = worker.query
    BY <1>1, <1>2, <2>1, <2>3 DEF Counting, DbTypeOK
  <2>4. CASE q # worker.query
    <3>1. result'[q] = result[q]
      BY <1>1, <2>4 DEF Counting, DbTypeOK
    <3> QED
      BY <1>2, <2>1, <2>2, <2>4, <3>1
  <2> QED
    BY <2>3, <2>4
<1> QED
  BY <1>4, <1>7, <1>8, <1>9, <1>10 DEF Counting, Counts

LEMMA CountingStep == Counting /\ [DbNext]_dbVars => Counting'
<1> SUFFICES ASSUME Counting, [DbNext]_dbVars PROVE Counting'
  OBVIOUS
<1>1. CASE \E k \in Kinds : Execute(k)
  BY <1>1, ExecuteStep
<1>2. CASE OnShutdown
  BY <1>2, OnShutdownStep
<1>3. CASE BackupWait
  BY <1>3, BackupWaitStep
<1>4. CASE BackupExec
  BY <1>4, BackupExecStep
<1>5. CASE WorkerWait
  BY <1>5, WorkerWaitStep
<1>6. CASE Top \/ WorkerRead \/ WorkerWrite \/ WorkerRegister \/ Move \/ NoMove \/ Delete
  BY <1>6, WorkerSteps
<1>7. CASE Post
  BY <1>7, PostStep
<1>8. CASE UNCHANGED dbVars
  BY <1>8 DEF dbVars, tables, Counting, DbTypeOK, Counts, Signals, Places, Ring, Results,
     Busy, Taken, SentBackup, TookBackup, SentWorker, TookWorker
<1> QED
  BY <1>1, <1>2, <1>3, <1>4, <1>5, <1>6, <1>7, <1>8 DEF DbNext, Backup, Worker

LEMMA CountingAlways == DbSpec => []Counting
  BY CountingInit, CountingStep, PTL DEF DbSpec

-----------------------------------------------------------------------------
(* The tables.                                                             *)

\* A backup database is among the first m queries.
AddedBy(m) == \E p \in 1 .. m : kind[p] = "addBackup"

\* The queries the worker thread has executed.
Done == worker.job + IF worker.pc = "post" THEN 1 ELSE 0

\* Each thread has a backup database once it came to the query that adds one.
Databases ==
  /\ backup.db <=> AddedBy(backup.job)
  /\ worker.db <=> AddedBy(Done)

\* The rank that the worker thread moves: before it is deleted from one table it
\* is in another.
Moving ==
  /\ worker.pc \in {"move", "delete"} => kind[worker.query] = "write"
  /\ worker.pc \in {"move", "delete"} /\ worker.success => worker.query \in remote
  /\ worker.pc = "delete" /\ worker.query \in temp =>
       worker.query \in fallback \cup remote

\* The ranks that the backup thread has let through are stored, and those the
\* worker thread is through with where they count.
BackedUpSoFar ==
  /\ \A q \in 1 .. backup.job : kind[q] = "write" /\ AddedBy(q - 1) => q \in Stored
  /\ worker.pc = "delete" => worker.query \in fallback \cup remote

Reported ==
  /\ worker.pc = "post" /\ kind[worker.query] = "write" /\ worker.success =>
       worker.query \in fallback \cup remote
  /\ \A q \in 1 .. worker.job : kind[q] = "write" /\ result[q] = "ok" =>
       q \in fallback \cup remote

Keeping == Databases /\ Moving /\ (~BackupFails => BackedUpSoFar /\ Reported)

DbInv == Counting /\ Keeping

\* What was submitted stays what it was.
LEMMA KindsStay ==
  ASSUME Counting, [DbNext]_dbVars
  PROVE  /\ \A q \in 1 .. Len(kind) : kind'[q] = kind[q]
         /\ \A m \in 0 .. Len(kind) : AddedBy(m)' <=> AddedBy(m)
<1>1. Len(kind) \in Nat /\ kind \in Seq(Kinds)
  BY Numbers DEF Counting, DbTypeOK
<1>2. \A q \in 1 .. Len(kind) : kind'[q] = kind[q]
  <2>1. CASE \E k \in Kinds : Execute(k)
    BY <1>1, <2>1 DEF Execute
  <2>2. CASE UNCHANGED kind
    BY <2>2
  <2> QED
    BY <2>1, <2>2 DEF DbNext, Backup, Worker, OnShutdown, BackupWait, BackupExec, Top,
       WorkerWait, WorkerRead, WorkerWrite, WorkerRegister, Move, NoMove, Delete,
       Post, dbVars
<1>3. ASSUME NEW m \in 0 .. Len(kind)
      PROVE  AddedBy(m)' <=> AddedBy(m)
  <2>1. 1 .. m \subseteq 1 .. Len(kind)
    BY <1>1
  <2> QED
    BY <1>2, <2>1 DEF AddedBy
<1> QED
  BY <1>2, <1>3

\* Only the worker thread takes ranks out of tables, and the one it moves is in
\* another one by then.
LEMMA StoredStays ==
  ASSUME Counting, Moving, [DbNext]_dbVars
  PROVE  /\ Stored \subseteq Stored'
         /\ fallback \subseteq fallback' /\ remote \subseteq remote'
         /\ temp \ {worker.query} \subseteq temp'
<1>1. CASE Delete
  <2>1. /\ worker.pc = "delete" /\ fallback' = fallback /\ remote' = remote
        /\ temp \ {worker.query} \subseteq temp'
    BY <1>1 DEF Delete
  <2> QED
    BY <2>1 DEF Moving, Stored
<1>2. CASE BackupExec
  <2>1. temp \subseteq temp' /\ fallback' = fallback /\ remote' = remote
    BY <1>2 DEF BackupExec
  <2> QED
    BY <2>1 DEF Stored
<1>3. CASE WorkerWrite
  <2>1. remote \subseteq remote' /\ temp' = temp /\ fallback' = fallback
    BY <1>3 DEF WorkerWrite
  <2> QED
    BY <2>1 DEF Stored
<1>4. CASE Move
  <2>1. fallback \subseteq fallback' /\ temp' = temp /\ remote' = remote
    BY <1>4 DEF Move
  <2> QED
    BY <2>1 DEF Stored
<1>5. CASE UNCHANGED tables
  BY <1>5 DEF tables, Stored
<1> QED
  BY <1>1, <1>2, <1>3, <1>4, <1>5 DEF DbNext, Backup, Worker, OnShutdown, BackupWait, Top,
     WorkerWait, WorkerRead, WorkerRegister, NoMove, Post, Execute, dbVars

\* The two threads never work at one query: Exclusive.
LEMMA Apart ==
  ASSUME Counting
  PROVE  Exclusive
<1> SUFFICES ASSUME backup.pc = "exec"
             PROVE  worker.query # backup.query /\ result[backup.query] = "pending"
  BY DEF Exclusive
<1>1. /\ backup.query = backup.job + 1 /\ backup.job < Len(kind)
      /\ worker.job <= backup.job /\ Len(kind) <= MaxQueries
      /\ Busy => worker.query = worker.job + 1 /\ worker.job < backup.job
      /\ ~Busy => worker.query = Null
  BY DEF Counting, Counts, Places
<1>2. backup.query \in Queries /\ backup.query > worker.job
  BY <1>1, Numbers, DbAssumption DEF Queries
<1>3. worker.query # backup.query
  BY <1>1, Numbers DEF Null
<1> QED
  BY <1>2, <1>3 DEF Counting, Results

\* The steps of the others than the worker thread.
OthersStep == OnShutdown \/ Backup \/ (\E k \in Kinds : Execute(k)) \/ UNCHANGED dbVars

LEMMA OthersLeave ==
  ASSUME Counting, OthersStep
  PROVE  /\ worker' = worker /\ fallback' = fallback /\ remote' = remote
         /\ worker.query \in temp' => worker.query \in temp
         /\ result' = result
<1>1. CASE BackupExec
  <2>1. /\ temp' = temp \/ temp' = temp \cup {backup.query}
        /\ backup.pc = "exec"
        /\ worker' = worker /\ fallback' = fallback /\ remote' = remote
        /\ result' = result
    BY <1>1 DEF BackupExec
  <2> QED
    BY <2>1, Apart DEF Exclusive
<1>2. CASE OnShutdown \/ BackupWait \/ (\E k \in Kinds : Execute(k)) \/ UNCHANGED dbVars
  BY <1>2 DEF OnShutdown, BackupWait, Execute, dbVars, tables
<1> QED
  BY <1>1, <1>2 DEF OthersStep, Backup

LEMMA MovingStep ==
  ASSUME Counting, Moving, [DbNext]_dbVars
  PROVE  Moving'
<1>0. /\ \A q \in 1 .. Len(kind) : kind'[q] = kind[q]
      /\ fallback \subseteq fallback' /\ remote \subseteq remote'
      /\ Busy => worker.query \in 1 .. Len(kind)
  BY KindsStay, StoredStays, AtWork
<1>1. CASE OthersStep
  <2>1. /\ worker' = worker
        /\ worker.query \in temp' => worker.query \in temp
    BY <1>1, OthersLeave
  <2>2. worker.pc \in {"move", "delete"} => kind'[worker.query] = kind[worker.query]
    BY <1>0 DEF Busy
  <2> QED
    BY <1>0, <2>1, <2>2 DEF Moving
<1>2. CASE Top \/ WorkerRead \/ WorkerWait \/ WorkerRegister \/ Post
  <2>1. worker'.pc \notin {"move", "delete"}
    <3>1. worker \in WorkerThreads
      BY DEF Counting, DbTypeOK
    <3> QED
      BY <1>2, <3>1 DEF WorkerThreads, Top, WorkerRead, WorkerWait, WorkerRegister, Post
  <2> QED
    BY <2>1 DEF Moving
<1>3. CASE WorkerWrite
  <2>1. /\ worker \in WorkerThreads /\ worker.query \in Queries
        /\ kind' = kind /\ kind[worker.query] = "write"
    <3>1. worker \in WorkerThreads
      BY DEF Counting, DbTypeOK
    <3>2. Busy
      BY <1>3 DEF WorkerWrite, Busy
    <3> QED
      BY <1>3, <3>1, <3>2, AtWork DEF WorkerWrite
  <2>2. PICK s \in BOOLEAN, f \in BOOLEAN :
          /\ worker' = [worker EXCEPT !.pc = "move", !.success = s, !.fail = f]
          /\ remote' = remote \cup {worker.query} \/ ~s
    BY <1>3 DEF WorkerWrite
  <2>3. worker'.pc = "move" /\ worker'.query = worker.query /\ (worker'.success <=> s)
    BY <2>1, <2>2 DEF WorkerThreads
  <2>4. worker'.success => worker'.query \in remote'
    BY <2>2, <2>3
  <2>5. kind'[worker'.query] = "write"
    BY <2>1, <2>3
  <2>6. worker'.pc # "delete"
    BY <2>3
  <2> QED
    BY <2>4, <2>5, <2>6 DEF Moving
<1>4. CASE Move
  <2>1. /\ worker.pc = "move" /\ ~worker.success /\ worker \in WorkerThreads
        /\ kind' = kind /\ temp' = temp /\ remote' = remote
    BY <1>4 DEF Move, Counting, DbTypeOK
  <2>2. CASE /\ fallback' = fallback \cup (temp \cap {worker.query})
             /\ worker' = [worker EXCEPT !.pc = "delete"]
    <3>1. /\ worker'.pc = "delete" /\ worker'.query = worker.query
          /\ worker'.success = worker.success
      BY <2>1, <2>2 DEF WorkerThreads
    <3> QED
      BY <2>1, <2>2, <3>1 DEF Moving
  <2>3. CASE worker' = [worker EXCEPT !.pc = "post"]
    <3>1. worker'.pc = "post"
      BY <2>1, <2>3 DEF WorkerThreads
    <3> QED
      BY <3>1 DEF Moving
  <2> QED
    BY <1>4, <2>2, <2>3 DEF Move
<1>5. CASE NoMove
  <2>1. /\ worker.pc = "move" /\ worker \in WorkerThreads
        /\ kind' = kind /\ temp' = temp /\ remote' = remote /\ fallback' = fallback
        /\ worker' = [worker EXCEPT !.pc = IF worker.db THEN "delete" ELSE "post"]
        /\ worker.success \/ ~worker.db
    BY <1>5 DEF NoMove, tables, Counting, DbTypeOK
  <2>2. /\ worker'.query = worker.query /\ worker'.success = worker.success
        /\ worker'.pc = IF worker.db THEN "delete" ELSE "post"
    BY <2>1 DEF WorkerThreads
  <2> QED
    BY <2>1, <2>2 DEF Moving
<1>6. CASE Delete
  <2>1. worker'.pc = "post"
    <3>1. worker \in WorkerThreads
      BY DEF Counting, DbTypeOK
    <3> QED
      BY <1>6, <3>1 DEF Delete, WorkerThreads
  <2> QED
    BY <2>1 DEF Moving
<1> QED
  BY <1>1, <1>2, <1>3, <1>4, <1>5, <1>6 DEF DbNext, Worker, OthersStep

\* The threads get their backup database at the query that adds it.
LEMMA AddedNext ==
  ASSUME NEW m \in Nat
  PROVE  AddedBy(m + 1) <=> AddedBy(m) \/ kind[m + 1] = "addBackup"
<1>1. 1 .. m + 1 = (1 .. m) \cup {m + 1}
  OBVIOUS
<1> QED
  BY <1>1 DEF AddedBy

LEMMA DatabasesStep ==
  ASSUME Counting, Databases, Moving, [DbNext]_dbVars
  PROVE  Databases'
<1>0. /\ backup.job \in 0 .. Len(kind) /\ backup.job \in Nat /\ worker.job \in Nat
      /\ Len(kind) \in Nat /\ Done \in 0 .. Len(kind)
      /\ backup.pc = "exec" => backup.query = backup.job + 1 /\ backup.job + 1 <= Len(kind)
      /\ Busy => worker.query = worker.job + 1 /\ worker.job + 1 <= Len(kind)
  <2>1. /\ backup.job <= Len(kind) /\ worker.job <= backup.job
        /\ backup.pc = "exec" => backup.query = backup.job + 1 /\ backup.job < Len(kind)
        /\ Busy => worker.query = worker.job + 1 /\ worker.job < backup.job
    BY DEF Counting, Counts, Places
  <2>2. worker.pc = "post" => Busy
    BY DEF Busy
  <2>3. Done \in 0 .. Len(kind)
    BY <2>1, <2>2, Numbers DEF Done
  <2> QED
    BY <2>1, <2>3, Numbers
<1>1. backup'.db <=> AddedBy(backup.job)'
  <2>1. CASE BackupExec
    <3>1. /\ backup.pc = "exec" /\ kind' = kind /\ backup \in BackupThreads
          /\ backup' = [BackupDone EXCEPT !.db = @ \/ kind[backup.query] = "addBackup"]
      BY <2>1 DEF BackupExec, Counting, DbTypeOK
    <3>2. /\ backup'.job = backup.job + 1
          /\ backup'.db <=> backup.db \/ kind[backup.query] = "addBackup"
      BY <3>1 DEF BackupDone, BackupThreads
    <3>3. AddedBy(backup.job + 1) <=> AddedBy(backup.job) \/ kind[backup.job + 1] = "addBackup"
      BY <1>0, AddedNext
    <3>4. AddedBy(backup.job)' <=> AddedBy(backup.job + 1)
      BY <3>1, <3>2 DEF AddedBy
    <3> QED
      BY <1>0, <3>1, <3>2, <3>3, <3>4 DEF Databases
  <2>2. CASE BackupWait
    <3>1. backup \in BackupThreads
      BY DEF Counting, DbTypeOK
    <3>2. kind' = kind /\ backup'.job = backup.job /\ backup'.db = backup.db
      BY <2>2, <3>1 DEF BackupWait, BackupThreads
    <3> QED
      BY <3>2 DEF Databases, AddedBy
  <2>3. CASE backup' = backup
    BY <1>0, <2>3, KindsStay DEF Databases, AddedBy
  <2> QED
    BY <2>1, <2>2, <2>3 DEF DbNext, Backup, Worker, OnShutdown, Top, WorkerWait, WorkerRead,
       WorkerWrite, WorkerRegister, Move, NoMove, Delete, Post, Execute, dbVars
<1>2. worker'.db <=> AddedBy(Done)'
  <2>0. worker \in WorkerThreads /\ (worker.db <=> AddedBy(Done))
    BY DEF Counting, DbTypeOK, Databases
  <2>1. CASE WorkerRead \/ WorkerRegister
    <3>1. /\ worker.pc = "exec" /\ worker'.pc = "post" /\ worker'.job = worker.job
          /\ kind' = kind
          /\ worker'.db <=> worker.db \/ kind[worker.query] = "addBackup"
      BY <2>0, <2>1 DEF WorkerRead, WorkerRegister, WorkerThreads
    <3>2. Done = worker.job /\ Done' = worker.job + 1 /\ worker.query = worker.job + 1
      BY <1>0, <3>1 DEF Done, Busy
    <3>3. AddedBy(Done)' <=> AddedBy(worker.job + 1)
      BY <3>1, <3>2 DEF AddedBy
    <3>4. AddedBy(worker.job + 1) <=> AddedBy(worker.job) \/ kind[worker.job + 1] = "addBackup"
      BY <1>0, AddedNext
    <3> QED
      BY <2>0, <3>1, <3>2, <3>3, <3>4
  <2>2. CASE Move \/ NoMove \/ Delete
    <3>1. /\ worker.pc \in {"move", "delete"} /\ worker'.pc \in {"delete", "post"}
          /\ worker'.job = worker.job /\ kind' = kind /\ worker'.db = worker.db
      BY <2>0, <2>2 DEF Move, NoMove, Delete, WorkerThreads
    <3>2. /\ Done = worker.job /\ worker.query = worker.job + 1
          /\ Done' = worker.job \/ Done' = worker.job + 1
          /\ kind[worker.query] = "write"
      BY <1>0, <3>1 DEF Done, Busy, Moving
    <3>3. CASE Done' = worker.job
      BY <2>0, <3>1, <3>2, <3>3 DEF AddedBy
    <3>4. CASE Done' = worker.job + 1
      <4>1. AddedBy(Done)' <=> AddedBy(worker.job + 1)
        BY <3>1, <3>4 DEF AddedBy
      <4>2. AddedBy(worker.job + 1) <=> AddedBy(worker.job)
        BY <1>0, <3>2, AddedNext
      <4> QED
        BY <2>0, <3>1, <3>2, <4>1, <4>2
    <3> QED
      BY <3>2, <3>3, <3>4
  <2>3. CASE Top \/ WorkerWait \/ WorkerWrite \/ Post
    <3>1. /\ kind' = kind /\ worker'.db = worker.db
          /\ \/ worker.pc # "post" /\ worker'.pc # "post" /\ worker'.job = worker.job
             \/ worker.pc = "post" /\ worker'.pc # "post" /\ worker'.job = worker.job + 1
      BY <2>0, <2>3 DEF Top, WorkerWait, WorkerWrite, Post, WorkerThreads
    <3>2. Done' = Done
      BY <1>0, <3>1 DEF Done
    <3> QED
      BY <2>0, <3>1, <3>2 DEF AddedBy
  <2>4. CASE OthersStep
    <3>1. worker' = worker
      BY <2>4, OthersLeave
    <3>2. Done' = Done
      BY <3>1 DEF Done
    <3>3. AddedBy(Done)' <=> \E p \in 1 .. Done : kind'[p] = "addBackup"
      BY <3>2 DEF AddedBy
    <3>4. \A p \in 1 .. Done : kind'[p] = kind[p]
      BY <1>0, KindsStay
    <3> QED
      BY <2>0, <3>1, <3>3, <3>4 DEF AddedBy
  <2> QED
    BY <2>1, <2>2, <2>3, <2>4 DEF DbNext, Worker, OthersStep
<1> QED
  BY <1>1, <1>2 DEF Databases

\* Without errors of the backup database, what passed the backup thread is stored,
\* and leaves the table race_backup for one that counts.
LEMMA BackedUpStep ==
  ASSUME Counting, Databases, Moving, ~BackupFails, BackedUpSoFar, [DbNext]_dbVars
  PROVE  BackedUpSoFar'
<1>0. /\ backup.job \in Nat /\ worker.job \in Nat /\ Len(kind) \in Nat
      /\ backup.job <= Len(kind)
      /\ worker \in WorkerThreads /\ backup \in BackupThreads
  BY Numbers DEF Counting, DbTypeOK, Counts, Places
<1>1. Stored \subseteq Stored' /\ fallback \subseteq fallback' /\ remote \subseteq remote'
  BY StoredStays
<1>2. ASSUME NEW q \in 1 .. backup.job, kind'[q] = "write", AddedBy(q - 1)'
      PROVE  q \in Stored'
  <2>1. q \in 1 .. Len(kind) /\ q - 1 \in 0 .. Len(kind)
    BY <1>0
  <2>2. kind[q] = "write" /\ AddedBy(q - 1)
    BY <1>2, <2>1, KindsStay
  <2> QED
    BY <1>1, <2>2 DEF BackedUpSoFar
<1>3. \A q \in 1 .. backup'.job : kind'[q] = "write" /\ AddedBy(q - 1)' => q \in Stored'
  <2>1. CASE BackupExec
    <3>1. /\ backup.pc = "exec" /\ kind' = kind
          /\ backup'.job = backup.job + 1 /\ backup.query = backup.job + 1
          /\ kind[backup.query] = "write" /\ backup.db => temp' = temp \cup {backup.query}
      <4>1. backup'.job = backup.job + 1
        BY <1>0, <2>1 DEF BackupExec, BackupDone, BackupThreads
      <4> QED
        BY <2>1, <4>1 DEF BackupExec, Counting, Counts, Places
    <3>2. ASSUME NEW q \in {backup.job + 1}, kind'[q] = "write", AddedBy(q - 1)'
          PROVE  q \in Stored'
      <4>1. q - 1 = backup.job
        BY <1>0
      <4>2. backup.db
        <5>1. AddedBy(backup.job)
          <6>1. \E p \in 1 .. q - 1 : kind'[p] = "addBackup"
            BY <3>2 DEF AddedBy
          <6> QED
            BY <3>1, <4>1, <6>1 DEF AddedBy
        <5> QED
          BY <5>1 DEF Databases
      <4> QED
        BY <3>1, <3>2, <4>2 DEF Stored
    <3>3. 1 .. backup'.job = (1 .. backup.job) \cup {backup.job + 1}
      BY <1>0, <3>1
    <3> QED
      BY <1>2, <3>2, <3>3
  <2>2. CASE backup'.job = backup.job
    BY <1>2, <2>2
  <2>3. BackupExec \/ backup'.job = backup.job
    BY <1>0 DEF BackupThreads, DbNext, Backup, Worker, OnShutdown, BackupWait, Top, WorkerWait,
       WorkerRead, WorkerWrite, WorkerRegister, Move, NoMove, Delete, Post, Execute, dbVars
  <2> QED
    BY <2>1, <2>2, <2>3
<1>4. ASSUME worker'.pc = "delete"
      PROVE  worker'.query \in fallback' \cup remote'
  <2>1. CASE Move
    <3>1. /\ worker.pc = "move" /\ worker.db
          /\ worker'.query = worker.query
          /\ fallback' = fallback \cup (temp \cap {worker.query})
      BY <1>0, <1>4, <2>1 DEF Move, WorkerThreads
    <3>2. /\ worker.query = worker.job + 1 /\ worker.query \in 1 .. backup.job
          /\ kind[worker.query] = "write"
      <4>1. Busy
        BY <3>1 DEF Busy
      <4>2. worker.query = worker.job + 1 /\ worker.query <= backup.job
        BY <4>1, AtWork
      <4> QED
        BY <1>0, <3>1, <4>2 DEF Moving
    <3>3. AddedBy(worker.query - 1)
      <4>1. Done = worker.job /\ worker.query - 1 = worker.job
        BY <1>0, <3>1, <3>2 DEF Done
      <4> QED
        BY <3>1, <4>1 DEF Databases
    <3>4. worker.query \in Stored
      BY <3>2, <3>3 DEF BackedUpSoFar
    <3> QED
      BY <1>1, <3>1, <3>4 DEF Stored
  <2>2. CASE NoMove
    <3>1. /\ worker.pc = "move" /\ worker.success /\ worker'.query = worker.query
          /\ remote' = remote
      BY <1>0, <1>4, <2>2 DEF NoMove, WorkerThreads, tables
    <3> QED
      BY <3>1 DEF Moving
  <2>3. CASE OthersStep
    <3>1. worker' = worker
      BY <2>3, OthersLeave
    <3> QED
      BY <1>1, <1>4, <3>1 DEF BackedUpSoFar
  <2>4. CASE Top \/ WorkerWait \/ WorkerRead \/ WorkerWrite \/ WorkerRegister \/ Delete \/ Post
    <3>1. worker'.pc # "delete"
      BY <1>0, <2>4 DEF WorkerThreads, Top, WorkerWait, WorkerRead, WorkerWrite, WorkerRegister,
         Delete, Post
    <3> QED
      BY <1>4, <3>1
  <2> QED
    BY <2>1, <2>2, <2>3, <2>4 DEF DbNext, Worker, OthersStep
<1> QED
  BY <1>3, <1>4 DEF BackedUpSoFar

\* Without errors of the backup database, a rank reported as a success is where
\* it counts.
LEMMA ReportedStep ==
  ASSUME Counting, Moving, BackedUpSoFar, Reported, [DbNext]_dbVars
  PROVE  Reported'
<1>0. /\ backup.job \in Nat /\ worker.job \in Nat /\ Len(kind) \in Nat
      /\ worker.job <= Len(kind)
      /\ worker \in WorkerThreads
      /\ Busy => worker.query = worker.job + 1 /\ worker.query \in 1 .. Len(kind)
      /\ fallback \subseteq fallback' /\ remote \subseteq remote'
  BY Numbers, AtWork, StoredStays DEF Counting, DbTypeOK, Counts, Places
<1>1. \A q \in 1 .. worker.job : kind'[q] = kind[q]
  BY <1>0, KindsStay
<1>2. CASE Post
  <2>1. /\ worker.pc = "post" /\ worker'.pc = "top" /\ worker'.job = worker.job + 1
        /\ kind' = kind /\ fallback' = fallback /\ remote' = remote
        /\ worker.query = worker.job + 1
        /\ result' = [result EXCEPT ![worker.query] =
                        IF worker.success THEN "ok" ELSE "failed"]
    BY <1>0, <1>2 DEF Post, WorkerThreads, tables, Busy
  <2>2. worker.query \in Queries
    BY <2>1, AtWork DEF Busy
  <2>3. result \in [Queries -> {"pending", "failed", "ok"}]
    BY DEF Counting, DbTypeOK
  <2>4. result'[worker.query] = "ok" => worker.success
    BY <2>1, <2>2, <2>3
  <2>5. ASSUME NEW q \in 1 .. worker.job + 1, kind[q] = "write", result'[q] = "ok"
        PROVE  q \in fallback \cup remote
    <3>1. CASE q = worker.query
      BY <2>1, <2>4, <2>5, <3>1 DEF Reported
    <3>2. CASE q # worker.query
      <4>1. q \in 1 .. worker.job
        BY <1>0, <2>1, <3>2
      <4>2. result'[q] = result[q]
        BY <2>1, <2>3, <3>2
      <4> QED
        BY <2>5, <4>1, <4>2 DEF Reported
    <3> QED
      BY <3>1, <3>2
  <2> QED
    BY <2>1, <2>5 DEF Reported
<1>3. CASE WorkerRead \/ WorkerRegister
  <2>1. /\ worker.pc = "exec" /\ kind[worker.query] # "write"
        /\ kind' = kind /\ result' = result
        /\ worker'.query = worker.query /\ worker'.job = worker.job
    BY <1>0, <1>3 DEF WorkerRead, WorkerRegister, WorkerThreads
  <2> QED
    BY <1>0, <2>1 DEF Reported
<1>4. CASE Move \/ NoMove \/ Delete
  <2>1. /\ kind' = kind /\ result' = result
        /\ worker'.query = worker.query /\ worker'.job = worker.job
    BY <1>0, <1>4 DEF Move, NoMove, Delete, WorkerThreads
  <2>2. ASSUME worker'.pc = "post", worker'.success
        PROVE  worker.query \in fallback' \cup remote'
    <3>1. CASE Move
      <4>1. ~worker'.success \/ worker'.pc # "post"
        BY <1>0, <3>1 DEF Move, WorkerThreads
      <4> QED
        BY <2>2, <4>1
    <3>2. CASE NoMove
      <4>1. worker.pc = "move" /\ worker.success
        BY <1>0, <2>2, <3>2 DEF NoMove, WorkerThreads
      <4> QED
        BY <1>0, <4>1 DEF Moving
    <3>3. CASE Delete
      <4>1. worker.pc = "delete"
        BY <3>3 DEF Delete
      <4> QED
        BY <1>0, <4>1 DEF BackedUpSoFar
    <3> QED
      BY <1>4, <3>1, <3>2, <3>3
  <2>3. \A q \in 1 .. worker.job : kind'[q] = "write" /\ result'[q] = "ok" =>
          q \in fallback' \cup remote'
    BY <1>0, <2>1 DEF Reported
  <2> QED
    BY <2>1, <2>2, <2>3 DEF Reported
<1>5. CASE Top \/ WorkerWait \/ WorkerWrite
  <2>1. /\ kind' = kind /\ result' = result
        /\ worker'.job = worker.job /\ worker'.pc # "post"
    BY <1>0, <1>5 DEF Top, WorkerWait, WorkerWrite, WorkerThreads
  <2> QED
    BY <1>0, <2>1 DEF Reported
<1>6. CASE OthersStep
  <2>1. worker' = worker /\ result' = result
    BY <1>6, OthersLeave
  <2>2. worker.pc = "post" => kind'[worker.query] = kind[worker.query]
    BY <1>0, KindsStay DEF Busy
  <2>3. worker.pc = "post" /\ kind'[worker.query] = "write" /\ worker.success =>
          worker.query \in fallback' \cup remote'
    BY <1>0, <2>2 DEF Reported
  <2>4. \A q \in 1 .. worker.job : kind'[q] = "write" /\ result'[q] = "ok" =>
          q \in fallback' \cup remote'
    BY <1>0, <1>1, <2>1 DEF Reported
  <2> QED
    BY <2>1, <2>3, <2>4 DEF Reported
<1> QED
  BY <1>2, <1>3, <1>4, <1>5, <1>6 DEF DbNext, Worker, OthersStep

LEMMA DbInvInit == DbInit => DbInv
<1> SUFFICES ASSUME DbInit PROVE Keeping
  BY CountingInit DEF DbInv
<1>1. /\ backup.job = 0 /\ ~backup.db
      /\ worker.job = 0 /\ ~worker.db /\ worker.pc = "top"
  BY DEF DbInit
<1>2. Done = 0
  BY <1>1 DEF Done
<1>3. ~AddedBy(0)
  BY DEF AddedBy
<1>4. Databases
  BY <1>1, <1>2, <1>3 DEF Databases
<1> QED
  BY <1>1, <1>4 DEF Keeping, Moving, BackedUpSoFar, Reported

LEMMA DbInvStep == DbInv /\ [DbNext]_dbVars => DbInv'
<1> SUFFICES ASSUME DbInv, [DbNext]_dbVars PROVE DbInv'
  OBVIOUS
<1>1. Counting' /\ Databases' /\ Moving'
  BY CountingStep, DatabasesStep, MovingStep DEF DbInv, Keeping
<1>2. ~BackupFails => BackedUpSoFar' /\ Reported'
  BY BackedUpStep, ReportedStep DEF DbInv, Keeping
<1> QED
  BY <1>1, <1>2 DEF DbInv, Keeping

LEMMA DbInvAlways == DbSpec => []DbInv
  BY DbInvInit, DbInvStep, PTL DEF DbSpec

-----------------------------------------------------------------------------
(* What follows.                                                           *)

\* Every variable keeps its type.
THEOREM DbTypesOK == DbSpec => []DbTypeOK
<1>1. DbInv => DbTypeOK
  BY DEF DbInv, Counting
<1> QED
  BY DbInvAlways, <1>1, PTL

\* The backup thread and the worker thread never work at the same query, although
\* only two semaphores and their own counters tell them where they are.
THEOREM NeverTwoAtOne == DbSpec => []Exclusive
<1>1. DbInv => Exclusive
  BY Apart DEF DbInv
<1> QED
  BY DbInvAlways, <1>1, PTL

\* WorkedThrough: OnShutdown returns only when nothing is left in the ring.
THEOREM ShutdownWorksThrough == DbSpec => []WorkedThrough
<1>1. DbInv => WorkedThrough
  <2> SUFFICES ASSUME DbInv, stopping, ~shutdown PROVE Pending = {}
    BY DEF WorkedThrough
  <2>1. worker.job = Len(kind)
    BY DEF DbInv, Counting, Counts, Places
  <2>2. Pending = (worker.job + 1) .. Len(kind) /\ Len(kind) \in Nat
    BY PendingIs, Numbers DEF DbInv
  <2> QED
    BY <2>1, <2>2
<1> QED
  BY DbInvAlways, <1>1, PTL

\* StaysStored: a rank leaves a table only when it is in another, whatever fails
\* and whenever the server dies.
THEOREM RanksStayStored == DbSpec => StaysStored
<1>1. DbInv /\ [DbNext]_dbVars => [Stored \subseteq Stored']_dbVars
  BY StoredStays DEF DbInv, Keeping
<1> QED
  BY DbInvAlways, <1>1, PTL DEF DbSpec, StaysStored

\* NoRankLost: with a backup database that stores what it is told to, a rank the
\* server is through with is in a table, whatever the other database does.
THEOREM RanksAreKept ==
  ASSUME ~BackupFails
  PROVE  DbSpec => []NoRankLost
<1>1. DbInv => NoRankLost
  <2> SUFFICES ASSUME DbInv, NEW q \in BackedUp, result[q] # "pending"
               PROVE  q \in Stored
    BY DEF NoRankLost
  <2>1. /\ q \in 1 .. Len(kind) /\ kind[q] = "write" /\ AddedBy(q - 1)
    BY DEF BackedUp, Writes, Submitted, AddedBy
  <2>2. /\ worker.job <= backup.job /\ Len(kind) <= MaxQueries
        /\ worker.job \in Nat /\ backup.job \in Nat /\ Len(kind) \in Nat
    BY Numbers DEF DbInv, Counting, Counts, Places
  <2>3. q \in Queries
    BY <2>1, <2>2, DbAssumption DEF Queries
  <2>4. q \in 1 .. backup.job
    BY <2>1, <2>2, <2>3 DEF DbInv, Counting, Results
  <2> QED
    BY <2>1, <2>4 DEF DbInv, Keeping, BackedUpSoFar
<1> QED
  BY DbInvAlways, <1>1, PTL

\* SuccessIsStored: what is reported to a player as stored is in a table that
\* counts, with such a backup database.
THEOREM SuccessesAreStored ==
  ASSUME ~BackupFails
  PROVE  DbSpec => []SuccessIsStored
<1>1. DbInv => SuccessIsStored
  <2> SUFFICES ASSUME DbInv, NEW q \in Writes, result[q] = "ok"
               PROVE  q \in fallback \cup remote
    BY DEF SuccessIsStored
  <2>1. q \in 1 .. Len(kind) /\ kind[q] = "write"
    BY DEF Writes, Submitted
  <2>2. /\ Len(kind) <= MaxQueries
        /\ worker.job \in Nat /\ Len(kind) \in Nat
    BY Numbers DEF DbInv, Counting, Counts, Places
  <2>3. q \in Queries
    BY <2>1, <2>2, DbAssumption DEF Queries
  <2>4. q \in 1 .. worker.job
    BY <2>1, <2>2, <2>3 DEF DbInv, Counting, Results
  <2> QED
    BY <2>1, <2>4 DEF DbInv, Keeping, Reported
<1> QED
  BY DbInvAlways, <1>1, PTL

----------------------------------------------------------------------------
(* The background file writer.                                             *)

\* The bytes that are in the file or on their way to it.
Ahead == Len(file) + Len(local)

FileHolds == \A i \in 1 .. Len(file) : file[i] = i
LocalHolds == \A i \in 1 .. Len(local) : local[i] = Len(file) + i
RingHolds == \A i \in 1 .. BufferLen : At(i) = Ahead + i

\* As long as the disk takes everything, every position holds its byte.
Positions ==
  /\ thread # "write" => local = << >>
  /\ ~ferr => /\ FileHolds /\ LocalHolds /\ RingHolds
              /\ written = Ahead + BufferLen

\* How far the owner and the thread are, and what they have done by then.
Phases ==
  /\ owner \in {"closing", "closed"} => closes
  /\ owner = "run" => finish = "RUNNING"
  /\ owner # "run" => finish = IF closes THEN "CLOSE" ELSE "EXIT"
  /\ thread = "end" => owner # "run"
  /\ owner \in {"joined", "freed"} => thread = "end"
  /\ refcount = (IF thread = "end" THEN 0 ELSE 1) + (IF owner = "freed" THEN 0 ELSE 1)
  /\ freed <=> refcount = 0
  /\ isOpen <=> ~(thread = "end" /\ closes)

\* What was written before the owner began to end the file is in it.
Promise ==
  /\ promised <= written
  /\ thread = "end" /\ ~ferr /\ (closes => owner # "run")
       => promised <= Len(file)

AioInv == AioTypeOK /\ Positions /\ Phases /\ Promise

-----------------------------------------------------------------------------
(* The ring.                                                               *)

LEMMA RingIndex ==
  ASSUME AioTypeOK
  PROVE  /\ BufferLen \in 0 .. bufferSize - 1
         /\ BufferLen = 0 <=> readPos = writePos
         /\ \A i \in 1 .. bufferSize : At(i) \in Nat
<1>1. /\ BufferLen \in 0 .. bufferSize - 1
      /\ BufferLen = 0 <=> readPos = writePos
  BY DEF AioTypeOK, BufferLen
<1>2. ASSUME NEW i \in 1 .. bufferSize
      PROVE  At(i) \in Nat
  BY DEF AioTypeOK, At
<1> QED
  BY <1>1, <1>2

\* What is read at position i once n bytes are put into the ring.
After(i) == IF i <= BufferLen THEN At(i) ELSE written + i - BufferLen

\* Placing n bytes: what was queued stays, the new bytes follow.
LEMMA PlaceKeeps ==
  ASSUME AioTypeOK, NEW n \in Nat, Place(n)
  PROVE  /\ bufferSize' = bufferSize /\ readPos' = readPos
         /\ buffer' \in [0 .. bufferSize - 1 -> Nat]
         /\ writePos' \in 0 .. bufferSize - 1
         /\ BufferLen' = BufferLen + n
         /\ \A i \in 1 .. BufferLen + n : At(i)' = After(i)
<1>1. /\ bufferSize' = bufferSize
      /\ readPos' = readPos
      /\ writePos' \in 0 .. bufferSize - 1
      /\ BufferLen' = BufferLen + n
  BY DEF AioTypeOK, Place, BufferLen
<1>2. buffer' \in [0 .. bufferSize - 1 -> Nat]
  BY DEF AioTypeOK, Place
<1>3. ASSUME NEW i \in 1 .. BufferLen + n
      PROVE  At(i)' = After(i)
  <2> DEFINE p == IF readPos + i - 1 < bufferSize THEN readPos + i - 1
                  ELSE readPos + i - 1 - bufferSize
             off == IF p >= writePos THEN p - writePos ELSE p + bufferSize - writePos
  <2>1. /\ bufferSize \in Nat /\ readPos \in 0 .. bufferSize - 1
        /\ writePos \in 0 .. bufferSize - 1 /\ written \in Nat
        /\ BufferLen \in 0 .. bufferSize - 1
        /\ BufferLen + n < bufferSize
    BY RingIndex DEF AioTypeOK, Place
  <2>2. p \in 0 .. bufferSize - 1
    BY <2>1
  <2>3. At(i)' = buffer'[p] /\ At(i) = buffer[p]
    BY <1>1 DEF At
  <2>4. buffer'[p] = IF off < n THEN written + 1 + off ELSE buffer[p]
    BY <2>2 DEF Place
  <2>5. off < n <=> i > BufferLen
    BY <2>1 DEF BufferLen
  <2>6. i > BufferLen => off = i - BufferLen - 1
    BY <2>1 DEF BufferLen
  <2> HIDE DEF p, off
  <2>7. i <= BufferLen => After(i) = At(i)
    BY DEF After
  <2>8. i > BufferLen => After(i) = written + i - BufferLen
    BY <2>1 DEF After
  <2>9. CASE i <= BufferLen
    BY <2>1, <2>3, <2>4, <2>5, <2>7, <2>9
  <2>10. CASE i > BufferLen
    BY <2>1, <2>3, <2>4, <2>5, <2>6, <2>8, <2>10
  <2> QED
    BY <2>1, <2>9, <2>10
<1> QED
  BY <1>1, <1>2, <1>3

LEMMA Below ==
  ASSUME NEW m \in Nat, NEW s \in Nat, m < s, NEW i \in 1 .. m
  PROVE  i - 1 \in 0 .. s - 1
  OBVIOUS

\* So does growing.
LEMMA GrowKeeps ==
  ASSUME AioTypeOK, NEW n \in Nat, Grow(n)
  PROVE  /\ bufferSize' \in Nat /\ bufferSize' > BufferLen + n
         /\ buffer' \in [0 .. bufferSize' - 1 -> Nat]
         /\ readPos' = 0 /\ writePos' = BufferLen + n
         /\ BufferLen' = BufferLen + n
         /\ \A i \in 1 .. BufferLen + n : At(i)' = After(i)
<1>1. /\ BufferLen \in Nat
      /\ \A i \in 1 .. BufferLen : At(i) \in Nat
      /\ written \in Nat
  BY RingIndex DEF AioTypeOK
<1>2. PICK size \in (BufferLen + n + 1) .. (2 * (BufferLen + n + 1) - 1) :
        /\ bufferSize' = size
        /\ buffer' = [p \in 0 .. size - 1 |->
                IF p < BufferLen THEN At(p + 1)
                ELSE IF p < BufferLen + n THEN written + 1 + p - BufferLen
                ELSE Garbage]
  BY DEF Grow
<1>3. /\ bufferSize' \in Nat /\ bufferSize' > BufferLen + n
      /\ readPos' = 0 /\ writePos' = BufferLen + n
  BY <1>1, <1>2 DEF Grow
<1>4. BufferLen' = BufferLen + n
  BY <1>1, <1>3 DEF BufferLen
<1>5. ASSUME NEW p \in 0 .. bufferSize' - 1
      PROVE  buffer'[p] \in Nat
  BY <1>1, <1>2 DEF Garbage
<1>6. buffer' \in [0 .. bufferSize' - 1 -> Nat]
  BY <1>2, <1>5
<1>7. ASSUME NEW i \in 1 .. BufferLen + n
      PROVE  At(i)' = After(i)
  <2> DEFINE m == BufferLen + n
  <2>0. m \in Nat /\ bufferSize' \in Nat /\ m < bufferSize' /\ i \in 1 .. m
    BY <1>1, <1>3
  <2> HIDE DEF m
  <2>1. i - 1 \in 0 .. bufferSize' - 1
    BY <2>0, Below
  <2>2. At(i)' = buffer'[i - 1]
    BY <1>3, <2>1 DEF At
  <2> QED
    BY <1>1, <1>2, <2>1, <2>2 DEF After
<1> QED
  BY <1>3, <1>4, <1>6, <1>7

\* Taking the first bytes leaves the others.
LEMMA TakeKeeps ==
  ASSUME AioTypeOK, Take
  PROVE  /\ local' = [i \in 1 .. Len(local') |-> At(i)]
         /\ Len(local') \in 0 .. BufferLen
         /\ local' \in Seq(Nat)
         /\ readPos' \in 0 .. bufferSize - 1
         /\ BufferLen' = BufferLen - Len(local')
         /\ \A i \in 1 .. BufferLen' : At(i)' = At(Len(local') + i)
<1> DEFINE len == IF BufferLen < LocalSize THEN BufferLen ELSE LocalSize
<1>1. /\ bufferSize \in Nat \ {0} /\ readPos \in 0 .. bufferSize - 1
      /\ writePos \in 0 .. bufferSize - 1
      /\ BufferLen \in 0 .. bufferSize - 1
      /\ \A i \in 1 .. BufferLen : At(i) \in Nat
  BY RingIndex DEF AioTypeOK
<1>2. len \in 0 .. BufferLen
  BY <1>1, AioAssumption
<1>3. /\ local' = [i \in 1 .. len |-> At(i)]
      /\ readPos' = IF readPos + len < bufferSize THEN readPos + len
                                                  ELSE readPos + len - bufferSize
      /\ bufferSize' = bufferSize /\ buffer' = buffer /\ writePos' = writePos
  BY DEF Take
<1> HIDE DEF len
<1>4. \A i \in 1 .. len : At(i) \in Nat
  BY <1>1, <1>2
<1>5. local' \in Seq(Nat) /\ Len(local') = len
  BY <1>2, <1>3, <1>4
<1>6. readPos' \in 0 .. bufferSize - 1
  BY <1>1, <1>2, <1>3
<1>7. BufferLen' = BufferLen - len
  BY <1>1, <1>2, <1>3 DEF BufferLen
<1>8. ASSUME NEW i \in 1 .. BufferLen'
      PROVE  At(i)' = At(len + i)
  <2>1. i \in Nat /\ 1 <= i /\ i <= BufferLen - len
    BY <1>1, <1>2, <1>7
  <2> QED
    BY <1>1, <1>2, <1>3, <2>1 DEF At
<1> QED
  BY <1>2, <1>3, <1>5, <1>6, <1>7, <1>8

-----------------------------------------------------------------------------
(* The invariant.                                                          *)

LEMMA AioInvInit == AioInit => AioInv
<1> SUFFICES ASSUME AioInit PROVE AioInv
  OBVIOUS
<1>1. AioTypeOK
  BY AioAssumption DEF AioInit, AioTypeOK, Garbage, OwnerPlaces
<1>2. Positions
  BY DEF AioInit, Positions, FileHolds, LocalHolds, RingHolds, Ahead, BufferLen
<1>3. Phases
  BY DEF AioInit, Phases
<1>4. Promise
  BY DEF AioInit, Promise
<1> QED
  BY <1>1, <1>2, <1>3, <1>4 DEF AioInv

\* Bytes that a thread logs.
LEMMA WriteKeeps ==
  ASSUME AioInv, NEW n \in 1 .. MaxWrite, Write(n)
  PROVE  AioInv'
<1>0. n \in Nat /\ AioTypeOK /\ BufferLen \in Nat
  BY AioAssumption, RingIndex DEF AioInv
<1>1. /\ BufferLen' = BufferLen + n
      /\ \A i \in 1 .. BufferLen + n : At(i)' = After(i)
      /\ bufferSize' \in Nat \ {0}
      /\ buffer' \in [0 .. bufferSize' - 1 -> Nat]
      /\ readPos' \in 0 .. bufferSize' - 1
      /\ writePos' \in 0 .. bufferSize' - 1
  <2>1. CASE Place(n)
    BY <1>0, <2>1, PlaceKeeps DEF AioTypeOK
  <2>2. CASE Grow(n)
    BY <1>0, <2>2, GrowKeeps
  <2> QED
    BY <2>1, <2>2 DEF Write
<1>2. AioTypeOK'
  <2>1. /\ written' = written + n /\ owed' = owed + 1
        /\ UNCHANGED <<finish, refcount, sphore, thread, local, file, ferr, isOpen,
                       owner, closes, promised, freed>>
    BY DEF Write, disk, ending
  <2>2. written' \in Nat /\ owed' \in Nat
    BY <1>0, <2>1 DEF AioTypeOK
  <2> QED
    BY <1>0, <1>1, <2>1, <2>2 DEF AioTypeOK
<1>3. Positions'
  <2>1. Ahead' = Ahead /\ local' = local /\ file' = file /\ written' = written + n
    BY DEF Write, Ahead, disk
  <2>2. ASSUME ~ferr, NEW i \in 1 .. BufferLen'
        PROVE  At(i)' = Ahead + i
    <3>1. At(i)' = After(i)
      BY <1>1
    <3>2. Ahead \in Nat
      BY <1>0 DEF Ahead, AioTypeOK
    <3>3. RingHolds /\ written = Ahead + BufferLen
      BY <2>2 DEF AioInv, Positions
    <3>4. i \in Nat /\ i >= 1
      BY <1>0, <1>1
    <3>5. CASE i <= BufferLen
      BY <1>0, <3>1, <3>3, <3>4, <3>5 DEF RingHolds, After
    <3>6. CASE i > BufferLen
      BY <1>0, <3>1, <3>2, <3>3, <3>4, <3>6 DEF After
    <3> QED
      BY <1>0, <3>4, <3>5, <3>6
  <2>3. ~ferr => RingHolds'
    BY <2>1, <2>2 DEF RingHolds
  <2>4. ~ferr => written' = Ahead' + BufferLen'
    BY <1>0, <1>1, <2>1 DEF AioInv, Positions, Ahead, AioTypeOK
  <2>5. ~ferr => FileHolds' /\ LocalHolds'
    BY <2>1 DEF AioInv, Positions, FileHolds, LocalHolds
  <2>6. ferr' = ferr /\ thread' = thread
    BY DEF Write, disk
  <2> QED
    BY <2>1, <2>3, <2>4, <2>5, <2>6 DEF AioInv, Positions
<1>4. Phases'
  BY DEF Write, AioInv, Phases, ending
<1>5. Promise'
  BY <1>0 DEF Write, AioInv, AioTypeOK, Promise, ending, disk
<1> QED
  BY <1>2, <1>3, <1>4, <1>5 DEF AioInv

\* A step that leaves the bytes and where they are alone.
LEMMA SamePositions ==
  ASSUME Positions, UNCHANGED <<bytes, local, disk, written>>,
         thread' = "write" <=> thread = "write"
  PROVE  Positions'
<1>1. BufferLen' = BufferLen /\ Ahead' = Ahead /\ ferr' = ferr
  BY DEF bytes, disk, BufferLen, Ahead
<1>2. ASSUME NEW i
      PROVE  At(i)' = At(i)
  BY DEF bytes, At
<1>3. FileHolds' <=> FileHolds
  BY DEF FileHolds, disk
<1>4. LocalHolds' <=> LocalHolds
  BY DEF LocalHolds, disk
<1>5. RingHolds' <=> RingHolds
  BY <1>1, <1>2 DEF RingHolds
<1> QED
  BY <1>1, <1>3, <1>4, <1>5 DEF Positions

\* The thread takes bytes out of the ring.
LEMMA TakeStep ==
  ASSUME AioInv, Take
  PROVE  AioInv'
<1>0. /\ AioTypeOK /\ BufferLen \in Nat
      /\ local = << >>
      /\ UNCHANGED <<buffer, bufferSize, writePos, finish, refcount, sphore, owed,
                     file, ferr, isOpen, owner, closes, promised, written, freed>>
      /\ thread = "top" /\ thread' = "write"
  BY RingIndex DEF AioInv, Positions, Take, disk, ending
<1>1. /\ Len(local') \in 0 .. BufferLen
      /\ local' = [i \in 1 .. Len(local') |-> At(i)]
      /\ BufferLen' = BufferLen - Len(local')
  BY <1>0, TakeKeeps
<1>2. AioTypeOK'
  <2>1. local' \in Seq(Nat) /\ readPos' \in 0 .. bufferSize - 1
    BY <1>0, TakeKeeps
  <2> QED
    BY <1>0, <2>1 DEF AioTypeOK
<1>3. Positions'
  <2>1. Len(file) \in Nat /\ Len(local) = 0 /\ Ahead = Len(file)
        /\ Ahead' = Len(file) + Len(local')
    BY <1>0 DEF Ahead, AioTypeOK
  <2>2. ASSUME ~ferr
        PROVE  FileHolds' /\ LocalHolds' /\ RingHolds' /\ written' = Ahead' + BufferLen'
    <3>1. /\ FileHolds /\ RingHolds
          /\ written = Ahead + BufferLen
      BY <2>2 DEF AioInv, Positions
    <3>2. FileHolds'
      BY <1>0, <3>1 DEF FileHolds
    <3>3. LocalHolds'
      <4>1. ASSUME NEW i \in 1 .. Len(local')
            PROVE  local'[i] = Len(file) + i
        <5>1. local'[i] = At(i) /\ i \in 1 .. BufferLen
          BY <1>0, <1>1
        <5> QED
          BY <2>1, <3>1, <5>1 DEF RingHolds
      <4> QED
        BY <1>0, <4>1 DEF LocalHolds
    <3>4. RingHolds'
      <4>1. ASSUME NEW i \in 1 .. BufferLen'
            PROVE  At(i)' = Ahead' + i
        <5>1. At(i)' = At(Len(local') + i)
          BY <1>0, TakeKeeps
        <5>2. Len(local') + i \in 1 .. BufferLen
          BY <1>0, <1>1
        <5>3. At(Len(local') + i) = Ahead + (Len(local') + i)
          BY <3>1, <5>2 DEF RingHolds
        <5> QED
          BY <1>0, <1>1, <2>1, <5>1, <5>3
      <4> QED
        BY <4>1 DEF RingHolds
    <3>5. written' = Ahead' + BufferLen'
      BY <1>0, <1>1, <2>1, <3>1
    <3> QED
      BY <3>2, <3>3, <3>4, <3>5
  <2> QED
    BY <1>0, <2>2 DEF Positions
<1>4. Phases'
  BY <1>0 DEF AioInv, Phases
<1>5. Promise'
  BY <1>0 DEF AioInv, Promise
<1> QED
  BY <1>2, <1>3, <1>4, <1>5 DEF AioInv

\* The local buffer goes behind the file.
LEMMA StoreStep ==
  ASSUME AioInv, Store
  PROVE  AioInv'
<1>0. /\ AioTypeOK
      /\ UNCHANGED <<bytes, finish, refcount, sphore, owed, ferr, isOpen, owner,
                     closes, promised, written, freed>>
      /\ thread = "write" /\ thread' = "top"
      /\ file' = (IF ferr THEN << >> ELSE file \o local) /\ local' = << >>
  BY DEF AioInv, Store, ending
<1>1. AioTypeOK'
  <2>1. file' \in Seq(Nat) /\ local' \in Seq(Nat)
    BY <1>0 DEF AioTypeOK
  <2> QED
    BY <1>0, <2>1 DEF AioTypeOK, bytes
<1>2. Positions'
  <2>1. BufferLen' = BufferLen /\ Len(local') = 0
    BY <1>0 DEF bytes, BufferLen
  <2>2. ASSUME ~ferr
        PROVE  FileHolds' /\ LocalHolds' /\ RingHolds' /\ written' = Ahead' + BufferLen'
    <3>1. /\ FileHolds /\ LocalHolds /\ RingHolds
          /\ written = Ahead + BufferLen
          /\ file' = file \o local
      BY <1>0, <2>2 DEF AioInv, Positions
    <3>2. /\ file \in Seq(Nat) /\ local \in Seq(Nat)
          /\ Len(file) \in Nat /\ Len(local) \in Nat
          /\ Len(file') = Len(file) + Len(local)
          /\ Ahead' = Ahead
      BY <1>0, <2>1, <3>1 DEF AioTypeOK, Ahead
    <3>3. ASSUME NEW i \in 1 .. Len(file')
          PROVE  file'[i] = i
      <4>1. CASE i <= Len(file)
        BY <3>1, <3>2, <4>1 DEF FileHolds
      <4>2. CASE i > Len(file)
        <5>1. file'[i] = local[i - Len(file)] /\ i - Len(file) \in 1 .. Len(local)
          BY <3>1, <3>2, <4>2
        <5> QED
          BY <3>1, <3>2, <5>1 DEF LocalHolds
      <4> QED
        BY <3>2, <4>1, <4>2
    <3>4. FileHolds'
      BY <3>3 DEF FileHolds
    <3>5. LocalHolds'
      BY <2>1 DEF LocalHolds
    <3>6. RingHolds'
      <4>1. ASSUME NEW i
            PROVE  At(i)' = At(i)
        BY <1>0 DEF bytes, At
      <4> QED
        BY <2>1, <3>1, <3>2, <4>1 DEF RingHolds
    <3> QED
      BY <1>0, <2>1, <3>1, <3>2, <3>4, <3>5, <3>6
  <2> QED
    BY <1>0, <2>2 DEF Positions
<1>3. Phases'
  BY <1>0 DEF AioInv, Phases
<1>4. Promise'
  BY <1>0 DEF AioInv, Promise
<1> QED
  BY <1>1, <1>2, <1>3, <1>4 DEF AioInv

\* From the first error on nothing is said of the file.
LEMMA StoreFailsStep ==
  ASSUME AioInv, StoreFails
  PROVE  AioInv'
<1>0. /\ AioTypeOK
      /\ UNCHANGED <<bytes, finish, refcount, sphore, owed, isOpen, owner, closes,
                     promised, written, freed>>
      /\ thread = "write" /\ thread' = "top"
      /\ file' = << >> /\ local' = << >> /\ ferr' = TRUE
  BY DEF AioInv, StoreFails, ending
<1>1. AioTypeOK'
  BY <1>0 DEF AioTypeOK, bytes
<1>2. Positions'
  BY <1>0 DEF Positions
<1>3. Phases'
  BY <1>0 DEF AioInv, Phases
<1>4. Promise'
  BY <1>0 DEF AioInv, Promise
<1> QED
  BY <1>1, <1>2, <1>3, <1>4 DEF AioInv

\* Every other step of the thread, of the threads that log, and of the owner.
LEMMA OtherSteps ==
  ASSUME AioInv, AioSignal \/ AioFinish \/ Idle \/ AioWake \/ Close \/ WaitBegin
              \/ OwnerSignal \/ AioJoin \/ Free
  PROVE  AioInv'
<1>0. AioTypeOK /\ Positions /\ Phases /\ Promise
  BY DEF AioInv
<1>1. UNCHANGED <<bytes, local, disk, written>> /\ (thread' = "write" <=> thread = "write")
  BY DEF AioSignal, AioFinish, Idle, AioWake, Close, WaitBegin, OwnerSignal,
         AioJoin, Free
<1>2. Positions'
  BY <1>0, <1>1, SamePositions
<1>3. AioTypeOK' /\ Phases' /\ Promise'
  <2> USE <1>0 DEF AioTypeOK, Phases, Promise, bytes, disk, ending, OwnerPlaces
  <2>1. CASE AioSignal
    BY <2>1 DEF AioSignal
  <2>2. CASE AioFinish
    <3>1. /\ thread = "top" /\ thread' = "end" /\ finish # "RUNNING"
          /\ isOpen' = (isOpen /\ finish # "CLOSE")
          /\ refcount' = refcount - 1 /\ freed' = (refcount' = 0)
          /\ UNCHANGED <<buffer, bufferSize, readPos, writePos, finish, sphore, owed,
                         local, file, ferr, owner, closes, promised, written>>
      BY <2>2 DEF AioFinish, Release
    <3>2. refcount' \in 0 .. 2 /\ isOpen' \in BOOLEAN /\ freed' \in BOOLEAN
      BY <3>1
    <3>3. AioTypeOK'
      BY <3>1, <3>2
    <3>4. Phases'
      <4>1. owner # "run" /\ isOpen /\ (finish = IF closes THEN "CLOSE" ELSE "EXIT")
        BY <1>0, <3>1
      <4>2. isOpen' <=> ~closes
        BY <3>1, <4>1
      <4>3. owner \notin {"joined", "freed"} /\ refcount = 2
        BY <1>0, <3>1
      <4>4. refcount' = 1 /\ ~freed'
        BY <3>1, <4>3
      <4> QED
        BY <1>0, <3>1, <4>1, <4>2, <4>3, <4>4
    <3>5. BufferLen = 0 /\ local = << >>
      BY <1>0, <2>2, <3>1, RingIndex DEF AioFinish, Positions
    <3>6. ~ferr => written = Len(file)
      <4>1. Len(local) = 0 /\ Len(file) \in Nat
        BY <3>5
      <4> QED
        BY <1>0, <3>5, <4>1 DEF Positions, Ahead
    <3>7. Promise'
      BY <3>1, <3>6
    <3> QED
      BY <3>3, <3>4, <3>7
  <2>3. CASE Idle
    BY <2>3 DEF Idle
  <2>4. CASE AioWake
    BY <2>4 DEF AioWake
  <2>5. CASE Close
    BY <2>5 DEF Close
  <2>6. CASE WaitBegin
    BY <2>6 DEF WaitBegin
  <2>7. CASE OwnerSignal
    BY <2>7 DEF OwnerSignal
  <2>8. CASE AioJoin
    BY <2>8 DEF AioJoin
  <2>9. CASE Free
    BY <2>9 DEF Free, Release
  <2> QED
    BY <2>1, <2>2, <2>3, <2>4, <2>5, <2>6, <2>7, <2>8, <2>9
<1> QED
  BY <1>2, <1>3 DEF AioInv

LEMMA AioInvStep == AioInv /\ [AioNext]_aioVars => AioInv'
<1> SUFFICES ASSUME AioInv, [AioNext]_aioVars PROVE AioInv'
  OBVIOUS
<1>1. CASE \E n \in 1 .. MaxWrite : Write(n)
  BY <1>1, WriteKeeps
<1>2. CASE Take
  BY <1>2, TakeStep
<1>3. CASE Store
  BY <1>3, StoreStep
<1>4. CASE StoreFails
  BY <1>4, StoreFailsStep
<1>5. CASE AioSignal \/ AioFinish \/ Idle \/ AioWake \/ Close \/ WaitBegin
           \/ OwnerSignal \/ AioJoin \/ Free
  BY <1>5, OtherSteps
<1>6. CASE UNCHANGED aioVars
  <2>1. Positions'
    BY <1>6, SamePositions DEF AioInv, aioVars
  <2>2. AioTypeOK' /\ Phases' /\ Promise'
    BY <1>6 DEF AioInv, AioTypeOK, Phases, Promise, aioVars, bytes, disk, ending
  <2> QED
    BY <2>1, <2>2 DEF AioInv
<1> QED
  BY <1>1, <1>2, <1>3, <1>4, <1>5, <1>6 DEF AioNext, Thread, Owner

LEMMA AioInvAlways == AioSpec => []AioInv
  BY AioInvInit, AioInvStep, PTL DEF AioSpec

-----------------------------------------------------------------------------
(* What follows.                                                           *)

\* Every field of ASYNCIO keeps its type, the positions inside the ring.
THEOREM AioTypesOK == AioSpec => []AioTypeOK
<1>1. AioInv => AioTypeOK
  BY DEF AioInv
<1> QED
  BY AioInvAlways, <1>1, PTL

\* AllAccounted: as long as the disk takes everything, file, local buffer and
\* ring hold every byte once and in order, for rings that wrap and grow.
THEOREM NoByteLost == AioSpec => []AllAccounted
<1>1. AioInv => AllAccounted
  <2> SUFFICES ASSUME AioInv, ~ferr
               PROVE  file \o local \o Queued = [i \in 1 .. written |-> i]
    BY DEF AllAccounted
  <2>1. /\ AioTypeOK /\ FileHolds /\ LocalHolds /\ RingHolds
        /\ written = Ahead + BufferLen
        /\ BufferLen \in 0 .. bufferSize - 1
        /\ \A i \in 1 .. bufferSize : At(i) \in Nat
    BY RingIndex DEF AioInv, Positions
  <2>2. BufferLen \in Nat /\ bufferSize \in Nat
    BY <2>1 DEF AioTypeOK
  <2>3. \A i \in 1 .. BufferLen : At(i) \in Nat
    BY <2>1, <2>2
  <2>4. /\ file \in Seq(Nat) /\ local \in Seq(Nat) /\ Queued \in Seq(Nat)
        /\ Len(Queued) = BufferLen
        /\ \A i \in 1 .. BufferLen : Queued[i] = At(i)
    BY <2>1, <2>2, <2>3 DEF AioTypeOK, Queued
  <2> DEFINE all == file \o local \o Queued
  <2>5. all \in Seq(Nat) /\ Len(all) = written
    <3>1. file \o local \in Seq(Nat) /\ Len(file \o local) = Ahead
      BY <2>4 DEF Ahead
    <3>2. Ahead \in Nat
      BY <2>4 DEF Ahead
    <3> QED
      <4> DEFINE front == file \o local
      <4>1. front \in Seq(Nat) /\ Len(front) = Ahead /\ all = front \o Queued
        BY <3>1
      <4> HIDE DEF front, all
      <4>2. all \in Seq(Nat) /\ Len(all) = Len(front) + Len(Queued)
        BY <2>4, <4>1, ConcatProperties
      <4> QED
        BY <2>1, <2>4, <4>1, <4>2
  <2>6. ASSUME NEW i \in 1 .. Len(all)
        PROVE  all[i] = i
    <3>1. CASE i <= Len(file)
      BY <2>1, <2>4, <3>1 DEF FileHolds
    <3>2. CASE i > Len(file) /\ i <= Ahead
      <4>1. all[i] = local[i - Len(file)] /\ i - Len(file) \in 1 .. Len(local)
        BY <2>4, <3>2 DEF Ahead
      <4> QED
        BY <2>1, <2>4, <4>1 DEF LocalHolds
    <3>3. CASE i > Ahead
      <4>1. all[i] = Queued[i - Ahead] /\ i - Ahead \in 1 .. BufferLen
        BY <2>2, <2>4, <3>3 DEF Ahead
      <4>2. all[i] = At(i - Ahead)
        BY <2>4, <4>1
      <4>3. Ahead \in Nat
        BY <2>4 DEF Ahead
      <4> QED
        BY <2>1, <4>1, <4>2, <4>3 DEF RingHolds
    <3> QED
      BY <2>4, <3>1, <3>2, <3>3 DEF Ahead
  <2>7. written \in Nat
    BY <2>1 DEF AioTypeOK
  <2>8. [i \in 1 .. written |-> i] \in Seq(Nat)
    BY <2>7
  <2> HIDE DEF all
  <2>9. all = [i \in 1 .. written |-> i]
    BY <2>5, <2>6, <2>7, <2>8, SeqEqual
  <2> QED
    BY <2>9 DEF all
<1> QED
  BY AioInvAlways, <1>1, PTL

\* EndsClean: when aio_wait returns without an error, what was written before is
\* in the file; the memory is freed by the last of the two, and once.
THEOREM EndsWell == AioSpec => []EndsClean
<1>1. AioInv => EndsClean
  <2> SUFFICES ASSUME AioInv PROVE EndsClean
    OBVIOUS
  <2>1. AioTypeOK /\ Phases /\ Promise
    BY DEF AioInv
  <2>2. WaitMeansStored
    BY <2>1 DEF WaitMeansStored, AioTypeOK, Phases, Promise
  <2>3. FreedByTheLast
    BY <2>1 DEF FreedByTheLast, AioTypeOK, Phases
  <2> QED
    BY <2>2, <2>3 DEF EndsClean
<1> QED
  BY AioInvAlways, <1>1, PTL
=============================================================================
