----------------------------- MODULE AioWriter -----------------------------
(***************************************************************************)
(* src/base/aio.cpp: a file that is written by a thread of its own.  Any   *)
(* thread puts bytes into a ring in memory (aio_write), which grows when   *)
(* it would become full; the file's thread takes what is there, a local    *)
(* buffer at most, and writes it without holding the lock.  The owner ends *)
(* it with aio_close, aio_wait, aio_free as CLoggerAsync (src/base/log.cpp) *)
(* and the teehistorian do.                                                *)
(*                                                                         *)
(* A byte is the number of bytes written up to and with it, so that a byte *)
(* lost, repeated or out of order shows.  What is done under the lock is   *)
(* one step; the semaphore is signalled after the lock is released, in a   *)
(* step of its own.                                                        *)
(***************************************************************************)
EXTENDS Integers, Sequences

CONSTANTS
  BufSize,     \* ASYNC_BUFSIZE, the size the ring starts with
  LocalSize,   \* ASYNC_LOCAL_BUFSIZE, the most that one write to the file takes
  Writers,     \* bound: threads that log at once
  MaxWrite,    \* bound: bytes of one aio_write_unlocked
  MaxBytes     \* bound: bytes written in all

ASSUME AioAssumption ==
  /\ BufSize \in Nat \ {0}
  /\ LocalSize \in Nat \ {0}
  /\ Writers \in Nat
  /\ MaxWrite \in Nat
  /\ MaxBytes \in Nat

VARIABLES
  buffer, bufferSize, readPos, writePos,   \* the ring of struct ASYNCIO
  finish,      \* EAsyncIoFinishState
  refcount,    \* the owner's and the thread's
  sphore,      \* the semaphore's value
  owed,        \* threads in aio_unlock that have not signalled yet
  thread,      \* where aio_thread is: "top" of the loop, "wait", "write", "end"
  local,       \* local_buffer
  file,        \* what io_write has put into the file, until one fails
  isOpen,      \* io_close has not been called
  ferr,        \* the error flag of the stream, which stays set
  owner,       \* where the owner is
  closes,      \* the owner closes the file: m_Close of CLoggerAsync
  written,     \* bytes handed to aio_write_unlocked
  promised,    \* bytes written before the owner began to end it
  freed        \* buffer, semaphore and ASYNCIO are freed

bytes == <<buffer, bufferSize, readPos, writePos>>
disk == <<file, ferr>>
ending == <<owner, closes, promised>>
aioVars == <<bytes, finish, refcount, sphore, owed, thread, local, disk, isOpen,
          ending, written, freed>>

Garbage == 0   \* what malloc returns

OwnerPlaces ==
  {"run", "closing", "closed", "waitSignal", "waiting", "joined", "freed"}

AioTypeOK ==
  /\ bufferSize \in Nat \ {0}
  /\ buffer \in [0 .. bufferSize - 1 -> Nat]
  /\ readPos \in 0 .. bufferSize - 1
  /\ writePos \in 0 .. bufferSize - 1
  /\ finish \in {"RUNNING", "CLOSE", "EXIT"}
  /\ refcount \in 0 .. 2
  /\ sphore \in Nat
  /\ owed \in Nat
  /\ thread \in {"top", "wait", "write", "end"}
  /\ local \in Seq(Nat)
  /\ file \in Seq(Nat)
  /\ isOpen \in BOOLEAN
  /\ ferr \in BOOLEAN
  /\ owner \in OwnerPlaces
  /\ closes \in BOOLEAN
  /\ written \in Nat
  /\ promised \in Nat
  /\ freed \in BOOLEAN

\* aio_new.
AioInit ==
  /\ bufferSize = BufSize
  /\ buffer = [p \in 0 .. BufSize - 1 |-> Garbage]
  /\ readPos = 0
  /\ writePos = 0
  /\ finish = "RUNNING"
  /\ refcount = 2
  /\ sphore = 0
  /\ owed = 0
  /\ thread = "top"
  /\ local = <<>>
  /\ file = <<>>
  /\ isOpen = TRUE
  /\ ferr = FALSE
  /\ owner = "run"
  /\ closes \in BOOLEAN
  /\ written = 0
  /\ promised = 0
  /\ freed = FALSE

\* buffer_len.
BufferLen ==
  IF writePos >= readPos THEN writePos - readPos
                         ELSE bufferSize + writePos - readPos

\* What buffer_ptrs points at, read in its order: position i of what is queued.
At(i) == buffer[IF readPos + i - 1 < bufferSize THEN readPos + i - 1
                                                ELSE readPos + i - 1 - bufferSize]

Queued == [i \in 1 .. BufferLen |-> At(i)]

\* Seeded bug: the ring may become full, which looks like an empty one.
FullPlace(n) ==
  /\ n <= bufferSize - BufferLen
  /\ buffer' = [p \in 0 .. bufferSize - 1 |->
       LET off == IF p >= writePos THEN p - writePos ELSE p + bufferSize - writePos
       IN  IF off < n THEN written + 1 + off ELSE buffer[p]]
  /\ writePos' = IF writePos + n < bufferSize THEN writePos + n
                                              ELSE writePos + n - bufferSize
  /\ UNCHANGED <<bufferSize, readPos>>

\* aio_write_unlocked with room to spare: the bytes go behind write_pos, the
\* rest of them to the front. A full ring would look like an empty one.
Place(n) ==
  /\ n < bufferSize - BufferLen
  /\ buffer' = [p \in 0 .. bufferSize - 1 |->
       LET off == IF p >= writePos THEN p - writePos ELSE p + bufferSize - writePos
       IN  IF off < n THEN written + 1 + off ELSE buffer[p]]
  /\ writePos' = IF writePos + n < bufferSize THEN writePos + n
                                              ELSE writePos + n - bufferSize
  /\ UNCHANGED <<bufferSize, readPos>>

\* aio_write_unlocked without: the size doubles until it all fits, with one byte
\* more so that the new ring is not full; what was queued comes first in it.
Grow(n) ==
  LET need == BufferLen + n + 1
  IN  /\ n >= bufferSize - BufferLen
      /\ \E size \in need .. 2 * need - 1 :
           /\ \E k \in 1 .. need : size = bufferSize * 2 ^ k
           /\ bufferSize' = size
           /\ buffer' = [p \in 0 .. size - 1 |->
                IF p < BufferLen THEN At(p + 1)
                ELSE IF p < BufferLen + n THEN written + 1 + p - BufferLen
                ELSE Garbage]
      /\ readPos' = 0
      /\ writePos' = BufferLen + n

\* aio_lock, aio_write_unlocked, aio_unlock by any thread that logs and is not
\* in aio_unlock.
Write(n) ==
  /\ owner # "freed"
  /\ owed < Writers
  /\ written + n <= MaxBytes
  /\ Place(n) \/ Grow(n)
  /\ written' = written + n
  /\ owed' = owed + 1
  /\ UNCHANGED <<finish, refcount, sphore, thread, local, disk, isOpen, ending,
                 freed>>

\* The sphore_signal at the end of aio_unlock.
AioSignal ==
  /\ owed > 0
  /\ owed' = owed - 1
  /\ sphore' = sphore + 1
  /\ UNCHANGED <<bytes, finish, refcount, thread, local, disk, isOpen, ending,
                 written, freed>>

\* aio_handle_free_and_unlock.
Release ==
  /\ refcount' = refcount - 1
  /\ freed' = (refcount' = 0)

\* Seeded bug: the thread looks at finish before it looks at the ring.
HastyFinish ==
  /\ thread = "top"
  /\ finish # "RUNNING"
  /\ isOpen' = (isOpen /\ finish # "CLOSE")
  /\ Release
  /\ thread' = "end"
  /\ UNCHANGED <<bytes, finish, sphore, owed, local, disk, ending, written>>

\* aio_thread with nothing to write, and told to end.
AioFinish ==
  /\ thread = "top"
  /\ readPos = writePos
  /\ finish # "RUNNING"
  /\ isOpen' = (isOpen /\ finish # "CLOSE")
  /\ Release
  /\ thread' = "end"
  /\ UNCHANGED <<bytes, finish, sphore, owed, local, disk, ending, written>>

\* aio_thread with nothing to write.
Idle ==
  /\ thread = "top"
  /\ readPos = writePos
  /\ finish = "RUNNING"
  /\ thread' = "wait"
  /\ UNCHANGED <<bytes, finish, refcount, sphore, owed, local, disk, isOpen,
                 ending, written, freed>>

\* Its sphore_wait returns.
AioWake ==
  /\ thread = "wait"
  /\ sphore > 0
  /\ sphore' = sphore - 1
  /\ thread' = "top"
  /\ UNCHANGED <<bytes, finish, refcount, owed, local, disk, isOpen, ending,
                 written, freed>>

\* aio_thread copies what fits into local_buffer and moves read_pos.
Take ==
  LET len == IF BufferLen < LocalSize THEN BufferLen ELSE LocalSize
  IN  /\ thread = "top"
      /\ readPos # writePos
      /\ local' = [i \in 1 .. len |-> At(i)]
      /\ readPos' = IF readPos + len < bufferSize THEN readPos + len
                                                  ELSE readPos + len - bufferSize
      /\ thread' = "write"
      /\ UNCHANGED <<buffer, bufferSize, writePos, finish, refcount, sphore,
                     owed, disk,
                     isOpen, ending, written, freed>>

\* io_write of the local buffer, without the lock.
Store ==
  /\ thread = "write"
  /\ file' = IF ferr THEN << >> ELSE file \o local
  /\ local' = <<>>
  /\ thread' = "top"
  /\ UNCHANGED <<bytes, finish, refcount, sphore, owed, ferr, isOpen, ending,
                 written, freed>>

\* io_write of a part of it only: the disk is full or fails, and aio_error tells.
\* What such a file holds is not modelled.
StoreFails ==
  /\ thread = "write"
  /\ file' = << >>
  /\ ferr' = TRUE
  /\ local' = <<>>
  /\ thread' = "top"
  /\ UNCHANGED <<bytes, finish, refcount, sphore, owed, isOpen, ending,
                 written, freed>>

\* aio_close up to its unlock.
Close ==
  /\ owner = "run"
  /\ closes
  /\ finish' = "CLOSE"
  /\ owner' = "closing"
  /\ promised' = written
  /\ UNCHANGED <<bytes, refcount, sphore, owed, thread, local, disk, isOpen,
                 closes, written, freed>>

\* Seeded bug: aio_close and aio_wait do not signal.
SilentOwnerSignal ==
  /\ owner \in {"closing", "waitSignal"}
  /\ owner' = IF owner = "closing" THEN "closed" ELSE "waiting"
  /\ UNCHANGED <<bytes, finish, refcount, sphore, owed, thread, local, disk,
                 isOpen, closes,
                 promised, written, freed>>

\* The signal of aio_close and of aio_wait.
OwnerSignal ==
  /\ owner \in {"closing", "waitSignal"}
  /\ sphore' = sphore + 1
  /\ owner' = IF owner = "closing" THEN "closed" ELSE "waiting"
  /\ UNCHANGED <<bytes, finish, refcount, owed, thread, local, disk, isOpen,
                 closes, promised,
                 written, freed>>

\* aio_wait up to its unlock. A logger that is not to close the file waits only.
WaitBegin ==
  /\ owner = IF closes THEN "closed" ELSE "run"
  /\ finish' = IF finish = "RUNNING" THEN "EXIT" ELSE finish
  /\ owner' = "waitSignal"
  /\ promised' = IF closes THEN promised ELSE written
  /\ UNCHANGED <<bytes, refcount, sphore, owed, thread, local, disk, isOpen,
                 closes, written, freed>>

\* thread_wait returns.
AioJoin ==
  /\ owner = "waiting"
  /\ thread = "end"
  /\ owner' = "joined"
  /\ UNCHANGED <<bytes, finish, refcount, sphore, owed, thread, local, disk,
                 isOpen, closes,
                 promised, written, freed>>

\* aio_free, when no other thread uses the logger any more.
Free ==
  /\ owner = "joined"
  /\ owed = 0
  /\ Release
  /\ owner' = "freed"
  /\ UNCHANGED <<bytes, finish, sphore, owed, thread, local, disk, isOpen,
                 closes, promised, written>>

Thread == AioFinish \/ Idle \/ AioWake \/ Take \/ Store \/ StoreFails
Owner == OwnerSignal \/ AioJoin

AioNext ==
  \/ \E n \in 1 .. MaxWrite : Write(n)
  \/ AioSignal
  \/ Thread
  \/ Close \/ WaitBegin \/ Free
  \/ Owner

AioSpec == AioInit /\ [][AioNext]_aioVars

\* The threads run: the file's own, one that left aio_unlock, the owner inside
\* aio_close and aio_wait. Nobody has to write or to end anything.
AioFairness == WF_aioVars(Thread) /\ WF_aioVars(AioSignal) /\ WF_aioVars(Owner)

-----------------------------------------------------------------------------
\* As long as the disk takes everything, the file, the local buffer and the ring
\* hold, in this order, every byte written, once each: whatever the ring's
\* wrapping, its growing and the limit of the local buffer do to it.
AllAccounted == ~ferr => file \o local \o Queued = [i \in 1 .. written |-> i]

\* When aio_wait returns and aio_error is clear, everything written before
\* aio_close is in the file, and the file is closed if that was asked for: what
\* the teehistorian's error check on shutdown relies on.
WaitMeansStored ==
  owner \in {"joined", "freed"} =>
    /\ ~ferr => Len(file) >= promised
    /\ isOpen = ~closes

\* The memory goes exactly when both sides are through with it: the thread does
\* not touch it later, nor does the owner, and it is not leaked.
FreedByTheLast == freed <=> (thread = "end" /\ owner = "freed")

\* The end of a file: nothing is missing in it and nothing is left behind.
EndsClean == WaitMeansStored /\ FreedByTheLast

\* No wake-up is lost: the thread does not sleep on bytes it could write, and
\* aio_wait returns, with what is still queued written first.
Flushes ==
  /\ (thread = "wait" /\ BufferLen > 0) ~> (thread = "write")
  /\ (owner = "waiting") ~> (owner = "joined")

=============================================================================
