----------------------------- MODULE RingBuffer ----------------------------
(***************************************************************************)
(* CRingBufferBase: a queue of items of different sizes in a fixed piece   *)
(* of memory, cut into blocks by headers that form a doubly linked list.   *)
(* Addresses and sizes count in headers, sizeof(CItem); a null pointer is  *)
(* Null.  What is in a block besides its header does not matter.           *)
(***************************************************************************)
EXTENDS Integers, Sequences, FiniteSets

CONSTANTS Size,      \* m_Size
          Requests   \* the sizes asked for, with the header and rounded up

ASSUME RingAssumption ==
  Size \in Nat \ {0} /\ Requests \subseteq Nat \ {0}

Null == -1
First == 0                  \* m_pFirst is m_pBuffer
Places == 0 .. Size - 1

VARIABLES
  recycle,  \* m_Flags & FLAG_RECYCLE, set by the owner once and for all
  ring,     \* the headers, by address, with m_pLast, m_pProduce and m_pConsume
  wanted,   \* history: the size an item was allocated with, by address
  refusedSize   \* history: the size the last Allocate returned nullptr for, or 0

ringVars == <<recycle, ring, wanted, refusedSize>>

Rings == [prev : [Places -> Places \cup {Null}],
          next : [Places -> Places \cup {Null}],
          free : [Places -> BOOLEAN], size : [Places -> 0 .. Size],
          last : Places, produce : Places, consume : Places]

RingTypeOK ==
  /\ recycle \in BOOLEAN
  /\ ring \in Rings
  /\ wanted \in [Places -> Requests \cup {0}]
  /\ refusedSize \in Requests \cup {0}

\* CRingBufferBase::Clear: one free block.  The headers of the other addresses
\* are blank here; the code leaves old ones behind, but nothing leads there.
Cleared ==
  [prev |-> [a \in Places |-> Null], next |-> [a \in Places |-> Null],
   free |-> [a \in Places |-> a = First],
   size |-> [a \in Places |-> IF a = First THEN Size ELSE 0],
   last |-> First, produce |-> First, consume |-> First]

RingInit ==
  /\ recycle \in BOOLEAN
  /\ ring = Cleared /\ wanted = [a \in Places |-> 0] /\ refusedSize = 0

\* A loop of the code: turn maps what it works on to what one turn makes of it,
\* or to itself when the loop's condition fails.  Size turns are enough here.
Loop(turn, start) ==
  LET after[n \in Nat] == IF n = 0 THEN start ELSE turn[after[n - 1]]
  IN after[Size]

NextBlock(r, a) == IF r.next[a] # Null THEN r.next[a] ELSE First
PrevBlock(r, a) == IF r.prev[a] # Null THEN r.prev[a] ELSE r.last

Mergeable(r, a) == r.free[a] /\ r.prev[a] # Null /\ r.free[r.prev[a]]

\* Seeded bug: the produce pointer stays at the header that was merged away.
MergeBackLeavesProduce(r, a) ==
  IF ~Mergeable(r, a) THEN r
  ELSE LET p == r.prev[a]
           n == r.next[a]
       IN [r EXCEPT !.size = [@ EXCEPT ![p] = r.size[p] + r.size[a], ![a] = 0],
                    !.next = [@ EXCEPT ![p] = n, ![a] = Null],
                    !.prev = IF n # Null THEN [@ EXCEPT ![a] = Null, ![n] = p]
                             ELSE [@ EXCEPT ![a] = Null],
                    !.free[a] = FALSE,
                    !.last = IF n = Null THEN p ELSE @,
                    !.consume = IF @ = a THEN p ELSE @]

\* CRingBufferBase::MergeBack joins a free block to a free one before it (and
\* its header is blanked) ...
MergeBack(r, a) ==
  IF ~Mergeable(r, a) THEN r
  ELSE LET p == r.prev[a]
           n == r.next[a]
       IN [r EXCEPT !.size = [@ EXCEPT ![p] = r.size[p] + r.size[a], ![a] = 0],
                    !.next = [@ EXCEPT ![p] = n, ![a] = Null],
                    !.prev = IF n # Null THEN [@ EXCEPT ![a] = Null, ![n] = p]
                             ELSE [@ EXCEPT ![a] = Null],
                    !.free[a] = FALSE,
                    !.last = IF n = Null THEN p ELSE @,
                    !.produce = IF @ = a THEN p ELSE @,
                    !.consume = IF @ = a THEN p ELSE @]

\* ... and returns the block that is there now; PopFirst goes on behind it.
MergeAndAdvance(r) ==
  LET at == IF Mergeable(r, r.consume) THEN r.prev[r.consume] ELSE r.consume
      merged == MergeBack(r, r.consume)
  IN [merged EXCEPT !.consume = NextBlock(merged, at)]

SkipFree(r) ==
  Loop([h \in Rings |-> IF h.free[h.consume] /\ h.consume # h.produce
                        THEN MergeAndAdvance(h) ELSE h], r)

\* Seeded bugs: a free block left behind by a wrap is not skipped; the block
\* where PopFirst stops is not merged.
PopFirstNoSkip(r) ==
  LET popped == MergeAndAdvance([r EXCEPT !.free[r.consume] = TRUE])
  IN MergeBack(popped, popped.consume)
PopFirstNoMerge(r) == SkipFree(MergeAndAdvance([r EXCEPT !.free[r.consume] = TRUE]))

\* CRingBufferBase::PopFirst of a buffer whose oldest block is in use.
PopFirst(r) ==
  LET popped == SkipFree(MergeAndAdvance([r EXCEPT !.free[r.consume] = TRUE]))
  IN MergeBack(popped, popped.consume)

\* The free block Allocate takes: the one at the produce pointer or, when that
\* is too small, the one at the start of the memory.
BlockFor(r, size) ==
  IF ~r.free[r.produce] THEN Null
  ELSE IF r.size[r.produce] >= size THEN r.produce
  ELSE IF r.free[First] /\ r.size[First] >= size THEN First
  ELSE Null

\* The loop of Allocate, which may drop the oldest items.
MakeRoom(r, size) ==
  Loop([h \in Rings |-> IF BlockFor(h, size) = Null /\ recycle /\ ~h.free[h.consume]
                        THEN PopFirst(h) ELSE h], r)

\* Seeded bug: the block is cut even when nothing is left over.
SplitAlways(r, a, size) ==
  LET new == a + size
      n == r.next[a]
  IN [r EXCEPT !.prev = IF n # Null THEN [@ EXCEPT ![new] = a, ![n] = new]
                        ELSE [@ EXCEPT ![new] = a],
               !.next = [@ EXCEPT ![new] = n, ![a] = new],
               !.free[new] = TRUE,
               !.size = [@ EXCEPT ![new] = r.size[a] - size, ![a] = size],
               !.last = IF n = Null THEN new ELSE @]

\* Cut block a to the size asked for, unless only a header would be left over.
Split(r, a, size) ==
  IF r.size[a] <= size + 1 THEN r
  ELSE LET new == a + size
           n == r.next[a]
       IN [r EXCEPT !.prev = IF n # Null THEN [@ EXCEPT ![new] = a, ![n] = new]
                             ELSE [@ EXCEPT ![new] = a],
                    !.next = [@ EXCEPT ![new] = n, ![a] = new],
                    !.free[new] = TRUE,
                    !.size = [@ EXCEPT ![new] = r.size[a] - size, ![a] = size],
                    !.last = IF n = Null THEN new ELSE @]

\* The sizes of the items still in use.
InUse(r, sizes) == [a \in Places |-> IF r.size[a] = 0 \/ r.free[a] THEN 0 ELSE sizes[a]]

\* CRingBufferBase::Allocate.
Allocate(size) ==
  LET room == IF size > Size THEN ring ELSE MakeRoom(ring, size)
      a == IF size > Size THEN Null ELSE BlockFor(room, size)
      split == Split(room, a, size)
  IN
  /\ \/ /\ a # Null
        /\ ring' = [split EXCEPT !.produce = NextBlock(split, a), !.free[a] = FALSE]
        /\ wanted' = [InUse(room, wanted) EXCEPT ![a] = size]
        /\ refusedSize' = 0
     \/ /\ a = Null
        /\ ring' = room
        /\ wanted' = InUse(room, wanted)
        /\ refusedSize' = size
  /\ UNCHANGED recycle

\* PopFirst, called by the owner; it does nothing when the buffer is empty.
Pop ==
  /\ ~ring.free[ring.consume]
  /\ ring' = PopFirst(ring)
  /\ wanted' = [wanted EXCEPT ![ring.consume] = 0]
  /\ refusedSize' = 0
  /\ UNCHANGED recycle

Clear ==
  /\ ring' = Cleared
  /\ wanted' = [a \in Places |-> 0]
  /\ refusedSize' = 0
  /\ UNCHANGED recycle

RingNext == Pop \/ Clear \/ \E size \in Requests : Allocate(size)

RingSpec == RingInit /\ [][RingNext]_ringVars
-----------------------------------------------------------------------------
(* Walking over the items.                                                 *)

\* Next(pCurrent): the block in use behind block a, or the null pointer when
\* the produce pointer comes first.
NextItem(r, a) ==
  LET b == Loop([c \in Places |-> IF c # r.produce /\ r.free[c]
                                  THEN NextBlock(r, c) ELSE c], NextBlock(r, a))
  IN IF b = r.produce THEN Null ELSE b

\* Prev(pCurrent).
PrevItem(r, a) ==
  LET b == Loop([c \in Places |-> IF c # r.produce /\ r.free[c]
                                  THEN PrevBlock(r, c) ELSE c], PrevBlock(r, a))
  IN IF b = r.produce THEN Null ELSE b

\* The places met from place a on, each leading to the next by a step, until a
\* step leads to the null pointer; a walk that goes round is cut off.
Walk(step, a) ==
  LET onward == [b \in Places \cup {Null} |-> IF b = Null THEN Null ELSE step[b]]
      at[n \in Nat] == IF n = 0 THEN a ELSE onward[at[n - 1]]
      met == {n \in 0 .. Size : at[n] # Null}
  IN [i \in 1 .. Cardinality(met) |-> at[i - 1]]

\* for(p = First(); p; p = Next(p)) ...
Items(r) ==
  IF r.free[r.consume] THEN << >>
  ELSE Walk([a \in Places |-> NextItem(r, a)], r.consume)

\* ... and for(p = Last(); p; p = Prev(p)), where Last() is Prev(m_pProduce).
ItemsBack(r) == Walk([a \in Places |-> PrevItem(r, a)], PrevItem(r, r.produce))
-----------------------------------------------------------------------------
(* Properties.                                                             *)

\* The blocks of the list, in its order.
Blocks(r) == Walk(r.next, First)

\* The blocks tile the memory in the order of the list, the links agree in both
\* directions, the pointers stand on blocks and no item reaches into the next
\* block: no header is ever read from the inside of an item.
Tiled ==
  LET b == Blocks(ring) IN
  /\ \A i \in DOMAIN b :
       /\ IF i < Len(b) THEN ring.next[b[i]] = b[i] + ring.size[b[i]]
                        ELSE b[i] + ring.size[b[i]] = Size
       /\ ring.prev[b[i]] = IF i = 1 THEN Null ELSE b[i - 1]
  /\ ring.last = b[Len(b)]
  /\ {ring.produce, ring.consume} \subseteq {b[i] : i \in DOMAIN b}
  /\ \A a \in Places : wanted[a] # 0 => wanted[a] <= ring.size[a]

\* Allocate refuses a size that fits the memory only when there are items it
\* may not drop: an empty buffer takes anything, whatever it went through.
RefusedOnlyWhenFull ==
  refusedSize = 0 \/ refusedSize > Size \/ (~recycle /\ Items(ring) # << >>)

\* Walking backwards from Last() with Prev() gives the items in reverse order.
\* When the buffer is full to the last block, Prev() stops one item early: the
\* oldest item is the one at the produce pointer.
BackwardsIsReverse ==
  LET items == Items(ring)
      n == Len(items)
      full == ~ring.free[ring.produce]
  IN ItemsBack(ring) = [i \in 1 .. IF full THEN n - 1 ELSE n |-> items[n + 1 - i]]

\* The memory can be walked through in both directions.
WalkedBothWays == Tiled /\ BackwardsIsReverse

\* The ring buffer implements the queue.
Queue == INSTANCE RingQueue WITH queue <- Items(ring)
QueueSpec == Queue!Spec
=============================================================================
