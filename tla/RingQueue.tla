----------------------------- MODULE RingQueue -----------------------------
(***************************************************************************)
(* What a ring buffer promises: a queue of items, which are places in its  *)
(* memory.  A new item goes to the end.  Only a buffer with FLAG_RECYCLE   *)
(* gives up its oldest items for it.                                       *)
(***************************************************************************)
EXTENDS Integers, Sequences

CONSTANT Places     \* where an item can be

VARIABLES recycle,  \* FLAG_RECYCLE
          queue

Init == recycle \in BOOLEAN /\ queue = << >>

Push(gone) ==
  /\ gone = 0 \/ recycle
  /\ LET kept == SubSeq(queue, gone + 1, Len(queue))
         taken == {kept[i] : i \in DOMAIN kept}
     IN queue' \in {Append(kept, place) : place \in Places \ taken}
  /\ UNCHANGED recycle

Pop == queue # << >> /\ queue' = Tail(queue) /\ UNCHANGED recycle

Clear == queue' = << >> /\ UNCHANGED recycle

Next == Pop \/ Clear \/ \E gone \in 0 .. Len(queue) : Push(gone)

Spec == Init /\ [][Next]_<<recycle, queue>>
=============================================================================
