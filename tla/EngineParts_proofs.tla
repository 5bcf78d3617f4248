-------------------------- MODULE EngineParts_proofs --------------------------
(***************************************************************************)
(* Proofs about the three parts of the engine that call none of the        *)
(* others, for every value of their constants.                             *)
(*                                                                         *)
(* The snapshot id pool: the links of the two lists never mix, the         *)
(* counters count, the pool implements the lease and no id is ever lost.   *)
(* The invariant PoolIInv speaks of one link at a time; Serving gives      *)
(* every id of a list its place, and Following shows that such a list,     *)
(* followed from its head, has all ids of its state.                       *)
(*                                                                         *)
(* The ring buffer: the invariant RingIInv says that the headers tile the  *)
(* memory, that no two free blocks lie side by side, and in which order    *)
(* the blocks in use come; whatever Allocate and PopFirst do to them, the  *)
(* buffer implements a queue and can be walked through both ways.          *)
(*                                                                         *)
(* The job pool has a module of its own; here it only joins the others.    *)
(***************************************************************************)
EXTENDS MCEngineParts, JobPool_proofs, FiniteSetTheorems, SequenceTheorems,
        WellFoundedInduction, TLAPS

(* Recursion.  The lists of the pool and the loops and walks of the ring   *)
(* buffer are functions defined by recursion; that there are such          *)
(* functions, and where they lead, takes an induction over the numbers,    *)
(* which is an argument about the least exception.                         *)

\* A set of natural numbers that is not empty has a least element.
LEMMA Least ==
  ASSUME NEW T, T \subseteq Nat, T # {}
  PROVE  \E i \in T : \A j \in T : i <= j
<1>1. PICK i \in T : \A j \in T : <<j, i>> \notin OpToRel(<, Nat)
  BY NatLessThanWellFounded, WFMin
<1>2. \A j \in T : ~(j < i)
  BY <1>1 DEF OpToRel
<1> QED BY <1>2

\* A set that has 0, and with every number the next, has all numbers.
LEMMA Numbered ==
  ASSUME NEW T, 0 \in T, \A n \in Nat : n \in T => n + 1 \in T
  PROVE  Nat \subseteq T
<1> SUFFICES ASSUME Nat \ T # {} PROVE FALSE
  OBVIOUS
<1>1. PICK n \in Nat \ T : \A m \in Nat \ T : n <= m
  BY Least
<1>2. n # 0 /\ n - 1 \in Nat /\ (n - 1) + 1 = n
  BY <1>1
<1>3. n - 1 \in T
  BY <1>1, <1>2
<1> QED BY <1>1, <1>2, <1>3

\* The first n values of a function applied again and again.
Begun(D, F, a, n, g) ==
  g \in [0 .. n -> D] /\ g[0] = a /\ \A k \in 1 .. n : g[k] = F[g[k - 1]]

LEMMA Starting ==
  ASSUME NEW D, NEW F \in [D -> D], NEW a \in D, NEW n \in Nat
  PROVE  \E g : Begun(D, F, a, n, g)
<1> DEFINE T == {m \in Nat : \E g : Begun(D, F, a, m, g)}
<1>1. 0 \in T
  <2>1. Begun(D, F, a, 0, [k \in 0 .. 0 |-> a])
    BY DEF Begun
  <2> QED BY <2>1
<1>2. ASSUME NEW m \in Nat, m \in T PROVE m + 1 \in T
  <2>1. PICK g : Begun(D, F, a, m, g)
    BY <1>2
  <2> DEFINE h == [k \in 0 .. m + 1 |-> IF k = m + 1 THEN F[g[m]] ELSE g[k]]
  <2>2. g \in [0 .. m -> D] /\ g[0] = a /\ \A k \in 1 .. m : g[k] = F[g[k - 1]]
    BY <2>1 DEF Begun
  <2>3. h \in [0 .. m + 1 -> D]
    <3>1. F[g[m]] \in D
      BY <2>2
    <3>2. \A k \in 0 .. m + 1 : k # m + 1 => k \in 0 .. m
      OBVIOUS
    <3> QED BY <2>2, <3>1, <3>2
  <2>4. h[0] = a
    BY <2>2
  <2>5. ASSUME NEW k \in 1 .. m + 1 PROVE h[k] = F[h[k - 1]]
    <3>1. k - 1 \in 0 .. m /\ k - 1 # m + 1
      OBVIOUS
    <3>2. h[k - 1] = g[k - 1]
      BY <3>1
    <3>3. CASE k = m + 1
      BY <3>2, <3>3
    <3>4. CASE k # m + 1
      <4>1. k \in 1 .. m
        BY <3>4
      <4> QED BY <2>2, <3>2, <3>4, <4>1
    <3> QED BY <3>3, <3>4
  <2> HIDE DEF h
  <2>6. Begun(D, F, a, m + 1, h)
    BY <2>3, <2>4, <2>5 DEF Begun
  <2> QED BY <2>6
<1> HIDE DEF T
<1>3. Nat \subseteq T
  BY <1>1, <1>2, Numbered
<1> QED BY <1>3 DEF T

\* There is a function that goes on for ever.
Iterates(D, F, a, f) ==
  f \in [Nat -> D] /\ f[0] = a /\ \A n \in Nat : f[n + 1] = F[f[n]]

LEMMA Iterating ==
  ASSUME NEW D, NEW F \in [D -> D], NEW a \in D
  PROVE  \E f : Iterates(D, F, a, f)
<1> DEFINE g(n) == CHOOSE h : Begun(D, F, a, n, h)
           f == [n \in Nat |-> g(n)[n]]
<1>1. \A n \in Nat : Begun(D, F, a, n, g(n))
  BY Starting
<1> HIDE DEF g
<1>2. ASSUME NEW n \in Nat
      PROVE  /\ g(n) \in [0 .. n -> D] /\ g(n)[0] = a
             /\ \A k \in 1 .. n : g(n)[k] = F[g(n)[k - 1]]
  BY <1>1 DEF Begun
<1>3. f \in [Nat -> D]
  <2>1. ASSUME NEW n \in Nat PROVE g(n)[n] \in D
    <3>1. n \in 0 .. n
      OBVIOUS
    <3> QED BY <1>2, <3>1
  <2> QED BY <2>1
<1>4. f[0] = a
  BY <1>2
<1>5. ASSUME NEW n \in Nat PROVE f[n + 1] = F[f[n]]
  <2> DEFINE T == {k \in Nat : k > n \/ g(n + 1)[k] = g(n)[k]}
  <2>1. 0 \in T
    BY <1>2
  <2>2. ASSUME NEW k \in Nat, k \in T PROVE k + 1 \in T
    <3> SUFFICES ASSUME k + 1 <= n PROVE g(n + 1)[k + 1] = g(n)[k + 1]
      OBVIOUS
    <3>1. g(n + 1)[k] = g(n)[k]
      BY <2>2
    <3>2. k + 1 \in 1 .. n /\ k + 1 \in 1 .. n + 1 /\ (k + 1) - 1 = k /\ n + 1 \in Nat
      OBVIOUS
    <3>3. g(n)[k + 1] = F[g(n)[k]]
      BY <1>2, <3>2
    <3>4. g(n + 1)[k + 1] = F[g(n + 1)[k]]
      BY <1>2, <3>2
    <3> QED BY <3>1, <3>3, <3>4
  <2> HIDE DEF T
  <2>3. n \in T
    BY <2>1, <2>2, Numbered
  <2>4. g(n + 1)[n] = g(n)[n]
    BY <2>3 DEF T
  <2>5. n + 1 \in 1 .. n + 1 /\ (n + 1) - 1 = n /\ n + 1 \in Nat
    OBVIOUS
  <2>6. g(n + 1)[n + 1] = F[g(n + 1)[n]]
    BY <1>2, <2>5
  <2> QED BY <2>4, <2>5, <2>6
<1> HIDE DEF f
<1>6. Iterates(D, F, a, f)
  BY <1>3, <1>4, <1>5 DEF Iterates
<1> QED BY <1>6

-----------------------------------------------------------------------------
(* The snapshot id pool.                                                   *)

IdsOf(s) == {id \in Ids : state[id] = s}

\* The list that starts with first has only ids in state s, and no id of that
\* state has two predecessors, or one more than the first.
Linked(s, first) ==
  /\ first # Nil => state[first] = s
  /\ \A i \in Ids : state[i] = s /\ next[i] # Nil =>
       state[next[i]] = s /\ next[i] # first
  /\ \A i, j \in Ids : state[i] = s /\ state[j] = s /\ next[i] = next[j]
       => i = j \/ next[i] = Nil

\* The last resting id is the only one without a successor.
TailIsLast ==
  /\ lastTimed = Nil <=> firstTimed = Nil
  /\ lastTimed # Nil => state[lastTimed] = "timed" /\ next[lastTimed] = Nil
  /\ \A i \in Ids : state[i] = "timed" /\ next[i] = Nil => i = lastTimed

\* What the histories say of an id in each state.
Histories ==
  /\ callNow <= now
  /\ held = IdsOf("allocated")
  /\ \A i \in Ids :
       /\ state[i] = "timed" => freedAt[i] # -1 /\ timeout[i] = freedAt[i] + Hold
       /\ state[i] = "free" => freedAt[i] = -1 \/ freedAt[i] + Hold < now

CountersCount ==
  /\ usage = Cardinality(Ids \ IdsOf("free"))
  /\ inUsage = Cardinality(held)

\* PoolTypeOK without the counters' signs, which CountersCount gives.
PoolValues ==
  /\ next \in [Ids -> Ids \cup {Nil}]
  /\ state \in [Ids -> {"free", "allocated", "timed"}]
  /\ timeout \in [Ids -> Nat]
  /\ firstFree \in Ids \cup {Nil}
  /\ firstTimed \in Ids \cup {Nil}
  /\ lastTimed \in Ids \cup {Nil}
  /\ call \in {"none", "NewId", "TimeoutIds"}
  /\ callNow \in Nat /\ now \in Nat
  /\ held \subseteq Ids
  /\ freedAt \in [Ids -> Nat \cup {-1}]
  /\ refused \in BOOLEAN

PoolIInv ==
  /\ PoolValues
  /\ Linked("free", firstFree) /\ Linked("timed", firstTimed)
  /\ TailIsLast /\ Histories /\ CountersCount
-----------------------------------------------------------------------------
\* What the proofs need of the constants.
LEMMA PoolNumbers == MaxIds \in Nat \ {0} /\ Hold \in Nat /\ MaxTime \in Nat
  BY PoolAssumption

LEMMA IdsFinite == IsFiniteSet(Ids) /\ Nil \notin Ids
<1>1. 0 \in Int /\ MaxIds - 1 \in Int
  BY PoolNumbers
<1> QED BY <1>1, FS_Interval DEF Ids, Nil

\* One id more or less in a set of ids.
LEMMA OneMore ==
  ASSUME NEW S \in SUBSET Ids, NEW id \in Ids \ S
  PROVE  /\ Cardinality(S \cup {id}) = Cardinality(S) + 1
         /\ Cardinality(S) \in Nat
<1>1. IsFiniteSet(S)
  BY IdsFinite, FS_Subset
<1> QED BY <1>1, FS_AddElement, FS_CardinalityType

LEMMA OneLess ==
  ASSUME NEW S \in SUBSET Ids, NEW id \in S
  PROVE  /\ Cardinality(S \ {id}) = Cardinality(S) - 1
         /\ Cardinality(S) \in Nat
<1>1. IsFiniteSet(S)
  BY IdsFinite, FS_Subset
<1> QED BY <1>1, FS_RemoveElement, FS_CardinalityType

LEMMA PoolStarts == PoolInit => PoolIInv
<1> SUFFICES ASSUME PoolInit PROVE PoolIInv
  OBVIOUS
<1>1. MaxIds \in Nat /\ MaxIds >= 1 /\ Hold \in Nat
  BY PoolNumbers
<1>2. PoolValues
  <2>1. next \in [Ids -> Ids \cup {Nil}]
    BY <1>1 DEF PoolInit, Ids, Nil
  <2>2. firstFree \in Ids
    BY <1>1 DEF PoolInit, Ids
  <2> QED BY <2>1, <2>2 DEF PoolInit, PoolValues
<1>3. Linked("free", firstFree)
  BY <1>1 DEF PoolInit, Linked, Ids, Nil
<1>4. Linked("timed", firstTimed) /\ TailIsLast
  BY DEF PoolInit, Linked, TailIsLast
<1>5. Histories
  BY DEF PoolInit, Histories, IdsOf
<1>6. CountersCount
  <2>1. Ids \ IdsOf("free") = {} /\ held = {}
    BY DEF PoolInit, IdsOf
  <2>2. Cardinality({}) = 0
    BY FS_EmptySet
  <2> QED BY <2>1, <2>2 DEF PoolInit, CountersCount
<1> QED BY <1>2, <1>3, <1>4, <1>5, <1>6 DEF PoolIInv

\* Moving the first resting id to the free list.
LEMMA RemoveStep ==
  ASSUME PoolIInv, firstTimed # Nil, RemoveFirstTimeout,
         UNCHANGED <<inUsage, callNow, now, held, refused>>,
         call' \in {"none", "NewId", "TimeoutIds"},
         \/ freedAt' = freedAt /\ timeout[firstTimed] < callNow
         \/ freedAt' = [freedAt EXCEPT ![firstTimed] = -1]
  PROVE  PoolIInv'
<1> DEFINE f == firstTimed
<1>0. /\ f \in Ids /\ state[f] = "timed" /\ next[f] \in Ids \cup {Nil}
      /\ state \in [Ids -> {"free", "allocated", "timed"}]
      /\ next \in [Ids -> Ids \cup {Nil}] /\ firstFree \in Ids \cup {Nil}
      /\ freedAt \in [Ids -> Nat \cup {-1}] /\ Nil \notin Ids
  BY IdsFinite DEF PoolIInv, PoolValues, Linked
<1>1. /\ \A i \in Ids : next'[i] = IF i = f THEN firstFree ELSE next[i]
      /\ \A i \in Ids : state'[i] = IF i = f THEN "free" ELSE state[i]
      /\ firstFree' = f /\ firstTimed' = next[f]
      /\ lastTimed' = IF next[f] = Nil THEN Nil ELSE lastTimed
      /\ usage' = usage - 1 /\ timeout' = timeout
  BY <1>0 DEF RemoveFirstTimeout
<1>2. PoolValues'
  BY <1>0 DEF RemoveFirstTimeout, PoolIInv, PoolValues
<1>3. Linked("free", firstFree)'
  <2>1. /\ \A i \in Ids : state[i] = "free" /\ next[i] # Nil => state[next[i]] = "free"
        /\ \A i \in Ids : state[i] = "free" /\ next[i] # Nil => next[i] # firstFree
        /\ \A i, j \in Ids : state[i] = "free" /\ state[j] = "free" /\ next[i] = next[j]
             => i = j \/ next[i] = Nil
        /\ firstFree # Nil => state[firstFree] = "free"
    BY DEF PoolIInv, Linked
  <2>2. \A i \in Ids : state'[i] = "free" /\ next'[i] # Nil =>
          state'[next'[i]] = "free" /\ next'[i] # f
    BY <1>0, <1>1, <2>1
  <2>3. \A i, j \in Ids : state'[i] = "free" /\ state'[j] = "free" /\ next'[i] = next'[j]
          => i = j \/ next'[i] = Nil
    BY <1>0, <1>1, <2>1
  <2> QED BY <1>0, <1>1, <2>2, <2>3 DEF Linked
<1>4. Linked("timed", firstTimed)'
  <2>1. /\ \A i \in Ids : state[i] = "timed" /\ next[i] # Nil =>
             state[next[i]] = "timed" /\ next[i] # f
        /\ \A i, j \in Ids : state[i] = "timed" /\ state[j] = "timed" /\ next[i] = next[j]
             => i = j \/ next[i] = Nil
    BY DEF PoolIInv, Linked
  <2>2. next[f] # Nil => state'[next[f]] = "timed"
    BY <1>0, <1>1, <2>1
  <2>3. \A i \in Ids : state'[i] = "timed" /\ next'[i] # Nil =>
          state'[next'[i]] = "timed" /\ next'[i] # next[f]
    BY <1>0, <1>1, <2>1
  <2>4. \A i, j \in Ids : state'[i] = "timed" /\ state'[j] = "timed" /\ next'[i] = next'[j]
          => i = j \/ next'[i] = Nil
    BY <1>0, <1>1, <2>1
  <2> QED BY <1>1, <2>2, <2>3, <2>4 DEF Linked
<1>5. TailIsLast'
  <2>1. /\ lastTimed # Nil /\ lastTimed \in Ids
        /\ state[lastTimed] = "timed" /\ next[lastTimed] = Nil
        /\ \A i \in Ids : state[i] = "timed" /\ next[i] = Nil => i = lastTimed
    BY DEF PoolIInv, TailIsLast, PoolValues
  <2>2. CASE next[f] = Nil
    <3>1. f = lastTimed
      BY <1>0, <2>1, <2>2
    <3> QED BY <1>0, <1>1, <2>1, <2>2, <3>1 DEF TailIsLast
  <2>3. CASE next[f] # Nil
    <3>1. f # lastTimed
      BY <2>1, <2>3
    <3> QED BY <1>0, <1>1, <2>1, <2>3, <3>1 DEF TailIsLast
  <2> QED BY <2>2, <2>3
<1>6. Histories'
  <2>1. callNow' <= now' /\ held' = held /\ held = IdsOf("allocated")
    BY DEF PoolIInv, Histories
  <2>2. IdsOf("allocated")' = IdsOf("allocated")
    BY <1>0, <1>1 DEF IdsOf
  <2>3. freedAt'[f] = -1 \/ freedAt'[f] + Hold < now
    <3>1. timeout[f] = freedAt[f] + Hold /\ callNow <= now /\ freedAt[f] # -1
      BY <1>0 DEF PoolIInv, Histories
    <3>2. CASE freedAt' = freedAt /\ timeout[f] < callNow
      <4>1. timeout[f] \in Int /\ callNow \in Int /\ now \in Int
        BY <1>0 DEF PoolIInv, PoolValues
      <4> QED BY <3>1, <3>2, <4>1
    <3>3. CASE freedAt' = [freedAt EXCEPT ![f] = -1]
      BY <1>0, <3>3
    <3> QED BY <3>2, <3>3
  <2>4. \A i \in Ids : i # f => freedAt'[i] = freedAt[i]
    BY <1>0
  <2>5. \A i \in Ids :
          /\ state'[i] = "timed" => freedAt'[i] # -1 /\ timeout'[i] = freedAt'[i] + Hold
          /\ state'[i] = "free" => freedAt'[i] = -1 \/ freedAt'[i] + Hold < now'
    BY <1>0, <1>1, <2>3, <2>4 DEF PoolIInv, Histories
  <2> QED BY <2>1, <2>2, <2>5 DEF Histories
<1>7. CountersCount'
  <2>1. (Ids \ IdsOf("free"))' = (Ids \ IdsOf("free")) \ {f}
    BY <1>0, <1>1 DEF IdsOf
  <2>2. f \in Ids \ IdsOf("free")
    BY <1>0 DEF IdsOf
  <2>3. Cardinality((Ids \ IdsOf("free")) \ {f}) = Cardinality(Ids \ IdsOf("free")) - 1
    BY <2>2, OneLess
  <2> QED BY <1>1, <2>1, <2>3 DEF PoolIInv, CountersCount
<1> QED BY <1>2, <1>3, <1>4, <1>5, <1>6, <1>7 DEF PoolIInv

\* Steps that touch neither list.
LEMMA IdleStep ==
  ASSUME PoolIInv, UNCHANGED <<lists, inUsage, held, freedAt>>,
         now' \in Nat, now <= now', callNow' \in {callNow, now},
         call' \in {"none", "NewId", "TimeoutIds"}, refused' \in BOOLEAN
  PROVE  PoolIInv'
<1>1. UNCHANGED <<next, state, timeout, firstFree, firstTimed, lastTimed, usage>>
  BY DEF lists
<1>2. PoolValues'
  BY <1>1 DEF PoolIInv, PoolValues
<1>3. Linked("free", firstFree)' /\ Linked("timed", firstTimed)' /\ TailIsLast' /\ CountersCount'
  BY <1>1 DEF PoolIInv, Linked, TailIsLast, CountersCount, IdsOf
<1>4. Histories'
  <2>1. callNow' <= now'
    BY DEF PoolIInv, Histories, PoolValues
  <2>2. \A i \in Ids : freedAt[i] = -1 \/ freedAt[i] + Hold < now =>
                         freedAt[i] = -1 \/ freedAt[i] + Hold < now'
    <3>1. now \in Int /\ now' \in Int /\ Hold \in Int
      BY PoolNumbers DEF PoolIInv, PoolValues
    <3>2. \A i \in Ids : freedAt[i] \in Int
      BY DEF PoolIInv, PoolValues
    <3> QED BY <3>1, <3>2
  <2> QED BY <1>1, <2>1, <2>2 DEF PoolIInv, Histories, IdsOf
<1> QED BY <1>2, <1>3, <1>4 DEF PoolIInv

\* Taking the first free id.
LEMMA TakeStep == ASSUME PoolIInv, NewIdTake PROVE PoolIInv'
<1> DEFINE f == firstFree
<1>0. /\ f \in Ids /\ state[f] = "free" /\ next[f] \in Ids \cup {Nil}
      /\ state \in [Ids -> {"free", "allocated", "timed"}]
      /\ next \in [Ids -> Ids \cup {Nil}] /\ Nil \notin Ids
  BY IdsFinite DEF PoolIInv, PoolValues, Linked, NewIdTake
<1>1. /\ firstFree' = next[f]
      /\ \A i \in Ids : state'[i] = IF i = f THEN "allocated" ELSE state[i]
      /\ usage' = usage + 1 /\ inUsage' = inUsage + 1 /\ held' = held \cup {f}
      /\ UNCHANGED <<next, timeout, firstTimed, lastTimed, callNow, now, freedAt>>
  BY <1>0 DEF NewIdTake
<1>2. PoolValues'
  BY <1>0, <1>1 DEF NewIdTake, PoolIInv, PoolValues
<1>3. Linked("free", firstFree)'
  BY <1>0, <1>1 DEF PoolIInv, Linked
<1>4. Linked("timed", firstTimed)'
  BY <1>0, <1>1, <1>2 DEF PoolIInv, Linked, PoolValues
<1>5. TailIsLast'
  BY <1>0, <1>1, <1>2 DEF PoolIInv, TailIsLast, PoolValues
<1>6. Histories'
  <2>1. IdsOf("allocated")' = IdsOf("allocated") \cup {f}
    BY <1>0, <1>1 DEF IdsOf
  <2> QED BY <1>0, <1>1, <2>1 DEF PoolIInv, Histories
<1>7. CountersCount'
  <2>1. (Ids \ IdsOf("free"))' = (Ids \ IdsOf("free")) \cup {f}
    BY <1>0, <1>1 DEF IdsOf
  <2>2. f \notin Ids \ IdsOf("free") /\ f \notin held /\ held \subseteq Ids
    BY <1>0 DEF IdsOf, PoolIInv, Histories, PoolValues
  <2>3. /\ Cardinality((Ids \ IdsOf("free")) \cup {f}) = Cardinality(Ids \ IdsOf("free")) + 1
        /\ Cardinality(held \cup {f}) = Cardinality(held) + 1
    BY <1>0, <2>2, OneMore
  <2> QED BY <1>1, <2>1, <2>3 DEF PoolIInv, CountersCount
<1> QED BY <1>2, <1>3, <1>4, <1>5, <1>6, <1>7 DEF PoolIInv

\* Giving an id back.
LEMMA FreeStep == ASSUME PoolIInv, NEW id \in Ids, FreeId(id) PROVE PoolIInv'
<1> DEFINE l == lastTimed
<1>0. /\ id \in Ids /\ id \in held /\ state[id] = "allocated"
      /\ state \in [Ids -> {"free", "allocated", "timed"}]
      /\ next \in [Ids -> Ids \cup {Nil}] /\ Nil \notin Ids /\ l \in Ids \cup {Nil}
      /\ timeout \in [Ids -> Nat] /\ freedAt \in [Ids -> Nat \cup {-1}]
      /\ firstTimed \in Ids \cup {Nil} /\ held \subseteq Ids /\ now \in Nat /\ Hold \in Nat
  <2>1. id \in held /\ state[id] = "allocated"
    BY DEF FreeId
  <2>2. Nil \notin Ids /\ Hold \in Nat
    BY IdsFinite, PoolNumbers
  <2> QED BY <2>1, <2>2 DEF PoolIInv, PoolValues
<1>1. /\ \A i \in Ids : state'[i] = IF i = id THEN "timed" ELSE state[i]
      /\ \A i \in Ids : timeout'[i] = IF i = id THEN now + Hold ELSE timeout[i]
      /\ \A i \in Ids : freedAt'[i] = IF i = id THEN now ELSE freedAt[i]
      /\ firstTimed' = (IF l = Nil THEN id ELSE firstTimed) /\ lastTimed' = id
      /\ inUsage' = inUsage - 1 /\ held' = held \ {id}
      /\ UNCHANGED <<firstFree, usage, callNow, now>>
  BY <1>0 DEF FreeId
<1>2. /\ l # Nil => l \in Ids /\ state[l] = "timed" /\ next[l] = Nil /\ l # id
      /\ l = Nil <=> firstTimed = Nil
      /\ \A i \in Ids : state[i] = "timed" /\ next[i] = Nil => i = l
      /\ \A i \in Ids : state[i] = "timed" /\ next[i] # Nil =>
           state[next[i]] = "timed" /\ next[i] # firstTimed
      /\ \A i, j \in Ids : state[i] = "timed" /\ state[j] = "timed" /\ next[i] = next[j]
           => i = j \/ next[i] = Nil
      /\ firstTimed # Nil => state[firstTimed] = "timed"
  BY <1>0 DEF PoolIInv, TailIsLast, Linked
<1>3. \A i \in Ids : next'[i] = IF i = id THEN Nil
                                ELSE IF i = l THEN id ELSE next[i]
  BY <1>0, <1>2 DEF FreeId
<1>4. PoolValues'
  <2>1. /\ state' = [state EXCEPT ![id] = "timed"]
        /\ timeout' = [timeout EXCEPT ![id] = now + Hold]
        /\ freedAt' = [freedAt EXCEPT ![id] = now]
        /\ UNCHANGED <<firstFree, call, callNow, now>> /\ refused' = FALSE
    BY DEF FreeId
  <2>2. next' \in [Ids -> Ids \cup {Nil}]
    <3>1. next' = [next EXCEPT ![id] = Nil]
            \/ next' = [next EXCEPT ![id] = Nil, ![l] = id]
      BY DEF FreeId
    <3> QED BY <1>0, <3>1
  <2>3. /\ state' \in [Ids -> {"free", "allocated", "timed"}]
        /\ timeout' \in [Ids -> Nat] /\ freedAt' \in [Ids -> Nat \cup {-1}]
    BY <1>0, <2>1
  <2>4. held' \subseteq Ids /\ firstTimed' \in Ids \cup {Nil} /\ lastTimed' \in Ids \cup {Nil}
    BY <1>0, <1>1
  <2> QED BY <2>1, <2>2, <2>3, <2>4 DEF PoolIInv, PoolValues
<1>5. Linked("free", firstFree)'
  <2>1. /\ \A i \in Ids : state[i] = "free" /\ next[i] # Nil =>
             state[next[i]] = "free" /\ next[i] # firstFree
        /\ \A i, j \in Ids : state[i] = "free" /\ state[j] = "free" /\ next[i] = next[j]
             => i = j \/ next[i] = Nil
        /\ firstFree # Nil => state[firstFree] = "free"
        /\ firstFree \in Ids \cup {Nil}
    BY DEF PoolIInv, Linked, PoolValues
  <2>2. \A i \in Ids : state'[i] = "free" => next'[i] = next[i] /\ state[i] = "free"
    BY <1>0, <1>1, <1>2, <1>3
  <2> QED BY <1>0, <1>1, <2>1, <2>2 DEF Linked
<1>6. Linked("timed", firstTimed)'
  <2>1. firstTimed' # Nil /\ state'[firstTimed'] = "timed"
    BY <1>0, <1>1, <1>2
  <2>2. ASSUME NEW i \in Ids, state'[i] = "timed", next'[i] # Nil
        PROVE  state'[next'[i]] = "timed" /\ next'[i] # firstTimed'
    <3>1. i # id /\ state[i] = "timed"
      BY <1>1, <1>3, <2>2
    <3>2. CASE i = l
      BY <1>0, <1>1, <1>2, <1>3, <2>2, <3>1, <3>2
    <3>3. CASE i # l
      BY <1>0, <1>1, <1>2, <1>3, <2>2, <3>1, <3>3
    <3> QED BY <3>2, <3>3
  <2>3. ASSUME NEW i \in Ids, NEW j \in Ids, state'[i] = "timed", state'[j] = "timed",
               next'[i] = next'[j], next'[i] # Nil
        PROVE  i = j
    <3>1. i # id /\ j # id /\ state[i] = "timed" /\ state[j] = "timed"
      BY <1>1, <1>3, <2>3
    <3>2. \A k \in Ids : state[k] = "timed" => next[k] # id
      BY <1>0, <1>2
    <3> QED BY <1>2, <1>3, <2>3, <3>1, <3>2
  <2> QED BY <2>1, <2>2, <2>3 DEF Linked
<1>7. TailIsLast'
  <2>1. \A i \in Ids : state'[i] = "timed" /\ next'[i] = Nil => i = id
    BY <1>0, <1>1, <1>2, <1>3
  <2> QED BY <1>0, <1>1, <1>2, <1>3, <2>1 DEF TailIsLast
<1>8. Histories'
  <2>1. IdsOf("allocated")' = IdsOf("allocated") \ {id}
    BY <1>0, <1>1 DEF IdsOf
  <2> QED BY <1>0, <1>1, <2>1 DEF PoolIInv, Histories
<1>9. CountersCount'
  <2>1. (Ids \ IdsOf("free"))' = Ids \ IdsOf("free")
    BY <1>0, <1>1 DEF IdsOf
  <2>2. Cardinality(held \ {id}) = Cardinality(held) - 1
    BY <1>0, OneLess
  <2> QED BY <1>1, <2>1, <2>2 DEF PoolIInv, CountersCount
<1> QED BY <1>4, <1>5, <1>6, <1>7, <1>8, <1>9 DEF PoolIInv

LEMMA PoolSteps == PoolIInv /\ [PoolNext]_poolVars => PoolIInv'
<1> SUFFICES ASSUME PoolIInv, [PoolNext]_poolVars PROVE PoolIInv'
  OBVIOUS
<1>0. /\ callNow \in Nat /\ now \in Nat /\ refused \in BOOLEAN
      /\ call \in {"none", "NewId", "TimeoutIds"}
  BY DEF PoolIInv, PoolValues
<1>1. CASE NewId
  <2>1. /\ UNCHANGED <<lists, inUsage, held, freedAt>> /\ now' = now
        /\ callNow' = now /\ call' \in {"none", "NewId", "TimeoutIds"}
        /\ refused' \in BOOLEAN
    BY <1>1 DEF NewId
  <2> QED BY <1>0, <2>1, IdleStep
<1>2. CASE NewIdExpire
  BY <1>0, <1>2, RemoveStep DEF NewIdExpire, Expired
<1>3. CASE NewIdTake
  BY <1>3, TakeStep
<1>4. CASE NewIdRefuse
  <2>1. /\ UNCHANGED <<lists, inUsage, held, freedAt>> /\ now' = now
        /\ callNow' = callNow /\ call' \in {"none", "NewId", "TimeoutIds"}
        /\ refused' \in BOOLEAN
    BY <1>4 DEF NewIdRefuse
  <2> QED BY <1>0, <2>1, IdleStep
<1>5. CASE TimeoutIds
  <2>1. /\ UNCHANGED <<lists, inUsage, held, freedAt>> /\ now' = now
        /\ callNow' = callNow /\ call' \in {"none", "NewId", "TimeoutIds"}
        /\ refused' \in BOOLEAN
    BY <1>5 DEF TimeoutIds
  <2> QED BY <1>0, <2>1, IdleStep
<1>6. CASE TimeoutIdsStep
  <2>1. CASE firstTimed # Nil
    BY <1>0, <1>6, <2>1, RemoveStep DEF TimeoutIdsStep
  <2>2. CASE firstTimed = Nil
    BY <1>0, <1>6, <2>2, IdleStep DEF TimeoutIdsStep
  <2> QED BY <2>1, <2>2
<1>7. ASSUME NEW id \in Ids, FreeId(id) PROVE PoolIInv'
  BY <1>7, FreeStep
<1>8. CASE Tick
  <2>1. now' \in Nat /\ now <= now'
    BY <1>0, <1>8 DEF Tick
  <2> QED BY <1>0, <1>8, <2>1, IdleStep DEF Tick
<1>9. CASE UNCHANGED poolVars
  BY <1>0, <1>9, IdleStep DEF poolVars
<1> QED BY <1>1, <1>2, <1>3, <1>4, <1>5, <1>6, <1>7, <1>8, <1>9 DEF PoolNext

\* The links, the counters and the histories agree in every reachable state.
THEOREM PoolInvariant == PoolSpec => []PoolIInv
  BY PoolStarts, PoolSteps, PTL DEF PoolSpec

\* Every variable keeps its type; above all, the counters never go below 0.
THEOREM PoolTypes == PoolSpec => []PoolTypeOK
<1>1. PoolIInv => PoolTypeOK
  <2> SUFFICES ASSUME PoolIInv PROVE usage \in Nat /\ inUsage \in Nat
    BY DEF PoolIInv, PoolValues, PoolTypeOK
  <2>1. IsFiniteSet(Ids \ IdsOf("free")) /\ IsFiniteSet(held)
    BY IdsFinite, FS_Subset DEF PoolIInv, PoolValues
  <2> QED BY <2>1, FS_CardinalityType DEF PoolIInv, CountersCount
<1> QED BY <1>1, PoolInvariant, PTL

\* The pool implements the lease: NewId never returns an id that somebody
\* holds, nor one that was given back less than Hold ago since the last change
\* of the map.
THEOREM ImplementsLease == PoolSpec => LeaseSpec
<1>1. PoolInit => Lease!Init
  BY DEF PoolInit, Lease!Init
<1>2. PoolIInv /\ [PoolNext]_poolVars => [Lease!Next]_(Lease!vars)
  <2> SUFFICES ASSUME PoolIInv, [PoolNext]_poolVars
               PROVE  Lease!Next \/ UNCHANGED <<held, freedAt, now>>
    BY DEF Lease!vars
  <2>0. /\ freedAt \in [Ids -> Nat \cup {-1}] /\ now \in Nat
        /\ held = IdsOf("allocated")
    BY DEF PoolIInv, PoolValues, Histories
  <2>1. CASE NewIdTake
    <3>1. firstFree \in Ids /\ state[firstFree] = "free"
      BY <2>1 DEF NewIdTake, PoolIInv, PoolValues, Linked
    <3>2. firstFree \notin held /\ Lease!Rested(firstFree)
      BY <2>0, <3>1 DEF PoolIInv, Histories, IdsOf, Lease!Rested
    <3>3. Lease!New(firstFree)
      BY <2>1, <3>2 DEF NewIdTake, Lease!New
    <3> QED BY <3>1, <3>3 DEF Lease!Next
  <2>2. CASE TimeoutIdsStep /\ firstTimed # Nil
    <3>1. firstTimed \in Ids /\ state[firstTimed] = "timed"
      BY <2>2 DEF PoolIInv, PoolValues, Linked
    <3>2. Lease!Forget(firstTimed)
      BY <2>0, <2>2, <3>1 DEF TimeoutIdsStep, IdsOf, Lease!Forget
    <3> QED BY <3>1, <3>2 DEF Lease!Next
  <2>3. CASE TimeoutIdsStep /\ firstTimed = Nil
    BY <2>3 DEF TimeoutIdsStep
  <2>4. ASSUME NEW id \in Ids, FreeId(id) PROVE Lease!Next
    <3>1. Lease!Free(id)
      BY <2>4 DEF FreeId, Lease!Free
    <3> QED BY <3>1 DEF Lease!Next
  <2>5. CASE Tick
    <3>1. Lease!Tick
      BY <2>5 DEF Tick, Lease!Tick
    <3> QED BY <3>1 DEF Lease!Next
  <2>6. CASE NewId \/ NewIdExpire \/ NewIdRefuse \/ TimeoutIds \/ UNCHANGED poolVars
    BY <2>6 DEF NewId, NewIdExpire, NewIdRefuse, TimeoutIds, poolVars
  <2> QED BY <2>1, <2>2, <2>3, <2>4, <2>5, <2>6 DEF PoolNext
<1> QED BY <1>1, <1>2, PoolInvariant, PTL DEF PoolSpec, LeaseSpec, Lease!Spec

-----------------------------------------------------------------------------
(* Following the lists.                                                    *)

\* Listed follows the links.
LEMMA Walking ==
  ASSUME next \in [Ids -> Ids \cup {Nil}], NEW first \in Ids \cup {Nil}
  PROVE  \E f \in [Nat -> Ids \cup {Nil}] :
           /\ f[0] = first
           /\ \A n \in Nat : f[n + 1] = IF f[n] = Nil THEN Nil ELSE next[f[n]]
           /\ Listed(first) = {f[n] : n \in 0 .. MaxIds} \ {Nil}
<1> DEFINE D == Ids \cup {Nil}
           F == [x \in D |-> IF x = Nil THEN Nil ELSE next[x]]
           Follows(f) == f = [n \in Nat |-> IF n = 0 THEN first
                                ELSE IF f[n - 1] = Nil THEN Nil ELSE next[f[n - 1]]]
           node == CHOOSE f : Follows(f)
<1>1. F \in [D -> D]
  OBVIOUS
<1>2. PICK f : f \in [Nat -> D] /\ f[0] = first /\ \A n \in Nat : f[n + 1] = F[f[n]]
  <2>1. first \in D
    OBVIOUS
  <2> HIDE DEF D, F
  <2>2. \E f : Iterates(D, F, first, f)
    BY <1>1, <2>1, Iterating
  <2> QED BY <2>2 DEF Iterates
<1>3. Follows(f)
  <2>1. ASSUME NEW n \in Nat
        PROVE  f[n] = IF n = 0 THEN first
                      ELSE IF f[n - 1] = Nil THEN Nil ELSE next[f[n - 1]]
    <3>1. CASE n = 0
      BY <1>2, <3>1
    <3>2. CASE n # 0
      <4>1. n - 1 \in Nat /\ (n - 1) + 1 = n
        BY <3>2
      <4>2. f[n] = F[f[n - 1]] /\ f[n - 1] \in D
        BY <1>2, <4>1
      <4> QED BY <3>2, <4>2
    <3> QED BY <3>1, <3>2
  <2> QED BY <1>2, <2>1
<1>4. Follows(node)
  BY <1>3
<1>5. Listed(first) = {node[n] : n \in 0 .. MaxIds} \ {Nil}
  BY DEF Listed
<1> HIDE DEF node
<1>6. /\ node[0] = first
      /\ \A n \in Nat : node[n + 1] = IF node[n] = Nil THEN Nil ELSE next[node[n]]
  <2>1. \A n \in Nat : n + 1 \in Nat /\ n + 1 # 0 /\ (n + 1) - 1 = n
    OBVIOUS
  <2> QED BY <1>4, <2>1
<1>7. node \in [Nat -> D]
  <2>1. \A n \in Nat : node[n] \in D
    <3> DEFINE T == {n \in Nat : node[n] \in D}
    <3>1. 0 \in T
      BY <1>6
    <3>2. \A n \in Nat : n \in T => n + 1 \in T
      BY <1>6
    <3> HIDE DEF T
    <3>3. Nat \subseteq T
      BY <3>1, <3>2, Numbered
    <3> QED BY <3>3 DEF T
  <2>2. node = [n \in Nat |-> node[n]]
    BY <1>4
  <2> QED BY <2>1, <2>2
<1> QED BY <1>5, <1>6, <1>7

\* Every id of S has its place in the list that the links make from first on,
\* and the one before it is there too.
Chain(S, first, link, pos) ==
  /\ pos \in [Ids -> Nat]
  /\ \A i \in S : IF i = first THEN pos[i] = 0
                  ELSE \E j \in S : link[j] = i /\ pos[i] = pos[j] + 1

Placed(s, first, pos) == Chain(IdsOf(s), first, next, pos)

Reached(s, first) == \E pos : Placed(s, first, pos)

\* There are no more places than ids.
LEMMA FewPlaces ==
  ASSUME NEW s, NEW first, NEW pos, Placed(s, first, pos), NEW i \in IdsOf(s)
  PROVE  pos[i] < MaxIds
<1> DEFINE T == {n \in Nat : n > pos[i] \/ \E j \in IdsOf(s) : pos[j] = pos[i] - n}
<1>0. pos[i] \in Nat /\ \A j \in IdsOf(s) : pos[j] \in Nat /\ j \in Ids
  BY DEF Placed, Chain, IdsOf
<1>1. 0 \in T
  BY <1>0
<1>2. ASSUME NEW n \in Nat, n \in T PROVE n + 1 \in T
  <2> SUFFICES ASSUME n + 1 <= pos[i] PROVE \E j \in IdsOf(s) : pos[j] = pos[i] - (n + 1)
    BY <1>0
  <2>1. PICK k \in IdsOf(s) : pos[k] = pos[i] - n
    BY <1>0, <1>2
  <2>2. pos[k] # 0
    BY <1>0, <2>1
  <2>3. PICK j \in IdsOf(s) : pos[k] = pos[j] + 1
    BY <2>2 DEF Placed, Chain
  <2>4. pos[j] = pos[i] - (n + 1)
    BY <1>0, <2>1, <2>3
  <2> QED BY <2>4
<1> HIDE DEF T
<1>3. Nat \subseteq T
  BY <1>1, <1>2, Numbered
<1>4. \A n \in 0 .. pos[i] : \E j \in IdsOf(s) : pos[j] = n
  <2> SUFFICES ASSUME NEW n \in 0 .. pos[i] PROVE \E j \in IdsOf(s) : pos[j] = n
    OBVIOUS
  <2>1. pos[i] - n \in Nat /\ ~(pos[i] - n > pos[i]) /\ pos[i] - (pos[i] - n) = n
    BY <1>0
  <2> QED BY <1>3, <2>1 DEF T
<1> DEFINE at == [n \in 0 .. pos[i] |-> CHOOSE j \in IdsOf(s) : pos[j] = n]
<1>5. /\ \A n \in 0 .. pos[i] : at[n] \in IdsOf(s) /\ pos[at[n]] = n
      /\ at \in [0 .. pos[i] -> Ids]
  BY <1>0, <1>4
<1> HIDE DEF at
<1>6. at \in Injection(0 .. pos[i], Ids)
  BY <1>5 DEF Injection, IsInjective
<1>7. Cardinality(0 .. pos[i]) <= Cardinality(Ids)
  BY <1>6, IdsFinite, FS_Injection
<1>8. Cardinality(0 .. pos[i]) = pos[i] + 1 /\ Cardinality(Ids) = MaxIds
  <2>1. 0 \in Int /\ pos[i] \in Int /\ ~(0 > pos[i]) /\ pos[i] - 0 + 1 = pos[i] + 1
    BY <1>0
  <2>2. /\ MaxIds - 1 \in Int /\ ~(0 > MaxIds - 1) /\ (MaxIds - 1) - 0 + 1 = MaxIds
    BY PoolNumbers
  <2>3. Cardinality(0 .. pos[i]) = IF 0 > pos[i] THEN 0 ELSE pos[i] - 0 + 1
    BY <2>1, FS_Interval
  <2>4. Cardinality(0 .. MaxIds - 1) = IF 0 > MaxIds - 1 THEN 0 ELSE (MaxIds - 1) - 0 + 1
    BY <2>1, <2>2, FS_Interval
  <2> QED BY <2>1, <2>2, <2>3, <2>4 DEF Ids
<1> QED BY <1>0, <1>7, <1>8, PoolNumbers

\* A list whose ids all have their places has all ids of their state, and no
\* others.
LEMMA Following ==
  ASSUME next \in [Ids -> Ids \cup {Nil}], NEW s, NEW first \in Ids \cup {Nil},
         Linked(s, first), Reached(s, first)
  PROVE  Listed(first) = IdsOf(s)
<1>1. PICK f \in [Nat -> Ids \cup {Nil}] :
        /\ f[0] = first
        /\ \A n \in Nat : f[n + 1] = IF f[n] = Nil THEN Nil ELSE next[f[n]]
        /\ Listed(first) = {f[n] : n \in 0 .. MaxIds} \ {Nil}
  BY Walking
<1>2. PICK pos : Placed(s, first, pos)
  BY DEF Reached
<1>3. \A n \in Nat : f[n] = Nil \/ f[n] \in IdsOf(s)
  <2> DEFINE T == {n \in Nat : f[n] = Nil \/ f[n] \in IdsOf(s)}
  <2>1. 0 \in T
    BY <1>1 DEF Linked, IdsOf
  <2>2. ASSUME NEW n \in Nat, n \in T PROVE n + 1 \in T
    <3>1. f[n + 1] = Nil \/ (f[n] \in IdsOf(s) /\ f[n + 1] = next[f[n]])
      BY <1>1, <2>2
    <3>2. \A i \in IdsOf(s) : next[i] = Nil \/ next[i] \in IdsOf(s)
      BY DEF Linked, IdsOf
    <3> QED BY <3>1, <3>2
  <2> HIDE DEF T
  <2>3. Nat \subseteq T
    BY <2>1, <2>2, Numbered
  <2> QED BY <2>3 DEF T
<1>4. \A i \in IdsOf(s) : f[pos[i]] = i
  <2> DEFINE T == {n \in Nat : \A i \in IdsOf(s) : pos[i] = n => f[n] = i}
  <2>0. \A j \in IdsOf(s) : pos[j] \in Nat /\ j \in Ids
    BY <1>2 DEF Placed, Chain, IdsOf
  <2>1. 0 \in T
    <3>1. ASSUME NEW i \in IdsOf(s), pos[i] = 0 PROVE f[0] = i
      <4>1. \A j \in IdsOf(s) : pos[j] + 1 # 0
        BY <2>0
      <4> QED BY <1>1, <1>2, <3>1, <4>1 DEF Placed, Chain
    <3> QED BY <3>1
  <2>2. ASSUME NEW n \in Nat, n \in T PROVE n + 1 \in T
    <3>1. ASSUME NEW i \in IdsOf(s), pos[i] = n + 1 PROVE f[n + 1] = i
      <4>1. i # first
        BY <1>2, <3>1 DEF Placed, Chain
      <4>2. PICK j \in IdsOf(s) : next[j] = i /\ pos[i] = pos[j] + 1
        BY <1>2, <4>1 DEF Placed, Chain
      <4>3. pos[j] = n
        BY <2>0, <3>1, <4>2
      <4>4. f[n] = j /\ j # Nil
        BY <2>0, <2>2, <4>3, IdsFinite
      <4> QED BY <1>1, <4>2, <4>4
    <3> QED BY <3>1
  <2> HIDE DEF T
  <2>3. Nat \subseteq T
    BY <2>1, <2>2, Numbered
  <2> QED BY <2>0, <2>3 DEF T
<1>5. IdsOf(s) \subseteq Listed(first)
  <2> SUFFICES ASSUME NEW i \in IdsOf(s) PROVE i \in Listed(first)
    OBVIOUS
  <2>1. pos[i] \in 0 .. MaxIds /\ i # Nil
    <3>1. pos[i] \in Nat /\ i \in Ids
      BY <1>2 DEF Placed, Chain, IdsOf
    <3> QED BY <1>2, <3>1, FewPlaces, IdsFinite, PoolNumbers
  <2> QED BY <1>1, <1>4, <2>1
<1>6. Listed(first) \subseteq IdsOf(s)
  <2>1. \A n \in 0 .. MaxIds : n \in Nat
    OBVIOUS
  <2> QED BY <1>1, <1>3, <2>1
<1> QED BY <1>5, <1>6

\* A list without a first id is empty.
LEMMA HasFirst ==
  ASSUME NEW s, NEW first, Reached(s, first), IdsOf(s) # {}
  PROVE  first \in IdsOf(s)
<1>1. PICK pos : Placed(s, first, pos)
  BY DEF Reached
<1>2. \A i \in IdsOf(s) : pos[i] \in Nat
  BY <1>1 DEF Placed, Chain, IdsOf
<1> DEFINE T == {pos[i] : i \in IdsOf(s)}
<1>3. PICK n \in T : \A m \in T : n <= m
  <2>1. T \subseteq Nat /\ T # {}
    BY <1>2
  <2> QED BY <2>1, Least
<1>4. PICK i \in IdsOf(s) : \A j \in IdsOf(s) : pos[i] <= pos[j]
  BY <1>3
<1>5. \A j \in IdsOf(s) : pos[i] # pos[j] + 1
  BY <1>2, <1>4
<1> QED BY <1>1, <1>4, <1>5 DEF Placed, Chain

\* The queue is in the order in which its ids expire.
Ordered ==
  \A i \in IdsOf("timed") :
    timeout[i] <= now + Hold /\ (next[i] # Nil => timeout[i] <= timeout[next[i]])

\* The first of the queue expires first.
LEMMA FirstExpires ==
  ASSUME timeout \in [Ids -> Nat], Ordered, Reached("timed", firstTimed),
         NEW i \in IdsOf("timed")
  PROVE  firstTimed \in IdsOf("timed") /\ timeout[firstTimed] <= timeout[i]
<1>1. PICK pos : Placed("timed", firstTimed, pos)
  BY DEF Reached
<1>2. /\ firstTimed \in IdsOf("timed")
      /\ \A j \in IdsOf("timed") : pos[j] \in Nat /\ j \in Ids /\ timeout[j] \in Nat
  BY <1>1, HasFirst DEF Placed, Chain, IdsOf
<1> DEFINE T == {n \in Nat : \A j \in IdsOf("timed") :
                               pos[j] = n => timeout[firstTimed] <= timeout[j]}
<1>3. 0 \in T
  <2>1. ASSUME NEW j \in IdsOf("timed"), pos[j] = 0 PROVE j = firstTimed
    <3>1. \A k \in IdsOf("timed") : pos[k] + 1 # 0
      BY <1>2
    <3> QED BY <1>1, <2>1, <3>1 DEF Placed, Chain
  <2> QED BY <1>2, <2>1
<1>4. ASSUME NEW n \in Nat, n \in T PROVE n + 1 \in T
  <2>1. ASSUME NEW j \in IdsOf("timed"), pos[j] = n + 1
        PROVE  timeout[firstTimed] <= timeout[j]
    <3>1. j # firstTimed
      BY <1>1, <2>1 DEF Placed, Chain
    <3>2. PICK k \in IdsOf("timed") : next[k] = j /\ pos[j] = pos[k] + 1
      BY <1>1, <3>1 DEF Placed, Chain
    <3>3. pos[k] = n
      BY <1>2, <2>1, <3>2
    <3>4. timeout[firstTimed] <= timeout[k]
      BY <1>4, <3>3
    <3>5. timeout[k] <= timeout[j]
      BY <1>2, <3>2, IdsFinite DEF Ordered
    <3> QED BY <1>2, <3>4, <3>5
  <2> QED BY <2>1
<1> HIDE DEF T
<1>5. Nat \subseteq T
  BY <1>3, <1>4, Numbered
<1> QED BY <1>2, <1>5 DEF T

\* What EveryIdServes needs besides.
Serving ==
  /\ Reached("free", firstFree) /\ Reached("timed", firstTimed) /\ Ordered
  /\ refused => call = "none"
  /\ RefusedWhenExhausted

LEMMA InitServing == PoolInit => Serving
<1> SUFFICES ASSUME PoolInit PROVE Serving
  OBVIOUS
<1>1. IdsOf("timed") = {} /\ refused = FALSE /\ firstFree = 0
  BY DEF PoolInit, IdsOf
<1>2. Reached("free", firstFree)
  <2> DEFINE pos == [i \in Ids |-> i]
  <2>1. ASSUME NEW i \in IdsOf("free"), i # 0
        PROVE  \E j \in IdsOf("free") : next[j] = i /\ pos[i] = pos[j] + 1
    <3>1. i - 1 \in Ids /\ i \in Ids /\ i - 1 # MaxIds - 1 /\ (i - 1) + 1 = i
      BY <2>1, PoolNumbers DEF IdsOf, Ids
    <3>2. next[i - 1] = i /\ i - 1 \in IdsOf("free")
      BY <3>1 DEF PoolInit, IdsOf
    <3> QED BY <3>1, <3>2
  <2>2. pos \in [Ids -> Nat]
    BY PoolNumbers DEF Ids
  <2>3. \A i \in IdsOf("free") : i = 0 => pos[i] = 0
    BY DEF IdsOf
  <2> HIDE DEF pos
  <2>4. Placed("free", firstFree, pos)
    BY <1>1, <2>1, <2>2, <2>3 DEF Placed, Chain
  <2> QED BY <2>4 DEF Reached
<1>3. Reached("timed", firstTimed)
  <2>1. Placed("timed", firstTimed, [i \in Ids |-> 0])
    BY <1>1 DEF Placed, Chain
  <2> QED BY <2>1 DEF Reached
<1> QED BY <1>1, <1>2, <1>3 DEF Serving, Ordered, RefusedWhenExhausted

\* Without its first id the list has the others.
LEMMA WithoutFirst ==
  ASSUME NEW S \in SUBSET Ids, NEW first \in S, NEW link, NEW pos,
         Chain(S, first, link, pos),
         \A j \in S : link[j] \in S /\ link[j] = link[first] => j = first
  PROVE  \E down : Chain(S \ {first}, link[first], link, down)
<1> DEFINE R == S \ {first}
           down == [i \in Ids |-> IF pos[i] = 0 THEN 0 ELSE pos[i] - 1]
<1>1. pos \in [Ids -> Nat] /\ pos[first] = 0 /\ \A i \in S : i \in Ids /\ pos[i] \in Nat
  BY DEF Chain
<1>2. down \in [Ids -> Nat]
  BY <1>1
<1>3. ASSUME NEW i \in R
      PROVE  IF i = link[first] THEN down[i] = 0
             ELSE \E j \in R : link[j] = i /\ down[i] = down[j] + 1
  <2>1. PICK j \in S : link[j] = i /\ pos[i] = pos[j] + 1
    BY <1>3 DEF Chain
  <2>2. down[i] = pos[j]
    BY <1>1, <1>3, <2>1
  <2>3. CASE j = first
    BY <1>1, <2>1, <2>2, <2>3
  <2>4. CASE j # first
    <3>1. j \in R
      BY <2>1, <2>4
    <3>2. PICK k \in S : pos[j] = pos[k] + 1
      BY <3>1 DEF Chain
    <3>3. pos[j] # 0 /\ pos[j] \in Nat /\ down[j] + 1 = pos[j]
      BY <1>1, <3>1, <3>2
    <3>4. i # link[first]
      BY <1>3, <2>1, <2>4
    <3> QED BY <2>1, <2>2, <3>1, <3>3, <3>4
  <2> QED BY <2>3, <2>4
<1> HIDE DEF down, R
<1>4. Chain(R, link[first], link, down)
  BY <1>2, <1>3 DEF Chain
<1> QED BY <1>4 DEF R

\* The first resting id moves to the free list.
LEMMA ServingRemove ==
  ASSUME PoolIInv, Serving, firstTimed # Nil, RemoveFirstTimeout, now' = now
  PROVE  (Reached("free", firstFree) /\ Reached("timed", firstTimed) /\ Ordered)'
<1> DEFINE f == firstTimed
<1>0. /\ f \in Ids /\ state[f] = "timed" /\ next[f] \in Ids \cup {Nil}
      /\ state \in [Ids -> {"free", "allocated", "timed"}]
      /\ next \in [Ids -> Ids \cup {Nil}] /\ firstFree \in Ids \cup {Nil} /\ Nil \notin Ids
      /\ Linked("timed", f) /\ Linked("free", firstFree)
  BY IdsFinite DEF PoolIInv, PoolValues, Linked
<1>1. /\ \A i \in Ids : next'[i] = IF i = f THEN firstFree ELSE next[i]
      /\ \A i \in Ids : state'[i] = IF i = f THEN "free" ELSE state[i]
      /\ firstFree' = f /\ firstTimed' = next[f] /\ timeout' = timeout
  BY <1>0 DEF RemoveFirstTimeout
<1>2. /\ IdsOf("timed")' = IdsOf("timed") \ {f} /\ f \in IdsOf("timed")
      /\ IdsOf("free")' = IdsOf("free") \cup {f} /\ f \notin IdsOf("free")
      /\ IdsOf("timed") \subseteq Ids /\ IdsOf("free") \subseteq Ids
  BY <1>0, <1>1 DEF IdsOf
<1>3. Reached("free", firstFree)'
  <2>1. PICK pos : Placed("free", firstFree, pos)
    BY DEF Serving, Reached
  <2> DEFINE up == [i \in Ids |-> IF i = f THEN 0 ELSE pos[i] + 1]
  <2>2. up \in [Ids -> Nat] /\ \A i \in IdsOf("free") : pos[i] \in Nat /\ up[i] = pos[i] + 1
    BY <1>2, <2>1 DEF Placed, Chain
  <2>3. ASSUME NEW i \in IdsOf("free"), i # firstFree
        PROVE  \E j \in IdsOf("free") : next'[j] = i /\ up[i] = up[j] + 1
    <3>1. PICK j \in IdsOf("free") : next[j] = i /\ pos[i] = pos[j] + 1
      BY <2>1, <2>3 DEF Placed, Chain
    <3>2. next'[j] = i /\ up[i] = pos[i] + 1 /\ up[j] = pos[j] + 1
      BY <1>1, <1>2, <2>2, <3>1
    <3> QED BY <3>1, <3>2
  <2>4. firstFree \in IdsOf("free") => next'[f] = firstFree /\ up[firstFree] = up[f] + 1
    <3>1. firstFree \in IdsOf("free") => pos[firstFree] = 0
      BY <2>1 DEF Placed, Chain
    <3> QED BY <1>0, <1>1, <1>2, <2>2, <3>1
  <2>5. up[f] = 0
    BY <1>0
  <2> HIDE DEF up
  <2>6. Chain(IdsOf("free") \cup {f}, f, next', up)
    BY <1>2, <2>2, <2>3, <2>4, <2>5 DEF Chain
  <2>7. PICK p : Chain(IdsOf("free") \cup {f}, f, next', p)
    BY <2>6
  <2>8. Placed("free", firstFree, p)'
    BY <1>1, <1>2, <2>7 DEF Placed
  <2> QED BY <2>8 DEF Reached
<1>4. Reached("timed", firstTimed)'
  <2> DEFINE S == IdsOf("timed")
  <2>1. PICK pos : Chain(S, f, next, pos)
    BY DEF Serving, Reached, Placed
  <2>2. \A j \in S : next[j] \in S /\ next[j] = next[f] => j = f
    BY <1>0, <1>2 DEF Linked, IdsOf
  <2>3. PICK down : Chain(S \ {f}, next[f], next, down)
    BY <1>2, <2>1, <2>2, WithoutFirst
  <2>4. \A j \in S \ {f} : next'[j] = next[j]
    BY <1>1, <1>2
  <2>5. Chain(S \ {f}, next[f], next', down)
    BY <2>3, <2>4 DEF Chain
  <2>6. Placed("timed", firstTimed, down)'
    BY <1>1, <1>2, <2>5 DEF Placed
  <2> QED BY <2>6 DEF Reached
<1>5. Ordered'
  BY <1>1, <1>2 DEF Serving, Ordered
<1> QED BY <1>3, <1>4, <1>5

\* The first free id is taken.
LEMMA ServingTake ==
  ASSUME PoolIInv, Serving, NewIdTake
  PROVE  (Reached("free", firstFree) /\ Reached("timed", firstTimed) /\ Ordered)'
<1> DEFINE f == firstFree
<1>0. /\ f \in Ids /\ state[f] = "free" /\ next[f] \in Ids \cup {Nil}
      /\ state \in [Ids -> {"free", "allocated", "timed"}]
      /\ Nil \notin Ids /\ Linked("free", f)
  BY IdsFinite DEF PoolIInv, PoolValues, Linked, NewIdTake
<1>1. /\ \A i \in Ids : state'[i] = IF i = f THEN "allocated" ELSE state[i]
      /\ firstFree' = next[f] /\ UNCHANGED <<next, timeout, firstTimed, now>>
  BY <1>0 DEF NewIdTake
<1>2. IdsOf("timed")' = IdsOf("timed") /\ IdsOf("free")' = IdsOf("free") \ {f}
  BY <1>0, <1>1 DEF IdsOf
<1>3. Reached("free", firstFree)'
  <2> DEFINE S == IdsOf("free")
  <2>1. PICK pos : Chain(S, f, next, pos)
    BY DEF Serving, Reached, Placed
  <2>2. \A j \in S : next[j] \in S /\ next[j] = next[f] => j = f
    BY <1>0 DEF Linked, IdsOf
  <2>3. S \in SUBSET Ids /\ f \in S
    BY <1>0 DEF IdsOf
  <2>4. PICK down : Chain(S \ {f}, next[f], next, down)
    BY <2>1, <2>2, <2>3, WithoutFirst
  <2>5. Placed("free", firstFree, down)'
    BY <1>1, <1>2, <2>4 DEF Placed
  <2> QED BY <2>5 DEF Reached
<1>4. Reached("timed", firstTimed)' /\ Ordered'
  BY <1>1, <1>2 DEF Serving, Reached, Placed, Chain, Ordered
<1> QED BY <1>3, <1>4

\* An id is given back: it is the last of the queue.
LEMMA ServingFree ==
  ASSUME PoolIInv, Serving, NEW id \in Ids, FreeId(id)
  PROVE  (Reached("free", firstFree) /\ Reached("timed", firstTimed) /\ Ordered)'
<1> DEFINE l == lastTimed
<1>a. state[id] = "allocated"
  BY DEF FreeId
<1>b. /\ Nil \notin Ids /\ now \in Nat /\ Hold \in Nat
      /\ state \in [Ids -> {"free", "allocated", "timed"}] /\ timeout \in [Ids -> Nat]
      /\ next \in [Ids -> Ids \cup {Nil}] /\ l \in Ids \cup {Nil}
  BY IdsFinite, PoolNumbers DEF PoolIInv, PoolValues
<1>c. /\ (l = Nil) <=> (firstTimed = Nil)
      /\ l # Nil => state[l] = "timed" /\ next[l] = Nil
      /\ \A i \in Ids : state[i] = "timed" /\ next[i] # Nil => state[next[i]] = "timed"
  BY <1>b DEF PoolIInv, TailIsLast, Linked
<1>0. /\ state[id] = "allocated" /\ Nil \notin Ids /\ now \in Nat /\ Hold \in Nat
      /\ state \in [Ids -> {"free", "allocated", "timed"}] /\ timeout \in [Ids -> Nat]
      /\ next \in [Ids -> Ids \cup {Nil}]
      /\ l # Nil => l \in Ids /\ state[l] = "timed" /\ next[l] = Nil
      /\ (l = Nil) <=> (firstTimed = Nil)
      /\ \A i \in Ids : state[i] = "timed" /\ next[i] # Nil => state[next[i]] = "timed"
  BY <1>a, <1>b, <1>c
<1>1. /\ \A i \in Ids : state'[i] = IF i = id THEN "timed" ELSE state[i]
      /\ \A i \in Ids : timeout'[i] = IF i = id THEN now + Hold ELSE timeout[i]
      /\ \A i \in Ids : next'[i] = IF i = id THEN Nil ELSE IF i = l THEN id ELSE next[i]
      /\ firstTimed' = (IF l = Nil THEN id ELSE firstTimed)
      /\ UNCHANGED <<firstFree, now>>
  BY <1>0 DEF FreeId
<1>2. /\ IdsOf("timed")' = IdsOf("timed") \cup {id} /\ id \notin IdsOf("timed")
      /\ IdsOf("free")' = IdsOf("free") /\ id \notin IdsOf("free") /\ l \notin IdsOf("free")
      /\ IdsOf("timed") \subseteq Ids /\ IdsOf("free") \subseteq Ids
      /\ l # Nil => l \in IdsOf("timed")
  BY <1>0, <1>1 DEF IdsOf
<1>3. Reached("free", firstFree)'
  <2>1. \A j \in IdsOf("free") : next'[j] = next[j]
    BY <1>1, <1>2
  <2>2. PICK pos : Placed("free", firstFree, pos)
    BY DEF Serving, Reached
  <2>3. Chain(IdsOf("free"), firstFree, next', pos)
    BY <2>1, <2>2 DEF Placed, Chain
  <2>4. Placed("free", firstFree, pos)'
    BY <1>1, <1>2, <2>3 DEF Placed
  <2> QED BY <2>4 DEF Reached
<1>4. Reached("timed", firstTimed)'
  <2>1. PICK pos : Placed("timed", firstTimed, pos)
    BY DEF Serving, Reached
  <2> DEFINE longer == [pos EXCEPT ![id] = IF l = Nil THEN 0 ELSE pos[l] + 1]
  <2>2. /\ longer \in [Ids -> Nat]
        /\ \A i \in IdsOf("timed") : longer[i] = pos[i]
        /\ longer[id] = IF l = Nil THEN 0 ELSE pos[l] + 1
    BY <1>0, <1>2, <2>1 DEF Placed, Chain
  <2> HIDE DEF longer
  <2>3. CASE l = Nil
    <3>1. IdsOf("timed") = {}
      BY <1>0, <1>2, <2>3, HasFirst DEF Serving
    <3>2. Chain(IdsOf("timed") \cup {id}, id, next', longer)
      BY <2>2, <2>3, <3>1 DEF Chain
    <3>3. PICK p : Chain(IdsOf("timed") \cup {id}, id, next', p)
      BY <3>2
    <3>4. Placed("timed", firstTimed, p)'
      BY <1>1, <1>2, <2>3, <3>3 DEF Placed
    <3> QED BY <3>4 DEF Reached
  <2>4. CASE l # Nil
    <3>1. ASSUME NEW i \in IdsOf("timed"), i # firstTimed
          PROVE  \E j \in IdsOf("timed") : next'[j] = i /\ longer[i] = longer[j] + 1
      <4>1. PICK j \in IdsOf("timed") : next[j] = i /\ pos[i] = pos[j] + 1
        BY <2>1, <3>1 DEF Placed, Chain
      <4>2. j # l /\ j # id
        BY <1>0, <1>2, <2>4, <4>1
      <4>3. next'[j] = i
        BY <1>1, <1>2, <4>1, <4>2
      <4> QED BY <2>2, <4>1, <4>3
    <3>2. next'[l] = id /\ longer[id] = longer[l] + 1 /\ l \in IdsOf("timed")
      BY <1>0, <1>1, <1>2, <2>2, <2>4
    <3>3. firstTimed \in IdsOf("timed") => longer[firstTimed] = 0
      BY <2>1, <2>2 DEF Placed, Chain
    <3>4. firstTimed' = firstTimed /\ firstTimed # id
      <4>1. firstTimed \in IdsOf("timed")
        BY <3>2, HasFirst DEF Serving
      <4> QED BY <1>1, <1>2, <2>4, <4>1
    <3>5. Chain(IdsOf("timed") \cup {id}, firstTimed, next', longer)
      BY <1>2, <2>2, <3>1, <3>2, <3>3, <3>4 DEF Chain
    <3>6. PICK p : Chain(IdsOf("timed") \cup {id}, firstTimed, next', p)
      BY <3>5
    <3>7. Placed("timed", firstTimed, p)'
      BY <1>2, <3>4, <3>6 DEF Placed
    <3> QED BY <3>7 DEF Reached
  <2> QED BY <2>3, <2>4
<1>5. Ordered'
  <2>1. \A i \in IdsOf("timed") : i \in Ids /\ i # id /\ timeout[i] <= now + Hold
    BY <1>2 DEF Serving, Ordered
  <2>2. ASSUME NEW i \in IdsOf("timed"), next'[i] # Nil PROVE timeout'[i] <= timeout'[next'[i]]
    <3>1. CASE i = l
      BY <1>0, <1>1, <1>2, <2>1, <3>1
    <3>2. CASE i # l
      <4>1. next'[i] = next[i] /\ next[i] # Nil
        BY <1>1, <2>1, <2>2, <3>2
      <4>2. next[i] \in Ids /\ state[next[i]] = "timed"
        BY <1>0, <2>1, <4>1 DEF IdsOf
      <4>3. timeout[i] <= timeout[next[i]]
        BY <4>1 DEF Serving, Ordered
      <4> QED BY <1>0, <1>1, <2>1, <4>1, <4>2, <4>3
    <3> QED BY <3>1, <3>2
  <2>3. timeout'[id] = now + Hold /\ next'[id] = Nil /\ now + Hold <= now + Hold
    BY <1>0, <1>1
  <2>4. \A i \in IdsOf("timed") : timeout'[i] <= now + Hold
    BY <1>1, <2>1
  <2> QED BY <1>1, <1>2, <2>2, <2>3, <2>4 DEF Ordered
<1> QED BY <1>3, <1>4, <1>5

\* NewId refuses: neither list has an id for it.
LEMMA ServingRefuse ==
  ASSUME PoolIInv, Serving, NewIdRefuse
  PROVE  RefusedWhenExhausted'
<1>1. /\ UNCHANGED <<held, freedAt, callNow>> /\ firstFree = Nil
      /\ firstTimed # Nil => ~(timeout[firstTimed] < callNow)
  BY DEF NewIdRefuse, Expired
<1>2. Nil \notin Ids /\ callNow \in Nat /\ timeout \in [Ids -> Nat]
      /\ state \in [Ids -> {"free", "allocated", "timed"}]
      /\ \A i \in IdsOf("timed") : timeout[i] = freedAt[i] + Hold /\ timeout[i] \in Nat
  BY IdsFinite DEF PoolIInv, PoolValues, Histories, IdsOf
<1>3. IdsOf("free") = {}
  <2>1. firstFree \notin IdsOf("free")
    BY <1>1, <1>2 DEF IdsOf
  <2> QED BY <2>1, HasFirst DEF Serving
<1>4. \A i \in IdsOf("timed") : callNow <= freedAt[i] + Hold
  <2>1. ASSUME NEW i \in IdsOf("timed") PROVE callNow <= timeout[i]
    <3>1. firstTimed \in IdsOf("timed") /\ timeout[firstTimed] <= timeout[i]
      BY <1>2, FirstExpires DEF Serving
    <3>2. firstTimed # Nil /\ timeout[firstTimed] \in Nat /\ timeout[i] \in Nat
      BY <1>2, <3>1 DEF IdsOf
    <3> QED BY <1>1, <1>2, <3>1, <3>2
  <2> QED BY <1>2, <2>1
<1>5. \A i \in Ids : i \in held \/ i \in IdsOf("timed")
  BY <1>2, <1>3 DEF PoolIInv, Histories, IdsOf
<1> QED BY <1>1, <1>4, <1>5 DEF RefusedWhenExhausted

LEMMA NextServing == PoolIInv /\ Serving /\ [PoolNext]_poolVars => Serving'
<1> SUFFICES ASSUME PoolIInv, Serving, [PoolNext]_poolVars PROVE Serving'
  OBVIOUS
<1>1. ASSUME UNCHANGED <<lists, held, freedAt>>, now' \in Nat, now <= now'
      PROVE  (Reached("free", firstFree) /\ Reached("timed", firstTimed) /\ Ordered)'
  <2>1. UNCHANGED <<next, state, timeout, firstFree, firstTimed>>
    BY <1>1 DEF lists
  <2>2. \A i \in IdsOf("timed") : timeout[i] <= now + Hold => timeout[i] <= now' + Hold
    <3>1. \A i \in IdsOf("timed") : timeout[i] \in Nat
      BY DEF PoolIInv, PoolValues, IdsOf
    <3>2. now \in Nat /\ Hold \in Nat
      BY PoolNumbers DEF PoolIInv, PoolValues
    <3> QED BY <1>1, <3>1, <3>2
  <2> QED BY <2>1, <2>2 DEF Serving, Reached, Placed, Chain, Ordered, IdsOf
<1>2. now \in Nat /\ now <= now
  BY DEF PoolIInv, PoolValues
<1>3. CASE NewId
  BY <1>1, <1>2, <1>3 DEF NewId, Serving, RefusedWhenExhausted
<1>4. CASE NewIdExpire
  BY <1>4, ServingRemove DEF NewIdExpire, Expired, Serving, RefusedWhenExhausted
<1>5. CASE NewIdTake
  BY <1>5, ServingTake DEF NewIdTake, Serving, RefusedWhenExhausted
<1>6. CASE NewIdRefuse
  BY <1>1, <1>2, <1>6, ServingRefuse DEF NewIdRefuse, Serving
<1>7. CASE TimeoutIds
  BY <1>1, <1>2, <1>7 DEF TimeoutIds, Serving, RefusedWhenExhausted
<1>8. CASE TimeoutIdsStep
  <2>1. ~refused /\ ~refused' /\ now' = now
    BY <1>8 DEF TimeoutIdsStep, Serving
  <2>2. CASE firstTimed # Nil
    BY <1>8, <2>1, <2>2, ServingRemove DEF TimeoutIdsStep, Serving, RefusedWhenExhausted
  <2>3. CASE firstTimed = Nil
    BY <1>1, <1>2, <1>8, <2>1, <2>3 DEF TimeoutIdsStep, Serving, RefusedWhenExhausted
  <2> QED BY <2>2, <2>3
<1>9. ASSUME NEW id \in Ids, FreeId(id) PROVE Serving'
  BY <1>9, ServingFree DEF FreeId, Serving, RefusedWhenExhausted
<1>10. CASE Tick
  BY <1>1, <1>2, <1>10 DEF Tick, Serving, RefusedWhenExhausted
<1>11. CASE UNCHANGED poolVars
  BY <1>1, <1>2, <1>11 DEF poolVars, Serving, RefusedWhenExhausted
<1> QED
  BY <1>3, <1>4, <1>5, <1>6, <1>7, <1>8, <1>9, <1>10, <1>11 DEF PoolNext

\* No id is ever lost: it is in the hands of the game or in the list of its state,
\* the counters say how many are, and NewId refuses only if none is free or has
\* rested long enough (snap_id_pool.cpp:43-91).
THEOREM IdsServe == PoolSpec => []EveryIdServes
<1>1. PoolIInv /\ Serving => EveryIdServes
  <2> SUFFICES ASSUME PoolIInv, Serving PROVE NoIdLost
    BY DEF Serving, EveryIdServes
  <2>1. Listed(firstFree) = IdsOf("free") /\ Listed(firstTimed) = IdsOf("timed")
    BY Following DEF PoolIInv, PoolValues, Serving
  <2>2. {id \in Ids : state[id] # "free"} = Ids \ IdsOf("free")
    BY DEF IdsOf
  <2> QED BY <2>1, <2>2 DEF NoIdLost, IdsOf, PoolIInv, Histories, CountersCount
<1>2. PoolIInv /\ Serving /\ [PoolNext]_poolVars => PoolIInv' /\ Serving'
  BY PoolSteps, NextServing
<1> QED BY <1>1, <1>2, PoolStarts, InitServing, PTL DEF PoolSpec

-----------------------------------------------------------------------------
(* The ring buffer.                                                        *)

Heads(r) == {a \in Places : r.size[a] # 0}

\* The address behind a block.
End(r, a) == a + r.size[a]

\* The blocks tile the memory, and the links lead from each to the next and
\* back.  A place without a header is blank.
Tiling(r) ==
  /\ r \in Rings
  /\ First \in Heads(r) /\ r.prev[First] = Null
  /\ r.last \in Heads(r) /\ r.next[r.last] = Null /\ End(r, r.last) = Size
  /\ \A a \in Heads(r) : a # r.last =>
       /\ r.next[a] = End(r, a) /\ r.next[a] \in Heads(r)
       /\ r.prev[r.next[a]] = a
  /\ \A a \in Heads(r) : a # First => r.prev[a] \in Heads(r) /\ r.next[r.prev[a]] = a
  /\ \A a, b \in Heads(r) : a < b => End(r, a) <= b
  /\ \A a \in Places : a \notin Heads(r) =>
       r.next[a] = Null /\ r.prev[a] = Null /\ ~r.free[a]

\* No two free blocks lie side by side, except that the one at x may be free
\* and the next one too.
ApartBut(r, x) ==
  \A a \in Heads(r) : a # x /\ r.free[a] /\ r.next[a] # Null => ~r.free[r.next[a]]

\* The item at b comes behind the one at a: in the next block or, when only the
\* block left behind by a wrap is between them, at the start of the memory.
Behind(r, a, b) ==
  \/ NextBlock(r, a) = b
  \/ NextBlock(r, a) = r.last /\ r.free[r.last] /\ r.last # r.produce /\ b = First

\* The blocks in use hold the items of q, in the order of the memory but for
\* the wraps; an empty buffer is one free block.
InOrder(r, q) ==
  /\ q \in Seq(Places)
  /\ \A a \in Heads(r) : ~r.free[a] => \E i \in 1 .. Len(q) : q[i] = a
  /\ \A i \in 1 .. Len(q) : q[i] \in Heads(r) /\ ~r.free[q[i]]
  /\ \A i, j \in 1 .. Len(q) : q[i] = q[j] => i = j
  /\ IF Len(q) = 0 THEN r = Cleared
     ELSE r.consume = q[1] /\ r.produce = NextBlock(r, q[Len(q)])
  /\ \A i \in 1 .. Len(q) - 1 : Behind(r, q[i], q[i + 1])
  /\ \A i, j \in 1 .. Len(q) :
       i < j /\ (\A m \in i + 1 .. j : q[m] # First) => q[i] < q[j]

Shape(r, q) == Tiling(r) /\ ApartBut(r, Null) /\ InOrder(r, q)

\* An item fits into its block; nothing else has a size.
FitIn(r, w) ==
  \A a \in Places : w[a] # 0 => a \in Heads(r) /\ ~r.free[a] /\ w[a] <= r.size[a]

-----------------------------------------------------------------------------
(* Loops and walks.                                                        *)

\* What the proofs need of the constants.
LEMMA RingNumbers == Size \in Nat \ {0} /\ Requests \subseteq Nat \ {0}
  BY RingAssumption

\* The places are numbers, and Null is none of them.
LEMMA PlaceNumbers ==
  /\ \A a \in Places : a \in Nat /\ a < Size /\ a # Null
  /\ \A a \in Nat : a < Size => a \in Places
  /\ First \in Places /\ First = 0 /\ \A a \in Places : a >= First /\ Null \notin Places
  BY RingNumbers DEF Places, Null, First

\* A function defined by recursion.
Recursive(F, a, h) == h = [n \in Nat |-> IF n = 0 THEN a ELSE F[h[n - 1]]]

\* There is one, when its step stays in a set.
LEMMA RecursionExists ==
  ASSUME NEW D, NEW F, \A x \in D : F[x] \in D, NEW a \in D
  PROVE  \E h : Recursive(F, a, h)
<1> DEFINE G == [x \in D |-> F[x]]
<1>1. G \in [D -> D]
  OBVIOUS
<1>2. PICK f : f \in [Nat -> D] /\ f[0] = a /\ \A n \in Nat : f[n + 1] = G[f[n]]
  <2> HIDE DEF G
  <2>1. \E f : Iterates(D, G, a, f)
    BY <1>1, Iterating
  <2> QED BY <2>1 DEF Iterates
<1>3. Recursive(F, a, f)
  <2>1. ASSUME NEW n \in Nat
        PROVE  f[n] = IF n = 0 THEN a ELSE F[f[n - 1]]
    <3>1. CASE n = 0
      BY <1>2, <3>1
    <3>2. CASE n # 0
      <4>1. n - 1 \in Nat /\ (n - 1) + 1 = n
        BY <3>2
      <4>2. f[n] = G[f[n - 1]] /\ f[n - 1] \in D
        BY <1>2, <4>1
      <4> QED BY <3>2, <4>2
    <3> QED BY <3>1, <3>2
  <2> QED BY <1>2, <2>1 DEF Recursive
<1> QED BY <1>3

\* It is the iterate of its step.
LEMMA Recursion ==
  ASSUME NEW D, NEW F, \A x \in D : F[x] \in D, NEW a \in D,
         NEW g, Recursive(F, a, g)
  PROVE  Iterates(D, F, a, g)
<1>1. /\ g[0] = a
      /\ \A n \in Nat : g[n + 1] = F[g[n]]
  <2>1. \A n \in Nat : n + 1 \in Nat /\ n + 1 # 0 /\ (n + 1) - 1 = n
    OBVIOUS
  <2> QED BY <2>1 DEF Recursive
<1>2. g \in [Nat -> D]
  <2>1. \A n \in Nat : g[n] \in D
    <3> DEFINE T == {n \in Nat : g[n] \in D}
    <3>1. 0 \in T
      BY <1>1
    <3>2. \A n \in Nat : n \in T => n + 1 \in T
      BY <1>1
    <3> HIDE DEF T
    <3>3. Nat \subseteq T
      BY <3>1, <3>2, Numbered
    <3> QED BY <3>3 DEF T
  <2>2. g = [n \in Nat |-> g[n]]
    BY DEF Recursive
  <2> QED BY <2>1, <2>2
<1> QED BY <1>1, <1>2 DEF Iterates

\* A loop is the turn made Size times.
Turns(D, turn, start, f) ==
  /\ f \in [Nat -> D] /\ f[0] = start
  /\ \A n \in Nat : f[n + 1] = turn[f[n]]
  /\ Loop(turn, start) = f[Size]

LEMMA Looping ==
  ASSUME NEW D, NEW turn, \A h \in D : turn[h] \in D, NEW start \in D
  PROVE  \E f : Turns(D, turn, start, f)
<1> DEFINE g == CHOOSE h : Recursive(turn, start, h)
<1>0. \E h : Recursive(turn, start, h)
  BY RecursionExists
<1>1. Recursive(turn, start, g)
  BY <1>0
<1>2. Loop(turn, start) = g[Size]
  BY DEF Loop, Recursive
<1> HIDE DEF g
<1>3. Iterates(D, turn, start, g)
  BY <1>1, Recursion
<1>4. Turns(D, turn, start, g)
  BY <1>2, <1>3 DEF Iterates, Turns
<1> QED BY <1>4

\* A loop whose condition fails after at most one turn.
LEMMA OneTurn ==
  ASSUME NEW turn, NEW start, NEW end, turn[start] = end, turn[end] = end
  PROVE  Loop(turn, start) = end
<1> DEFINE D == {start, end}
<1>1. start \in D /\ \A h \in D : turn[h] \in D
  OBVIOUS
<1>2. \A f \in [Nat -> D] : \A n \in Nat : f[n] = start \/ f[n] = end
  OBVIOUS
<1> HIDE DEF D
<1>3. PICK f \in [Nat -> D] :
        /\ f[0] = start
        /\ \A n \in Nat : f[n + 1] = turn[f[n]]
        /\ Loop(turn, start) = f[Size]
  <2>1. \E f : Turns(D, turn, start, f)
    BY <1>1, Looping
  <2> QED BY <2>1 DEF Turns
<1>4. Size - 1 \in Nat /\ (Size - 1) + 1 = Size
  BY RingNumbers
<1>5. f[Size] = turn[f[Size - 1]] /\ (f[Size - 1] = start \/ f[Size - 1] = end)
  BY <1>2, <1>3, <1>4
<1> QED BY <1>3, <1>5

\* Where a walk is after n steps.
Walks(step, a, f) ==
  f[0] = a /\ \A n \in Nat : f[n + 1] = IF f[n] = Null THEN Null ELSE step[f[n]]

\* How many steps a walk takes before it ends.
Steps(f) == Cardinality({n \in 0 .. Size : f[n] # Null})

\* What a walk that stays among the places of D returns.
WalkIn(D, step, a, f) ==
  /\ f \in [Nat -> D \cup {Null}] /\ Walks(step, a, f)
  /\ Walk(step, a) = [i \in 1 .. Steps(f) |-> f[i - 1]]

LEMMA WalkingOn ==
  ASSUME NEW D, D \subseteq Places, NEW step, \A b \in D : step[b] \in D \cup {Null},
         NEW a \in D \cup {Null}
  PROVE  \E f : WalkIn(D, step, a, f)
<1> DEFINE onw == [b \in Places \cup {Null} |-> IF b = Null THEN Null ELSE step[b]]
           E == D \cup {Null}
           g == CHOOSE h : Recursive(onw, a, h)
<1>1. \A b \in E : onw[b] = IF b = Null THEN Null ELSE step[b]
  OBVIOUS
<1>2. \A b \in E : onw[b] \in E
  BY <1>1
<1>3. Walk(step, a) = [i \in 1 .. Steps(g) |-> g[i - 1]]
  BY DEF Walk, Recursive, Steps
<1>4. a \in E
  OBVIOUS
<1> HIDE DEF onw, E
<1>5. \E h : Recursive(onw, a, h)
  BY <1>2, <1>4, RecursionExists
<1>6. Recursive(onw, a, g)
  BY <1>5
<1> HIDE DEF g
<1>7. Iterates(E, onw, a, g)
  BY <1>2, <1>4, <1>6, Recursion
<1>8. g \in [Nat -> E] /\ g[0] = a /\ \A n \in Nat : g[n + 1] = onw[g[n]]
  BY <1>7 DEF Iterates
<1>9. Walks(step, a, g)
  BY <1>1, <1>8 DEF Walks
<1> QED BY <1>3, <1>8, <1>9 DEF E, WalkIn

\* The steps before the null pointer count.
LEMMA WalkLength ==
  ASSUME NEW step, NEW a, NEW f, Walks(step, a, f),
         NEW stop \in 0 .. Size + 1, stop = Size + 1 \/ f[stop] = Null,
         \A m \in Nat : m < stop => f[m] # Null
  PROVE  Steps(f) = stop
<1> DEFINE T == {n \in Nat : n < stop \/ f[n] = Null}
<1>0. Size \in Nat /\ stop \in Nat /\ stop <= Size + 1
  BY RingNumbers
<1>1. \A n \in 0 .. Size : f[n] # Null <=> n < stop
  <2>1. CASE stop = Size + 1
    BY <1>0, <2>1
  <2>2. CASE stop # Size + 1
    <3>1. 0 \in T
      BY <1>0, <2>2
    <3>2. \A n \in Nat : n \in T => n + 1 \in T
      BY <1>0, <2>2 DEF Walks
    <3> HIDE DEF T
    <3>3. Nat \subseteq T
      BY <3>1, <3>2, Numbered
    <3> QED BY <3>3 DEF T
  <2> QED BY <2>1, <2>2
<1>2. {n \in 0 .. Size : f[n] # Null} = 0 .. stop - 1
  BY <1>0, <1>1
<1>3. Cardinality(0 .. stop - 1) = IF 0 > stop - 1 THEN 0 ELSE (stop - 1) - 0 + 1
  BY <1>0, FS_Interval
<1>4. Steps(f) = Cardinality(0 .. stop - 1)
  BY <1>2 DEF Steps
<1> QED BY <1>0, <1>3, <1>4

\* A walk through the places of a sequence.
LEMMA WalkIs ==
  ASSUME NEW q \in Seq(Places), Len(q) <= Size, NEW step,
         \A i \in 1 .. Len(q) - 1 : step[q[i]] = q[i + 1],
         Len(q) # 0 => step[q[Len(q)]] = Null
  PROVE  Walk(step, IF Len(q) = 0 THEN Null ELSE q[1]) = q
<1> DEFINE D == {q[i] : i \in 1 .. Len(q)}
           a == IF Len(q) = 0 THEN Null ELSE q[1]
<1>0. Size \in Nat /\ Len(q) \in Nat /\ \A i \in 1 .. Len(q) : q[i] \in Places /\ q[i] # Null
  BY RingNumbers, PlaceNumbers
<1>1. D \subseteq Places
  BY <1>0
<1>2. \A b \in D : step[b] \in D \cup {Null}
  <2> SUFFICES ASSUME NEW i \in 1 .. Len(q) PROVE step[q[i]] \in D \cup {Null}
    OBVIOUS
  <2>1. CASE i = Len(q)
    BY <2>1, <1>0
  <2>2. CASE i # Len(q)
    <3>1. i \in 1 .. Len(q) - 1 /\ i + 1 \in 1 .. Len(q)
      BY <2>2, <1>0
    <3> QED BY <3>1
  <2> QED BY <2>1, <2>2
<1>3. a \in D \cup {Null}
  BY <1>0
<1> HIDE DEF D, a
<1>4. PICK f : WalkIn(D, step, a, f)
  BY <1>1, <1>2, <1>3, WalkingOn
<1>5. /\ f \in [Nat -> D \cup {Null}] /\ Walks(step, a, f)
      /\ Walk(step, a) = [i \in 1 .. Steps(f) |-> f[i - 1]]
  BY <1>4 DEF WalkIn
<1>6. \A n \in Nat : n < Len(q) => f[n] = q[n + 1]
  <2> DEFINE T == {n \in Nat : n < Len(q) => f[n] = q[n + 1]}
  <2>1. 0 \in T
    BY <1>0, <1>5 DEF Walks, a
  <2>2. ASSUME NEW n \in Nat, n \in T PROVE n + 1 \in T
    <3> SUFFICES ASSUME n + 1 < Len(q) PROVE f[n + 1] = q[(n + 1) + 1]
      OBVIOUS
    <3>1. n + 1 \in 1 .. Len(q) - 1 /\ n + 1 \in 1 .. Len(q) /\ n < Len(q)
      BY <1>0
    <3>2. f[n] = q[n + 1] /\ q[n + 1] # Null
      BY <1>0, <2>2, <3>1
    <3>3. f[n + 1] = step[q[n + 1]]
      BY <1>5, <3>2 DEF Walks
    <3> QED BY <3>1, <3>3
  <2> HIDE DEF T
  <2>3. Nat \subseteq T
    BY <2>1, <2>2, Numbered
  <2> QED BY <2>3 DEF T
<1>7. f[Len(q)] = Null
  <2>1. CASE Len(q) = 0
    BY <1>5, <2>1 DEF Walks, a
  <2>2. CASE Len(q) # 0
    <3>1. Len(q) - 1 \in Nat /\ (Len(q) - 1) + 1 = Len(q) /\ Len(q) \in 1 .. Len(q)
      BY <1>0, <2>2
    <3>2. f[Len(q) - 1] = q[Len(q)] /\ q[Len(q)] # Null
      BY <1>0, <1>6, <3>1
    <3>3. f[Len(q)] = step[q[Len(q)]]
      BY <1>5, <3>1, <3>2 DEF Walks
    <3> QED BY <2>2, <3>3
  <2> QED BY <2>1, <2>2
<1>8. Steps(f) = Len(q)
  <2>1. \A m \in Nat : m < Len(q) => f[m] # Null
    BY <1>0, <1>6
  <2>2. Len(q) \in 0 .. Size + 1
    BY <1>0
  <2> QED BY <1>5, <1>7, <2>1, <2>2, WalkLength
<1>9. [i \in 1 .. Len(q) |-> f[i - 1]] = [i \in 1 .. Len(q) |-> q[i]]
  <2>1. \A i \in 1 .. Len(q) : i - 1 \in Nat /\ i - 1 < Len(q) /\ (i - 1) + 1 = i
    BY <1>0
  <2> QED BY <1>6, <2>1
<1>10. q = [i \in 1 .. Len(q) |-> q[i]]
  OBVIOUS
<1> QED BY <1>5, <1>8, <1>9, <1>10 DEF a

-----------------------------------------------------------------------------
(* The tiling of the memory.                                               *)

\* What is in the fields of a ring.
LEMMA RingFields ==
  ASSUME NEW r \in Rings
  PROVE  /\ r.last \in Places /\ r.produce \in Places /\ r.consume \in Places
         /\ r.prev \in [Places -> Places \cup {Null}]
         /\ r.next \in [Places -> Places \cup {Null}]
         /\ r.free \in [Places -> BOOLEAN] /\ r.size \in [Places -> 0 .. Size]
         /\ \A a \in Places :
              /\ r.prev[a] \in Places \cup {Null} /\ r.next[a] \in Places \cup {Null}
              /\ r.free[a] \in BOOLEAN
              /\ r.size[a] \in Nat /\ r.size[a] <= Size
  BY RingNumbers DEF Rings

\* Where a block begins and ends.
LEMMA Block ==
  ASSUME NEW r, Tiling(r), NEW a \in Heads(r)
  PROVE  /\ a \in Places /\ a \in Nat /\ a # Null /\ 0 <= a /\ a < Size
         /\ r.size[a] \in Nat /\ r.size[a] > 0
         /\ End(r, a) = a + r.size[a] /\ End(r, a) <= Size /\ End(r, a) > a
         /\ r.free[a] \in BOOLEAN
<1>1. a \in Places /\ r.size[a] # 0 /\ r \in Rings
  BY DEF Heads, Tiling
<1>2. a \in Nat /\ a # Null /\ a < Size /\ Size \in Nat
  BY <1>1, PlaceNumbers, RingNumbers
<1>3. r.size[a] \in Nat /\ r.free[a] \in BOOLEAN
  BY <1>1, RingFields
<1>4. End(r, a) = a + r.size[a]
  BY DEF End
<1>5. End(r, a) <= Size
  <2>1. CASE a = r.last
    BY <2>1, <1>2 DEF Tiling
  <2>2. CASE a # r.last
    <3>1. r.next[a] = End(r, a) /\ r.next[a] \in Heads(r)
      BY <2>2 DEF Tiling
    <3>2. r.next[a] \in Places
      BY <3>1 DEF Heads
    <3>3. r.next[a] < Size /\ r.next[a] \in Nat
      BY <3>2, PlaceNumbers
    <3>4. r.next[a] <= Size
      BY <3>3, <1>2
    <3> QED BY <3>1, <3>4
  <2> QED BY <2>1, <2>2
<1> QED BY <1>1, <1>2, <1>3, <1>4, <1>5

\* The block behind a block.
LEMMA BlockNext ==
  ASSUME NEW r, Tiling(r), NEW a \in Heads(r)
  PROVE  /\ r.next[a] = Null <=> a = r.last
         /\ a = r.last => r.next[a] = Null /\ End(r, a) = Size
         /\ a # r.last => /\ r.next[a] = End(r, a) /\ r.next[a] \in Heads(r)
                          /\ r.prev[r.next[a]] = a /\ r.next[a] > a /\ r.next[a] # Null
<1>1. CASE a = r.last
  BY <1>1 DEF Tiling
<1>2. CASE a # r.last
  <2>1. r.next[a] = End(r, a) /\ r.next[a] \in Heads(r) /\ r.prev[r.next[a]] = a
    BY <1>2 DEF Tiling
  <2>2. r.next[a] # Null
    BY <2>1, Block
  <2>3. r.next[a] > a
    BY <2>1, Block
  <2> QED BY <1>2, <2>1, <2>2, <2>3
<1> QED BY <1>1, <1>2

\* The block before a block.
LEMMA BlockPrev ==
  ASSUME NEW r, Tiling(r), NEW a \in Heads(r)
  PROVE  /\ r.prev[a] = Null <=> a = First
         /\ a # First => /\ r.prev[a] \in Heads(r) /\ r.next[r.prev[a]] = a
                         /\ r.prev[a] # r.last /\ End(r, r.prev[a]) = a /\ r.prev[a] < a
<1>1. CASE a = First
  BY <1>1 DEF Tiling
<1>2. CASE a # First
  <2>1. r.prev[a] \in Heads(r) /\ r.next[r.prev[a]] = a
    BY <1>2 DEF Tiling
  <2>2. r.prev[a] # Null /\ a # Null
    BY <2>1, Block
  <2>3. r.prev[a] # r.last
    BY <2>1, <2>2 DEF Tiling
  <2>4. End(r, r.prev[a]) = a
    BY <2>1, <2>3, BlockNext
  <2>5. End(r, r.prev[a]) > r.prev[a]
    BY <2>1, Block
  <2> QED BY <1>2, <2>1, <2>2, <2>3, <2>4, <2>5
<1> QED BY <1>1, <1>2

\* Round the memory, the links lead to the next block and back.
LEMMA Round ==
  ASSUME NEW r, Tiling(r), NEW a \in Heads(r)
  PROVE  /\ NextBlock(r, a) \in Heads(r) /\ PrevBlock(r, NextBlock(r, a)) = a
         /\ PrevBlock(r, a) \in Heads(r) /\ NextBlock(r, PrevBlock(r, a)) = a
         /\ NextBlock(r, a) = IF a = r.last THEN First ELSE r.next[a]
         /\ PrevBlock(r, a) = IF a = First THEN r.last ELSE r.prev[a]
<1>1. First \in Heads(r) /\ r.last \in Heads(r)
  BY DEF Tiling
<1>2. /\ NextBlock(r, a) = IF a = r.last THEN First ELSE r.next[a]
      /\ NextBlock(r, a) \in Heads(r)
  BY <1>1, BlockNext DEF NextBlock
<1>3. PrevBlock(r, NextBlock(r, a)) = a
  <2>1. CASE a = r.last
    BY <1>1, <1>2, <2>1, BlockPrev DEF PrevBlock
  <2>2. CASE a # r.last
    <3>1. r.prev[r.next[a]] = a /\ a # Null
      BY <2>2, BlockNext, Block
    <3> QED BY <1>2, <2>2, <3>1 DEF PrevBlock
  <2> QED BY <2>1, <2>2
<1>4. /\ PrevBlock(r, a) = IF a = First THEN r.last ELSE r.prev[a]
      /\ PrevBlock(r, a) \in Heads(r)
  <2>1. a # First => r.prev[a] # Null
    BY BlockPrev
  <2>2. a = First => r.prev[a] = Null
    BY BlockPrev
  <2>3. a # First => r.prev[a] \in Heads(r)
    BY BlockPrev
  <2> QED BY <1>1, <2>1, <2>2, <2>3 DEF PrevBlock
<1>5. NextBlock(r, PrevBlock(r, a)) = a
  <2>1. CASE a = First
    <3>1. r.next[r.last] = Null
      BY DEF Tiling
    <3> QED BY <1>4, <2>1, <3>1 DEF NextBlock
  <2>2. CASE a # First
    <3>1. r.next[r.prev[a]] = a /\ a # Null
      BY <2>2, BlockPrev, Block
    <3> QED BY <1>4, <2>2, <3>1 DEF NextBlock
  <2> QED BY <2>1, <2>2
<1> QED BY <1>2, <1>3, <1>4, <1>5

-----------------------------------------------------------------------------
(* Merging and splitting blocks.                                           *)

\* What MergeBack does when it merges, field by field.
MergeEffect(r, a, s) ==
  /\ s \in Rings
  /\ \A x \in Places : s.size[x] = IF x = a THEN 0
                                   ELSE IF x = r.prev[a] THEN r.size[x] + r.size[a]
                                   ELSE r.size[x]
  /\ \A x \in Places : s.next[x] = IF x = a THEN Null
                                   ELSE IF x = r.prev[a] THEN r.next[a] ELSE r.next[x]
  /\ \A x \in Places : s.prev[x] = IF x = a THEN Null
                                   ELSE IF x = r.next[a] THEN r.prev[a] ELSE r.prev[x]
  /\ \A x \in Places : s.free[x] = IF x = a THEN FALSE ELSE r.free[x]
  /\ s.last = IF r.next[a] = Null THEN r.prev[a] ELSE r.last
  /\ s.produce = IF r.produce = a THEN r.prev[a] ELSE r.produce
  /\ s.consume = IF r.consume = a THEN r.prev[a] ELSE r.consume

LEMMA MergeFields ==
  ASSUME NEW r, Tiling(r), NEW a \in Heads(r), Mergeable(r, a)
  PROVE  MergeEffect(r, a, MergeBack(r, a))
<1> DEFINE p == r.prev[a]
           n == r.next[a]
           size == [r.size EXCEPT ![p] = @ + r.size[a], ![a] = 0]
           links == [r.next EXCEPT ![p] = n, ![a] = Null]
           prev == IF n # Null THEN [r.prev EXCEPT ![a] = Null, ![n] = p]
                   ELSE [r.prev EXCEPT ![a] = Null]
           free == [r.free EXCEPT ![a] = FALSE]
           last == IF n = Null THEN p ELSE r.last
           produce == IF r.produce = a THEN p ELSE r.produce
           consume == IF r.consume = a THEN p ELSE r.consume
           s == MergeBack(r, a)
<1>1. r \in Rings /\ a \in Places /\ a # First
  BY BlockPrev, Block DEF Tiling, Mergeable
<1>2. p \in Heads(r) /\ p \in Places /\ p # a /\ p < a /\ End(r, p) = a
  BY <1>1, BlockPrev, Block
<1>3. n = Null \/ (n \in Places /\ n # a)
  BY <1>1, BlockNext, Block
<1>4. /\ r.prev \in [Places -> Places \cup {Null}]
      /\ r.next \in [Places -> Places \cup {Null}]
      /\ r.free \in [Places -> BOOLEAN] /\ r.size \in [Places -> 0 .. Size]
      /\ r.last \in Places /\ r.produce \in Places /\ r.consume \in Places
  BY <1>1, RingFields
<1>5. r.size[p] + r.size[a] \in 0 .. Size
  BY <1>2, Block, RingNumbers
<1>6. size \in [Places -> 0 .. Size]
  BY <1>1, <1>2, <1>4, <1>5, RingNumbers
<1>7. links \in [Places -> Places \cup {Null}]
  BY <1>1, <1>2, <1>3, <1>4
<1>8. prev \in [Places -> Places \cup {Null}]
  BY <1>1, <1>2, <1>3, <1>4
<1>9. free \in [Places -> BOOLEAN] /\ last \in Places /\ produce \in Places /\ consume \in Places
  BY <1>2, <1>4
<1>10. /\ s.size = size /\ s.next = links /\ s.prev = prev
       /\ s.free = free /\ s.last = last /\ s.produce = produce /\ s.consume = consume
  <2>1. s.size = size
    BY <1>1 DEF MergeBack, Rings
  <2>2. s.next = links
    BY <1>1 DEF MergeBack, Rings
  <2>3. s.prev = prev
    BY <1>1 DEF MergeBack, Rings
  <2>4. s.free = free
    BY <1>1 DEF MergeBack, Rings
  <2>5. s.last = last /\ s.produce = produce /\ s.consume = consume
    BY <1>1 DEF MergeBack, Rings
  <2> QED BY <2>1, <2>3, <2>4, <2>5, <2>2
<1>11. s = [prev |-> s.prev, next |-> s.next, free |-> s.free, size |-> s.size,
            last |-> s.last, produce |-> s.produce, consume |-> s.consume]
  BY <1>1 DEF MergeBack, Rings
<1>12. \A x \in Places : /\ size[x] = IF x = a THEN 0 ELSE IF x = p THEN r.size[x] + r.size[a]
                                      ELSE r.size[x]
                         /\ links[x] = IF x = a THEN Null ELSE IF x = p THEN n ELSE r.next[x]
                         /\ free[x] = IF x = a THEN FALSE ELSE r.free[x]
  BY <1>1, <1>2, <1>4
<1>13. \A x \in Places : prev[x] = IF x = a THEN Null ELSE IF x = n THEN p ELSE r.prev[x]
  BY <1>1, <1>2, <1>3, <1>4, PlaceNumbers
<1> HIDE DEF size, links, prev, free, last, produce, consume, s
<1>14. s \in Rings
  BY <1>6, <1>7, <1>8, <1>9, <1>10, <1>11 DEF Rings
<1>15. last = (IF n = Null THEN p ELSE r.last)
       /\ produce = (IF r.produce = a THEN p ELSE r.produce)
       /\ consume = (IF r.consume = a THEN p ELSE r.consume)
  BY DEF last, produce, consume
<1>16. MergeEffect(r, a, s)
  BY <1>10, <1>12, <1>13, <1>14, <1>15 DEF MergeEffect
<1> QED BY <1>16 DEF s

\* A merge leaves a tiling with one block less.
LEMMA MergeTiles ==
  ASSUME NEW r, Tiling(r), NEW a \in Heads(r), a # First, NEW s, MergeEffect(r, a, s)
  PROVE  /\ Tiling(s) /\ Heads(s) = Heads(r) \ {a} /\ r.prev[a] \in Heads(s)
         /\ \A x \in Heads(s) : NextBlock(s, x) = IF x = r.prev[a] THEN NextBlock(r, a)
                                                  ELSE NextBlock(r, x)
<1> DEFINE p == r.prev[a]
           n == r.next[a]
<1>1. p \in Heads(r) /\ r.next[p] = a /\ p # r.last /\ End(r, p) = a /\ p < a /\ p # a
  BY BlockPrev, Block
<1>2. a \in Places /\ p \in Places /\ r.size[p] \in Nat /\ r.size[a] \in Nat
      /\ r.size[p] > 0 /\ r.size[a] > 0 /\ a \in Nat /\ p \in Nat
  BY <1>1, Block
<1>3. Heads(s) = Heads(r) \ {a}
  <2>1. \A x \in Places : s.size[x] # 0 <=> r.size[x] # 0 /\ x # a
    BY <1>1, <1>2 DEF MergeEffect, Heads
  <2> QED BY <2>1 DEF Heads
<1>4. \A x \in Heads(s) : End(s, x) = IF x = p THEN End(r, a) ELSE End(r, x)
  <2>1. \A x \in Heads(s) : x \in Places /\ x # a
    BY <1>3 DEF Heads
  <2>2. s.size[p] = r.size[p] + r.size[a]
    BY <1>1, <1>2 DEF MergeEffect
  <2>3. \A x \in Heads(s) : x # p => s.size[x] = r.size[x]
    BY <2>1 DEF MergeEffect
  <2>4. p + r.size[p] = a
    BY <1>1 DEF End
  <2>5. p + s.size[p] = a + r.size[a]
    BY <1>2, <2>2, <2>4
  <2> QED BY <2>3, <2>5 DEF End
<1>5. First \in Heads(s) /\ s.prev[First] = Null
  <2>1. First \in Heads(r) /\ r.prev[First] = Null /\ First \in Places
    BY DEF Tiling, Heads
  <2>2. n # First
    BY BlockNext, Block, PlaceNumbers
  <2> QED BY <1>3, <2>1, <2>2 DEF MergeEffect
<1>6. s.last \in Heads(s) /\ s.next[s.last] = Null /\ End(s, s.last) = Size
  <2>1. CASE a = r.last
    <3>1. n = Null /\ End(r, a) = Size
      BY <2>1, BlockNext
    <3>2. s.last = p /\ s.next[p] = Null
      BY <1>1, <1>2, <3>1 DEF MergeEffect
    <3> QED BY <1>1, <1>3, <1>4, <3>1, <3>2
  <2>2. CASE a # r.last
    <3>1. n # Null /\ r.last \in Heads(r) /\ r.next[r.last] = Null /\ End(r, r.last) = Size
      BY <2>2, BlockNext DEF Tiling
    <3>2. s.last = r.last /\ r.last \in Heads(s) /\ r.last # p /\ r.last \in Places
      BY <1>1, <1>3, <2>2, <3>1 DEF MergeEffect, Heads
    <3>3. s.next[r.last] = Null
      BY <2>2, <3>1, <3>2 DEF MergeEffect
    <3> QED BY <1>4, <3>1, <3>2, <3>3
  <2> QED BY <2>1, <2>2
<1>7. ASSUME NEW x \in Heads(s), x # s.last
      PROVE  s.next[x] = End(s, x) /\ s.next[x] \in Heads(s) /\ s.prev[s.next[x]] = x
  <2>1. x \in Heads(r) /\ x # a /\ x \in Places
    BY <1>3 DEF Heads
  <2>2. CASE x = p
    <3>1. a # r.last
      BY <1>7, <2>2, BlockNext DEF MergeEffect
    <3>2. n = End(r, a) /\ n \in Heads(r) /\ n > a /\ n # Null /\ n \in Places
      BY <3>1, BlockNext, Block
    <3>3. n # a
      BY <1>2, <3>2
    <3>4. s.next[p] = n /\ s.prev[n] = p
      BY <1>1, <1>2, <3>2, <3>3 DEF MergeEffect
    <3> QED BY <1>3, <1>4, <2>2, <3>2, <3>3, <3>4
  <2>3. CASE x # p
    <3>1. x # r.last
      BY <1>7, <2>1, BlockNext DEF MergeEffect
    <3>2. r.next[x] = End(r, x) /\ r.next[x] \in Heads(r) /\ r.prev[r.next[x]] = x
          /\ r.next[x] \in Places
      BY <2>1, <3>1, BlockNext, Block
    <3>3. r.next[x] # a /\ r.next[x] # n
      <4>1. r.next[x] # a
        BY <2>3, <3>2
      <4>2. r.next[x] # n
        <5>1. CASE a = r.last
          BY <3>2, <5>1, BlockNext, Block
        <5>2. CASE a # r.last
          BY <2>1, <3>2, <5>2, BlockNext
        <5> QED BY <5>1, <5>2
      <4> QED BY <4>1, <4>2
    <3>4. s.next[x] = r.next[x] /\ s.prev[r.next[x]] = x
      BY <2>1, <2>3, <3>2, <3>3 DEF MergeEffect
    <3> QED BY <1>3, <1>4, <2>3, <3>2, <3>3, <3>4
  <2> QED BY <2>2, <2>3
<1>8. ASSUME NEW x \in Heads(s), x # First
      PROVE  s.prev[x] \in Heads(s) /\ s.next[s.prev[x]] = x
  <2>1. x \in Heads(r) /\ x # a /\ x \in Places
    BY <1>3 DEF Heads
  <2>2. CASE x = n
    <3>1. s.prev[x] = p /\ s.next[p] = n
      BY <1>1, <1>2, <2>1, <2>2 DEF MergeEffect
    <3> QED BY <1>1, <1>3, <2>2, <3>1
  <2>3. CASE x # n
    <3>1. r.prev[x] \in Heads(r) /\ r.next[r.prev[x]] = x /\ r.prev[x] \in Places
      BY <1>8, <2>1, BlockPrev, Block
    <3>2. r.prev[x] # a /\ r.prev[x] # p
      BY <1>1, <2>1, <2>3, <3>1
    <3>3. s.prev[x] = r.prev[x] /\ s.next[r.prev[x]] = x
      BY <2>1, <2>3, <3>1, <3>2 DEF MergeEffect
    <3> QED BY <1>3, <3>1, <3>2, <3>3
  <2> QED BY <2>2, <2>3
<1>9. ASSUME NEW x \in Heads(s), NEW y \in Heads(s), x < y
      PROVE  End(s, x) <= y
  <2>1. x \in Heads(r) /\ x # a /\ y \in Heads(r) /\ y # a /\ x \in Nat /\ y \in Nat
    BY <1>3, Block
  <2>2. CASE x = p
    <3>1. a <= y
      BY <1>1, <1>9, <2>1, <2>2 DEF Tiling
    <3>2. a < y
      BY <1>2, <2>1, <3>1
    <3>3. End(r, a) <= y
      BY <2>1, <3>2 DEF Tiling
    <3> QED BY <1>4, <2>2, <3>3
  <2>3. CASE x # p
    BY <1>4, <1>9, <2>1, <2>3 DEF Tiling
  <2> QED BY <2>2, <2>3
<1>10. ASSUME NEW x \in Places, x \notin Heads(s)
       PROVE  s.next[x] = Null /\ s.prev[x] = Null /\ ~s.free[x]
  <2>1. CASE x = a
    BY <1>2, <2>1 DEF MergeEffect
  <2>2. CASE x # a
    <3>1. x \notin Heads(r) /\ x # p
      BY <1>1, <1>3, <1>10, <2>2
    <3>2. r.next[x] = Null /\ r.prev[x] = Null /\ ~r.free[x]
      BY <3>1 DEF Tiling
    <3>3. x # n
      <4>1. CASE a = r.last
        BY <4>1, BlockNext, PlaceNumbers
      <4>2. CASE a # r.last
        BY <3>1, <4>2, BlockNext
      <4> QED BY <4>1, <4>2
    <3> QED BY <2>2, <3>1, <3>2, <3>3 DEF MergeEffect
  <2> QED BY <2>1, <2>2
<1>11. s \in Rings
  BY DEF MergeEffect
<1>12. Tiling(s)
  BY <1>5, <1>6, <1>7, <1>8, <1>9, <1>10, <1>11 DEF Tiling
<1>13. ASSUME NEW x \in Heads(s)
       PROVE  NextBlock(s, x) = IF x = p THEN NextBlock(r, a) ELSE NextBlock(r, x)
  <2>1. x # a /\ x \in Places
    BY <1>3 DEF Heads
  <2>2. s.next[x] = IF x = p THEN r.next[a] ELSE r.next[x]
    BY <2>1 DEF MergeEffect
  <2> QED BY <2>2 DEF NextBlock
<1> QED BY <1>1, <1>3, <1>12, <1>13

\* What Split does when it cuts block a, field by field.
SplitEffect(r, a, size, s) ==
  /\ s \in Rings
  /\ \A x \in Places : s.size[x] = IF x = a THEN size
                                   ELSE IF x = a + size THEN r.size[a] - size
                                   ELSE r.size[x]
  /\ \A x \in Places : s.next[x] = IF x = a THEN a + size
                                   ELSE IF x = a + size THEN r.next[a] ELSE r.next[x]
  /\ \A x \in Places : s.prev[x] = IF x = a + size THEN a
                                   ELSE IF x = r.next[a] THEN a + size ELSE r.prev[x]
  /\ \A x \in Places : s.free[x] = IF x = a + size THEN TRUE ELSE r.free[x]
  /\ s.last = IF r.next[a] = Null THEN a + size ELSE r.last
  /\ s.produce = r.produce /\ s.consume = r.consume

LEMMA SplitFields ==
  ASSUME NEW r, Tiling(r), NEW a \in Heads(r), NEW size \in Nat \ {0}, r.size[a] > size + 1
  PROVE  /\ a + size \in Places /\ a + size \notin Heads(r)
         /\ SplitEffect(r, a, size, Split(r, a, size))
<1> DEFINE new == a + size
           n == r.next[a]
           sizes == [r.size EXCEPT ![new] = r.size[a] - size, ![a] = size]
           links == [r.next EXCEPT ![new] = n, ![a] = new]
           prev == IF n # Null THEN [r.prev EXCEPT ![new] = a, ![n] = new]
                   ELSE [r.prev EXCEPT ![new] = a]
           free == [r.free EXCEPT ![new] = TRUE]
           last == IF n = Null THEN new ELSE r.last
           s == Split(r, a, size)
<1>1. r \in Rings /\ a \in Places /\ a \in Nat /\ r.size[a] \in Nat /\ Size \in Nat
      /\ a + r.size[a] <= Size /\ End(r, a) = a + r.size[a]
  BY Block, RingNumbers DEF Tiling
<1>2. new \in Places /\ new \in Nat /\ new # a /\ a < new /\ new < End(r, a)
  BY <1>1, PlaceNumbers
<1>3. new \notin Heads(r)
  <2> SUFFICES ASSUME new \in Heads(r) PROVE FALSE
    OBVIOUS
  <2>1. End(r, a) <= new
    BY <1>2 DEF Tiling
  <2> QED BY <1>1, <1>2, <2>1
<1>4. n = Null \/ (n \in Places /\ n # a /\ n # new)
  BY <1>1, <1>3, BlockNext, Block
<1>5. /\ r.prev \in [Places -> Places \cup {Null}]
      /\ r.next \in [Places -> Places \cup {Null}]
      /\ r.free \in [Places -> BOOLEAN] /\ r.size \in [Places -> 0 .. Size]
      /\ r.last \in Places /\ r.produce \in Places /\ r.consume \in Places
  BY <1>1, RingFields
<1>6. sizes \in [Places -> 0 .. Size]
  <2>1. size \in 0 .. Size /\ r.size[a] - size \in 0 .. Size
    BY <1>1
  <2> QED BY <1>1, <1>2, <1>5, <2>1
<1>7. links \in [Places -> Places \cup {Null}]
  BY <1>1, <1>2, <1>4, <1>5
<1>8. prev \in [Places -> Places \cup {Null}]
  BY <1>1, <1>2, <1>4, <1>5
<1>9. free \in [Places -> BOOLEAN] /\ last \in Places
  BY <1>2, <1>5
<1>0. ~(r.size[a] <= size + 1)
  BY <1>1
<1>10. /\ s.size = sizes /\ s.next = links /\ s.prev = prev
       /\ s.free = free /\ s.last = last /\ s.produce = r.produce /\ s.consume = r.consume
  <2>1. s.size = sizes
    BY <1>0, <1>1 DEF Split, Rings
  <2>2. s.next = links
    BY <1>0, <1>1 DEF Split, Rings
  <2>3. s.prev = prev
    BY <1>0, <1>1 DEF Split, Rings
  <2>4. s.free = free
    BY <1>0, <1>1 DEF Split, Rings
  <2>5. s.last = last /\ s.produce = r.produce /\ s.consume = r.consume
    BY <1>0, <1>1 DEF Split, Rings
  <2> QED BY <2>1, <2>2, <2>3, <2>4, <2>5
<1>11. s = [prev |-> s.prev, next |-> s.next, free |-> s.free, size |-> s.size,
            last |-> s.last, produce |-> s.produce, consume |-> s.consume]
  BY <1>0, <1>1 DEF Split, Rings
<1>12. \A x \in Places :
         /\ sizes[x] = IF x = a THEN size ELSE IF x = new THEN r.size[a] - size ELSE r.size[x]
         /\ links[x] = IF x = a THEN new ELSE IF x = new THEN n ELSE r.next[x]
         /\ free[x] = IF x = new THEN TRUE ELSE r.free[x]
  BY <1>1, <1>2, <1>5
<1>13. \A x \in Places : prev[x] = IF x = new THEN a ELSE IF x = n THEN new ELSE r.prev[x]
  BY <1>1, <1>2, <1>4, <1>5, PlaceNumbers
<1>14. last = (IF n = Null THEN new ELSE r.last)
  BY DEF last
<1> HIDE DEF sizes, links, prev, free, last, s
<1>15. s \in Rings
  BY <1>5, <1>6, <1>7, <1>8, <1>9, <1>10, <1>11 DEF Rings
<1>16. SplitEffect(r, a, size, s)
  BY <1>10, <1>12, <1>13, <1>14, <1>15 DEF SplitEffect
<1> QED BY <1>2, <1>3, <1>16 DEF s

\* A cut leaves a tiling with one block more.
LEMMA SplitTiles ==
  ASSUME NEW r, Tiling(r), NEW a \in Heads(r), NEW size \in Nat \ {0}, r.size[a] > size,
         NEW s, SplitEffect(r, a, size, s)
  PROVE  /\ Tiling(s) /\ Heads(s) = Heads(r) \cup {a + size}
         /\ a + size \in Places /\ a + size \notin Heads(r)
         /\ \A x \in Heads(s) : NextBlock(s, x) = IF x = a THEN a + size
                                                  ELSE IF x = a + size THEN NextBlock(r, a)
                                                  ELSE NextBlock(r, x)
<1> DEFINE new == a + size
           n == r.next[a]
<1>1. a \in Places /\ a \in Nat /\ r.size[a] \in Nat /\ Size \in Nat
      /\ a + r.size[a] <= Size /\ End(r, a) = a + r.size[a]
  BY Block, RingNumbers DEF Tiling
<1>2. new \in Places /\ new \in Nat /\ new # a /\ a < new /\ new < End(r, a) /\ new # Null
  BY <1>1, PlaceNumbers
<1>3. new \notin Heads(r) /\ new # First
  <2>1. First \in Heads(r)
    BY DEF Tiling
  <2> SUFFICES ASSUME new \in Heads(r) PROVE FALSE
    BY <2>1
  <2>2. End(r, a) <= new
    BY <1>2 DEF Tiling
  <2> QED BY <1>1, <1>2, <2>2
<1>4. Heads(s) = Heads(r) \cup {new}
  <2>1. \A x \in Places : s.size[x] # 0 <=> r.size[x] # 0 \/ x = new
    BY <1>1, <1>2 DEF SplitEffect, Heads
  <2> QED BY <1>2, <2>1 DEF Heads
<1>5. \A x \in Heads(s) : End(s, x) = IF x = a THEN new ELSE IF x = new THEN End(r, a)
                                      ELSE End(r, x)
  <2>1. \A x \in Heads(s) : x \in Places
    BY DEF Heads
  <2>2. s.size[a] = size /\ s.size[new] = r.size[a] - size
    BY <1>1, <1>2 DEF SplitEffect
  <2>3. \A x \in Heads(s) : x # a /\ x # new => s.size[x] = r.size[x]
    BY <2>1 DEF SplitEffect
  <2>4. new + s.size[new] = a + r.size[a]
    BY <1>1, <1>2, <2>2
  <2> QED BY <1>1, <2>2, <2>3, <2>4 DEF End
<1>6. First \in Heads(s) /\ s.prev[First] = Null
  <2>1. First \in Heads(r) /\ r.prev[First] = Null /\ First \in Places
    BY DEF Tiling, Heads
  <2>2. n # First
    BY BlockNext, Block, PlaceNumbers
  <2> QED BY <1>3, <1>4, <2>1, <2>2 DEF SplitEffect
<1>7. s.last \in Heads(s) /\ s.next[s.last] = Null /\ End(s, s.last) = Size
  <2>1. CASE a = r.last
    <3>1. n = Null /\ End(r, a) = Size
      BY <2>1, BlockNext
    <3>2. s.last = new /\ s.next[new] = Null
      BY <1>2, <3>1 DEF SplitEffect
    <3> QED BY <1>2, <1>4, <1>5, <3>1, <3>2
  <2>2. CASE a # r.last
    <3>1. n # Null /\ r.last \in Heads(r) /\ r.next[r.last] = Null /\ End(r, r.last) = Size
      BY <2>2, BlockNext DEF Tiling
    <3>2. s.last = r.last /\ r.last \in Heads(s) /\ r.last # new /\ r.last \in Places
      BY <1>3, <1>4, <3>1 DEF SplitEffect, Heads
    <3>3. s.next[r.last] = Null
      BY <2>2, <3>1, <3>2 DEF SplitEffect
    <3> QED BY <1>5, <2>2, <3>1, <3>2, <3>3
  <2> QED BY <2>1, <2>2
<1>8. ASSUME NEW x \in Heads(s), x # s.last
      PROVE  s.next[x] = End(s, x) /\ s.next[x] \in Heads(s) /\ s.prev[s.next[x]] = x
  <2>1. CASE x = a
    <3>1. s.next[a] = new /\ s.prev[new] = a
      BY <1>1, <1>2 DEF SplitEffect
    <3> QED BY <1>4, <1>5, <1>8, <2>1, <3>1
  <2>2. CASE x = new
    <3>1. a # r.last
      BY <1>8, <2>2, BlockNext DEF SplitEffect
    <3>2. n = End(r, a) /\ n \in Heads(r) /\ n # Null /\ n \in Places
      BY <3>1, BlockNext, Block
    <3>3. n # new
      BY <1>3, <3>2
    <3>4. s.next[new] = n /\ s.prev[n] = new
      BY <1>2, <3>2, <3>3 DEF SplitEffect
    <3> QED BY <1>2, <1>4, <1>5, <1>8, <2>2, <3>2, <3>4
  <2>3. CASE x # a /\ x # new
    <3>0. x \in Heads(r) /\ x \in Places
      BY <1>4, <2>3 DEF Heads
    <3>1. x # r.last
      BY <1>8, <2>3, <3>0, BlockNext DEF SplitEffect
    <3>2. r.next[x] = End(r, x) /\ r.next[x] \in Heads(r) /\ r.prev[r.next[x]] = x
          /\ r.next[x] \in Places
      BY <3>0, <3>1, BlockNext, Block
    <3>3. r.next[x] # new
      BY <1>3, <3>2
    <3>4. r.next[x] # n
      <4>1. CASE a = r.last
        BY <3>2, <4>1, BlockNext, Block
      <4>2. CASE a # r.last
        BY <2>3, <3>2, <4>2, BlockNext
      <4> QED BY <4>1, <4>2
    <3>5. s.next[x] = r.next[x] /\ s.prev[r.next[x]] = x
      BY <2>3, <3>0, <3>2, <3>3, <3>4 DEF SplitEffect
    <3> QED BY <1>4, <1>5, <1>8, <2>3, <3>2, <3>5
  <2> QED BY <2>1, <2>2, <2>3
<1>9. ASSUME NEW x \in Heads(s), x # First
      PROVE  s.prev[x] \in Heads(s) /\ s.next[s.prev[x]] = x
  <2>1. CASE x = new
    <3>1. s.prev[new] = a /\ s.next[a] = new
      BY <1>1, <1>2 DEF SplitEffect
    <3> QED BY <1>4, <2>1, <3>1
  <2>2. CASE x # new /\ x = n
    <3>1. s.prev[x] = new /\ s.next[new] = n
      BY <1>2, <1>9, <2>2 DEF SplitEffect, Heads
    <3> QED BY <1>4, <2>2, <3>1
  <2>3. CASE x # new /\ x # n
    <3>0. x \in Heads(r) /\ x \in Places
      BY <1>4, <2>3 DEF Heads
    <3>1. r.prev[x] \in Heads(r) /\ r.next[r.prev[x]] = x /\ r.prev[x] \in Places
      BY <1>9, <3>0, BlockPrev, Block
    <3>2. r.prev[x] # a /\ r.prev[x] # new
      BY <1>3, <2>3, <3>1
    <3>3. s.prev[x] = r.prev[x] /\ s.next[r.prev[x]] = x
      BY <2>3, <3>0, <3>1, <3>2 DEF SplitEffect
    <3> QED BY <1>4, <3>1, <3>3
  <2> QED BY <2>1, <2>2, <2>3
<1>10. ASSUME NEW x \in Heads(s), NEW y \in Heads(s), x < y
       PROVE  End(s, x) <= y
  <2>0. x \in Nat /\ y \in Nat
    <3>1. x \in Places /\ y \in Places
      BY DEF Heads
    <3> QED BY <3>1, PlaceNumbers
  <2>1. CASE x = a
    <3>1. End(s, x) = new
      BY <1>5, <2>1
    <3>2. y \in Heads(r) => End(r, a) <= y
      BY <1>10, <2>1 DEF Tiling
    <3>3. y = new \/ (y \in Heads(r) /\ y >= new)
      BY <1>1, <1>2, <1>4, <2>0, <3>2
    <3> QED BY <1>2, <2>0, <3>1, <3>3
  <2>2. CASE x = new
    <3>1. y \in Heads(r) /\ a < y
      BY <1>2, <1>4, <1>10, <2>0, <2>2, <1>1
    <3>2. End(r, a) <= y
      BY <3>1 DEF Tiling
    <3> QED BY <1>2, <1>5, <2>2, <3>2
  <2>3. CASE x # a /\ x # new /\ y = new
    <3>1. x \in Heads(r)
      BY <1>4, <2>3
    <3>2. x < a
      <4> SUFFICES ASSUME a < x PROVE FALSE
        BY <1>1, <2>0, <2>3
      <4>1. End(r, a) <= x
        BY <3>1 DEF Tiling
      <4> QED BY <1>1, <1>2, <1>10, <2>0, <2>3, <4>1
    <3>3. End(r, x) <= a
      BY <3>1, <3>2 DEF Tiling
    <3>4. End(s, x) = End(r, x) /\ End(r, x) \in Int
      BY <1>5, <2>3, <3>1, Block
    <3> QED BY <1>1, <1>2, <2>3, <3>3, <3>4
  <2>4. CASE x # a /\ x # new /\ y # new
    <3>1. x \in Heads(r) /\ y \in Heads(r)
      BY <1>4, <2>4
    <3> QED BY <1>5, <1>10, <2>4, <3>1 DEF Tiling
  <2> QED BY <2>1, <2>2, <2>3, <2>4
<1>11. ASSUME NEW x \in Places, x \notin Heads(s)
       PROVE  s.next[x] = Null /\ s.prev[x] = Null /\ ~s.free[x]
  <2>1. x \notin Heads(r) /\ x # new /\ x # a
    BY <1>4, <1>11
  <2>2. r.next[x] = Null /\ r.prev[x] = Null /\ ~r.free[x]
    BY <2>1 DEF Tiling
  <2>3. x # n
    <3>1. CASE a = r.last
      BY <3>1, BlockNext, PlaceNumbers
    <3>2. CASE a # r.last
      BY <2>1, <3>2, BlockNext
    <3> QED BY <3>1, <3>2
  <2> QED BY <2>1, <2>2, <2>3 DEF SplitEffect
<1>12. s \in Rings
  BY DEF SplitEffect
<1>13. Tiling(s)
  BY <1>6, <1>7, <1>8, <1>9, <1>10, <1>11, <1>12 DEF Tiling
<1>14. ASSUME NEW x \in Heads(s)
       PROVE  NextBlock(s, x) = IF x = a THEN new ELSE IF x = new THEN NextBlock(r, a)
                                ELSE NextBlock(r, x)
  <2>1. x \in Places
    BY DEF Heads
  <2>2. s.next[x] = IF x = a THEN new ELSE IF x = new THEN r.next[a] ELSE r.next[x]
    BY <2>1 DEF SplitEffect
  <2> QED BY <1>2, <2>2 DEF NextBlock
<1> QED BY <1>2, <1>3, <1>4, <1>13, <1>14

\* The same blocks, with another mark on block c perhaps.
Marked(r, c, s) ==
  /\ s \in Rings
  /\ s.prev = r.prev /\ s.next = r.next /\ s.size = r.size /\ s.last = r.last
  /\ \A x \in Places : x # c => s.free[x] = r.free[x]

LEMMA MarkTiles ==
  ASSUME NEW r, Tiling(r), NEW c \in Heads(r), NEW s, Marked(r, c, s)
  PROVE  /\ Tiling(s) /\ Heads(s) = Heads(r)
         /\ \A x \in Heads(r) : NextBlock(s, x) = NextBlock(r, x)
                                /\ PrevBlock(s, x) = PrevBlock(r, x)
<1>1. Heads(s) = Heads(r) /\ \A x \in Places : End(s, x) = End(r, x)
  BY DEF Marked, Heads, End
<1>2. s \in Rings /\ s.prev = r.prev /\ s.next = r.next /\ s.size = r.size /\ s.last = r.last
  BY DEF Marked
<1>3. \A x \in Heads(r) : x \in Places
  BY DEF Heads
<1>4. \A x \in Places : x \notin Heads(s) => ~s.free[x]
  BY <1>1 DEF Marked, Tiling
<1>5. Tiling(s)
  <2>1. First \in Heads(s) /\ s.prev[First] = Null
    BY <1>1, <1>2 DEF Tiling
  <2>2. s.last \in Heads(s) /\ s.next[s.last] = Null /\ End(s, s.last) = Size
    BY <1>1, <1>2, <1>3 DEF Tiling
  <2>3. \A a \in Heads(s) : a # s.last =>
          s.next[a] = End(s, a) /\ s.next[a] \in Heads(s) /\ s.prev[s.next[a]] = a
    BY <1>1, <1>2, <1>3 DEF Tiling
  <2>4. \A a \in Heads(s) : a # First => s.prev[a] \in Heads(s) /\ s.next[s.prev[a]] = a
    BY <1>1, <1>2 DEF Tiling
  <2>5. \A a, b \in Heads(s) : a < b => End(s, a) <= b
    BY <1>1, <1>3 DEF Tiling
  <2>6. \A a \in Places : a \notin Heads(s) =>
          s.next[a] = Null /\ s.prev[a] = Null /\ ~s.free[a]
    BY <1>1, <1>2, <1>4 DEF Tiling
  <2> QED BY <1>2, <2>1, <2>2, <2>3, <2>4, <2>5, <2>6 DEF Tiling
<1>6. \A x \in Heads(r) : NextBlock(s, x) = NextBlock(r, x)
                          /\ PrevBlock(s, x) = PrevBlock(r, x)
  BY <1>2 DEF NextBlock, PrevBlock
<1> QED BY <1>1, <1>5, <1>6

\* Block c is free in s, and has been joined to the one before it, at, if that
\* was free too; otherwise it is at itself.
Dropped(r, c, at, s) ==
  /\ Tiling(s) /\ at \in Heads(s) /\ s.free[at]
  /\ \/ /\ at = c /\ Heads(s) = Heads(r)
        /\ c = First \/ ~r.free[PrevBlock(r, c)]
     \/ /\ at # c /\ c # First /\ at = PrevBlock(r, c) /\ r.free[at]
        /\ Heads(s) = Heads(r) \ {c}
  /\ s.next[at] = r.next[c] /\ NextBlock(s, at) = NextBlock(r, c)
  /\ \A x \in Heads(s) : x # at =>
       /\ x \in Heads(r) /\ x # c
       /\ s.free[x] = r.free[x] /\ s.size[x] = r.size[x] /\ s.next[x] = r.next[x]
       /\ NextBlock(s, x) = NextBlock(r, x)
  /\ s.last = IF r.last = c THEN at ELSE r.last
  /\ s.produce = IF r.produce = c THEN at ELSE r.produce

\* MergeBack of a free block.
LEMMA Joining ==
  ASSUME NEW r, Tiling(r), NEW c \in Heads(r), r.free[c]
  PROVE  \E at : /\ Dropped(r, c, at, MergeBack(r, c))
                 /\ at = IF Mergeable(r, c) THEN r.prev[c] ELSE c
                 /\ MergeBack(r, c).consume = IF r.consume = c THEN at ELSE r.consume
<1> DEFINE s == MergeBack(r, c)
           p == r.prev[c]
<1>1. c \in Places /\ \A x \in Heads(r) : x \in Places
  BY DEF Heads
<1>2. CASE ~Mergeable(r, c)
  <2>1. s = r
    BY <1>2 DEF MergeBack
  <2>2. c = First \/ ~r.free[PrevBlock(r, c)]
    <3>1. c # First => r.prev[c] # Null /\ PrevBlock(r, c) = r.prev[c]
      BY BlockPrev, Round, Block
    <3> QED BY <1>2, <3>1 DEF Mergeable
  <2>3. Dropped(r, c, c, r)
    BY <2>2 DEF Dropped
  <2> QED BY <1>2, <2>1, <2>3
<1>3. CASE Mergeable(r, c)
  <2>1. c # First /\ p # c /\ p \in Heads(r) /\ p \in Places /\ PrevBlock(r, c) = p
    BY <1>1, <1>3, BlockPrev, Block, Round DEF Mergeable
  <2>2. MergeEffect(r, c, s)
    BY <1>3, MergeFields
  <2> HIDE DEF s
  <2>3. /\ Tiling(s) /\ Heads(s) = Heads(r) \ {c} /\ p \in Heads(s)
        /\ \A x \in Heads(s) : NextBlock(s, x) = IF x = p THEN NextBlock(r, c)
                                                 ELSE NextBlock(r, x)
    BY <2>1, <2>2, MergeTiles
  <2>4. r.free[p] /\ s.free[p]
    BY <1>3, <2>1, <2>2 DEF Mergeable, MergeEffect
  <2>5. s.next[p] = r.next[c]
    BY <2>1, <2>2 DEF MergeEffect
  <2>6. \A x \in Heads(s) : x # p =>
          /\ x \in Heads(r) /\ x # c
          /\ s.free[x] = r.free[x] /\ s.size[x] = r.size[x] /\ s.next[x] = r.next[x]
    BY <1>1, <2>2, <2>3 DEF MergeEffect
  <2>7. r.next[c] = Null <=> r.last = c
    BY BlockNext
  <2>8. /\ s.last = IF r.last = c THEN p ELSE r.last
        /\ s.produce = IF r.produce = c THEN p ELSE r.produce
        /\ s.consume = IF r.consume = c THEN p ELSE r.consume
    BY <2>2, <2>7 DEF MergeEffect
  <2>9. Dropped(r, c, p, s)
    BY <2>1, <2>3, <2>4, <2>5, <2>6, <2>8 DEF Dropped
  <2> QED BY <1>3, <2>8, <2>9 DEF s
<1> QED BY <1>2, <1>3

\* The consume pointer can be set to another place.
LEMMA Consuming ==
  ASSUME NEW s, Tiling(s), NEW v \in Places, NEW t, t = [s EXCEPT !.consume = v]
  PROVE  /\ t \in Rings /\ t.consume = v /\ t.produce = s.produce /\ t.free = s.free
         /\ t.prev = s.prev /\ t.next = s.next /\ t.size = s.size /\ t.last = s.last
         /\ Heads(t) = Heads(s) /\ Tiling(t)
         /\ \A x \in Heads(s) : NextBlock(t, x) = NextBlock(s, x)
<1>1. s \in Rings
  BY DEF Tiling
<1>2. t \in Rings /\ t.consume = v /\ t.produce = s.produce /\ t.free = s.free
  BY <1>1 DEF Rings
<1>3. t.prev = s.prev /\ t.next = s.next /\ t.size = s.size /\ t.last = s.last
  BY <1>1 DEF Rings
<1>4. Marked(s, First, t) /\ First \in Heads(s)
  BY <1>2, <1>3 DEF Marked, Tiling
<1> QED BY <1>2, <1>3, <1>4, MarkTiles

\* A block in use can be freed.
LEMMA Freeing ==
  ASSUME NEW r, Tiling(r), NEW c \in Heads(r), NEW t, t = [r EXCEPT !.free[c] = TRUE]
  PROVE  /\ Tiling(t) /\ Heads(t) = Heads(r) /\ t.free[c]
         /\ t.consume = r.consume /\ t.produce = r.produce
         /\ \A x \in Heads(r) : x # c => t.free[x] = r.free[x]
         /\ \A at, s : Dropped(t, c, at, s) => Dropped(r, c, at, s)
<1>1. r \in Rings /\ c \in Places /\ r.free \in [Places -> BOOLEAN]
      /\ \A x \in Heads(r) : x \in Places
  BY RingFields DEF Tiling, Heads
<1>2. t.free = [r.free EXCEPT ![c] = TRUE]
  BY <1>1 DEF Rings
<1>3. t.free[c] /\ \A x \in Places : x # c => t.free[x] = r.free[x]
  BY <1>1, <1>2
<1>4. t.consume = r.consume /\ t.produce = r.produce /\ t.size = r.size /\ t.last = r.last
  BY <1>1 DEF Rings
<1>5. t.prev = r.prev /\ t.next = r.next
  BY <1>1 DEF Rings
<1>6. t \in Rings
  BY <1>1 DEF Rings
<1>7. Marked(r, c, t)
  BY <1>3, <1>4, <1>5, <1>6 DEF Marked
<1>8. /\ Tiling(t) /\ Heads(t) = Heads(r)
      /\ \A x \in Heads(r) : NextBlock(t, x) = NextBlock(r, x)
                             /\ PrevBlock(t, x) = PrevBlock(r, x)
  BY <1>7, MarkTiles
<1>9. ASSUME NEW at, NEW s, Dropped(t, c, at, s) PROVE Dropped(r, c, at, s)
  <2>1. PrevBlock(t, c) = PrevBlock(r, c) /\ PrevBlock(r, c) \in Heads(r)
    BY <1>8, Round
  <2>2. c # First => PrevBlock(r, c) # c
    BY Round, BlockPrev, Block
  <2>3. c # First => t.free[PrevBlock(r, c)] = r.free[PrevBlock(r, c)]
    BY <1>1, <1>3, <2>1, <2>2
  <2>4. Tiling(s) /\ at \in Heads(s) /\ s.free[at]
    BY <1>9 DEF Dropped
  <2>5. \/ at = c /\ Heads(s) = Heads(r) /\ (c = First \/ ~r.free[PrevBlock(r, c)])
        \/ /\ at # c /\ c # First /\ at = PrevBlock(r, c) /\ r.free[at]
           /\ Heads(s) = Heads(r) \ {c}
    BY <1>8, <1>9, <2>1, <2>3 DEF Dropped
  <2>6. s.next[at] = r.next[c] /\ NextBlock(s, at) = NextBlock(r, c)
    BY <1>5, <1>8, <1>9 DEF Dropped
  <2>7. ASSUME NEW x \in Heads(s), x # at
        PROVE  /\ x \in Heads(r) /\ x # c
               /\ s.free[x] = r.free[x] /\ s.size[x] = r.size[x] /\ s.next[x] = r.next[x]
               /\ NextBlock(s, x) = NextBlock(r, x)
    <3>1. /\ x \in Heads(t) /\ x # c
          /\ s.free[x] = t.free[x] /\ s.size[x] = t.size[x] /\ s.next[x] = t.next[x]
          /\ NextBlock(s, x) = NextBlock(t, x)
      BY <1>9, <2>7 DEF Dropped
    <3> QED BY <1>1, <1>3, <1>4, <1>5, <1>8, <3>1
  <2>8. /\ s.last = IF r.last = c THEN at ELSE r.last
        /\ s.produce = IF r.produce = c THEN at ELSE r.produce
    BY <1>4, <1>9 DEF Dropped
  <2> QED BY <2>4, <2>5, <2>6, <2>7, <2>8 DEF Dropped
<1> QED BY <1>1, <1>3, <1>4, <1>8, <1>9

\* A step of PopFirst behind a free block.
LEMMA Advancing ==
  ASSUME NEW r, Tiling(r), NEW c \in Heads(r), r.consume = c, r.free[c]
  PROVE  \E at : /\ Dropped(r, c, at, MergeAndAdvance(r))
                 /\ MergeAndAdvance(r).consume = NextBlock(r, c)
<1> DEFINE m == MergeBack(r, c)
           t == MergeAndAdvance(r)
<1>1. PICK at : /\ Dropped(r, c, at, m)
                /\ at = IF Mergeable(r, c) THEN r.prev[c] ELSE c
  BY Joining
<1>2. t = [m EXCEPT !.consume = NextBlock(m, at)]
  BY <1>1 DEF MergeAndAdvance
<1> HIDE DEF m, t
<1>3. Tiling(m) /\ NextBlock(m, at) = NextBlock(r, c)
  BY <1>1 DEF Dropped
<1>4. NextBlock(r, c) \in Places
  BY Round DEF Heads
<1>5. /\ t.consume = NextBlock(r, c) /\ t.produce = m.produce /\ t.free = m.free
      /\ t.prev = m.prev /\ t.next = m.next /\ t.size = m.size /\ t.last = m.last
      /\ Heads(t) = Heads(m) /\ Tiling(t)
      /\ \A x \in Heads(m) : NextBlock(t, x) = NextBlock(m, x)
  BY <1>2, <1>3, <1>4, Consuming
<1>6. Dropped(r, c, at, t)
  BY <1>1, <1>5 DEF Dropped
<1> QED BY <1>5, <1>6 DEF t

\* When nothing is in use and no free blocks lie side by side, there is one block.
LEMMA OneBlock ==
  ASSUME NEW r, Tiling(r), \A a \in Heads(r) : r.free[a] /\ r.next[a] = Null,
         r.produce \in Heads(r), r.consume \in Heads(r)
  PROVE  r = Cleared
<1>1. r \in Rings /\ First \in Heads(r) /\ \A x \in Heads(r) : x \in Places
  BY DEF Tiling, Heads
<1>2. \A x \in Heads(r) : x = r.last
  BY BlockNext
<1>3. Heads(r) = {First} /\ r.last = First /\ r.produce = First /\ r.consume = First
  BY <1>1, <1>2
<1>4. /\ r.prev \in [Places -> Places \cup {Null}]
      /\ r.next \in [Places -> Places \cup {Null}]
      /\ r.free \in [Places -> BOOLEAN] /\ r.size \in [Places -> 0 .. Size]
  BY <1>1, RingFields
<1>5. \A x \in Places : x # First => r.next[x] = Null /\ r.prev[x] = Null /\ ~r.free[x]
  BY <1>3 DEF Tiling
<1>6. r.next[First] = Null /\ r.prev[First] = Null /\ r.free[First]
  BY <1>1 DEF Tiling
<1>7. r.size[First] = Size
  <2>1. First + r.size[First] = Size /\ First = 0 /\ r.size[First] \in Nat
    BY <1>1, <1>3, Block, PlaceNumbers DEF Tiling, End
  <2> QED BY <2>1
<1>8. \A x \in Places : x # First => r.size[x] = 0
  BY <1>3 DEF Heads
<1>9. r.prev = [a \in Places |-> Null] /\ r.next = [a \in Places |-> Null]
  BY <1>4, <1>5, <1>6
<1>10. r.free = [a \in Places |-> a = First]
  BY <1>4, <1>5, <1>6
<1>11. r.size = [a \in Places |-> IF a = First THEN Size ELSE 0]
  BY <1>4, <1>7, <1>8
<1>12. r = [prev |-> r.prev, next |-> r.next, free |-> r.free, size |-> r.size,
            last |-> r.last, produce |-> r.produce, consume |-> r.consume]
  BY <1>1 DEF Rings
<1> QED BY <1>3, <1>9, <1>10, <1>11, <1>12 DEF Cleared

\* The cleared buffer holds nothing.
LEMMA ClearedShape ==
  /\ Shape(Cleared, << >>) /\ Heads(Cleared) = {First}
  /\ Cleared.free[First] /\ Cleared.size[First] = Size /\ Cleared.consume = First
  /\ Cleared.produce = First
<1> DEFINE r == Cleared
<1>1. /\ r.prev = [a \in Places |-> Null] /\ r.next = [a \in Places |-> Null]
      /\ r.free = [a \in Places |-> a = First]
      /\ r.size = [a \in Places |-> IF a = First THEN Size ELSE 0]
      /\ r.last = First /\ r.produce = First /\ r.consume = First
  BY DEF Cleared
<1>2. r \in Rings
  <2>1. First \in Places /\ 0 \in 0 .. Size /\ Size \in 0 .. Size
    BY PlaceNumbers, RingNumbers
  <2>2. /\ [a \in Places |-> Null] \in [Places -> Places \cup {Null}]
        /\ [a \in Places |-> a = First] \in [Places -> BOOLEAN]
        /\ [a \in Places |-> IF a = First THEN Size ELSE 0] \in [Places -> 0 .. Size]
    BY <2>1
  <2> QED BY <2>1, <2>2 DEF Cleared, Rings
<1> HIDE DEF r
<1>3. /\ r.prev[First] = Null /\ r.next[First] = Null /\ r.free[First]
      /\ r.size[First] = Size
      /\ \A x \in Places : x # First => /\ r.prev[x] = Null /\ r.next[x] = Null
                                        /\ ~r.free[x] /\ r.size[x] = 0
  <2>0. First \in Places
    BY PlaceNumbers
  <2>1. \A x \in Places : r.prev[x] = Null /\ r.next[x] = Null
    BY <1>1
  <2>2. \A x \in Places : r.size[x] = IF x = First THEN Size ELSE 0
    BY <1>1
  <2>3. \A x \in Places : r.free[x] = (x = First)
    BY <1>1, Zenon
  <2>4. r.free[First] /\ \A x \in Places : x # First => ~r.free[x]
    BY <2>0, <2>3, Zenon
  <2> QED BY <2>0, <2>1, <2>2, <2>4
<1>4. Heads(r) = {First}
  BY <1>3, PlaceNumbers, RingNumbers DEF Heads
<1>5. End(r, First) = Size
  BY <1>3, PlaceNumbers, RingNumbers DEF End
<1>6. Tiling(r)
  <2>1. \A a, b \in Heads(r) : a < b => End(r, a) <= b
    BY <1>4, PlaceNumbers
  <2> QED BY <1>1, <1>2, <1>3, <1>4, <1>5, <2>1 DEF Tiling
<1>7. ApartBut(r, Null)
  BY <1>3, <1>4 DEF ApartBut
<1>8. InOrder(r, << >>)
  <2>1. << >> \in Seq(Places) /\ Len(<< >>) = 0
    OBVIOUS
  <2> HIDE DEF InOrder
  <2>2. 1 .. 0 = {} /\ 1 .. 0 - 1 = {}
    OBVIOUS
  <2> QED BY <1>3, <1>4, <2>1, <2>2 DEF InOrder, r
<1> QED BY <1>1, <1>3, <1>4, <1>6, <1>7, <1>8 DEF Shape, r

-----------------------------------------------------------------------------
(* Dropping the oldest item.                                               *)

\* What a sequence of items says of its length and of the first and last item.
LEMMA QueueFacts ==
  ASSUME NEW r, NEW q, Shape(r, q)
  PROVE  /\ Tiling(r) /\ r \in Rings /\ q \in Seq(Places) /\ Len(q) \in Nat
         /\ \A i \in 1 .. Len(q) : q[i] \in Heads(r) /\ q[i] \in Places /\ ~r.free[q[i]]
         /\ \A i, j \in 1 .. Len(q) : q[i] = q[j] => i = j
         /\ \A a \in Heads(r) : ~r.free[a] => \E i \in 1 .. Len(q) : q[i] = a
         /\ Len(q) = 0 => r = Cleared
         /\ Len(q) # 0 => r.consume = q[1] /\ r.produce = NextBlock(r, q[Len(q)])
         /\ r.consume \in Heads(r) /\ r.produce \in Heads(r)
<1>1. /\ Tiling(r) /\ r \in Rings /\ q \in Seq(Places) /\ Len(q) \in Nat
      /\ \A i \in 1 .. Len(q) : q[i] \in Heads(r) /\ ~r.free[q[i]]
      /\ \A i, j \in 1 .. Len(q) : q[i] = q[j] => i = j
      /\ \A a \in Heads(r) : ~r.free[a] => \E i \in 1 .. Len(q) : q[i] = a
      /\ Len(q) = 0 => r = Cleared
      /\ Len(q) # 0 => r.consume = q[1] /\ r.produce = NextBlock(r, q[Len(q)])
  BY DEF Shape, InOrder, Tiling
<1>2. r.consume \in Heads(r) /\ r.produce \in Heads(r)
  <2>1. CASE Len(q) = 0
    BY <1>1, <2>1, ClearedShape
  <2>2. CASE Len(q) # 0
    <3>1. q[1] \in Heads(r) /\ q[Len(q)] \in Heads(r)
      BY <1>1, <2>2
    <3>2. NextBlock(r, q[Len(q)]) \in Heads(r)
      BY <1>1, <3>1, Round
    <3> QED BY <1>1, <2>2, <3>1, <3>2
  <2> QED BY <2>1, <2>2
<1> QED BY <1>1, <1>2 DEF Heads

\* The free blocks in front of the items: the one at the produce pointer and,
\* when that is the last one, perhaps the first.
LEMMA InFront ==
  ASSUME NEW r, NEW q, Shape(r, q), Len(q) # 0
  PROVE  \/ ~r.free[r.produce] /\ r.produce = q[1]
         \/ r.free[r.produce] /\ NextBlock(r, r.produce) = q[1]
         \/ /\ r.free[r.produce] /\ r.produce = r.last /\ r.free[First] /\ r.produce # First
            /\ NextBlock(r, First) = q[1] /\ First # r.last
<1> DEFINE n == Len(q)
           z == r.produce
<1>1. /\ Tiling(r) /\ n \in Nat /\ n # 0
      /\ \A i \in 1 .. n : q[i] \in Heads(r) /\ ~r.free[q[i]]
      /\ \A i, j \in 1 .. n : q[i] = q[j] => i = j
      /\ \A a \in Heads(r) : ~r.free[a] => \E i \in 1 .. n : q[i] = a
      /\ z = NextBlock(r, q[n]) /\ z \in Heads(r)
  BY QueueFacts
<1>2. \A i \in 1 .. n - 1 : Behind(r, q[i], q[i + 1])
  BY DEF Shape, InOrder
<1>3. \A a \in Heads(r) : r.free[a] /\ r.next[a] # Null => ~r.free[r.next[a]]
  BY Block DEF Shape, ApartBut
\* An item that comes behind a free block or behind the last item is the oldest.
<1>4. ASSUME NEW a \in Heads(r), NEW i \in 1 .. n, NextBlock(r, a) = q[i],
             r.free[a] \/ a = q[n], a = r.last => a = z \/ ~r.free[a]
      PROVE  i = 1
  <2> SUFFICES ASSUME i # 1 PROVE FALSE
    OBVIOUS
  <2>1. i - 1 \in 1 .. n - 1 /\ (i - 1) + 1 = i /\ i - 1 \in 1 .. n /\ n \in 1 .. n
        /\ i - 1 # n
    BY <1>1
  <2>2. Behind(r, q[i - 1], q[i])
    BY <1>2, <2>1
  <2>3. q[i - 1] # a
    BY <1>1, <1>4, <2>1
  <2>4. NextBlock(r, q[i - 1]) # q[i]
    <3>1. Tiling(r) /\ q[i - 1] \in Heads(r)
      BY <1>1, <2>1
    <3>2. PrevBlock(r, NextBlock(r, q[i - 1])) = q[i - 1]
      BY <3>1, Round
    <3>3. PrevBlock(r, NextBlock(r, a)) = a
      BY <3>1, <1>4, Round
    <3> QED BY <1>4, <2>3, <3>2, <3>3
  <2>5. r.free[r.last] /\ r.last # z /\ q[i] = First
    BY <2>2, <2>4 DEF Behind
  <2>6. a = r.last
    BY <1>1, <1>4, <2>5, BlockNext, Round, Block, PlaceNumbers
  <2> QED BY <1>4, <2>5, <2>6
<1>5. CASE ~r.free[z]
  <2>1. PICK i \in 1 .. n : q[i] = z
    BY <1>1, <1>5
  <2>2. n \in 1 .. n /\ q[n] \in Heads(r) /\ ~r.free[q[n]]
    BY <1>1
  <2>3. i = 1
    BY <1>1, <1>4, <2>1, <2>2
  <2> QED BY <1>5, <2>1, <2>3
<1>6. CASE r.free[z]
  <2>0. Tiling(r) /\ z \in Heads(r)
    BY <1>1
  <2>1. NextBlock(r, z) \in Heads(r) /\ NextBlock(r, z) = IF z = r.last THEN First ELSE r.next[z]
    BY <2>0, Round
  <2>2. CASE ~r.free[NextBlock(r, z)]
    <3>1. PICK i \in 1 .. n : q[i] = NextBlock(r, z)
      BY <1>1, <2>1, <2>2
    <3>2. i = 1
      BY <1>1, <1>4, <1>6, <3>1
    <3> QED BY <1>6, <3>1, <3>2
  <2>3. CASE r.free[NextBlock(r, z)]
    <3>1. z = r.last /\ r.free[First] /\ First \in Heads(r)
      BY <1>1, <1>3, <1>6, <2>1, <2>3, BlockNext
    <3>2. First # r.last
      <4> SUFFICES ASSUME First = r.last PROVE FALSE
        OBVIOUS
      <4>1. End(r, First) = Size
        BY <1>1, <3>1, BlockNext
      <4>2. \A x \in Heads(r) : x = First
        <5> SUFFICES ASSUME NEW x \in Heads(r), x # First PROVE FALSE
          OBVIOUS
        <5>1. x \in Nat /\ x < Size /\ First < x /\ Size \in Nat
          BY <1>1, Block, PlaceNumbers, RingNumbers
        <5>2. End(r, First) <= x
          BY <1>1, <3>1, <5>1 DEF Tiling
        <5> QED BY <4>1, <5>1, <5>2
      <4>3. q[1] \in Heads(r) /\ ~r.free[q[1]]
        BY <1>1
      <4> QED BY <3>1, <4>2, <4>3
    <3>3. NextBlock(r, First) = r.next[First] /\ r.next[First] \in Heads(r)
          /\ ~r.free[r.next[First]]
      BY <1>1, <1>3, <3>1, <3>2, BlockNext, Round
    <3>4. PICK i \in 1 .. n : q[i] = r.next[First]
      BY <1>1, <3>3
    <3>5. i = 1
      BY <1>1, <1>4, <3>1, <3>2, <3>3, <3>4
    <3> QED BY <1>6, <3>1, <3>2, <3>3, <3>4, <3>5
  <2> QED BY <2>2, <2>3
<1> QED BY <1>1, <1>5, <1>6, Block

\* The loop of PopFirst over free blocks: it stops at once, or after one.
LEMMA Skipping ==
  ASSUME NEW r \in Rings
  PROVE  /\ ~(r.free[r.consume] /\ r.consume # r.produce) => SkipFree(r) = r
         /\ \A t \in Rings :
              /\ r.free[r.consume] /\ r.consume # r.produce /\ t = MergeAndAdvance(r)
              /\ ~(t.free[t.consume] /\ t.consume # t.produce)
              => SkipFree(r) = t
<1> DEFINE turn == [h \in Rings |-> IF h.free[h.consume] /\ h.consume # h.produce
                                    THEN MergeAndAdvance(h) ELSE h]
<1>1. SkipFree(r) = Loop(turn, r)
  BY DEF SkipFree
<1>2. \A h \in Rings : turn[h] = IF h.free[h.consume] /\ h.consume # h.produce
                                 THEN MergeAndAdvance(h) ELSE h
  OBVIOUS
<1> HIDE DEF turn
<1>3. ASSUME ~(r.free[r.consume] /\ r.consume # r.produce) PROVE SkipFree(r) = r
  <2>1. turn[r] = r
    BY <1>2, <1>3
  <2> QED BY <1>1, <2>1, OneTurn
<1>4. ASSUME NEW t \in Rings,
             r.free[r.consume] /\ r.consume # r.produce /\ t = MergeAndAdvance(r),
             ~(t.free[t.consume] /\ t.consume # t.produce)
      PROVE  SkipFree(r) = t
  <2>1. turn[r] = t /\ turn[t] = t
    BY <1>2, <1>4
  <2> QED BY <1>1, <2>1, OneTurn
<1> QED BY <1>3, <1>4

\* PopFirst first frees the oldest block, joins it and goes to the next one.
LEMMA FirstDrop ==
  ASSUME NEW r, NEW q, Shape(r, q), Len(q) # 0
  PROVE  \E at, s : /\ Dropped(r, q[1], at, s) /\ s.consume = NextBlock(r, q[1])
                    /\ PopFirst(r) = MergeBack(SkipFree(s), SkipFree(s).consume)
                    /\ Len(q) # 1 => s.produce = r.produce
                    /\ Len(q) = 1 => s.produce = s.consume
<1> DEFINE c == q[1]
           t == [r EXCEPT !.free[c] = TRUE]
           s == MergeAndAdvance(t)
<1>1. /\ Tiling(r) /\ Len(q) \in Nat
      /\ \A i \in 1 .. Len(q) : q[i] \in Heads(r) /\ ~r.free[q[i]]
      /\ \A i, j \in 1 .. Len(q) : q[i] = q[j] => i = j
      /\ r.consume = c /\ r.produce = NextBlock(r, q[Len(q)])
  BY QueueFacts
<1>2. 1 \in 1 .. Len(q) /\ Len(q) \in 1 .. Len(q)
  BY <1>1
<1>3. c \in Heads(r) /\ q[Len(q)] \in Heads(r) /\ ~r.free[q[Len(q)]]
  BY <1>1, <1>2
<1>4. PopFirst(r) = MergeBack(SkipFree(s), SkipFree(s).consume)
  BY <1>1 DEF PopFirst
<1>5. t = [r EXCEPT !.free[c] = TRUE]
  OBVIOUS
<1>0. Tiling(r) /\ c \in Heads(r)
  BY <1>1, <1>3
<1> HIDE DEF t, c
<1>6. /\ Tiling(t) /\ Heads(t) = Heads(r) /\ t.free[c] /\ t.consume = r.consume
      /\ \A at, u : Dropped(t, c, at, u) => Dropped(r, c, at, u)
  <2>1. Tiling(t)
    BY <1>0, <1>5, Freeing
  <2>2. t.free[c]
    <3>1. r \in Rings /\ c \in Places
      BY <1>0 DEF Tiling, Heads
    <3>2. r.free \in [Places -> BOOLEAN] /\ t.free = [r.free EXCEPT ![c] = TRUE]
      BY <1>5, <3>1 DEF Rings
    <3> QED BY <3>1, <3>2
  <2>3. Heads(t) = Heads(r)
    BY <1>0, <1>5, Freeing
  <2>4. t.consume = r.consume
    BY <1>0, <1>5, Freeing
  <2>5. ASSUME NEW at, NEW u, Dropped(t, c, at, u) PROVE Dropped(r, c, at, u)
    BY <1>0, <1>5, <2>5, Freeing
  <2> QED BY <2>1, <2>5, <2>3, <2>4, <2>2
<1>7. PICK at : Dropped(t, c, at, s) /\ s.consume = NextBlock(t, c)
  BY <1>1, <1>3, <1>6, Advancing
<1> HIDE DEF s
<1>8. Dropped(r, c, at, s)
  BY <1>6, <1>7
<1>9. s.consume = NextBlock(r, c)
  <2>1. NextBlock(t, c) = NextBlock(r, c)
    BY <1>7, <1>8 DEF Dropped
  <2> QED BY <1>7, <2>1
<1>10. r.produce = c => at = c \/ Len(q) = 1
  <2> SUFFICES ASSUME r.produce = c, at # c PROVE Len(q) = 1
    OBVIOUS
  <2>1. r.free[at] /\ at = PrevBlock(r, c)
    BY <1>8 DEF Dropped
  <2>2. PrevBlock(r, NextBlock(r, q[Len(q)])) = q[Len(q)]
    BY <1>1, <1>3, Round
  <2> QED BY <1>1, <1>3, <2>1, <2>2
<1>11. Len(q) # 1 => s.produce = r.produce
  BY <1>8, <1>10 DEF Dropped
<1>12. ASSUME Len(q) = 1 PROVE s.produce = s.consume
  <2>1. r.produce = NextBlock(r, c)
    BY <1>1, <1>12 DEF c
  <2>2. CASE r.produce = c
    <3>1. PrevBlock(r, NextBlock(r, c)) = c
      BY <1>0, Round
    <3>2. PrevBlock(r, c) = c
      BY <2>1, <2>2, <3>1
    <3>3. at = c
      BY <1>8, <3>2 DEF Dropped
    <3> QED BY <1>8, <1>9, <2>1, <2>2, <3>3 DEF Dropped
  <2>3. CASE r.produce # c
    BY <1>8, <1>9, <2>1, <2>3 DEF Dropped
  <2> QED BY <2>2, <2>3
<1> QED BY <1>4, <1>8, <1>9, <1>11, <1>12 DEF c

\* A free block of r other than c leads, in s, to the block it led to in r.
LEMMA StillApart ==
  ASSUME NEW r, NEW q, Shape(r, q), NEW c \in Heads(r), ~r.free[c],
         NEW at, NEW s, Dropped(r, c, at, s),
         NEW x \in Heads(s), x # at, s.free[x], s.next[x] # Null
  PROVE  /\ s.next[x] = r.next[x] /\ r.next[x] \in Heads(r) /\ ~r.free[r.next[x]]
         /\ r.next[x] # c
<1>1. Tiling(r) /\ ApartBut(r, Null)
  BY DEF Shape
<1>2. x \in Heads(r) /\ x # c /\ r.free[x] /\ s.next[x] = r.next[x] /\ x # Null
  BY <1>1, Block DEF Dropped
<1>3. r.next[x] \in Heads(r) /\ ~r.free[r.next[x]] /\ r.prev[r.next[x]] = x
  BY <1>1, <1>2, BlockNext DEF ApartBut
<1>4. r.next[x] # c
  <2> SUFFICES ASSUME r.next[x] = c PROVE FALSE
    OBVIOUS
  <2>1. c # First
    BY <1>1, <1>2, BlockNext, Block, PlaceNumbers
  <2>2. PrevBlock(r, c) = x
    BY <1>1, <1>3, <2>1, Round
  <2> QED BY <1>2, <2>1, <2>2 DEF Dropped
<1> QED BY <1>2, <1>3, <1>4

\* After the last item is gone, the buffer is as Clear leaves it.
LEMMA PopLast ==
  ASSUME NEW r, NEW q, Shape(r, q), Len(q) = 1
  PROVE  PopFirst(r) = Cleared
<1> DEFINE c == q[1]
           d == NextBlock(r, c)
<1>1. /\ Tiling(r) /\ c \in Heads(r) /\ ~r.free[c]
      /\ \A a \in Heads(r) : a # c => r.free[a]
  BY QueueFacts, Block
<1>2. PICK at, s : /\ Dropped(r, c, at, s) /\ s.consume = d
                   /\ PopFirst(r) = MergeBack(SkipFree(s), SkipFree(s).consume)
                   /\ s.produce = s.consume
  BY FirstDrop
<1>3. /\ Tiling(s) /\ at \in Heads(s) /\ s.free[at] /\ s \in Rings
      /\ NextBlock(s, at) = d /\ s.next[at] = r.next[c]
  BY <1>2 DEF Dropped, Tiling
<1>4. SkipFree(s) = s
  BY <1>2, <1>3, Skipping
<1>5. d \in Heads(s)
  BY <1>3, Round
<1>6. \A x \in Heads(s) : s.free[x]
  BY <1>1, <1>2 DEF Dropped
<1> DEFINE u == MergeBack(s, d)
<1>7. PopFirst(r) = u
  BY <1>2, <1>4
<1>8. PICK end : Dropped(s, d, end, u) /\ u.consume = IF s.consume = d THEN end ELSE s.consume
  BY <1>3, <1>5, <1>6, Joining
<1> HIDE DEF u
<1>9. \A x \in Heads(s) : x # at => s.next[x] = Null
  <2> SUFFICES ASSUME NEW x \in Heads(s), x # at, s.next[x] # Null PROVE FALSE
    OBVIOUS
  <2>1. r.next[x] \in Heads(r) /\ ~r.free[r.next[x]] /\ r.next[x] # c
    BY <1>1, <1>2, <1>6, StillApart
  <2> QED BY <1>1, <2>1
<1>10. /\ Tiling(u) /\ end \in Heads(u) /\ u.free[end] /\ u.next[end] = s.next[d]
       /\ \A x \in Heads(u) : x # end => x \in Heads(s) /\ u.free[x] = s.free[x]
                                         /\ u.next[x] = s.next[x]
       /\ u.produce = end
       /\ u.consume = end
  BY <1>2, <1>8 DEF Dropped
<1>11. CASE r.next[c] = Null
  <2>1. s.next[at] = Null
    BY <1>3, <1>11
  <2>2. \A x \in Heads(s) : s.next[x] = Null
    BY <1>9, <2>1
  <2>3. \A x \in Heads(u) : u.free[x] /\ u.next[x] = Null
    BY <1>5, <1>6, <1>10, <2>2
  <2> QED BY <1>7, <1>10, <2>3, OneBlock
<1>12. CASE r.next[c] # Null
  <2>1. d = s.next[at] /\ d # First /\ d # at /\ PrevBlock(s, d) = at
    <3>1. s.next[at] # Null
      BY <1>3, <1>12
    <3>2. at # s.last
      BY <1>3, <3>1, BlockNext
    <3>3. s.next[at] > at /\ NextBlock(s, at) = s.next[at] /\ s.next[at] \in Heads(s)
      BY <1>3, <3>2, BlockNext, Round
    <3>4. at \in Nat /\ s.next[at] \in Nat
      BY <1>3, <3>3, Block
    <3>5. PrevBlock(s, NextBlock(s, at)) = at
      BY <1>3, Round
    <3> QED BY <1>3, <3>3, <3>4, <3>5, PlaceNumbers
  <2>2. end = at /\ Heads(u) = Heads(s) \ {d}
    BY <1>3, <1>8, <2>1 DEF Dropped
  <2>3. s.next[d] = Null
    BY <1>5, <1>9, <2>1
  <2>4. \A x \in Heads(u) : u.free[x] /\ u.next[x] = Null
    BY <1>6, <1>9, <1>10, <2>2, <2>3
  <2> QED BY <1>7, <1>10, <2>4, OneBlock
<1> QED BY <1>11, <1>12

\* What is left in u of the items of q when the oldest one is gone.
Kept(r, q, u) ==
  /\ Tiling(u) /\ ApartBut(u, Null) /\ u.consume = q[2] /\ u.produce = r.produce
  /\ \A x \in Heads(r) : ~r.free[x] /\ x # q[1] =>
       /\ x \in Heads(u) /\ ~u.free[x] /\ u.size[x] = r.size[x]
       /\ NextBlock(u, x) = NextBlock(r, x)
  /\ \A x \in Heads(u) : ~u.free[x] => x \in Heads(r) /\ ~r.free[x] /\ x # q[1]
  /\ \A i \in 2 .. Len(q) - 1 :
       NextBlock(r, q[i]) # q[i + 1] => u.last = r.last /\ u.free[u.last]

LEMMA KeptShape ==
  ASSUME NEW r, NEW q, Shape(r, q), Len(q) > 1, NEW u, Kept(r, q, u)
  PROVE  Shape(u, Tail(q))
<1> DEFINE t == Tail(q)
           n == Len(q)
<1>1. /\ q \in Seq(Places) /\ n \in Nat
      /\ \A i \in 1 .. n : q[i] \in Heads(r) /\ ~r.free[q[i]]
      /\ \A i, j \in 1 .. n : q[i] = q[j] => i = j
      /\ \A a \in Heads(r) : ~r.free[a] => \E i \in 1 .. n : q[i] = a
      /\ r.produce = NextBlock(r, q[n])
  BY QueueFacts
<1>2. t \in Seq(Places) /\ Len(t) = n - 1 /\ \A i \in 1 .. n - 1 : t[i] = q[i + 1]
  BY <1>1
<1>3. /\ \A i \in 1 .. n - 1 : Behind(r, q[i], q[i + 1])
      /\ \A i, j \in 1 .. n : i < j /\ (\A m \in i + 1 .. j : q[m] # First) => q[i] < q[j]
  BY DEF Shape, InOrder
<1> HIDE DEF t
<1>4. \A i \in 1 .. n - 1 : i \in 1 .. n /\ i + 1 \in 1 .. n /\ i + 1 # 1 /\ i + 1 \in 2 .. n
  BY <1>1
<1>5. \A i \in 1 .. n - 1 : q[i + 1] \in Heads(r) /\ ~r.free[q[i + 1]] /\ q[i + 1] # q[1]
  <2>1. 1 \in 1 .. n
    BY <1>1
  <2> QED BY <1>1, <1>4, <2>1
<1>6. \A i \in 1 .. n - 1 : /\ t[i] \in Heads(u) /\ ~u.free[t[i]]
                            /\ NextBlock(u, t[i]) = NextBlock(r, q[i + 1])
  BY <1>2, <1>5 DEF Kept
<1>7. \A a \in Heads(u) : ~u.free[a] => \E i \in 1 .. n - 1 : t[i] = a
  <2> SUFFICES ASSUME NEW a \in Heads(u), ~u.free[a] PROVE \E i \in 1 .. n - 1 : t[i] = a
    OBVIOUS
  <2>1. a \in Heads(r) /\ ~r.free[a] /\ a # q[1]
    BY DEF Kept
  <2>2. PICK i \in 1 .. n : q[i] = a
    BY <1>1, <2>1
  <2>3. i - 1 \in 1 .. n - 1 /\ (i - 1) + 1 = i
    BY <1>1, <2>1, <2>2
  <2> QED BY <1>2, <2>2, <2>3
<1>8. \A i, j \in 1 .. n - 1 : t[i] = t[j] => i = j
  BY <1>1, <1>2, <1>4
<1>9. u.consume = t[1] /\ u.produce = NextBlock(u, t[n - 1])
  <2>1. 1 \in 1 .. n - 1 /\ n - 1 \in 1 .. n - 1 /\ 1 + 1 = 2 /\ (n - 1) + 1 = n
    BY <1>1
  <2> QED BY <1>1, <1>2, <1>6, <2>1 DEF Kept
<1>10. ASSUME NEW i \in 1 .. (n - 1) - 1 PROVE Behind(u, t[i], t[i + 1])
  <2>1. i \in 1 .. n - 1 /\ i + 1 \in 1 .. n - 1 /\ i + 1 \in 2 .. n - 1
    BY <1>1
  <2>2. NextBlock(u, t[i]) = NextBlock(r, q[i + 1]) /\ t[i + 1] = q[(i + 1) + 1]
    BY <1>2, <1>6, <2>1
  <2>3. Behind(r, q[i + 1], q[(i + 1) + 1])
    BY <1>3, <2>1
  <2>4. CASE NextBlock(r, q[i + 1]) = q[(i + 1) + 1]
    BY <2>2, <2>4 DEF Behind
  <2>5. CASE NextBlock(r, q[i + 1]) # q[(i + 1) + 1]
    <3>1. u.last = r.last /\ u.free[u.last] /\ u.produce = r.produce
      BY <2>1, <2>5 DEF Kept
    <3> QED BY <2>2, <2>3, <2>5, <3>1 DEF Behind
  <2> QED BY <2>4, <2>5
<1>11. ASSUME NEW i \in 1 .. n - 1, NEW j \in 1 .. n - 1, i < j,
              \A m \in i + 1 .. j : t[m] # First
       PROVE  t[i] < t[j]
  <2>1. i + 1 \in 1 .. n /\ j + 1 \in 1 .. n /\ i + 1 < j + 1
    BY <1>1, <1>11
  <2>2. ASSUME NEW m \in (i + 1) + 1 .. j + 1 PROVE q[m] # First
    <3>1. m - 1 \in i + 1 .. j /\ m - 1 \in 1 .. n - 1 /\ (m - 1) + 1 = m
      BY <1>1
    <3> QED BY <1>2, <1>11, <3>1
  <2> QED BY <1>2, <1>3, <2>1, <2>2
<1>12. InOrder(u, t)
  <2>1. Len(t) # 0
    BY <1>1, <1>2
  <2>2. \A i \in 1 .. Len(t) - 1 : Behind(u, t[i], t[i + 1])
    BY <1>2, <1>10
  <2>3. \A i, j \in 1 .. Len(t) :
          i < j /\ (\A m \in i + 1 .. j : t[m] # First) => t[i] < t[j]
    BY <1>2, <1>11
  <2>4. u.consume = t[1] /\ u.produce = NextBlock(u, t[Len(t)])
    BY <1>2, <1>9
  <2> HIDE DEF n
  <2> QED BY <1>2, <1>6, <1>7, <1>8, <2>1, <2>2, <2>3, <2>4 DEF InOrder
<1>13. Tiling(u) /\ ApartBut(u, Null)
  BY DEF Kept
<1> QED BY <1>12, <1>13 DEF Shape, t

\* A used block other than the one that was dropped stays as it was.
LEMMA StillUsed ==
  ASSUME NEW r, NEW q, Shape(r, q), NEW c \in Heads(r), c = q[1] \/ r.free[c],
         NEW at, NEW s, Dropped(r, c, at, s)
  PROVE  /\ \A x \in Heads(r) : ~r.free[x] /\ x # c =>
              /\ x \in Heads(s) /\ ~s.free[x] /\ s.size[x] = r.size[x] /\ x # at
              /\ NextBlock(s, x) = NextBlock(r, x)
         /\ \A x \in Heads(s) : ~s.free[x] => x \in Heads(r) /\ ~r.free[x] /\ x # c
<1>1. ASSUME NEW x \in Heads(r), ~r.free[x], x # c
      PROVE  /\ x \in Heads(s) /\ ~s.free[x] /\ s.size[x] = r.size[x] /\ x # at
             /\ NextBlock(s, x) = NextBlock(r, x)
  <2>1. x # at
    BY <1>1 DEF Dropped
  <2>2. x \in Heads(s)
    BY <1>1 DEF Dropped
  <2> QED BY <1>1, <2>1, <2>2 DEF Dropped
<1>2. ASSUME NEW x \in Heads(s), ~s.free[x]
      PROVE  x \in Heads(r) /\ ~r.free[x] /\ x # c
  <2>1. x # at
    BY <1>2 DEF Dropped
  <2> QED BY <1>2, <2>1 DEF Dropped
<1> QED BY <1>1, <1>2

\* When the next item is in the next block, only the first one is dropped.
LEMMA PopNext ==
  ASSUME NEW r, NEW q, Shape(r, q), Len(q) > 1, NextBlock(r, q[1]) = q[2]
  PROVE  Kept(r, q, PopFirst(r))
<1> DEFINE c == q[1]
           d == q[2]
<1>1. /\ Tiling(r) /\ Len(q) \in Nat
      /\ \A i \in 1 .. Len(q) : q[i] \in Heads(r) /\ ~r.free[q[i]]
      /\ \A i, j \in 1 .. Len(q) : q[i] = q[j] => i = j
  BY QueueFacts
<1>2. 1 \in 1 .. Len(q) /\ 2 \in 1 .. Len(q)
  BY <1>1
<1>3. c \in Heads(r) /\ ~r.free[c] /\ d \in Heads(r) /\ ~r.free[d] /\ c # d
  BY <1>1, <1>2
<1>4. PICK at, s : /\ Dropped(r, c, at, s) /\ s.consume = d
                   /\ PopFirst(r) = MergeBack(SkipFree(s), SkipFree(s).consume)
                   /\ s.produce = r.produce
  BY FirstDrop
<1>5. /\ \A x \in Heads(r) : ~r.free[x] /\ x # c =>
           /\ x \in Heads(s) /\ ~s.free[x] /\ s.size[x] = r.size[x] /\ x # at
           /\ NextBlock(s, x) = NextBlock(r, x)
      /\ \A x \in Heads(s) : ~s.free[x] => x \in Heads(r) /\ ~r.free[x] /\ x # c
  BY <1>3, <1>4, StillUsed
<1>6. Tiling(s) /\ s \in Rings /\ d \in Heads(s) /\ ~s.free[d]
  BY <1>3, <1>4, <1>5 DEF Dropped, Tiling
<1>7. SkipFree(s) = s
  BY <1>4, <1>6, Skipping
<1>8. PopFirst(r) = s
  BY <1>4, <1>6, <1>7 DEF MergeBack, Mergeable
<1>9. ApartBut(s, Null)
  <2> SUFFICES ASSUME NEW x \in Heads(s), s.free[x], s.next[x] # Null
               PROVE  ~s.free[s.next[x]]
    BY DEF ApartBut
  <2>1. CASE x = at
    <3>1. s.next[at] = NextBlock(s, at) /\ NextBlock(s, at) = NextBlock(r, c)
      BY <1>4, <2>1 DEF Dropped, NextBlock
    <3> QED BY <1>6, <2>1, <3>1
  <2>2. CASE x # at
    <3>1. s.next[x] = r.next[x] /\ r.next[x] \in Heads(r) /\ ~r.free[r.next[x]]
          /\ r.next[x] # c
      BY <1>3, <1>4, <2>2, StillApart
    <3> QED BY <1>5, <3>1
  <2> QED BY <2>1, <2>2
<1>10. ASSUME NEW i \in 2 .. Len(q) - 1, NextBlock(r, q[i]) # q[i + 1]
       PROVE  s.last = r.last /\ s.free[s.last]
  <2>1. i \in 1 .. Len(q) - 1
    OBVIOUS
  <2>2. r.free[r.last]
    BY <1>10, <2>1 DEF Shape, InOrder, Behind
  <2>3. s.last = r.last /\ r.last # c /\ s.last \in Heads(s)
    BY <1>3, <1>4, <1>6, <2>2 DEF Dropped, Tiling
  <2> QED BY <1>4, <2>2, <2>3 DEF Dropped
<1> HIDE DEF c, d
<1>11. c = q[1] /\ d = q[2]
  BY DEF c, d
<1>12. Kept(r, q, s)
  BY <1>4, <1>5, <1>6, <1>9, <1>10, <1>11 DEF Kept
<1> QED BY <1>8, <1>12

\* When the block left behind by a wrap is between the two, it is skipped.
LEMMA PopGap ==
  ASSUME NEW r, NEW q, Shape(r, q), Len(q) > 1, NextBlock(r, q[1]) # q[2]
  PROVE  Kept(r, q, PopFirst(r))
<1> DEFINE c == q[1]
           d == q[2]
           l == r.last
<1>1. /\ Tiling(r) /\ Len(q) \in Nat
      /\ \A i \in 1 .. Len(q) : q[i] \in Heads(r) /\ ~r.free[q[i]]
      /\ \A i, j \in 1 .. Len(q) : q[i] = q[j] => i = j
  BY QueueFacts
<1>2. 1 \in 1 .. Len(q) /\ 2 \in 1 .. Len(q) /\ 1 \in 1 .. Len(q) - 1
  BY <1>1
<1>3. c \in Heads(r) /\ ~r.free[c] /\ d \in Heads(r) /\ ~r.free[d] /\ c # d
  BY <1>1, <1>2
<1>0. Tiling(r) /\ c \in Heads(r)
  BY <1>1, <1>3
<1>4. NextBlock(r, c) = l /\ r.free[l] /\ l # r.produce /\ d = First
  <2>1. Behind(r, q[1], q[1 + 1])
    BY <1>2 DEF Shape, InOrder
  <2> QED BY <2>1 DEF Behind
<1>5. PICK at, s : /\ Dropped(r, c, at, s) /\ s.consume = l
                   /\ PopFirst(r) = MergeBack(SkipFree(s), SkipFree(s).consume)
                   /\ s.produce = r.produce
  BY <1>4, FirstDrop
<1>6. /\ \A x \in Heads(r) : ~r.free[x] /\ x # c =>
           /\ x \in Heads(s) /\ ~s.free[x] /\ s.size[x] = r.size[x] /\ x # at
           /\ NextBlock(s, x) = NextBlock(r, x)
      /\ \A x \in Heads(s) : ~s.free[x] => x \in Heads(r) /\ ~r.free[x] /\ x # c
  BY <1>3, <1>5, StillUsed
<1>7. l \in Heads(r) /\ l # c /\ l # First
  BY <1>1, <1>3, <1>4 DEF Tiling
<1>8. r.next[c] = l /\ l > c /\ r.next[l] = Null /\ NextBlock(r, l) = First
  BY <1>0, <1>4, <1>7, BlockNext, Round
<1>9. l # at
  <2> SUFFICES ASSUME l = at PROVE FALSE
    OBVIOUS
  <2>1. c # First /\ at = PrevBlock(r, c)
    BY <1>5, <1>7 DEF Dropped
  <2>2. PrevBlock(r, c) < c
    BY <1>0, <2>1, BlockPrev, Round
  <2> QED BY <1>0, <1>7, <1>8, <2>1, <2>2, Block
<1> HIDE DEF c, d, l
<1>10. l \in Heads(s) /\ s.free[l] /\ s.next[l] = Null /\ NextBlock(s, l) = First
  <2>1. l \in Heads(s)
    BY <1>5, <1>7 DEF Dropped
  <2> QED BY <1>4, <1>5, <1>8, <1>9, <2>1 DEF Dropped
<1>11. Tiling(s) /\ s \in Rings /\ at \in Heads(s) /\ s.free[at] /\ NextBlock(s, at) = l
  BY <1>4, <1>5 DEF Dropped, Tiling
<1> DEFINE u == MergeAndAdvance(s)
<1>12. PICK b : Dropped(s, l, b, u) /\ u.consume = First
  BY <1>5, <1>10, <1>11, Advancing
<1> HIDE DEF u
<1>13. b = at /\ Heads(u) = Heads(s) \ {l} /\ u.produce = r.produce /\ u.next[at] = Null
  <2>1. PrevBlock(s, l) = at
    BY <1>11, Round
  <2>2. b = at /\ Heads(u) = Heads(s) \ {l}
    BY <1>7, <1>11, <1>12, <2>1 DEF Dropped
  <2> QED BY <1>4, <1>5, <1>10, <1>12, <2>2 DEF Dropped
<1>14. /\ \A x \in Heads(r) : ~r.free[x] /\ x # c =>
            /\ x \in Heads(u) /\ ~u.free[x] /\ u.size[x] = r.size[x]
            /\ NextBlock(u, x) = NextBlock(r, x)
       /\ \A x \in Heads(u) : ~u.free[x] => x \in Heads(r) /\ ~r.free[x] /\ x # c
  <2>1. ASSUME NEW x \in Heads(r), ~r.free[x], x # c
        PROVE  /\ x \in Heads(u) /\ ~u.free[x] /\ u.size[x] = r.size[x]
               /\ NextBlock(u, x) = NextBlock(r, x)
    <3>1. x \in Heads(s) /\ ~s.free[x] /\ s.size[x] = r.size[x] /\ x # at
          /\ NextBlock(s, x) = NextBlock(r, x)
      BY <1>6, <2>1
    <3>2. x # l
      BY <1>10, <3>1
    <3>3. x \in Heads(u)
      BY <1>13, <3>1, <3>2
    <3> QED BY <1>12, <1>13, <3>1, <3>3 DEF Dropped
  <2>2. ASSUME NEW x \in Heads(u), ~u.free[x]
        PROVE  x \in Heads(r) /\ ~r.free[x] /\ x # c
    <3>1. x # at
      BY <1>12, <1>13, <2>2 DEF Dropped
    <3>2. x \in Heads(s) /\ ~s.free[x]
      BY <1>12, <1>13, <2>2, <3>1 DEF Dropped
    <3> QED BY <1>6, <3>2
  <2> QED BY <2>1, <2>2
<1>15. Tiling(u) /\ u \in Rings /\ ~u.free[First]
  <2>1. d \in Heads(r) /\ ~r.free[d] /\ d # c
    BY <1>3 DEF c, d
  <2> QED BY <1>4, <1>12, <1>14, <2>1 DEF Dropped, Tiling
<1>16. PopFirst(r) = u
  <2>1. SkipFree(s) = u
    BY <1>4, <1>5, <1>10, <1>11, <1>12, <1>15, Skipping DEF u
  <2> QED BY <1>5, <1>12, <1>15, <2>1 DEF MergeBack, Mergeable
<1>17. ApartBut(u, Null)
  <2> SUFFICES ASSUME NEW x \in Heads(u), u.free[x], u.next[x] # Null
               PROVE  ~u.free[u.next[x]]
    BY DEF ApartBut
  <2>1. x # at
    BY <1>13
  <2>2. x \in Heads(s) /\ s.free[x] /\ u.next[x] = s.next[x]
    BY <1>12, <1>13, <2>1 DEF Dropped
  <2>3. s.next[x] = r.next[x] /\ r.next[x] \in Heads(r) /\ ~r.free[r.next[x]]
        /\ r.next[x] # c
    <3>1. c \in Heads(r) /\ ~r.free[c]
      BY <1>3 DEF c
    <3> QED BY <1>5, <2>1, <2>2, <3>1, StillApart
  <2> QED BY <1>14, <2>2, <2>3
<1>18. \A i \in 2 .. Len(q) - 1 : NextBlock(r, q[i]) = q[i + 1]
  <2> SUFFICES ASSUME NEW i \in 2 .. Len(q) - 1, NextBlock(r, q[i]) # q[i + 1]
               PROVE  FALSE
    OBVIOUS
  <2>1. i \in 1 .. Len(q) - 1 /\ i \in 1 .. Len(q) /\ i # 1
    BY <1>1
  <2>2. NextBlock(r, q[i]) = l
    BY <2>1 DEF Shape, InOrder, Behind, l
  <2>3. q[i] \in Heads(r) /\ q[i] # c
    BY <1>1, <1>2, <2>1 DEF c
  <2>4. PrevBlock(r, NextBlock(r, q[i])) = q[i] /\ PrevBlock(r, NextBlock(r, c)) = c
    BY <1>0, <2>3, Round
  <2> QED BY <1>4, <2>2, <2>3, <2>4
<1>19. c = q[1] /\ u.consume = q[2]
  BY <1>4, <1>12 DEF c, d
<1>20. Kept(r, q, u)
  BY <1>13, <1>14, <1>15, <1>17, <1>18, <1>19 DEF Kept
<1> QED BY <1>16, <1>20

\* PopFirst takes the oldest item away and keeps the others, with their sizes.
LEMMA PopShape ==
  ASSUME NEW r, NEW q, Shape(r, q), Len(q) # 0
  PROVE  /\ Shape(PopFirst(r), Tail(q))
         /\ \A x \in Heads(r) : ~r.free[x] /\ x # q[1] =>
              x \in Heads(PopFirst(r)) /\ ~PopFirst(r).free[x]
              /\ PopFirst(r).size[x] = r.size[x]
<1>1. /\ q \in Seq(Places) /\ Len(q) \in Nat
      /\ \A a \in Heads(r) : ~r.free[a] => \E i \in 1 .. Len(q) : q[i] = a
  BY QueueFacts
<1>2. CASE Len(q) = 1
  <2>1. PopFirst(r) = Cleared /\ Tail(q) = << >>
    <3>1. Tail(q) \in Seq(Places) /\ Len(Tail(q)) = 0
      BY <1>1, <1>2
    <3>2. Tail(q) = << >>
      BY <3>1, EmptySeq
    <3> QED BY <1>2, <3>2, PopLast
  <2>2. \A x \in Heads(r) : ~r.free[x] => x = q[1]
    BY <1>1, <1>2
  <2> QED BY <2>1, <2>2, ClearedShape
<1>3. CASE Len(q) > 1
  <2>1. Kept(r, q, PopFirst(r))
    BY <1>3, PopNext, PopGap
  <2>2. Shape(PopFirst(r), Tail(q))
    BY <1>3, <2>1, KeptShape
  <2> QED BY <2>1, <2>2 DEF Kept
<1>4. Len(q) = 1 \/ Len(q) > 1
  <2>1. \A n \in Nat : n = 0 \/ n = 1 \/ n > 1
    OBVIOUS
  <2>2. Len(q) \in Nat
    BY <1>1
  <2> QED BY <2>1, <2>2, Zenon
<1> QED BY <1>2, <1>3, <1>4, Zenon

-----------------------------------------------------------------------------
(* Allocating an item.                                                     *)

\* The block Allocate takes is free and large enough.  When it is not the one
\* at the produce pointer, that one is the last block, and the oldest item is
\* right behind the first.
Fits(r, q, a, size) ==
  /\ a \in Heads(r) /\ r.free[a] /\ r.size[a] >= size
  /\ a # r.produce => /\ a = First /\ Len(q) # 0 /\ r.produce = r.last /\ First # r.last
                      /\ r.free[r.last] /\ NextBlock(r, First) = q[1]
  /\ Len(q) = 0 => a = First

LEMMA Fitting ==
  ASSUME NEW r, NEW q, Shape(r, q), NEW size, NEW a, a = BlockFor(r, size), a # Null
  PROVE  Fits(r, q, a, size)
<1> DEFINE n == Len(q)
           z == r.produce
<1>1. /\ Tiling(r) /\ n \in Nat
      /\ \A i \in 1 .. n : q[i] \in Heads(r) /\ ~r.free[q[i]]
      /\ n = 0 => r = Cleared
      /\ n # 0 => z = NextBlock(r, q[n])
      /\ z \in Heads(r)
  BY QueueFacts
<1>2. First \in Heads(r)
  BY <1>1 DEF Tiling
<1>3. \/ a = z /\ r.free[z] /\ r.size[z] >= size
      \/ a = First /\ r.free[z] /\ r.free[First] /\ r.size[First] >= size
  BY DEF BlockFor
<1>4. a \in Heads(r) /\ r.free[a] /\ r.size[a] >= size
  BY <1>1, <1>2, <1>3
<1>5. n = 0 => a = First
  BY <1>1, <1>3, ClearedShape
<1>6. ASSUME a # z
      PROVE  /\ a = First /\ n # 0 /\ z = r.last /\ First # r.last
             /\ r.free[r.last] /\ NextBlock(r, First) = q[1]
  <2>1. a = First /\ r.free[z] /\ r.free[First] /\ z # First
    BY <1>3, <1>6
  <2>2. n # 0
    BY <1>1, <2>1, ClearedShape
  <2>3. NextBlock(r, z) # q[1]
    <3> SUFFICES ASSUME NextBlock(r, z) = q[1] PROVE FALSE
      OBVIOUS
    <3>1. 1 \in 1 .. n /\ n \in 1 .. n
      BY <1>1, <2>2
    <3>2. q[1] \in Heads(r) /\ ~r.free[q[1]] /\ q[n] \in Heads(r)
      BY <1>1, <3>1
    <3>0. Tiling(r) /\ z \in Heads(r)
      BY <1>1
    <3>3. z # r.last
      <4>1. z = r.last => NextBlock(r, z) = First
        BY <3>0, Round
      <4> QED BY <2>1, <3>2, <4>1
    <3>4. q[1] > z
      BY <3>0, <3>3, Round, BlockNext
    <3>5. PrevBlock(r, z) = q[n]
      BY <1>1, <2>2, <3>0, <3>2, Round
    <3>6. q[n] < z
      <4>1. z # First
        BY <2>1
      <4>2. PrevBlock(r, z) = r.prev[z]
        BY <3>0, <4>1, Round
      <4>3. r.prev[z] < z
        BY <3>0, <4>1, BlockPrev
      <4> QED BY <3>5, <4>2, <4>3
    <3>7. q[1] \in Nat /\ z \in Nat /\ q[n] \in Nat
      BY <3>0, <3>2, Block
    <3>8. \A m \in 1 .. n : q[m] # First
      BY <1>1, <2>1
    <3>9. 1 < n => q[1] < q[n]
      <4> HAVE 1 < n
      <4>1. \A m \in 1 + 1 .. n : q[m] # First
        BY <1>1, <3>8
      <4>2. \A i, j \in 1 .. n :
              i < j /\ (\A m \in i + 1 .. j : q[m] # First) => q[i] < q[j]
        BY DEF Shape, InOrder
      <4> QED BY <3>1, <4>1, <4>2
    <3>10. n = 1 \/ 1 < n
      <4>1. \A m \in Nat : m = 0 \/ m = 1 \/ 1 < m
        OBVIOUS
      <4> QED BY <1>1, <2>2, <4>1, Zenon
    <3> QED BY <3>4, <3>6, <3>7, <3>9, <3>10
  <2>4. z = r.last /\ First # r.last /\ NextBlock(r, First) = q[1]
    BY <2>1, <2>2, <2>3, InFront
  <2> QED BY <2>1, <2>2, <2>4
<1> HIDE DEF z, n
<1>7. z = r.produce /\ n = Len(q)
  BY DEF z, n
<1> QED BY <1>4, <1>5, <1>6, <1>7 DEF Fits

\* The block is cut to size, and what is left over follows it, or stays whole.
Cut(r, a, size, s) ==
  /\ Tiling(s) /\ s.produce = r.produce /\ s.consume = r.consume
  /\ a \in Heads(s) /\ s.size[a] >= size
  /\ \A x \in Heads(r) : /\ x \in Heads(s) /\ s.free[x] = r.free[x]
                         /\ x # a => /\ s.size[x] = r.size[x] /\ s.next[x] = r.next[x]
                                     /\ NextBlock(s, x) = NextBlock(r, x)
  /\ \/ s = r
     \/ \E new : /\ new \notin Heads(r) /\ Heads(s) = Heads(r) \cup {new} /\ s.free[new]
                 /\ NextBlock(s, a) = new /\ s.next[new] = r.next[a]
                 /\ s.last = IF r.last = a THEN new ELSE r.last

LEMMA Cutting ==
  ASSUME NEW r, Tiling(r), NEW a \in Heads(r), NEW size \in Nat \ {0}, r.size[a] >= size
  PROVE  Cut(r, a, size, Split(r, a, size))
<1> DEFINE s == Split(r, a, size)
           new == a + size
<1>1. a \in Places /\ r.size[a] \in Nat /\ \A x \in Heads(r) : x \in Places
  BY Block
<1>2. CASE r.size[a] <= size + 1
  <2>1. s = r
    BY <1>2 DEF Split
  <2>2. Cut(r, a, size, r)
    BY DEF Cut
  <2> QED BY <2>1, <2>2
<1>3. CASE ~(r.size[a] <= size + 1)
  <2>1. r.size[a] > size + 1 /\ r.size[a] > size
    BY <1>1, <1>3
  <2>2. SplitEffect(r, a, size, s)
    BY <2>1, SplitFields
  <2> HIDE DEF s
  <2>3. /\ Tiling(s) /\ Heads(s) = Heads(r) \cup {new} /\ new \in Places
        /\ new \notin Heads(r)
        /\ \A x \in Heads(s) : NextBlock(s, x) = IF x = a THEN new
                                                 ELSE IF x = new THEN NextBlock(r, a)
                                                 ELSE NextBlock(r, x)
    BY <2>1, <2>2, SplitTiles
  <2>4. a # new
    BY <2>3
  <2>5. s.produce = r.produce /\ s.consume = r.consume
    BY <2>2 DEF SplitEffect
  <2>6. s.size[a] >= size
    BY <1>1, <2>2 DEF SplitEffect
  <2>7. ASSUME NEW x \in Heads(r)
        PROVE  /\ x \in Heads(s) /\ s.free[x] = r.free[x]
               /\ x # a => /\ s.size[x] = r.size[x] /\ s.next[x] = r.next[x]
                           /\ NextBlock(s, x) = NextBlock(r, x)
    <3>1. x \in Places /\ x # new /\ x \in Heads(s)
      BY <1>1, <2>3
    <3>2. s.free[x] = r.free[x]
      BY <2>2, <3>1 DEF SplitEffect
    <3>3. x # a => s.size[x] = r.size[x] /\ s.next[x] = r.next[x]
      BY <2>2, <3>1 DEF SplitEffect
    <3>4. x # a => NextBlock(s, x) = NextBlock(r, x)
      BY <2>3, <3>1
    <3> QED BY <3>1, <3>2, <3>3, <3>4
  <2>8. /\ new \notin Heads(r) /\ Heads(s) = Heads(r) \cup {new} /\ s.free[new]
        /\ NextBlock(s, a) = new /\ s.next[new] = r.next[a]
        /\ s.last = IF r.last = a THEN new ELSE r.last
    <3>1. s.free[new]
      BY <2>2, <2>3 DEF SplitEffect
    <3>2. s.next[new] = r.next[a]
      BY <2>2, <2>3, <2>4 DEF SplitEffect
    <3>3. s.last = IF r.last = a THEN new ELSE r.last
      <4>1. r.next[a] = Null <=> a = r.last
        BY BlockNext
      <4> QED BY <2>2, <4>1 DEF SplitEffect
    <3> QED BY <2>3, <3>1, <3>2, <3>3
  <2> HIDE DEF new
  <2>9. Cut(r, a, size, s)
    BY <2>3, <2>5, <2>6, <2>7, <2>8 DEF Cut
  <2> QED BY <2>9 DEF s
<1> QED BY <1>2, <1>3

\* The block is marked used and the produce pointer goes behind it.
Taken(r, a, size, t) ==
  \E s : /\ Cut(r, a, size, s)
         /\ t = [s EXCEPT !.produce = NextBlock(s, a), !.free[a] = FALSE]

\* What that says of the blocks: new is what was cut off, or Null.
TakenFrom(r, a, size, new, t) ==
  /\ Tiling(t) /\ t.consume = r.consume /\ t.produce = NextBlock(t, a)
  /\ a \in Heads(t) /\ ~t.free[a] /\ t.size[a] >= size
  /\ \A x \in Heads(r) : /\ x \in Heads(t)
                         /\ x # a => /\ t.free[x] = r.free[x] /\ t.size[x] = r.size[x]
                                     /\ t.next[x] = r.next[x]
                                     /\ NextBlock(t, x) = NextBlock(r, x)
  /\ new \notin Heads(r) /\ Heads(t) \subseteq Heads(r) \cup {new}
  /\ new \in Heads(t) => t.free[new] /\ t.next[new] = r.next[a]
  /\ t.produce = new \/ t.produce = NextBlock(r, a)
  /\ r.last # a => t.last = r.last

LEMMA Taking ==
  ASSUME NEW r, Tiling(r), NEW a \in Heads(r), NEW size, NEW t, Taken(r, a, size, t)
  PROVE  \E new : TakenFrom(r, a, size, new, t)
<1>1. PICK s : /\ Cut(r, a, size, s)
               /\ t = [s EXCEPT !.produce = NextBlock(s, a), !.free[a] = FALSE]
  BY DEF Taken
<1>2. Tiling(s) /\ s \in Rings /\ a \in Heads(s) /\ a \in Places
      /\ \A x \in Heads(s) : x \in Places
  BY <1>1 DEF Cut, Tiling, Heads
<1> DEFINE v == NextBlock(s, a)
<1>3. v \in Places
  BY <1>2, Round
<1> HIDE DEF v
<1>4. t = [s EXCEPT !.produce = v, !.free[a] = FALSE]
  BY <1>1 DEF v
<1>5. t.free = [s.free EXCEPT ![a] = FALSE]
  BY <1>2, <1>4 DEF Rings
<1>6. s.free \in [Places -> BOOLEAN]
  BY <1>2 DEF Rings
<1>7. ~t.free[a] /\ \A x \in Places : x # a => t.free[x] = s.free[x]
  BY <1>2, <1>5, <1>6
<1>8. t.prev = s.prev /\ t.next = s.next
  BY <1>2, <1>4 DEF Rings
<1>9. t.size = s.size /\ t.last = s.last
  BY <1>2, <1>4 DEF Rings
<1>10. t.consume = s.consume /\ t.produce = v
  BY <1>2, <1>4 DEF Rings
<1>11. t \in Rings
  BY <1>2, <1>3, <1>4 DEF Rings
<1>12. Marked(s, a, t)
  BY <1>7, <1>8, <1>9, <1>11 DEF Marked
<1>13. /\ Tiling(t) /\ Heads(t) = Heads(s)
       /\ \A x \in Heads(s) : NextBlock(t, x) = NextBlock(s, x)
  BY <1>2, <1>12, MarkTiles
<1>14. t.produce = NextBlock(t, a)
  BY <1>2, <1>10, <1>13 DEF v
<1>15. t.consume = r.consume /\ t.size[a] >= size
  BY <1>1, <1>9, <1>10 DEF Cut
<1>16. ASSUME NEW x \in Heads(r)
       PROVE  /\ x \in Heads(t)
              /\ x # a => /\ t.free[x] = r.free[x] /\ t.size[x] = r.size[x]
                          /\ t.next[x] = r.next[x] /\ NextBlock(t, x) = NextBlock(r, x)
  <2>1. x \in Heads(s) /\ x \in Places /\ s.free[x] = r.free[x]
    BY <1>1, <1>2 DEF Cut
  <2>2. x # a => /\ s.size[x] = r.size[x] /\ s.next[x] = r.next[x]
                 /\ NextBlock(s, x) = NextBlock(r, x)
    BY <1>1 DEF Cut
  <2> QED BY <1>7, <1>8, <1>9, <1>13, <2>1, <2>2
<1>17. CASE s = r
  <2>1. Null \notin Heads(r)
    BY Block
  <2>2. t.produce = NextBlock(r, a) /\ t.last = r.last /\ Heads(t) = Heads(r)
    BY <1>9, <1>10, <1>13, <1>17 DEF v
  <2>3. TakenFrom(r, a, size, Null, t)
    BY <1>2, <1>7, <1>13, <1>14, <1>15, <1>16, <2>1, <2>2 DEF TakenFrom
  <2> QED BY <2>3
<1>18. CASE s # r
  <2>1. PICK new : /\ new \notin Heads(r) /\ Heads(s) = Heads(r) \cup {new} /\ s.free[new]
                   /\ NextBlock(s, a) = new /\ s.next[new] = r.next[a]
                   /\ s.last = IF r.last = a THEN new ELSE r.last
    BY <1>1, <1>18 DEF Cut
  <2>2. new \in Places /\ new # a
    BY <1>2, <2>1
  <2>3. t.free[new] /\ t.next[new] = r.next[a] /\ t.produce = new
    BY <1>7, <1>8, <1>10, <2>1, <2>2 DEF v
  <2>4. r.last # a => t.last = r.last
    BY <1>9, <2>1
  <2>5. TakenFrom(r, a, size, new, t)
    BY <1>2, <1>7, <1>13, <1>14, <1>15, <1>16, <2>1, <2>3, <2>4 DEF TakenFrom
  <2> QED BY <2>5
<1> QED BY <1>17, <1>18

\* The item joins the queue at its end; the others stay where they are.
LEMMA TakeShape ==
  ASSUME NEW r, NEW q, Shape(r, q), NEW size, NEW a, Fits(r, q, a, size),
         NEW new, NEW t, TakenFrom(r, a, size, new, t)
  PROVE  Shape(t, Append(q, a))
<1> DEFINE n == Len(q)
           p == Append(q, a)
<1>1. /\ Tiling(r) /\ q \in Seq(Places) /\ n \in Nat
      /\ \A i \in 1 .. n : q[i] \in Heads(r) /\ q[i] \in Places /\ ~r.free[q[i]]
      /\ \A i, j \in 1 .. n : q[i] = q[j] => i = j
      /\ \A x \in Heads(r) : ~r.free[x] => \E i \in 1 .. n : q[i] = x
      /\ n # 0 => r.consume = q[1] /\ r.produce = NextBlock(r, q[n])
      /\ n = 0 => r = Cleared
      /\ r.produce \in Heads(r)
  BY QueueFacts
<1>2. /\ ApartBut(r, Null)
      /\ \A i \in 1 .. n - 1 : Behind(r, q[i], q[i + 1])
      /\ \A i, j \in 1 .. n : i < j /\ (\A m \in i + 1 .. j : q[m] # First) => q[i] < q[j]
  BY DEF Shape, InOrder
<1>3. a \in Heads(r) /\ r.free[a] /\ a \in Places
  BY DEF Fits, Heads
<1>4. \A x \in Heads(r) : r.free[x] /\ r.next[x] # Null => ~r.free[r.next[x]]
  BY <1>1, <1>2, Block DEF ApartBut
<1>5. \A i \in 1 .. n : q[i] # a /\ ~t.free[q[i]] /\ q[i] \in Heads(t)
                        /\ NextBlock(t, q[i]) = NextBlock(r, q[i])
  BY <1>1, <1>3 DEF TakenFrom
<1>6. p \in Seq(Places) /\ Len(p) = n + 1 /\ p[n + 1] = a /\ \A i \in 1 .. n : p[i] = q[i]
  BY <1>1, <1>3
<1> HIDE DEF n, p
<1>7. \A i \in 1 .. n + 1 : i \in 1 .. n \/ i = n + 1
  BY <1>1
<1>8. \A x \in Heads(t) : ~t.free[x] => \E i \in 1 .. n + 1 : p[i] = x
  <2> SUFFICES ASSUME NEW x \in Heads(t), ~t.free[x] PROVE \E i \in 1 .. n + 1 : p[i] = x
    OBVIOUS
  <2>1. CASE x = a
    <3>1. n + 1 \in 1 .. n + 1
      BY <1>1
    <3> QED BY <1>6, <2>1, <3>1
  <2>2. CASE x # a
    <3>1. x \in Heads(r) /\ ~r.free[x]
      BY <2>2 DEF TakenFrom
    <3>2. PICK i \in 1 .. n : q[i] = x
      BY <1>1, <3>1
    <3>3. i \in 1 .. n + 1
      BY <1>1
    <3> QED BY <1>6, <3>2, <3>3
  <2> QED BY <2>1, <2>2
<1>9. \A i \in 1 .. n + 1 : p[i] \in Heads(t) /\ ~t.free[p[i]]
  BY <1>5, <1>6, <1>7 DEF TakenFrom
<1>10. \A i, j \in 1 .. n + 1 : p[i] = p[j] => i = j
  BY <1>1, <1>5, <1>6, <1>7
<1>11. t.consume = p[1] /\ t.produce = NextBlock(t, p[n + 1])
  <2>1. CASE n = 0
    <3>1. r.consume = First /\ a = First
      BY <1>1, <2>1, ClearedShape DEF Fits, n
    <3>2. p[1] = a
      BY <1>6, <2>1
    <3> QED BY <1>6, <3>1, <3>2 DEF TakenFrom
  <2>2. CASE n # 0
    <3>1. 1 \in 1 .. n
      BY <1>1, <2>2
    <3> QED BY <1>1, <1>6, <2>2, <3>1 DEF TakenFrom
  <2> QED BY <2>1, <2>2
<1>12. a = r.produce => NextBlock(r, a) # r.last \/ ~r.free[r.last] \/ a = r.last
  <2> SUFFICES ASSUME a # r.last, r.free[r.last], NextBlock(r, a) = r.last PROVE FALSE
    OBVIOUS
  <2>1. r.next[a] = NextBlock(r, a) /\ r.next[a] # Null
    BY <1>1, <1>3, Round, BlockNext
  <2> QED BY <1>3, <1>4, <2>1
<1>13. ASSUME NEW i \in 1 .. n PROVE Behind(t, p[i], p[i + 1])
  <2>1. p[i] = q[i] /\ NextBlock(t, p[i]) = NextBlock(r, q[i])
    BY <1>5, <1>6
  <2>0. r.last \in Heads(r)
    BY <1>1 DEF Tiling
  <2>2. CASE i # n
    <3>1. i \in 1 .. n - 1 /\ i + 1 \in 1 .. n
      BY <1>1, <2>2
    <3>2. p[i + 1] = q[i + 1] /\ Behind(r, q[i], q[i + 1])
      BY <1>2, <1>6, <3>1
    <3>3. CASE NextBlock(r, q[i]) = q[i + 1]
      BY <2>1, <3>2, <3>3 DEF Behind
    <3>4. CASE NextBlock(r, q[i]) # q[i + 1]
      <4>1. NextBlock(r, q[i]) = r.last /\ r.free[r.last] /\ r.last # r.produce
            /\ q[i + 1] = First
        BY <3>2, <3>4 DEF Behind
      <4>2. a = r.produce
        BY <1>5, <3>1, <4>1 DEF Fits
      <4>3. t.last = r.last /\ t.free[t.last]
        BY <2>0, <4>1, <4>2 DEF TakenFrom
      <4>4. t.last # t.produce
        BY <1>12, <2>0, <4>1, <4>2, <4>3 DEF TakenFrom
      <4> QED BY <2>1, <3>2, <4>1, <4>3, <4>4 DEF Behind
    <3> QED BY <3>3, <3>4
  <2>3. CASE i = n
    <3>1. p[i + 1] = a /\ NextBlock(r, q[i]) = r.produce /\ n # 0
      BY <1>1, <1>6, <2>3
    <3>2. CASE a = r.produce
      BY <2>1, <3>1, <3>2 DEF Behind
    <3>3. CASE a # r.produce
      <4>1. a = First /\ r.produce = r.last /\ First # r.last /\ r.free[r.last]
            /\ NextBlock(r, First) = q[1]
        BY <3>3 DEF Fits
      <4>2. t.last = r.last /\ t.free[t.last]
        BY <2>0, <4>1 DEF TakenFrom
      <4>3. 1 \in 1 .. n
        BY <1>1, <3>1
      <4>4. t.last # t.produce
        BY <1>1, <2>0, <4>1, <4>2, <4>3 DEF TakenFrom
      <4> QED BY <2>1, <3>1, <4>1, <4>2, <4>4 DEF Behind
    <3> QED BY <3>2, <3>3
  <2> QED BY <2>2, <2>3
<1>14. ASSUME NEW i \in 1 .. n + 1, NEW j \in 1 .. n + 1, i < j,
              \A m \in i + 1 .. j : p[m] # First
       PROVE  p[i] < p[j]
  <2>1. i \in 1 .. n /\ p[i] = q[i]
    BY <1>1, <1>6, <1>14
  <2>2. CASE j \in 1 .. n
    <3>1. \A m \in i + 1 .. j : q[m] # First
      <4>1. \A m \in i + 1 .. j : m \in 1 .. n
        BY <1>1, <2>2
      <4> QED BY <1>6, <1>14, <4>1
    <3>2. q[i] < q[j]
      BY <1>2, <1>14, <2>1, <2>2, <3>1
    <3> QED BY <1>6, <2>1, <2>2, <3>2
  <2>3. CASE j = n + 1
    <3>1. a # First /\ p[j] = a
      <4>1. j \in i + 1 .. j
        BY <1>1, <1>14
      <4> QED BY <1>6, <1>14, <2>3, <4>1
    <3>2. a = r.produce /\ n # 0 /\ n \in 1 .. n
      BY <1>1, <2>1, <3>1 DEF Fits
    <3>3. q[n] < a
      <4>1. PrevBlock(r, a) = q[n]
        BY <1>1, <3>2, Round
      <4>2. PrevBlock(r, a) = r.prev[a]
        BY <1>1, <1>3, <3>1, Round
      <4>3. r.prev[a] < a
        BY <1>1, <1>3, <3>1, BlockPrev
      <4> QED BY <4>1, <4>2, <4>3
    <3>4. CASE i = n
      BY <2>1, <3>1, <3>3, <3>4
    <3>5. CASE i # n
      <4>1. i < n
        BY <1>1, <2>1, <3>5
      <4>2. \A m \in i + 1 .. n : q[m] # First
        <5>1. \A m \in i + 1 .. n : m \in 1 .. n /\ m \in i + 1 .. j
          BY <1>1, <2>1, <2>3
        <5> QED BY <1>6, <1>14, <5>1
      <4>3. q[i] < q[n]
        BY <1>2, <2>1, <3>2, <4>1, <4>2
      <4>4. q[i] \in Nat /\ q[n] \in Nat /\ a \in Nat
        BY <1>1, <1>3, <2>1, <3>2, PlaceNumbers
      <4> QED BY <2>1, <3>1, <3>3, <4>3, <4>4
    <3> QED BY <3>4, <3>5
  <2> QED BY <1>7, <2>2, <2>3
<1>15. InOrder(t, p)
  <2>1. Len(p) # 0 /\ \A i \in 1 .. Len(p) - 1 : i \in 1 .. n
    BY <1>1, <1>6
  <2>2. \A i \in 1 .. Len(p) - 1 : Behind(t, p[i], p[i + 1])
    BY <1>13, <2>1
  <2>3. \A i, j \in 1 .. Len(p) :
          i < j /\ (\A m \in i + 1 .. j : p[m] # First) => p[i] < p[j]
    BY <1>6, <1>14
  <2> QED BY <1>6, <1>8, <1>9, <1>10, <1>11, <2>1, <2>2, <2>3 DEF InOrder
<1>16. ApartBut(t, Null)
  <2> SUFFICES ASSUME NEW x \in Heads(t), t.free[x], t.next[x] # Null
               PROVE  ~t.free[t.next[x]]
    BY DEF ApartBut
  <2>1. x # a
    BY DEF TakenFrom
  <2>2. ASSUME NEW y \in Heads(r), r.free[y], t.next[x] = r.next[y]
        PROVE  ~t.free[t.next[x]]
    <3>1. r.next[y] \in Heads(r) /\ ~r.free[r.next[y]]
      BY <1>1, <1>4, <2>2, BlockNext
    <3> QED BY <2>2, <3>1 DEF TakenFrom
  <2>3. CASE x \in Heads(r)
    <3>1. r.free[x] /\ t.next[x] = r.next[x]
      BY <2>1, <2>3 DEF TakenFrom
    <3> QED BY <2>2, <2>3, <3>1
  <2>4. CASE x \notin Heads(r)
    <3>1. x = new /\ t.next[x] = r.next[a]
      BY <2>4 DEF TakenFrom
    <3> QED BY <1>3, <2>2, <3>1
  <2> QED BY <2>3, <2>4
<1>17. Tiling(t)
  BY DEF TakenFrom
<1> QED BY <1>15, <1>16, <1>17 DEF Shape, p

-----------------------------------------------------------------------------
(* The loop of Allocate that drops items.                                  *)

\* There are no more items than places.
LEMMA FewItems ==
  ASSUME NEW r, NEW q, Shape(r, q)
  PROVE  Len(q) <= Size
<1>1. /\ Len(q) \in Nat /\ \A i \in 1 .. Len(q) : q[i] \in Places
      /\ \A i, j \in 1 .. Len(q) : q[i] = q[j] => i = j
  BY QueueFacts
<1> DEFINE f == [i \in 1 .. Len(q) |-> q[i]]
<1>2. f \in Injection(1 .. Len(q), Places)
  BY <1>1 DEF Injection, IsInjective
<1> HIDE DEF f
<1>3. Size \in Nat \ {0} /\ 0 \in Int /\ Size - 1 \in Int /\ 1 \in Int /\ Len(q) \in Int
  BY <1>1, RingNumbers
<1>4. IsFiniteSet(Places) /\ Cardinality(Places) = Size
  BY <1>3, FS_Interval DEF Places
<1>5. Cardinality(1 .. Len(q)) = Len(q)
  <2>1. ASSUME NEW n \in Nat PROVE Cardinality(1 .. n) = n
    <3>1. Cardinality(1 .. n) = IF 1 > n THEN 0 ELSE n - 1 + 1
      BY FS_Interval
    <3> QED BY <3>1
  <2> QED BY <1>1, <2>1
<1>6. Cardinality(1 .. Len(q)) <= Cardinality(Places)
  BY <1>2, <1>4, FS_Injection
<1> QED BY <1>4, <1>5, <1>6

\* The items that are left when the oldest j are gone.
Rest(q, j) == SubSeq(q, j + 1, Len(q))

LEMMA RestFacts ==
  ASSUME NEW q \in Seq(Places), NEW j \in 0 .. Len(q)
  PROVE  /\ Rest(q, j) \in Seq(Places) /\ Len(Rest(q, j)) = Len(q) - j
         /\ \A i \in 1 .. Len(q) - j : Rest(q, j)[i] = q[i + j]
         /\ Rest(q, 0) = q
         /\ j < Len(q) => j + 1 \in 0 .. Len(q) /\ Tail(Rest(q, j)) = Rest(q, j + 1)
<1>1. ASSUME NEW k \in 0 .. Len(q)
      PROVE  /\ Rest(q, k) \in Seq(Places) /\ Len(Rest(q, k)) = Len(q) - k
             /\ \A i \in 1 .. Len(q) - k : Rest(q, k)[i] = q[i + k]
  <2>1. /\ Len(q) \in Nat /\ k + 1 \in Int /\ Len(q) \in Int
        /\ \A i \in k + 1 .. Len(q) : i \in 1 .. Len(q)
    OBVIOUS
  <2>2. \A i \in k + 1 .. Len(q) : q[i] \in Places
    BY <2>1
  <2>3. /\ Rest(q, k) \in Seq(Places)
        /\ Len(Rest(q, k)) = IF k + 1 <= Len(q) THEN Len(q) - (k + 1) + 1 ELSE 0
        /\ \A i \in 1 .. Len(q) - (k + 1) + 1 : Rest(q, k)[i] = q[(k + 1) + i - 1]
    BY <2>1, <2>2, SubSeqProperties DEF Rest
  <2>4. Len(Rest(q, k)) = Len(q) - k
    BY <2>1, <2>3
  <2>5. \A i \in 1 .. Len(q) - k : Rest(q, k)[i] = q[i + k]
    <3> SUFFICES ASSUME NEW i \in 1 .. Len(q) - k PROVE Rest(q, k)[i] = q[i + k]
      OBVIOUS
    <3>1. i \in 1 .. Len(q) - (k + 1) + 1 /\ (k + 1) + i - 1 = i + k
      BY <2>1
    <3> QED BY <2>3, <3>1
  <2> QED BY <2>3, <2>4, <2>5
<1>2. Len(q) \in Nat /\ 0 \in 0 .. Len(q)
  OBVIOUS
<1>3. Rest(q, 0) = q
  <2>1. /\ Rest(q, 0) \in Seq(Places) /\ Len(Rest(q, 0)) = Len(q)
        /\ \A i \in 1 .. Len(q) : Rest(q, 0)[i] = q[i]
    BY <1>1, <1>2
  <2> QED BY <2>1, SeqEqual
<1>4. ASSUME j < Len(q)
      PROVE  j + 1 \in 0 .. Len(q) /\ Tail(Rest(q, j)) = Rest(q, j + 1)
  <2>1. j + 1 \in 0 .. Len(q) /\ Len(q) - j \in Nat /\ Len(q) - j # 0
        /\ (Len(q) - j) - 1 = Len(q) - (j + 1)
    BY <1>2, <1>4
  <2> DEFINE t == Rest(q, j)
             u == Rest(q, j + 1)
  <2>2. /\ t \in Seq(Places) /\ Len(t) = Len(q) - j
        /\ \A i \in 1 .. Len(q) - j : t[i] = q[i + j]
    BY <1>1
  <2>3. /\ u \in Seq(Places) /\ Len(u) = Len(q) - (j + 1)
        /\ \A i \in 1 .. Len(q) - (j + 1) : u[i] = q[i + (j + 1)]
    BY <1>1, <2>1
  <2> HIDE DEF t, u
  <2>4. /\ Tail(t) \in Seq(Places) /\ Len(Tail(t)) = Len(q) - (j + 1)
        /\ \A i \in 1 .. Len(q) - (j + 1) : Tail(t)[i] = t[i + 1]
    <3>1. t # << >>
      BY <2>1, <2>2
    <3>2. /\ Tail(t) \in Seq(Places) /\ Len(Tail(t)) = Len(t) - 1
          /\ \A i \in 1 .. Len(Tail(t)) : Tail(t)[i] = t[i + 1]
      BY <2>2, <3>1, HeadTailProperties
    <3>3. Len(Tail(t)) = Len(q) - (j + 1)
      BY <2>1, <2>2, <3>2
    <3> QED BY <3>2, <3>3
  <2>5. \A i \in 1 .. Len(q) - (j + 1) : Tail(t)[i] = u[i]
    <3> SUFFICES ASSUME NEW i \in 1 .. Len(q) - (j + 1) PROVE Tail(t)[i] = u[i]
      OBVIOUS
    <3>1. i + 1 \in 1 .. Len(q) - j /\ (i + 1) + j = i + (j + 1)
      BY <1>2
    <3> QED BY <2>2, <2>3, <2>4, <3>1
  <2>6. Tail(t) = u
    BY <2>3, <2>4, <2>5, SeqEqual
  <2> QED BY <2>1, <2>6 DEF t, u
<1> QED BY <1>1, <1>3, <1>4

\* Allocate goes on dropping items.
Dropping(h, size) == BlockFor(h, size) = Null /\ recycle /\ ~h.free[h.consume]

\* h is what is left of r when the oldest j of the items of q were dropped.
RoomMade(r, q, j, h) ==
  /\ j \in 0 .. Len(q) /\ Shape(h, Rest(q, j)) /\ (j > 0 => recycle)
  /\ \A x \in Heads(r) : ~r.free[x] /\ (\A i \in 1 .. j : q[i] # x) =>
       x \in Heads(h) /\ ~h.free[x] /\ h.size[x] = r.size[x]

\* Another turn of the loop drops one more.
LEMMA RoomTurn ==
  ASSUME NEW r, NEW q, Shape(r, q), NEW j, NEW h, RoomMade(r, q, j, h),
         NEW size, Dropping(h, size)
  PROVE  j < Len(q) /\ RoomMade(r, q, j + 1, PopFirst(h))
<1>1. q \in Seq(Places) /\ Len(q) \in Nat
  BY QueueFacts
<1>2. j \in 0 .. Len(q) /\ j \in Nat /\ Shape(h, Rest(q, j))
  BY <1>1 DEF RoomMade
<1>3. /\ Len(Rest(q, j)) = Len(q) - j
      /\ \A i \in 1 .. Len(q) - j : Rest(q, j)[i] = q[i + j]
  BY <1>1, <1>2, RestFacts
<1>4. Len(q) - j # 0
  <2> SUFFICES ASSUME Len(q) - j = 0 PROVE FALSE
    OBVIOUS
  <2>1. h = Cleared
    BY <1>2, <1>3, QueueFacts
  <2> QED BY <2>1, ClearedShape DEF Dropping
<1>5. j < Len(q)
  BY <1>1, <1>2, <1>4
<1>6. j + 1 \in 0 .. Len(q) /\ Tail(Rest(q, j)) = Rest(q, j + 1)
  BY <1>1, <1>2, <1>5, RestFacts
<1>7. /\ Shape(PopFirst(h), Tail(Rest(q, j)))
      /\ \A x \in Heads(h) : ~h.free[x] /\ x # Rest(q, j)[1] =>
           x \in Heads(PopFirst(h)) /\ ~PopFirst(h).free[x]
           /\ PopFirst(h).size[x] = h.size[x]
  BY <1>2, <1>3, <1>4, PopShape
<1>8. Rest(q, j)[1] = q[j + 1]
  <2>1. 1 \in 1 .. Len(q) - j /\ 1 + j = j + 1
    BY <1>1, <1>2, <1>5
  <2> QED BY <1>3, <2>1
<1> DEFINE p == PopFirst(h)
<1> HIDE DEF p
<1>9. ASSUME NEW x \in Heads(r), ~r.free[x], \A i \in 1 .. j + 1 : q[i] # x
      PROVE  x \in Heads(p) /\ ~p.free[x] /\ p.size[x] = r.size[x]
  <2>1. j + 1 \in 1 .. j + 1 /\ \A i \in 1 .. j : i \in 1 .. j + 1
    BY <1>2
  <2>2. x \in Heads(h) /\ ~h.free[x] /\ h.size[x] = r.size[x]
    BY <1>9, <2>1 DEF RoomMade
  <2>3. x # Rest(q, j)[1]
    BY <1>8, <1>9, <2>1
  <2> QED BY <1>7, <2>2, <2>3 DEF p
<1>10. Shape(p, Rest(q, j + 1))
  BY <1>6, <1>7 DEF p
<1>11. recycle
  BY DEF Dropping
<1>12. RoomMade(r, q, j + 1, p)
  BY <1>6, <1>9, <1>10, <1>11 DEF RoomMade
<1> QED BY <1>5, <1>12 DEF p

\* The loop ends with a block for the item, or because nothing may be dropped.
LEMMA RoomShape ==
  ASSUME NEW r, NEW q, Shape(r, q), NEW size
  PROVE  ~Dropping(MakeRoom(r, size), size)
         /\ \E j : RoomMade(r, q, j, MakeRoom(r, size))
<1> DEFINE turn == [h \in Rings |-> IF BlockFor(h, size) = Null /\ recycle
                                       /\ ~h.free[h.consume]
                                    THEN PopFirst(h) ELSE h]
           D == {h \in Rings : \E s : Shape(h, s)}
<1>1. MakeRoom(r, size) = Loop(turn, r)
  BY DEF MakeRoom
<1>2. \A h \in Rings : turn[h] = IF Dropping(h, size) THEN PopFirst(h) ELSE h
  BY DEF Dropping
<1> HIDE DEF turn
<1>3. r \in D
  BY QueueFacts
<1>4. ASSUME NEW h \in D PROVE turn[h] \in D
  <2>1. PICK s : Shape(h, s)
    OBVIOUS
  <2>2. CASE ~Dropping(h, size)
    BY <1>2, <2>2
  <2>3. CASE Dropping(h, size)
    <3>1. Len(s) # 0
      BY <2>1, <2>3, QueueFacts, ClearedShape DEF Dropping
    <3>2. Shape(PopFirst(h), Tail(s))
      BY <2>1, <3>1, PopShape
    <3>3. PopFirst(h) \in Rings
      BY <3>2, QueueFacts
    <3> QED BY <1>2, <2>3, <3>2, <3>3
  <2> QED BY <2>2, <2>3
<1>5. \A h \in D : h \in Rings
  OBVIOUS
<1> HIDE DEF D
<1>6. PICK f \in [Nat -> D] : /\ f[0] = r
                              /\ \A n \in Nat : f[n + 1] = turn[f[n]]
                              /\ Loop(turn, r) = f[Size]
  <2>1. \A h \in D : turn[h] \in D
    BY <1>4
  <2>2. \E f : Turns(D, turn, r, f)
    BY <1>3, <2>1, Looping
  <2> QED BY <2>2 DEF Turns
<1> DEFINE T == {n \in Nat : \E j : RoomMade(r, q, j, f[n]) /\ (Dropping(f[n], size) => j = n)}
<1>7. 0 \in T
  <2>1. q \in Seq(Places) /\ 0 \in 0 .. Len(q)
    BY QueueFacts
  <2>2. Rest(q, 0) = q
    BY <2>1, RestFacts
  <2>3. RoomMade(r, q, 0, r)
    BY <2>1, <2>2 DEF RoomMade
  <2> QED BY <1>6, <2>3
<1>8. ASSUME NEW n \in Nat, n \in T PROVE n + 1 \in T
  <2>1. PICK j : RoomMade(r, q, j, f[n]) /\ (Dropping(f[n], size) => j = n)
    BY <1>8
  <2>2. f[n] \in Rings /\ f[n + 1] = turn[f[n]]
    BY <1>5, <1>6
  <2>3. CASE ~Dropping(f[n], size)
    <3>1. f[n + 1] = f[n]
      BY <1>2, <2>2, <2>3
    <3> QED BY <2>1, <2>3, <3>1
  <2>4. CASE Dropping(f[n], size)
    <3>1. f[n + 1] = PopFirst(f[n]) /\ j = n
      BY <1>2, <2>1, <2>2, <2>4
    <3>2. RoomMade(r, q, n + 1, f[n + 1])
      BY <2>1, <2>4, <3>1, RoomTurn
    <3> QED BY <3>2
  <2> QED BY <2>3, <2>4
<1> HIDE DEF T
<1>9. Size \in T
  <2>1. Nat \subseteq T
    BY <1>7, <1>8, Numbered
  <2> QED BY <2>1, RingNumbers
<1>10. PICK j : RoomMade(r, q, j, f[Size]) /\ (Dropping(f[Size], size) => j = Size)
  BY <1>9 DEF T
<1>11. ~Dropping(f[Size], size)
  <2> SUFFICES ASSUME Dropping(f[Size], size) PROVE FALSE
    OBVIOUS
  <2>1. j = Size /\ j < Len(q)
    BY <1>10, RoomTurn
  <2>2. Len(q) <= Size /\ Len(q) \in Nat /\ Size \in Nat
    BY FewItems, QueueFacts, RingNumbers
  <2> QED BY <2>1, <2>2
<1> QED BY <1>1, <1>6, <1>10, <1>11

-----------------------------------------------------------------------------
(* Walking over the items.                                                 *)

\* Only the first item can be at the produce pointer.
LEMMA FullAtFirst ==
  ASSUME NEW r, NEW q, Shape(r, q), NEW i \in 1 .. Len(q), q[i] = r.produce
  PROVE  i = 1 /\ ~r.free[r.produce]
<1>1. /\ Len(q) \in Nat /\ ~r.free[q[i]]
      /\ \A j, k \in 1 .. Len(q) : q[j] = q[k] => j = k
  BY QueueFacts
<1>2. Len(q) # 0 /\ 1 \in 1 .. Len(q)
  BY <1>1
<1>3. r.produce = q[1]
  BY <1>1, <1>2, InFront
<1> QED BY <1>1, <1>2, <1>3

\* Next() leads from each item to the one behind it, and from the last to Null.
LEMMA NextIs ==
  ASSUME NEW r, NEW q, Shape(r, q), NEW i \in 1 .. Len(q)
  PROVE  NextItem(r, q[i]) = IF i = Len(q) THEN Null ELSE q[i + 1]
<1> DEFINE n == Len(q)
           turn == [c \in Places |-> IF c # r.produce /\ r.free[c]
                                     THEN NextBlock(r, c) ELSE c]
           b == Loop(turn, NextBlock(r, q[i]))
<1>1. /\ Tiling(r) /\ n \in Nat
      /\ \A j \in 1 .. n : q[j] \in Heads(r) /\ q[j] \in Places /\ ~r.free[q[j]]
      /\ r.produce \in Places
      /\ n # 0 => r.produce = NextBlock(r, q[n])
      /\ r.last \in Places
  BY QueueFacts DEF Heads, Tiling
<1>2. NextItem(r, q[i]) = IF b = r.produce THEN Null ELSE b
  BY DEF NextItem
<1>3. \A c \in Places : turn[c] = IF c # r.produce /\ r.free[c] THEN NextBlock(r, c) ELSE c
  OBVIOUS
<1> HIDE DEF turn
<1>4. CASE i = n
  <2>1. NextBlock(r, q[i]) = r.produce
    BY <1>1, <1>4
  <2>2. turn[r.produce] = r.produce
    BY <1>1, <1>3
  <2>3. b = r.produce
    BY <2>1, <2>2, OneTurn
  <2> QED BY <1>2, <1>4, <2>3
<1>5. CASE i # n
  <2>1. i \in 1 .. n - 1 /\ i + 1 \in 1 .. n /\ i + 1 # 1
    BY <1>1, <1>5
  <2>2. Behind(r, q[i], q[i + 1])
    BY <2>1 DEF Shape, InOrder
  <2>3. q[i + 1] # r.produce
    BY <2>1, FullAtFirst
  <2>4. turn[q[i + 1]] = q[i + 1]
    BY <1>1, <1>3, <2>1
  <2>5. turn[NextBlock(r, q[i])] = q[i + 1]
    <3>1. CASE NextBlock(r, q[i]) = q[i + 1]
      BY <2>4, <3>1
    <3>2. CASE NextBlock(r, q[i]) # q[i + 1]
      <4>1. /\ NextBlock(r, q[i]) = r.last /\ r.free[r.last] /\ r.last # r.produce
            /\ q[i + 1] = First
        BY <2>2, <3>2 DEF Behind
      <4>2. NextBlock(r, r.last) = First
        BY <1>1 DEF Tiling, NextBlock
      <4> QED BY <1>1, <1>3, <4>1, <4>2
    <3> QED BY <3>1, <3>2
  <2>6. b = q[i + 1]
    BY <2>4, <2>5, OneTurn
  <2> QED BY <1>2, <1>5, <2>3, <2>6
<1> QED BY <1>4, <1>5

\* The items that the code walks over are those of the queue.
LEMMA ItemsAre ==
  ASSUME NEW r, NEW q, Shape(r, q)
  PROVE  Items(r) = q
<1> DEFINE step == [a \in Places |-> NextItem(r, a)]
<1>1. /\ q \in Seq(Places) /\ Len(q) \in Nat /\ Len(q) <= Size
      /\ \A i \in 1 .. Len(q) : q[i] \in Places /\ ~r.free[q[i]]
      /\ Len(q) = 0 => r = Cleared
      /\ Len(q) # 0 => r.consume = q[1]
  BY QueueFacts, FewItems
<1>2. \A i \in 1 .. Len(q) : step[q[i]] = IF i = Len(q) THEN Null ELSE q[i + 1]
  BY <1>1, NextIs
<1>3. Items(r) = IF r.free[r.consume] THEN << >> ELSE Walk(step, r.consume)
  BY DEF Items
<1> HIDE DEF step
<1>4. CASE Len(q) = 0
  <2>1. q = << >>
    BY <1>1, <1>4, EmptySeq
  <2>2. r.free[r.consume]
    BY <1>1, <1>4, ClearedShape
  <2> QED BY <1>3, <2>1, <2>2
<1>5. CASE Len(q) # 0
  <2>1. 1 \in 1 .. Len(q) /\ Len(q) \in 1 .. Len(q)
    BY <1>1, <1>5
  <2>2. /\ \A i \in 1 .. Len(q) - 1 : step[q[i]] = q[i + 1]
        /\ step[q[Len(q)]] = Null
    <3>1. \A i \in 1 .. Len(q) - 1 : i \in 1 .. Len(q) /\ i # Len(q)
      BY <1>1
    <3> QED BY <1>2, <2>1, <3>1
  <2>3. Walk(step, IF Len(q) = 0 THEN Null ELSE q[1]) = q
    BY <1>1, <2>2, WalkIs
  <2>4. Walk(step, r.consume) = q
    BY <1>1, <1>5, <2>3
  <2>5. ~r.free[r.consume]
    BY <1>1, <1>5, <2>1
  <2> QED BY <1>3, <2>4, <2>5
<1> QED BY <1>4, <1>5

\* Prev() leads from each item to the one before it.
LEMMA PrevIs ==
  ASSUME NEW r, NEW q, Shape(r, q), NEW i \in 1 .. Len(q), i # 1
  PROVE  PrevItem(r, q[i]) = IF q[i - 1] = r.produce THEN Null ELSE q[i - 1]
<1> DEFINE n == Len(q)
           turn == [c \in Places |-> IF c # r.produce /\ r.free[c]
                                     THEN PrevBlock(r, c) ELSE c]
           b == Loop(turn, PrevBlock(r, q[i]))
<1>1. /\ Tiling(r) /\ n \in Nat
      /\ \A j \in 1 .. n : q[j] \in Heads(r) /\ q[j] \in Places /\ ~r.free[q[j]]
      /\ r.last \in Places /\ r.last \in Heads(r)
  BY QueueFacts DEF Heads, Tiling
<1>2. PrevItem(r, q[i]) = IF b = r.produce THEN Null ELSE b
  BY DEF PrevItem
<1>3. \A c \in Places : turn[c] = IF c # r.produce /\ r.free[c] THEN PrevBlock(r, c) ELSE c
  OBVIOUS
<1> HIDE DEF turn
<1>4. i - 1 \in 1 .. n /\ i - 1 \in 1 .. n - 1 /\ (i - 1) + 1 = i
  BY <1>1
<1>5. Behind(r, q[i - 1], q[i])
  <2>1. Behind(r, q[i - 1], q[(i - 1) + 1])
    BY <1>4 DEF Shape, InOrder
  <2> QED BY <1>4, <2>1
<1>6. turn[q[i - 1]] = q[i - 1] /\ PrevBlock(r, NextBlock(r, q[i - 1])) = q[i - 1]
  <2>1. q[i - 1] \in Heads(r) /\ q[i - 1] \in Places /\ ~r.free[q[i - 1]]
    BY <1>1, <1>4
  <2> QED BY <1>1, <1>3, <2>1, Round
<1>7. turn[PrevBlock(r, q[i])] = q[i - 1]
  <2>1. CASE NextBlock(r, q[i - 1]) = q[i]
    BY <1>6, <2>1
  <2>2. CASE NextBlock(r, q[i - 1]) # q[i]
    <3>1. /\ NextBlock(r, q[i - 1]) = r.last /\ r.free[r.last] /\ r.last # r.produce
          /\ q[i] = First
      BY <1>5, <2>2 DEF Behind
    <3>2. PrevBlock(r, First) = r.last
      BY <1>1 DEF Tiling, PrevBlock
    <3> QED BY <1>1, <1>3, <1>6, <3>1, <3>2
  <2> QED BY <2>1, <2>2
<1>8. b = q[i - 1]
  BY <1>6, <1>7, OneTurn
<1> QED BY <1>2, <1>8

\* From the first item, and it leads to Null.
LEMMA PrevOfFirst ==
  ASSUME NEW r, NEW q, Shape(r, q), Len(q) # 0, r.free[r.produce]
  PROVE  PrevItem(r, q[1]) = Null
<1> DEFINE turn == [c \in Places |-> IF c # r.produce /\ r.free[c]
                                     THEN PrevBlock(r, c) ELSE c]
           b == Loop(turn, PrevBlock(r, q[1]))
<1>1. /\ Tiling(r) /\ First \in Heads(r) /\ r.produce \in Heads(r)
      /\ First \in Places /\ r.produce \in Places
  BY QueueFacts DEF Heads, Tiling
<1>2. PrevItem(r, q[1]) = IF b = r.produce THEN Null ELSE b
  BY DEF PrevItem
<1>3. \A c \in Places : turn[c] = IF c # r.produce /\ r.free[c] THEN PrevBlock(r, c) ELSE c
  OBVIOUS
<1> HIDE DEF turn
<1>4. turn[r.produce] = r.produce
  BY <1>1, <1>3
<1>5. turn[PrevBlock(r, q[1])] = r.produce
  <2>1. CASE NextBlock(r, r.produce) = q[1]
    <3>1. PrevBlock(r, q[1]) = r.produce
      BY <1>1, <2>1, Round
    <3> QED BY <1>4, <3>1
  <2>2. CASE NextBlock(r, r.produce) # q[1]
    <3>1. /\ r.produce = r.last /\ r.free[First] /\ r.produce # First
          /\ NextBlock(r, First) = q[1]
      BY <2>2, InFront
    <3>2. PrevBlock(r, q[1]) = First
      BY <1>1, <3>1, Round
    <3>3. PrevBlock(r, First) = r.last
      BY <1>1 DEF Tiling, PrevBlock
    <3> QED BY <1>1, <1>3, <3>1, <3>2, <3>3
  <2> QED BY <2>1, <2>2
<1>6. b = r.produce
  BY <1>4, <1>5, OneTurn
<1> QED BY <1>2, <1>6

\* Last() is Prev() of the produce pointer.
LEMMA LastIs ==
  ASSUME NEW r, NEW q, Shape(r, q)
  PROVE  PrevItem(r, r.produce) =
           IF Len(q) = 0 \/ q[Len(q)] = r.produce THEN Null ELSE q[Len(q)]
<1> DEFINE n == Len(q)
           turn == [c \in Places |-> IF c # r.produce /\ r.free[c]
                                     THEN PrevBlock(r, c) ELSE c]
           b == Loop(turn, PrevBlock(r, r.produce))
<1>1. /\ Tiling(r) /\ n \in Nat
      /\ \A j \in 1 .. n : q[j] \in Heads(r) /\ q[j] \in Places /\ ~r.free[q[j]]
      /\ r.produce \in Places
      /\ n = 0 => r = Cleared
      /\ n # 0 => r.produce = NextBlock(r, q[n])
  BY QueueFacts DEF Heads, Tiling
<1>2. PrevItem(r, r.produce) = IF b = r.produce THEN Null ELSE b
  BY DEF PrevItem
<1>3. \A c \in Places : turn[c] = IF c # r.produce /\ r.free[c] THEN PrevBlock(r, c) ELSE c
  OBVIOUS
<1> HIDE DEF turn
<1>4. CASE n = 0
  <2>1. PrevBlock(r, r.produce) = r.produce
    BY <1>1, <1>4 DEF Cleared, PrevBlock
  <2>2. turn[r.produce] = r.produce
    BY <1>1, <1>3
  <2>3. b = r.produce
    BY <2>1, <2>2, OneTurn
  <2> QED BY <1>2, <1>4, <2>3
<1>5. CASE n # 0
  <2>1. q[n] \in Heads(r) /\ q[n] \in Places /\ ~r.free[q[n]]
    BY <1>1, <1>5
  <2>2. PrevBlock(r, r.produce) = q[n]
    BY <1>1, <1>5, <2>1, Round
  <2>3. turn[q[n]] = q[n]
    BY <1>3, <2>1
  <2>4. b = q[n]
    BY <2>2, <2>3, OneTurn
  <2> QED BY <1>2, <1>5, <2>4
<1> QED BY <1>4, <1>5

\* The items in reverse order, without the oldest one when the buffer is full.
Reversed(q, full) ==
  [i \in 1 .. IF full THEN Len(q) - 1 ELSE Len(q) |-> q[Len(q) + 1 - i]]

LEMMA ItemsBackAre ==
  ASSUME NEW r, NEW q, Shape(r, q)
  PROVE  ItemsBack(r) = Reversed(q, ~r.free[r.produce])
<1> DEFINE n == Len(q)
           full == ~r.free[r.produce]
           m == IF full THEN n - 1 ELSE n
           back == [i \in 1 .. m |-> q[n + 1 - i]]
           step == [a \in Places |-> PrevItem(r, a)]
<1>1. /\ n \in Nat /\ n <= Size
      /\ \A i \in 1 .. n : q[i] \in Places
      /\ \A i, j \in 1 .. n : q[i] = q[j] => i = j
      /\ n = 0 => r = Cleared
  BY QueueFacts, FewItems
<1>2. full => n # 0 /\ q[1] = r.produce
  <2> HAVE full
  <2>1. n # 0
    BY <1>1, ClearedShape
  <2> QED BY <2>1, InFront
<1>3. \A i \in 1 .. n : q[i] = r.produce <=> full /\ i = 1
  <2>1. \A i \in 1 .. n : q[i] = r.produce => full /\ i = 1
    BY FullAtFirst
  <2> QED BY <1>2, <2>1
<1>4. \A i \in 1 .. n : i # 1 =>
        step[q[i]] = IF q[i - 1] = r.produce THEN Null ELSE q[i - 1]
  BY <1>1, PrevIs
<1>5. n # 0 /\ ~full => step[q[1]] = Null
  <2> HAVE n # 0 /\ ~full
  <2>1. PrevItem(r, q[1]) = Null
    BY PrevOfFirst
  <2>2. q[1] \in Places
    BY <1>1
  <2> QED BY <2>1, <2>2
<1>6. PrevItem(r, r.produce) = IF n = 0 \/ q[n] = r.produce THEN Null ELSE q[n]
  BY LastIs
<1>7. ItemsBack(r) = Walk(step, PrevItem(r, r.produce))
  BY DEF ItemsBack
<1>8. /\ m \in Nat /\ m <= n /\ m <= Size /\ Size \in Nat
      /\ (full => m = n - 1) /\ (~full => m = n)
  BY <1>1, <1>2, RingNumbers
<1>9. back = Reversed(q, full)
  BY DEF Reversed
<1> HIDE DEF m
<1>10. \A i \in 1 .. m : n + 1 - i \in 1 .. n
  BY <1>1, <1>8
<1>11. back \in Seq(Places) /\ Len(back) = m /\ \A i \in 1 .. m : back[i] = q[n + 1 - i]
  <2>1. \A i \in 1 .. m : q[n + 1 - i] \in Places
    BY <1>1, <1>10
  <2>2. back \in [1 .. m -> Places]
    BY <2>1
  <2>3. \A i \in 1 .. m : back[i] = q[n + 1 - i]
    OBVIOUS
  <2> HIDE DEF back
  <2>4. back \in Seq(Places)
    BY <1>8, <2>2, SeqDef
  <2>5. Len(back) = m
    BY <1>8, <2>2
  <2> QED BY <2>3, <2>4, <2>5
<1> HIDE DEF back, step, full
<1>12. \A i \in 1 .. m - 1 : step[back[i]] = back[i + 1]
  <2> SUFFICES ASSUME NEW i \in 1 .. m - 1 PROVE step[back[i]] = back[i + 1]
    OBVIOUS
  <2>1. /\ i \in 1 .. m /\ i + 1 \in 1 .. m /\ n + 1 - (i + 1) = (n + 1 - i) - 1
        /\ n + 1 - i # 1
    BY <1>1, <1>8
  <2>2. (n + 1 - i) - 1 \in 1 .. n /\ (full => (n + 1 - i) - 1 # 1)
    BY <1>1, <1>8, <1>10, <2>1
  <2>3. n + 1 - i \in 1 .. n
    BY <1>10, <2>1
  <2>4. q[(n + 1 - i) - 1] # r.produce
    BY <1>3, <2>2
  <2>5. step[q[n + 1 - i]] = q[(n + 1 - i) - 1]
    BY <1>4, <2>1, <2>3, <2>4
  <2> QED BY <1>11, <2>1, <2>5
<1>13. Len(back) # 0 => step[back[Len(back)]] = Null
  <2> HAVE Len(back) # 0
  <2>1. m # 0 /\ m \in 1 .. m /\ n # 0
    BY <1>8, <1>11
  <2>2. back[Len(back)] = q[n + 1 - m]
    BY <1>11, <2>1
  <2>3. CASE full
    <3>1. n + 1 - m = 2 /\ 2 \in 1 .. n /\ 1 \in 1 .. n
      BY <1>1, <1>8, <2>1, <2>3
    <3>2. step[q[2]] = IF q[1] = r.produce THEN Null ELSE q[1]
      BY <1>4, <3>1
    <3> QED BY <1>2, <2>2, <2>3, <3>1, <3>2
  <2>4. CASE ~full
    <3>1. n + 1 - m = 1
      BY <1>1, <1>8, <2>4
    <3> QED BY <1>5, <2>1, <2>2, <2>4, <3>1
  <2> QED BY <2>3, <2>4
<1>14. PrevItem(r, r.produce) = IF Len(back) = 0 THEN Null ELSE back[1]
  <2>1. CASE n = 0
    <3>1. m = 0
      BY <1>8, <2>1
    <3> QED BY <1>6, <1>11, <2>1, <3>1
  <2>2. CASE n # 0
    <3>1. n \in 1 .. n
      BY <1>1, <2>2
    <3>2. q[n] = r.produce <=> full /\ n = 1
      BY <1>3, <3>1
    <3>3. m = 0 <=> full /\ n = 1
      <4>1. full => (m = 0 <=> n = 1)
        BY <1>1, <1>8, <2>2
      <4>2. ~full => m # 0
        BY <1>1, <1>8, <2>2
      <4> QED BY <4>1, <4>2
    <3>4. m # 0 => 1 \in 1 .. m /\ n + 1 - 1 = n
      BY <1>1, <1>8
    <3> QED BY <1>6, <1>11, <2>2, <3>2, <3>3, <3>4
  <2> QED BY <2>1, <2>2
<1>15. Walk(step, IF Len(back) = 0 THEN Null ELSE back[1]) = back
  <2>1. Len(back) <= Size /\ \A i \in 1 .. Len(back) - 1 : step[back[i]] = back[i + 1]
    BY <1>8, <1>11, <1>12
  <2> QED BY <1>11, <1>13, <2>1, WalkIs
<1> QED BY <1>7, <1>9, <1>14, <1>15 DEF full

-----------------------------------------------------------------------------
(* Walking over the blocks.                                                *)

\* Walking from the first block by the links meets all blocks and ends with the
\* last one.
Enumerated(r, b) ==
  /\ Len(b) \in Nat \ {0} /\ DOMAIN b = 1 .. Len(b)
  /\ b[1] = First /\ b[Len(b)] = r.last
  /\ \A i \in 1 .. Len(b) : b[i] \in Heads(r)
  /\ \A i \in 1 .. Len(b) - 1 : b[i + 1] = r.next[b[i]]
  /\ \A x \in Heads(r) : \E i \in 1 .. Len(b) : b[i] = x

\* The walk goes up, so that it ends.
LEMMA BlockWalk ==
  ASSUME NEW r, Tiling(r)
  PROVE  \E f, stop : /\ f \in [Nat -> Heads(r) \cup {Null}] /\ Walks(r.next, First, f)
                      /\ Walk(r.next, First) = [i \in 1 .. stop |-> f[i - 1]]
                      /\ stop \in 1 .. Size /\ f[stop] = Null
                      /\ \A m \in Nat : m < stop => f[m] # Null
<1> DEFINE D == Heads(r)
<1>1. /\ D \subseteq Places /\ First \in D /\ Null \notin D
      /\ \A x \in D : x \in Nat /\ x < Size
  BY Block DEF Tiling, Heads
<1>2. \A x \in D : r.next[x] \in D \cup {Null} /\ (r.next[x] # Null => r.next[x] > x)
  BY BlockNext
<1>3. PICK f : WalkIn(D, r.next, First, f)
  <2> HIDE DEF D
  <2>1. \A x \in D : r.next[x] \in D \cup {Null}
    BY <1>2
  <2>2. First \in D \cup {Null}
    BY <1>1
  <2> QED BY <1>1, <2>1, <2>2, WalkingOn
<1>4. /\ f \in [Nat -> D \cup {Null}] /\ Walks(r.next, First, f)
      /\ Walk(r.next, First) = [i \in 1 .. Steps(f) |-> f[i - 1]]
  BY <1>3 DEF WalkIn
<1>5. f[0] = First /\ \A n \in Nat : f[n + 1] = IF f[n] = Null THEN Null ELSE r.next[f[n]]
  BY <1>4 DEF Walks
<1> DEFINE T == {n \in Nat : f[n] # Null => f[n] >= n}
<1>6. 0 \in T
  BY <1>5, PlaceNumbers
<1>7. ASSUME NEW n \in Nat, n \in T PROVE n + 1 \in T
  <2>1. CASE f[n + 1] = Null
    BY <2>1
  <2>2. CASE f[n + 1] # Null
    <3>1. f[n] # Null /\ f[n + 1] = r.next[f[n]]
      BY <1>5, <2>2
    <3>2. f[n] \in D /\ f[n + 1] \in D
      BY <1>4, <2>2, <3>1
    <3>3. f[n + 1] > f[n] /\ f[n] >= n
      BY <1>2, <1>7, <2>2, <3>1, <3>2
    <3> QED BY <1>1, <3>2, <3>3
  <2> QED BY <2>1, <2>2
<1>8. Nat \subseteq T
  <2> HIDE DEF T
  <2> QED BY <1>6, <1>7, Numbered
<1>9. f[Size] = Null
  <2> SUFFICES ASSUME f[Size] # Null PROVE FALSE
    OBVIOUS
  <2>1. Size \in Nat
    BY RingNumbers
  <2>2. f[Size] \in D /\ f[Size] >= Size
    BY <1>4, <1>8, <2>1
  <2> QED BY <1>1, <2>1, <2>2
<1> DEFINE U == {n \in Nat : f[n] = Null}
<1>10. PICK stop \in U : \A j \in U : stop <= j
  <2>1. U \subseteq Nat /\ U # {}
    BY <1>9, RingNumbers
  <2> HIDE DEF U
  <2> QED BY <2>1, Least
<1>11. /\ stop \in Nat /\ f[stop] = Null /\ stop <= Size /\ Size \in Nat
       /\ \A m \in Nat : m < stop => f[m] # Null
  <2>1. stop \in Nat /\ f[stop] = Null
    OBVIOUS
  <2>2. stop <= Size /\ Size \in Nat
    BY <1>9, <1>10, RingNumbers
  <2>3. ASSUME NEW m \in Nat, m < stop, f[m] = Null PROVE FALSE
    <3>1. stop <= m
      BY <1>10, <2>3
    <3> QED BY <2>1, <2>3, <3>1
  <2> QED BY <2>1, <2>2, <2>3
<1>12. stop # 0
  BY <1>1, <1>5, <1>11
<1>13. stop \in 1 .. Size /\ stop \in 0 .. Size + 1
  BY <1>11, <1>12
<1>14. Steps(f) = stop
  BY <1>4, <1>11, <1>13, WalkLength
<1> QED BY <1>4, <1>11, <1>13, <1>14

LEMMA BlocksAre ==
  ASSUME NEW r, Tiling(r)
  PROVE  Enumerated(r, Blocks(r))
<1> DEFINE b == Blocks(r)
<1>1. PICK f, stop :
        /\ f \in [Nat -> Heads(r) \cup {Null}] /\ Walks(r.next, First, f)
        /\ Walk(r.next, First) = [i \in 1 .. stop |-> f[i - 1]]
        /\ stop \in 1 .. Size /\ f[stop] = Null
        /\ \A m \in Nat : m < stop => f[m] # Null
  BY BlockWalk
<1>2. f[0] = First /\ \A n \in Nat : f[n + 1] = IF f[n] = Null THEN Null ELSE r.next[f[n]]
  BY <1>1 DEF Walks
<1>3. stop \in Nat /\ stop # 0 /\ Size \in Nat
  BY <1>1, RingNumbers
<1>4. b = [i \in 1 .. stop |-> f[i - 1]]
  BY <1>1 DEF Blocks
<1> HIDE DEF b
<1>5. DOMAIN b = 1 .. stop /\ \A i \in 1 .. stop : b[i] = f[i - 1]
  BY <1>4
<1>6. \A m \in Nat : m < stop => f[m] \in Heads(r)
  BY <1>1
<1>7. \A i \in 1 .. stop : b[i] \in Heads(r)
  <2> SUFFICES ASSUME NEW i \in 1 .. stop PROVE b[i] \in Heads(r)
    OBVIOUS
  <2>1. i - 1 \in Nat /\ i - 1 < stop
    BY <1>3
  <2> QED BY <1>5, <1>6, <2>1
<1>8. Len(b) = stop
  <2>1. b \in [1 .. stop -> Heads(r)]
    BY <1>4, <1>5, <1>7
  <2> QED BY <1>3, <2>1
<1>9. b[1] = First
  BY <1>2, <1>3, <1>5
<1>10. b[stop] = r.last
  <2>1. stop - 1 \in Nat /\ stop - 1 < stop /\ (stop - 1) + 1 = stop /\ stop \in 1 .. stop
    BY <1>3
  <2>2. f[stop - 1] \in Heads(r) /\ f[stop - 1] # Null
    BY <1>1, <1>6, <2>1
  <2>3. r.next[f[stop - 1]] = Null
    BY <1>1, <1>2, <2>1, <2>2
  <2>4. f[stop - 1] = r.last
    BY <2>2, <2>3, BlockNext
  <2> QED BY <1>5, <2>1, <2>4
<1>11. \A i \in 1 .. stop - 1 : b[i + 1] = r.next[b[i]]
  <2> SUFFICES ASSUME NEW i \in 1 .. stop - 1 PROVE b[i + 1] = r.next[b[i]]
    OBVIOUS
  <2>1. /\ i \in 1 .. stop /\ i + 1 \in 1 .. stop /\ i - 1 \in Nat /\ i - 1 < stop
        /\ (i + 1) - 1 = (i - 1) + 1
    BY <1>3
  <2>2. f[i - 1] # Null
    BY <1>1, <2>1
  <2> QED BY <1>2, <1>5, <2>1, <2>2
<1>12. \A x \in Heads(r) : \E i \in 1 .. stop : b[i] = x
  <2> DEFINE U == {x \in Heads(r) : \A i \in 1 .. stop : b[i] # x}
  <2> SUFFICES ASSUME U # {} PROVE FALSE
    OBVIOUS
  <2>1. U \subseteq Nat
    BY Block
  <2>2. PICK x \in U : \A y \in U : x <= y
    <3> HIDE DEF U
    <3> QED BY <2>1, Least
  <2>3. x \in Heads(r) /\ \A i \in 1 .. stop : b[i] # x
    OBVIOUS
  <2>4. x # First
    <3>1. 1 \in 1 .. stop
      BY <1>3
    <3> QED BY <1>9, <2>3, <3>1
  <2>5. r.prev[x] \in Heads(r) /\ r.next[r.prev[x]] = x /\ r.prev[x] < x
    BY <2>3, <2>4, BlockPrev
  <2>6. r.prev[x] \in Nat /\ x \in Nat /\ x # Null
    BY <2>3, <2>5, Block
  <2>7. PICK i \in 1 .. stop : b[i] = r.prev[x]
    <3>1. r.prev[x] \notin U
      BY <2>2, <2>5, <2>6
    <3> QED BY <2>5, <3>1
  <2>8. i # stop
    BY <1>10, <2>3, <2>5, <2>6, <2>7, BlockNext
  <2>9. i \in 1 .. stop - 1 /\ i + 1 \in 1 .. stop
    BY <1>3, <2>8
  <2> QED BY <1>11, <2>3, <2>5, <2>7, <2>9
<1>13. Enumerated(r, b)
  BY <1>3, <1>5, <1>7, <1>8, <1>9, <1>10, <1>11, <1>12 DEF Enumerated
<1> QED BY <1>13 DEF b

-----------------------------------------------------------------------------
(* The invariant and its steps.                                            *)

\* The inductive invariant: the memory has the shape that the items the code
\* would walk over call for, and every item fits into its block.
RingIInv ==
  /\ RingTypeOK
  /\ Shape(ring, Items(ring)) /\ FitIn(ring, wanted) /\ RefusedOnlyWhenFull

LEMMA RingStarts == RingInit => RingIInv /\ Queue!Init
<1> SUFFICES ASSUME RingInit PROVE RingIInv /\ Queue!Init
  OBVIOUS
<1>1. /\ recycle \in BOOLEAN
      /\ ring = Cleared /\ wanted = [a \in Places |-> 0] /\ refusedSize = 0
  BY DEF RingInit
<1>2. Shape(ring, << >>) /\ Items(ring) = << >>
  BY <1>1, ClearedShape, ItemsAre
<1>3. ring \in Rings
  BY <1>2, QueueFacts
<1>4. RingTypeOK
  BY <1>1, <1>3 DEF RingTypeOK
<1>5. FitIn(ring, wanted)
  BY <1>1 DEF FitIn
<1>6. RefusedOnlyWhenFull
  BY <1>1 DEF RefusedOnlyWhenFull
<1>7. Queue!Init
  BY <1>1, <1>2 DEF Queue!Init
<1> QED BY <1>2, <1>4, <1>5, <1>6, <1>7 DEF RingIInv

\* A state with a shape, fitting items and no refusal satisfies the invariant.
LEMMA Shaped ==
  ASSUME NEW q, Shape(ring', q), FitIn(ring, wanted)', recycle' \in BOOLEAN,
         wanted' \in [Places -> Requests \cup {0}], refusedSize' \in Requests \cup {0},
         refusedSize' = 0 \/ refusedSize' > Size \/ (~recycle' /\ q # << >>)
  PROVE  RingIInv' /\ Items(ring)' = q
<1>1. Items(ring') = q
  BY ItemsAre
<1>2. ring' \in Rings
  BY QueueFacts
<1>3. RingTypeOK'
  BY <1>2 DEF RingTypeOK
<1>4. RefusedOnlyWhenFull'
  BY <1>1 DEF RefusedOnlyWhenFull
<1> QED BY <1>1, <1>3, <1>4 DEF RingIInv

LEMMA ClearStep ==
  ASSUME RingIInv, Clear
  PROVE  RingIInv' /\ Queue!Clear
<1>1. /\ ring' = Cleared /\ wanted' = [a \in Places |-> 0] /\ refusedSize' = 0
      /\ recycle' = recycle /\ recycle \in BOOLEAN
  BY DEF Clear, RingIInv, RingTypeOK
<1>2. Shape(ring', << >>)
  BY <1>1, ClearedShape
<1>3. FitIn(ring, wanted)'
  BY <1>1 DEF FitIn
<1>4. RingIInv' /\ Items(ring)' = << >>
  BY <1>1, <1>2, <1>3, Shaped
<1> QED BY <1>1, <1>4 DEF Queue!Clear

LEMMA PopStep ==
  ASSUME RingIInv, Pop
  PROVE  RingIInv' /\ Queue!Pop
<1> DEFINE q == Items(ring)
           c == ring.consume
<1>1. /\ ~ring.free[c] /\ ring' = PopFirst(ring) /\ wanted' = [wanted EXCEPT ![c] = 0]
      /\ refusedSize' = 0 /\ recycle' = recycle
  BY DEF Pop
<1>2. /\ Shape(ring, q) /\ FitIn(ring, wanted) /\ recycle \in BOOLEAN
      /\ wanted \in [Places -> Requests \cup {0}]
  BY DEF RingIInv, RingTypeOK
<1> HIDE DEF q
<1>3. /\ q \in Seq(Places) /\ Len(q) \in Nat /\ (Len(q) # 0 => c = q[1]) /\ c \in Places
      /\ Len(q) = 0 => ring = Cleared
  BY <1>2, QueueFacts DEF Heads
<1>4. Len(q) # 0 /\ q # << >>
  BY <1>1, <1>3, ClearedShape
<1>5. /\ Shape(ring', Tail(q))
      /\ \A x \in Heads(ring) : ~ring.free[x] /\ x # q[1] =>
           x \in Heads(ring') /\ ~ring'.free[x] /\ ring'.size[x] = ring.size[x]
  BY <1>1, <1>2, <1>4, PopShape
<1>6. wanted' \in [Places -> Requests \cup {0}]
  BY <1>1, <1>2
<1>7. FitIn(ring', wanted')
  <2> SUFFICES ASSUME NEW a \in Places, wanted'[a] # 0
               PROVE  a \in Heads(ring') /\ ~ring'.free[a] /\ wanted'[a] <= ring'.size[a]
    BY DEF FitIn
  <2>1. a # c /\ wanted'[a] = wanted[a]
    BY <1>1, <1>2
  <2>2. a \in Heads(ring) /\ ~ring.free[a] /\ wanted[a] <= ring.size[a]
    BY <1>2, <2>1 DEF FitIn
  <2> QED BY <1>3, <1>4, <1>5, <2>1, <2>2
<1>8. RingIInv' /\ Items(ring)' = Tail(q)
  BY <1>1, <1>2, <1>5, <1>6, <1>7, Shaped
<1> QED BY <1>1, <1>4, <1>8 DEF Queue!Pop, q

\* What is left keeps its size, when the oldest items are dropped.
LEMMA RoomFits ==
  ASSUME NEW r, NEW q, Shape(r, q), NEW w, FitIn(r, w), NEW j, NEW h, RoomMade(r, q, j, h)
  PROVE  FitIn(h, InUse(h, w))
<1> SUFFICES ASSUME NEW a \in Places, InUse(h, w)[a] # 0
             PROVE  a \in Heads(h) /\ ~h.free[a] /\ InUse(h, w)[a] <= h.size[a]
  BY DEF FitIn
<1>1. h.size[a] # 0 /\ ~h.free[a] /\ InUse(h, w)[a] = w[a] /\ w[a] # 0
  BY DEF InUse
<1>2. a \in Heads(h)
  BY <1>1 DEF Heads
<1>3. a \in Heads(r) /\ ~r.free[a] /\ w[a] <= r.size[a]
  BY <1>1 DEF FitIn
<1>4. /\ q \in Seq(Places) /\ Len(q) \in Nat /\ j \in 0 .. Len(q)
      /\ \A i, k \in 1 .. Len(q) : q[i] = q[k] => i = k
  BY QueueFacts DEF RoomMade
<1>5. PICK i \in 1 .. Len(Rest(q, j)) : Rest(q, j)[i] = a
  <2>1. Shape(h, Rest(q, j))
    BY DEF RoomMade
  <2> QED BY <1>1, <1>2, <2>1, QueueFacts
<1>6. i \in 1 .. Len(q) - j /\ q[i + j] = a
  <2>1. Len(Rest(q, j)) = Len(q) - j
    BY <1>4, RestFacts
  <2>2. i \in 1 .. Len(q) - j
    BY <1>5, <2>1
  <2> QED BY <1>4, <1>5, <2>2, RestFacts
<1>7. \A k \in 1 .. j : q[k] # a
  <2>1. i + j \in 1 .. Len(q) /\ i + j > j
    BY <1>4, <1>6
  <2>2. \A k \in 1 .. j : k \in 1 .. Len(q) /\ k # i + j
    BY <1>4, <2>1
  <2> QED BY <1>4, <1>6, <2>1, <2>2
<1>8. h.size[a] = r.size[a]
  BY <1>3, <1>7 DEF RoomMade
<1> QED BY <1>1, <1>2, <1>3, <1>8

\* And keeps it when the new item is there.
LEMMA TakenFits ==
  ASSUME NEW h, NEW s, Shape(h, s), NEW size, NEW a, Fits(h, s, a, size),
         NEW new, NEW t, TakenFrom(h, a, size, new, t), NEW w, FitIn(h, w),
         w \in [Places -> Requests \cup {0}]
  PROVE  FitIn(t, [w EXCEPT ![a] = size])
<1> DEFINE v == [w EXCEPT ![a] = size]
<1> SUFFICES ASSUME NEW x \in Places, v[x] # 0
             PROVE  x \in Heads(t) /\ ~t.free[x] /\ v[x] <= t.size[x]
  BY DEF FitIn
<1>1. CASE x = a
  <2>1. v[x] = size
    BY <1>1
  <2>2. x \in Heads(t) /\ ~t.free[x] /\ t.size[x] >= size
    BY <1>1 DEF TakenFrom
  <2> QED BY <2>1, <2>2
<1>2. CASE x # a
  <2>1. v[x] = w[x]
    BY <1>2
  <2>2. x \in Heads(h) /\ ~h.free[x] /\ w[x] <= h.size[x]
    BY <2>1 DEF FitIn
  <2> QED BY <1>2, <2>1, <2>2 DEF TakenFrom
<1> QED BY <1>1, <1>2

\* An empty buffer has a block for every size that fits.
LEMMA RefusedFull ==
  ASSUME NEW h, NEW s, Shape(h, s), NEW size \in Nat, size <= Size,
         BlockFor(h, size) = Null, ~Dropping(h, size)
  PROVE  ~recycle /\ s # << >>
<1>1. Len(s) # 0
  <2> SUFFICES ASSUME Len(s) = 0 PROVE FALSE
    OBVIOUS
  <2>1. h = Cleared
    BY QueueFacts
  <2>2. h.free[h.produce] /\ h.size[h.produce] = Size /\ h.produce = First
    BY <2>1, ClearedShape
  <2>3. h.size[h.produce] >= size /\ First # Null
    BY <2>2, RingNumbers, PlaceNumbers
  <2>4. BlockFor(h, size) = First
    BY <2>2, <2>3 DEF BlockFor
  <2> QED BY <2>3, <2>4
<1>2. h.consume = s[1] /\ ~h.free[s[1]]
  <2>1. 1 \in 1 .. Len(s)
    BY <1>1, QueueFacts
  <2> QED BY <1>1, <2>1, QueueFacts
<1>3. s # << >>
  BY <1>1, EmptySeq
<1> QED BY <1>2, <1>3 DEF Dropping

\* The promise's step for an item that was taken at the end.
LEMMA Pushing ==
  ASSUME NEW q, q = Items(ring), NEW j \in 0 .. Len(q), j > 0 => recycle,
         NEW a \in Places, \A i \in DOMAIN Rest(q, j) : Rest(q, j)[i] # a,
         Items(ring)' = Append(Rest(q, j), a), recycle' = recycle, q \in Seq(Places)
  PROVE  Queue!Next
<1>1. a \in Places \ {Rest(q, j)[i] : i \in DOMAIN Rest(q, j)}
  OBVIOUS
<1>2. j = 0 \/ recycle
  OBVIOUS
<1>3. Rest(q, j) = SubSeq(Items(ring), j + 1, Len(Items(ring)))
  BY DEF Rest
<1>4. Queue!Push(j)
  BY <1>1, <1>2, <1>3 DEF Queue!Push
<1>5. j \in 0 .. Len(Items(ring))
  OBVIOUS
<1> QED BY <1>4, <1>5 DEF Queue!Next

\* Allocate with a room to take a block from, or to be refused in.
AllocateIn(size, room, a) ==
  LET split == Split(room, a, size)
  IN \/ /\ a # Null
        /\ ring' = [split EXCEPT !.produce = NextBlock(split, a), !.free[a] = FALSE]
        /\ wanted' = [InUse(room, wanted) EXCEPT ![a] = size]
        /\ refusedSize' = 0
     \/ /\ a = Null
        /\ ring' = room
        /\ wanted' = InUse(room, wanted)
        /\ refusedSize' = size

LEMMA AllocateStep ==
  ASSUME RingIInv, NEW size \in Requests, Allocate(size)
  PROVE  RingIInv' /\ (Queue!Next \/ (Items(ring)' = Items(ring) /\ recycle' = recycle))
<1> DEFINE q == Items(ring)
           room == IF size > Size THEN ring ELSE MakeRoom(ring, size)
           a == IF size > Size THEN Null ELSE BlockFor(room, size)
           w == InUse(room, wanted)
<1>1. AllocateIn(size, room, a) /\ recycle' = recycle
  BY DEF Allocate, AllocateIn
<1>2. /\ Shape(ring, q) /\ FitIn(ring, wanted) /\ recycle \in BOOLEAN
      /\ wanted \in [Places -> Requests \cup {0}] /\ size \in Nat \ {0} /\ Size \in Nat
  BY RingNumbers DEF RingIInv, RingTypeOK
<1> HIDE DEF q
<1>3. w \in [Places -> Requests \cup {0}]
  BY <1>2 DEF InUse
<1>4. q \in Seq(Places) /\ Len(q) \in Nat /\ 0 \in 0 .. Len(q) /\ Rest(q, 0) = q
  <2>1. q \in Seq(Places) /\ Len(q) \in Nat
    BY <1>2, QueueFacts
  <2>2. 0 \in 0 .. Len(q)
    BY <2>1
  <2> QED BY <2>1, <2>2, RestFacts
<1>5. CASE size > Size
  <2>1. room = ring /\ a = Null
    BY <1>5
  <2>2. ring' = ring /\ wanted' = w /\ refusedSize' = size
    BY <1>1, <2>1 DEF AllocateIn
  <2>3. RoomMade(ring, q, 0, ring)
    BY <1>2, <1>4 DEF RoomMade
  <2>4. FitIn(ring', wanted')
    BY <1>2, <2>1, <2>2, <2>3, RoomFits
  <2>5. RingIInv' /\ Items(ring)' = q
    BY <1>1, <1>2, <1>3, <1>5, <2>2, <2>4, Shaped
  <2> QED BY <1>1, <2>5 DEF q
<1>6. CASE ~(size > Size)
  <2>1. room = MakeRoom(ring, size) /\ a = BlockFor(room, size) /\ size <= Size
    BY <1>2, <1>6
  <2>2. ~Dropping(room, size) /\ \E j : RoomMade(ring, q, j, room)
    BY <1>2, <2>1, RoomShape
  <2> HIDE DEF room, a
  <2>3. PICK j : RoomMade(ring, q, j, room)
    BY <2>2
  <2>4. j \in 0 .. Len(q) /\ Shape(room, Rest(q, j)) /\ (j > 0 => recycle)
    BY <2>3 DEF RoomMade
  <2>5. FitIn(room, w)
    BY <1>2, <2>3, RoomFits
  <2> HIDE DEF w
  <2>6. CASE a = Null
    <3>1. ring' = room /\ wanted' = w /\ refusedSize' = size
      BY <1>1, <2>6 DEF AllocateIn, w
    <3>2. ~recycle /\ Rest(q, j) # << >>
      BY <1>2, <2>1, <2>2, <2>4, <2>6, RefusedFull
    <3>3. j = 0 /\ Rest(q, j) = q
      BY <1>4, <2>4, <3>2
    <3>4. RingIInv' /\ Items(ring)' = q
      BY <1>1, <1>2, <1>3, <2>4, <2>5, <3>1, <3>2, <3>3, Shaped
    <3> QED BY <1>1, <3>4 DEF q
  <2>7. CASE a # Null
    <3> DEFINE split == Split(room, a, size)
    <3>1. /\ ring' = [split EXCEPT !.produce = NextBlock(split, a), !.free[a] = FALSE]
          /\ wanted' = [w EXCEPT ![a] = size] /\ refusedSize' = 0
      BY <1>1, <2>7 DEF AllocateIn, w
    <3>2. Fits(room, Rest(q, j), a, size)
      BY <2>1, <2>4, <2>7, Fitting
    <3>3. Tiling(room) /\ a \in Heads(room) /\ room.size[a] >= size /\ room.free[a]
      BY <2>4, <3>2, QueueFacts DEF Fits
    <3>4. Cut(room, a, size, split)
      BY <1>2, <3>3, Cutting
    <3> HIDE DEF split
    <3>5. Taken(room, a, size, ring')
      BY <3>1, <3>4 DEF Taken
    <3>6. PICK new : TakenFrom(room, a, size, new, ring')
      BY <3>3, <3>5, Taking
    <3>7. Shape(ring', Append(Rest(q, j), a))
      BY <2>4, <3>2, <3>6, TakeShape
    <3>8. FitIn(ring', wanted')
      <4>1. w \in [Places -> Requests \cup {0}]
        BY <1>3 DEF w
      <4>2. FitIn(ring', [w EXCEPT ![a] = size])
        BY <2>4, <2>5, <3>2, <3>6, <4>1, TakenFits
      <4> QED BY <3>1, <4>2, Zenon
    <3>9. wanted' \in [Places -> Requests \cup {0}]
      BY <1>3, <3>1
    <3>10. RingIInv' /\ Items(ring)' = Append(Rest(q, j), a)
      BY <1>1, <1>2, <3>1, <3>7, <3>8, <3>9, Shaped
    <3>11. a \in Places /\ \A i \in DOMAIN Rest(q, j) : Rest(q, j)[i] # a
      <4>1. /\ Rest(q, j) \in Seq(Places)
            /\ \A i \in 1 .. Len(Rest(q, j)) : ~room.free[Rest(q, j)[i]]
        BY <2>4, QueueFacts
      <4>2. DOMAIN Rest(q, j) = 1 .. Len(Rest(q, j))
        BY <4>1, LenProperties
      <4> QED BY <3>3, <4>1, <4>2 DEF Heads
    <3>12. Queue!Next
      BY <1>1, <1>4, <2>4, <3>10, <3>11, Pushing DEF q
    <3> QED BY <3>10, <3>12
  <2> QED BY <2>6, <2>7
<1> QED BY <1>5, <1>6

-----------------------------------------------------------------------------
(* The theorems.                                                           *)

\* Every step keeps the invariant and is a step of the queue, or none.
LEMMA RingSteps ==
  ASSUME RingIInv, [RingNext]_ringVars
  PROVE  RingIInv' /\ [Queue!Next]_<<recycle, Items(ring)>>
<1>1. CASE Pop
  BY <1>1, PopStep DEF Queue!Next
<1>2. CASE Clear
  BY <1>2, ClearStep DEF Queue!Next
<1>3. CASE \E size \in Requests : Allocate(size)
  BY <1>3, AllocateStep
<1>4. CASE UNCHANGED ringVars
  <2>1. ring' = ring /\ wanted' = wanted /\ refusedSize' = refusedSize /\ recycle' = recycle
    BY <1>4 DEF ringVars
  <2>2. RingTypeOK' /\ Shape(ring, Items(ring))' /\ FitIn(ring, wanted)'
        /\ RefusedOnlyWhenFull' /\ Items(ring)' = Items(ring)
    BY <2>1 DEF RingIInv, RingTypeOK, RefusedOnlyWhenFull
  <2> QED BY <2>1, <2>2 DEF RingIInv
<1> QED BY <1>1, <1>2, <1>3, <1>4 DEF RingNext

LEMMA RingInvariant == RingSpec => []RingIInv
<1>1. RingInit => RingIInv
  BY RingStarts
<1>2. RingIInv /\ [RingNext]_ringVars => RingIInv'
  BY RingSteps
<1> QED BY <1>1, <1>2, PTL DEF RingSpec

\* Every variable of CRingBufferBase keeps its type: whatever was allocated and
\* popped, the pointers and links of the headers lead into the buffer.
THEOREM RingTypes == RingSpec => []RingTypeOK
<1>1. RingIInv => RingTypeOK
  BY DEF RingIInv
<1> QED BY <1>1, RingInvariant, PTL

\* What the invariant says of a walk over the blocks.
LEMMA TiledHolds ==
  ASSUME RingIInv
  PROVE  Tiled
<1> DEFINE b == Blocks(ring)
<1>1. /\ Shape(ring, Items(ring)) /\ FitIn(ring, wanted) /\ Tiling(ring)
      /\ ring.produce \in Heads(ring) /\ ring.consume \in Heads(ring)
  BY QueueFacts DEF RingIInv
<1>2. /\ Len(b) \in Nat \ {0} /\ DOMAIN b = 1 .. Len(b)
      /\ b[1] = First /\ b[Len(b)] = ring.last
      /\ \A i \in 1 .. Len(b) : b[i] \in Heads(ring)
      /\ \A i \in 1 .. Len(b) - 1 : b[i + 1] = ring.next[b[i]]
      /\ \A x \in Heads(ring) : \E i \in 1 .. Len(b) : b[i] = x
  BY <1>1, BlocksAre DEF Enumerated
<1> HIDE DEF b
<1>3. ASSUME NEW i \in DOMAIN b
      PROVE  /\ IF i < Len(b) THEN ring.next[b[i]] = b[i] + ring.size[b[i]]
                              ELSE b[i] + ring.size[b[i]] = Size
             /\ ring.prev[b[i]] = IF i = 1 THEN Null ELSE b[i - 1]
  <2>0. i \in 1 .. Len(b) /\ b[i] \in Heads(ring) /\ Len(b) \in Nat
    BY <1>2
  <2>1. ASSUME i < Len(b) PROVE ring.next[b[i]] = b[i] + ring.size[b[i]]
    <3>1. i \in 1 .. Len(b) - 1 /\ i + 1 \in 1 .. Len(b)
      BY <2>0, <2>1
    <3>2. ring.next[b[i]] = b[i + 1] /\ b[i + 1] \in Heads(ring)
      BY <1>2, <3>1
    <3>3. ring.next[b[i]] # Null
      BY <1>1, <3>2, Block
    <3>4. ring.next[b[i]] = End(ring, b[i])
      BY <1>1, <2>0, <3>3, BlockNext
    <3> QED BY <3>4 DEF End
  <2>2. ASSUME ~(i < Len(b)) PROVE b[i] + ring.size[b[i]] = Size
    <3>1. i = Len(b)
      BY <2>0, <2>2
    <3>2. End(ring, ring.last) = Size
      BY <1>1 DEF Tiling
    <3> QED BY <1>2, <3>1, <3>2 DEF End
  <2>3. ASSUME i = 1 PROVE ring.prev[b[i]] = Null
    BY <1>1, <1>2, <2>3 DEF Tiling
  <2>4. ASSUME i # 1 PROVE ring.prev[b[i]] = b[i - 1]
    <3>1. i - 1 \in 1 .. Len(b) - 1 /\ (i - 1) + 1 = i /\ i - 1 \in 1 .. Len(b)
      BY <2>0, <2>4
    <3>2. b[i] = ring.next[b[i - 1]] /\ b[i - 1] \in Heads(ring)
      BY <1>2, <3>1
    <3>3. ring.next[b[i - 1]] # Null
      BY <1>1, <2>0, <3>2, Block
    <3>4. ring.prev[ring.next[b[i - 1]]] = b[i - 1]
      BY <1>1, <3>2, <3>3, BlockNext
    <3> QED BY <3>2, <3>4
  <2> QED BY <2>1, <2>2, <2>3, <2>4
<1>4. ring.last = b[Len(b)]
  BY <1>2
<1>5. {ring.produce, ring.consume} \subseteq {b[i] : i \in DOMAIN b}
  BY <1>1, <1>2
<1>6. \A a \in Places : wanted[a] # 0 => wanted[a] <= ring.size[a]
  BY <1>1 DEF FitIn
<1> QED BY <1>3, <1>4, <1>5, <1>6 DEF Tiled, b

\* And of a walk backwards over the items.
LEMMA BackwardsHolds ==
  ASSUME RingIInv
  PROVE  BackwardsIsReverse
<1>1. Shape(ring, Items(ring))
  BY DEF RingIInv
<1>2. ItemsBack(ring) = Reversed(Items(ring), ~ring.free[ring.produce])
  BY <1>1, ItemsBackAre
<1> QED BY <1>2 DEF BackwardsIsReverse, Reversed

\* The memory can be walked through in both directions: the headers that
\* Allocate cuts and MergeBack joins tile the buffer, First() and Next() visit
\* the items and Last() and Prev() visit them in reverse order.
THEOREM WalkedBothWaysAlways == RingSpec => []WalkedBothWays
<1>1. RingIInv => WalkedBothWays
  BY TiledHolds, BackwardsHolds DEF WalkedBothWays
<1> QED BY <1>1, RingInvariant, PTL

\* Allocate returns nullptr for a size that fits the buffer only when there are
\* items it may not drop: nothing is lost to fragmentation when it is empty.
THEOREM RefusedOnlyWhenFullAlways == RingSpec => []RefusedOnlyWhenFull
<1>1. RingIInv => RefusedOnlyWhenFull
  BY DEF RingIInv
<1> QED BY <1>1, RingInvariant, PTL

\* CRingBufferBase is a queue: Allocate adds the item at the end, after dropping
\* oldest items if FLAG_RECYCLE is set, and PopFirst takes the oldest.
THEOREM RingRefinesQueue == RingSpec => QueueSpec
<1>1. RingInit => Queue!Init
  BY RingStarts
<1>2. RingIInv /\ [RingNext]_ringVars => [Queue!Next]_<<recycle, Items(ring)>>
  BY RingSteps
<1> QED BY <1>1, <1>2, RingInvariant, PTL DEF RingSpec, QueueSpec, Queue!Spec

-----------------------------------------------------------------------------
(* The three parts together.                                               *)

\* A behaviour of the three is a behaviour of each: the others stand still.
LEMMA PartsApart == Spec => PoolSpec /\ RingSpec /\ JobSpec
<1>1. Init => PoolInit /\ RingInit /\ JobInit
  BY DEF Init
<1>2. [Next]_vars => [PoolNext]_poolVars /\ [RingNext]_ringVars /\ [JobNext]_jobVars
  <2> SUFFICES ASSUME [Next]_vars
               PROVE  /\ PoolNext \/ UNCHANGED poolVars
                      /\ RingNext \/ UNCHANGED ringVars
                      /\ JobNext \/ UNCHANGED jobVars
    OBVIOUS
  <2> QED BY DEF Next, vars
<1> QED BY <1>1, <1>2, PTL DEF Spec, PoolSpec, RingSpec, JobSpec

\* The variables of all three parts keep their types.
THEOREM PartsTypes == Spec => []TypeOK
<1>1. PoolTypeOK /\ RingTypeOK /\ JobTypeOK => TypeOK
  BY DEF TypeOK
<1> QED BY <1>1, PartsApart, PoolTypes, RingTypes, TypesOK, PTL
===============================================================================
