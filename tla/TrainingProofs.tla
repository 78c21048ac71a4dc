---------------------------- MODULE TrainingProofs ----------------------------
(***************************************************************************)
(* Proofs about StageChain for every number of items, stages, every pool   *)
(* and channel capacity, and every set of faults; about RandomStream for   *)
(* every width of its words and every number of draws; about TrainingRun   *)
(* for every data set, schedule and fault; and about TrainingStep for      *)
(* every list of parameters and options and every modulus.                 *)
(*                                                                         *)
(* `order` is the sequence of everything the shuffle pool has handed out,  *)
(* and sent[t] the number of values thread t has sent.  Neither is a       *)
(* variable: the invariant says that they exist.                           *)
(* PoolInv: what the pool has handed out and what it still holds are       *)
(* together what it has read, each item once; so an item is at most the    *)
(* pool's capacity early, and the source's error comes at one place.       *)
(* FlowInv: each thread has sent a prefix of order, transformed by the     *)
(* stages so far; what lies between two threads is the difference of their *)
(* prefixes; and a thread that has exited has a reason.  The consumer has  *)
(* the shortest prefix, so that a step of the threads is a step of         *)
(* ShuffledStream, or none.                                                *)
(* JoinInv: the threads finish has passed have exited without a panic, and *)
(* the dead stay dead.                                                     *)
(*                                                                         *)
(* RandomInv, of RandomStream: what was given out under a slot's key lies  *)
(* between where the key's counter started and where it is, and in a       *)
(* model's stream that was overrun includes it (StreamsRight); a cursor    *)
(* that is not stale goes on from there (CursorRight); and the keys an     *)
(* accepted proposal has left are no stream's so far (Unused).             *)
(*                                                                         *)
(* TrainingRun: the recursive functions of the data stream have solutions, *)
(* so they obey their equations.  A source that fails and the one that     *)
(* does not yield the same, or the failing one an error (SampledAlike,     *)
(* Together), until the iterator of batches has stopped.  TrainingInv: the *)
(* session has been trained on a prefix of the undisturbed run, every file *)
(* holds such a session, and the queue and the iterator are what comes     *)
(* next.                                                                   *)
(* ScheduleInv: without a fault of the source the iterator yields no error *)
(* before the last planned batch, because a partner of a mixup comes in    *)
(* time; so no run ends with an error of its own.                          *)
(*                                                                         *)
(* TrainingStep: all slots have values of their kind (StepInv), and the    *)
(* accumulators hold the sums of the gradients seen since the last step    *)
(* (SumInv), also in a session that is taken apart; with the inverse of    *)
(* Steps a run of the compiled step is then a step of OptimizerLoop.       *)
(***************************************************************************)
EXTENDS MCTraining, Counting, SequenceTheorems, FiniteSetTheorems, TLAPS

-----------------------------------------------------------------------------
\* The shuffle pool.

\* No two places of a sequence hold the same value.
Distinct(s) == \A j, k \in DOMAIN s : s[j] = s[k] => j = k

\* Items handed out before the source's error (ShuffledStream).
BeforeError == IF ItemCount < PoolSize THEN 0 ELSE ItemCount - PoolSize + 1
Limit == IF broken THEN BeforeError ELSE ItemCount

\* What the pool has handed out.
OrderInv(order) ==
    /\ order \in Seq(ItemNumbers \cup {Failure})
    /\ Distinct(order)
    /\ \A k \in DOMAIN order :
          IF order[k] = Failure
          THEN broken /\ k = Len(order) /\ k - 1 = BeforeError
          ELSE k <= Limit /\ order[k] < k - 1 + PoolSize

\* The source's error has been handed out.
Broke(order) == \E k \in DOMAIN order : order[k] = Failure

\* What a filled pool holds, `count` items after the first call: the items read
\* and not yet handed out.
Read(p) == IF p.exhausted THEN ItemCount ELSE p.reads
Holds(p, order) ==
    /\ p.initialized
    /\ Distinct(p.items)
    /\ \A j \in DOMAIN p.items : \A k \in DOMAIN order : p.items[j] # order[k]
    /\ \A j \in DOMAIN p.items : p.items[j] < Read(p)
    /\ \A k \in DOMAIN order : order[k] < Read(p)
    /\ Len(order) + Len(p.items) = Read(p) /\ Read(p) <= ItemCount
    /\ Len(p.items) <= PoolSize
    /\ ~p.exhausted => Len(p.items) = PoolSize /\ ~p.pending
    /\ p.exhausted => p.pending = broken /\ (broken => Len(order) = BeforeError)

Pools == [capacity : Nat, items : Seq(ItemNumbers), reads : Nat, draws : Nat,
          initialized : BOOLEAN, exhausted : BOOLEAN, pending : BOOLEAN]
PoolInv(p, order) ==
    /\ p \in Pools /\ p.capacity = PoolSize
    /\ IF Broke(order)
       THEN p.initialized /\ ~p.pending /\ p.items = <<>>
       ELSE \/ p = NewPool(PoolSize) /\ order = <<>>
            \/ Holds(p, order)

\* The source yields the items in order; then, if it is broken, its error.
LEMMA SourceYields ==
    ASSUME broken \in BOOLEAN
    PROVE  /\ Items(ChainSource) = ItemNumbers
           /\ \A n \in ItemNumbers : ChainSource[n] = n
           /\ (Pulled(ChainSource, ItemCount) = Failure) = broken
  BY ChainAssumption DEF Items, ChainSource, ItemNumbers, Pulled, Failure, Exhausted

\* The first call fills the pool with the first items, or with all there are.
LEMMA FillHolds ==
    ASSUME broken \in BOOLEAN
    PROVE  LET p == Fill(NewPool(PoolSize), ChainSource)
           IN  p \in Pools /\ p.capacity = PoolSize /\ Holds(p, <<>>)
<1> DEFINE new == NewPool(PoolSize)
           full == new.reads + new.capacity - Len(new.items)
           stops == {n \in new.reads .. full - 1 : n \notin Items(ChainSource)}
           stop == IF stops = {} THEN full ELSE Min(stops)
           read == [k \in 1 .. stop - new.reads |-> ChainSource[new.reads + k - 1]]
           few == ItemCount < PoolSize
           p == Fill(new, ChainSource)
<1>1. /\ new.items = <<>> /\ new.reads = 0 /\ new.capacity = PoolSize
      /\ full = PoolSize /\ PoolSize \in Nat \ {0} /\ ItemCount \in Nat
  BY ChainAssumption DEF NewPool
<1>4. p = [capacity |-> PoolSize, items |-> <<>> \o read, reads |-> IF stops = {} THEN stop ELSE stop + 1,
           draws |-> 0, initialized |-> TRUE, exhausted |-> stops # {},
           pending |-> stops # {} /\ Pulled(ChainSource, stop) = Failure]
  <2>1. p = [new EXCEPT
            !.items = @ \o read, !.reads = IF stops = {} THEN stop ELSE stop + 1,
            !.exhausted = stops # {},
            !.pending = stops # {} /\ Pulled(ChainSource, stop) = Failure,
            !.initialized = TRUE]
    BY DEF Fill
  <2> HIDE DEF p, stops, stop, read, full
  <2>2. QED BY <1>1, <2>1 DEF NewPool
<1> HIDE DEF new
<1>2. stops = ItemCount .. PoolSize - 1
  BY <1>1, SourceYields DEF ItemNumbers
<1>3. (stops # {}) = few /\ stop = IF few THEN ItemCount ELSE PoolSize
  <2>1. (ItemCount .. PoolSize - 1 # {}) = few
    <3>1. CASE few
      <4>1. ItemCount \in ItemCount .. PoolSize - 1
        BY <1>1, <3>1
      <4>2. QED BY <3>1, <4>1
    <3>2. CASE ~few
      BY <1>1, <3>2
    <3>3. QED BY <3>1, <3>2
  <2>2. ASSUME few PROVE Min(ItemCount .. PoolSize - 1) = ItemCount
    BY <1>1, <2>2 DEF Min
  <2> HIDE DEF stops, full
  <2>3. QED BY <1>1, <1>2, <2>1, <2>2
<1> DEFINE items == [k \in 1 .. (IF few THEN ItemCount ELSE PoolSize) |-> k - 1]
<1>5. <<>> \o read = items
  <2>1. read = items
    <3> HIDE DEF stops, full, stop
    <3>1. QED BY <1>1, <1>3, SourceYields DEF ItemNumbers
  <2>2. items \in Seq(ItemNumbers)
    BY <1>1 DEF ItemNumbers
  <2> HIDE DEF items, read
  <2>3. QED BY <2>1, <2>2, ConcatEmptySeq
<1>6. p = [capacity |-> PoolSize, items |-> items, reads |-> IF few THEN ItemCount + 1 ELSE PoolSize,
           draws |-> 0, initialized |-> TRUE, exhausted |-> few, pending |-> few /\ broken]
  <2> HIDE DEF p, stops, full, stop, few, read, items
  <2>1. (few /\ Pulled(ChainSource, stop) = Failure) = (few /\ broken)
    BY <1>3, SourceYields
  <2>2. few \in BOOLEAN
    BY DEF few
  <2>3. QED BY <1>3, <1>4, <1>5, <2>1, <2>2
<1>7. /\ items \in Seq(ItemNumbers) /\ Distinct(items)
      /\ Len(items) = IF few THEN ItemCount ELSE PoolSize
      /\ \A j \in DOMAIN items : items[j] < Len(items)
  BY <1>1 DEF ItemNumbers, Distinct
<1>8. p \in Pools /\ p.capacity = PoolSize
  <2> HIDE DEF p, items
  <2>1. QED BY <1>1, <1>6, <1>7 DEF Pools
<1>9. Holds(p, <<>>)
  <2> HIDE DEF p, items
  <2>1. p.items = items /\ p.reads = (IF few THEN ItemCount + 1 ELSE PoolSize) /\ p.initialized
        /\ p.exhausted = few /\ p.pending = (few /\ broken)
    BY <1>6
  <2>2. \A j \in DOMAIN items : items[j] < IF few THEN ItemCount ELSE PoolSize
    BY <1>7
  <2>3. Len(<<>>) = 0 /\ DOMAIN <<>> = {}
    OBVIOUS
  <2>4. (IF p.exhausted THEN ItemCount ELSE p.reads) = (IF few THEN ItemCount ELSE PoolSize)
    BY <2>1
  <2>5. p.exhausted => p.pending = broken /\ (broken => Len(<<>>) = BeforeError)
    <3> SUFFICES ASSUME p.exhausted
                 PROVE  p.pending = broken /\ Len(<<>>) = BeforeError
      OBVIOUS
    <3>1. few
      BY <2>1
    <3>2. p.pending = broken
      BY <2>1, <3>1
    <3>3. QED BY <2>3, <3>1, <3>2 DEF BeforeError, few
  <2>6. ~p.exhausted => Len(p.items) = PoolSize /\ ~p.pending
    BY <1>7, <2>1
  <2> HIDE DEF few
  <2>7. 0 + Len(items) = (IF few THEN ItemCount ELSE PoolSize)
    BY <1>1, <1>7
  <2>8. (IF few THEN ItemCount ELSE PoolSize) <= ItemCount /\ Len(items) <= PoolSize
    BY <1>1, <1>7 DEF few
  <2>9. QED BY <1>7, <2>1, <2>2, <2>3, <2>4, <2>5, <2>6, <2>7, <2>8 DEF Holds, Read
<1>10. QED BY <1>8, <1>9 DEF new

\* swap_remove takes one item out and keeps the others.
LEMMA SwapRemoveKeeps ==
    ASSUME NEW S, NEW s \in Seq(S), Distinct(s), NEW i \in DOMAIN s
    PROVE  LET r == SwapRemove(s, i)
           IN  /\ r \in Seq(S) /\ Len(r) = Len(s) - 1 /\ Distinct(r)
               /\ \A j \in DOMAIN r : r[j] # s[i] /\ \E k \in DOMAIN s : r[j] = s[k]
  BY DEF SwapRemove, Distinct

\* The values of a sequence are those of its places.
LEMMA SeqParts ==
    ASSUME NEW S, NEW s \in Seq(S)
    PROVE  /\ Len(s) \in Nat /\ DOMAIN s = 1 .. Len(s)
           /\ \A k \in DOMAIN s : s[k] \in S
           /\ s = <<>> <=> Len(s) = 0
  OBVIOUS

\* A filled pool that has an item to hand out, its items and their number.
Offers(p, items, order) ==
    /\ p \in Pools /\ p.capacity = PoolSize /\ Holds(p, order)
    /\ ~p.pending /\ p.items = items

\* Such a pool, in numbers.
LEMMA OffersNumbers ==
    ASSUME broken \in BOOLEAN, NEW p, NEW items, NEW order, OrderInv(order),
           Offers(p, items, order)
    PROVE  /\ PoolSize \in Nat \ {0} /\ ItemCount \in Nat /\ Read(p) \in Nat
           /\ order \in Seq(ItemNumbers \cup {Failure}) /\ items \in Seq(ItemNumbers)
           /\ Len(order) \in Nat /\ Len(items) \in Nat
           /\ Len(order) + Len(items) = Read(p) /\ Read(p) <= ItemCount /\ Len(items) <= PoolSize
           /\ \A j \in DOMAIN items : items[j] < Read(p) /\ items[j] \in ItemNumbers
           /\ \A k \in DOMAIN order : order[k] < Read(p) /\ order[k] \in Int
           /\ \A j \in DOMAIN items : \A k \in DOMAIN order : items[j] # order[k]
           /\ ItemNumbers \subseteq Nat /\ Distinct(items)
           /\ broken => Len(items) = PoolSize
<1>1. PoolSize \in Nat \ {0} /\ ItemCount \in Nat /\ ItemNumbers \subseteq Nat
  BY ChainAssumption DEF ItemNumbers
<1>2. /\ p \in Pools /\ p.items = items /\ ~p.pending /\ Holds(p, order)
      /\ order \in Seq(ItemNumbers \cup {Failure})
  BY DEF Offers, OrderInv
<1>3. items \in Seq(ItemNumbers) /\ p.reads \in Nat
  BY <1>2 DEF Pools
<1>4. Read(p) \in Nat
  BY <1>1, <1>3 DEF Read
<1>5. /\ Len(order) \in Nat /\ \A k \in DOMAIN order : order[k] \in Int
      /\ Len(items) \in Nat /\ \A j \in DOMAIN items : items[j] \in ItemNumbers
  <2>1. ItemNumbers \cup {Failure} \subseteq Int
    BY <1>1 DEF Failure
  <2>2. QED BY <1>2, <1>3, <2>1, SeqParts
<1>6. broken => Len(items) = PoolSize
  BY <1>2 DEF Holds
<1>7. QED BY <1>1, <1>2, <1>3, <1>4, <1>5, <1>6 DEF Holds

\* An item of the pool is one of those not handed out, and early enough.
LEMMA HandOutOrder ==
    ASSUME broken \in BOOLEAN, NEW p, NEW items, NEW order, OrderInv(order), ~Broke(order),
           Offers(p, items, order), NEW i \in DOMAIN items
    PROVE  LET after == Append(order, items[i])
           IN  OrderInv(after) /\ ~Broke(after)
<1> DEFINE item == items[i]
           after == Append(order, item)
<1>2. /\ PoolSize \in Nat \ {0} /\ ItemCount \in Nat /\ Read(p) \in Nat
      /\ order \in Seq(ItemNumbers \cup {Failure})
      /\ Len(order) \in Nat /\ Len(items) \in Nat
      /\ Len(order) + Len(items) = Read(p) /\ Read(p) <= ItemCount /\ Len(items) <= PoolSize
      /\ broken => Len(items) = PoolSize
  BY OffersNumbers
<1>1. /\ item \in ItemNumbers /\ item < Read(p) /\ \A k \in DOMAIN order : item # order[k]
      /\ ItemNumbers \subseteq Nat
  BY OffersNumbers
<1>3. /\ after \in Seq(ItemNumbers \cup {Failure}) /\ Len(after) = Len(order) + 1
      /\ \A k \in DOMAIN after : after[k] = IF k = Len(order) + 1 THEN item ELSE order[k]
      /\ DOMAIN order = 1 .. Len(order) /\ DOMAIN after = 1 .. Len(order) + 1
  BY <1>1, <1>2
<1> HIDE DEF item, after
<1>4. item \in Nat /\ item # Failure /\ item < Len(order) + PoolSize
  BY <1>1, <1>2 DEF Failure
<1>5. Len(items) # 0
  BY <1>2, OffersNumbers, SeqParts
<1>6. Len(order) + 1 <= Limit
  BY <1>2, <1>5 DEF Limit, BeforeError
<1>7. Distinct(after)
  BY <1>1, <1>2, <1>3 DEF Distinct, OrderInv
<1>8. OrderInv(after)
  <2>1. \A k \in DOMAIN after : after[k] # Failure /\ k <= Limit /\ after[k] < k - 1 + PoolSize
    <3> TAKE k \in DOMAIN after
    <3>1. CASE k = Len(order) + 1
      BY <1>2, <1>3, <1>4, <1>6, <3>1
    <3>2. CASE k # Len(order) + 1
      BY <1>2, <1>3, <3>2 DEF OrderInv, Broke
    <3>3. QED BY <3>1, <3>2
  <2>2. QED BY <1>3, <1>7, <2>1 DEF OrderInv
<1>9. ~Broke(after)
  BY <1>3, <1>4 DEF Broke
<1>10. QED BY <1>8, <1>9 DEF item, after

\* Handing an item out and reading its replacement leaves the pool holding what
\* has been read and not been handed out.
LEMMA HandOutHolds ==
    ASSUME broken \in BOOLEAN, NEW p, NEW items, NEW order, OrderInv(order), ~Broke(order),
           Offers(p, items, order), NEW i \in DOMAIN items
    PROVE  LET chosen == [p EXCEPT !.items = SwapRemove(@, i), !.draws = @ + 1]
               q == Replace(chosen, ChainSource)
           IN  q \in Pools /\ q.capacity = PoolSize /\ Holds(q, Append(order, items[i]))
<1> DEFINE item == items[i]
           after == Append(order, item)
           rest == SwapRemove(items, i)
           chosen == [p EXCEPT !.items = SwapRemove(@, i), !.draws = @ + 1]
           q == Replace(chosen, ChainSource)
           total == Len(after) + Len(rest)
<1>1. /\ p \in Pools /\ p.capacity = PoolSize /\ Holds(p, order) /\ ~p.pending /\ p.items = items
      /\ p.exhausted \in BOOLEAN /\ p.reads \in Nat
  BY DEF Offers, Pools
<1>2. /\ order \in Seq(ItemNumbers \cup {Failure}) /\ items \in Seq(ItemNumbers)
      /\ Distinct(items) /\ ItemNumbers \subseteq Nat
      /\ \A j \in DOMAIN items : items[j] < Read(p) /\ items[j] \in ItemNumbers
      /\ \A k \in DOMAIN order : order[k] < Read(p) /\ order[k] \in Int
      /\ \A j \in DOMAIN items : \A k \in DOMAIN order : items[j] # order[k]
  BY OffersNumbers
<1>3. /\ PoolSize \in Nat \ {0} /\ ItemCount \in Nat /\ Read(p) \in Nat
      /\ Len(order) \in Nat /\ Len(items) \in Nat
      /\ Len(order) + Len(items) = Read(p) /\ Read(p) <= ItemCount /\ Len(items) <= PoolSize
      /\ broken => Len(items) = PoolSize
  BY OffersNumbers
<1>4. item \in ItemNumbers /\ item \in Nat /\ item < Read(p)
  BY <1>2
<1>5. /\ Len(after) = Len(order) + 1
      /\ \A k \in DOMAIN after : after[k] = item \/ \E j \in DOMAIN order : after[k] = order[j]
  BY <1>2, <1>4
<1>6. /\ rest \in Seq(ItemNumbers) /\ Len(rest) = Len(items) - 1 /\ Distinct(rest)
      /\ \A j \in DOMAIN rest : rest[j] # item /\ \E k \in DOMAIN items : rest[j] = items[k]
  BY <1>2, SwapRemoveKeeps
<1>7. chosen = [p EXCEPT !.items = rest, !.draws = p.draws + 1]
  BY <1>1
<1> HIDE DEF item, after, rest, chosen, q
<1>8. Len(after) = Len(order) + 1 /\ Len(rest) = Len(items) - 1 /\ total = Read(p)
  BY <1>3, <1>5, <1>6
<1> HIDE DEF total
<1>9. /\ \A j \in DOMAIN rest : rest[j] \in Nat /\ rest[j] < Read(p) /\ \A k \in DOMAIN after : rest[j] # after[k]
      /\ \A k \in DOMAIN after : after[k] \in Int /\ after[k] < Read(p)
  <2>1. \A j \in DOMAIN rest : rest[j] \in Nat /\ rest[j] < Read(p)
    BY <1>2, <1>6
  <2>2. \A j \in DOMAIN rest : \A k \in DOMAIN after : rest[j] # after[k]
    BY <1>2, <1>5, <1>6
  <2>3. \A k \in DOMAIN after : after[k] \in Int /\ after[k] < Read(p)
    <3>1. item \in Int
      BY <1>4
    <3>2. QED BY <1>2, <1>4, <1>5, <3>1
  <2>4. QED BY <2>1, <2>2, <2>3
<1>10. /\ chosen \in Pools /\ chosen.items = rest /\ chosen.capacity = PoolSize
       /\ chosen.reads = p.reads /\ chosen.exhausted = p.exhausted /\ ~chosen.pending
       /\ chosen.initialized
  <2>1. p.draws + 1 \in Nat /\ p.initialized
    BY <1>1 DEF Pools, Holds
  <2>2. chosen \in Pools
    BY <1>1, <1>6, <1>7, <2>1 DEF Pools
  <2>3. QED BY <1>1, <1>7, <2>1, <2>2 DEF Pools
<1>11. CASE p.exhausted
  <2>1. q = chosen
    BY <1>10, <1>11 DEF Replace, q
  <2>2. Read(chosen) = ItemCount /\ Read(p) = ItemCount
    BY <1>10, <1>11 DEF Read
  <2>3. ~broken
    BY <1>1, <1>11 DEF Holds
  <2>4. Len(rest) <= PoolSize
    BY <1>3, <1>8
  <2>5. Holds(chosen, after)
    <3>1. Len(after) + Len(rest) = ItemCount /\ Read(chosen) <= ItemCount
      BY <1>3, <1>8, <2>2 DEF total
    <3>2. chosen.pending = broken
      <4>1. chosen.pending = FALSE
        BY <1>10 DEF Pools
      <4>2. QED BY <2>3, <4>1
    <3>3. chosen.exhausted
      BY <1>10, <1>11
    <3>4. QED BY <1>6, <1>9, <1>10, <2>2, <2>3, <2>4, <3>1, <3>2, <3>3 DEF Holds
  <2>6. QED BY <1>10, <2>1, <2>5 DEF q, item, after, chosen
<1>12. CASE ~p.exhausted /\ p.reads \in ItemNumbers
  <2>1. q = [chosen EXCEPT !.items = Append(@, ChainSource[p.reads]), !.reads = @ + 1]
    BY <1>10, <1>12, SourceYields DEF Replace, q
  <2>2. Read(p) = p.reads
    BY <1>12 DEF Read
  <2> DEFINE more == Append(rest, Read(p))
  <2>3. q = [chosen EXCEPT !.items = more, !.reads = Read(p) + 1]
    BY <1>10, <1>12, <2>1, <2>2, SourceYields
  <2>4. Read(p) \in ItemNumbers
    BY <1>12, <2>2
  <2>5. /\ more \in Seq(ItemNumbers) /\ Len(more) = Len(rest) + 1
        /\ \A j \in DOMAIN more : more[j] = Read(p) \/ \E k \in DOMAIN rest : more[j] = rest[k]
    BY <1>6, <2>4
  <2>6. Distinct(more)
    <3>1. \A j \in DOMAIN rest : rest[j] # Read(p)
      BY <1>3, <1>9
    <3>2. QED BY <1>6, <2>4, <3>1 DEF Distinct
  <2> HIDE DEF more
  <2>7. /\ \A j \in DOMAIN more : more[j] < Read(p) + 1 /\ \A k \in DOMAIN after : more[j] # after[k]
        /\ \A k \in DOMAIN after : after[k] < Read(p) + 1
    BY <1>3, <1>9, <2>5
  <2>8. q \in Pools
    <3>1. Read(p) + 1 \in Nat
      BY <1>3
    <3>2. QED BY <1>10, <2>3, <2>5, <3>1 DEF Pools
  <2>9. q.capacity = PoolSize /\ q.items = more /\ q.reads = Read(p) + 1
        /\ ~q.exhausted /\ ~q.pending /\ q.initialized
    BY <1>10, <1>12, <2>3 DEF Pools
  <2>10. Read(q) = Read(p) + 1
    BY <2>9 DEF Read
  <2>11. Len(items) = PoolSize
    BY <1>1, <1>12 DEF Holds
  <2>12. /\ Len(more) = PoolSize /\ Len(more) <= PoolSize
         /\ Len(after) + Len(more) = Read(p) + 1 /\ Read(p) + 1 <= ItemCount
    BY <1>3, <1>8, <2>4, <2>5, <2>11 DEF ItemNumbers
  <2>13. Holds(q, after)
    BY <2>6, <2>7, <2>9, <2>10, <2>12 DEF Holds
  <2>14. QED BY <2>8, <2>9, <2>13 DEF q, item, after, chosen
<1>13. CASE ~p.exhausted /\ p.reads \notin ItemNumbers
  <2>1. Read(p) = p.reads
    BY <1>13 DEF Read
  <2>2. Read(p) \notin ItemNumbers
    BY <1>13, <2>1
  <2>3. Read(p) = ItemCount
    BY <1>3, <2>2 DEF ItemNumbers
  <2>4. q = [chosen EXCEPT !.exhausted = TRUE, !.reads = @ + 1, !.pending = Pulled(ChainSource, p.reads) = Failure]
    BY <1>10, <1>13, SourceYields DEF Replace, q
  <2>5. q = [chosen EXCEPT !.exhausted = TRUE, !.reads = ItemCount + 1, !.pending = broken]
    <3>1. (Pulled(ChainSource, p.reads) = Failure) = broken
      BY <2>1, <2>3, SourceYields
    <3>2. p.reads = ItemCount /\ chosen.reads = ItemCount
      BY <1>10, <2>1, <2>3
    <3>3. QED BY <2>4, <3>1, <3>2
  <2>6. q \in Pools
    <3>1. ItemCount + 1 \in Nat
      BY <1>3
    <3>2. QED BY <1>10, <2>5, <3>1 DEF Pools
  <2>7. q.capacity = PoolSize /\ q.items = rest /\ q.exhausted
        /\ q.pending = broken /\ q.initialized
    BY <1>10, <2>5 DEF Pools
  <2>8. Read(q) = ItemCount
    BY <2>7 DEF Read
  <2>9. Len(items) = PoolSize
    BY <1>1, <1>13 DEF Holds
  <2>10. /\ Len(after) + Len(rest) = ItemCount /\ Len(rest) <= PoolSize
         /\ Len(after) = BeforeError
    BY <1>3, <1>8, <2>3, <2>9 DEF BeforeError
  <2>11. Holds(q, after)
    BY <1>3, <1>6, <1>9, <2>3, <2>7, <2>8, <2>10 DEF Holds
  <2>12. QED BY <2>6, <2>7, <2>11 DEF q, item, after, chosen
<1>14. QED BY <1>1, <1>11, <1>12, <1>13

\* The pool's error comes at the place that its capacity determines.
LEMMA HandOutError ==
    ASSUME broken \in BOOLEAN, NEW p, NEW order, OrderInv(order), ~Broke(order),
           p \in Pools /\ p.capacity = PoolSize /\ Holds(p, order) /\ p.pending
    PROVE  LET after == Append(order, Failure)
               q == [p EXCEPT !.items = <<>>, !.pending = FALSE]
           IN  OrderInv(after) /\ PoolInv(q, after)
<1> DEFINE after == Append(order, Failure)
           q == [p EXCEPT !.items = <<>>, !.pending = FALSE]
<1>1. /\ order \in Seq(ItemNumbers \cup {Failure}) /\ Len(order) \in Nat
      /\ \A k \in DOMAIN order : order[k] # Failure /\ k <= Limit /\ order[k] < k - 1 + PoolSize
  BY DEF OrderInv, Broke
<1>2. broken /\ Len(order) = BeforeError
  BY DEF Holds, Pools
<1>3. /\ after \in Seq(ItemNumbers \cup {Failure}) /\ Len(after) = Len(order) + 1
      /\ DOMAIN after = 1 .. Len(order) + 1 /\ DOMAIN order = 1 .. Len(order)
      /\ \A k \in DOMAIN after : after[k] = IF k = Len(order) + 1 THEN Failure ELSE order[k]
  BY <1>1
<1> HIDE DEF after
<1>4. Distinct(after)
  BY <1>1, <1>3 DEF Distinct, OrderInv
<1>5. \A k \in DOMAIN after :
          IF after[k] = Failure
          THEN broken /\ k = Len(after) /\ k - 1 = BeforeError
          ELSE k <= Limit /\ after[k] < k - 1 + PoolSize
  <2> TAKE k \in DOMAIN after
  <2>1. CASE k = Len(order) + 1
    BY <1>1, <1>2, <1>3, <2>1
  <2>2. CASE k # Len(order) + 1
    BY <1>1, <1>3, <2>2
  <2>3. QED BY <2>1, <2>2
<1>6. Broke(after)
  BY <1>1, <1>3 DEF Broke
<1>7. q \in Pools /\ q.capacity = PoolSize /\ q.initialized /\ ~q.pending /\ q.items = <<>>
  <2>1. p \in Pools /\ p.capacity = PoolSize /\ p.initialized /\ <<>> \in Seq(ItemNumbers)
    BY DEF Holds
  <2> HIDE DEF q
  <2>2. q = [p EXCEPT !.items = <<>>, !.pending = FALSE]
    BY DEF q
  <2>3. q \in Pools
    BY <2>1, <2>2 DEF Pools
  <2>4. QED BY <2>1, <2>2, <2>3 DEF Pools
<1>8. QED BY <1>3, <1>4, <1>5, <1>6, <1>7 DEF OrderInv, PoolInv, after

\* Whatever a call of next returns, what has been handed out and what is held
\* stay together what has been read; and the pool says it is exhausted only when
\* everything has been handed out.
LEMMA TakeInv ==
    ASSUME broken \in BOOLEAN, NEW p, NEW order, OrderInv(order), PoolInv(p, order),
           NEW word \in Nat
    PROVE  LET t == Take(p, ChainSource, word)
               after == Append(order, t.result)
           IN  IF t.result = Exhausted
               THEN /\ PoolInv(t.pool, order)
                    /\ ~Broke(order) => ~broken /\ Len(order) = ItemCount
               ELSE OrderInv(after) /\ PoolInv(t.pool, after)
<1> DEFINE ready == IF p.initialized THEN p ELSE Fill(p, ChainSource)
           index == (word % Len(ready.items)) + 1
           t == Take(p, ChainSource, word)
           emptied == [ready EXCEPT !.items = <<>>, !.pending = FALSE]
           chosen == [ready EXCEPT !.items = SwapRemove(@, index), !.draws = @ + 1]
<1>1. t = IF ready.pending THEN [pool |-> emptied, result |-> Failure]
          ELSE IF ready.items = <<>> THEN [pool |-> ready, result |-> Exhausted]
          ELSE [pool |-> Replace(chosen, ChainSource), result |-> ready.items[index]]
  BY DEF Take, TakeFrom
<1> HIDE DEF t, emptied, chosen, index
<1>2. CASE Broke(order)
  <2>1. p \in Pools /\ p.initialized /\ ~p.pending /\ p.items = <<>>
    BY <1>2 DEF PoolInv
  <2>2. ready = p
    BY <2>1
  <2> HIDE DEF ready
  <2>3. t = [pool |-> p, result |-> Exhausted]
    BY <1>1, <2>1, <2>2
  <2>4. t.result = Exhausted /\ t.pool = p
    BY <2>3
  <2>5. PoolInv(t.pool, order)
    BY <2>4
  <2>6. QED BY <1>2, <2>4, <2>5 DEF t
<1>3. CASE ~Broke(order)
  <2>1. ready \in Pools /\ ready.capacity = PoolSize /\ Holds(ready, order)
    <3>1. CASE Holds(p, order)
      <4>1. p \in Pools /\ p.capacity = PoolSize /\ p.initialized
        BY <3>1 DEF PoolInv, Holds
      <4>2. QED BY <3>1, <4>1
    <3>2. CASE p = NewPool(PoolSize) /\ order = <<>>
      <4>1. ~p.initialized
        BY <3>2 DEF NewPool
      <4>2. ready = Fill(NewPool(PoolSize), ChainSource)
        BY <3>2, <4>1
      <4> HIDE DEF ready
      <4>3. QED BY <3>2, <4>2, FillHolds
    <3>3. QED BY <1>3, <3>1, <3>2 DEF PoolInv
  <2> HIDE DEF ready
  <2>2. CASE ready.pending
    <3>1. t = [pool |-> emptied, result |-> Failure]
      BY <1>1, <2>2
    <3>2. t.pool = emptied /\ t.result = Failure /\ Failure # Exhausted
      BY <3>1 DEF Failure, Exhausted
    <3>3. OrderInv(Append(order, Failure)) /\ PoolInv(emptied, Append(order, Failure))
      BY <1>3, <2>1, <2>2, HandOutError DEF emptied
    <3>4. QED BY <3>2, <3>3 DEF t
  <2>3. CASE ~ready.pending /\ ready.items = <<>>
    <3>1. t = [pool |-> ready, result |-> Exhausted]
      BY <1>1, <2>3
    <3>2. t.pool = ready /\ t.result = Exhausted
      BY <3>1
    <3>3. PoolInv(ready, order)
      BY <1>3, <2>1 DEF PoolInv
    <3>4. ~broken /\ Len(order) = ItemCount
      <4>1. Offers(ready, <<>>, order)
        BY <2>1, <2>3 DEF Offers
      <4>2. /\ PoolSize \in Nat \ {0} /\ Len(order) \in Nat /\ Read(ready) \in Nat
            /\ Len(order) + Len(<<>>) = Read(ready) /\ (broken => Len(<<>>) = PoolSize)
        BY <4>1, OffersNumbers
      <4>3. Len(<<>>) = 0
        OBVIOUS
      <4>4. ready.exhausted
        <5>1. SUFFICES ASSUME ~ready.exhausted PROVE Len(ready.items) = PoolSize
          BY <2>3, <4>2, <4>3
        <5>2. QED BY <2>1, <5>1 DEF Holds
      <4>5. Read(ready) = ItemCount
        BY <4>4 DEF Read
      <4>6. QED BY <4>2, <4>3, <4>5
    <3>5. QED BY <3>2, <3>3, <3>4 DEF t
  <2>4. CASE ~ready.pending /\ ready.items # <<>>
    <3> DEFINE items == ready.items
               q == Replace(chosen, ChainSource)
    <3>1. Offers(ready, items, order)
      BY <2>1, <2>4 DEF Offers
    <3>2. t.pool = q /\ t.result = items[index]
      BY <1>1, <2>4
    <3>3. items # <<>>
      BY <2>4
    <3>4. index = (word % Len(items)) + 1
      BY DEF index
    <3> HIDE DEF items, q
    <3>5. items \in Seq(ItemNumbers) /\ \A j \in DOMAIN items : items[j] \in ItemNumbers
      BY <3>1, OffersNumbers
    <3>6. index \in DOMAIN items
      <4>1. Len(items) \in Nat \ {0} /\ DOMAIN items = 1 .. Len(items)
        BY <3>3, <3>5, SeqParts
      <4>2. QED BY <3>4, <4>1
    <3>7. items[index] # Exhausted
      BY <3>5, <3>6 DEF ItemNumbers, Exhausted
    <3>8. OrderInv(Append(order, items[index])) /\ ~Broke(Append(order, items[index]))
      BY <1>3, <3>1, <3>6, HandOutOrder
    <3>9. q \in Pools /\ q.capacity = PoolSize /\ Holds(q, Append(order, items[index]))
      <4>1. chosen = [ready EXCEPT !.items = SwapRemove(@, index), !.draws = @ + 1]
        BY DEF chosen
      <4>2. QED BY <1>3, <3>1, <3>6, <4>1, HandOutHolds DEF q
    <3>10. PoolInv(q, Append(order, items[index]))
      BY <3>8, <3>9 DEF PoolInv
    <3>11. QED BY <3>2, <3>7, <3>8, <3>10 DEF t
  <2>5. QED BY <2>2, <2>3, <2>4
<1>4. QED BY <1>2, <1>3

-----------------------------------------------------------------------------
\* The threads.

Values == Int \X BOOLEAN

\* Types of the threads' variables.
ChainTypes ==
    /\ broken \in BOOLEAN /\ faulty \in Faultings
    /\ at \in [ChainThreads -> {"take", "send", "exited"}]
    /\ hold \in [ChainThreads -> Values \cup {NoValue}]
    /\ \A t \in ChainThreads : (hold[t] = NoValue) = (at[t] # "send")
    /\ panicked \subseteq StageThreads
    /\ channel \in [ChainThreads -> Seq(Values)]
    /\ \A t \in ChainThreads : Len(channel[t]) <= ChannelSize
    /\ received \in Seq(Int)
    /\ stream \in {"open", "ended", "finishing", "finished"}
    /\ joining \in ChainThreads

\* The value that x has become after the first t stages.
Erring(t, x) == x = Failure \/ \E s \in 1 .. t : Faulty(x, s, "fail")
Val(t, x) == <<x, Erring(t, x)>>
Panicking(x) == \E s \in StageThreads : Faulty(x, s, "panic")

\* Why the stream may end after n values.
Over(order, n) ==
    \/ n > 0 /\ Erring(StageCount, order[n])
    \/ ~broken /\ n = ItemCount
    \/ n < Len(order) /\ Panicking(order[n + 1])

\* Values that have left channel t.
Gone(t, sent) == sent[t] - Len(channel[t])

\* Each channel holds the values between two prefixes of the order.
CountsFit(order, sent) ==
    /\ sent \in [ChainThreads -> Nat]
    /\ \A t \in ChainThreads : sent[t] <= Len(order) /\ Len(channel[t]) <= sent[t]
Channels(order, sent) ==
    \A t \in ChainThreads : \A k \in DOMAIN channel[t] :
        channel[t][k] = Val(t, order[Gone(t, sent) + k])
Consumer(order, sent) ==
    /\ Len(received) = Gone(StageCount, sent)
    /\ \A k \in DOMAIN received : received[k] = order[k]

\* The source has sent all the pool has handed out, but what it holds.
AtSource(order, sent) ==
    /\ at[0] = "take" => sent[0] = Len(order)
    /\ at[0] = "send" => sent[0] + 1 = Len(order) /\ hold[0] = Val(0, order[Len(order)])
\* A stage has sent all it has taken, but what it holds.
AtStages(order, sent) ==
    \A t \in StageThreads :
        LET taken == Gone(t - 1, sent) IN
        /\ sent[t] <= taken
        /\ at[t] = "take" => sent[t] = taken
        /\ at[t] = "send" => /\ taken = sent[t] + 1
                             /\ hold[t] = Val(t, order[taken])
                             /\ ~Faulty(order[taken], t, "panic")

\* What a stage has passed on did not panic there, and only the last can be an
\* error.
Passed(order, sent) ==
    \A t \in ChainThreads : \A k \in 1 .. sent[t] :
        /\ \A s \in 1 .. t : ~Faulty(order[k], s, "panic")
        /\ k < sent[t] \/ at[t] # "exited" => ~Erring(t, order[k])

\* A thread has exited because nobody receives from it, or for a reason of the
\* stream's end.
Reasons(order, sent) ==
    \A t \in ChainThreads :
        at[t] = "exited" => \/ t # StageCount /\ at[t + 1] = "exited"
                            \/ stream # "open"
                            \/ Over(order, sent[t])

FlowInv(order, sent) ==
    /\ CountsFit(order, sent) /\ Channels(order, sent) /\ Consumer(order, sent)
    /\ AtSource(order, sent) /\ AtStages(order, sent)
    /\ Passed(order, sent) /\ Reasons(order, sent)

Flow(order, sent) == OrderInv(order) /\ PoolInv(pool, order) /\ FlowInv(order, sent)

ChainInv == ChainTypes /\ \E order, sent : Flow(order, sent)

\* The threads and their neighbours.
LEMMA ChainThreadSets ==
    /\ StageCount \in Nat /\ StageThreads \subseteq ChainThreads /\ ChainThreads \subseteq Nat
    /\ 0 \in ChainThreads /\ StageCount \in ChainThreads /\ 0 \notin StageThreads
    /\ \A t \in StageThreads : t - 1 \in ChainThreads /\ t - 1 # t /\ t - 1 # StageCount
    /\ \A t \in ChainThreads : t # StageCount => t + 1 \in StageThreads
    /\ \A t \in ChainThreads : t = 0 \/ t \in StageThreads
    /\ \A t, u \in StageThreads : t - 1 = u - 1 => t = u
  BY ChainAssumption DEF StageThreads, ChainThreads

\* Every step leaves the faults as they are, and so what a value becomes.
LEMMA SameFaults ==
    ASSUME UNCHANGED <<broken, faulty>>
    PROVE  /\ \A t, x : Val(t, x)' = Val(t, x) /\ Erring(t, x)' = Erring(t, x)
           /\ \A x, s, f : Faulty(x, s, f)' = Faulty(x, s, f)
           /\ \A x : Panicking(x)' = Panicking(x)
           /\ \A order, n : Over(order, n)' = Over(order, n)
           /\ \A order : OrderInv(order)' = OrderInv(order)
           /\ \A order, p : PoolInv(p, order)' = PoolInv(p, order)
<1>1. /\ \A t, x : Val(t, x)' = Val(t, x) /\ Erring(t, x)' = Erring(t, x)
      /\ \A x, s, f : Faulty(x, s, f)' = Faulty(x, s, f)
      /\ \A x : Panicking(x)' = Panicking(x)
  BY DEF Val, Erring, Panicking, Faulty
<1>2. \A order, n : Over(order, n)' = Over(order, n)
  BY <1>1 DEF Over
<1>3. \A order : OrderInv(order)' = OrderInv(order)
  BY DEF OrderInv, Limit, BeforeError
<1>4. \A order, p : PoolInv(p, order)' = PoolInv(p, order)
  BY DEF PoolInv, Broke, Holds, Read, BeforeError, NewPool
<1>5. QED BY <1>1, <1>2, <1>3, <1>4

\* The initial states.
LEMMA ChainStarts ==
    ASSUME ChainInit
    PROVE  ChainInv
<1> DEFINE sent == [t \in ChainThreads |-> 0]
<1>1. ChainTypes
  <2>1. /\ StageThreads \subseteq ChainThreads /\ StageCount \in ChainThreads
        /\ <<>> \in Seq(Values) /\ <<>> \in Seq(Int) /\ Len(<<>>) = 0 /\ ChannelSize \in Nat
    BY ChainThreadSets, ChainAssumption
  <2>2. QED BY <2>1 DEF ChainInit, ChainTypes
<1>2. OrderInv(<<>>) /\ PoolInv(pool, <<>>)
  <2>1. PoolSize \in Nat
    BY ChainAssumption
  <2>2. NewPool(PoolSize) \in Pools
    BY <2>1 DEF NewPool, Pools
  <2>3. NewPool(PoolSize).capacity = PoolSize
    BY DEF NewPool
  <2>4. QED BY <2>2, <2>3 DEF ChainInit, OrderInv, PoolInv, Broke, Distinct
<1>3. FlowInv(<<>>, sent)
  <2>1. /\ Len(<<>>) = 0 /\ DOMAIN <<>> = {}
        /\ \A t \in ChainThreads : sent[t] = 0 /\ Gone(t, sent) = 0 /\ at[t] = "take" /\ channel[t] = <<>>
        /\ sent \in [ChainThreads -> Nat]
        /\ received = <<>>
    BY DEF ChainInit, Gone
  <2> HIDE DEF sent
  <2>2. CountsFit(<<>>, sent) /\ Channels(<<>>, sent) /\ Consumer(<<>>, sent)
    BY <2>1, ChainThreadSets DEF CountsFit, Channels, Consumer
  <2>3. AtSource(<<>>, sent) /\ AtStages(<<>>, sent)
    BY <2>1, ChainThreadSets DEF AtSource, AtStages
  <2>4. Passed(<<>>, sent) /\ Reasons(<<>>, sent)
    BY <2>1 DEF Passed, Reasons
  <2>5. QED BY <2>2, <2>3, <2>4 DEF FlowInv
<1>4. QED BY <1>1, <1>2, <1>3 DEF ChainInv, Flow

\* The values of the order are integers, and a channel's are values.
LEMMA FlowTypes ==
    ASSUME ChainTypes, NEW order, NEW sent, Flow(order, sent)
    PROVE  /\ order \in Seq(Int) /\ Len(order) \in Nat
           /\ \A t \in ChainThreads :
                 /\ sent[t] \in Nat /\ Len(channel[t]) \in Nat /\ Gone(t, sent) \in Nat
                 /\ channel[t] \in Seq(Values)
                 /\ at[t] \in {"take", "send", "exited"}
           /\ \A k \in 1 .. Len(order) : order[k] \in Int
<1>1. order \in Seq(Int)
  <2>1. ItemNumbers \cup {Failure} \subseteq Int
    BY ChainAssumption DEF ItemNumbers, Failure
  <2>2. order \in Seq(ItemNumbers \cup {Failure})
    BY DEF Flow, OrderInv
  <2>3. QED BY <2>1, <2>2
<1>2. \A t \in ChainThreads : channel[t] \in Seq(Values) /\ at[t] \in {"take", "send", "exited"}
  BY DEF ChainTypes
<1>3. \A t \in ChainThreads : sent[t] \in Nat /\ Len(channel[t]) <= sent[t]
  BY DEF Flow, FlowInv, CountsFit
<1>4. \A t \in ChainThreads : Len(channel[t]) \in Nat
  BY <1>2
<1>5. \A t \in ChainThreads : Gone(t, sent) \in Nat
  BY <1>3, <1>4 DEF Gone
<1>6. QED BY <1>1, <1>2, <1>3, <1>4, <1>5

\* A longer order gives the same reasons.
LEMMA OverLater ==
    ASSUME NEW order \in Seq(Int), NEW x \in Int, NEW n \in Nat, n <= Len(order),
           Over(order, n)
    PROVE  Over(Append(order, x), n)
<1>1. /\ Len(Append(order, x)) = Len(order) + 1 /\ Len(order) \in Nat
      /\ \A k \in 1 .. Len(order) : Append(order, x)[k] = order[k]
  OBVIOUS
<1> DEFINE after == Append(order, x)
<1> HIDE DEF after
<1>2. /\ Len(after) = Len(order) + 1 /\ Len(order) \in Nat
      /\ \A k \in 1 .. Len(order) : after[k] = order[k]
  BY <1>1 DEF after
<1>3. Over(after, n)
  BY <1>2 DEF Over
<1>4. QED BY <1>3 DEF after

\* The source takes from the pool: the order grows by what it holds next, or it
\* has seen the pool exhausted.
LEMMA SourceTakeKeeps ==
    ASSUME ChainTypes, NEW order, NEW sent, Flow(order, sent),
           NEW word \in Words, SourceTake(word)
    PROVE  ChainTypes' /\ \E more : Flow(more, sent)'
<1> DEFINE t == Take(pool, ChainSource, word)
<1>1. /\ at[0] = "take" /\ pool' = t.pool
      /\ UNCHANGED <<broken, faulty, panicked, channel, received, stream, joining, result>>
      /\ IF t.result = Exhausted
         THEN at' = [at EXCEPT ![0] = "exited"] /\ UNCHANGED hold
         ELSE at' = [at EXCEPT ![0] = "send"] /\ hold' = [hold EXCEPT ![0] = <<t.result, t.result = Failure>>]
  BY DEF SourceTake
<1>2. IF t.result = Exhausted
      THEN PoolInv(t.pool, order) /\ (~Broke(order) => ~broken /\ Len(order) = ItemCount)
      ELSE OrderInv(Append(order, t.result)) /\ PoolInv(t.pool, Append(order, t.result))
  <2>1. broken \in BOOLEAN /\ word \in Nat /\ OrderInv(order) /\ PoolInv(pool, order)
    BY ChainAssumption DEF ChainTypes, Flow
  <2>2. QED BY <2>1, TakeInv
<1> HIDE DEF t
<1>3. /\ order \in Seq(Int) /\ Len(order) \in Nat
      /\ FlowInv(order, sent) /\ OrderInv(order) /\ sent[0] = Len(order)
  BY <1>1, FlowTypes DEF Flow, FlowInv, AtSource
<1>4. \A u \in ChainThreads : /\ sent[u] \in Nat /\ sent[u] <= Len(order) /\ Gone(u, sent)' = Gone(u, sent)
                              /\ Gone(u, sent) \in Nat /\ Gone(u, sent) <= Len(order)
                              /\ Len(channel[u]) \in Nat /\ Gone(u, sent) + Len(channel[u]) <= Len(order)
  BY <1>1, <1>3, FlowTypes DEF FlowInv, CountsFit, Gone
<1>5. CASE t.result = Exhausted
  <2>1. at' = [at EXCEPT ![0] = "exited"] /\ hold' = hold
    BY <1>1, <1>5
  <2>2. ChainTypes'
    BY <1>1, <2>1, ChainThreadSets DEF ChainTypes
  <2>3. /\ CountsFit(order, sent)' /\ Channels(order, sent)' /\ Consumer(order, sent)'
        /\ AtSource(order, sent)' /\ AtStages(order, sent)' /\ Passed(order, sent)'
    <3>1. /\ CountsFit(order, sent)' /\ Channels(order, sent)' /\ Consumer(order, sent)'
      BY <1>1, <1>3, <1>4, SameFaults, ChainThreadSets DEF FlowInv, CountsFit, Channels, Consumer
    <3>2. AtSource(order, sent)'
      BY <1>1, <2>1, ChainThreadSets DEF AtSource, ChainTypes
    <3>3. \A u \in StageThreads : at'[u] = at[u] /\ Gone(u - 1, sent)' = Gone(u - 1, sent)
      BY <1>4, <2>1, ChainThreadSets DEF ChainTypes
    <3>4. AtStages(order, sent)'
      BY <1>1, <1>3, <2>1, <3>3, SameFaults DEF FlowInv, AtStages
    <3>5. Passed(order, sent)'
      <4>1. \A u \in ChainThreads : at'[u] # "exited" => at[u] # "exited"
        BY <2>1 DEF ChainTypes
      <4>2. QED BY <1>1, <1>3, <4>1, SameFaults DEF FlowInv, Passed
    <3>6. QED BY <3>1, <3>2, <3>4, <3>5
  <2>4. Over(order, sent[0])
    <3>1. CASE Broke(order)
      <4>1. Len(order) > 0 /\ order[Len(order)] = Failure
        BY <1>3, <3>1 DEF Broke, OrderInv
      <4>2. QED BY <1>3, <4>1 DEF Over, Erring
    <3>2. CASE ~Broke(order)
      BY <1>2, <1>3, <1>5, <3>2 DEF Over
    <3>3. QED BY <3>1, <3>2
  <2>5. Reasons(order, sent)'
    BY <1>1, <1>3, <2>1, <2>4, SameFaults, ChainThreadSets DEF FlowInv, Reasons, ChainTypes
  <2>6. (OrderInv(order) /\ PoolInv(pool, order))'
    BY <1>1, <1>2, <1>3, <1>5, SameFaults
  <2>7. Flow(order, sent)'
    BY <2>3, <2>5, <2>6 DEF Flow, FlowInv
  <2>8. QED BY <2>2, <2>7
<1>6. CASE t.result # Exhausted
  <2>20. PICK x : x = t.result
    OBVIOUS
  <2> DEFINE more == Append(order, x)
  <2>1. at' = [at EXCEPT ![0] = "send"] /\ hold' = [hold EXCEPT ![0] = <<x, x = Failure>>]
    BY <1>1, <1>6, <2>20
  <2>2. /\ more \in Seq(Int) /\ x \in Int
        /\ Len(more) = Len(order) + 1 /\ more[Len(more)] = x
        /\ \A k \in 1 .. Len(order) : more[k] = order[k]
    <3>1. more \in Seq(ItemNumbers \cup {Failure})
      BY <1>2, <1>6, <2>20 DEF OrderInv
    <3>2. ItemNumbers \cup {Failure} \subseteq Int
      BY ChainAssumption DEF ItemNumbers, Failure
    <3>3. /\ Len(more) = Len(order) + 1 /\ more[Len(more)] = x
          /\ \A k \in 1 .. Len(order) : more[k] = order[k]
      BY <1>3
    <3> HIDE DEF more
    <3>4. more[Len(more)] \in Int
      BY <1>3, <3>1, <3>2, <3>3
    <3>5. QED BY <3>1, <3>2, <3>3, <3>4
  <2>3. \A n \in Nat : n <= Len(order) /\ Over(order, n) => Over(more, n)
    BY <1>3, <2>2, OverLater
  <2>4. (OrderInv(more) /\ PoolInv(pool, more))'
    BY <1>1, <1>2, <1>6, <2>20, SameFaults
  <2> HIDE DEF more
  <2>5. Val(0, x) = <<x, x = Failure>>
    BY DEF Val, Erring
  <2>6. ChainTypes'
    <3>1. Val(0, x) \in Values
      <4> DEFINE fails == x = Failure
      <4>1. fails \in BOOLEAN /\ x \in Int /\ Val(0, x) = <<x, fails>>
        BY <2>2, <2>5
      <4> HIDE DEF fails
      <4>2. QED BY <4>1 DEF Values
    <3>2. NoValue \notin Values
      BY ChainAssumption DEF Values
    <3>3. hold' = [hold EXCEPT ![0] = Val(0, x)]
      BY <2>1, <2>5
    <3>4. hold' \in [ChainThreads -> Values \cup {NoValue}]
      BY <3>1, <3>3 DEF ChainTypes
    <3>5. at' \in [ChainThreads -> {"take", "send", "exited"}]
      BY <2>1 DEF ChainTypes
    <3>6. \A u \in ChainThreads : (hold'[u] = NoValue) = (at'[u] # "send")
      BY <2>1, <3>1, <3>2, <3>3 DEF ChainTypes
    <3>7. QED BY <1>1, <3>4, <3>5, <3>6 DEF ChainTypes
  <2>7. CountsFit(more, sent)' /\ Channels(more, sent)' /\ Consumer(more, sent)'
    <3>1. CountsFit(more, sent)'
      BY <1>1, <1>3, <2>2, <1>4 DEF FlowInv, CountsFit
    <3>2. Channels(more, sent)'
      <4> SUFFICES ASSUME NEW u \in ChainThreads, NEW k \in DOMAIN channel[u]
                   PROVE  channel[u][k] = Val(u, more[Gone(u, sent) + k])
        BY <1>1, <1>4, SameFaults DEF Channels
      <4>1. channel[u][k] = Val(u, order[Gone(u, sent) + k])
        BY <1>3 DEF FlowInv, Channels
      <4>2. Gone(u, sent) + k \in 1 .. Len(order)
        BY <1>3, <1>4, FlowTypes
      <4>3. QED BY <2>2, <4>1, <4>2
    <3>3. Consumer(more, sent)'
      <4>1. received \in Seq(Int) /\ Len(received) <= Len(order) /\ Len(received) = Gone(StageCount, sent)
        BY <1>3, <1>4, ChainThreadSets, FlowTypes DEF FlowInv, Consumer, ChainTypes
      <4>2. \A k \in DOMAIN received : k \in 1 .. Len(order)
        BY <1>3, <4>1
      <4>3. QED BY <1>1, <1>3, <1>4, <2>2, <4>1, <4>2, ChainThreadSets DEF FlowInv, Consumer
    <3>4. QED BY <3>1, <3>2, <3>3
  <2>8. AtSource(more, sent)'
    BY <1>1, <1>3, <2>1, <2>2, <2>5, SameFaults, ChainThreadSets DEF AtSource, ChainTypes
  <2>9. \A u \in StageThreads : at'[u] = at[u] /\ hold'[u] = hold[u] /\ Gone(u - 1, sent)' = Gone(u - 1, sent)
    BY <1>4, <2>1, ChainThreadSets DEF ChainTypes
  <2>10. AtStages(more, sent)'
    <3> SUFFICES ASSUME NEW u \in StageThreads
                 PROVE  /\ sent[u] <= Gone(u - 1, sent)
                        /\ at[u] = "take" => sent[u] = Gone(u - 1, sent)
                        /\ at[u] = "send" => /\ Gone(u - 1, sent) = sent[u] + 1
                                             /\ hold[u] = Val(u, more[Gone(u - 1, sent)])
                                             /\ ~Faulty(more[Gone(u - 1, sent)], u, "panic")
      BY <1>1, <2>9, SameFaults DEF AtStages
    <3>1. /\ sent[u] <= Gone(u - 1, sent)
          /\ at[u] = "take" => sent[u] = Gone(u - 1, sent)
          /\ at[u] = "send" => /\ Gone(u - 1, sent) = sent[u] + 1
                               /\ hold[u] = Val(u, order[Gone(u - 1, sent)])
                               /\ ~Faulty(order[Gone(u - 1, sent)], u, "panic")
      BY <1>3 DEF FlowInv, AtStages
    <3>2. at[u] = "send" => Gone(u - 1, sent) \in 1 .. Len(order)
      <4>1. u - 1 \in ChainThreads /\ u \in ChainThreads
        BY ChainThreadSets
      <4>2. Gone(u - 1, sent) \in Nat /\ Gone(u - 1, sent) <= Len(order) /\ sent[u] \in Nat
        BY <1>4, <4>1
      <4>3. QED BY <1>3, <3>1, <4>2
    <3>3. QED BY <2>2, <3>1, <3>2
  <2>11. Passed(more, sent)'
    <3> SUFFICES ASSUME NEW u \in ChainThreads, NEW k \in 1 .. sent[u]
                 PROVE  /\ \A s \in 1 .. u : ~Faulty(more[k], s, "panic")
                        /\ k < sent[u] \/ at'[u] # "exited" => ~Erring(u, more[k])
      BY <1>1, SameFaults DEF Passed
    <3>1. more[k] = order[k]
      BY <1>3, <1>4, <2>2
    <3>2. at'[u] # "exited" => at[u] # "exited"
      BY <1>1, <2>1 DEF ChainTypes
    <3>3. QED BY <1>3, <3>1, <3>2 DEF FlowInv, Passed
  <2>12. Reasons(more, sent)'
    <3> SUFFICES ASSUME NEW u \in ChainThreads, at'[u] = "exited"
                 PROVE  \/ u # StageCount /\ at'[u + 1] = "exited"
                        \/ stream # "open"
                        \/ Over(more, sent[u])
      BY <1>1, SameFaults DEF Reasons
    <3>1. u # 0 /\ at[u] = "exited"
      BY <2>1 DEF ChainTypes
    <3>2. \/ u # StageCount /\ at[u + 1] = "exited"
          \/ stream # "open"
          \/ Over(order, sent[u])
      BY <1>3, <3>1 DEF FlowInv, Reasons
    <3>3. u # StageCount /\ at[u + 1] = "exited" => at'[u + 1] = "exited"
      BY <2>9, ChainThreadSets
    <3>4. QED BY <1>4, <2>3, <3>2, <3>3
  <2>13. Flow(more, sent)'
    BY <2>4, <2>7, <2>8, <2>10, <2>11, <2>12 DEF Flow, FlowInv
  <2>14. QED BY <2>6, <2>13
<1>7. QED BY <1>5, <1>6

\* What a thread is about to send: the value after those it has sent.
LEMMA Sending ==
    ASSUME ChainTypes, NEW order, NEW sent, Flow(order, sent),
           NEW t \in ChainThreads, at[t] = "send"
    PROVE  /\ sent[t] + 1 \in 1 .. Len(order)
           /\ hold[t] = Val(t, order[sent[t] + 1]) /\ hold[t] \in Values
           /\ t \in StageThreads => Gone(t - 1, sent) = sent[t] + 1
           /\ \A s \in 1 .. t : ~Faulty(order[sent[t] + 1], s, "panic")
<1>1. FlowInv(order, sent) /\ sent[t] \in Nat /\ Len(order) \in Nat
  BY FlowTypes DEF Flow
<1>2. hold[t] \in Values
  BY DEF ChainTypes
<1>3. CASE t = 0
  <2>1. sent[0] + 1 = Len(order) /\ hold[0] = Val(0, order[Len(order)])
    BY <1>1, <1>3 DEF FlowInv, AtSource
  <2>2. QED BY <1>1, <1>2, <1>3, <2>1, ChainThreadSets
<1>4. CASE t \in StageThreads
  <2>1. /\ Gone(t - 1, sent) = sent[t] + 1
        /\ hold[t] = Val(t, order[sent[t] + 1])
        /\ ~Faulty(order[sent[t] + 1], t, "panic")
    BY <1>1, <1>4 DEF FlowInv, AtStages
  <2>2. t - 1 \in ChainThreads /\ t \in Nat \ {0}
    BY <1>4, ChainThreadSets
  <2>3. /\ Gone(t - 1, sent) <= sent[t - 1] /\ sent[t - 1] <= Len(order)
        /\ sent[t - 1] \in Nat
    BY <1>1, <2>2, FlowTypes DEF FlowInv, CountsFit, Gone
  <2>4. sent[t] + 1 \in 1 .. sent[t - 1] /\ sent[t] + 1 \in 1 .. Len(order)
    BY <1>1, <2>1, <2>3
  <2>5. \A s \in 1 .. t - 1 : ~Faulty(order[sent[t] + 1], s, "panic")
    BY <1>1, <2>2, <2>4 DEF FlowInv, Passed
  <2>6. \A s \in 1 .. t : s = t \/ s \in 1 .. t - 1
    BY <2>2
  <2>7. QED BY <1>2, <2>1, <2>4, <2>5, <2>6
<1>5. QED BY <1>3, <1>4, ChainThreadSets

\* A thread that nobody receives from gives up.
LEMMA GiveUpKeeps ==
    ASSUME ChainTypes, NEW order, NEW sent, Flow(order, sent),
           NEW t \in ChainThreads, Send(t), ~ReceiverOf(t)
    PROVE  ChainTypes' /\ Flow(order, sent)'
<1>1. /\ at[t] = "send" /\ at' = [at EXCEPT ![t] = "exited"] /\ hold' = [hold EXCEPT ![t] = NoValue]
      /\ UNCHANGED <<broken, faulty, pool, panicked, channel, received, stream, joining, result>>
  BY DEF Send
<1>2. FlowInv(order, sent) /\ OrderInv(order) /\ PoolInv(pool, order)
  BY DEF Flow
<1>3. /\ \A u \in ChainThreads : at'[u] = (IF u = t THEN "exited" ELSE at[u])
      /\ \A u \in ChainThreads : u # t => hold'[u] = hold[u]
      /\ \A u : Gone(u, sent)' = Gone(u, sent)
  BY <1>1 DEF ChainTypes, Gone
<1>4. ChainTypes'
  BY <1>1, <1>3 DEF ChainTypes
<1>5. CountsFit(order, sent)' /\ Channels(order, sent)' /\ Consumer(order, sent)'
  BY <1>1, <1>2, <1>3, SameFaults DEF FlowInv, CountsFit, Channels, Consumer
<1>6. AtSource(order, sent)'
  BY <1>1, <1>2, <1>3, SameFaults, ChainThreadSets DEF FlowInv, AtSource
<1>7. AtStages(order, sent)'
  BY <1>1, <1>2, <1>3, SameFaults, ChainThreadSets DEF FlowInv, AtStages
<1>8. Passed(order, sent)'
  BY <1>1, <1>2, <1>3, SameFaults DEF FlowInv, Passed
<1>9. Reasons(order, sent)'
  <2>1. \/ t # StageCount /\ at[t + 1] = "exited"
        \/ stream # "open"
    BY DEF ReceiverOf, ChainTypes
  <2>2. \A u \in ChainThreads : at[u] = "exited" => at'[u] = "exited"
    BY <1>3
  <2>3. \A u \in ChainThreads : u # StageCount => u + 1 \in ChainThreads
    BY ChainThreadSets
  <2>4. QED BY <1>1, <1>2, <1>3, <2>1, <2>2, <2>3, SameFaults DEF FlowInv, Reasons
<1>10. (OrderInv(order) /\ PoolInv(pool, order))'
  BY <1>1, <1>2, SameFaults
<1>11. QED BY <1>4, <1>5, <1>6, <1>7, <1>8, <1>9, <1>10 DEF Flow, FlowInv

\* A thread sends the next value of the order.
LEMMA SendKeeps ==
    ASSUME ChainTypes, NEW order, NEW sent, Flow(order, sent),
           NEW t \in ChainThreads, Send(t), ReceiverOf(t)
    PROVE  ChainTypes' /\ Flow(order, [sent EXCEPT ![t] = @ + 1])'
<1> DEFINE new == [sent EXCEPT ![t] = @ + 1]
           x == order[sent[t] + 1]
<1>1. /\ at[t] = "send" /\ Len(channel[t]) < ChannelSize
      /\ channel' = [channel EXCEPT ![t] = Append(@, hold[t])]
      /\ at' = [at EXCEPT ![t] = AfterSend(hold[t])] /\ hold' = [hold EXCEPT ![t] = NoValue]
      /\ UNCHANGED <<broken, faulty, pool, panicked, received, stream, joining, result>>
  BY DEF Send
<1>2. /\ FlowInv(order, sent) /\ OrderInv(order) /\ PoolInv(pool, order)
      /\ order \in Seq(Int) /\ Len(order) \in Nat
      /\ \A u \in ChainThreads :
            /\ sent[u] \in Nat /\ Len(channel[u]) \in Nat /\ Gone(u, sent) \in Nat
            /\ channel[u] \in Seq(Values)
            /\ sent[u] <= Len(order) /\ Len(channel[u]) <= sent[u]
  BY FlowTypes DEF Flow, FlowInv, CountsFit
<1>3. /\ sent[t] + 1 \in 1 .. Len(order)
      /\ hold[t] = Val(t, x) /\ hold[t] \in Values
      /\ t \in StageThreads => Gone(t - 1, sent) = sent[t] + 1
      /\ \A s \in 1 .. t : ~Faulty(x, s, "panic")
  BY <1>1, Sending
<1>4. /\ new \in [ChainThreads -> Nat]
      /\ \A u \in ChainThreads : new[u] = IF u = t THEN sent[t] + 1 ELSE sent[u]
  BY <1>2 DEF FlowInv, CountsFit
<1>5. /\ \A u \in ChainThreads : u # t => channel'[u] = channel[u] /\ at'[u] = at[u] /\ hold'[u] = hold[u]
      /\ channel'[t] = Append(channel[t], Val(t, x)) /\ at'[t] = AfterSend(hold[t])
      /\ channel'[t] \in Seq(Values) /\ Len(channel'[t]) = Len(channel[t]) + 1
      /\ at'[t] = (IF Erring(t, x) THEN "exited" ELSE "take") /\ at'[t] # "send"
  <2>1. channel'[t] = Append(channel[t], Val(t, x)) /\ at'[t] = AfterSend(hold[t])
    BY <1>1, <1>3 DEF ChainTypes
  <2>2. channel'[t] \in Seq(Values) /\ Len(channel'[t]) = Len(channel[t]) + 1
    BY <1>2, <1>3, <2>1
  <2>3. at'[t] = IF Erring(t, x) THEN "exited" ELSE "take"
    BY <1>3, <2>1 DEF AfterSend, Val
  <2>4. QED BY <1>1, <2>1, <2>2, <2>3 DEF ChainTypes
<1> HIDE DEF new, x
<1>6. \A u \in ChainThreads : Gone(u, new)' = Gone(u, sent)
  <2> TAKE u \in ChainThreads
  <2>1. CASE u = t
    <3>1. Gone(u, new)' = (sent[t] + 1) - (Len(channel[t]) + 1)
      BY <1>4, <1>5, <2>1 DEF Gone
    <3>2. sent[t] \in Nat /\ Len(channel[t]) \in Nat
      BY <1>2
    <3>3. QED BY <2>1, <3>1, <3>2 DEF Gone
  <2>2. CASE u # t
    BY <1>4, <1>5, <2>2 DEF Gone
  <2>3. QED BY <2>1, <2>2
<1>7. ChainTypes'
  <2>1. channel' \in [ChainThreads -> Seq(Values)]
    BY <1>1, <1>5 DEF ChainTypes
  <2>2. \A u \in ChainThreads : Len(channel'[u]) <= ChannelSize
    <3>1. Len(channel'[t]) <= ChannelSize
      BY <1>1, <1>2, <1>5, ChainAssumption
    <3>2. QED BY <1>5, <3>1 DEF ChainTypes
  <2>3. at' \in [ChainThreads -> {"take", "send", "exited"}] /\ hold' \in [ChainThreads -> Values \cup {NoValue}]
    BY <1>1, <1>5 DEF ChainTypes
  <2>4. \A u \in ChainThreads : (hold'[u] = NoValue) = (at'[u] # "send")
    BY <1>1, <1>5 DEF ChainTypes
  <2>5. QED BY <1>1, <2>1, <2>2, <2>3, <2>4 DEF ChainTypes
<1>8. CountsFit(order, new)'
  <2>1. \A u \in ChainThreads : new[u] <= Len(order) /\ Len(channel'[u]) <= new[u]
    <3> TAKE u \in ChainThreads
    <3>1. CASE u = t
      BY <1>2, <1>3, <1>4, <1>5, <3>1
    <3>2. CASE u # t
      BY <1>2, <1>4, <1>5, <3>2
    <3>3. QED BY <3>1, <3>2
  <2>2. QED BY <1>4, <2>1 DEF CountsFit
<1>9. Channels(order, new)'
  <2> SUFFICES ASSUME NEW u \in ChainThreads, NEW k \in DOMAIN channel'[u]
               PROVE  channel'[u][k] = Val(u, order[Gone(u, sent) + k])
    BY <1>1, <1>6, SameFaults DEF Channels
  <2>1. CASE u = t /\ k = Len(channel[t]) + 1
    <3>1. channel'[u][k] = Val(t, x)
      BY <1>2, <1>5, <2>1
    <3>2. Gone(u, sent) + k = sent[t] + 1
      BY <1>2, <2>1 DEF Gone
    <3>3. QED BY <2>1, <3>1, <3>2 DEF x
  <2>2. CASE k \in DOMAIN channel[u]
    <3>1. channel'[u][k] = channel[u][k]
      <4>1. CASE u = t
        <5>1. channel[t] \in Seq(Values) /\ k \in DOMAIN channel[t] /\ hold[t] \in Values
          BY <1>2, <1>3, <2>2, <4>1
        <5>2. Append(channel[t], Val(t, x))[k] = channel[t][k]
          BY <1>3, <5>1
        <5>3. QED BY <1>5, <4>1, <5>2
      <4>2. CASE u # t
        BY <1>5, <4>2
      <4>3. QED BY <4>1, <4>2
    <3>2. QED BY <1>2, <2>2, <3>1 DEF FlowInv, Channels
  <2>3. \/ u = t /\ k = Len(channel[t]) + 1
        \/ k \in DOMAIN channel[u]
    <3>1. CASE u = t
      <4>1. /\ channel[t] \in Seq(Values) /\ channel'[t] \in Seq(Values) /\ Len(channel[t]) \in Nat
            /\ Len(channel'[t]) = Len(channel[t]) + 1
        BY <1>2, <1>5
      <4>2. k \in 1 .. Len(channel[t]) + 1
        BY <3>1, <4>1
      <4>3. k = Len(channel[t]) + 1 \/ k \in 1 .. Len(channel[t])
        BY <4>1, <4>2
      <4>4. QED BY <3>1, <4>1, <4>3
    <3>2. CASE u # t
      BY <1>5, <3>2
    <3>3. QED BY <3>1, <3>2
  <2>4. QED BY <2>1, <2>2, <2>3
<1>10. Consumer(order, new)'
  BY <1>1, <1>2, <1>6, ChainThreadSets DEF FlowInv, Consumer
<1>11. AtSource(order, new)'
  <2>1. CASE t = 0
    <3>1. sent[0] + 1 = Len(order)
      BY <1>1, <1>2, <2>1 DEF FlowInv, AtSource
    <3>2. QED BY <1>4, <1>5, <2>1, <3>1 DEF AtSource
  <2>2. CASE t # 0
    BY <1>1, <1>2, <1>4, <1>5, <2>2, SameFaults, ChainThreadSets DEF FlowInv, AtSource
  <2>3. QED BY <2>1, <2>2
<1>12. AtStages(order, new)'
  <2> SUFFICES ASSUME NEW u \in StageThreads
               PROVE  /\ new[u] <= Gone(u - 1, sent)
                      /\ at'[u] = "take" => new[u] = Gone(u - 1, sent)
                      /\ at'[u] = "send" => /\ Gone(u - 1, sent) = new[u] + 1
                                            /\ hold'[u] = Val(u, order[Gone(u - 1, sent)])
                                            /\ ~Faulty(order[Gone(u - 1, sent)], u, "panic")
    BY <1>1, <1>6, SameFaults, ChainThreadSets DEF AtStages
  <2>1. CASE u = t
    BY <1>2, <1>3, <1>4, <1>5, <2>1
  <2>2. CASE u # t
    BY <1>2, <1>4, <1>5, <2>2, ChainThreadSets DEF FlowInv, AtStages
  <2>3. QED BY <2>1, <2>2
<1>13. Passed(order, new)'
  <2> SUFFICES ASSUME NEW u \in ChainThreads, NEW k \in 1 .. new[u]
               PROVE  /\ \A s \in 1 .. u : ~Faulty(order[k], s, "panic")
                      /\ k < new[u] \/ at'[u] # "exited" => ~Erring(u, order[k])
    BY <1>1, SameFaults DEF Passed
  <2>1. CASE u = t /\ k = sent[t] + 1
    BY <1>2, <1>3, <1>4, <1>5, <2>1 DEF x
  <2>2. CASE u = t /\ k # sent[t] + 1
    <3>1. k \in 1 .. sent[t]
      BY <1>2, <1>4, <2>2
    <3>2. QED BY <1>1, <1>2, <2>2, <3>1 DEF FlowInv, Passed
  <2>3. CASE u # t
    BY <1>2, <1>4, <1>5, <2>3 DEF FlowInv, Passed
  <2>4. QED BY <2>1, <2>2, <2>3
<1>14. Reasons(order, new)'
  <2> SUFFICES ASSUME NEW u \in ChainThreads, at'[u] = "exited"
               PROVE  \/ u # StageCount /\ at'[u + 1] = "exited"
                      \/ stream # "open"
                      \/ Over(order, new[u])
    BY <1>1, SameFaults DEF Reasons
  <2>1. CASE u = t
    <3>1. Erring(t, x)
      BY <1>5, <2>1
    <3>2. Erring(StageCount, x)
      <4>1. 1 .. t \subseteq 1 .. StageCount
        BY ChainAssumption DEF ChainThreads
      <4>2. QED BY <3>1, <4>1 DEF Erring
    <3>3. QED BY <1>2, <1>3, <1>4, <2>1, <3>2 DEF Over, x
  <2>2. CASE u # t
    <3>1. \/ u # StageCount /\ at[u + 1] = "exited"
          \/ stream # "open"
          \/ Over(order, sent[u])
      BY <1>2, <1>5, <2>2 DEF FlowInv, Reasons
    <3>2. u # StageCount /\ at[u + 1] = "exited" => at'[u + 1] = "exited"
      <4>1. u # StageCount => u + 1 \in ChainThreads
        BY ChainThreadSets
      <4>2. QED BY <1>1, <1>5, <4>1
    <3>3. QED BY <1>4, <2>2, <3>1, <3>2
  <2>3. QED BY <2>1, <2>2
<1>15. (OrderInv(order) /\ PoolInv(pool, order))'
  BY <1>1, <1>2, SameFaults
<1>16. QED BY <1>7, <1>8, <1>9, <1>10, <1>11, <1>12, <1>13, <1>14, <1>15 DEF Flow, FlowInv, new

\* The values of a channel, and what is left when the first is taken.
LEMMA TakeFromChannel ==
    ASSUME NEW q \in Seq(Values), q # <<>>
    PROVE  /\ Head(q) = q[1] /\ Head(q) \in Values /\ Tail(q) \in Seq(Values)
           /\ Len(Tail(q)) = Len(q) - 1 /\ Len(q) \in Nat \ {0}
           /\ \A k \in DOMAIN Tail(q) : Tail(q)[k] = q[k + 1] /\ k + 1 \in DOMAIN q /\ k \in Nat
           /\ 1 \in DOMAIN q
  OBVIOUS

\* A value that one stage has sent is, once transformed, the next stage's; and it
\* can panic there only if nothing has gone wrong with it before.
LEMMA Transformed ==
    ASSUME NEW t \in StageThreads, NEW x
    PROVE  Transform(t, Val(t - 1, x)) = Val(t, x)
<1>1. 1 .. t = (1 .. t - 1) \cup {t}
  BY ChainThreadSets
<1>2. (Erring(t - 1, x) \/ Faulty(x, t, "fail")) = Erring(t, x)
  BY <1>1 DEF Erring
<1>3. QED BY <1>2 DEF Transform, Val

\* A stage takes the next value of the order: it panics, or it holds the value
\* that it will send next.
LEMMA MapTakeKeeps ==
    ASSUME ChainTypes, NEW order, NEW sent, Flow(order, sent),
           NEW t \in StageThreads, MapTake(t)
    PROVE  ChainTypes' /\ Flow(order, sent)'
<1> DEFINE x == order[sent[t] + 1]
           panics == ~Erring(t - 1, x) /\ Faulty(x, t, "panic")
<1>1. /\ at[t] = "take" /\ channel[t - 1] # <<>>
      /\ channel' = [channel EXCEPT ![t - 1] = Tail(@)]
      /\ UNCHANGED <<broken, faulty, pool, received, stream, joining, result>>
  BY DEF MapTake
<1>2. /\ FlowInv(order, sent) /\ OrderInv(order) /\ PoolInv(pool, order)
      /\ order \in Seq(Int) /\ Len(order) \in Nat
      /\ \A u \in ChainThreads :
            /\ sent[u] \in Nat /\ Len(channel[u]) \in Nat /\ Gone(u, sent) \in Nat
            /\ channel[u] \in Seq(Values)
            /\ sent[u] <= Len(order) /\ Len(channel[u]) <= sent[u]
  BY FlowTypes DEF Flow, FlowInv, CountsFit
<1>3. /\ t \in ChainThreads /\ t - 1 \in ChainThreads /\ t - 1 # t /\ t - 1 # StageCount
      /\ t \in Nat \ {0}
  BY ChainThreadSets
<1>4. /\ Head(channel[t - 1]) = channel[t - 1][1] /\ Head(channel[t - 1]) \in Values
      /\ Tail(channel[t - 1]) \in Seq(Values)
      /\ Len(Tail(channel[t - 1])) = Len(channel[t - 1]) - 1
      /\ Len(channel[t - 1]) \in Nat \ {0}
      /\ \A k \in DOMAIN Tail(channel[t - 1]) :
            Tail(channel[t - 1])[k] = channel[t - 1][k + 1] /\ k + 1 \in DOMAIN channel[t - 1] /\ k \in Nat
      /\ 1 \in DOMAIN channel[t - 1]
  BY <1>1, <1>2, <1>3, TakeFromChannel
<1>5. Gone(t - 1, sent) = sent[t]
  BY <1>1, <1>2 DEF FlowInv, AtStages
<1>6. Head(channel[t - 1]) = Val(t - 1, x)
  BY <1>2, <1>3, <1>4, <1>5 DEF FlowInv, Channels
<1>7. sent[t] + 1 \in 1 .. sent[t - 1] /\ sent[t] + 1 \in 1 .. Len(order)
  <2>1. /\ sent[t - 1] \in Nat /\ sent[t - 1] <= Len(order) /\ sent[t] \in Nat
        /\ Len(channel[t - 1]) \in Nat \ {0}
    BY <1>2, <1>3, <1>4
  <2>2. sent[t - 1] - Len(channel[t - 1]) = sent[t]
    BY <1>5 DEF Gone
  <2>3. ASSUME NEW a \in Nat, NEW l \in Nat \ {0}, NEW n \in Nat, NEW b \in Nat, a <= n, a - l = b
        PROVE  b + 1 \in 1 .. a /\ b + 1 \in 1 .. n
    BY <2>3
  <2>4. QED BY <1>2, <2>1, <2>2, <2>3
<1> HIDE DEF x
<1>8. IF panics
      THEN at' = [at EXCEPT ![t] = "exited"] /\ panicked' = panicked \union {t} /\ hold' = hold
      ELSE at' = [at EXCEPT ![t] = "send"] /\ hold' = [hold EXCEPT ![t] = Val(t, x)] /\ panicked' = panicked
  <2>1. Transform(t, Head(channel[t - 1])) = Val(t, x)
    BY <1>6, Transformed
  <2>2. (~Head(channel[t - 1])[2] /\ Faulty(Head(channel[t - 1])[1], t, "panic")) = panics
    BY <1>6 DEF Val
  <2> HIDE DEF panics
  <2>3. QED BY <2>1, <2>2 DEF MapTake
<1> HIDE DEF panics
<1>9. Val(t, x) \in Values
  <2>1. x \in Int
    BY <1>2, <1>7 DEF x
  <2> DEFINE b == Erring(t, x)
  <2>2. b \in BOOLEAN /\ Val(t, x) = <<x, b>>
    BY DEF Val, Erring
  <2> HIDE DEF b
  <2>3. QED BY <2>1, <2>2 DEF Values
<1>10. /\ \A u \in ChainThreads : u # t => at'[u] = at[u] /\ hold'[u] = hold[u]
       /\ \A u \in ChainThreads : u # t - 1 => channel'[u] = channel[u]
       /\ channel'[t - 1] = Tail(channel[t - 1])
       /\ at'[t] = (IF panics THEN "exited" ELSE "send")
       /\ ~panics => hold'[t] = Val(t, x)
  BY <1>1, <1>3, <1>8 DEF ChainTypes
<1>11. /\ \A u \in ChainThreads : u # t - 1 => Gone(u, sent)' = Gone(u, sent)
       /\ Gone(t - 1, sent)' = sent[t] + 1
  <2>1. \A u \in ChainThreads : u # t - 1 => Gone(u, sent)' = Gone(u, sent)
    BY <1>10 DEF Gone
  <2>2. Gone(t - 1, sent)' = sent[t - 1] - (Len(channel[t - 1]) - 1)
    BY <1>4, <1>10 DEF Gone
  <2>3. /\ sent[t - 1] \in Nat /\ sent[t] \in Nat /\ Len(channel[t - 1]) \in Nat
        /\ sent[t - 1] - Len(channel[t - 1]) = sent[t]
    BY <1>2, <1>3, <1>4, <1>5 DEF Gone
  <2>4. QED BY <2>1, <2>2, <2>3
<1>12. ChainTypes'
  <2>1. channel' \in [ChainThreads -> Seq(Values)]
    BY <1>1, <1>4 DEF ChainTypes
  <2>2. \A u \in ChainThreads : Len(channel'[u]) <= ChannelSize
    <3>1. Len(channel'[t - 1]) <= ChannelSize
      <4>1. Len(channel[t - 1]) <= ChannelSize
        BY <1>3 DEF ChainTypes
      <4>2. QED BY <1>4, <1>10, <4>1, ChainAssumption
    <3>2. QED BY <1>10, <3>1 DEF ChainTypes
  <2>3. at' \in [ChainThreads -> {"take", "send", "exited"}]
        /\ hold' \in [ChainThreads -> Values \cup {NoValue}] /\ panicked' \subseteq StageThreads
    BY <1>8, <1>9 DEF ChainTypes
  <2>4. \A u \in ChainThreads : (hold'[u] = NoValue) = (at'[u] # "send")
    <3>1. NoValue # Val(t, x)
      BY <1>9, ChainAssumption DEF Values
    <3>2. hold[t] = NoValue
      BY <1>1, <1>3 DEF ChainTypes
    <3>3. (hold'[t] = NoValue) = (at'[t] # "send")
      BY <1>8, <1>10, <3>1, <3>2
    <3>4. \A u \in ChainThreads : (hold[u] = NoValue) = (at[u] # "send")
      BY DEF ChainTypes
    <3>5. \A u \in ChainThreads : u # t => at'[u] = at[u] /\ hold'[u] = hold[u]
      BY <1>10
    <3>6. QED BY <3>3, <3>4, <3>5
  <2>5. QED BY <1>1, <2>1, <2>2, <2>3, <2>4 DEF ChainTypes
<1>13. CountsFit(order, sent)'
  <2>1. Len(channel'[t - 1]) <= sent[t - 1]
    BY <1>2, <1>3, <1>4, <1>10
  <2>2. QED BY <1>2, <1>10, <2>1 DEF FlowInv, CountsFit
<1>14. Channels(order, sent)'
  <2> SUFFICES ASSUME NEW u \in ChainThreads, NEW k \in DOMAIN channel'[u]
               PROVE  channel'[u][k] = Val(u, order[Gone(u, sent)' + k])
    BY <1>1, SameFaults DEF Channels
  <2>1. CASE u = t - 1
    <3>1. channel'[u][k] = channel[u][k + 1] /\ k + 1 \in DOMAIN channel[u]
      BY <1>4, <1>10, <2>1
    <3>2. channel[u][k + 1] = Val(u, order[Gone(u, sent) + (k + 1)])
      BY <1>2, <3>1 DEF FlowInv, Channels
    <3>3. k \in Nat
      BY <1>4, <1>10, <2>1
    <3>4. Gone(u, sent)' + k = Gone(u, sent) + (k + 1)
      <4>1. Gone(u, sent)' = sent[t] + 1 /\ Gone(u, sent) = sent[t] /\ sent[t] \in Nat
        BY <1>2, <1>3, <1>5, <1>11, <2>1
      <4>2. QED BY <3>3, <4>1
    <3>5. QED BY <3>1, <3>2, <3>4
  <2>2. CASE u # t - 1
    BY <1>2, <1>10, <1>11, <2>2 DEF FlowInv, Channels
  <2>3. QED BY <2>1, <2>2
<1>15. Consumer(order, sent)'
  BY <1>1, <1>2, <1>3, <1>11, ChainThreadSets DEF FlowInv, Consumer
<1>16. AtSource(order, sent)'
  <2>1. t # 0 /\ 0 \in ChainThreads
    BY ChainThreadSets
  <2>2. at'[0] = at[0] /\ hold'[0] = hold[0]
    BY <1>10, <2>1
  <2>3. QED BY <1>1, <1>2, <2>2, SameFaults DEF FlowInv, AtSource
<1>17. AtStages(order, sent)'
  <2> SUFFICES ASSUME NEW u \in StageThreads
               PROVE  LET taken == Gone(u - 1, sent)'
                      IN  /\ sent[u] <= taken
                          /\ at'[u] = "take" => sent[u] = taken
                          /\ at'[u] = "send" => /\ taken = sent[u] + 1
                                                /\ hold'[u] = Val(u, order[taken])
                                                /\ ~Faulty(order[taken], u, "panic")
    BY <1>1, SameFaults DEF AtStages
  <2>1. CASE u = t
    <3>1. CASE panics
      BY <1>2, <1>3, <1>10, <1>11, <2>1, <3>1
    <3>2. CASE ~panics
      <4>1. Gone(u - 1, sent)' = sent[u] + 1 /\ hold'[u] = Val(u, x) /\ at'[u] = "send"
        BY <1>3, <1>10, <1>11, <2>1, <3>2
      <4>2. ~Faulty(x, t, "panic")
        <5> SUFFICES ASSUME Faulty(x, t, "panic"), Erring(t - 1, x)
                     PROVE  FALSE
          BY <3>2 DEF panics
        <5>1. /\ faulty \subseteq ItemNumbers \X StageThreads \X Faults
              /\ \A f, g \in faulty : f[1] = g[1] => f = g
          BY ChainAssumption DEF ChainTypes
        <5>2. x # Failure
          BY <5>1 DEF Faulty, ItemNumbers, Failure
        <5>3. PICK s \in 1 .. t - 1 : <<x, s, "fail">> \in faulty
          BY <5>2 DEF Erring, Faulty
        <5>4. <<x, s, "fail">> = <<x, t, "panic">>
          BY <5>1, <5>3 DEF Faulty
        <5>5. QED BY <5>4
      <4>3. QED BY <1>2, <1>3, <2>1, <4>1, <4>2 DEF x
    <3>3. QED BY <3>1, <3>2
  <2>2. CASE u # t
    <3>1. u \in ChainThreads /\ u - 1 \in ChainThreads /\ u - 1 # t - 1
      BY <2>2, ChainThreadSets
    <3>2. QED BY <1>2, <1>10, <1>11, <2>2, <3>1 DEF FlowInv, AtStages
  <2>3. QED BY <2>1, <2>2
<1>18. Passed(order, sent)'
  <2>1. \A u \in ChainThreads : at'[u] # "exited" => at[u] # "exited"
    BY <1>1, <1>10
  <2>2. QED BY <1>1, <1>2, <2>1, SameFaults DEF FlowInv, Passed
<1>19. Reasons(order, sent)'
  <2> SUFFICES ASSUME NEW u \in ChainThreads, at'[u] = "exited"
               PROVE  \/ u # StageCount /\ at'[u + 1] = "exited"
                      \/ stream # "open"
                      \/ Over(order, sent[u])
    BY <1>1, SameFaults DEF Reasons
  <2>1. CASE u = t
    <3>1. panics
      BY <1>10, <2>1
    <3>2. Panicking(x)
      BY <3>1 DEF panics, Panicking
    <3>3. QED BY <1>2, <1>3, <1>7, <2>1, <3>2 DEF Over, x
  <2>2. CASE u # t
    <3>1. \/ u # StageCount /\ at[u + 1] = "exited"
          \/ stream # "open"
          \/ Over(order, sent[u])
      BY <1>2, <1>10, <2>2 DEF FlowInv, Reasons
    <3>2. u # StageCount /\ at[u + 1] = "exited" => at'[u + 1] = "exited"
      <4>1. u # StageCount => u + 1 \in ChainThreads
        BY ChainThreadSets
      <4>2. QED BY <1>1, <1>10, <4>1
    <3>3. QED BY <3>1, <3>2
  <2>3. QED BY <2>1, <2>2
<1>20. (OrderInv(order) /\ PoolInv(pool, order))'
  BY <1>1, <1>2, SameFaults
<1>21. QED BY <1>12, <1>13, <1>14, <1>15, <1>16, <1>17, <1>18, <1>19, <1>20 DEF Flow, FlowInv

\* A stage whose channel is closed ends for the reason of the thread above it.
LEMMA MapEndKeeps ==
    ASSUME ChainTypes, NEW order, NEW sent, Flow(order, sent),
           NEW t \in StageThreads, MapEnd(t)
    PROVE  ChainTypes' /\ Flow(order, sent)'
<1>1. /\ at[t] = "take" /\ channel[t - 1] = <<>> /\ at[t - 1] = "exited"
      /\ at' = [at EXCEPT ![t] = "exited"]
      /\ UNCHANGED <<broken, faulty, pool, hold, panicked, channel, received, stream, joining, result>>
  BY DEF MapEnd
<1>2. FlowInv(order, sent) /\ OrderInv(order) /\ PoolInv(pool, order)
  BY DEF Flow
<1>3. /\ t \in ChainThreads /\ t - 1 \in ChainThreads /\ t - 1 # StageCount /\ (t - 1) + 1 = t /\ t # 0
  BY ChainThreadSets
<1>4. /\ \A u \in ChainThreads : at'[u] = (IF u = t THEN "exited" ELSE at[u])
      /\ \A u : Gone(u, sent)' = Gone(u, sent)
  BY <1>1 DEF ChainTypes, Gone
<1>5. ChainTypes'
  BY <1>1, <1>3, <1>4 DEF ChainTypes
<1>6. CountsFit(order, sent)' /\ Channels(order, sent)' /\ Consumer(order, sent)'
  BY <1>1, <1>2, <1>4, SameFaults DEF FlowInv, CountsFit, Channels, Consumer
<1>7. AtSource(order, sent)'
  BY <1>1, <1>2, <1>3, <1>4, SameFaults, ChainThreadSets DEF FlowInv, AtSource
<1>8. AtStages(order, sent)'
  BY <1>1, <1>2, <1>4, SameFaults, ChainThreadSets DEF FlowInv, AtStages
<1>9. Passed(order, sent)'
  BY <1>1, <1>2, <1>4, SameFaults DEF FlowInv, Passed
<1>10. Reasons(order, sent)'
  <2>1. stream # "open" \/ Over(order, sent[t - 1])
    BY <1>1, <1>2, <1>3 DEF FlowInv, Reasons
  <2>2. sent[t - 1] = sent[t]
    <3>1. sent[t] = Gone(t - 1, sent) /\ sent[t - 1] \in Nat
      BY <1>1, <1>2, <1>3 DEF FlowInv, AtStages, CountsFit
    <3>2. Gone(t - 1, sent) = sent[t - 1]
      BY <1>1, <3>1 DEF Gone
    <3>3. QED BY <3>1, <3>2
  <2>3. \A u \in ChainThreads : at[u] = "exited" => at'[u] = "exited"
    BY <1>4
  <2>4. \A u \in ChainThreads : u # StageCount => u + 1 \in ChainThreads
    BY ChainThreadSets
  <2>5. QED BY <1>1, <1>2, <1>4, <2>1, <2>2, <2>3, <2>4, SameFaults DEF FlowInv, Reasons
<1>11. (OrderInv(order) /\ PoolInv(pool, order))'
  BY <1>1, <1>2, SameFaults
<1>12. QED BY <1>5, <1>6, <1>7, <1>8, <1>9, <1>10, <1>11 DEF Flow, FlowInv

\* What the consumer has received, and what its channel gives it next.
LEMMA Receiving ==
    ASSUME ChainTypes, NEW order, NEW sent, Flow(order, sent),
           channel[StageCount] # <<>>
    PROVE  LET k == Len(received) + 1
           IN  /\ k \in 1 .. sent[StageCount] /\ k \in 1 .. Len(order)
               /\ Head(channel[StageCount]) = Val(StageCount, order[k])
               /\ Head(channel[StageCount])[1] = order[k]
               /\ \A j \in DOMAIN received : received[j] = order[j] /\ j \in 1 .. sent[StageCount] /\ j < k
               /\ Len(received) \in Nat
<1> DEFINE k == Len(received) + 1
           q == channel[StageCount]
<1>1. /\ FlowInv(order, sent) /\ StageCount \in ChainThreads
      /\ sent[StageCount] \in Nat /\ Len(q) \in Nat /\ q \in Seq(Values)
      /\ sent[StageCount] <= Len(order) /\ Len(q) <= sent[StageCount] /\ Len(order) \in Nat
  BY ChainThreadSets, FlowTypes DEF Flow, FlowInv, CountsFit
<1>2. Head(q) = q[1] /\ Len(q) \in Nat \ {0} /\ 1 \in DOMAIN q
  BY <1>1, TakeFromChannel
<1>3. Len(received) = Gone(StageCount, sent) /\ \A j \in DOMAIN received : received[j] = order[j]
  BY <1>1 DEF FlowInv, Consumer
<1>4. Head(q) = Val(StageCount, order[k])
  BY <1>1, <1>2, <1>3 DEF FlowInv, Channels
<1>5. Len(received) \in Nat /\ Len(received) = sent[StageCount] - Len(q) /\ DOMAIN received = 1 .. Len(received)
  BY <1>3 DEF ChainTypes, Gone
<1> HIDE DEF q
<1>6. k \in 1 .. sent[StageCount] /\ k \in 1 .. Len(order)
  BY <1>1, <1>2, <1>5
<1>7. \A j \in DOMAIN received : j \in 1 .. sent[StageCount] /\ j < k
  BY <1>1, <1>2, <1>5
<1>8. Head(q)[1] = order[k]
  BY <1>4 DEF Val
<1>9. QED BY <1>3, <1>4, <1>5, <1>6, <1>7, <1>8 DEF q

\* The consumer receives the next value of the order.
LEMMA RecvKeeps ==
    ASSUME ChainTypes, NEW order, NEW sent, Flow(order, sent), Recv
    PROVE  ChainTypes' /\ Flow(order, sent)'
<1> DEFINE x == order[Len(received) + 1]
<1>1. /\ channel[StageCount] # <<>>
      /\ received' = Append(received, Head(channel[StageCount])[1])
      /\ channel' = [channel EXCEPT ![StageCount] = Tail(@)]
      /\ UNCHANGED <<broken, faulty, pool, at, hold, panicked, stream, joining, result>>
  BY DEF Recv
<1>2. /\ FlowInv(order, sent) /\ OrderInv(order) /\ PoolInv(pool, order)
      /\ order \in Seq(Int) /\ Len(order) \in Nat
      /\ \A u \in ChainThreads :
            /\ sent[u] \in Nat /\ Len(channel[u]) \in Nat /\ Gone(u, sent) \in Nat
            /\ channel[u] \in Seq(Values)
            /\ sent[u] <= Len(order) /\ Len(channel[u]) <= sent[u]
  BY FlowTypes DEF Flow, FlowInv, CountsFit
<1>3. /\ StageCount \in ChainThreads /\ \A u \in StageThreads : u - 1 # StageCount /\ u - 1 \in ChainThreads
  BY ChainThreadSets
<1>4. /\ Tail(channel[StageCount]) \in Seq(Values)
      /\ Len(Tail(channel[StageCount])) = Len(channel[StageCount]) - 1
      /\ Len(channel[StageCount]) \in Nat \ {0}
      /\ \A k \in DOMAIN Tail(channel[StageCount]) :
            Tail(channel[StageCount])[k] = channel[StageCount][k + 1] /\ k + 1 \in DOMAIN channel[StageCount]
  BY <1>1, <1>2, <1>3, TakeFromChannel
<1>5. received' = Append(received, x) /\ Len(received) + 1 \in 1 .. Len(order)
      /\ Len(received) \in Nat /\ \A j \in DOMAIN received : received[j] = order[j]
  BY <1>1, Receiving
<1>6. x \in Int
  BY <1>2, <1>5
<1>7. received' \in Seq(Int) /\ Len(received') = Len(received) + 1
      /\ \A j \in DOMAIN received' : received'[j] = order[j]
  BY <1>5, <1>6 DEF ChainTypes
<1>8. /\ \A u \in ChainThreads : u # StageCount => channel'[u] = channel[u]
      /\ channel'[StageCount] = Tail(channel[StageCount])
  BY <1>1, <1>3 DEF ChainTypes
<1>9. /\ \A u \in ChainThreads : u # StageCount => Gone(u, sent)' = Gone(u, sent)
      /\ Gone(StageCount, sent)' = Gone(StageCount, sent) + 1
  <2>1. \A u \in ChainThreads : u # StageCount => Gone(u, sent)' = Gone(u, sent)
    BY <1>8 DEF Gone
  <2>2. Gone(StageCount, sent)' = sent[StageCount] - (Len(channel[StageCount]) - 1)
    BY <1>4, <1>8 DEF Gone
  <2>3. sent[StageCount] \in Nat /\ Len(channel[StageCount]) \in Nat
    BY <1>2, <1>3
  <2>4. QED BY <2>1, <2>2, <2>3 DEF Gone
<1>10. ChainTypes'
  <2>1. channel' \in [ChainThreads -> Seq(Values)]
    BY <1>1, <1>4 DEF ChainTypes
  <2>2. \A u \in ChainThreads : Len(channel'[u]) <= ChannelSize
    <3>1. Len(channel'[StageCount]) <= ChannelSize
      <4>1. Len(channel[StageCount]) <= ChannelSize
        BY <1>3 DEF ChainTypes
      <4>2. QED BY <1>4, <1>8, <4>1, ChainAssumption
    <3>2. QED BY <1>8, <3>1 DEF ChainTypes
  <2>3. QED BY <1>1, <1>7, <2>1, <2>2 DEF ChainTypes
<1>11. CountsFit(order, sent)'
  <2>1. Len(channel'[StageCount]) <= sent[StageCount]
    BY <1>2, <1>3, <1>4, <1>8
  <2>2. QED BY <1>2, <1>8, <2>1 DEF FlowInv, CountsFit
<1>12. Channels(order, sent)'
  <2> SUFFICES ASSUME NEW u \in ChainThreads, NEW k \in DOMAIN channel'[u]
               PROVE  channel'[u][k] = Val(u, order[Gone(u, sent)' + k])
    BY <1>1, SameFaults DEF Channels
  <2>1. CASE u = StageCount
    <3>1. channel'[u][k] = channel[u][k + 1] /\ k + 1 \in DOMAIN channel[u]
      BY <1>4, <1>8, <2>1
    <3>2. channel[u][k + 1] = Val(u, order[Gone(u, sent) + (k + 1)])
      BY <1>2, <3>1 DEF FlowInv, Channels
    <3>3. k \in Nat
      <4>1. k \in DOMAIN Tail(channel[StageCount])
        BY <1>8, <2>1
      <4>2. QED BY <1>4, <4>1
    <3>4. Gone(u, sent)' + k = Gone(u, sent) + (k + 1)
      <4>1. Gone(u, sent)' = Gone(u, sent) + 1 /\ Gone(u, sent) \in Nat
        BY <1>2, <1>9, <2>1
      <4>2. QED BY <3>3, <4>1
    <3>5. QED BY <3>1, <3>2, <3>4
  <2>2. CASE u # StageCount
    BY <1>2, <1>8, <1>9, <2>2 DEF FlowInv, Channels
  <2>3. QED BY <2>1, <2>2
<1>13. Consumer(order, sent)'
  BY <1>2, <1>7, <1>9 DEF FlowInv, Consumer
<1>14. AtSource(order, sent)' /\ AtStages(order, sent)'
  BY <1>1, <1>2, <1>3, <1>9, SameFaults DEF FlowInv, AtSource, AtStages
<1>15. Passed(order, sent)' /\ Reasons(order, sent)'
  BY <1>1, <1>2, SameFaults DEF FlowInv, Passed, Reasons
<1>16. (OrderInv(order) /\ PoolInv(pool, order))'
  BY <1>1, <1>2, SameFaults
<1>17. QED BY <1>10, <1>11, <1>12, <1>13, <1>14, <1>15, <1>16 DEF Flow, FlowInv

\* The consumer's other steps move no value.
LEMMA ConsumerKeeps ==
    ASSUME ChainTypes, NEW order, NEW sent, Flow(order, sent),
           RecvEnd \/ FinishBegin \/ Join \/ UNCHANGED chainVars
    PROVE  ChainTypes' /\ Flow(order, sent)'
<1>1. /\ UNCHANGED <<broken, faulty, pool, at, hold, panicked, channel, received>>
      /\ stream' = stream \/ stream' # "open"
  BY DEF RecvEnd, FinishBegin, Join, chainVars
<1>2. stream' \in {"open", "ended", "finishing", "finished"} /\ joining' \in ChainThreads
  <2>1. CASE Join /\ joining' # joining
    <3>1. joining' = joining - 1 /\ joining # 0 /\ stream' = stream
      BY <2>1 DEF Join
    <3>2. QED BY <3>1, ChainThreadSets DEF ChainTypes
  <2>2. CASE ~Join \/ joining' = joining
    BY <2>2 DEF RecvEnd, FinishBegin, Join, chainVars, ChainTypes
  <2>3. QED BY <2>1, <2>2
<1>3. ChainTypes'
  BY <1>1, <1>2 DEF ChainTypes
<1>4. FlowInv(order, sent)'
  <2>1. \A u : Gone(u, sent)' = Gone(u, sent)
    BY <1>1 DEF Gone
  <2>2. Reasons(order, sent)'
    BY <1>1, SameFaults DEF Flow, FlowInv, Reasons
  <2>3. QED BY <1>1, <2>1, <2>2, SameFaults
        DEF Flow, FlowInv, CountsFit, Channels, Consumer, AtSource, AtStages, Passed
<1>5. (OrderInv(order) /\ PoolInv(pool, order))'
  BY <1>1, SameFaults DEF Flow
<1>6. QED BY <1>3, <1>4, <1>5 DEF Flow

\* Every step keeps the invariant.
LEMMA ChainInvNext ==
    ASSUME ChainInv, [ChainNext]_chainVars
    PROVE  ChainInv'
<1>1. PICK order, sent : Flow(order, sent)
  BY DEF ChainInv
<1>2. ChainTypes
  BY DEF ChainInv
<1>3. SUFFICES ChainTypes' /\ \E o, s : Flow(o, s)'
  BY DEF ChainInv
<1>4. CASE \E word \in Words : SourceTake(word)
  BY <1>1, <1>2, <1>4, SourceTakeKeeps
<1>5. ASSUME NEW t \in StageThreads, MapTake(t) PROVE ChainTypes' /\ \E o, s : Flow(o, s)'
  BY <1>1, <1>2, <1>5, MapTakeKeeps
<1>6. ASSUME NEW t \in StageThreads, MapEnd(t) PROVE ChainTypes' /\ \E o, s : Flow(o, s)'
  BY <1>1, <1>2, <1>6, MapEndKeeps
<1>7. ASSUME NEW t \in ChainThreads, Send(t) PROVE ChainTypes' /\ \E o, s : Flow(o, s)'
  BY <1>1, <1>2, <1>7, SendKeeps, GiveUpKeeps
<1>8. CASE Recv
  BY <1>1, <1>2, <1>8, RecvKeeps
<1>9. CASE RecvEnd \/ FinishBegin \/ Join \/ UNCHANGED chainVars
  BY <1>1, <1>2, <1>9, ConsumerKeeps
<1>10. QED BY <1>4, <1>5, <1>6, <1>7, <1>8, <1>9 DEF ChainNext

-----------------------------------------------------------------------------
\* finish.

\* finish has joined the threads below joining: they have exited, none by a
\* panic; and it ends at thread 0, or at one that panicked.
JoinInv ==
    /\ stream \in {"open", "ended"} => joining = StageCount
    /\ \A t \in ChainThreads :
          stream \in {"finishing", "finished"} /\ t > joining => at[t] = "exited" /\ t \notin panicked
    /\ stream = "finished" =>
          \/ result = "ok" /\ joining = 0 /\ at[0] = "exited"
          \/ result = "panicked" /\ joining \in panicked

\* A thread that has exited stays so, and does not panic any more; and whoever has
\* panicked stays panicked.
LEMMA DeadStay ==
    ASSUME ChainTypes, [ChainNext]_chainVars
    PROVE  /\ \A t \in ChainThreads : at[t] = "exited" =>
                 at'[t] = "exited" /\ (t \notin panicked => t \notin panicked')
           /\ panicked \subseteq panicked'
<1>1. CASE \E word \in Words : SourceTake(word)
  BY <1>1 DEF SourceTake, ChainTypes
<1>2. CASE \E t \in StageThreads : MapTake(t)
  BY <1>2 DEF MapTake, ChainTypes
<1>3. CASE \E t \in StageThreads : MapEnd(t)
  BY <1>3 DEF MapEnd, ChainTypes
<1>4. CASE \E t \in ChainThreads : Send(t)
  BY <1>4 DEF Send, ChainTypes
<1>5. CASE Recv \/ RecvEnd \/ FinishBegin \/ Join \/ UNCHANGED chainVars
  BY <1>5 DEF Recv, RecvEnd, FinishBegin, Join, chainVars
<1>6. QED BY <1>1, <1>2, <1>3, <1>4, <1>5 DEF ChainNext

\* finish's own steps keep JoinInv; the threads' cannot disturb it.
LEMMA JoinInvNext ==
    ASSUME ChainTypes, ChainTypes', JoinInv, [ChainNext]_chainVars
    PROVE  JoinInv'
<1>1. /\ \A t \in ChainThreads : at[t] = "exited" =>
            at'[t] = "exited" /\ (t \notin panicked => t \notin panicked')
      /\ panicked \subseteq panicked'
  BY DeadStay
<1>2. CASE FinishBegin
  <2>1. joining' = StageCount /\ stream' = "finishing"
    BY <1>2 DEF FinishBegin, JoinInv
  <2>2. \A t \in ChainThreads : ~(t > StageCount)
    BY ChainAssumption DEF ChainThreads
  <2>3. QED BY <2>1, <2>2 DEF JoinInv
<1>3. CASE Join
  <2>1. /\ stream = "finishing" /\ at[joining] = "exited" /\ at' = at /\ panicked' = panicked
        /\ joining \in ChainThreads
    BY <1>3 DEF Join, ChainTypes
  <2>2. CASE joining \in panicked
    BY <1>3, <2>1, <2>2 DEF Join, JoinFails, JoinInv
  <2>3. CASE joining \notin panicked /\ joining = 0
    BY <1>3, <2>1, <2>3 DEF Join, JoinFails, JoinInv
  <2>4. CASE joining \notin panicked /\ joining # 0
    <3>1. joining' = joining - 1 /\ stream' = stream
      BY <1>3, <2>4 DEF Join, JoinFails
    <3>2. \A t \in ChainThreads : t > joining - 1 => t = joining \/ t > joining
      BY <2>1, ChainThreadSets
    <3>3. QED BY <2>1, <2>4, <3>1, <3>2 DEF JoinInv
  <2>5. QED BY <2>2, <2>3, <2>4
<1>4. CASE RecvEnd
  BY <1>4 DEF RecvEnd, JoinInv
<1>5. CASE UNCHANGED <<stream, joining, result>>
  BY <1>1, <1>5, ChainThreadSets DEF JoinInv
<1>6. QED
  BY <1>2, <1>3, <1>4, <1>5
     DEF ChainNext, SourceTake, MapTake, MapEnd, Send, Recv, chainVars

\* The invariant says what the type invariant does.
LEMMA ChainTyped == ChainInv => ChainTypeOK
<1> SUFFICES ASSUME ChainInv PROVE ChainTypeOK
  OBVIOUS
<1>1. PICK order, sent : Flow(order, sent)
  BY DEF ChainInv
<1>2. Len(pool.items) <= PoolSize
  <2>1. PoolInv(pool, order) /\ PoolSize \in Nat
    BY <1>1, ChainAssumption DEF Flow
  <2>2. CASE pool.items = <<>>
    BY <2>1, <2>2
  <2>3. CASE Holds(pool, order)
    BY <2>3 DEF Holds
  <2>4. CASE pool = NewPool(PoolSize)
    BY <2>1, <2>4 DEF NewPool
  <2>5. QED BY <2>1, <2>2, <2>3, <2>4 DEF PoolInv
<1>3. QED BY <1>2 DEF ChainInv, ChainTypes, ChainTypeOK

\* For every number of items, stages, every capacity and every choice of faults,
\* the variables keep their types, no channel and no pool exceeds its capacity,
\* and the values on their way are those of one order.
THEOREM ChainInvariant == ChainSpec => [](ChainTypeOK /\ ChainInv)
<1>1. ChainInit => ChainInv
  BY ChainStarts
<1>2. ChainInv /\ [ChainNext]_chainVars => ChainInv'
  BY ChainInvNext
<1>3. ChainInv => ChainTypeOK
  BY ChainTyped
<1>4. QED BY <1>1, <1>2, <1>3, PTL DEF ChainSpec

\* finish reports a panic exactly when a stage has panicked: the threads it has
\* joined have exited without one, and the dead stay dead.
THEOREM FinishReports == ChainSpec => []FinishTells
<1>1. ChainInit => JoinInv
  <2>1. \A t \in ChainThreads : ~(t > StageCount)
    BY ChainAssumption DEF ChainThreads
  <2>2. QED BY <2>1 DEF ChainInit, JoinInv
<1>2. ChainInv /\ ChainInv' /\ JoinInv /\ [ChainNext]_chainVars => JoinInv'
  BY JoinInvNext DEF ChainInv
<1>3. ChainInv /\ JoinInv => FinishTells
  <2> SUFFICES ASSUME ChainInv, JoinInv, stream = "finished"
               PROVE  result = (IF panicked = {} THEN "ok" ELSE "panicked")
    BY DEF FinishTells
  <2>1. panicked \subseteq StageThreads
    BY DEF ChainInv, ChainTypes
  <2>2. CASE result = "ok" /\ joining = 0
    <3>1. \A t \in StageThreads : t \in ChainThreads /\ t > 0
      BY DEF StageThreads, ChainThreads
    <3>2. QED BY <2>1, <2>2, <3>1 DEF JoinInv
  <2>3. CASE result = "panicked" /\ joining \in panicked
    BY <2>3
  <2>4. QED BY <2>2, <2>3 DEF JoinInv
<1>4. QED BY <1>1, <1>2, <1>3, ChainInvariant, PTL DEF ChainSpec

-----------------------------------------------------------------------------
\* The stream the consumer sees.

Failing == {f[1] : f \in {g \in faulty : g[3] = "fail"}}
Panickers == {f[1] : f \in {g \in faulty : g[3] = "panic"}}

\* The faults as ShuffledStream knows them.
LEMMA FaultSets ==
    ASSUME faulty \in Faultings
    PROVE  /\ \A x : x \in Failing <=> \E s \in StageThreads : Faulty(x, s, "fail")
           /\ \A x : x \in Panickers <=> Panicking(x)
           /\ \A x : Erring(StageCount, x) <=> x = Failure \/ x \in Failing
           /\ Failing \subseteq ItemNumbers /\ Panickers \subseteq ItemNumbers \ Failing
<1>1. /\ \A f \in faulty : \E x \in ItemNumbers, s \in StageThreads, k \in Faults : f = <<x, s, k>>
      /\ \A f, g \in faulty : f[1] = g[1] => f = g
  BY ChainAssumption
<1>2. \A x : x \in Failing <=> \E s \in StageThreads : Faulty(x, s, "fail")
  <2>1. ASSUME NEW x \in Failing PROVE \E s \in StageThreads : Faulty(x, s, "fail")
    <3>1. PICK f \in faulty : f[3] = "fail" /\ x = f[1]
      BY DEF Failing
    <3>2. PICK y \in ItemNumbers, s \in StageThreads, k \in Faults : f = <<y, s, k>>
      BY <1>1
    <3>3. f = <<x, s, "fail">>
      BY <3>1, <3>2
    <3>4. QED BY <3>2, <3>3 DEF Faulty
  <2>2. ASSUME NEW x, NEW s \in StageThreads, Faulty(x, s, "fail") PROVE x \in Failing
    <3>1. <<x, s, "fail">>[3] = "fail" /\ <<x, s, "fail">>[1] = x
      OBVIOUS
    <3>2. QED BY <2>2, <3>1 DEF Failing, Faulty
  <2>3. QED BY <2>1, <2>2
<1>3. \A x : x \in Panickers <=> Panicking(x)
  <2>1. ASSUME NEW x \in Panickers PROVE Panicking(x)
    <3>1. PICK f \in faulty : f[3] = "panic" /\ x = f[1]
      BY DEF Panickers
    <3>2. PICK y \in ItemNumbers, s \in StageThreads, k \in Faults : f = <<y, s, k>>
      BY <1>1
    <3>3. f = <<x, s, "panic">>
      BY <3>1, <3>2
    <3>4. QED BY <3>2, <3>3 DEF Panicking, Faulty
  <2>2. ASSUME NEW x, NEW s \in StageThreads, Faulty(x, s, "panic") PROVE x \in Panickers
    <3>1. <<x, s, "panic">>[3] = "panic" /\ <<x, s, "panic">>[1] = x
      OBVIOUS
    <3>2. QED BY <2>2, <3>1 DEF Panickers, Faulty
  <2>3. QED BY <2>1, <2>2 DEF Panicking
<1>4. \A x : Erring(StageCount, x) <=> x = Failure \/ x \in Failing
  BY <1>2 DEF Erring, StageThreads
<1>5. Failing \subseteq ItemNumbers /\ Panickers \subseteq ItemNumbers
  BY <1>1 DEF Failing, Panickers
<1>6. \A x \in Panickers : x \notin Failing
  <2> SUFFICES ASSUME NEW x \in Panickers, x \in Failing PROVE FALSE
    OBVIOUS
  <2>1. PICK s \in StageThreads : <<x, s, "fail">> \in faulty
    BY <1>2 DEF Faulty
  <2>2. PICK u \in StageThreads : <<x, u, "panic">> \in faulty
    BY <1>3 DEF Panicking, Faulty
  <2>3. <<x, s, "fail">> = <<x, u, "panic">>
    BY <1>1, <2>1, <2>2
  <2>4. QED BY <2>3
<1>7. QED BY <1>2, <1>3, <1>4, <1>5, <1>6

\* What the consumer receives next is something the stream may deliver.
LEMMA RecvDelivers ==
    ASSUME ChainTypes, NEW order, NEW sent, Flow(order, sent), Recv
    PROVE  Stream!Deliver \/ Stream!DeliverError
<1> DEFINE x == order[Len(received) + 1]
           n == Len(received)
<1>1. /\ stream = "open" /\ stream' = "open" /\ channel[StageCount] # <<>> /\ received' = Append(received, x)
      /\ UNCHANGED <<broken, faulty>>
  BY Receiving DEF Recv
<1>2. /\ n + 1 \in 1 .. sent[StageCount] /\ n + 1 \in 1 .. Len(order) /\ n \in Nat
      /\ \A j \in DOMAIN received : received[j] = order[j] /\ j \in 1 .. sent[StageCount] /\ j < n + 1
  BY <1>1, Receiving
<1>3. OrderInv(order) /\ FlowInv(order, sent) /\ StageCount \in ChainThreads /\ sent[StageCount] \in Nat
  BY FlowTypes, ChainThreadSets DEF Flow
<1>4. ~Stream!Failed
  <2> SUFFICES ASSUME NEW j \in DOMAIN received, received[j] = Failure \/ received[j] \in Failing
               PROVE  FALSE
    BY DEF Stream!Failed, Stream!Failure, Failure, Failing
  <2>1. Erring(StageCount, order[j])
    BY <1>2, FaultSets DEF ChainTypes
  <2>2. j \in 1 .. sent[StageCount] /\ j < sent[StageCount]
    BY <1>2, <1>3
  <2>3. QED BY <1>3, <2>1, <2>2 DEF FlowInv, Passed
<1>5. UNCHANGED <<broken, Failing, Panickers>>
  BY <1>1 DEF Failing, Panickers
<1>6. PoolSize \in Nat \ {0} /\ ItemCount \in Nat
  BY ChainAssumption
<1>7. CASE x = Failure
  <2>1. broken /\ n = BeforeError
    <3>1. broken /\ (n + 1) - 1 = BeforeError
      BY <1>2, <1>3, <1>7 DEF OrderInv
    <3>2. QED BY <1>2, <3>1
  <2>2. n = Stream!BeforeError
    BY <2>1 DEF BeforeError, Stream!BeforeError
  <2>3. QED BY <1>1, <1>4, <1>5, <1>7, <2>1, <2>2
        DEF Stream!DeliverError, Stream!Failure, Failure, Failing, Panickers
<1>8. CASE x # Failure
  <2>1. n < Limit /\ x < n + PoolSize /\ x \in ItemNumbers
    <3>1. n + 1 \in DOMAIN order /\ order \in Seq(ItemNumbers \cup {Failure})
      BY <1>2, <1>3 DEF OrderInv
    <3>2. n + 1 <= Limit /\ x < (n + 1) - 1 + PoolSize
      BY <1>3, <1>8, <3>1 DEF OrderInv
    <3>3. x \in ItemNumbers
      BY <1>8, <3>1
    <3>4. Limit \in Int /\ x \in Int
      BY <1>6, <3>3 DEF Limit, BeforeError, ItemNumbers
    <3>5. QED BY <1>2, <1>6, <3>2, <3>3, <3>4
  <2>2. n < Stream!Limit
    BY <2>1 DEF Limit, BeforeError, Stream!Limit, Stream!BeforeError
  <2>3. x \notin Panickers
    <3>1. \A s \in 1 .. StageCount : ~Faulty(x, s, "panic")
      BY <1>2, <1>3 DEF FlowInv, Passed
    <3>2. QED BY <3>1, FaultSets DEF ChainTypes, Panicking, StageThreads
  <2>4. \A j \in DOMAIN received : received[j] # x
    <3> SUFFICES ASSUME NEW j \in DOMAIN received, received[j] = x PROVE FALSE
      OBVIOUS
    <3>1. order \in Seq(ItemNumbers \cup {Failure}) /\ Distinct(order)
      BY <1>3 DEF OrderInv
    <3>2. j \in DOMAIN order /\ n + 1 \in DOMAIN order /\ order[j] = order[n + 1] /\ j < n + 1
      <4>1. received[j] = order[j] /\ j \in 1 .. sent[StageCount] /\ j < n + 1
        BY <1>2
      <4>2. QED BY <1>2, <3>1, <4>1
    <3>3. QED BY <3>1, <3>2 DEF Distinct
  <2>5. x \notin Stream!Range(received)
    BY <2>4 DEF Stream!Range
  <2>6. QED BY <1>1, <1>4, <1>5, <2>1, <2>2, <2>3, <2>5
        DEF Stream!Deliver, Failing, Panickers, ItemNumbers
<1>9. QED BY <1>7, <1>8

\* The consumer sees the end only when the stream may end.
LEMMA RecvEndEnds ==
    ASSUME ChainTypes, NEW order, NEW sent, Flow(order, sent), RecvEnd
    PROVE  Stream!End
<1> DEFINE n == Len(received)
<1>1. /\ stream = "open" /\ stream' = "ended" /\ channel[StageCount] = <<>> /\ at[StageCount] = "exited"
      /\ UNCHANGED <<broken, faulty, received>>
  BY DEF RecvEnd
<1>2. /\ OrderInv(order) /\ FlowInv(order, sent) /\ StageCount \in ChainThreads
      /\ sent[StageCount] \in Nat /\ sent[StageCount] <= Len(order)
  BY FlowTypes, ChainThreadSets DEF Flow, FlowInv, CountsFit
<1>3. n = sent[StageCount] /\ \A j \in DOMAIN received : received[j] = order[j]
  BY <1>1, <1>2 DEF FlowInv, Consumer, Gone
<1>4. Over(order, n) /\ n \in Nat
  BY <1>1, <1>2, <1>3 DEF FlowInv, Reasons
<1>5. UNCHANGED <<broken, Failing, Panickers, received>>
  BY <1>1 DEF Failing, Panickers
<1>6. CASE n > 0 /\ Erring(StageCount, order[n])
  <2>1. n \in DOMAIN received
    BY <1>4, <1>6 DEF ChainTypes
  <2>2. received[n] = Failure \/ received[n] \in Failing
    BY <1>3, <1>6, <2>1, FaultSets DEF ChainTypes
  <2>3. Stream!Failed
    BY <2>1, <2>2 DEF Stream!Failed, Stream!Failure, Failure, Failing
  <2>4. QED BY <1>1, <1>5, <2>3 DEF Stream!End, Failing, Panickers
<1>7. CASE ~broken /\ n = ItemCount
  BY <1>1, <1>5, <1>7 DEF Stream!End, Failing, Panickers
<1>8. CASE n < Len(order) /\ Panicking(order[n + 1])
  <2>1. order[n + 1] \in Panickers
    BY <1>8, FaultSets DEF ChainTypes
  <2>2. order[n + 1] # Failure
    BY <2>1, FaultSets DEF ChainTypes, ItemNumbers, Failure
  <2>3. n + 1 \in DOMAIN order
    BY <1>2, <1>4, <1>8 DEF OrderInv
  <2>4. order[n + 1] < (n + 1) - 1 + PoolSize
    BY <1>2, <2>2, <2>3 DEF OrderInv
  <2>5. order[n + 1] < n + PoolSize
    BY <1>4, <2>4
  <2>6. QED BY <1>1, <1>5, <2>1, <2>5 DEF Stream!End, Failing, Panickers
<1>9. QED BY <1>4, <1>6, <1>7, <1>8 DEF Over

\* Whatever the threads' speeds, the random choices and the faults, what the
\* consumer sees is one shuffled stream: every item at most once and no earlier
\* than the pool allows, the first error last and the source's at its own place,
\* and no end before that, before the last item or before a panic.
THEOREM ShuffleImplemented == ChainSpec => ImplementsShuffledStream
<1>1. ChainInit => Stream!Init
  <2> SUFFICES ASSUME ChainInit PROVE Stream!Init
    OBVIOUS
  <2>1. Failing \subseteq ItemNumbers /\ Panickers \subseteq ItemNumbers \ Failing
    BY FaultSets DEF ChainInit
  <2>2. QED BY <2>1 DEF ChainInit, Stream!Init, Failing, Panickers, ItemNumbers
<1>2. ChainInv /\ [ChainNext]_chainVars => [Stream!Next]_Stream!vars
  <2> SUFFICES ASSUME ChainInv, [ChainNext]_chainVars
               PROVE  Stream!Next \/ UNCHANGED Stream!vars
    BY DEF Stream!vars
  <2>1. ChainTypes
    BY DEF ChainInv
  <2>2. PICK order, sent : Flow(order, sent)
    BY DEF ChainInv
  <2>3. CASE Recv
    BY <2>1, <2>2, <2>3, RecvDelivers DEF Stream!Next
  <2>4. CASE RecvEnd
    BY <2>1, <2>2, <2>4, RecvEndEnds DEF Stream!Next
  <2>5. CASE FinishBegin
    BY <2>5 DEF FinishBegin, Stream!Next, Stream!Abandon
  <2>6. CASE Join
    BY <2>6 DEF Join, Stream!vars
  <2>7. CASE UNCHANGED <<broken, faulty, received, stream>>
    BY <2>7 DEF Stream!vars
  <2>8. QED BY <2>3, <2>4, <2>5, <2>6, <2>7
        DEF ChainNext, SourceTake, MapTake, MapEnd, Send, chainVars
<1>3. QED BY <1>1, <1>2, ChainInvariant, PTL DEF ChainSpec, ImplementsShuffledStream, Stream!Spec

-----------------------------------------------------------------------------
\* Random state: counters.

W == 2 * Half
SignedWords == -Half .. Half - 1
CounterSet == [low : SignedWords, high : SignedWords]

\* A word read without its sign.
Unsigned(x) == x % W

\* The remainder of a number of the first period is the number.
LEMMA ModSmall ==
    ASSUME NEW w \in Nat \ {0}, NEW x \in 0 .. w - 1
    PROVE  x % w = x
OBVIOUS

\* A number of the period before.
LEMMA ModNegative ==
    ASSUME NEW w \in Nat \ {0}, NEW x \in -w .. -1
    PROVE  x % w = x + w
OBVIOUS

\* A number of the second period.
LEMMA ModOver ==
    ASSUME NEW w \in Nat \ {0}, NEW x \in w .. 2 * w - 1
    PROVE  x % w = x - w
OBVIOUS

\* The words of two's complement, without the sign.
LEMMA UnsignedWord ==
    ASSUME NEW x \in SignedWords
    PROVE  /\ Unsigned(x) = IF x >= 0 THEN x ELSE x + W
           /\ Unsigned(x) \in 0 .. W - 1
           /\ FlipSign(x) = Unsigned(x) - Half
<1>1. Half \in Nat \ {0} /\ W = Half + Half /\ W \in Nat \ {0} /\ x \in -Half .. Half - 1
  BY RandomAssumption DEF W, SignedWords
<1>2. CASE x >= 0
  <2>1. Unsigned(x) = x
    <3>1. x \in 0 .. W - 1
      BY <1>1, <1>2
    <3>2. QED BY <1>1, <3>1, ModSmall DEF Unsigned
  <2>2. x + Half + Half \in W .. 2 * W - 1
    BY <1>1, <1>2
  <2>3. FlipSign(x) = x - Half
    BY <1>1, <2>2, ModOver DEF FlipSign, Wrap, W
  <2>4. QED BY <1>1, <1>2, <2>1, <2>3
<1>3. CASE x < 0
  <2>1. Unsigned(x) = x + W
    <3>1. x \in -W .. -1
      BY <1>1, <1>3
    <3>2. QED BY <1>1, <3>1, ModNegative DEF Unsigned
  <2>2. x + Half + Half \in 0 .. W - 1
    BY <1>1, <1>3
  <2>3. FlipSign(x) = x + Half
    BY <1>1, <2>2, ModSmall DEF FlipSign, Wrap, W
  <2>4. QED BY <1>1, <1>3, <2>1, <2>3
<1>4. QED BY <1>1, <1>2, <1>3

\* Adding to a word: what it holds then, and that comparing without the sign
\* notices the carry.
LEMMA AddWord ==
    ASSUME NEW x \in SignedWords, NEW n \in 0 .. Half
    PROVE  /\ Wrap(x + n) \in SignedWords
           /\ Unsigned(Wrap(x + n)) =
                IF Unsigned(x) + n < W THEN Unsigned(x) + n ELSE Unsigned(x) + n - W
           /\ UnsignedLess(Wrap(x + n), x) <=> Unsigned(x) + n >= W
<1>1. Half \in Nat \ {0} /\ W = Half + Half /\ W \in Nat \ {0} /\ x \in -Half .. Half - 1
  BY RandomAssumption DEF W, SignedWords
<1>2. Wrap(x + n) = IF x + n < Half THEN x + n ELSE x + n - W
  <2>1. CASE x + n < Half
    <3>1. x + n + Half \in 0 .. W - 1
      BY <1>1, <2>1
    <3>2. QED BY <1>1, <2>1, <3>1, ModSmall DEF Wrap, W
  <2>2. CASE x + n >= Half
    <3>1. x + n + Half \in W .. 2 * W - 1
      BY <1>1, <2>2
    <3>2. QED BY <1>1, <2>2, <3>1, ModOver DEF Wrap, W
  <2>3. QED BY <1>1, <2>1, <2>2
<1>3. Wrap(x + n) \in SignedWords
  BY <1>1, <1>2 DEF SignedWords
<1> DEFINE y == Wrap(x + n)
<1> HIDE DEF y
<1>4. /\ Unsigned(x) = IF x >= 0 THEN x ELSE x + W
      /\ Unsigned(y) = IF y >= 0 THEN y ELSE y + W
  BY <1>3, UnsignedWord DEF y
<1>5. FlipSign(x) = Unsigned(x) - Half /\ FlipSign(y) = Unsigned(y) - Half
  BY <1>3, UnsignedWord DEF y
<1>6. y \in -Half .. Half - 1 /\ y = IF x + n < Half THEN x + n ELSE x + n - W
  BY <1>2, <1>3 DEF y, SignedWords
<1>7. Unsigned(y) = IF Unsigned(x) + n < W THEN Unsigned(x) + n ELSE Unsigned(x) + n - W
  BY <1>1, <1>4, <1>6
<1>8. UnsignedLess(y, x) <=> Unsigned(y) < Unsigned(x)
  BY <1>1, <1>4, <1>5, <1>6 DEF UnsignedLess
<1>9. UnsignedLess(y, x) <=> Unsigned(x) + n >= W
  BY <1>1, <1>4, <1>6, <1>7, <1>8
<1>10. QED BY <1>3, <1>7, <1>9 DEF y

\* The place of a counter in its period, with the two words read without signs.
LEMMA PlaceOf ==
    ASSUME NEW c \in CounterSet
    PROVE  /\ Place(c) = Unsigned(c.high) * W + Unsigned(c.low)
           /\ Place(c) \in Nat /\ Place(c) < W * W
           /\ Unsigned(c.high) \in 0 .. W - 1 /\ Unsigned(c.low) \in 0 .. W - 1
<1>1. c.low \in SignedWords /\ c.high \in SignedWords /\ W \in Nat \ {0}
  BY RandomAssumption DEF CounterSet, W
<1>2. Unsigned(c.high) \in 0 .. W - 1 /\ Unsigned(c.low) \in 0 .. W - 1
  BY <1>1, UnsignedWord
<1>3. Place(c) = Unsigned(c.high) * W + Unsigned(c.low)
  BY DEF Place, Unsigned, W
<1>4. ASSUME NEW h \in 0 .. W - 1, NEW l \in 0 .. W - 1
      PROVE  h * W + l \in Nat /\ h * W + l < W * W
  <2>1. h * W \in Nat /\ h * W + W <= W * W
    BY <1>1
  <2>2. W * W \in Nat
    BY <1>1
  <2>3. QED BY <1>1, <2>1, <2>2
<1>5. QED BY <1>2, <1>3, <1>4

\* add_counter moves a counter by n places, and notices the end of the period.
LEMMA Advance ==
    ASSUME NEW c \in CounterSet, NEW n \in 0 .. Half - 1
    PROVE  /\ AddCounter(c, n).next \in CounterSet
           /\ AddCounter(c, n).wrapped <=> Place(c) + n >= W * W
           /\ Place(c) + n < W * W => Place(AddCounter(c, n).next) = Place(c) + n
<1> DEFINE low == Wrap(c.low + n)
           carry == UnsignedLess(low, c.low)
           high == IF carry THEN Wrap(c.high + 1) ELSE c.high
           a == AddCounter(c, n)
           l == Unsigned(c.low)
           h == Unsigned(c.high)
<1>1. a.next = [low |-> low, high |-> high] /\ a.wrapped = UnsignedLess(high, c.high)
  BY DEF AddCounter
<1>2. c.low \in SignedWords /\ c.high \in SignedWords /\ Half \in Nat \ {0} /\ W = Half + Half
  BY RandomAssumption DEF CounterSet, W
<1>3. /\ low \in SignedWords /\ (carry <=> l + n >= W)
      /\ Unsigned(low) = IF l + n < W THEN l + n ELSE l + n - W
  <2>1. n \in 0 .. Half
    BY <1>2
  <2>2. QED BY <1>2, <2>1, AddWord
<1>4. /\ Wrap(c.high + 1) \in SignedWords
      /\ Unsigned(Wrap(c.high + 1)) = IF h + 1 < W THEN h + 1 ELSE h + 1 - W
      /\ UnsignedLess(Wrap(c.high + 1), c.high) <=> h + 1 >= W
  BY <1>2, AddWord
<1>5. ~UnsignedLess(c.high, c.high)
  <2>1. FlipSign(c.high) \in Int
    BY <1>2, UnsignedWord
  <2>2. QED BY <2>1 DEF UnsignedLess
<1>6. a.next \in CounterSet
  BY <1>1, <1>2, <1>3, <1>4 DEF CounterSet
<1>7. /\ Place(c) = h * W + l /\ Place(c) \in Nat /\ h \in 0 .. W - 1 /\ l \in 0 .. W - 1
      /\ Place(a.next) = Unsigned(high) * W + Unsigned(low)
  BY <1>1, <1>6, PlaceOf
<1> HIDE DEF low, carry, a, l, h
<1>8. CASE ~carry
  <2>1. l + n < W /\ high = c.high /\ ~a.wrapped
    BY <1>1, <1>2, <1>3, <1>5, <1>7, <1>8
  <2>2. h * W \in Nat /\ h * W + W <= W * W /\ W * W \in Nat
    BY <1>2, <1>7
  <2>3. Place(a.next) = h * W + (l + n)
    BY <1>3, <1>7, <2>1 DEF h
  <2>4. Place(c) + n < W * W /\ Place(a.next) = Place(c) + n
    BY <1>2, <1>7, <2>1, <2>2, <2>3
  <2>5. QED BY <1>2, <1>6, <1>7, <2>1, <2>2, <2>4 DEF a
<1>9. CASE carry
  <2>1. l + n >= W /\ Unsigned(low) = l + n - W /\ high = Wrap(c.high + 1)
    BY <1>2, <1>3, <1>7, <1>9
  <2>2. a.wrapped <=> h + 1 >= W
    BY <1>1, <1>4, <2>1
  <2>3. CASE h + 1 >= W
    <3>1. h = W - 1
      BY <1>2, <1>7, <2>3
    <3>2. h * W = W * W - W /\ W * W \in Nat
      BY <1>2, <3>1
    <3>3. Place(c) + n >= W * W
      BY <1>2, <1>7, <2>1, <3>2
    <3>4. QED BY <1>2, <1>6, <1>7, <2>2, <2>3, <3>2, <3>3 DEF a
  <2>4. CASE h + 1 < W
    <3>1. Unsigned(high) = h + 1 /\ (h + 1) * W = h * W + W /\ h * W \in Nat /\ W * W \in Nat
      <4>1. Unsigned(high) = h + 1
        BY <1>4, <2>1, <2>4
      <4>2. h \in Nat /\ W \in Nat
        BY <1>2, <1>7
      <4>3. \A x, y \in Nat : (x + 1) * y = x * y + y /\ x * y \in Nat
        OBVIOUS
      <4>4. QED BY <4>1, <4>2, <4>3
    <3>2. h * W + W + W <= W * W
      <4>1. h + 2 <= W /\ (h + 2) * W = h * W + W + W
        BY <1>2, <1>7, <2>4
      <4>2. (h + 2) * W <= W * W
        BY <1>2, <1>7, <4>1
      <4>3. QED BY <4>1, <4>2
    <3>3. Place(a.next) = h * W + W + (l + n - W)
      BY <1>7, <2>1, <3>1
    <3>4. Place(a.next) = Place(c) + n /\ Place(c) + n < W * W
      BY <1>2, <1>7, <3>1, <3>2, <3>3
    <3>5. QED BY <1>2, <1>6, <1>7, <2>2, <2>4, <3>1, <3>4 DEF a
  <2>5. QED BY <1>2, <1>7, <2>3, <2>4
<1>10. QED BY <1>8, <1>9

-----------------------------------------------------------------------------
\* Random state: the invariant.

\* The places of blocks.
Placed(g) == {Place(b[2]) : b \in g}
Under(k, g) == {b \in g : b[1] = k}
Roots == {<<s>> : s \in Owners}

\* A block: a key, which is a root or another block, and a counter.
IsBlock(b) == b = <<b[1], b[2]>> /\ b[2] \in CounterSet

\* What was given out under the key of slot t starts at o and ends where its counter
\* is; in a stream that was overrun there may be more.
Follows(o, t, g, more) ==
    LET passed == Place(o[2]) .. Place(t.counter) - 1
        places == Placed(Under(t.key, g))
    IN  /\ o[1] = t.key /\ Place(o[2]) \in Int /\ Place(o[2]) <= Place(t.counter)
        /\ passed \subseteq places /\ (places = passed \/ more)

\* The slots sl, the blocks g given out and the starts of the keys' counters: every
\* key is a root or was given out, and what was given out under a slot's key lies
\* between where its counter started and where it is, except in a model's stream
\* that was overrun.
StreamsRight(sl, g, starts, over) ==
    /\ sl = [s \in Owners |-> [key |-> sl[s].key, counter |-> sl[s].counter]]
    /\ \A s \in Owners : sl[s].counter \in CounterSet
    /\ sl["parent"].key = <<"parent">> /\ sl["model"].key = <<"model">>
    /\ sl["child"].key \in {<<"child">>} \cup g
    /\ \A b \in g : IsBlock(b) /\ b[1] \in Roots \cup g
    /\ \A s \in Owners : \E o \in starts : Follows(o, sl[s], g, s = "model" /\ over)

\* What a cursor of a stream has reserved lies between the counter of the stream's
\* slot t and the cursor's own.
CursorShape(c) ==
    c = [key |-> c.key, next |-> c.next, available |-> c.available, lanes |-> c.lanes,
         overlap |-> c.overlap]
CursorRight(c, t) ==
    /\ c.key = t.key /\ c.next \in CounterSet
    /\ \A b \in c.lanes : IsBlock(b) /\ b[1] = c.key
    /\ c.available =>
         /\ ~c.overlap /\ Place(t.counter) <= Place(c.next)
         /\ Placed(c.lanes) = Place(t.counter) .. Place(c.next) - 1

\* The keys an accepted proposal has left were given out, and no key of any
\* stream so far is among them.
Unused(keys, sl, g) ==
    /\ keys \subseteq g /\ sl["child"].key \notin keys
    /\ \A b \in g : b[1] \notin keys

\* An open proposal is stale or continues its slot; a closed one has keys left.
OpenRight(q, sl) ==
    /\ q = [open |-> TRUE, state |-> q.state, stale |-> q.stale, cursor |-> q.cursor]
    /\ q.state \in States /\ q.stale \in BOOLEAN /\ CursorShape(q.cursor)
    /\ ~q.stale => CursorRight(q.cursor, sl[q.state])
ClosedRight(q, sl, g) ==
    /\ q = [open |-> FALSE, accepted |-> q.accepted, keys |-> q.keys]
    /\ q.accepted \in BOOLEAN
    /\ q.accepted => Unused(q.keys, sl, g)
SequenceRight(q, sl, g) == OpenRight(q, sl) \/ ClosedRight(q, sl, g)

Pending(q) == ~q.open /\ q.accepted

SavedRight ==
    /\ saved = [slot |-> saved.slot, given |-> saved.given]
    /\ StreamsRight(saved.slot, saved.given, origin, overrun)
SequencesRight ==
    /\ sequence = [p \in Proposals |-> sequence[p]]
    /\ \A p \in Proposals : SequenceRight(sequence[p], slot, given)
    /\ \A p, q \in Proposals : p # q /\ Pending(sequence[p]) /\ Pending(sequence[q]) =>
           sequence[p].keys \cap sequence[q].keys = {}
RngRight ==
    /\ rng.open \in BOOLEAN
    /\ rng.open => /\ rng = [open |-> TRUE, cursor |-> rng.cursor] /\ CursorShape(rng.cursor)
                   /\ CursorRight(rng.cursor, slot["model"])
CountsRight == drawn \in 0 .. MaxBlocks /\ executions \in 0 .. MaxExecutions

\* Only a model's stream that was overrun repeats blocks.
RepeatsRight ==
    /\ overrun \in BOOLEAN
    /\ repeated \subseteq IF overrun THEN {<<"model">>} ELSE {}

RandomInv ==
    /\ StreamsRight(slot, given, origin, overrun)
    /\ SavedRight
    /\ RepeatsRight
    /\ SequencesRight
    /\ RngRight
    /\ CountsRight

\* A root is not a block.
LEMMA RootFacts ==
    /\ \A s \in Owners : \A b : IsBlock(b) => b # <<s>>
    /\ \A s, t \in Owners : <<s>> = <<t>> => s = t
    /\ States \subseteq Owners /\ "model" \in Owners /\ "model" \notin States
    /\ \A s \in Owners : s \in {"parent", "child", "model"}
<1>1. ASSUME NEW s \in Owners, NEW b, IsBlock(b) PROVE b # <<s>>
  <2>1. b = <<b[1], b[2]>>
    BY <1>1 DEF IsBlock
  <2>2. Len(<<b[1], b[2]>>) = 2 /\ Len(<<s>>) = 1
    OBVIOUS
  <2>3. QED BY <2>1, <2>2
<1>2. QED BY <1>1 DEF Owners, States

\* Owners have different keys.
LEMMA KeysDiffer ==
    ASSUME NEW sl, NEW g, NEW starts, NEW over, StreamsRight(sl, g, starts, over),
           NEW s \in Owners, NEW t \in Owners, sl[s].key = sl[t].key
    PROVE  s = t
<1>1. \A b \in g : IsBlock(b)
  BY DEF StreamsRight
<1>2. /\ sl["parent"].key = <<"parent">> /\ sl["model"].key = <<"model">>
      /\ sl["child"].key \in {<<"child">>} \cup g
  BY DEF StreamsRight
<1>3. {"parent", "child", "model"} \subseteq Owners
  BY DEF Owners, States
<1>4. sl["child"].key # <<"parent">> /\ sl["child"].key # <<"model">> /\ <<"parent">> # <<"model">>
  BY <1>1, <1>2, <1>3, RootFacts
<1>5. s \in {"parent", "child", "model"} /\ t \in {"parent", "child", "model"}
  BY RootFacts
<1>6. QED BY <1>2, <1>4, <1>5

\* What a draw of n blocks from counter c under key k is: if it stays in the
\* period, it has the places from c on, each once.
BlocksAre(d, k, c, n) ==
    /\ d.next \in CounterSet
    /\ \A b \in d.lanes : IsBlock(b) /\ b[1] = k
    /\ ~d.wrapped =>
         /\ Place(d.next) = Place(c) + n
         /\ Placed(d.lanes) = Place(c) .. Place(c) + n - 1
         /\ Cardinality(d.lanes) = n

\* A draw's blocks are right, also when they cross the carry of the low word.
LEMMA BlocksRight ==
    ASSUME NEW k, NEW c \in CounterSet, NEW n \in 0 .. Half - 1, NEW d, d = Blocks(k, c, n)
    PROVE  BlocksAre(d, k, c, n)
<1> DEFINE place(i) == AddCounter(c, i).next
<1>1. /\ d.lanes = {<<k, place(i)>> : i \in 0 .. n - 1}
      /\ d.next = place(n) /\ d.wrapped = AddCounter(c, n).wrapped
  BY DEF Blocks
<1>2. Half \in Nat \ {0} /\ n \in Nat /\ n <= Half - 1 /\ Place(c) \in Nat /\ W * W \in Nat
  BY RandomAssumption, PlaceOf DEF W
<1>3. /\ place(n) \in CounterSet
      /\ ~d.wrapped => Place(c) + n < W * W /\ Place(place(n)) = Place(c) + n
  BY <1>1, <1>2, Advance
<1>4. \A i \in 0 .. n - 1 : place(i) \in CounterSet
  <2> SUFFICES ASSUME NEW i \in 0 .. n - 1 PROVE place(i) \in CounterSet
    OBVIOUS
  <2>1. i \in 0 .. Half - 1
    BY <1>2
  <2>2. QED BY <2>1, Advance
<1>5. \A b \in d.lanes : \E i \in 0 .. n - 1 : b = <<k, place(i)>>
  BY <1>1
<1>6. \A b \in d.lanes : IsBlock(b) /\ b[1] = k
  <2> HIDE DEF place
  <2>1. QED BY <1>4, <1>5 DEF IsBlock
<1>7. SUFFICES ASSUME ~d.wrapped
               PROVE  /\ Placed(d.lanes) = Place(c) .. Place(c) + n - 1
                      /\ Cardinality(d.lanes) = n
  BY <1>1, <1>3, <1>6 DEF BlocksAre
<1>8. \A i \in 0 .. n - 1 : Place(place(i)) = Place(c) + i
  <2> SUFFICES ASSUME NEW i \in 0 .. n - 1 PROVE Place(place(i)) = Place(c) + i
    OBVIOUS
  <2>1. i \in 0 .. Half - 1 /\ Place(c) + i < W * W
    BY <1>2, <1>3, <1>7
  <2>2. QED BY <2>1, Advance
<1> HIDE DEF place
<1>9. Placed(d.lanes) = Place(c) .. Place(c) + n - 1
  <2>1. ASSUME NEW x \in Placed(d.lanes) PROVE x \in Place(c) .. Place(c) + n - 1
    BY <1>2, <1>5, <1>8 DEF Placed
  <2>2. ASSUME NEW x \in Place(c) .. Place(c) + n - 1 PROVE x \in Placed(d.lanes)
    <3>1. x - Place(c) \in 0 .. n - 1
      BY <1>2
    <3> DEFINE i == x - Place(c)
               b == <<k, place(i)>>
    <3>2. b \in d.lanes /\ b[2] = place(i)
      BY <1>1, <3>1
    <3>3. Place(place(i)) = x
      BY <1>2, <1>8, <3>1
    <3> HIDE DEF b, i
    <3>4. QED BY <3>2, <3>3 DEF Placed
  <2>3. QED BY <2>1, <2>2
<1>10. Cardinality(d.lanes) = n
  <2> DEFINE f == [i \in 0 .. n - 1 |-> <<k, place(i)>>]
  <2>1. f \in Bijection(0 .. n - 1, d.lanes)
    <3>1. f \in Surjection(0 .. n - 1, d.lanes)
      BY <1>1 DEF Surjection
    <3>2. ASSUME NEW i \in 0 .. n - 1, NEW j \in 0 .. n - 1, f[i] = f[j] PROVE i = j
      <4>1. place(i) = place(j)
        BY <3>2
      <4>2. Place(c) + i = Place(c) + j
        BY <1>8, <4>1
      <4>3. QED BY <1>2, <4>2
    <3> HIDE DEF f
    <3>3. QED BY <3>1, <3>2 DEF Bijection, Injection, Surjection, IsInjective
  <2>2. IsFiniteSet(0 .. n - 1) /\ Cardinality(0 .. n - 1) = n
    <3>1. 0 \in Int /\ n - 1 \in Int
      BY <1>2
    <3>2. /\ IsFiniteSet(0 .. n - 1)
          /\ Cardinality(0 .. n - 1) = IF 0 <= n - 1 THEN (n - 1) - 0 + 1 ELSE 0
      BY <3>1, FS_Interval
    <3>3. QED BY <1>2, <3>2
  <2> HIDE DEF f
  <2>3. Cardinality(d.lanes) = Cardinality(0 .. n - 1)
    <3>1. ExistsBijection(0 .. n - 1, d.lanes)
      BY <2>1 DEF ExistsBijection
    <3>2. QED BY <2>2, <3>1, FS_Bijection
  <2>4. QED BY <2>2, <2>3
<1>11. QED BY <1>9, <1>10

-----------------------------------------------------------------------------
\* Random state: drawing and giving out.

\* What a draw changes of a cursor.
LEMMA ReserveShape ==
    ASSUME NEW c, CursorShape(c), NEW n, NEW r, r = Reserve(c, n),
           NEW d, d = Blocks(c.key, c.next, n)
    PROVE  /\ r.key = c.key /\ r.next = d.next
           /\ r.available <=> (c.available /\ ~d.wrapped)
           /\ r.lanes = c.lanes \cup d.lanes
           /\ r.overlap <=> (c.overlap \/ d.lanes \cap c.lanes # {} \/ Cardinality(d.lanes) # n)
           /\ CursorShape(r)
<1> DEFINE a == c.available /\ ~d.wrapped
           o == c.overlap \/ d.lanes \cap c.lanes # {} \/ Cardinality(d.lanes) # n
           l == c.lanes \cup d.lanes
           e == [key |-> c.key, next |-> d.next, available |-> a, lanes |-> l, overlap |-> o]
<1>1. c = [key |-> c.key, next |-> c.next, available |-> c.available, lanes |-> c.lanes,
           overlap |-> c.overlap]
  BY DEF CursorShape
<1>2. r = [c EXCEPT !.next = d.next, !.available = a, !.overlap = o, !.lanes = l]
  <2>1. d.lanes \cup c.lanes = l /\ c.lanes \cup d.lanes = l
    OBVIOUS
  <2>2. QED BY <1>1, <2>1 DEF Reserve
<1> HIDE DEF a, o, l
<1>3. r = e
  BY <1>1, <1>2
<1>4. CursorShape(r) /\ r.key = c.key /\ r.next = d.next /\ r.available = a
      /\ r.lanes = l /\ r.overlap = o
  BY <1>3 DEF CursorShape
<1>5. QED BY <1>4 DEF a, o, l

\* A draw extends what a cursor has reserved.
LEMMA ReserveRight ==
    ASSUME NEW s \in Owners, StreamsRight(slot, given, origin, overrun),
           NEW c, CursorShape(c), CursorRight(c, slot[s]), NEW n \in Counts
    PROVE  CursorShape(Reserve(c, n)) /\ CursorRight(Reserve(c, n), slot[s])
<1> DEFINE r == Reserve(c, n)
           d == Blocks(c.key, c.next, n)
<1>1. /\ r.key = c.key /\ r.next = d.next
      /\ r.available <=> (c.available /\ ~d.wrapped)
      /\ r.lanes = c.lanes \cup d.lanes
      /\ r.overlap <=> (c.overlap \/ d.lanes \cap c.lanes # {} \/ Cardinality(d.lanes) # n)
      /\ CursorShape(r)
  <2>1. r = Reserve(c, n) /\ d = Blocks(c.key, c.next, n)
    OBVIOUS
  <2> HIDE DEF r, d
  <2>2. QED BY <2>1, ReserveShape
<1>2. c.next \in CounterSet /\ n \in 0 .. Half - 1 /\ slot[s].counter \in CounterSet
      /\ Half \in Nat \ {0} /\ c.key = slot[s].key
  BY RandomAssumption DEF CursorRight, StreamsRight
<1>3. /\ d.next \in CounterSet
      /\ \A b \in d.lanes : IsBlock(b) /\ b[1] = c.key
      /\ ~d.wrapped =>
           /\ Place(d.next) = Place(c.next) + n
           /\ Placed(d.lanes) = Place(c.next) .. Place(c.next) + n - 1
           /\ Cardinality(d.lanes) = n
  <2>1. d = Blocks(c.key, c.next, n)
    OBVIOUS
  <2> HIDE DEF d
  <2>2. BlocksAre(d, c.key, c.next, n)
    BY <1>2, <2>1, BlocksRight
  <2>3. QED BY <2>2 DEF BlocksAre
<1> HIDE DEF r, d
<1>4. SUFFICES ASSUME c.available, ~d.wrapped
               PROVE  /\ ~r.overlap /\ Place(slot[s].counter) <= Place(r.next)
                      /\ Placed(r.lanes) = Place(slot[s].counter) .. Place(r.next) - 1
  <2>1. r.key = slot[s].key
    BY <1>1, <1>2
  <2>2. r.next \in CounterSet
    BY <1>1, <1>3
  <2>3. CursorShape(r)
    BY <1>1
  <2>4. \A b \in r.lanes : IsBlock(b) /\ b[1] = r.key
    BY <1>1, <1>2, <1>3 DEF CursorRight
  <2>5. CASE r.available
    <3>1. c.available /\ ~d.wrapped
      BY <1>1, <2>5
    <3>2. /\ ~r.overlap /\ Place(slot[s].counter) <= Place(r.next)
          /\ Placed(r.lanes) = Place(slot[s].counter) .. Place(r.next) - 1
      BY <1>4, <3>1
    <3>3. QED BY <2>1, <2>2, <2>3, <2>4, <3>2 DEF CursorRight, r
  <2>6. CASE ~r.available
    BY <2>1, <2>2, <2>3, <2>4, <2>6 DEF CursorRight, r
  <2>7. QED BY <2>5, <2>6
<1> DEFINE low == Place(slot[s].counter)
           mid == Place(c.next)
<1>5. low \in Nat /\ mid \in Nat /\ n \in Nat
  BY <1>2, PlaceOf
<1>6. /\ ~c.overlap /\ low <= mid /\ Placed(c.lanes) = low .. mid - 1
  BY <1>4 DEF CursorRight
<1>7. Placed(d.lanes) = mid .. mid + n - 1 /\ Place(r.next) = mid + n
  BY <1>1, <1>3, <1>4
<1> HIDE DEF low, mid
<1>8. d.lanes \cap c.lanes = {}
  <2> SUFFICES ASSUME NEW b \in d.lanes, b \in c.lanes PROVE FALSE
    OBVIOUS
  <2>1. Place(b[2]) \in mid .. mid + n - 1 /\ Place(b[2]) \in low .. mid - 1
    BY <1>6, <1>7 DEF Placed
  <2>2. QED BY <1>5, <2>1
<1>9. Placed(r.lanes) = Placed(c.lanes) \cup Placed(d.lanes)
  BY <1>1 DEF Placed
<1>10. Placed(r.lanes) = low .. mid + n - 1
  BY <1>5, <1>6, <1>7, <1>9
<1>11. ~r.overlap
  BY <1>1, <1>3, <1>4, <1>6, <1>8
<1>12. low <= Place(r.next) /\ Place(r.next) - 1 = mid + n - 1
  BY <1>5, <1>6, <1>7
<1>13. QED BY <1>10, <1>11, <1>12 DEF low

\* A cursor starts at its slot's counter.
LEMMA CursorStarts ==
    ASSUME NEW s \in Owners, StreamsRight(slot, given, origin, overrun)
    PROVE  CursorShape(Cursor(s)) /\ CursorRight(Cursor(s), slot[s])
<1>1. slot[s].counter \in CounterSet
  BY DEF StreamsRight
<1>2. Place(slot[s].counter) \in Nat
  BY <1>1, PlaceOf
<1>3. Placed({}) = {} /\ Place(slot[s].counter) .. Place(slot[s].counter) - 1 = {}
  BY <1>2 DEF Placed
<1>4. /\ Cursor(s).key = slot[s].key /\ Cursor(s).next = slot[s].counter
      /\ Cursor(s).lanes = {} /\ Cursor(s).overlap = FALSE /\ CursorShape(Cursor(s))
  BY DEF Cursor, CursorShape
<1> DEFINE c == Cursor(s)
<1> HIDE DEF c
<1>5. /\ c.key = slot[s].key /\ c.next = slot[s].counter /\ c.lanes = {} /\ ~c.overlap
      /\ CursorShape(c)
  BY <1>4 DEF c
<1>6. CursorRight(c, slot[s])
  <2>1. Placed(c.lanes) = Place(slot[s].counter) .. Place(c.next) - 1
    BY <1>3, <1>5
  <2>2. Place(slot[s].counter) <= Place(c.next)
    BY <1>2, <1>5
  <2>3. QED BY <1>1, <1>5, <2>1, <2>2 DEF CursorRight
<1>7. QED BY <1>5, <1>6 DEF c

\* A reserved block has not been given out, unless the stream was overrun.
LEMMA LanesFresh ==
    ASSUME NEW s \in Owners, StreamsRight(slot, given, origin, overrun), ~(s = "model" /\ overrun),
           NEW c, CursorRight(c, slot[s]), c.available
    PROVE  c.lanes \cap given = {}
<1> SUFFICES ASSUME NEW b \in c.lanes, b \in given PROVE FALSE
  OBVIOUS
<1>1. b[1] = slot[s].key /\ Place(b[2]) \in Place(slot[s].counter) .. Place(c.next) - 1
  BY DEF CursorRight, Placed
<1>2. PICK o \in origin :
        /\ Place(o[2]) \in Int
        /\ Placed(Under(slot[s].key, given)) = Place(o[2]) .. Place(slot[s].counter) - 1
  BY DEF StreamsRight, Follows
<1>3. Place(b[2]) \in Place(o[2]) .. Place(slot[s].counter) - 1
  BY <1>1, <1>2 DEF Placed, Under
<1>4. Place(slot[s].counter) \in Nat
  BY PlaceOf DEF StreamsRight
<1>5. QED BY <1>1, <1>3, <1>4

\* Giving out what a cursor has reserved, and moving the counter there.
LEMMA GiveRight ==
    ASSUME NEW s \in Owners, StreamsRight(slot, given, origin, overrun),
           NEW c, CursorRight(c, slot[s]), c.available
    PROVE  StreamsRight([slot EXCEPT ![s].counter = c.next], given \cup c.lanes, origin, overrun)
<1> DEFINE sl == [slot EXCEPT ![s].counter = c.next]
           g == given \cup c.lanes
<1>1. /\ c.key = slot[s].key /\ c.next \in CounterSet
      /\ Place(slot[s].counter) <= Place(c.next)
      /\ \A b \in c.lanes : IsBlock(b) /\ b[1] = c.key
      /\ Placed(c.lanes) = Place(slot[s].counter) .. Place(c.next) - 1
  BY DEF CursorRight
<1>2. slot = [t \in Owners |-> [key |-> slot[t].key, counter |-> slot[t].counter]]
  BY DEF StreamsRight
<1>3. /\ \A t \in Owners : sl[t].key = slot[t].key
      /\ \A t \in Owners : sl[t].counter = IF t = s THEN c.next ELSE slot[t].counter
      /\ sl = [t \in Owners |-> [key |-> sl[t].key, counter |-> sl[t].counter]]
  BY <1>2
<1> HIDE DEF sl
<1>4. \A t \in Owners : sl[t].counter \in CounterSet
  BY <1>1, <1>3 DEF StreamsRight
<1>5. slot[s].key \in Roots \cup given
  <2>1. s \in {"parent", "child", "model"} /\ {"parent", "child", "model"} \subseteq Owners
    BY RootFacts DEF Owners, States
  <2>2. QED BY <2>1 DEF StreamsRight, Roots
<1>6. \A b \in g : IsBlock(b) /\ b[1] \in Roots \cup g
  BY <1>1, <1>5 DEF StreamsRight
<1>7. ASSUME NEW t \in Owners
      PROVE  \E o \in origin : Follows(o, sl[t], g, t = "model" /\ overrun)
  <2>1. PICK o \in origin : Follows(o, slot[t], given, t = "model" /\ overrun)
    BY DEF StreamsRight
  <2>2. CASE t = s
    <3> DEFINE from == Place(o[2])
               mid == Place(slot[s].counter)
               to == Place(c.next)
               old == Placed(Under(slot[s].key, given))
               new == Placed(Under(slot[s].key, g))
    <3>1. Under(slot[s].key, g) = Under(slot[s].key, given) \cup c.lanes
      BY <1>1 DEF Under
    <3>2. new = old \cup Placed(c.lanes)
      BY <3>1 DEF Placed
    <3>3. mid \in Nat /\ to \in Nat
      BY <1>1, PlaceOf DEF StreamsRight
    <3>4. /\ o[1] = slot[s].key /\ from \in Int /\ from <= mid /\ from .. mid - 1 \subseteq old
          /\ old = from .. mid - 1 \/ (t = "model" /\ overrun)
      BY <2>1, <2>2 DEF Follows
    <3>5. sl[t].key = slot[s].key /\ sl[t].counter = c.next
      BY <1>3, <2>2
    <3>6. Placed(c.lanes) = mid .. to - 1 /\ mid <= to
      BY <1>1
    <3> HIDE DEF from, mid, to, old, new
    <3>7. (from .. mid - 1) \cup (mid .. to - 1) = from .. to - 1 /\ from <= to
      BY <3>3, <3>4, <3>6
    <3>8. from .. to - 1 \subseteq new /\ (new = from .. to - 1 \/ (t = "model" /\ overrun))
      BY <3>2, <3>4, <3>6, <3>7
    <3>9. QED BY <3>4, <3>5, <3>7, <3>8 DEF Follows, from, to, new
  <2>3. CASE t # s
    <3>1. slot[t].key # slot[s].key
      BY <2>3, KeysDiffer
    <3>2. Under(slot[t].key, g) = Under(slot[t].key, given)
      BY <1>1, <3>1 DEF Under
    <3>3. sl[t].key = slot[t].key /\ sl[t].counter = slot[t].counter
      BY <1>3, <2>3
    <3>4. QED BY <2>1, <3>2, <3>3 DEF Follows
  <2>4. QED BY <2>2, <2>3
<1>8. /\ sl["parent"].key = <<"parent">> /\ sl["model"].key = <<"model">>
      /\ sl["child"].key \in {<<"child">>} \cup g
  BY <1>3, RootFacts DEF StreamsRight, Owners, States
<1> HIDE DEF g
<1>9. StreamsRight(sl, g, origin, overrun)
  BY <1>3, <1>4, <1>6, <1>7, <1>8 DEF StreamsRight
<1>10. QED BY <1>9 DEF sl, g

\* Giving out the draws of a model's stream that reached the end of its period:
\* its counter stays, and the other streams are not disturbed.
LEMMA SpillRight ==
    ASSUME StreamsRight(slot, given, origin, overrun), NEW c, CursorRight(c, slot["model"])
    PROVE  StreamsRight(slot, given \cup c.lanes, origin, TRUE)
<1> DEFINE g == given \cup c.lanes
<1>1. \A b \in c.lanes : IsBlock(b) /\ b[1] = slot["model"].key
  BY DEF CursorRight
<1>2. "model" \in Owners /\ slot["model"].key \in Roots
  BY DEF StreamsRight, Roots, Owners
<1>3. \A b \in g : IsBlock(b) /\ b[1] \in Roots \cup g
  BY <1>1, <1>2 DEF StreamsRight
<1>4. ASSUME NEW t \in Owners
      PROVE  \E o \in origin : Follows(o, slot[t], g, t = "model" /\ TRUE)
  <2>1. PICK o \in origin : Follows(o, slot[t], given, t = "model" /\ overrun)
    BY DEF StreamsRight
  <2>2. CASE t = "model"
    <3>1. Placed(Under(slot[t].key, given)) \subseteq Placed(Under(slot[t].key, g))
      BY DEF Placed, Under
    <3> HIDE DEF g
    <3>2. QED BY <2>1, <2>2, <3>1 DEF Follows
  <2>3. CASE t # "model"
    <3>1. slot[t].key # slot["model"].key
      BY <1>2, <2>3, KeysDiffer
    <3>2. Under(slot[t].key, g) = Under(slot[t].key, given)
      BY <1>1, <3>1 DEF Under
    <3>3. QED BY <2>1, <2>3, <3>2 DEF Follows
  <2>4. QED BY <2>2, <2>3
<1>5. /\ slot = [s \in Owners |-> [key |-> slot[s].key, counter |-> slot[s].counter]]
      /\ \A s \in Owners : slot[s].counter \in CounterSet
      /\ slot["parent"].key = <<"parent">> /\ slot["model"].key = <<"model">>
      /\ slot["child"].key \in {<<"child">>} \cup g
  BY DEF StreamsRight
<1> HIDE DEF g
<1>6. QED BY <1>3, <1>4, <1>5 DEF StreamsRight, g

-----------------------------------------------------------------------------
\* Random state: each action keeps the invariant.

\* A write of state s leaves the closed proposals as they are, and those on the
\* other states.
LEMMA OutdatedRight ==
    ASSUME NEW s \in States, NEW r \in Proposals, SequenceRight(sequence[r], slot, given),
           NEW sl, NEW g, \A t \in States : t # s => sl[t] = slot[t],
           Pending(sequence[r]) => Unused(sequence[r].keys, sl, g)
    PROVE  /\ SequenceRight(Outdated(s)[r], sl, g)
           /\ Pending(Outdated(s)[r]) => Pending(sequence[r]) /\ Outdated(s)[r] = sequence[r]
<1> DEFINE q == sequence[r]
           o == Outdated(s)[r]
<1>1. o = IF q.open /\ q.state = s THEN [q EXCEPT !.stale = TRUE] ELSE q
  BY DEF Outdated
<1> HIDE DEF q, o
<1>2. SequenceRight(q, slot, given) /\ (Pending(q) => Unused(q.keys, sl, g))
  BY DEF q
<1>3. CASE OpenRight(q, slot)
  <2>1. /\ q = [open |-> TRUE, state |-> q.state, stale |-> q.stale, cursor |-> q.cursor]
        /\ q.state \in States /\ q.stale \in BOOLEAN /\ CursorShape(q.cursor)
        /\ ~q.stale => CursorRight(q.cursor, slot[q.state])
    BY <1>3 DEF OpenRight
  <2>2. q.open = TRUE
    BY <2>1
  <2>3. CASE q.state = s
    <3>1. o = [open |-> TRUE, state |-> q.state, stale |-> TRUE, cursor |-> q.cursor]
      BY <1>1, <2>1, <2>2, <2>3
    <3>2. OpenRight(o, sl) /\ o.open = TRUE
      BY <2>1, <3>1 DEF OpenRight
    <3>3. QED BY <3>2 DEF SequenceRight, Pending, q, o
  <2>4. CASE q.state # s
    <3>1. o = q /\ sl[q.state] = slot[q.state]
      BY <1>1, <2>1, <2>4
    <3>2. OpenRight(o, sl)
      BY <2>1, <3>1 DEF OpenRight
    <3>3. QED BY <2>2, <3>1, <3>2 DEF SequenceRight, Pending, q, o
  <2>5. QED BY <2>3, <2>4
<1>4. CASE ClosedRight(q, slot, given)
  <2>1. q.open = FALSE /\ (q.accepted => Pending(q))
    BY <1>4 DEF ClosedRight, Pending
  <2>2. o = q
    BY <1>1, <2>1
  <2>3. ClosedRight(o, sl, g)
    BY <1>2, <1>4, <2>1, <2>2 DEF ClosedRight
  <2>4. QED BY <2>2, <2>3 DEF SequenceRight, q, o
<1>5. QED BY <1>2, <1>3, <1>4 DEF SequenceRight

\* One proposal is replaced, and nothing else that the sequences depend on.
LEMMA OneSequence ==
    ASSUME SequencesRight, NEW p \in Proposals, NEW q, SequenceRight(q, slot, given),
           ~Pending(q), sequence' = [sequence EXCEPT ![p] = q],
           UNCHANGED <<slot, given>>
    PROVE  SequencesRight'
<1>1. /\ sequence = [r \in Proposals |-> sequence[r]]
      /\ \A r \in Proposals : SequenceRight(sequence[r], slot, given)
      /\ \A r, t \in Proposals : r # t /\ Pending(sequence[r]) /\ Pending(sequence[t]) =>
             sequence[r].keys \cap sequence[t].keys = {}
  BY DEF SequencesRight
<1>2. /\ sequence' = [r \in Proposals |-> sequence'[r]]
      /\ \A r \in Proposals : sequence'[r] = IF r = p THEN q ELSE sequence[r]
  BY <1>1
<1>3. \A r \in Proposals : SequenceRight(sequence'[r], slot', given')
  BY <1>1, <1>2
<1>4. \A r, t \in Proposals : r # t /\ Pending(sequence'[r]) /\ Pending(sequence'[t]) =>
           sequence'[r].keys \cap sequence'[t].keys = {}
  BY <1>1, <1>2
<1>5. QED BY <1>2, <1>3, <1>4 DEF SequencesRight

\* Which proposals are open, and what they are then.
LEMMA OpenProposal ==
    ASSUME SequencesRight, NEW p \in Proposals
    PROVE  /\ sequence[p].open \in BOOLEAN
           /\ sequence[p].open => OpenRight(sequence[p], slot)
           /\ ~sequence[p].open => ClosedRight(sequence[p], slot, given)
<1>1. SequenceRight(sequence[p], slot, given)
  BY DEF SequencesRight
<1> DEFINE q == sequence[p]
<1> HIDE DEF q
<1>2. CASE OpenRight(q, slot)
  <2>1. q.open = TRUE
    BY <1>2 DEF OpenRight
  <2>2. QED BY <1>2, <2>1 DEF q
<1>3. CASE ClosedRight(q, slot, given)
  <2>1. q.open = FALSE
    BY <1>3 DEF ClosedRight
  <2>2. QED BY <1>3, <2>1 DEF q
<1>4. QED BY <1>1, <1>2, <1>3 DEF SequenceRight, q

\* An empty proposal has nothing to keep.
LEMMA NoProposalRight ==
    ASSUME NEW sl, NEW g
    PROVE  SequenceRight(NoProposal, sl, g) /\ ~Pending(NoProposal) /\ NoProposal.open = FALSE
BY DEF NoProposal, SequenceRight, ClosedRight, Pending

\* A proposal begins where its state's slot is.
LEMMA BeginKeeps ==
    ASSUME RandomInv, NEW p \in Proposals, NEW s \in States, BeginSequence(p, s)
    PROVE  RandomInv'
<1> DEFINE q == [open |-> TRUE, state |-> s, stale |-> FALSE, cursor |-> Cursor(s)]
<1>1. StreamsRight(slot, given, origin, overrun) /\ s \in Owners
  BY DEF RandomInv, Owners
<1>2. CursorShape(Cursor(s)) /\ CursorRight(Cursor(s), slot[s])
  BY <1>1, CursorStarts
<1>3. SequenceRight(q, slot, given) /\ ~Pending(q)
  BY <1>2 DEF SequenceRight, OpenRight, Pending
<1> HIDE DEF q
<1>4. SequencesRight'
  <2>1. sequence' = [sequence EXCEPT ![p] = q] /\ UNCHANGED <<slot, given>>
    BY DEF BeginSequence, q
  <2>2. QED BY <1>3, <2>1, OneSequence DEF RandomInv
<1>5. UNCHANGED <<slot, rng, saved, given, repeated, overrun, origin, drawn, executions>>
  BY DEF BeginSequence
<1>6. QED BY <1>4, <1>5 DEF RandomInv, RepeatsRight, SavedRight, RngRight, CountsRight

\* A draw moves the proposal's cursor only.
LEMMA DrawKeeps ==
    ASSUME RandomInv, NEW p \in Proposals, NEW n \in Counts, Draw(p, n)
    PROVE  RandomInv'
<1> DEFINE o == sequence[p]
           c == o.cursor
           q == [o EXCEPT !.cursor = Reserve(c, n)]
<1>1. /\ sequence[p].open /\ drawn + n <= MaxBlocks
      /\ sequence' = [sequence EXCEPT ![p] = q] /\ drawn' = drawn + n
      /\ UNCHANGED <<slot, rng, saved, given, repeated, overrun, origin, executions>>
  BY DEF Draw
<1>2. OpenRight(sequence[p], slot) /\ StreamsRight(slot, given, origin, overrun)
  BY <1>1, OpenProposal DEF RandomInv
<1>3. /\ o = [open |-> TRUE, state |-> o.state, stale |-> o.stale, cursor |-> o.cursor]
      /\ o.state \in States /\ o.stale \in BOOLEAN /\ CursorShape(c)
      /\ ~o.stale => CursorRight(c, slot[o.state])
  BY <1>2 DEF OpenRight
<1> HIDE DEF c
<1>4. CursorShape(Reserve(c, n))
  BY <1>3, ReserveShape
<1>5. ~o.stale => CursorRight(Reserve(c, n), slot[o.state])
  <2>1. o.state \in Owners
    BY <1>3 DEF Owners
  <2>2. QED BY <1>2, <1>3, <2>1, ReserveRight
<1> HIDE DEF o
<1>6. q = [open |-> TRUE, state |-> o.state, stale |-> o.stale, cursor |-> Reserve(c, n)]
  <2> DEFINE next == Reserve(c, n)
  <2>1. q = [o EXCEPT !.cursor = next]
        /\ o = [open |-> TRUE, state |-> o.state, stale |-> o.stale, cursor |-> o.cursor]
    BY <1>3
  <2> HIDE DEF q, next
  <2>2. q = [open |-> TRUE, state |-> o.state, stale |-> o.stale, cursor |-> next]
    <3> DEFINE state == o.state
               stale == o.stale
               cursor == o.cursor
    <3>1. o = [open |-> TRUE, state |-> state, stale |-> stale, cursor |-> cursor]
      BY <2>1
    <3> HIDE DEF state, stale, cursor
    <3>2. q = [open |-> TRUE, state |-> state, stale |-> stale, cursor |-> next]
      BY <2>1, <3>1
    <3>3. QED BY <3>2 DEF state, stale
  <2>3. QED BY <2>2 DEF next
<1> HIDE DEF q
<1>7. SequenceRight(q, slot, given) /\ ~Pending(q)
  BY <1>3, <1>4, <1>5, <1>6 DEF SequenceRight, OpenRight, Pending
<1>8. SequencesRight'
  BY <1>1, <1>7, OneSequence DEF RandomInv
<1>9. CountsRight'
  <2>1. n \in Nat /\ MaxBlocks \in Nat
    BY RandomAssumption
  <2>2. QED BY <1>1, <2>1 DEF RandomInv, CountsRight
<1>10. QED BY <1>1, <1>8, <1>9 DEF RandomInv, RepeatsRight, SavedRight, RngRight

\* A refused proposal is gone.
LEMMA RefuseKeeps ==
    ASSUME RandomInv, NEW p \in Proposals, RefuseStale(p)
    PROVE  RandomInv'
<1>1. /\ sequence' = [sequence EXCEPT ![p] = NoProposal]
      /\ UNCHANGED <<slot, rng, saved, given, repeated, overrun, origin, drawn, executions>>
  BY DEF RefuseStale
<1>2. SequencesRight'
  BY <1>1, OneSequence, NoProposalRight DEF RandomInv
<1>3. QED BY <1>1, <1>2 DEF RandomInv, RepeatsRight, SavedRight, RngRight, CountsRight

\* The model's stream opens where its slot is.
LEMMA RngKeeps ==
    ASSUME RandomInv, Rng
    PROVE  RandomInv'
<1>1. /\ rng' = [open |-> TRUE, cursor |-> Cursor("model")]
      /\ UNCHANGED <<slot, sequence, saved, given, repeated, overrun, origin, drawn, executions>>
  BY DEF Rng
<1>2. StreamsRight(slot, given, origin, overrun) /\ "model" \in Owners
  BY DEF RandomInv, Owners
<1>3. CursorShape(Cursor("model")) /\ CursorRight(Cursor("model"), slot["model"])
  BY <1>2, CursorStarts
<1>4. RngRight'
  BY <1>1, <1>3 DEF RngRight
<1>5. QED BY <1>1, <1>4 DEF RandomInv, RepeatsRight, SavedRight, SequencesRight, CountsRight

\* A draw of the model's stream moves its cursor only.
LEMMA RngDrawKeeps ==
    ASSUME RandomInv, NEW n \in Counts, RngDraw(n)
    PROVE  RandomInv'
<1> DEFINE c == rng.cursor
<1>1. /\ rng.open /\ drawn + n <= MaxBlocks
      /\ rng' = [rng EXCEPT !.cursor = Reserve(c, n)] /\ drawn' = drawn + n
      /\ UNCHANGED <<slot, sequence, saved, given, repeated, overrun, origin, executions>>
  BY DEF RngDraw
<1>2. StreamsRight(slot, given, origin, overrun) /\ "model" \in Owners
  BY DEF RandomInv, Owners
<1>3. rng = [open |-> TRUE, cursor |-> c] /\ CursorShape(c) /\ CursorRight(c, slot["model"])
  BY <1>1 DEF RandomInv, RngRight
<1> HIDE DEF c
<1>4. CursorShape(Reserve(c, n)) /\ CursorRight(Reserve(c, n), slot["model"])
  BY <1>2, <1>3, ReserveRight
<1>5. rng' = [open |-> TRUE, cursor |-> Reserve(c, n)]
  BY <1>1, <1>3
<1>6. RngRight'
  BY <1>1, <1>4, <1>5 DEF RngRight
<1>7. CountsRight'
  <2>1. n \in Nat /\ MaxBlocks \in Nat
    BY RandomAssumption
  <2>2. QED BY <1>1, <2>1 DEF RandomInv, CountsRight
<1>8. QED BY <1>1, <1>6, <1>7 DEF RandomInv, RepeatsRight, SavedRight, SequencesRight

\* What a proposal reserved is unused right after it was given out, and what was
\* unused before is still.
LEMMA GivenUnused ==
    ASSUME NEW s \in States, StreamsRight(slot, given, origin, overrun),
           NEW c, CursorRight(c, slot[s]), c.available,
           NEW sl, \A t \in Owners : sl[t].key = slot[t].key,
           NEW g, g = given \cup c.lanes
    PROVE  /\ c.lanes \cap given = {}
           /\ Unused(c.lanes, sl, g)
           /\ \A keys : Unused(keys, slot, given) => Unused(keys, sl, g)
<1>1. s \in Owners /\ "child" \in Owners /\ s \in {"parent", "child"} /\ s # "model"
  BY DEF Owners, States
<1>2. c.lanes \cap given = {}
  BY <1>1, LanesFresh
<1>3. c.key = slot[s].key /\ \A b \in c.lanes : IsBlock(b) /\ b[1] = c.key
  BY DEF CursorRight
<1>4. /\ slot["parent"].key = <<"parent">> /\ slot["child"].key \in {<<"child">>} \cup given
      /\ \A b \in given : IsBlock(b) /\ b[1] \in Roots \cup given
  BY DEF StreamsRight
<1>5. \A b : IsBlock(b) => b \notin Roots
  BY RootFacts DEF Roots
<1>6. <<"parent">> \in Roots /\ <<"child">> \in Roots
  BY DEF Roots, Owners, States
<1>7. \A k \in Roots \cup given : k \notin c.lanes
  BY <1>2, <1>3, <1>5
<1>8. c.key \in Roots \cup given /\ slot["child"].key \in Roots \cup given
  BY <1>1, <1>3, <1>4, <1>6
<1>9. Unused(c.lanes, sl, g)
  BY <1>1, <1>3, <1>4, <1>7, <1>8 DEF Unused
<1>10. ASSUME NEW keys, Unused(keys, slot, given) PROVE Unused(keys, sl, g)
  <2>1. keys \subseteq given /\ slot["child"].key \notin keys /\ \A b \in given : b[1] \notin keys
    BY <1>10 DEF Unused
  <2>2. c.key \notin keys
    <3>1. <<"parent">> \notin keys
      BY <1>4, <1>5, <1>6, <2>1
    <3>2. QED BY <1>1, <1>3, <1>4, <2>1, <3>1
  <2>3. QED BY <1>1, <1>3, <2>1, <2>2 DEF Unused
<1>11. QED BY <1>2, <1>9, <1>10

\* A commit closes the proposal: accepted, what it reserved is given out.
LEMMA AcceptKeeps ==
    ASSUME RandomInv, NEW p \in Proposals, NEW condition \in BOOLEAN, AcceptCommit(p, condition)
    PROVE  RandomInv'
<1> DEFINE q == sequence[p]
           s == q.state
           c == q.cursor
           accepted == condition /\ c.available
           n == [open |-> FALSE, accepted |-> accepted, keys |-> c.lanes]
<1>1. /\ q.open /\ ~q.stale
      /\ sequence' = [Outdated(s) EXCEPT ![p] = n]
      /\ UNCHANGED <<rng, saved, overrun, origin, drawn, executions>>
  BY DEF AcceptCommit
<1>2. IF accepted
      THEN /\ slot' = [slot EXCEPT ![s].counter = c.next]
           /\ given' = given \cup c.lanes
           /\ repeated' = IF c.overlap \/ c.lanes \cap given # {}
                          THEN repeated \cup {c.key} ELSE repeated
      ELSE UNCHANGED <<slot, given, repeated>>
  BY DEF AcceptCommit, Give
<1>3. /\ StreamsRight(slot, given, origin, overrun) /\ RepeatsRight
      /\ SequencesRight /\ RngRight /\ SavedRight /\ CountsRight
  BY DEF RandomInv
<1>4. OpenRight(q, slot)
  BY <1>1, <1>3, OpenProposal
<1>5. s \in States /\ s \in Owners /\ CursorRight(c, slot[s]) /\ s # "model" /\ "model" \in Owners
  BY <1>1, <1>4 DEF OpenRight, Owners, States
<1>6. slot = [t \in Owners |-> [key |-> slot[t].key, counter |-> slot[t].counter]]
  BY <1>3 DEF StreamsRight
<1> HIDE DEF s, c
<1>7. /\ \A t \in Owners : slot'[t].key = slot[t].key
      /\ \A t \in Owners : t # s => slot'[t] = slot[t]
  <2>1. CASE accepted
    <3>1. slot' = [slot EXCEPT ![s].counter = c.next]
      BY <1>2, <2>1
    <3>2. QED BY <1>5, <1>6, <3>1
  <2>2. CASE ~accepted
    BY <1>2, <2>2
  <2>3. QED BY <2>1, <2>2
<1>8. accepted => /\ c.available /\ c.lanes \cap given = {} /\ ~c.overlap
                  /\ Unused(c.lanes, slot', given')
  <2>1. SUFFICES ASSUME accepted
                 PROVE  /\ c.available /\ c.lanes \cap given = {} /\ ~c.overlap
                        /\ Unused(c.lanes, slot', given')
    OBVIOUS
  <2>2. given' = given \cup c.lanes /\ c.available /\ ~c.overlap
    BY <1>2, <1>5, <2>1 DEF CursorRight
  <2>3. QED BY <1>3, <1>5, <1>7, <2>2, GivenUnused
<1>9. \A keys : Unused(keys, slot, given) => Unused(keys, slot', given')
  <2>1. CASE accepted
    <3>1. given' = given \cup c.lanes /\ c.available
      BY <1>2, <2>1
    <3>2. QED BY <1>3, <1>5, <1>7, <3>1, GivenUnused
  <2>2. CASE ~accepted
    BY <1>2, <2>2
  <2>3. QED BY <2>1, <2>2
<1>10. StreamsRight(slot, given, origin, overrun)' /\ repeated' = repeated
  <2>1. CASE accepted
    <3>1. StreamsRight([slot EXCEPT ![s].counter = c.next], given \cup c.lanes, origin, overrun)
      BY <1>3, <1>5, <1>8, <2>1, GiveRight
    <3>2. QED BY <1>1, <1>2, <1>3, <1>8, <2>1, <3>1
  <2>2. CASE ~accepted
    BY <1>1, <1>2, <1>3, <2>2
  <2>3. QED BY <2>1, <2>2
<1>11. /\ sequence' = [r \in Proposals |-> sequence'[r]]
       /\ sequence'[p] = n
       /\ \A r \in Proposals : r # p => sequence'[r] = Outdated(s)[r]
  <2>1. sequence' = [Outdated(s) EXCEPT ![p] = n]
    BY <1>1 DEF s, c
  <2>2. \E f : Outdated(s) = [r \in Proposals |-> f[r]]
    BY DEF Outdated
  <2> HIDE DEF n
  <2>3. QED BY <2>1, <2>2
<1>12. /\ SequenceRight(n, slot', given') /\ n.keys = c.lanes /\ (Pending(n) => accepted)
  BY <1>8 DEF SequenceRight, ClosedRight, Pending
<1> HIDE DEF n
<1>13. \A r \in Proposals : r # p =>
          /\ SequenceRight(sequence'[r], slot', given')
          /\ Pending(sequence'[r]) =>
                Pending(sequence[r]) /\ sequence'[r].keys = sequence[r].keys
  <2> SUFFICES ASSUME NEW r \in Proposals, r # p
               PROVE  /\ SequenceRight(sequence'[r], slot', given')
                      /\ Pending(sequence'[r]) =>
                            Pending(sequence[r]) /\ sequence'[r].keys = sequence[r].keys
    OBVIOUS
  <2>1. SequenceRight(sequence[r], slot, given)
    BY <1>3 DEF SequencesRight
  <2>2. Pending(sequence[r]) => Unused(sequence[r].keys, slot, given)
    BY <1>3, OpenProposal DEF Pending, ClosedRight
  <2>3. \A t \in States : t # s => slot'[t] = slot[t]
    BY <1>7 DEF Owners
  <2>4. SequenceRight(Outdated(s)[r], slot', given')
        /\ (Pending(Outdated(s)[r]) => Pending(sequence[r]) /\ Outdated(s)[r] = sequence[r])
    BY <1>5, <1>9, <2>1, <2>2, <2>3, OutdatedRight
  <2>5. QED BY <1>11, <2>4
<1>14. \A r \in Proposals : r # p /\ Pending(sequence'[r]) => sequence'[r].keys \subseteq given
  BY <1>3, <1>13, OpenProposal DEF Pending, ClosedRight, Unused
<1>15. SequencesRight'
  <2>1. \A r \in Proposals : SequenceRight(sequence'[r], slot', given')
    BY <1>11, <1>12, <1>13
  <2>2. ASSUME NEW r \in Proposals, NEW t \in Proposals, r # t,
               Pending(sequence'[r]), Pending(sequence'[t])
        PROVE  sequence'[r].keys \cap sequence'[t].keys = {}
    <3>1. CASE r = p
      BY <1>8, <1>11, <1>12, <1>14, <2>2, <3>1
    <3>2. CASE t = p
      BY <1>8, <1>11, <1>12, <1>14, <2>2, <3>2
    <3>3. CASE r # p /\ t # p
      BY <1>3, <1>13, <2>2, <3>3 DEF SequencesRight
    <3>4. QED BY <3>1, <3>2, <3>3
  <2>3. QED BY <1>11, <2>1, <2>2 DEF SequencesRight
<1>16. RngRight'
  <2>1. slot'["model"] = slot["model"] /\ rng' = rng
    BY <1>1, <1>5, <1>7
  <2>2. QED BY <1>3, <2>1 DEF RngRight
<1>17. SavedRight' /\ CountsRight' /\ RepeatsRight'
  BY <1>1, <1>3, <1>10 DEF SavedRight, CountsRight, RepeatsRight
<1>18. QED BY <1>10, <1>15, <1>16, <1>17 DEF RandomInv

\* A child gets a key of its own: nothing was given out under it.
LEMMA ChildRight ==
    ASSUME StreamsRight(slot, given, origin, overrun), NEW keys, Unused(keys, slot, given), NEW k \in keys
    PROVE  StreamsRight([slot EXCEPT !["child"] = [key |-> k, counter |-> Zero]], given,
                        origin \cup {<<k, Zero>>}, overrun)
<1> DEFINE sl == [slot EXCEPT !["child"] = [key |-> k, counter |-> Zero]]
           starts == origin \cup {<<k, Zero>>}
<1>1. slot = [t \in Owners |-> [key |-> slot[t].key, counter |-> slot[t].counter]]
  BY DEF StreamsRight
<1>2. "child" \in Owners /\ "parent" \in Owners /\ "model" \in Owners
  BY DEF Owners, States
<1>3. /\ sl["child"].key = k /\ sl["child"].counter = Zero
      /\ \A t \in Owners : t # "child" => sl[t] = slot[t]
      /\ sl = [t \in Owners |-> [key |-> sl[t].key, counter |-> sl[t].counter]]
  BY <1>1, <1>2
<1> HIDE DEF sl
<1>4. Half \in Nat \ {0}
  BY RandomAssumption
<1>5. Zero \in CounterSet /\ Place(Zero) = 0
  <2>1. Zero \in CounterSet
    BY <1>4 DEF Zero, CounterSet, SignedWords
  <2>2. 0 % (2 * Half) = 0
    BY <1>4, ModSmall
  <2>3. Zero.high = 0 /\ Zero.low = 0
    BY DEF Zero
  <2>4. Place(Zero) = 0 * (2 * Half) + 0
    BY <2>2, <2>3 DEF Place
  <2>5. QED BY <1>4, <2>1, <2>4
<1>6. k \in given /\ \A b \in given : b[1] # k
  BY DEF Unused
<1>7. Placed(Under(k, given)) = {}
  BY <1>6 DEF Placed, Under
<1>8. ASSUME NEW t \in Owners
      PROVE  \E o \in starts : Follows(o, sl[t], given, t = "model" /\ overrun)
  <2>1. CASE t = "child"
    <3> DEFINE o == <<k, Zero>>
    <3>1. o \in starts /\ o[1] = k /\ o[2] = Zero
      OBVIOUS
    <3>2. 0 .. 0 - 1 = {} /\ 0 \in Int /\ 0 <= 0
      OBVIOUS
    <3> HIDE DEF o
    <3>3. QED BY <1>3, <1>5, <1>7, <2>1, <3>1, <3>2 DEF Follows
  <2>2. CASE t # "child"
    <3>1. sl[t] = slot[t] /\ origin \subseteq starts
      BY <1>3, <2>2
    <3> HIDE DEF starts
    <3>2. QED BY <3>1 DEF StreamsRight
  <2>3. QED BY <2>1, <2>2
<1> HIDE DEF starts
<1>9. \A t \in Owners : sl[t].counter \in CounterSet
  BY <1>3, <1>5 DEF StreamsRight
<1>10. sl["parent"].key = <<"parent">> /\ sl["model"].key = <<"model">> /\ sl["child"].key \in given
  BY <1>2, <1>3, <1>6 DEF StreamsRight
<1>11. \A b \in given : IsBlock(b) /\ b[1] \in Roots \cup given
  BY DEF StreamsRight
<1>12. StreamsRight(sl, given, starts, overrun)
  BY <1>3, <1>8, <1>9, <1>10, <1>11 DEF StreamsRight
<1>13. QED BY <1>12 DEF sl, starts

\* More starts do no harm.
LEMMA MoreStarts ==
    ASSUME NEW sl, NEW g, NEW starts, NEW over, StreamsRight(sl, g, starts, over),
           NEW more, starts \subseteq more
    PROVE  StreamsRight(sl, g, more, over)
BY DEF StreamsRight

\* A reset takes one of the unused keys.
LEMMA ResetKeeps ==
    ASSUME RandomInv, NEW p \in Proposals, ResetKeyIf(p)
    PROVE  RandomInv'
<1> DEFINE q == sequence[p]
<1>1. PICK k \in q.keys :
        /\ IF q.accepted
           THEN /\ slot' = [slot EXCEPT !["child"] = [key |-> k, counter |-> Zero]]
                /\ origin' = origin \cup {<<k, Zero>>}
           ELSE UNCHANGED <<slot, origin>>
        /\ sequence' = [Outdated("child") EXCEPT ![p].keys = @ \ {k}]
  BY DEF ResetKeyIf
<1>2. ~q.open /\ UNCHANGED <<rng, saved, given, repeated, overrun, drawn, executions>>
  BY DEF ResetKeyIf
<1>3. /\ StreamsRight(slot, given, origin, overrun) /\ RepeatsRight
      /\ SequencesRight /\ RngRight /\ SavedRight /\ CountsRight
  BY DEF RandomInv
<1>4. ClosedRight(q, slot, given)
  BY <1>2, <1>3, OpenProposal
<1>5. "child" \in States /\ "child" \in Owners /\ "model" \in Owners
  BY DEF States, Owners
<1>6. slot = [t \in Owners |-> [key |-> slot[t].key, counter |-> slot[t].counter]]
  BY <1>3 DEF StreamsRight
<1>7. \A t \in Owners : t # "child" => slot'[t] = slot[t]
  BY <1>1, <1>5, <1>6
<1>8. q.accepted => slot'["child"].key = k
  BY <1>1, <1>5, <1>6
<1>9. StreamsRight(slot, given, origin, overrun)' /\ origin \subseteq origin'
  <2>1. CASE q.accepted
    <3>1. Unused(q.keys, slot, given)
      BY <1>4, <2>1 DEF ClosedRight
    <3>2. QED BY <1>1, <1>2, <1>3, <2>1, <3>1, ChildRight
  <2>2. CASE ~q.accepted
    BY <1>1, <1>2, <1>3, <2>2
  <2>3. QED BY <2>1, <2>2
<1> DEFINE n == [open |-> FALSE, accepted |-> q.accepted, keys |-> q.keys \ {k}]
<1>10. Outdated("child")[p] = q
  BY <1>2 DEF Outdated
<1>11. q = [open |-> FALSE, accepted |-> q.accepted, keys |-> q.keys] /\ q.accepted \in BOOLEAN
  BY <1>4 DEF ClosedRight
<1>12. /\ sequence' = [r \in Proposals |-> sequence'[r]]
       /\ sequence'[p] = n
       /\ \A r \in Proposals : r # p => sequence'[r] = Outdated("child")[r]
  <2>1. sequence' = [Outdated("child") EXCEPT ![p].keys = @ \ {k}]
    BY <1>1
  <2>2. \E f : Outdated("child") = [r \in Proposals |-> f[r]]
    BY DEF Outdated
  <2> HIDE DEF q
  <2>3. [q EXCEPT !.keys = @ \ {k}] = n
    <3> DEFINE a == q.accepted
               keys == q.keys
    <3>1. q = [open |-> FALSE, accepted |-> a, keys |-> keys]
      BY <1>11
    <3>2. n = [open |-> FALSE, accepted |-> a, keys |-> keys \ {k}]
      OBVIOUS
    <3> DEFINE left == keys \ {k}
    <3>3. left = q.keys \ {k}
      OBVIOUS
    <3> HIDE DEF a, keys, n, left
    <3>4. [q EXCEPT !.keys = left] = [open |-> FALSE, accepted |-> a, keys |-> left]
      <4> DEFINE w == [q EXCEPT !.keys = left]
      <4>1. w = [q EXCEPT !.keys = left]
        OBVIOUS
      <4> HIDE DEF w
      <4>2. w = [open |-> FALSE, accepted |-> a, keys |-> left]
        BY <3>1, <4>1
      <4>3. QED BY <4>2 DEF w
    <3>5. [open |-> FALSE, accepted |-> a, keys |-> left] = n
      BY <3>2 DEF left
    <3>6. [q EXCEPT !.keys = left] = n
      BY <3>4, <3>5
    <3>7. QED BY <3>3, <3>6
  <2> HIDE DEF n
  <2>4. QED BY <1>10, <2>1, <2>2, <2>3
<1>13. n.keys = q.keys \ {k} /\ n.accepted = q.accepted /\ n.open = FALSE
       /\ n = [open |-> FALSE, accepted |-> n.accepted, keys |-> n.keys]
  OBVIOUS
<1> HIDE DEF n
<1>14. SequenceRight(n, slot', given') /\ (Pending(n) => Pending(q))
  <2>1. q.accepted => Unused(n.keys, slot', given')
    <3> SUFFICES ASSUME q.accepted PROVE Unused(n.keys, slot', given')
      OBVIOUS
    <3>1. Unused(q.keys, slot, given)
      BY <1>4 DEF ClosedRight
    <3>2. QED BY <1>2, <1>8, <1>13, <3>1 DEF Unused
  <2>2. QED BY <1>2, <1>11, <1>13, <2>1 DEF SequenceRight, ClosedRight, Pending
<1>15. \A r \in Proposals : r # p =>
          /\ SequenceRight(sequence'[r], slot', given')
          /\ Pending(sequence'[r]) =>
                Pending(sequence[r]) /\ sequence'[r].keys = sequence[r].keys
  <2> SUFFICES ASSUME NEW r \in Proposals, r # p
               PROVE  /\ SequenceRight(sequence'[r], slot', given')
                      /\ Pending(sequence'[r]) =>
                            Pending(sequence[r]) /\ sequence'[r].keys = sequence[r].keys
    OBVIOUS
  <2>1. SequenceRight(sequence[r], slot, given)
    BY <1>3 DEF SequencesRight
  <2>2. Pending(sequence[r]) => Unused(sequence[r].keys, slot, given)
    BY <1>3, OpenProposal DEF Pending, ClosedRight
  <2>3. Pending(sequence[r]) => Unused(sequence[r].keys, slot', given')
    <3>1. CASE q.accepted
      <4>1. Pending(sequence[r]) => k \notin sequence[r].keys
        BY <1>2, <1>3, <3>1 DEF SequencesRight, Pending
      <4>2. QED BY <1>2, <1>8, <2>2, <3>1, <4>1 DEF Unused
    <3>2. CASE ~q.accepted
      BY <1>1, <1>2, <2>2, <3>2
    <3>3. QED BY <3>1, <3>2
  <2>4. \A t \in States : t # "child" => slot'[t] = slot[t]
    BY <1>7 DEF Owners
  <2>5. SequenceRight(Outdated("child")[r], slot', given')
        /\ (Pending(Outdated("child")[r]) =>
              Pending(sequence[r]) /\ Outdated("child")[r] = sequence[r])
    BY <1>5, <2>1, <2>3, <2>4, OutdatedRight
  <2>6. QED BY <1>12, <2>5
<1>16. SequencesRight'
  <2>1. \A r \in Proposals : SequenceRight(sequence'[r], slot', given')
    BY <1>12, <1>14, <1>15
  <2>2. \A r \in Proposals : Pending(sequence'[r]) =>
           Pending(sequence[r]) /\ sequence'[r].keys \subseteq sequence[r].keys
    BY <1>12, <1>13, <1>14, <1>15
  <2>3. \A r, t \in Proposals : r # t /\ Pending(sequence'[r]) /\ Pending(sequence'[t]) =>
           sequence'[r].keys \cap sequence'[t].keys = {}
    BY <1>3, <2>2 DEF SequencesRight
  <2>4. QED BY <1>12, <2>1, <2>3 DEF SequencesRight
<1>17. RngRight'
  <2>1. slot'["model"] = slot["model"] /\ rng' = rng
    BY <1>2, <1>5, <1>7
  <2>2. QED BY <1>3, <2>1 DEF RngRight
<1>18. SavedRight'
  BY <1>2, <1>3, <1>9, MoreStarts DEF SavedRight
<1>19. CountsRight' /\ RepeatsRight'
  BY <1>2, <1>3 DEF CountsRight, RepeatsRight
<1>20. QED BY <1>9, <1>16, <1>17, <1>18, <1>19 DEF RandomInv

\* The end of a run keeps what it gave out, or takes back the slots as saved.
LEMMA EndRunKeeps ==
    ASSUME RandomInv, EndRun
    PROVE  RandomInv'
<1> DEFINE c == rng.cursor
           final == IF rng.open /\ c.available
                    THEN [slot EXCEPT !["model"].counter = c.next] ELSE slot
<1>1. \/ /\ slot' = final
         /\ IF rng.open
            THEN /\ given' = given \cup c.lanes
                 /\ repeated' = IF c.overlap \/ c.lanes \cap given # {}
                                THEN repeated \cup {c.key} ELSE repeated
            ELSE UNCHANGED <<given, repeated>>
         /\ overrun' = (overrun \/ (rng.open /\ ~c.available))
         /\ saved' = [slot |-> final, given |-> given']
      \/ /\ slot' = saved.slot /\ given' = saved.given
         /\ UNCHANGED <<repeated, overrun, saved>>
  BY DEF EndRun, Give
<1>2. /\ executions < MaxExecutions /\ executions' = executions + 1
      /\ sequence' = [p \in Proposals |-> NoProposal] /\ rng' = NoProposal
      /\ UNCHANGED <<origin, drawn>>
  BY DEF EndRun
<1>3. /\ StreamsRight(slot, given, origin, overrun) /\ RepeatsRight
      /\ SequencesRight /\ RngRight /\ SavedRight /\ CountsRight
  BY DEF RandomInv
<1>4. "model" \in Owners /\ slot["model"].key = <<"model">>
  BY <1>3 DEF Owners, StreamsRight
<1>5. rng.open => CursorRight(c, slot["model"]) /\ c.key = <<"model">>
  BY <1>3, <1>4 DEF RngRight, CursorRight
<1> HIDE DEF c, final
<1>6. ASSUME slot' = final,
             IF rng.open
             THEN /\ given' = given \cup c.lanes
                  /\ repeated' = IF c.overlap \/ c.lanes \cap given # {}
                                 THEN repeated \cup {c.key} ELSE repeated
             ELSE UNCHANGED <<given, repeated>>,
             overrun' = (overrun \/ (rng.open /\ ~c.available)),
             saved' = [slot |-> final, given |-> given']
      PROVE  StreamsRight(slot, given, origin, overrun)' /\ RepeatsRight' /\ SavedRight'
  <2>1. StreamsRight(final, given', origin, overrun') /\ RepeatsRight'
    <3>1. CASE ~rng.open
      <4>1. final = slot /\ UNCHANGED <<given, repeated>>
        BY <1>6, <3>1 DEF final
      <4>2. overrun' = overrun
        BY <1>3, <1>6, <3>1 DEF RepeatsRight
      <4>3. QED BY <1>3, <4>1, <4>2 DEF RepeatsRight
    <3>2. CASE rng.open /\ c.available
      <4>1. final = [slot EXCEPT !["model"].counter = c.next] /\ given' = given \cup c.lanes
        BY <1>6, <3>2 DEF final
      <4>2. overrun' = overrun
        BY <1>3, <1>6, <3>2 DEF RepeatsRight
      <4>3. StreamsRight([slot EXCEPT !["model"].counter = c.next], given \cup c.lanes, origin, overrun)
        BY <1>3, <1>4, <1>5, <3>2, GiveRight
      <4>4. StreamsRight(final, given', origin, overrun')
        BY <4>1, <4>2, <4>3
      <4>5. CASE overrun
        <5>1. repeated' \in {repeated, repeated \cup {<<"model">>}}
          BY <1>5, <1>6, <3>2
        <5>2. repeated' \subseteq {<<"model">>}
          BY <1>3, <4>5, <5>1 DEF RepeatsRight
        <5>3. RepeatsRight'
          BY <1>3, <4>2, <4>5, <5>2 DEF RepeatsRight
        <5>4. QED BY <4>4, <5>3
      <4>6. CASE ~overrun
        <5>1. c.lanes \cap given = {} /\ ~c.overlap
          BY <1>3, <1>4, <1>5, <3>2, <4>6, LanesFresh DEF CursorRight
        <5>2. repeated' = repeated
          BY <1>6, <3>2, <5>1
        <5>3. QED BY <1>3, <4>2, <4>4, <5>2 DEF RepeatsRight
      <4>7. QED BY <4>4, <4>5, <4>6
    <3>3. CASE rng.open /\ ~c.available
      <4>1. final = slot /\ given' = given \cup c.lanes /\ overrun' = TRUE
        BY <1>3, <1>6, <3>3 DEF final, RepeatsRight
      <4>2. StreamsRight(slot, given \cup c.lanes, origin, TRUE)
        BY <1>3, <1>5, <3>3, SpillRight
      <4>3. repeated' \subseteq {<<"model">>}
        BY <1>3, <1>5, <1>6, <3>3 DEF RepeatsRight
      <4>4. QED BY <4>1, <4>2, <4>3 DEF RepeatsRight
    <3>4. QED BY <3>1, <3>2, <3>3
  <2>2. saved'.slot = final /\ saved'.given = given'
        /\ saved' = [slot |-> saved'.slot, given |-> saved'.given]
    BY <1>6
  <2>3. SavedRight'
    BY <1>2, <2>1, <2>2 DEF SavedRight
  <2>4. QED BY <1>2, <1>6, <2>1, <2>3
<1>7. ASSUME slot' = saved.slot, given' = saved.given, UNCHANGED <<repeated, overrun, saved>>
      PROVE  StreamsRight(slot, given, origin, overrun)' /\ RepeatsRight' /\ SavedRight'
  BY <1>2, <1>3, <1>7 DEF SavedRight, RepeatsRight
<1>8. StreamsRight(slot, given, origin, overrun)' /\ RepeatsRight' /\ SavedRight'
  BY <1>1, <1>6, <1>7
<1>9. SequencesRight'
  <2>1. \A p \in Proposals : sequence'[p] = NoProposal
    BY <1>2
  <2>2. sequence' = [p \in Proposals |-> sequence'[p]]
    BY <1>2
  <2>3. QED BY <2>1, <2>2, NoProposalRight DEF SequencesRight
<1>10. RngRight'
  BY <1>2, NoProposalRight DEF RngRight
<1>11. CountsRight'
  <2>1. MaxExecutions \in Nat
    BY RandomAssumption
  <2>2. QED BY <1>2, <1>3, <2>1 DEF CountsRight
<1>12. QED BY <1>8, <1>9, <1>10, <1>11 DEF RandomInv

-----------------------------------------------------------------------------
\* Random state: the theorems.

\* A session starts with every stream at its counter, and nothing given out.
LEMMA RandomStarts ==
    ASSUME RandomInit
    PROVE  RandomInv
<1>1. PICK c \in Counters :
        /\ slot = [s \in Owners |-> [key |-> <<s>>, counter |-> c]]
        /\ sequence = [p \in Proposals |-> NoProposal]
        /\ rng = NoProposal
        /\ saved = [slot |-> slot, given |-> {}]
        /\ given = {} /\ repeated = {} /\ overrun = FALSE
        /\ origin = {<<<<s>>, c>> : s \in Owners}
        /\ drawn = 0 /\ executions = 0
  BY DEF RandomInit
<1>2. c \in CounterSet
  BY RandomAssumption DEF CounterSet, SignedWords
<1>3. Place(c) \in Nat
  BY <1>2, PlaceOf
<1>4. \A s \in Owners : slot[s].key = <<s>> /\ slot[s].counter = c
  BY <1>1
<1>5. slot = [s \in Owners |-> [key |-> slot[s].key, counter |-> slot[s].counter]]
  BY <1>1
<1>6. "parent" \in Owners /\ "model" \in Owners /\ "child" \in Owners
  BY DEF Owners, States
<1>7. ASSUME NEW s \in Owners
      PROVE  \E o \in origin : Follows(o, slot[s], given, s = "model" /\ overrun)
  <2> DEFINE o == <<<<s>>, c>>
  <2>1. o \in origin /\ o[1] = <<s>> /\ o[2] = c
    BY <1>1
  <2>2. Placed(Under(slot[s].key, given)) = {} /\ Place(c) .. Place(c) - 1 = {}
        /\ Place(c) \in Int /\ Place(c) <= Place(c)
    BY <1>1, <1>3 DEF Placed, Under
  <2> HIDE DEF o
  <2>3. QED BY <1>4, <2>1, <2>2 DEF Follows
<1>8. StreamsRight(slot, given, origin, overrun)
  <2>1. \A s \in Owners : slot[s].counter \in CounterSet
    BY <1>2, <1>4
  <2>2. /\ slot["parent"].key = <<"parent">> /\ slot["model"].key = <<"model">>
        /\ slot["child"].key \in {<<"child">>} \cup given
    BY <1>4, <1>6
  <2>3. \A b \in given : IsBlock(b) /\ b[1] \in Roots \cup given
    BY <1>1
  <2>4. QED BY <1>5, <1>7, <2>1, <2>2, <2>3 DEF StreamsRight
<1>9. SavedRight
  <2>1. saved.slot = slot /\ saved.given = given
        /\ saved = [slot |-> saved.slot, given |-> saved.given]
    BY <1>1
  <2>2. QED BY <1>8, <2>1 DEF SavedRight
<1>10. SequencesRight
  <2>1. \A p \in Proposals : sequence[p] = NoProposal
    BY <1>1
  <2>2. sequence = [p \in Proposals |-> sequence[p]]
    BY <1>1
  <2>3. QED BY <2>1, <2>2, NoProposalRight DEF SequencesRight
<1>11. RngRight
  BY <1>1, NoProposalRight DEF RngRight
<1>12. CountsRight /\ RepeatsRight
  <2>1. CountsRight
    BY <1>1, RandomAssumption DEF CountsRight
  <2>2. repeated = {} /\ overrun = FALSE
    BY <1>1
  <2>3. RepeatsRight
    BY <2>2 DEF RepeatsRight
  <2>4. QED BY <2>1, <2>3
<1>13. QED BY <1>1, <1>8, <1>9, <1>10, <1>11, <1>12 DEF RandomInv

\* Every step keeps the invariant.
LEMMA RandomSteps ==
    ASSUME RandomInv, [RandomNext]_randomVars
    PROVE  RandomInv'
<1>1. CASE SequenceNext
  <2>1. PICK p \in Proposals :
          \/ \E s \in States : BeginSequence(p, s)
          \/ \E n \in Counts : Draw(p, n)
          \/ CommitIf(p)
          \/ ResetKeyIf(p)
    BY <1>1 DEF SequenceNext
  <2>2. CASE \E s \in States : BeginSequence(p, s)
    BY <2>2, BeginKeeps
  <2>3. CASE \E n \in Counts : Draw(p, n)
    BY <2>3, DrawKeeps
  <2>4. CASE CommitIf(p)
    BY <2>4, AcceptKeeps, RefuseKeeps DEF CommitIf
  <2>5. CASE ResetKeyIf(p)
    BY <2>5, ResetKeeps
  <2>6. QED BY <2>1, <2>2, <2>3, <2>4, <2>5
<1>2. CASE StreamNext
  BY <1>2, RngKeeps, RngDrawKeeps DEF StreamNext
<1>3. CASE EndRun
  BY <1>3, EndRunKeeps
<1>4. CASE UNCHANGED randomVars
  BY <1>4 DEF randomVars, RandomInv, RepeatsRight, SavedRight, SequencesRight, RngRight, CountsRight
<1>5. QED BY <1>1, <1>2, <1>3, <1>4 DEF RandomNext

\* Every sequence and stream of a random state keeps to its own part of its key's
\* period: what slots, cursors and proposals hold agrees, in every trace and
\* execution (ThreefryState, ThreefrySequence, Cx::rng).
THEOREM RandomInvariant == RandomSpec => []RandomInv
<1>1. RandomInit => RandomInv
  BY RandomStarts
<1>2. RandomInv /\ [RandomNext]_randomVars => RandomInv'
  BY RandomSteps
<1>3. QED BY <1>1, <1>2, PTL DEF RandomSpec

\* For every width of the words, and whatever is drawn, dropped, refused, rejected
\* or lost with a failed execution: no block is given out twice and none is skipped,
\* by any sequence, and by a model's stream until an execution has drawn to the end
\* of its period; from then on that stream, and no other, may repeat blocks
\* (Rng::draw, Cx::finish_rngs).
THEOREM DrawsFresh == RandomSpec => []DrawsAreFresh
<1>1. RandomInv => DrawsAreFresh
  <2> SUFFICES ASSUME RandomInv PROVE DrawsAreFresh
    OBVIOUS
  <2>1. StreamsRight(slot, given, origin, overrun) /\ RepeatsRight /\ CountsRight
    BY DEF RandomInv
  <2>2. \A s \in Owners : slot[s].counter \in CounterSet
    BY <2>1 DEF StreamsRight
  <2>3. \A b \in given : b[2] \in CounterSet
    BY <2>1 DEF StreamsRight, IsBlock
  <2>4. RandomTypeOK
    BY <2>1, <2>2, <2>3 DEF RandomTypeOK, CountsRight, RepeatsRight, CounterSet, SignedWords
  <2>5. ASSUME NEW s \in Owners
        PROVE  \E start \in {o \in origin : o[1] = slot[s].key} :
                 LET places == {Place(block[2]) : block \in {b \in given : b[1] = slot[s].key}}
                     passed == Place(start[2]) .. Place(slot[s].counter) - 1
                 IN  passed \subseteq places /\ (places = passed \/ (s = "model" /\ overrun))
    <3>1. {Place(block[2]) : block \in {b \in given : b[1] = slot[s].key}}
            = Placed(Under(slot[s].key, given))
      BY DEF Placed, Under
    <3>2. PICK o \in origin : Follows(o, slot[s], given, s = "model" /\ overrun)
      BY <2>1 DEF StreamsRight
    <3>3. QED BY <3>1, <3>2 DEF Follows
  <2>6. QED BY <2>1, <2>4, <2>5 DEF DrawsAreFresh, RepeatsRight
<1>2. QED BY <1>1, RandomInvariant, PTL

-----------------------------------------------------------------------------
\* Bound of the calls one sample of a batch may need.
Window == MosaicSize + Reach

\* The constants, one by one.
LEMMA RunConstants ==
    /\ ImageCount \in Nat \ {0} /\ ShuffleBuffer \in Nat \ {0} /\ BatchSize \in Nat \ {0}
    /\ Accumulation \in Nat \ {0} /\ TotalSteps \in Nat \ {0} /\ MosaicSize \in Nat \ {0}
    /\ ResizeEvery \in Nat \ {0} /\ QueueSize \in Nat \ {0} /\ CheckpointEvery \in Nat \ {0}
    /\ StartImage \in Nat /\ EmptyImages \subseteq Nat /\ NoAugmentationSteps \in 0 .. TotalSteps
    /\ RunLimits \subseteq Nat \ {0} /\ FailingReads \subseteq Nat /\ MaxRuns \in Nat
    /\ TotalMicroSteps \in Nat \ {0} /\ Reach \in Nat \ {0} /\ Window \in Nat \ {0}
    /\ MosaicSteps \in Nat
<1>1. /\ {ImageCount, ShuffleBuffer, BatchSize, Accumulation, TotalSteps, MosaicSize,
          ResizeEvery, QueueSize, CheckpointEvery} \subseteq Nat \ {0}
      /\ StartImage \in 0 .. ImageCount - 1 /\ EmptyImages \subseteq Nat
      /\ NoAugmentationSteps \in 0 .. TotalSteps
      /\ RunLimits \subseteq Nat \ {0} /\ FailingReads \subseteq Nat /\ MaxRuns \in Nat
  BY RunAssumption
<1>2. /\ TotalSteps * Accumulation \in Nat \ {0} /\ ShuffleBuffer * ImageCount \in Nat
      /\ (TotalSteps - NoAugmentationSteps) * Accumulation \in Nat
  <2>1. \A a, b \in Nat : a * b \in Nat /\ (a # 0 /\ b # 0 => a * b # 0)
    OBVIOUS
  <2>2. /\ TotalSteps \in Nat /\ Accumulation \in Nat /\ ShuffleBuffer \in Nat /\ ImageCount \in Nat
        /\ TotalSteps # 0 /\ Accumulation # 0 /\ TotalSteps - NoAugmentationSteps \in Nat
    BY <1>1
  <2>3. QED BY <2>1, <2>2
<1>3. QED BY <1>1, <1>2 DEF TotalMicroSteps, Reach, Window, MosaicSteps

-----------------------------------------------------------------------------
\* Counting up.

\* A set that 0 is in, and with each number the next, has all numbers.
LEMMA CountUp ==
    ASSUME NEW n \in Nat, NEW T, 0 \in T, \A m \in 0 .. n - 1 : m \in T => m + 1 \in T
    PROVE  \A m \in 0 .. n : m \in T
<1> DEFINE Missing == {m \in 0 .. n : m \notin T}
<1>1. SUFFICES ASSUME Missing # {} PROVE FALSE
  OBVIOUS
<1>2. PICK m \in Missing : \A j \in Missing : m <= j
  <2>1. Missing \in SUBSET Nat
    OBVIOUS
  <2> HIDE DEF Missing
  <2>2. QED BY <1>1, <2>1, LeastNumber
<1>3. m \in 0 .. n /\ m \notin T /\ m # 0
  BY <1>2
<1>4. m - 1 \in 0 .. n - 1 /\ m - 1 \in 0 .. n /\ ~(m <= m - 1) /\ (m - 1) + 1 = m
  BY <1>3
<1>5. m - 1 \in T
  BY <1>2, <1>4
<1>6. QED BY <1>3, <1>4, <1>5

-----------------------------------------------------------------------------
\* The recursions have their solutions.

\* TakeSamples is the iteration of TakeSample.
LEMMA TakeSamplesIterates ==
    ASSUME NEW p, NEW source
    PROVE  /\ TakeSamples(p, source, 0) = [pool |-> p, samples |-> <<>>]
           /\ \A k \in 1 .. Window :
                 TakeSamples(p, source, k) = TakeSample(TakeSamples(p, source, k - 1), source)
<1> DEFINE start == [pool |-> p, samples |-> <<>>]
           Following(v, k) == TakeSample(v[k - 1], source)
           Sofar(m, v) == v[0] = start /\ \A k \in 1 .. m : v[k] = Following(v, k)
           T == {m \in 0 .. Window : \E v : Sofar(m, v)}
           Iterates(v) == v = [k \in 0 .. Window |-> IF k = 0 THEN start ELSE TakeSample(v[k - 1], source)]
<1>1. Window \in Nat
  BY RunConstants
<1>2. \E v : Sofar(Window, v)
  <2>1. 0 \in T
    <3>1. Sofar(0, [k \in {0} |-> start])
      OBVIOUS
    <3> HIDE DEF Sofar
    <3>2. QED BY <1>1, <3>1
  <2>2. ASSUME NEW m \in 0 .. Window - 1, m \in T PROVE m + 1 \in T
    <3>1. PICK v : Sofar(m, v)
      BY <2>2
    <3> DEFINE longer == [k \in 0 .. m + 1 |-> IF k = m + 1 THEN Following(v, k) ELSE v[k]]
    <3>2. \A k \in 0 .. m : longer[k] = v[k]
      OBVIOUS
    <3>3. longer[m + 1] = Following(v, m + 1)
      OBVIOUS
    <3> HIDE DEF longer
    <3>4. ASSUME NEW k \in 1 .. m + 1 PROVE longer[k] = Following(longer, k)
      <4>1. longer[k - 1] = v[k - 1]
        BY <3>2
      <4>2. CASE k = m + 1
        BY <3>3, <4>1, <4>2
      <4>3. CASE k # m + 1
        <5>1. k \in 1 .. m /\ k \in 0 .. m
          BY <4>3
        <5>2. QED BY <3>1, <3>2, <4>1, <5>1
      <4>4. QED BY <4>2, <4>3
    <3> HIDE DEF Following
    <3>5. Sofar(m + 1, longer)
      <4>1. 0 \in 0 .. m
        OBVIOUS
      <4>2. QED BY <3>1, <3>2, <3>4, <4>1
    <3>6. QED BY <1>1, <3>5
  <2> HIDE DEF T
  <2>3. Window \in T
    BY <1>1, <2>1, <2>2, CountUp
  <2>4. QED BY <2>3 DEF T
<1>3. \E v : Iterates(v)
  <2>1. PICK v : Sofar(Window, v)
    BY <1>2
  <2> DEFINE f == [k \in 0 .. Window |-> v[k]]
  <2>2. (\A k \in 0 .. Window : f[k] = v[k]) /\ f = [k \in 0 .. Window |-> f[k]]
    OBVIOUS
  <2> HIDE DEF f
  <2>3. \A k \in 0 .. Window : f[k] = IF k = 0 THEN start ELSE Following(f, k)
    <3> TAKE k \in 0 .. Window
    <3>1. CASE k = 0
      BY <2>1, <2>2, <3>1
    <3>2. CASE k # 0
      <4>1. k \in 1 .. Window /\ k - 1 \in 0 .. Window
        BY <1>1, <3>2
      <4>2. v[k] = Following(v, k) /\ v[k - 1] = f[k - 1] /\ f[k] = v[k]
        BY <2>1, <2>2, <4>1
      <4>3. QED BY <3>2, <4>2
    <3>3. QED BY <3>1, <3>2
  <2>4. QED BY <2>2, <2>3
<1>4. PICK v : Iterates(v) /\ \A k : TakeSamples(p, source, k) = v[k]
  <2> DEFINE c == CHOOSE v : Iterates(v)
  <2>1. \A k : TakeSamples(p, source, k) = c[k]
    BY DEF TakeSamples, Window
  <2>2. Iterates(c)
    BY <1>3
  <2> HIDE DEF c
  <2>3. QED BY <2>1, <2>2
<1>5. \A k \in 0 .. Window : v[k] = IF k = 0 THEN start ELSE Following(v, k)
  BY <1>4
<1> HIDE DEF Iterates
<1>6. QED BY <1>1, <1>4, <1>5

\* Groups is the last of the iterations of Group.
LEMMA GroupsIterate ==
    ASSUME NEW p, NEW source, NEW step
    PROVE  \E v : /\ v[0] = NoGroups(p) /\ Groups(p, source, step) = v[BatchSize]
                 /\ \A k \in 1 .. BatchSize :
                       v[k] = Group(v[k - 1], source, step, step * BatchSize + k - 1)
<1> DEFINE start == NoGroups(p)
           Following(v, k) == Group(v[k - 1], source, step, step * BatchSize + k - 1)
           Sofar(m, v) == v[0] = start /\ \A k \in 1 .. m : v[k] = Following(v, k)
           T == {m \in 0 .. BatchSize : \E v : Sofar(m, v)}
           Iterates(v) == v = [k \in 0 .. BatchSize |-> IF k = 0 THEN start ELSE Group(v[k - 1], source, step, step * BatchSize + k - 1)]
<1>1. BatchSize \in Nat
  BY RunConstants
<1>2. \E v : Sofar(BatchSize, v)
  <2>1. 0 \in T
    <3>1. Sofar(0, [k \in {0} |-> start])
      OBVIOUS
    <3> HIDE DEF Sofar
    <3>2. QED BY <1>1, <3>1
  <2>2. ASSUME NEW m \in 0 .. BatchSize - 1, m \in T PROVE m + 1 \in T
    <3>1. PICK v : Sofar(m, v)
      BY <2>2
    <3> DEFINE longer == [k \in 0 .. m + 1 |-> IF k = m + 1 THEN Following(v, k) ELSE v[k]]
    <3>2. \A k \in 0 .. m : longer[k] = v[k]
      OBVIOUS
    <3>3. longer[m + 1] = Following(v, m + 1)
      OBVIOUS
    <3> HIDE DEF longer
    <3>4. ASSUME NEW k \in 1 .. m + 1 PROVE longer[k] = Following(longer, k)
      <4>1. longer[k - 1] = v[k - 1]
        BY <3>2
      <4>2. CASE k = m + 1
        BY <3>3, <4>1, <4>2
      <4>3. CASE k # m + 1
        <5>1. k \in 1 .. m /\ k \in 0 .. m
          BY <4>3
        <5>2. QED BY <3>1, <3>2, <4>1, <5>1
      <4>4. QED BY <4>2, <4>3
    <3> HIDE DEF Following
    <3>5. Sofar(m + 1, longer)
      <4>1. 0 \in 0 .. m
        OBVIOUS
      <4>2. QED BY <3>1, <3>2, <3>4, <4>1
    <3>6. QED BY <1>1, <3>5
  <2> HIDE DEF T
  <2>3. BatchSize \in T
    BY <1>1, <2>1, <2>2, CountUp
  <2>4. QED BY <2>3 DEF T
<1>3. \E v : Iterates(v)
  <2>1. PICK v : Sofar(BatchSize, v)
    BY <1>2
  <2> DEFINE f == [k \in 0 .. BatchSize |-> v[k]]
  <2>2. (\A k \in 0 .. BatchSize : f[k] = v[k]) /\ f = [k \in 0 .. BatchSize |-> f[k]]
    OBVIOUS
  <2> HIDE DEF f
  <2>3. \A k \in 0 .. BatchSize : f[k] = IF k = 0 THEN start ELSE Following(f, k)
    <3> TAKE k \in 0 .. BatchSize
    <3>1. CASE k = 0
      BY <2>1, <2>2, <3>1
    <3>2. CASE k # 0
      <4>1. k \in 1 .. BatchSize /\ k - 1 \in 0 .. BatchSize
        BY <1>1, <3>2
      <4>2. v[k] = Following(v, k) /\ v[k - 1] = f[k - 1] /\ f[k] = v[k]
        BY <2>1, <2>2, <4>1
      <4>3. QED BY <3>2, <4>2
    <3>3. QED BY <3>1, <3>2
  <2>4. QED BY <2>2, <2>3
<1>4. PICK v : Iterates(v) /\ Groups(p, source, step) = v[BatchSize]
  <2> DEFINE c == CHOOSE v : Iterates(v)
  <2>1. Groups(p, source, step) = c[BatchSize]
    BY DEF Groups
  <2>2. Iterates(c)
    BY <1>3
  <2> HIDE DEF c
  <2>3. QED BY <2>1, <2>2
<1>5. \A k \in 0 .. BatchSize : v[k] = IF k = 0 THEN start ELSE Following(v, k)
  BY <1>4
<1> HIDE DEF Iterates
<1>6. QED BY <1>1, <1>4, <1>5

\* Replay is the iteration of Called.
LEMMA ReplayIterates ==
    ASSUME NEW source
    PROVE  /\ Replay(source, 0) = NewPlan(TotalMicroSteps)
           /\ \A k \in 1 .. TotalMicroSteps :
                 Replay(source, k) = Called(Replay(source, k - 1), source)
<1> DEFINE start == NewPlan(TotalMicroSteps)
           Following(v, k) == Called(v[k - 1], source)
           Sofar(m, v) == v[0] = start /\ \A k \in 1 .. m : v[k] = Following(v, k)
           T == {m \in 0 .. TotalMicroSteps : \E v : Sofar(m, v)}
           Iterates(v) == v = [k \in 0 .. TotalMicroSteps |-> IF k = 0 THEN start ELSE Called(v[k - 1], source)]
<1>1. TotalMicroSteps \in Nat
  BY RunConstants
<1>2. \E v : Sofar(TotalMicroSteps, v)
  <2>1. 0 \in T
    <3>1. Sofar(0, [k \in {0} |-> start])
      OBVIOUS
    <3> HIDE DEF Sofar
    <3>2. QED BY <1>1, <3>1
  <2>2. ASSUME NEW m \in 0 .. TotalMicroSteps - 1, m \in T PROVE m + 1 \in T
    <3>1. PICK v : Sofar(m, v)
      BY <2>2
    <3> DEFINE longer == [k \in 0 .. m + 1 |-> IF k = m + 1 THEN Following(v, k) ELSE v[k]]
    <3>2. \A k \in 0 .. m : longer[k] = v[k]
      OBVIOUS
    <3>3. longer[m + 1] = Following(v, m + 1)
      OBVIOUS
    <3> HIDE DEF longer
    <3>4. ASSUME NEW k \in 1 .. m + 1 PROVE longer[k] = Following(longer, k)
      <4>1. longer[k - 1] = v[k - 1]
        BY <3>2
      <4>2. CASE k = m + 1
        BY <3>3, <4>1, <4>2
      <4>3. CASE k # m + 1
        <5>1. k \in 1 .. m /\ k \in 0 .. m
          BY <4>3
        <5>2. QED BY <3>1, <3>2, <4>1, <5>1
      <4>4. QED BY <4>2, <4>3
    <3> HIDE DEF Following
    <3>5. Sofar(m + 1, longer)
      <4>1. 0 \in 0 .. m
        OBVIOUS
      <4>2. QED BY <3>1, <3>2, <3>4, <4>1
    <3>6. QED BY <1>1, <3>5
  <2> HIDE DEF T
  <2>3. TotalMicroSteps \in T
    BY <1>1, <2>1, <2>2, CountUp
  <2>4. QED BY <2>3 DEF T
<1>3. \E v : Iterates(v)
  <2>1. PICK v : Sofar(TotalMicroSteps, v)
    BY <1>2
  <2> DEFINE f == [k \in 0 .. TotalMicroSteps |-> v[k]]
  <2>2. (\A k \in 0 .. TotalMicroSteps : f[k] = v[k]) /\ f = [k \in 0 .. TotalMicroSteps |-> f[k]]
    OBVIOUS
  <2> HIDE DEF f
  <2>3. \A k \in 0 .. TotalMicroSteps : f[k] = IF k = 0 THEN start ELSE Following(f, k)
    <3> TAKE k \in 0 .. TotalMicroSteps
    <3>1. CASE k = 0
      BY <2>1, <2>2, <3>1
    <3>2. CASE k # 0
      <4>1. k \in 1 .. TotalMicroSteps /\ k - 1 \in 0 .. TotalMicroSteps
        BY <1>1, <3>2
      <4>2. v[k] = Following(v, k) /\ v[k - 1] = f[k - 1] /\ f[k] = v[k]
        BY <2>1, <2>2, <4>1
      <4>3. QED BY <3>2, <4>2
    <3>3. QED BY <3>1, <3>2
  <2>4. QED BY <2>2, <2>3
<1>4. PICK v : Iterates(v) /\ \A k : Replay(source, k) = v[k]
  <2> DEFINE c == CHOOSE v : Iterates(v)
  <2>1. \A k : Replay(source, k) = c[k]
    BY DEF Replay
  <2>2. Iterates(c)
    BY <1>3
  <2> HIDE DEF c
  <2>3. QED BY <2>1, <2>2
<1>5. \A k \in 0 .. TotalMicroSteps : v[k] = IF k = 0 THEN start ELSE Following(v, k)
  BY <1>4
<1> HIDE DEF Iterates
<1>6. QED BY <1>1, <1>4, <1>5

-----------------------------------------------------------------------------
\* One sample, from a source that may fail and from one that does not.

\* The pools of a run.
PoolRecords ==
    [capacity : {ShuffleBuffer}, items : Seq(Int), reads : Nat, draws : Nat,
     initialized : BOOLEAN, exhausted : BOOLEAN, pending : BOOLEAN]
IsPool(p) == p \in PoolRecords /\ (p.initialized \/ p = NewPool(ShuffleBuffer))

\* A pool that yields errors from now on; and a pool p of the source that fails
\* against that of the other.
Spent(p) == p.initialized /\ (p.pending \/ p.items = <<>>)
Alike(p, q) == p = q \/ Spent(p)

FaultyReads == Nat \cup {NoFault}
Clean == Source(NoFault)

\* The sources differ in one read.
LEMMA SourceFacts ==
    ASSUME NEW fault \in FaultyReads
    PROVE  /\ Items(Source(fault)) = Nat \ {fault}
           /\ \A n \in Nat : /\ Source(fault)[n] \in Int /\ Pulled(Source(fault), n) = Source(fault)[n]
                             /\ n = fault => Source(fault)[n] = Failure
                             /\ n # fault => Source(fault)[n] = Clean[n]
           /\ \A n \in Nat : Clean[n] = (StartImage + n) % ImageCount /\ Clean[n] \in 0 .. ImageCount - 1
<1>1. \A n \in Nat : (StartImage + n) % ImageCount \in 0 .. ImageCount - 1
  BY RunConstants
<1>2. \A n \in Nat : n # NoFault /\ (StartImage + n) % ImageCount # Failure
  BY <1>1, RunConstants DEF NoFault, Failure
<1>3. \A n \in Nat : Clean[n] = (StartImage + n) % ImageCount
  BY <1>2 DEF Clean, Source
<1>4. \A n \in Nat : Source(fault)[n] = IF n = fault THEN Failure ELSE (StartImage + n) % ImageCount
  BY DEF Source
<1>5. DOMAIN Source(fault) = Nat
  BY DEF Source
<1>6. QED BY <1>1, <1>2, <1>3, <1>4, <1>5, RunConstants DEF Items, Pulled, Failure

\* The source that does not fail yields images.
LEMMA CleanFacts == \A n \in Nat : Clean[n] \in Nat /\ Clean[n] \in Int /\ Clean[n] \in 0 .. ImageCount - 1
<1>1. NoFault \in FaultyReads
  BY DEF FaultyReads
<1>2. QED BY <1>1, SourceFacts, RunConstants

\* A source whose failure is far enough fills the pool like the other.
LEMMA FillFacts ==
    ASSUME NEW fault \in FaultyReads
    PROVE  LET p == Fill(NewPool(ShuffleBuffer), Source(fault))
           IN  /\ IsPool(p) /\ p.initialized
               /\ IF fault \in 0 .. ShuffleBuffer - 1 THEN p.pending
                  ELSE p = [capacity |-> ShuffleBuffer, items |-> [k \in 1 .. ShuffleBuffer |-> Clean[k - 1]],
                            reads |-> ShuffleBuffer, draws |-> 0, initialized |-> TRUE,
                            exhausted |-> FALSE, pending |-> FALSE]
<1> DEFINE C == ShuffleBuffer
           new == NewPool(C)
           source == Source(fault)
           full == new.reads + new.capacity - Len(new.items)
           stops == {n \in new.reads .. full - 1 : n \notin Items(source)}
           stop == IF stops = {} THEN full ELSE Min(stops)
           read == [k \in 1 .. stop - new.reads |-> source[new.reads + k - 1]]
           early == fault \in 0 .. C - 1
           p == Fill(new, source)
<1>1. C \in Nat \ {0} /\ new.items = <<>> /\ new.reads = 0 /\ full = C
  BY RunConstants DEF NewPool
<1>2. p = [capacity |-> C, items |-> <<>> \o read, reads |-> IF stops = {} THEN stop ELSE stop + 1,
           draws |-> 0, initialized |-> TRUE, exhausted |-> stops # {},
           pending |-> stops # {} /\ Pulled(source, stop) = Failure]
  <2>1. p = [new EXCEPT
            !.items = @ \o read, !.reads = IF stops = {} THEN stop ELSE stop + 1,
            !.exhausted = stops # {},
            !.pending = stops # {} /\ Pulled(source, stop) = Failure,
            !.initialized = TRUE]
    BY DEF Fill
  <2> HIDE DEF p, stops, stop, read, full
  <2>2. QED BY <1>1, <2>1 DEF NewPool
<1> HIDE DEF new, p
<1>3. stops = {n \in 0 .. C - 1 : n = fault}
  BY <1>1, SourceFacts
<1> HIDE DEF full, C
<1>4. CASE ~early
  <2>1. stops = {}
    BY <1>3, <1>4
  <2>2. stop = C /\ read = [k \in 1 .. C |-> Clean[k - 1]]
    <3>1. \A k \in 1 .. C : k - 1 \in Nat /\ k - 1 # fault
      BY <1>1, <1>4
    <3>2. \A k \in 1 .. C : source[k - 1] = Clean[k - 1]
      BY <3>1, SourceFacts
    <3>3. stop = C
      BY <1>1, <2>1
    <3> HIDE DEF stop, stops, source
    <3>4. QED BY <1>1, <3>2, <3>3
  <2>3. read \in Seq(Int)
    <3>1. \A k \in 1 .. C : Clean[k - 1] \in Int
      BY <1>1, CleanFacts
    <3> HIDE DEF read
    <3>2. QED BY <1>1, <2>2, <3>1
  <2>4. <<>> \o read = read
    <3> HIDE DEF read
    <3>1. QED BY <2>3, ConcatEmptySeq
  <2>5. p = [capacity |-> C, items |-> read, reads |-> C, draws |-> 0, initialized |-> TRUE,
             exhausted |-> FALSE, pending |-> FALSE]
    <3> HIDE DEF stop, stops, read
    <3>1. QED BY <1>2, <2>1, <2>2, <2>4
  <2>6. p \in PoolRecords /\ p.initialized
    <3> HIDE DEF read
    <3>1. QED BY <1>1, <2>3, <2>5 DEF PoolRecords, C
  <2> HIDE DEF read
  <2>7. QED BY <1>4, <2>2, <2>5, <2>6 DEF IsPool, p, new, C
<1>5. CASE early
  <2>1. stops = {fault} /\ fault \in Nat
    BY <1>1, <1>3, <1>5
  <2>2. stop = fault
    <3>1. Min({fault}) = fault
      BY <2>1 DEF Min
    <3> HIDE DEF stops
    <3>2. QED BY <2>1, <3>1
  <2>3. read \in Seq(Int) /\ <<>> \o read = read
    <3>1. \A k \in 1 .. fault : source[k - 1] \in Int
      BY <2>1, SourceFacts
    <3>2. read = [k \in 1 .. fault |-> source[k - 1]]
      <4> HIDE DEF stop, stops, source
      <4>1. QED BY <1>1, <2>1, <2>2
    <3>3. read \in Seq(Int)
      <4> HIDE DEF read, source
      <4>1. QED BY <2>1, <3>1, <3>2
    <3> HIDE DEF read
    <3>4. QED BY <3>3, ConcatEmptySeq
  <2>4. Pulled(source, stop) = Failure
    BY <2>1, <2>2, SourceFacts
  <2>5. p = [capacity |-> C, items |-> read, reads |-> fault + 1, draws |-> 0, initialized |-> TRUE,
             exhausted |-> TRUE, pending |-> TRUE]
    <3> HIDE DEF stop, stops, read
    <3>1. QED BY <1>2, <2>1, <2>2, <2>3, <2>4
  <2>6. p \in PoolRecords /\ p.initialized
    <3> HIDE DEF read
    <3>1. QED BY <1>1, <2>1, <2>3, <2>5 DEF PoolRecords, C
  <2>7. QED BY <1>5, <2>5, <2>6 DEF IsPool, p, new, C
<1>6. QED BY <1>4, <1>5

\* A pool, part by part.
LEMMA PoolShape ==
    ASSUME NEW p \in PoolRecords
    PROVE  /\ p = [capacity |-> ShuffleBuffer, items |-> p.items, reads |-> p.reads, draws |-> p.draws,
                   initialized |-> p.initialized, exhausted |-> p.exhausted, pending |-> p.pending]
           /\ p.items \in Seq(Int) /\ p.reads \in Nat /\ p.draws \in Nat /\ p.capacity = ShuffleBuffer
           /\ p.initialized \in BOOLEAN /\ p.exhausted \in BOOLEAN /\ p.pending \in BOOLEAN
  BY DEF PoolRecords

\* A record of such parts is a pool.
LEMMA PoolMade ==
    ASSUME NEW items \in Seq(Int), NEW reads \in Nat, NEW draws \in Nat, NEW initialized \in BOOLEAN,
           NEW exhausted \in BOOLEAN, NEW pending \in BOOLEAN
    PROVE  [capacity |-> ShuffleBuffer, items |-> items, reads |-> reads, draws |-> draws,
            initialized |-> initialized, exhausted |-> exhausted, pending |-> pending] \in PoolRecords
  BY DEF PoolRecords

\* A pool with other items and another number of draws.
LEMMA PoolWith ==
    ASSUME NEW p \in PoolRecords, NEW items \in Seq(Int), NEW draws \in Nat,
           NEW q, q = [p EXCEPT !.items = items, !.draws = draws]
    PROVE  q = [capacity |-> ShuffleBuffer, items |-> items, reads |-> p.reads, draws |-> draws,
                initialized |-> p.initialized, exhausted |-> p.exhausted, pending |-> p.pending]
  BY DEF PoolRecords

\* And one whose error was returned.
LEMMA PoolWithout ==
    ASSUME NEW p \in PoolRecords, NEW items \in Seq(Int),
           NEW q, q = [p EXCEPT !.items = items, !.pending = FALSE]
    PROVE  q = [capacity |-> ShuffleBuffer, items |-> items, reads |-> p.reads, draws |-> p.draws,
                initialized |-> p.initialized, exhausted |-> p.exhausted, pending |-> FALSE]
  BY DEF PoolRecords

\* Reading the replacement of an item, on a pool that can have one.
LEMMA ReplaceFacts ==
    ASSUME NEW fault \in FaultyReads, NEW p \in PoolRecords, p.initialized
    PROVE  LET q == Replace(p, Source(fault))
           IN  /\ q \in PoolRecords /\ q.initialized
               /\ q = Replace(p, Clean) \/ q.pending
               /\ fault = NoFault /\ ~p.exhausted =>
                     q = [p EXCEPT !.items = Append(@, Clean[p.reads]), !.reads = @ + 1]
<1> DEFINE q == Replace(p, Source(fault))
<1>1. p.reads \in Nat /\ p.items \in Seq(Int)
  BY DEF PoolRecords
<1>2. CASE p.exhausted
  BY <1>2 DEF Replace
<1>3. CASE ~p.exhausted /\ p.reads # fault
  <2>1. p.reads \in Items(Source(fault)) /\ p.reads \in Items(Clean) /\ Source(fault)[p.reads] = Clean[p.reads]
    <3>1. NoFault \in FaultyReads /\ p.reads # NoFault
      BY <1>1 DEF FaultyReads, NoFault
    <3>2. QED BY <1>1, <1>3, <3>1, SourceFacts DEF Clean
  <2>2. Clean[p.reads] \in Int
    BY <1>1, CleanFacts
  <2>3. q = [p EXCEPT !.items = Append(@, Clean[p.reads]), !.reads = @ + 1] /\ q = Replace(p, Clean)
    BY <1>3, <2>1 DEF Replace
  <2>4. q \in PoolRecords /\ q.initialized
    <3>1. Append(p.items, Clean[p.reads]) \in Seq(Int)
      BY <1>1, <2>2
    <3> HIDE DEF q
    <3>2. q \in PoolRecords
      <4>1. q = [capacity |-> ShuffleBuffer, items |-> Append(p.items, Clean[p.reads]),
                 reads |-> p.reads + 1, draws |-> p.draws, initialized |-> p.initialized,
                 exhausted |-> p.exhausted, pending |-> p.pending]
        BY <2>3, PoolShape
      <4> HIDE DEF q
      <4>2. p.reads + 1 \in Nat
        BY <1>1
      <4>3. QED BY <3>1, <4>1, <4>2, PoolShape, PoolMade
    <3>3. q.initialized
      BY <2>3 DEF PoolRecords
    <3>4. QED BY <3>2, <3>3
  <2>5. QED BY <2>3, <2>4
<1>4. CASE ~p.exhausted /\ p.reads = fault
  <2>1. p.reads \notin Items(Source(fault)) /\ Pulled(Source(fault), p.reads) = Failure /\ fault # NoFault
    BY <1>1, <1>4, SourceFacts DEF NoFault
  <2>2. q = [p EXCEPT !.exhausted = TRUE, !.reads = @ + 1, !.pending = TRUE]
    BY <1>4, <2>1 DEF Replace
  <2> HIDE DEF q
  <2>3. q \in PoolRecords /\ q.initialized /\ q.pending
    <3>1. q \in PoolRecords
      <4>1. q = [capacity |-> ShuffleBuffer, items |-> p.items, reads |-> p.reads + 1,
                 draws |-> p.draws, initialized |-> p.initialized, exhausted |-> TRUE, pending |-> TRUE]
        BY <2>2 DEF PoolRecords
      <4>2. p.reads + 1 \in Nat
        BY <1>1
      <4>3. QED BY <4>1, <4>2, PoolShape, PoolMade
    <3>2. q.initialized
      BY <2>2 DEF PoolRecords
    <3>3. q.pending
      BY <2>2 DEF PoolRecords
    <3>4. QED BY <3>1, <3>2, <3>3
  <2>4. QED BY <2>1, <2>3 DEF q
<1>5. QED BY <1>2, <1>3, <1>4

\* Taking an item out leaves a sequence of the others.
LEMMA SwapRemoveTyped ==
    ASSUME NEW items \in Seq(Int), items # <<>>, NEW i \in 1 .. Len(items)
    PROVE  SwapRemove(items, i) \in Seq(Int) /\ Len(SwapRemove(items, i)) = Len(items) - 1
  BY DEF SwapRemove

\* A call on a pool that has an item, or none.
LEMMA TakeFilled ==
    ASSUME NEW fault \in FaultyReads, NEW p \in PoolRecords, p.initialized, NEW word \in Nat
    PROVE  LET t == Take(p, Source(fault), word)
               i == (word % Len(p.items)) + 1
               chosen == [p EXCEPT !.items = SwapRemove(@, i), !.draws = @ + 1]
           IN  /\ t.pool \in PoolRecords /\ t.pool.initialized /\ t.result \in Int
               /\ Spent(p) => Spent(t.pool) /\ IsError(t.result)
               /\ ~Spent(p) => /\ i \in 1 .. Len(p.items) /\ chosen \in PoolRecords /\ chosen.initialized
                               /\ t = [pool |-> Replace(chosen, Source(fault)), result |-> p.items[i]]
<1> DEFINE t == Take(p, Source(fault), word)
           i == (word % Len(p.items)) + 1
           chosen == [p EXCEPT !.items = SwapRemove(@, i), !.draws = @ + 1]
<1>1. p.items \in Seq(Int) /\ Len(p.items) \in Nat /\ p.draws \in Nat /\ p.exhausted \in BOOLEAN
      /\ p.pending \in BOOLEAN /\ p.initialized = TRUE /\ p.reads \in Nat
  BY PoolShape
<1>2. CASE p.pending
  <2>1. t = [pool |-> [p EXCEPT !.items = <<>>, !.pending = FALSE], result |-> Failure]
    BY <1>2 DEF Take, TakeFrom
  <2>2. t.pool = [capacity |-> ShuffleBuffer, items |-> <<>>, reads |-> p.reads, draws |-> p.draws,
                  initialized |-> p.initialized, exhausted |-> p.exhausted, pending |-> FALSE]
    <3> HIDE DEF t
    <3>1. <<>> \in Seq(Int)
      OBVIOUS
    <3>2. QED BY <2>1, <3>1, PoolWithout
  <2>3. <<>> \in Seq(Int)
    OBVIOUS
  <2> HIDE DEF t
  <2>4. t.pool \in PoolRecords
    <3> HIDE DEF i, chosen
    <3>1. /\ p.reads \in Nat /\ p.draws \in Nat
          /\ p.initialized \in BOOLEAN /\ p.exhausted \in BOOLEAN /\ FALSE \in BOOLEAN
      BY <1>1
    <3>2. [capacity |-> ShuffleBuffer, items |-> <<>>, reads |-> p.reads, draws |-> p.draws,
           initialized |-> p.initialized, exhausted |-> p.exhausted, pending |-> FALSE] \in PoolRecords
      BY <2>3, <3>1, PoolMade
    <3>3. QED BY <2>2, <3>2
  <2>5. t.pool.initialized /\ Spent(t.pool)
    BY <1>1, <2>2 DEF Spent
  <2>6. t.result = Failure /\ Failure \in Int
    BY <2>1 DEF Failure
  <2>7. QED BY <1>1, <1>2, <2>4, <2>5, <2>6 DEF t, Spent, IsError
<1>3. CASE ~p.pending /\ p.items = <<>>
  <2>1. t = [pool |-> p, result |-> Exhausted]
    BY <1>1, <1>3 DEF Take, TakeFrom
  <2>2. Exhausted \in Int
    BY DEF Exhausted
  <2>3. QED BY <1>1, <1>3, <2>1, <2>2 DEF Spent, IsError
<1>4. CASE ~p.pending /\ p.items # <<>>
  <2>1. Len(p.items) \in Nat \ {0}
    BY <1>1, <1>4
  <2>2. i \in 1 .. Len(p.items)
    <3>1. \A m \in Nat \ {0} : word % m \in 0 .. m - 1
      OBVIOUS
    <3>2. word % Len(p.items) \in 0 .. Len(p.items) - 1
      BY <2>1, <3>1
    <3>3. \A n \in Nat : \A r \in 0 .. n - 1 : r + 1 \in 1 .. n
      OBVIOUS
    <3>4. QED BY <2>1, <3>2, <3>3
  <2>3. t = [pool |-> Replace(chosen, Source(fault)), result |-> p.items[i]]
    BY <1>1, <1>4 DEF Take, TakeFrom
  <2> HIDE DEF i
  <2>4. SwapRemove(p.items, i) \in Seq(Int)
    BY <1>1, <1>4, <2>2, SwapRemoveTyped
  <2>5. chosen = [capacity |-> ShuffleBuffer, items |-> SwapRemove(p.items, i), reads |-> p.reads,
                  draws |-> p.draws + 1, initialized |-> p.initialized, exhausted |-> p.exhausted,
                  pending |-> p.pending]
    <3>1. p.draws + 1 \in Nat
      BY <1>1
    <3> HIDE DEF chosen
    <3>2. chosen = [p EXCEPT !.items = SwapRemove(p.items, i), !.draws = p.draws + 1]
      BY DEF chosen
    <3>3. QED BY <2>4, <3>1, <3>2, PoolWith
  <2> HIDE DEF chosen
  <2>6. chosen \in PoolRecords
    <3>1. p.draws + 1 \in Nat
      BY <1>1
    <3>2. QED BY <1>1, <2>4, <2>5, <3>1, PoolMade
  <2>7. chosen.initialized
    BY <1>1, <2>5
  <2>8. Replace(chosen, Source(fault)) \in PoolRecords /\ Replace(chosen, Source(fault)).initialized
    BY <2>6, <2>7, ReplaceFacts
  <2>9. p.items[i] \in Int
    BY <1>1, <2>2
  <2> HIDE DEF t
  <2>10. t.pool = Replace(chosen, Source(fault)) /\ t.result = p.items[i]
    BY <2>3
  <2>11. ~Spent(p)
    BY <1>1, <1>4 DEF Spent
  <2>12. QED BY <2>2, <2>3, <2>6, <2>7, <2>8, <2>9, <2>10, <2>11 DEF t, i, chosen
<1>5. QED BY <1>2, <1>3, <1>4

\* What a call on two pools leaves when the sources give the same sample, or the
\* one that fails an error; and the pools stay alike.
TakenAlike(t, u) ==
    /\ IsPool(t.pool) /\ IsPool(u.pool) /\ Alike(t.pool, u.pool)
    /\ t.result \in Int /\ u.result \in Int
    /\ IsError(t.result) \/ t.result = u.result

\* Calls on pools that are alike are alike.
LEMMA TakeAlike ==
    ASSUME NEW fault \in FaultyReads, NEW p, NEW q, IsPool(p), IsPool(q), Alike(p, q),
           NEW v \in Nat, NEW w \in Nat, p = q => v = w
    PROVE  TakenAlike(Take(p, Source(fault), v), Take(q, Clean, w))
<1> DEFINE t == Take(p, Source(fault), v)
           u == Take(q, Clean, w)
<1> SUFFICES /\ IsPool(t.pool) /\ IsPool(u.pool) /\ Alike(t.pool, u.pool)
             /\ t.result \in Int /\ u.result \in Int
             /\ IsError(t.result) \/ t.result = u.result
  BY DEF TakenAlike
<1> DEFINE Ready(r, f) == IF r.initialized THEN r ELSE Fill(r, Source(f))
<1>1. NoFault \in FaultyReads
  BY DEF FaultyReads
<1>2. ASSUME NEW f \in FaultyReads, NEW r, IsPool(r)
      PROVE  /\ Ready(r, f) \in PoolRecords /\ Ready(r, f).initialized = TRUE
             /\ \A word : Take(r, Source(f), word) = Take(Ready(r, f), Source(f), word)
  <2>1. Ready(r, f) \in PoolRecords /\ Ready(r, f).initialized
    <3>1. CASE r.initialized
      BY <1>2, <3>1 DEF IsPool
    <3>2. CASE ~r.initialized
      <4>1. r = NewPool(ShuffleBuffer)
        BY <1>2, <3>2 DEF IsPool
      <4>2. QED BY <1>2, <3>2, <4>1, FillFacts DEF IsPool
    <3>3. QED BY <3>1, <3>2
  <2>2. Ready(r, f).initialized = TRUE
    <3> HIDE DEF Ready
    <3>1. QED BY <2>1, PoolShape
  <2>3. \A word : Take(r, Source(f), word) = Take(Ready(r, f), Source(f), word)
    BY <2>2 DEF Take, TakeFrom
  <2>4. QED BY <2>1, <2>2, <2>3
<1> DEFINE a == Ready(p, fault)
           b == Ready(q, NoFault)
<1>3. /\ a \in PoolRecords /\ a.initialized = TRUE /\ t = Take(a, Source(fault), v)
      /\ b \in PoolRecords /\ b.initialized = TRUE /\ u = Take(b, Clean, w)
  <2>1. a \in PoolRecords /\ a.initialized = TRUE /\ t = Take(a, Source(fault), v)
    BY <1>2
  <2>2. b \in PoolRecords /\ b.initialized = TRUE /\ u = Take(b, Clean, w)
    BY <1>1, <1>2 DEF Clean
  <2>3. QED BY <2>1, <2>2
<1>4. (p = q /\ a = b) \/ Spent(a)
  <2>1. CASE Spent(p)
    BY <2>1 DEF Spent
  <2>2. CASE p = q /\ p.initialized
    BY <2>2
  <2>3. CASE p = q /\ ~p.initialized
    <3>1. p = NewPool(ShuffleBuffer)
      BY <2>3 DEF IsPool
    <3>2. a = Fill(NewPool(ShuffleBuffer), Source(fault)) /\ b = Fill(NewPool(ShuffleBuffer), Clean)
      BY <2>3, <3>1 DEF Clean
    <3>3. NoFault \notin 0 .. ShuffleBuffer - 1
      BY RunConstants DEF NoFault
    <3>4. CASE fault \in 0 .. ShuffleBuffer - 1
      BY <1>3, <3>2, <3>4, FillFacts DEF Spent
    <3>5. CASE fault \notin 0 .. ShuffleBuffer - 1
      <4>1. a = b
        <5> HIDE DEF a, b
        <5>1. QED BY <1>1, <3>2, <3>3, <3>5, FillFacts DEF Clean
      <4>2. QED BY <2>3, <4>1
    <3>6. QED BY <3>4, <3>5
  <2>4. QED BY <2>1, <2>2, <2>3 DEF Alike
<1> HIDE DEF a, b, t, u, Ready
<1>5. /\ t.pool \in PoolRecords /\ t.pool.initialized /\ t.result \in Int
      /\ Spent(a) => Spent(t.pool) /\ IsError(t.result)
  BY <1>3, TakeFilled
<1>6. u.pool \in PoolRecords /\ u.pool.initialized /\ u.result \in Int
  BY <1>1, <1>3, TakeFilled DEF Clean
<1>7. CASE Spent(a)
  BY <1>5, <1>6, <1>7 DEF t, u, IsPool, Alike
<1>8. CASE ~Spent(a) /\ p = q /\ a = b
  <2> DEFINE i == (v % Len(a.items)) + 1
             chosen == [a EXCEPT !.items = SwapRemove(@, i), !.draws = @ + 1]
  <2>1. v = w
    BY <1>8
  <2>2. /\ chosen \in PoolRecords /\ chosen.initialized
        /\ t = [pool |-> Replace(chosen, Source(fault)), result |-> a.items[i]]
    BY <1>3, <1>8, TakeFilled
  <2>3. u = [pool |-> Replace(chosen, Clean), result |-> a.items[i]]
    BY <1>1, <1>3, <1>8, <2>1, TakeFilled DEF Clean
  <2> HIDE DEF chosen, i
  <2>4. t.pool = Replace(chosen, Source(fault)) /\ t.result = a.items[i]
    BY <2>2
  <2>5. u.pool = Replace(chosen, Clean) /\ u.result = a.items[i]
    BY <2>3
  <2>6. t.pool = u.pool \/ t.pool.pending
    BY <2>2, <2>4, <2>5, ReplaceFacts
  <2>7. QED BY <1>5, <1>6, <2>4, <2>5, <2>6 DEF t, u, IsPool, Alike, Spent
<1>9. QED BY <1>4, <1>7, <1>8

\* The random words are numbers, as the 64-bit words of the code are.
WordsAreNumbers == \A d \in Nat : Word(d) \in Nat

\* A sequence and one more.
LEMMA Longer ==
    ASSUME NEW n \in Nat, NEW s \in Seq(Int), NEW x \in Int, Len(s) = n, NEW z, z = Append(s, x)
    PROVE  z \in Seq(Int) /\ Len(z) = n + 1 /\ z[n + 1] = x /\ \A j \in 1 .. n : z[j] = s[j]
  OBVIOUS

\* Sequences with the same elements.
LEMMA SameElements ==
    ASSUME NEW s \in Seq(Int), NEW t \in Seq(Int), Len(s) = Len(t), \A k \in 1 .. Len(s) : s[k] = t[k]
    PROVE  s = t
  OBVIOUS

\* What so many calls yield: the same, or errors.
SampledAlike(a, b, n) ==
    /\ IsPool(a.pool) /\ IsPool(b.pool) /\ Alike(a.pool, b.pool)
    /\ a.samples \in Seq(Int) /\ Len(a.samples) = n
    /\ b.samples \in Seq(Int) /\ Len(b.samples) = n
    /\ \A j \in 1 .. n : IsError(a.samples[j]) \/ a.samples[j] = b.samples[j]

\* So it is for any number of samples.
LEMMA SamplesAlike ==
    ASSUME NEW fault \in FaultyReads, WordsAreNumbers, NEW p, NEW q, IsPool(p), IsPool(q), Alike(p, q),
           NEW k \in 0 .. Window
    PROVE  SampledAlike(TakeSamples(p, Source(fault), k), TakeSamples(q, Clean, k), k)
<1> DEFINE A(n) == TakeSamples(p, Source(fault), n)
           B(n) == TakeSamples(q, Clean, n)
           PoolsAlike(a, b) == IsPool(a.pool) /\ IsPool(b.pool) /\ Alike(a.pool, b.pool)
           Samples(a, b, n) ==
               /\ a.samples \in Seq(Int) /\ Len(a.samples) = n
               /\ b.samples \in Seq(Int) /\ Len(b.samples) = n
               /\ \A j \in 1 .. n : IsError(a.samples[j]) \/ a.samples[j] = b.samples[j]
           T == {n \in 0 .. Window : PoolsAlike(A(n), B(n)) /\ Samples(A(n), B(n), n)}
<1>1. Window \in Nat
  BY RunConstants
<1>2. 0 \in T
  <2>1. A(0) = [pool |-> p, samples |-> <<>>] /\ B(0) = [pool |-> q, samples |-> <<>>]
    BY TakeSamplesIterates
  <2> HIDE DEF A, B
  <2>2. PoolsAlike(A(0), B(0))
    BY <2>1
  <2>3. Samples(A(0), B(0), 0)
    <3>1. A(0).samples = <<>> /\ B(0).samples = <<>>
      BY <2>1
    <3>2. <<>> \in Seq(Int) /\ Len(<<>>) = 0 /\ 1 .. 0 = {}
      OBVIOUS
    <3>3. QED BY <3>1, <3>2
  <2>4. QED BY <1>1, <2>2, <2>3
<1>3. ASSUME NEW n \in 0 .. Window - 1, n \in T PROVE n + 1 \in T
  <2> DEFINE a == A(n)
             b == B(n)
             t == Take(a.pool, Source(fault), Word(a.pool.draws))
             u == Take(b.pool, Clean, Word(b.pool.draws))
  <2>1. /\ A(n + 1) = TakeSample(a, Source(fault)) /\ B(n + 1) = TakeSample(b, Clean)
    <3>1. n + 1 \in 1 .. Window /\ (n + 1) - 1 = n
      BY <1>1, <1>3
    <3>2. QED BY <3>1, TakeSamplesIterates
  <2>2. /\ A(n + 1) = [pool |-> t.pool, samples |-> Append(a.samples, t.result)]
        /\ B(n + 1) = [pool |-> u.pool, samples |-> Append(b.samples, u.result)]
    BY <2>1 DEF TakeSample, Sampled
  <2>3. PoolsAlike(a, b) /\ Samples(a, b, n)
    BY <1>3
  <2> HIDE DEF A, B, a, b
  <2>4. Word(a.pool.draws) \in Nat /\ Word(b.pool.draws) \in Nat
    BY <2>3, PoolShape DEF IsPool, WordsAreNumbers
  <2>5. a.pool = b.pool => Word(a.pool.draws) = Word(b.pool.draws)
    OBVIOUS
  <2>6. /\ IsPool(t.pool) /\ IsPool(u.pool) /\ Alike(t.pool, u.pool)
        /\ t.result \in Int /\ u.result \in Int
        /\ IsError(t.result) \/ t.result = u.result
    <3>1. ASSUME NEW v \in Nat, NEW w \in Nat, a.pool = b.pool => v = w,
                 IsPool(a.pool), IsPool(b.pool), Alike(a.pool, b.pool)
          PROVE  TakenAlike(Take(a.pool, Source(fault), v), Take(b.pool, Clean, w))
      <4> HIDE DEF t, u, Samples, PoolsAlike, T
      <4>1. QED BY <3>1, TakeAlike
    <3>2. IsPool(a.pool) /\ IsPool(b.pool) /\ Alike(a.pool, b.pool)
      BY <2>3
    <3> HIDE DEF Samples, PoolsAlike, T
    <3>3. TakenAlike(t, u)
      BY <2>4, <2>5, <3>1, <3>2
    <3> HIDE DEF t, u
    <3>4. QED BY <3>3 DEF TakenAlike
  <2> HIDE DEF t, u
  <2>7. PoolsAlike(A(n + 1), B(n + 1))
    BY <2>2, <2>6
  <2>8. Samples(A(n + 1), B(n + 1), n + 1)
    <3>1. A(n + 1).samples = Append(a.samples, t.result) /\ B(n + 1).samples = Append(b.samples, u.result)
      BY <2>2
    <3>2. n \in Nat
      BY <1>1, <1>3
    <3>3. \A j \in 1 .. n + 1 : j = n + 1 \/ j \in 1 .. n
      BY <1>3
    <3>4. /\ a.samples \in Seq(Int) /\ Len(a.samples) = n
          /\ b.samples \in Seq(Int) /\ Len(b.samples) = n
          /\ \A j \in 1 .. n : IsError(a.samples[j]) \/ a.samples[j] = b.samples[j]
      BY <2>3
    <3>5. /\ t.result \in Int /\ u.result \in Int
          /\ IsError(t.result) \/ t.result = u.result
      BY <2>6
    <3>10. /\ A(n + 1).samples \in Seq(Int) /\ Len(A(n + 1).samples) = n + 1
           /\ \A j \in 1 .. n : A(n + 1).samples[j] = a.samples[j]
           /\ A(n + 1).samples[n + 1] = t.result
      BY <3>1, <3>2, <3>4, <3>5, Longer
    <3>11. /\ B(n + 1).samples \in Seq(Int) /\ Len(B(n + 1).samples) = n + 1
           /\ \A j \in 1 .. n : B(n + 1).samples[j] = b.samples[j]
           /\ B(n + 1).samples[n + 1] = u.result
      BY <3>1, <3>2, <3>4, <3>5, Longer
    <3>6. ASSUME NEW j \in 1 .. n + 1
          PROVE  IsError(A(n + 1).samples[j]) \/ A(n + 1).samples[j] = B(n + 1).samples[j]
      <4>1. CASE j = n + 1
        BY <3>5, <3>10, <3>11, <4>1
      <4>2. CASE j # n + 1
        <5>1. j \in 1 .. n
          BY <3>3, <4>2
        <5>2. A(n + 1).samples[j] = a.samples[j] /\ B(n + 1).samples[j] = b.samples[j]
          BY <3>10, <3>11, <5>1
        <5>3. QED BY <3>4, <5>1, <5>2
      <4>3. QED BY <4>1, <4>2
    <3>7. /\ A(n + 1).samples \in Seq(Int) /\ Len(A(n + 1).samples) = n + 1
          /\ B(n + 1).samples \in Seq(Int) /\ Len(B(n + 1).samples) = n + 1
      BY <3>10, <3>11
    <3>8. QED BY <3>6, <3>7
  <2> HIDE DEF PoolsAlike, Samples
  <2>9. n + 1 \in 0 .. Window
    BY <1>1, <1>3
  <2>10. QED BY <2>7, <2>8, <2>9
<1> HIDE DEF T
<1>4. k \in T
  BY <1>1, <1>2, <1>3, CountUp
<1>5. PoolsAlike(A(k), B(k)) /\ Samples(A(k), B(k), k)
  BY <1>4 DEF T
<1> HIDE DEF A, B
<1>6. SampledAlike(A(k), B(k), k)
  BY <1>5 DEF SampledAlike
<1>7. QED BY <1>6 DEF A, B

\* The least of a set of numbers.
LEMMA MinIs ==
    ASSUME NEW S \in SUBSET Nat, NEW n \in S, \A k \in S : n <= k
    PROVE  Min(S) = n
<1>1. Min(S) = CHOOSE x \in S : \A y \in S : x <= y
  BY DEF Min
<1>2. \A x \in S : (\A y \in S : x <= y) => x = n
  OBVIOUS
<1>3. QED BY <1>1, <1>2

\* A nonempty set of numbers has one.
LEMMA MinExists ==
    ASSUME NEW S \in SUBSET Nat, S # {}
    PROVE  Min(S) \in S /\ \A k \in S : Min(S) <= k
<1>1. PICK n \in S : \A k \in S : n <= k
  BY LeastNumber
<1>2. Min(S) = n
  BY <1>1, MinIs
<1>3. QED BY <1>1, <1>2

-----------------------------------------------------------------------------
\* One batch.

\* The batch so far has failed, or is the one of the other source, with a pool like its own.
Same(st, su) ==
    /\ IsPool(st.pool) /\ IsPool(su.pool) /\ Alike(st.pool, su.pool)
    /\ ~st.failed /\ ~su.failed /\ st.groups = su.groups
Together(st, su) == (st.failed /\ "failed" \in DOMAIN st) \/ ("failed" \in DOMAIN st /\ Same(st, su))

\* The partner of a mixup is the same, or the batch fails.
LEMMA PartnerAlike ==
    ASSUME NEW fault \in FaultyReads, WordsAreNumbers, NEW st, NEW su, "failed" \in DOMAIN st, Same(st, su),
           NEW samples, Len(samples) \in 0 .. MosaicSize
    PROVE  Together(WithPartner(st, Source(fault), samples), WithPartner(su, Clean, samples))
<1> DEFINE own == Len(samples)
           A(k) == TakeSamples(st.pool, Source(fault), k)
           B(k) == TakeSamples(su.pool, Clean, k)
           seen == A(own + Reach).samples
           seen2 == B(own + Reach).samples
           ends == {k \in own + 1 .. own + Reach : seen[k] \notin EmptyImages}
           ends2 == {k \in own + 1 .. own + Reach : seen2[k] \notin EmptyImages}
           w == WithPartner(st, Source(fault), samples)
           x == WithPartner(su, Clean, samples)
<1>1. own \in Nat /\ Reach \in Nat /\ own + Reach \in 0 .. Window /\ own + Reach \in Nat /\ Window \in Nat
  BY RunConstants DEF Window
<1>2. /\ w = IF ends = {} \/ IsError(seen[Min(ends)]) THEN Fails(st)
              ELSE Grouped(st, A(Min(ends)).pool, samples, <<seen[Min(ends)]>>)
      /\ x = IF ends2 = {} \/ IsError(seen2[Min(ends2)]) THEN Fails(su)
              ELSE Grouped(su, B(Min(ends2)).pool, samples, <<seen2[Min(ends2)]>>)
  BY DEF WithPartner
<1>3. ASSUME NEW k \in 0 .. Window
      PROVE  /\ IsPool(A(k).pool) /\ IsPool(B(k).pool) /\ Alike(A(k).pool, B(k).pool)
             /\ \A j \in 1 .. k : IsError(A(k).samples[j]) \/ A(k).samples[j] = B(k).samples[j]
  <2>1. IsPool(st.pool) /\ IsPool(su.pool) /\ Alike(st.pool, su.pool)
    BY DEF Same
  <2>2. SampledAlike(A(k), B(k), k)
    BY <1>3, <2>1, SamplesAlike
  <2> HIDE DEF A, B
  <2>3. QED BY <2>2 DEF SampledAlike
<1>4. \A j \in 1 .. own + Reach : IsError(seen[j]) \/ seen[j] = seen2[j]
  <2> HIDE DEF own, A, B
  <2>1. QED BY <1>1, <1>3
<1>5. Fails(st).failed /\ "failed" \in DOMAIN Fails(st)
  BY DEF Fails
<1> HIDE DEF w, x, own, A, B
<1>6. CASE ends = {} \/ IsError(seen[Min(ends)])
  <2>1. w = Fails(st)
    BY <1>2, <1>6
  <2>2. QED BY <1>5, <2>1 DEF Together, w
<1>7. CASE ~(ends = {} \/ IsError(seen[Min(ends)]))
  <2> DEFINE n == Min(ends)
  <2>1. ends \in SUBSET Nat /\ ends2 \in SUBSET Nat
    BY <1>1
  <2>2. n \in ends /\ \A k \in ends : n <= k
    <3> HIDE DEF ends
    <3>1. QED BY <1>7, <2>1, MinExists
  <2>3. n \in own + 1 .. own + Reach /\ n \in 1 .. own + Reach /\ n \in 0 .. Window
    BY <1>1, <2>2
  <2>4. ~IsError(seen[n]) /\ seen[n] = seen2[n] /\ seen[n] \notin EmptyImages
    <3>1. ~IsError(seen[n]) /\ seen[n] \notin EmptyImages
      BY <1>7, <2>2
    <3> HIDE DEF seen, seen2, n
    <3>2. QED BY <1>4, <2>3, <3>1
  <2>5. \A e \in EmptyImages : ~IsError(e)
    BY RunConstants DEF IsError, Failure, Exhausted
  <2> HIDE DEF n, seen, seen2
  <2>6. ASSUME NEW k \in ends2 PROVE n <= k
    <3>1. k \in own + 1 .. own + Reach /\ k \in 1 .. own + Reach /\ k \in Nat /\ n \in Nat
      BY <1>1, <2>1, <2>2, <2>6
    <3>2. CASE k \in ends
      BY <2>2, <3>2
    <3>3. CASE k \notin ends
      <4>1. seen[k] \in EmptyImages
        BY <3>1, <3>3
      <4>2. seen[k] = seen2[k]
        BY <1>4, <2>5, <3>1, <4>1
      <4>3. QED BY <2>6, <4>1, <4>2
    <3>4. QED BY <3>2, <3>3
  <2>7. n \in ends2
    BY <2>3, <2>4
  <2> HIDE DEF ends, ends2
  <2>8. Min(ends2) = n
    BY <2>1, <2>6, <2>7, MinIs
  <2>9. /\ w = Grouped(st, A(n).pool, samples, <<seen[n]>>)
        /\ x = Grouped(su, B(n).pool, samples, <<seen[n]>>)
    BY <1>2, <1>7, <2>4, <2>7, <2>8 DEF n
  <2>10. IsPool(A(n).pool) /\ IsPool(B(n).pool) /\ Alike(A(n).pool, B(n).pool)
    BY <1>3, <2>3
  <2>11. Together(w, x)
    <3>1. st.groups = su.groups
      BY DEF Same
    <3>2. /\ w.pool = A(n).pool /\ x.pool = B(n).pool /\ ~w.failed /\ ~x.failed
          /\ w.groups = x.groups /\ "failed" \in DOMAIN w
      BY <2>9, <3>1 DEF Grouped
    <3>3. QED BY <2>10, <3>2 DEF Together, Same
  <2>12. QED BY <2>11 DEF w, x
<1>8. QED BY <1>6, <1>7

\* One more sample of a batch, plain, mosaic or mixed up, is the same, or the batch fails.
LEMMA GroupAlike ==
    ASSUME NEW fault \in FaultyReads, WordsAreNumbers, NEW st, NEW su, Together(st, su), NEW step, NEW number
    PROVE  Together(Group(st, Source(fault), step, number), Group(su, Clean, step, number))
<1> DEFINE mosaic == step < MosaicSteps /\ Mosaic(number)
           m == IF mosaic THEN MosaicSize ELSE 1
           mixup == mosaic /\ Mixup(number)
           a == TakeSamples(st.pool, Source(fault), m)
           b == TakeSamples(su.pool, Clean, m)
           w == Group(st, Source(fault), step, number)
           x == Group(su, Clean, step, number)
<1>1. CASE st.failed
  <2>1. w = st
    BY <1>1 DEF Group
  <2>2. QED BY <1>1, <2>1 DEF Together
<1>2. CASE ~st.failed
  <2>1. Same(st, su) /\ "failed" \in DOMAIN st
    BY <1>2 DEF Together
  <2>2. w = Mixed(st, Source(fault), a, mixup) /\ x = Mixed(su, Clean, b, mixup)
    BY <1>2, <2>1 DEF Group, Same
  <2>3. m \in 1 .. MosaicSize /\ m \in 0 .. Window
    BY RunConstants DEF Window
  <2> HIDE DEF m, mixup, w, x
  <2>4. /\ IsPool(a.pool) /\ IsPool(b.pool) /\ Alike(a.pool, b.pool)
        /\ a.samples \in Seq(Int) /\ Len(a.samples) = m
        /\ b.samples \in Seq(Int) /\ Len(b.samples) = m
        /\ \A j \in 1 .. m : IsError(a.samples[j]) \/ a.samples[j] = b.samples[j]
    <3>1. IsPool(st.pool) /\ IsPool(su.pool) /\ Alike(st.pool, su.pool)
      BY <2>1 DEF Same
    <3>2. SampledAlike(a, b, m)
      BY <2>3, <3>1, SamplesAlike
    <3> HIDE DEF a, b
    <3>3. QED BY <3>2 DEF SampledAlike
  <2> HIDE DEF a, b
  <2>5. m \in Nat /\ DOMAIN a.samples = 1 .. m /\ DOMAIN b.samples = 1 .. m
    BY <2>3, <2>4, RunConstants
  <2>6. CASE \E k \in DOMAIN a.samples : IsError(a.samples[k])
    <3>1. w = Fails(st)
      BY <2>2, <2>6 DEF Mixed
    <3>2. Fails(st).failed /\ "failed" \in DOMAIN Fails(st)
      BY <2>1 DEF Fails
    <3>3. QED BY <3>1, <3>2 DEF Together, w
  <2>7. CASE ~\E k \in DOMAIN a.samples : IsError(a.samples[k])
    <3>1. a.samples = b.samples
      <4>1. \A k \in 1 .. m : a.samples[k] = b.samples[k]
        BY <2>4, <2>5, <2>7
      <4>2. a.samples \in Seq(Int) /\ b.samples \in Seq(Int) /\ Len(a.samples) = Len(b.samples)
            /\ Len(a.samples) = m
        BY <2>4
      <4>3. QED BY <4>1, <4>2, SameElements
    <3>2. CASE mixup /\ \E k \in DOMAIN a.samples : a.samples[k] \notin EmptyImages
      <4>1. /\ w = WithPartner(st, Source(fault), a.samples)
            /\ x = WithPartner(su, Clean, a.samples)
        BY <2>2, <2>7, <3>1, <3>2 DEF Mixed
      <4>2. Len(a.samples) \in 0 .. MosaicSize
        BY <2>3, <2>4
      <4>3. QED BY <2>1, <4>1, <4>2, PartnerAlike DEF w, x
    <3>3. CASE ~(mixup /\ \E k \in DOMAIN a.samples : a.samples[k] \notin EmptyImages)
      <4>1. /\ w = Grouped(st, a.pool, a.samples, <<>>)
            /\ x = Grouped(su, b.pool, a.samples, <<>>)
        BY <2>2, <2>7, <3>1, <3>3 DEF Mixed
      <4>2. st.groups = su.groups
        BY <2>1 DEF Same
      <4>3. /\ w.pool = a.pool /\ x.pool = b.pool /\ ~w.failed /\ ~x.failed
            /\ w.groups = x.groups /\ "failed" \in DOMAIN w
        BY <4>1, <4>2 DEF Grouped
      <4>4. QED BY <2>4, <4>3 DEF Together, Same, w, x
    <3>4. QED BY <3>2, <3>3
  <2>8. QED BY <2>6, <2>7
<1>3. QED BY <1>1, <1>2

\* So is a whole batch.
LEMMA GroupsAlike ==
    ASSUME NEW fault \in FaultyReads, WordsAreNumbers, NEW p, NEW q, IsPool(p), IsPool(q), Alike(p, q), NEW step
    PROVE  Together(Groups(p, Source(fault), step), Groups(q, Clean, step))
<1>1. PICK v : /\ v[0] = NoGroups(p) /\ Groups(p, Source(fault), step) = v[BatchSize]
               /\ \A k \in 1 .. BatchSize :
                     v[k] = Group(v[k - 1], Source(fault), step, step * BatchSize + k - 1)
  BY GroupsIterate
<1>2. PICK u : /\ u[0] = NoGroups(q) /\ Groups(q, Clean, step) = u[BatchSize]
               /\ \A k \in 1 .. BatchSize :
                     u[k] = Group(u[k - 1], Clean, step, step * BatchSize + k - 1)
  BY GroupsIterate
<1> DEFINE T == {k \in 0 .. BatchSize : Together(v[k], u[k])}
<1>3. BatchSize \in Nat
  BY RunConstants
<1>4. 0 \in T
  <2>1. Together(NoGroups(p), NoGroups(q))
    BY DEF NoGroups, Together, Same
  <2>2. QED BY <1>1, <1>2, <1>3, <2>1
<1>5. ASSUME NEW k \in 0 .. BatchSize - 1, k \in T PROVE k + 1 \in T
  <2>1. Together(v[k], u[k])
    BY <1>5
  <2>2. k + 1 \in 1 .. BatchSize /\ (k + 1) - 1 = k /\ k + 1 \in 0 .. BatchSize
    BY <1>3, <1>5
  <2>3. \E number : /\ v[k + 1] = Group(v[k], Source(fault), step, number)
                    /\ u[k + 1] = Group(u[k], Clean, step, number)
    BY <1>1, <1>2, <2>2
  <2>4. Together(v[k + 1], u[k + 1])
    BY <2>1, <2>3, GroupAlike
  <2>5. QED BY <2>2, <2>4
<1> HIDE DEF T
<1>6. BatchSize \in T
  BY <1>3, <1>4, <1>5, CountUp
<1>7. QED BY <1>1, <1>2, <1>6 DEF T

-----------------------------------------------------------------------------
\* The iterator of batches.

\* An iterator before batch k, at the place of the undisturbed one.
IsPlan(p) == DOMAIN p = {"pool", "remaining", "step"} /\ IsPool(p.pool)
OnCourse(p, k) ==
    LET q == Replay(Clean, k)
    IN  /\ IsPlan(p) /\ p.step = k
        /\ IsPlan(q) /\ q.step = k /\ q.remaining = TotalMicroSteps - k
        /\ Alike(p.pool, q.pool)

\* The next batch is the undisturbed one, or an error that ends the iterator.
LEMMA NextAlike ==
    ASSUME NEW fault \in FaultyReads, WordsAreNumbers, NEW k \in 0 .. TotalMicroSteps - 1,
           NEW p, OnCourse(p, k), p.remaining \in Nat \ {0}
    PROVE  LET n == NextBatch(p, Source(fault))
           IN  \/ n.result = <<>> /\ n.plan.remaining = 0 /\ n.plan.step = k
               \/ /\ n.result = CleanBatch(k) /\ n.result # <<>>
                  /\ n.result[1].size = StepSize(k)
                  /\ OnCourse(n.plan, k + 1) /\ n.plan.remaining = p.remaining - 1
<1> DEFINE q == Replay(Clean, k)
           g == Groups(p.pool, Source(fault), p.step)
           h == Groups(q.pool, Clean, q.step)
           n == NextBatch(p, Source(fault))
           o == NextBatch(q, Clean)
<1>1. /\ IsPlan(p) /\ p.step = k
      /\ IsPlan(q) /\ q.step = k /\ q.remaining = TotalMicroSteps - k
      /\ Alike(p.pool, q.pool)
  BY DEF OnCourse
<1>2. n = Planned(p, g) /\ o = Planned(q, h) /\ CleanBatch(k) = o.result
  BY DEF NextBatch, CleanBatch, Clean
<1>3. TotalMicroSteps \in Nat /\ k \in Nat /\ k + 1 \in 1 .. TotalMicroSteps /\ (k + 1) - 1 = k
      /\ TotalMicroSteps - k # 0
  BY RunConstants
<1>4. Replay(Clean, k + 1) = o.plan
  <2>1. Replay(Clean, k + 1) = Called(q, Clean)
    BY <1>3, ReplayIterates
  <2>2. q.remaining # 0
    BY <1>1, <1>3
  <2> HIDE DEF q
  <2>3. QED BY <2>1, <2>2 DEF Called
<1>5. Together(g, h)
  <2>1. IsPool(p.pool) /\ IsPool(q.pool)
    BY <1>1 DEF IsPlan
  <2> HIDE DEF q
  <2>2. QED BY <1>1, <2>1, GroupsAlike
<1> HIDE DEF n, o, g, h, q
<1>6. CASE g.failed
  <2>1. n = [plan |-> [p EXCEPT !.remaining = 0], result |-> <<>>]
    BY <1>2, <1>6 DEF Planned
  <2>2. [p EXCEPT !.remaining = 0].remaining = 0 /\ [p EXCEPT !.remaining = 0].step = k
    BY <1>1 DEF IsPlan
  <2>3. n.result = <<>> /\ n.plan.remaining = 0 /\ n.plan.step = k
    BY <2>1, <2>2
  <2>4. QED BY <2>3 DEF n
<1>7. CASE ~g.failed
  <2>1. Same(g, h)
    BY <1>5, <1>7 DEF Together
  <2>2. /\ n = [plan |-> [pool |-> g.pool, remaining |-> p.remaining - 1, step |-> k + 1],
                result |-> <<[groups |-> g.groups, size |-> StepSize(k)]>>]
        /\ o = [plan |-> [pool |-> h.pool, remaining |-> q.remaining - 1, step |-> k + 1],
                result |-> <<[groups |-> g.groups, size |-> StepSize(k)]>>]
    BY <1>1, <1>2, <2>1 DEF Planned, Same
  <2>3. n.result = o.result /\ n.result # <<>> /\ n.result[1].size = StepSize(k)
    BY <2>2
  <2>4. /\ n.plan = [pool |-> g.pool, remaining |-> p.remaining - 1, step |-> k + 1]
        /\ o.plan = [pool |-> h.pool, remaining |-> q.remaining - 1, step |-> k + 1]
    BY <2>2
  <2>5. q.remaining - 1 = TotalMicroSteps - (k + 1)
    BY <1>1, <1>3
  <2>6. OnCourse(n.plan, k + 1) /\ n.plan.remaining = p.remaining - 1
    <3>1. IsPlan(n.plan) /\ IsPlan(o.plan) /\ n.plan.step = k + 1 /\ o.plan.step = k + 1
          /\ o.plan.remaining = q.remaining - 1 /\ n.plan.pool = g.pool /\ o.plan.pool = h.pool
          /\ n.plan.remaining = p.remaining - 1
      BY <2>1, <2>4 DEF IsPlan, Same
    <3>2. QED BY <1>4, <2>1, <2>5, <3>1 DEF OnCourse, Same
  <2>7. QED BY <1>2, <2>3, <2>6 DEF n
<1>8. QED BY <1>6, <1>7

\* Replaying a prefix of the data reaches the undisturbed iterator, or stops short of it.
LEMMA ReplayAlike ==
    ASSUME NEW fault \in FaultyReads, WordsAreNumbers, NEW k \in 0 .. TotalMicroSteps
    PROVE  LET p == Replay(Source(fault), k)
           IN  \/ OnCourse(p, k) /\ p.remaining = TotalMicroSteps - k
               \/ p.step \in 0 .. k - 1 /\ p.remaining = 0
<1> DEFINE P(j) == Replay(Source(fault), j)
           T == {j \in 0 .. TotalMicroSteps :
                    \/ OnCourse(P(j), j) /\ P(j).remaining = TotalMicroSteps - j
                    \/ P(j).step \in 0 .. j - 1 /\ P(j).remaining = 0}
<1>1. TotalMicroSteps \in Nat
  BY RunConstants
<1>2. 0 \in T
  <2> DEFINE new == NewPlan(TotalMicroSteps)
  <2>1. P(0) = new /\ Replay(Clean, 0) = new
    BY ReplayIterates
  <2>2. IsPlan(new) /\ new.step = 0 /\ new.remaining = TotalMicroSteps - 0
    <3>1. NewPool(ShuffleBuffer) \in PoolRecords
      <4>1. <<>> \in Seq(Int)
        OBVIOUS
      <4>2. QED BY <4>1, RunConstants DEF NewPool, PoolRecords
    <3>2. QED BY <1>1, <3>1 DEF NewPlan, IsPlan, IsPool
  <2> HIDE DEF new, P
  <2>3. QED BY <1>1, <2>1, <2>2 DEF OnCourse, Alike
<1>3. ASSUME NEW j \in 0 .. TotalMicroSteps - 1, j \in T PROVE j + 1 \in T
  <2>1. j \in Nat /\ j + 1 \in 1 .. TotalMicroSteps /\ j + 1 \in 0 .. TotalMicroSteps /\ (j + 1) - 1 = j
    BY <1>1, <1>3
  <2>2. P(j + 1) = Called(P(j), Source(fault))
    BY <2>1, ReplayIterates
  <2>3. \/ OnCourse(P(j), j) /\ P(j).remaining = TotalMicroSteps - j
        \/ P(j).step \in 0 .. j - 1 /\ P(j).remaining = 0
    BY <1>3
  <2> HIDE DEF P
  <2>4. CASE OnCourse(P(j), j) /\ P(j).remaining = TotalMicroSteps - j
    <3> DEFINE n == NextBatch(P(j), Source(fault))
    <3>1. P(j).remaining \in Nat \ {0}
      BY <1>1, <1>3, <2>4
    <3>2. P(j + 1) = n.plan
      BY <2>2, <3>1 DEF Called
    <3> HIDE DEF n
    <3>3. \/ n.plan.remaining = 0 /\ n.plan.step = j
          \/ OnCourse(n.plan, j + 1) /\ n.plan.remaining = P(j).remaining - 1
      BY <1>3, <2>4, <3>1, NextAlike DEF n
    <3>4. j \in 0 .. (j + 1) - 1
      BY <2>1
    <3>5. P(j).remaining - 1 = TotalMicroSteps - (j + 1)
      BY <1>1, <2>1, <2>4
    <3>6. QED BY <2>1, <3>2, <3>3, <3>4, <3>5
  <2>5. CASE P(j).step \in 0 .. j - 1 /\ P(j).remaining = 0
    <3>1. P(j + 1) = P(j)
      BY <2>2, <2>5 DEF Called
    <3>2. P(j).step \in 0 .. (j + 1) - 1
      BY <2>1, <2>5
    <3>3. QED BY <2>1, <2>5, <3>1, <3>2
  <2>6. QED BY <2>3, <2>4, <2>5
<1> HIDE DEF T
<1>4. k \in T
  BY <1>1, <1>2, <1>3, CountUp
<1>5. QED BY <1>4 DEF T

-----------------------------------------------------------------------------
\* Counting steps.

\* Counting one more micro-step counts a step whenever the accumulation is complete.
LEMMA OneMore ==
    ASSUME NEW a \in Nat, NEW d \in Nat \ {0}
    PROVE  /\ a \div d \in Nat
           /\ (a + 1) \div d = (IF (a + 1) % d = 0 THEN (a \div d) + 1 ELSE a \div d)
           /\ a % d = 0 => (a \div d) * d = a
  OBVIOUS

\* Multiples of the accumulation.
LEMMA Multiples ==
    ASSUME NEW q \in Nat, NEW d \in Nat \ {0}
    PROVE  q * d \in Nat /\ (q * d) \div d = q /\ (q * d) % d = 0
  OBVIOUS

\* So many micro-steps are not more steps.
LEMMA NotMore ==
    ASSUME NEW a \in Nat, NEW d \in Nat \ {0}, NEW n \in Nat, a <= n * d
    PROVE  a \div d <= n /\ (a < n * d => a \div d < n)
  OBVIOUS

\* The order of multiples.
LEMMA MultipleOrder ==
    ASSUME NEW a \in Nat, NEW b \in Nat, NEW d \in Nat \ {0}
    PROVE  (a * d <= b * d) <=> (a <= b)
  OBVIOUS

\* The undisturbed run, one entry more.
LEMMA UndisturbedGrows ==
    ASSUME NEW n \in 0 .. TotalMicroSteps - 1
    PROVE  /\ UndisturbedTo(0) = <<>>
           /\ UndisturbedTo(n + 1) = Append(UndisturbedTo(n), Entry(CleanBatch(n)[1], n \div Accumulation))
<1> DEFINE e(k) == Entry(CleanBatch(k - 1)[1], (k - 1) \div Accumulation)
           S == {e(k) : k \in 1 .. TotalMicroSteps}
<1>1. TotalMicroSteps \in Nat /\ n \in Nat /\ n + 1 \in 1 .. TotalMicroSteps /\ (n + 1) - 1 = n
  BY RunConstants
<1>2. Undisturbed = [k \in 1 .. TotalMicroSteps |-> e(k)]
  BY DEF Undisturbed
<1>3. e(n + 1) = Entry(CleanBatch(n)[1], n \div Accumulation)
  BY <1>1
<1> HIDE DEF e
<1>4. Undisturbed \in Seq(S) /\ Len(Undisturbed) = TotalMicroSteps
      /\ \A k \in 1 .. TotalMicroSteps : Undisturbed[k] = e(k)
  BY <1>1, <1>2
<1> HIDE DEF S
<1>5. SubSeq(Undisturbed, 1, 0) = <<>>
  BY <1>4
<1>6. SubSeq(Undisturbed, 1, n + 1) = Append(SubSeq(Undisturbed, 1, n), Undisturbed[n + 1])
  BY <1>1, <1>4
<1>7. QED BY <1>1, <1>3, <1>4, <1>5, <1>6 DEF UndisturbedTo

-----------------------------------------------------------------------------
\* A run.

Batches == {<<>>} \cup {CleanBatch(k) : k \in 0 .. TotalMicroSteps - 1}

\* A prepared batch for step k.
IsBatchOf(b, k) == b = CleanBatch(k) /\ b # <<>> /\ b[1].size = StepSize(k)

\* The session has been trained on a prefix of the undisturbed run, and every
\* file holds such a session.
SessionInv ==
    /\ micro \in 0 .. TotalMicroSteps /\ completed = micro \div Accumulation
    /\ session = UndisturbedTo(micro)
DiskInv ==
    /\ DOMAIN disk = Files
    /\ \A f \in Files : disk[f] # NoFile =>
          /\ disk[f].completed \in 0 .. TotalSteps
          /\ disk[f].session = UndisturbedTo(disk[f].completed * Accumulation)

\* What lies in the queue are the next batches of the undisturbed run, an error
\* being the last; and the iterator is where they end, until it has none left.
QueueInv ==
    /\ queue \in Seq(Batches) /\ producing \in BOOLEAN
    /\ \A j \in 1 .. Len(queue) :
          IF queue[j] = <<>> THEN j = Len(queue) /\ ~producing
          ELSE IsBatchOf(queue[j], micro + j - 1) /\ micro + j <= run.expected
    /\ IF producing
       THEN /\ OnCourse(plan, micro + Len(queue))
            /\ plan.remaining = run.expected - (micro + Len(queue)) /\ plan.remaining \in Nat
       ELSE (Len(queue) > 0 /\ queue[Len(queue)] = <<>>) \/ micro + Len(queue) = run.expected
ActiveInv ==
    /\ run.expected \in 0 .. TotalMicroSteps /\ micro <= run.expected
    /\ run.expected % Accumulation = 0
    /\ \A s \in micro .. run.expected - 1 : StepSize(s) \in run.variants
    /\ phase # "training" => micro % Accumulation = 0
    /\ QueueInv
TrainingInv ==
    /\ SessionInv /\ DiskInv
    /\ phase # "down" => ActiveInv
    /\ run.fault \in FaultyReads /\ reason \notin {"panic", "count"}

\* The program has not been started.
LEMMA TrainingStarts == RunInit => TrainingInv
<1> SUFFICES ASSUME RunInit PROVE TrainingInv
  OBVIOUS
<1>1. 0 \div Accumulation = 0 /\ TotalMicroSteps \in Nat \ {0}
  BY RunConstants
<1>2. UndisturbedTo(0) = <<>>
  <2>1. 0 \in 0 .. TotalMicroSteps - 1
    BY <1>1
  <2>2. QED BY <2>1, UndisturbedGrows
<1>3. SessionInv
  BY <1>1, <1>2 DEF RunInit, SessionInv
<1>4. DiskInv
  BY DEF RunInit, DiskInv
<1>5. run.fault \in FaultyReads /\ reason \notin {"panic", "count"} /\ phase = "down"
  BY DEF RunInit, NoRun, FaultyReads
<1>6. QED BY <1>3, <1>4, <1>5 DEF TrainingInv

\* A run begins at the snapshot's place in the undisturbed run, or ends at once.
LEMMA StartKeeps ==
    ASSUME WordsAreNumbers, TrainingInv, Start
    PROVE  TrainingInv'
<1>1. PICK from \in Snapshots \union {NoFile}, output \in Outputs, limit \in RunLimits,
           fault \in FailingReads \union {NoFault} : Begin(from, output, limit, fault)
  BY DEF Start
<1> DEFINE resumedAt == IF from = NoFile THEN 0 ELSE disk[from].completed
           first == resumedAt * Accumulation
           replayed == Replay(Source(fault), first)
           remaining == Min({replayed.remaining, limit * Accumulation})
<1>2. BeginAt(from, output, limit, fault, resumedAt, replayed)
  BY <1>1 DEF Begin
<1>3. /\ resumedAt \in 0 .. TotalSteps
      /\ (IF from = NoFile THEN <<>> ELSE disk[from].session) = UndisturbedTo(first)
  <2>1. CASE from = NoFile
    <3>1. 0 \in 0 .. TotalMicroSteps - 1 /\ 0 * Accumulation = 0 /\ TotalSteps \in Nat
      BY RunConstants
    <3>2. UndisturbedTo(0) = <<>>
      BY <3>1, UndisturbedGrows
    <3>3. QED BY <2>1, <3>1, <3>2
  <2>2. CASE from # NoFile
    <3>1. from \in Files /\ disk[from] # NoFile
      BY <2>2 DEF Snapshots
    <3>2. QED BY <2>2, <3>1 DEF TrainingInv, DiskInv
  <2>3. QED BY <2>1, <2>2
<1>4. fault \in FaultyReads
  BY RunConstants DEF FaultyReads
<1>5. /\ first \in 0 .. TotalMicroSteps /\ first \in Nat /\ first \div Accumulation = resumedAt
      /\ TotalMicroSteps \in Nat /\ TotalMicroSteps - first = (TotalSteps - resumedAt) * Accumulation
      /\ TotalSteps - resumedAt \in Nat /\ limit \in Nat
  <2>1. TotalSteps \in Nat /\ Accumulation \in Nat \ {0} /\ resumedAt \in Nat /\ resumedAt <= TotalSteps
    BY <1>3, RunConstants
  <2>2. TotalMicroSteps = TotalSteps * Accumulation
    BY DEF TotalMicroSteps
  <2>3. limit \in Nat
    BY RunConstants
  <2> HIDE DEF resumedAt
  <2>4. first \in Nat /\ first <= TotalMicroSteps /\ first \div Accumulation = resumedAt
    BY <2>1, <2>2, Multiples, MultipleOrder
  <2>5. TotalMicroSteps \in Nat /\ TotalMicroSteps - first = (TotalSteps - resumedAt) * Accumulation
    BY <2>1, <2>2
  <2> HIDE DEF first
  <2>6. QED BY <2>1, <2>3, <2>4, <2>5
<1>6. \/ OnCourse(replayed, first) /\ replayed.remaining = TotalMicroSteps - first
      \/ replayed.step \in 0 .. first - 1 /\ replayed.remaining = 0
  <2> HIDE DEF first
  <2>1. QED BY <1>4, <1>5, ReplayAlike
<1>7. /\ run' = [resumedAt |-> resumedAt, fault |-> fault, output |-> output,
                 expected |-> first + remaining, variants |-> ActiveSizes(first, remaining)]
      /\ IF first > 0 /\ replayed.step # first
         THEN /\ phase' = "down" /\ reason' = "data"
              /\ UNCHANGED <<plan, producing, current, session, completed, micro>>
         ELSE /\ phase' = "training" /\ reason' = "none"
              /\ plan' = [replayed EXCEPT !.remaining = remaining]
              /\ producing' = TRUE
              /\ session' = IF from = NoFile THEN <<>> ELSE disk[from].session
              /\ completed' = resumedAt
              /\ micro' = first
      /\ queue' = <<>>
      /\ UNCHANGED disk
  BY <1>2 DEF BeginAt
<1> HIDE DEF replayed, remaining, first, resumedAt
<1>8. DiskInv'
  <2>1. disk' = disk /\ DiskInv
    BY <1>7 DEF TrainingInv
  <2>2. QED BY <2>1 DEF DiskInv
<1>9. run'.fault \in FaultyReads /\ run'.expected = first + remaining /\ run'.variants = ActiveSizes(first, remaining)
  BY <1>4, <1>7
<1>10. CASE first > 0 /\ replayed.step # first
  <2>1. /\ phase' = "down" /\ reason' = "data"
        /\ UNCHANGED <<session, completed, micro>>
    BY <1>7, <1>10
  <2>2. SessionInv'
    BY <2>1 DEF TrainingInv, SessionInv
  <2>3. QED BY <1>8, <1>9, <2>1, <2>2 DEF TrainingInv
<1>11. CASE ~(first > 0 /\ replayed.step # first)
  <2>1. OnCourse(replayed, first) /\ replayed.remaining = TotalMicroSteps - first
    BY <1>5, <1>6, <1>11
  <2>2. /\ phase' = "training" /\ reason' = "none"
        /\ plan' = [replayed EXCEPT !.remaining = remaining]
        /\ producing' = TRUE
        /\ session' = UndisturbedTo(first)
        /\ completed' = resumedAt
        /\ micro' = first /\ queue' = <<>>
    BY <1>3, <1>7, <1>11
  <2>3. /\ remaining \in Nat /\ first + remaining \in 0 .. TotalMicroSteps
        /\ (first + remaining) % Accumulation = 0
    <3> DEFINE a == TotalSteps - resumedAt
               S == {a * Accumulation, limit * Accumulation}
    <3>1. remaining = Min(S)
      BY <1>5, <2>1 DEF remaining
    <3>2. Accumulation \in Nat \ {0} /\ a \in Nat /\ limit \in Nat
          /\ a * Accumulation \in Nat /\ limit * Accumulation \in Nat
      BY <1>5, Multiples, RunConstants
    <3>3. Min(S) \in S /\ Min(S) <= a * Accumulation
      BY <3>2, MinExists
    <3>4. PICK m \in Nat : Min(S) = m * Accumulation
      BY <3>2, <3>3
    <3>5. resumedAt \in Nat /\ resumedAt + m \in Nat
      BY <1>3
    <3>6. first + m * Accumulation = (resumedAt + m) * Accumulation
      BY <3>2, <3>5 DEF first
    <3>7. (first + remaining) % Accumulation = 0 /\ remaining \in Nat
      BY <3>1, <3>2, <3>4, <3>5, <3>6, Multiples
    <3>8. a * Accumulation = TotalMicroSteps - first
      BY <1>5
    <3> HIDE DEF a, S
    <3>9. remaining <= TotalMicroSteps - first
      BY <3>1, <3>3, <3>8
    <3>10. QED BY <1>5, <3>7, <3>9
  <2>4. SessionInv'
    BY <1>5, <2>2 DEF SessionInv
  <2>5. ActiveInv'
    <3>1. QueueInv'
      <4>1. OnCourse(plan', first) /\ plan'.remaining = remaining
        BY <2>1, <2>2 DEF OnCourse, IsPlan
      <4>2. Len(queue') = 0 /\ queue' \in Seq(Batches) /\ 1 .. 0 = {} /\ first + 0 = first
            /\ (first + remaining) - first = remaining
        BY <1>5, <2>2, <2>3
      <4>3. OnCourse(plan, micro + Len(queue))'
        BY <2>2, <4>1, <4>2 DEF OnCourse, IsPlan
      <4>4. QED BY <1>9, <2>2, <2>3, <4>1, <4>2, <4>3 DEF QueueInv
    <3>2. \A s \in first .. (first + remaining) - 1 : StepSize(s) \in ActiveSizes(first, remaining)
      <4>1. ASSUME NEW s \in first .. (first + remaining) - 1 PROVE remaining > 0
        BY <1>5, <2>3
      <4>2. ASSUME remaining > 0
            PROVE  ActiveSizes(first, remaining) = {StepSize(s) : s \in first .. (first + remaining) - 1}
        <5> DEFINE D == IF remaining > 0 THEN first .. first + remaining - 1 ELSE {TotalMicroSteps - 1}
        <5>1. ActiveSizes(first, remaining) = {StepSize(s) : s \in D}
          BY DEF ActiveSizes
        <5>2. D = first .. (first + remaining) - 1
          <6>1. first + remaining - 1 = (first + remaining) - 1
            BY <1>5, <2>3
          <6>2. QED BY <4>2, <6>1
        <5>3. QED BY <5>1, <5>2
      <4>3. QED BY <4>1, <4>2
    <3>3. first <= first + remaining
      BY <1>5, <2>3
    <3>4. QED BY <1>9, <2>2, <2>3, <3>1, <3>2, <3>3 DEF ActiveInv, StepSize
  <2>6. QED BY <1>8, <1>9, <2>2, <2>4, <2>5 DEF TrainingInv
<1>12. QED BY <1>10, <1>11

\* The constants and the counters are numbers.
LEMMA RunCounts ==
    ASSUME TrainingInv
    PROVE  /\ micro \in Nat /\ Accumulation \in Nat \ {0} /\ TotalMicroSteps \in Nat /\ TotalSteps \in Nat
           /\ completed \in 0 .. TotalSteps
           /\ micro % Accumulation = 0 => completed * Accumulation = micro
           /\ phase # "down" => run.expected \in Nat /\ run.expected <= TotalMicroSteps /\ Len(queue) \in Nat
<1>1. /\ micro \in Nat /\ micro <= TotalSteps * Accumulation /\ completed = micro \div Accumulation
      /\ Accumulation \in Nat \ {0} /\ TotalMicroSteps \in Nat /\ TotalSteps \in Nat
  BY RunConstants DEF TrainingInv, SessionInv, TotalMicroSteps
<1>2. completed \in 0 .. TotalSteps /\ (micro % Accumulation = 0 => completed * Accumulation = micro)
  BY <1>1, OneMore, NotMore
<1>3. phase # "down" => run.expected \in Nat /\ run.expected <= TotalMicroSteps /\ Len(queue) \in Nat
  BY <1>1 DEF TrainingInv, ActiveInv, QueueInv
<1>4. QED BY <1>1, <1>2, <1>3

\* The source worker adds the next batch, or an error after which it is gone.
LEMMA ProduceKeeps ==
    ASSUME WordsAreNumbers, TrainingInv, Produce
    PROVE  TrainingInv'
<1>1. /\ phase # "down" /\ producing
      /\ IF plan.remaining = 0
         THEN producing' = FALSE /\ UNCHANGED <<plan, queue>>
         ELSE Prepared(NextBatch(plan, Source(run.fault)))
      /\ UNCHANGED <<disk, runs, phase, reason, run, current, session, completed, micro>>
  BY DEF Produce
<1> DEFINE l == Len(queue)
           k == micro + l
           n == NextBatch(plan, Source(run.fault))
<1>2. /\ ActiveInv /\ queue \in Seq(Batches) /\ run.fault \in FaultyReads
      /\ OnCourse(plan, k) /\ plan.remaining = run.expected - k /\ plan.remaining \in Nat
      /\ \A j \in 1 .. l : IsBatchOf(queue[j], micro + j - 1) /\ micro + j <= run.expected
  BY <1>1 DEF TrainingInv, ActiveInv, QueueInv
<1>3. micro \in Nat /\ l \in Nat /\ k \in Nat /\ run.expected \in Nat /\ run.expected <= TotalMicroSteps
      /\ TotalMicroSteps \in Nat
  BY <1>1, RunCounts
<1>4. SessionInv' /\ DiskInv' /\ run'.fault \in FaultyReads /\ reason' \notin {"panic", "count"}
  BY <1>1, <1>2 DEF TrainingInv, SessionInv, DiskInv
<1>5. ASSUME QueueInv' PROVE TrainingInv'
  <2>1. ActiveInv'
    BY <1>1, <1>2, <1>5 DEF ActiveInv, StepSize
  <2>2. QED BY <1>1, <1>4, <2>1 DEF TrainingInv
<1>6. CASE plan.remaining = 0
  <2>1. producing' = FALSE /\ plan' = plan /\ queue' = queue /\ micro' = micro /\ run' = run
    BY <1>1, <1>6
  <2>2. micro + Len(queue) = run.expected
    <3> HIDE DEF k
    <3>1. run.expected - k = 0
      BY <1>2, <1>6
    <3>2. run.expected = k
      BY <1>3, <3>1
    <3>3. QED BY <3>2 DEF k
  <2>3. \A j \in 1 .. l : queue[j] # <<>>
    BY <1>2 DEF IsBatchOf
  <2>4. QueueInv'
    BY <1>2, <2>1, <2>2, <2>3 DEF QueueInv, IsBatchOf
  <2>5. QED BY <1>5, <2>4
<1>7. CASE plan.remaining # 0
  <2>1. /\ plan' = n.plan /\ queue' = Append(queue, n.result) /\ producing' = (n.result # <<>>)
        /\ micro' = micro /\ run' = run
    BY <1>1, <1>7 DEF Prepared
  <2>2. k \in 0 .. TotalMicroSteps - 1 /\ k + 1 <= run.expected /\ plan.remaining \in Nat \ {0}
    BY <1>2, <1>3, <1>7
  <2> HIDE DEF n, k
  <2>3. \/ n.result = <<>> /\ n.plan.remaining = 0 /\ n.plan.step = k
        \/ /\ n.result = CleanBatch(k) /\ n.result # <<>>
           /\ n.result[1].size = StepSize(k)
           /\ OnCourse(n.plan, k + 1) /\ n.plan.remaining = plan.remaining - 1
    BY <1>2, <2>2, NextAlike DEF n
  <2>4. n.result \in Batches
    BY <2>2, <2>3 DEF Batches
  <2>5. /\ queue' \in Seq(Batches) /\ Len(queue') = l + 1 /\ queue'[l + 1] = n.result
        /\ \A j \in 1 .. l : queue'[j] = queue[j]
    BY <1>2, <2>1, <2>4
  <2>6. \A j \in 1 .. l + 1 : j \in 1 .. l \/ j = l + 1
    BY <1>3
  <2>7. \A j \in 1 .. l : queue[j] # <<>>
    BY <1>2 DEF IsBatchOf
  <2>8. CASE n.result = <<>>
    <3>1. producing' = FALSE
      BY <2>1, <2>8
    <3>2. \A j \in 1 .. Len(queue') :
             IF queue'[j] = <<>> THEN j = Len(queue') /\ ~producing'
             ELSE IsBatchOf(queue'[j], micro + j - 1) /\ micro + j <= run.expected
      BY <1>2, <2>5, <2>6, <2>7, <2>8, <3>1
    <3>3. Len(queue') > 0 /\ queue'[Len(queue')] = <<>>
      BY <1>3, <2>5, <2>8
    <3>4. QueueInv'
      BY <2>1, <2>5, <3>1, <3>2, <3>3 DEF QueueInv, IsBatchOf
    <3>5. QED BY <1>5, <3>4
  <2>9. CASE n.result # <<>>
    <3>1. producing' = TRUE /\ OnCourse(n.plan, k + 1) /\ n.plan.remaining = plan.remaining - 1
      BY <2>1, <2>3, <2>9
    <3>2. micro + (l + 1) - 1 = k /\ micro + (l + 1) = k + 1 /\ plan.remaining - 1 = run.expected - (k + 1)
          /\ plan.remaining - 1 \in Nat
      BY <1>2, <1>3, <2>2 DEF k
    <3>3. IsBatchOf(n.result, k)
      BY <2>3, <2>9 DEF IsBatchOf
    <3>4. \A j \in 1 .. Len(queue') :
             queue'[j] # <<>> /\ IsBatchOf(queue'[j], micro + j - 1) /\ micro + j <= run.expected
      BY <1>2, <2>2, <2>5, <2>6, <2>7, <2>9, <3>2, <3>3
    <3>5. OnCourse(plan, micro + Len(queue))'
      BY <2>1, <2>5, <3>1, <3>2 DEF OnCourse, IsPlan
    <3>6. QueueInv'
      BY <2>1, <2>5, <3>1, <3>2, <3>4, <3>5 DEF QueueInv, IsBatchOf
    <3>7. QED BY <1>5, <3>6
  <2>10. QED BY <2>8, <2>9
<1>8. QED BY <1>6, <1>7

\* Publishing what the session holds, after a full step, or failing to.
LEMMA PublishKeeps ==
    ASSUME TrainingInv, NEW file, NEW to, phase # "down", micro % Accumulation = 0, Publish(file, to),
           UNCHANGED <<runs, run, plan, queue, producing, current, session, completed, micro>>
    PROVE  TrainingInv'
<1>1. completed \in 0 .. TotalSteps /\ completed * Accumulation = micro
  BY RunCounts
<1>2. ActiveInv /\ SessionInv /\ DiskInv /\ run.fault \in FaultyReads /\ reason \notin {"panic", "count"}
  BY DEF TrainingInv
<1>3. ActiveInv'
  <2>1. micro' % Accumulation = 0
    OBVIOUS
  <2>2. QueueInv'
    BY <1>2 DEF ActiveInv, QueueInv, OnCourse, IsPlan, IsBatchOf
  <2>3. QED BY <1>2, <2>1, <2>2 DEF ActiveInv, StepSize
<1>4. SessionInv' /\ run'.fault \in FaultyReads
  BY <1>2 DEF SessionInv
<1>5. reason' \in {reason, "exists"}
  BY DEF Publish
<1>6. DiskInv'
  <2>1. CASE disk' = disk
    BY <1>2, <2>1 DEF DiskInv
  <2>2. CASE disk' = [disk EXCEPT ![file] = [session |-> session, completed |-> completed]]
    <3>1. DOMAIN disk' = Files
      BY <1>2, <2>2 DEF DiskInv
    <3>2. ASSUME NEW f \in Files, disk'[f] # NoFile
          PROVE  /\ disk'[f].completed \in 0 .. TotalSteps
                 /\ disk'[f].session = UndisturbedTo(disk'[f].completed * Accumulation)
      <4>1. CASE f = file
        <5>1. disk'[f] = [session |-> session, completed |-> completed]
          BY <1>2, <2>2, <4>1 DEF DiskInv
        <5>2. disk'[f].session = session /\ disk'[f].completed = completed
          BY <5>1
        <5>3. session = UndisturbedTo(micro)
          BY <1>2 DEF SessionInv
        <5>4. QED BY <1>1, <5>2, <5>3
      <4>2. CASE f # file
        <5>1. disk'[f] = disk[f]
          BY <1>2, <2>2, <4>2 DEF DiskInv
        <5>2. QED BY <1>2, <3>2, <5>1 DEF DiskInv
      <4>3. QED BY <4>1, <4>2
    <3>3. QED BY <3>1, <3>2 DEF DiskInv
  <2>3. QED BY <2>1, <2>2 DEF Publish
<1>7. QED BY <1>2, <1>3, <1>4, <1>5, <1>6 DEF TrainingInv

\* A turn of the loop trains on the next batch of the undisturbed run, at its
\* learning rate and with its losses, or ends the program.
LEMMA TrainKeeps ==
    ASSUME TrainingInv, Train
    PROVE  TrainingInv'
<1> DEFINE b == Head(queue)
           stepped == (micro + 1) % Accumulation = 0
           done == Done(stepped)
<1>1. /\ phase = "training" /\ queue # <<>> /\ queue' = Tail(queue)
      /\ UNCHANGED <<disk, runs, run, plan, producing>>
      /\ IF b = <<>>
         THEN /\ phase' = "down" /\ reason' = "data"
              /\ UNCHANGED <<current, session, completed, micro>>
         ELSE IF b[1].size \notin run.variants
         THEN /\ phase' = "down" /\ reason' = "panic"
              /\ UNCHANGED <<current, session, completed, micro>>
         ELSE /\ session' = Append(session,
                    [groups |-> b[1].groups, size |-> b[1].size, rate |-> StepRate, l1 |-> UseL1])
              /\ micro' = micro + 1
              /\ completed' = done
              /\ phase' = (IF Due(done, stepped) THEN "snapshot" ELSE phase)
              /\ UNCHANGED reason
  BY DEF Train
<1>2. /\ SessionInv /\ DiskInv /\ ActiveInv /\ QueueInv /\ run.fault \in FaultyReads
      /\ reason \notin {"panic", "count"}
  BY <1>1 DEF TrainingInv, ActiveInv
<1>3. /\ micro \in Nat /\ Accumulation \in Nat \ {0} /\ TotalMicroSteps \in Nat /\ TotalSteps \in Nat
      /\ completed \in 0 .. TotalSteps /\ completed = micro \div Accumulation
      /\ run.expected \in Nat /\ run.expected <= TotalMicroSteps
  BY <1>1, <1>2, RunCounts DEF SessionInv
<1>4. DiskInv' /\ run'.fault \in FaultyReads
  BY <1>1, <1>2 DEF DiskInv
<1>5. /\ queue \in Seq(Batches) /\ Len(queue) \in Nat \ {0} /\ b = queue[1]
      /\ Tail(queue) \in Seq(Batches) /\ Len(Tail(queue)) = Len(queue) - 1
      /\ \A j \in 1 .. Len(queue) - 1 : Tail(queue)[j] = queue[j + 1]
  BY <1>1, <1>2 DEF QueueInv
<1> HIDE DEF b
<1>6. CASE b = <<>>
  <2>1. /\ phase' = "down" /\ reason' = "data"
        /\ UNCHANGED <<session, completed, micro>>
    BY <1>1, <1>6
  <2>2. QED BY <1>2, <1>4, <2>1 DEF TrainingInv, SessionInv
<1>7. CASE b # <<>>
  <2>1. IsBatchOf(b, micro + 1 - 1) /\ micro + 1 <= run.expected
    <3>1. 1 \in 1 .. Len(queue)
      BY <1>5
    <3>2. queue[1] # <<>>
      BY <1>5, <1>7
    <3>3. QED BY <1>2, <1>5, <3>1, <3>2 DEF QueueInv
  <2>2. micro + 1 - 1 = micro /\ micro \in 0 .. TotalMicroSteps - 1 /\ micro \in micro .. run.expected - 1
        /\ micro + 1 \in 0 .. TotalMicroSteps
    BY <1>3, <2>1
  <2>3. b = CleanBatch(micro) /\ b[1].size = StepSize(micro)
    BY <2>1, <2>2 DEF IsBatchOf
  <2>4. b[1].size \in run.variants
    BY <1>2, <2>2, <2>3 DEF ActiveInv
  <2>5. /\ session' = Append(session,
               [groups |-> b[1].groups, size |-> b[1].size, rate |-> StepRate, l1 |-> UseL1])
        /\ micro' = micro + 1 /\ completed' = done
        /\ phase' = (IF Due(done, stepped) THEN "snapshot" ELSE phase)
        /\ reason' = reason
    BY <1>1, <1>7, <2>4
  <2>6. completed' = micro' \div Accumulation
    <3>1. (micro + 1) \div Accumulation =
             (IF (micro + 1) % Accumulation = 0 THEN (micro \div Accumulation) + 1 ELSE micro \div Accumulation)
      BY <1>3, OneMore
    <3>2. QED BY <1>3, <2>5, <3>1 DEF Done
  <2>7. UseL1 = (micro \div Accumulation \in TotalSteps - NoAugmentationSteps .. TotalSteps - 1)
    <3>1. completed < TotalSteps
      <4>1. micro < TotalSteps * Accumulation
        BY <1>3, <2>2 DEF TotalMicroSteps
      <4>2. QED BY <1>3, <4>1, NotMore
    <3>2. NoAugmentationSteps \in 0 .. TotalSteps /\ completed \in Nat
      BY <1>3, RunConstants
    <3>3. UseL1 = (completed \in TotalSteps - NoAugmentationSteps .. TotalSteps - 1)
      BY <1>3, <3>1, <3>2 DEF UseL1
    <3>4. QED BY <1>3, <3>3
  <2>8. session' = UndisturbedTo(micro')
    <3>1. UndisturbedTo(micro + 1) = Append(UndisturbedTo(micro), Entry(CleanBatch(micro)[1], micro \div Accumulation))
      BY <2>2, UndisturbedGrows
    <3>2. Entry(CleanBatch(micro)[1], micro \div Accumulation)
             = [groups |-> b[1].groups, size |-> b[1].size, rate |-> StepRate, l1 |-> UseL1]
      BY <1>3, <2>3, <2>7 DEF Entry, StepRate
    <3>3. session = UndisturbedTo(micro)
      BY <1>2 DEF SessionInv
    <3>4. QED BY <2>5, <3>1, <3>2, <3>3
  <2>9. SessionInv'
    BY <2>2, <2>5, <2>6, <2>8 DEF SessionInv
  <2>10. QueueInv'
    <3>1. /\ queue' = Tail(queue) /\ run' = run /\ plan' = plan /\ producing' = producing
          /\ micro' = micro + 1
      BY <1>1, <2>5
    <3> DEFINE l == Len(queue)
    <3>10. l \in Nat \ {0} /\ Len(queue') = l - 1 /\ queue' \in Seq(Batches)
           /\ \A j \in 1 .. l - 1 : queue'[j] = queue[j + 1]
      BY <1>5, <3>1
    <3>11. ASSUME NEW m \in Nat, NEW n \in Nat \ {0}
           PROVE  /\ (m + 1) + (n - 1) = m + n
                  /\ \A j \in 1 .. n - 1 : /\ j + 1 \in 1 .. n /\ (m + 1) + j - 1 = m + (j + 1) - 1
                                            /\ (m + 1) + j = m + (j + 1) /\ (j + 1 = n => j = n - 1)
      OBVIOUS
    <3> HIDE DEF l
    <3>12. /\ (micro + 1) + (l - 1) = micro + l
           /\ \A j \in 1 .. l - 1 : /\ j + 1 \in 1 .. l /\ (micro + 1) + j - 1 = micro + (j + 1) - 1
                                     /\ (micro + 1) + j = micro + (j + 1) /\ (j + 1 = l => j = l - 1)
      BY <1>3, <3>10, <3>11
    <3>2. l \in Nat \ {0} /\ Len(queue') = l - 1 /\ queue' \in Seq(Batches)
          /\ \A j \in 1 .. l - 1 : queue'[j] = queue[j + 1] /\ j + 1 \in 1 .. l
                                   /\ micro' + j - 1 = micro + (j + 1) - 1 /\ micro' + j = micro + (j + 1)
                                   /\ (j + 1 = l => j = l - 1)
      BY <3>1, <3>10, <3>12
    <3>3. micro' + (l - 1) = micro + l
      BY <3>1, <3>12
    <3> USE DEF l
    <3>4. \A j \in 1 .. l - 1 :
             IF queue'[j] = <<>> THEN j = l - 1 /\ ~producing
             ELSE IsBatchOf(queue'[j], micro' + j - 1) /\ micro' + j <= run.expected
      <4> SUFFICES ASSUME NEW j \in 1 .. l - 1
                   PROVE  IF queue'[j] = <<>> THEN j = l - 1 /\ ~producing
                          ELSE IsBatchOf(queue'[j], micro' + j - 1) /\ micro' + j <= run.expected
        OBVIOUS
      <4>1. /\ queue'[j] = queue[j + 1] /\ j + 1 \in 1 .. l
            /\ micro' + j - 1 = micro + (j + 1) - 1 /\ micro' + j = micro + (j + 1)
            /\ (j + 1 = l => j = l - 1)
        BY <3>2
      <4>2. IF queue[j + 1] = <<>> THEN j + 1 = l /\ ~producing
            ELSE IsBatchOf(queue[j + 1], micro + (j + 1) - 1) /\ micro + (j + 1) <= run.expected
        BY <1>2, <4>1 DEF QueueInv
      <4>3. QED BY <4>1, <4>2
    <3>5. ASSUME ~producing
          PROVE  (l - 1 > 0 /\ queue'[l - 1] = <<>>) \/ micro' + (l - 1) = run.expected
      <4>1. (l > 0 /\ queue[l] = <<>>) \/ micro + l = run.expected
        BY <1>2, <3>5 DEF QueueInv
      <4>2. CASE micro + l = run.expected
        BY <3>3, <4>2
      <4>3. CASE queue[l] = <<>>
        <5>1. l # 1
          BY <1>5, <1>7, <4>3
        <5>2. l - 1 \in 1 .. l - 1 /\ (l - 1) + 1 = l /\ l - 1 > 0
          BY <3>2, <5>1
        <5>3. queue'[l - 1] = queue[l]
          BY <3>2, <5>2
        <5>4. QED BY <4>3, <5>2, <5>3
      <4>4. QED BY <4>1, <4>2, <4>3
    <3>6. ASSUME producing
          PROVE  /\ OnCourse(plan, micro' + (l - 1))
                 /\ plan.remaining = run.expected - (micro' + (l - 1)) /\ plan.remaining \in Nat
      BY <1>2, <3>3, <3>6 DEF QueueInv
    <3>7. producing \in BOOLEAN
      BY <1>2 DEF QueueInv
    <3> HIDE DEF l
    <3>8. ASSUME producing' PROVE OnCourse(plan, micro + Len(queue))'
      BY <3>1, <3>2, <3>6, <3>8 DEF OnCourse, IsPlan
    <3>9. QED BY <3>1, <3>2, <3>4, <3>5, <3>6, <3>7, <3>8 DEF QueueInv, IsBatchOf
  <2>11. ActiveInv'
    <3>1. run' = run /\ micro' = micro + 1
      BY <1>1, <2>5
    <3>2. \A s \in micro + 1 .. run.expected - 1 : s \in micro .. run.expected - 1
      BY <1>3
    <3>3. phase' # "training" => micro' % Accumulation = 0
      BY <1>1, <2>5 DEF Due
    <3>4. QED BY <1>2, <2>1, <2>10, <3>1, <3>2, <3>3 DEF ActiveInv, StepSize
  <2>12. QED BY <1>2, <1>4, <2>5, <2>9, <2>11 DEF TrainingInv
<1>8. QED BY <1>6, <1>7

\* Nothing the training data, the session or the files are made of changes.
LEMMA StillTraining ==
    ASSUME TrainingInv, phase # "down", phase' = "down" \/ micro % Accumulation = 0,
           reason' \notin {"panic", "count"},
           UNCHANGED <<disk, runs, run, plan, queue, producing, current, session, completed, micro>>
    PROVE  TrainingInv'
<1>1. ActiveInv /\ SessionInv /\ DiskInv /\ run.fault \in FaultyReads
  BY DEF TrainingInv
<1>2. SessionInv' /\ DiskInv' /\ run'.fault \in FaultyReads
  BY <1>1 DEF SessionInv, DiskInv
<1>3. QueueInv'
  BY <1>1 DEF ActiveInv, QueueInv, OnCourse, IsPlan, IsBatchOf
<1>4. phase' # "down" => ActiveInv'
  BY <1>1, <1>3 DEF ActiveInv, StepSize
<1>5. QED BY <1>2, <1>4 DEF TrainingInv

\* Every step of the program keeps the invariant.
LEMMA TrainingSteps ==
    ASSUME WordsAreNumbers, TrainingInv, [RunNext]_runVars
    PROVE  TrainingInv'
<1>1. CASE Start
  BY <1>1, StartKeeps
<1>2. CASE Produce
  BY <1>2, ProduceKeeps
<1>3. CASE Train
  BY <1>3, TrainKeeps
<1>4. CASE SavePeriodic
  <2>1. phase = "snapshot" /\ micro % Accumulation = 0
    BY <1>4 DEF SavePeriodic, TrainingInv, ActiveInv
  <2>2. QED BY <1>4, <2>1, PublishKeeps DEF SavePeriodic
<1>5. CASE Finish
  <2>1. /\ phase = "training" /\ queue = <<>> /\ ~producing
        /\ UNCHANGED <<disk, runs, run, plan, queue, producing, current, session, completed, micro>>
    BY <1>5 DEF Finish
  <2>2. ActiveInv /\ SessionInv
    BY <2>1 DEF TrainingInv
  <2>3. micro = run.expected
    <3>1. Len(queue) = 0 /\ micro + 0 = micro
      BY <2>1, RunCounts
    <3>2. QED BY <2>1, <2>2, <3>1 DEF ActiveInv, QueueInv
  <2>4. completed = run.expected \div Accumulation /\ micro % Accumulation = 0
    BY <2>2, <2>3 DEF SessionInv, ActiveInv
  <2>5. phase' = "saving model" /\ reason' = reason
    BY <1>5, <2>3, <2>4 DEF Finish
  <2>6. reason \notin {"panic", "count"}
    BY DEF TrainingInv
  <2>7. QED BY <2>1, <2>4, <2>5, <2>6, StillTraining
<1>6. CASE SaveModel
  <2>1. phase = "saving model" /\ micro % Accumulation = 0
    BY <1>6 DEF SaveModel, TrainingInv, ActiveInv
  <2>2. QED BY <1>6, <2>1, PublishKeeps DEF SaveModel
<1>7. CASE SaveTraining
  <2>1. phase = "saving state" /\ micro % Accumulation = 0
    BY <1>7 DEF SaveTraining, TrainingInv, ActiveInv
  <2>2. QED BY <1>7, <2>1, PublishKeeps DEF SaveTraining
<1>8. CASE Crash
  BY <1>8, StillTraining DEF Crash
<1>9. CASE UNCHANGED runVars
  <2>1. QueueInv => QueueInv'
    BY <1>9 DEF runVars, QueueInv, OnCourse, IsPlan, IsBatchOf
  <2>2. ActiveInv => ActiveInv'
    BY <1>9, <2>1 DEF runVars, ActiveInv, StepSize
  <2>3. QED BY <1>9, <2>2 DEF runVars, TrainingInv, SessionInv, DiskInv
<1>10. QED BY <1>1, <1>2, <1>3, <1>4, <1>5, <1>6, <1>7, <1>8, <1>9 DEF RunNext

\* The program of a run, alone.
RunSpec == RunInit /\ [][RunNext]_runVars

\* However often the program crashed, failed or was stopped, and whichever
\* snapshots it was resumed from, the session and every file hold what the
\* undisturbed run has there: for every data set, schedule, size of pool, queue
\* and batch, and whatever the seed makes of the numbers.
THEOREM ResumesExactly == WordsAreNumbers /\ RunSpec => []ResumeIsExact
<1> SUFFICES ASSUME WordsAreNumbers PROVE RunSpec => []ResumeIsExact
  OBVIOUS
<1>1. TrainingInv /\ [RunNext]_runVars => TrainingInv'
  BY TrainingSteps
<1>2. TrainingInv => ResumeIsExact
  BY DEF TrainingInv, SessionInv, DiskInv, ResumeIsExact
<1>3. QED BY <1>1, <1>2, TrainingStarts, PTL DEF RunSpec

-----------------------------------------------------------------------------
\* The source that does not fail.

Images == 0 .. ImageCount - 1

\* A sequence of images is one of numbers.
LEMMA ImagesAreNumbers == Images \subseteq Int /\ \A s \in Seq(Images) : s \in Seq(Int)
<1>1. Images \subseteq Int
  BY RunConstants DEF Images
<1> HIDE DEF Images
<1>2. ASSUME NEW s \in Seq(Images) PROVE s \in Seq(Int)
  <2>1. Len(s) \in Nat /\ s = [k \in 1 .. Len(s) |-> s[k]] /\ \A k \in 1 .. Len(s) : s[k] \in Images
    OBVIOUS
  <2>2. \A k \in 1 .. Len(s) : s[k] \in Int
    BY <1>1, <2>1
  <2>3. QED BY <2>1, <2>2
<1>3. QED BY <1>1, <1>2

\* A full pool of images.
Steady(p) ==
    /\ p \in PoolRecords /\ p.initialized = TRUE /\ p.pending = FALSE /\ p.exhausted = FALSE
    /\ p.items \in Seq(Images) /\ Len(p.items) = ShuffleBuffer
IsSteady(p) == p = NewPool(ShuffleBuffer) \/ Steady(p)

\* The first call fills it.
LEMMA FillSteady == Steady(Fill(NewPool(ShuffleBuffer), Clean))
<1> DEFINE p == Fill(NewPool(ShuffleBuffer), Clean)
           read == [k \in 1 .. ShuffleBuffer |-> Clean[k - 1]]
<1>1. NoFault \in FaultyReads /\ NoFault \notin 0 .. ShuffleBuffer - 1 /\ ShuffleBuffer \in Nat
  BY RunConstants DEF FaultyReads, NoFault
<1>2. /\ IsPool(p) /\ p.initialized
      /\ p = [capacity |-> ShuffleBuffer, items |-> read, reads |-> ShuffleBuffer, draws |-> 0,
              initialized |-> TRUE, exhausted |-> FALSE, pending |-> FALSE]
  BY <1>1, FillFacts DEF Clean
<1>3. \A k \in 1 .. ShuffleBuffer : Clean[k - 1] \in Images
  BY <1>1, CleanFacts DEF Images
<1> HIDE DEF p
<1>4. read \in Seq(Images) /\ Len(read) = ShuffleBuffer
  <2> DEFINE e(k) == Clean[k - 1]
  <2>1. \A k \in 1 .. ShuffleBuffer : e(k) \in Images
    BY <1>3
  <2>2. read = [k \in 1 .. ShuffleBuffer |-> e(k)]
    OBVIOUS
  <2> HIDE DEF e, read
  <2>3. QED BY <1>1, <2>1, <2>2
<1> HIDE DEF read
<1>5. QED BY <1>2, <1>4 DEF Steady, IsPool, p

\* A call on a full pool returns one of its images, puts the last in its place
\* and the next read behind.
LEMMA DrawSteady ==
    ASSUME NEW p, Steady(p), NEW word \in Nat
    PROVE  LET t == Take(p, Clean, word)
           IN  /\ Steady(t.pool) /\ t.result \in Images /\ t.pool.reads = p.reads + 1
               /\ \E i \in 1 .. ShuffleBuffer :
                     /\ t.result = p.items[i]
                     /\ \A k \in 1 .. ShuffleBuffer :
                           t.pool.items[k] = IF k = ShuffleBuffer THEN Clean[p.reads]
                                             ELSE IF k = i THEN p.items[ShuffleBuffer] ELSE p.items[k]
<1> DEFINE t == Take(p, Clean, word)
           C == ShuffleBuffer
           i == (word % Len(p.items)) + 1
           chosen == [p EXCEPT !.items = SwapRemove(@, i), !.draws = @ + 1]
           rest == SwapRemove(p.items, i)
           new == Clean[p.reads]
<1>1. C \in Nat \ {0} /\ NoFault \in FaultyReads
  BY RunConstants DEF FaultyReads
<1>2. /\ p \in PoolRecords /\ p.initialized /\ p.pending = FALSE /\ p.exhausted = FALSE
      /\ p.items \in Seq(Images) /\ Len(p.items) = C /\ p.reads \in Nat /\ p.draws \in Nat
      /\ p.items \in Seq(Int)
  BY PoolShape DEF Steady
<1>3. ~Spent(p)
  BY <1>1, <1>2 DEF Spent
<1>4. /\ t.pool \in PoolRecords /\ t.pool.initialized
      /\ i \in 1 .. C /\ chosen \in PoolRecords /\ chosen.initialized
      /\ t = [pool |-> Replace(chosen, Clean), result |-> p.items[i]]
  BY <1>1, <1>2, <1>3, TakeFilled DEF Clean
<1> HIDE DEF i
<1>5. /\ rest \in Seq(Images) /\ Len(rest) = C - 1
      /\ \A k \in 1 .. C - 1 : rest[k] = IF k = i THEN p.items[C] ELSE p.items[k]
  <2> DEFINE e(k) == IF k = i THEN p.items[C] ELSE p.items[k]
  <2>1. \A k \in 1 .. C - 1 : e(k) \in Images
    BY <1>1, <1>2
  <2>2. rest = [k \in 1 .. C - 1 |-> e(k)]
    BY <1>2 DEF SwapRemove
  <2> HIDE DEF e, rest
  <2>3. rest \in Seq(Images) /\ Len(rest) = C - 1 /\ \A k \in 1 .. C - 1 : rest[k] = e(k)
    BY <1>1, <2>1, <2>2
  <2>4. QED BY <2>3 DEF e
<1>6. rest \in Seq(Int)
  BY <1>5, ImagesAreNumbers
<1> HIDE DEF rest
<1>7. chosen = [capacity |-> C, items |-> rest, reads |-> p.reads, draws |-> p.draws + 1,
                initialized |-> p.initialized, exhausted |-> p.exhausted, pending |-> p.pending]
  <2>1. p.draws + 1 \in Nat
    BY <1>2
  <2>2. chosen = [p EXCEPT !.items = rest, !.draws = p.draws + 1]
    BY DEF rest
  <2> HIDE DEF chosen
  <2>3. QED BY <1>2, <1>6, <2>1, <2>2, PoolWith
<1> HIDE DEF chosen
<1> DEFINE q == Replace(chosen, Clean)
<1>8. q = [chosen EXCEPT !.items = Append(@, Clean[chosen.reads]), !.reads = @ + 1]
  <2>1. ~chosen.exhausted
    BY <1>2, <1>7
  <2>2. QED BY <1>1, <1>4, <2>1, ReplaceFacts DEF Clean
<1> HIDE DEF q
<1>9. q = [capacity |-> C, items |-> Append(rest, new), reads |-> p.reads + 1, draws |-> p.draws + 1,
           initialized |-> p.initialized, exhausted |-> p.exhausted, pending |-> p.pending]
  BY <1>7, <1>8
<1>10. new \in Images
  BY <1>2, CleanFacts DEF Images
<1> HIDE DEF new
<1>11. /\ Append(rest, new) \in Seq(Images) /\ Len(Append(rest, new)) = C
       /\ Append(rest, new)[C] = new
       /\ \A k \in 1 .. C - 1 : Append(rest, new)[k] = rest[k]
  BY <1>1, <1>5, <1>10
<1>12. t.pool = q /\ t.result = p.items[i]
  BY <1>4 DEF q
<1> HIDE DEF t
<1>13. Steady(t.pool) /\ t.pool.reads = p.reads + 1 /\ t.pool.items = Append(rest, new)
  <2>1. /\ q.items = Append(rest, new) /\ q.reads = p.reads + 1 /\ q.initialized = p.initialized
        /\ q.exhausted = p.exhausted /\ q.pending = p.pending
    BY <1>9
  <2>2. q.initialized = TRUE
    BY <2>1 DEF Steady
  <2>3. t.pool \in PoolRecords /\ t.pool = q
    BY <1>4, <1>12
  <2> HIDE DEF t
  <2>4. QED BY <1>2, <1>11, <2>1, <2>2, <2>3 DEF Steady
<1>14. t.result \in Images
  BY <1>2, <1>4, <1>12
<1>15. \A k \in 1 .. C : t.pool.items[k] = IF k = C THEN new
                                             ELSE IF k = i THEN p.items[C] ELSE p.items[k]
  <2> SUFFICES ASSUME NEW k \in 1 .. C
               PROVE  t.pool.items[k] = IF k = C THEN new ELSE IF k = i THEN p.items[C] ELSE p.items[k]
    OBVIOUS
  <2>1. CASE k = C
    BY <1>11, <1>13, <2>1
  <2>2. CASE k # C
    <3>1. k \in 1 .. C - 1
      BY <1>1, <2>2
    <3>2. QED BY <1>5, <1>11, <1>13, <2>2, <3>1
  <2>3. QED BY <2>1, <2>2
<1>16. QED BY <1>4, <1>12, <1>13, <1>14, <1>15 DEF t, new

\* A pool that has not been called, or a full one: a call leaves a full one.
LEMMA DrawFrom ==
    ASSUME NEW p, IsSteady(p), NEW word \in Nat
    PROVE  LET t == Take(p, Clean, word)
           IN  Steady(t.pool) /\ t.result \in Images
<1>1. CASE Steady(p)
  BY <1>1, DrawSteady
<1>2. CASE p = NewPool(ShuffleBuffer)
  <2> DEFINE f == Fill(p, Clean)
  <2>1. Steady(f)
    BY <1>2, FillSteady
  <2>2. f.initialized = TRUE
    BY <2>1 DEF Steady
  <2>3. p.initialized = FALSE
    BY <1>2 DEF NewPool
  <2>4. Take(p, Clean, word) = Take(f, Clean, word)
    <3> HIDE DEF f
    <3>1. (IF p.initialized THEN p ELSE Fill(p, Clean)) = f
      BY <2>3 DEF f
    <3>2. (IF f.initialized THEN f ELSE Fill(f, Clean)) = f
      BY <2>2
    <3>3. QED BY <3>1, <3>2 DEF Take, TakeFrom
  <2> HIDE DEF f
  <2>5. QED BY <2>1, <2>4, DrawSteady
<1>3. QED BY <1>1, <1>2 DEF IsSteady

-----------------------------------------------------------------------------
\* The images with a box in a pool.

BoxedIn(p) == {k \in 1 .. ShuffleBuffer : p.items[k] \notin EmptyImages}

\* There are at most as many as places, and in a pool with that many all are.
LEMMA BoxesBounded ==
    ASSUME NEW p
    PROVE  /\ IsFiniteSet(BoxedIn(p)) /\ Cardinality(BoxedIn(p)) \in 0 .. ShuffleBuffer
           /\ Cardinality(BoxedIn(p)) = ShuffleBuffer => BoxedIn(p) = 1 .. ShuffleBuffer
<1>1. ShuffleBuffer \in Nat
  BY RunConstants
<1>2. IsFiniteSet(1 .. ShuffleBuffer) /\ Cardinality(1 .. ShuffleBuffer) = ShuffleBuffer
  BY <1>1, FS_Interval
<1>3. BoxedIn(p) \subseteq 1 .. ShuffleBuffer
  BY DEF BoxedIn
<1> HIDE DEF BoxedIn
<1>4. /\ IsFiniteSet(BoxedIn(p)) /\ Cardinality(BoxedIn(p)) <= ShuffleBuffer
      /\ Cardinality(BoxedIn(p)) = ShuffleBuffer => BoxedIn(p) = 1 .. ShuffleBuffer
  BY <1>2, <1>3, FS_Subset
<1>5. Cardinality(BoxedIn(p)) \in Nat
  BY <1>4, FS_CardinalityType
<1>6. QED BY <1>1, <1>4, <1>5

\* Drawing an image without a box: those with one stay, and the image read is
\* one more if it has one.
LEMMA BoxesGrow ==
    ASSUME NEW p, Steady(p), NEW word \in Nat, Take(p, Clean, word).result \in EmptyImages
    PROVE  LET t == Take(p, Clean, word)
               n == Cardinality(BoxedIn(p))
           IN  Cardinality(BoxedIn(t.pool)) = IF Clean[p.reads] \in EmptyImages THEN n ELSE n + 1
<1> DEFINE t == Take(p, Clean, word)
           C == ShuffleBuffer
           new == Clean[p.reads]
           B == BoxedIn(p)
           A == BoxedIn(t.pool)
           fresh == IF new \in EmptyImages THEN {} ELSE {C}
<1>1. C \in Nat \ {0}
  BY RunConstants
<1>2. PICK i \in 1 .. C :
          /\ t.result = p.items[i]
          /\ \A k \in 1 .. C : t.pool.items[k] = IF k = C THEN new
                                                 ELSE IF k = i THEN p.items[C] ELSE p.items[k]
  BY DrawSteady
<1>3. p.items[i] \in EmptyImages
  BY <1>2
<1> HIDE DEF t, new
<1>4. i \notin B /\ C \in 1 .. C /\ IsFiniteSet(B) /\ B \subseteq 1 .. C
  BY <1>1, <1>3, BoxesBounded DEF BoxedIn
<1> DEFINE rest == IF C \in B THEN (B \ {C}) \cup {i} ELSE B
<1>5. A = rest \cup fresh /\ C \notin rest
  <2>1. A \subseteq 1 .. C /\ rest \cup fresh \subseteq 1 .. C
    BY <1>4 DEF BoxedIn
  <2>2. ASSUME NEW k \in 1 .. C PROVE (k \in A) <=> (k \in rest \cup fresh)
    <3>1. (k \in A) <=> t.pool.items[k] \notin EmptyImages
      BY DEF BoxedIn
    <3>2. (k \in B) <=> p.items[k] \notin EmptyImages
      BY DEF BoxedIn
    <3>3. (C \in B) <=> p.items[C] \notin EmptyImages
      BY <1>4 DEF BoxedIn
    <3>4. t.pool.items[k] = IF k = C THEN new ELSE IF k = i THEN p.items[C] ELSE p.items[k]
      BY <1>2
    <3> HIDE DEF A, B
    <3>5. QED BY <1>3, <1>4, <3>1, <3>2, <3>3, <3>4
  <2>3. C \notin rest
    BY <1>4
  <2> HIDE DEF A, rest, fresh
  <2>4. QED BY <2>1, <2>2, <2>3
<1> HIDE DEF A, B
<1>6. IsFiniteSet(rest) /\ Cardinality(rest) = Cardinality(B)
  <2>1. CASE C \notin B
    BY <1>4, <2>1
  <2>2. CASE C \in B
    <3>1. IsFiniteSet(B \ {C}) /\ Cardinality(B \ {C}) = Cardinality(B) - 1
      BY <1>4, <2>2, FS_RemoveElement
    <3>2. i \notin B \ {C} /\ Cardinality(B) \in Nat
      BY <1>4, FS_CardinalityType
    <3>3. IsFiniteSet((B \ {C}) \cup {i}) /\ Cardinality((B \ {C}) \cup {i}) = Cardinality(B \ {C}) + 1
      BY <3>1, <3>2, FS_AddElement
    <3>4. QED BY <2>2, <3>1, <3>2, <3>3
  <2>3. QED BY <2>1, <2>2
<1> HIDE DEF rest
<1>7. CASE new \in EmptyImages
  BY <1>5, <1>6, <1>7 DEF A, B, t, new
<1>8. CASE new \notin EmptyImages
  <2>1. A = rest \cup {C}
    BY <1>5, <1>8
  <2>2. Cardinality(A) = Cardinality(B) + 1
    BY <1>5, <1>6, <2>1, FS_AddElement
  <2>3. QED BY <1>8, <2>2 DEF A, B, t, new
<1>9. QED BY <1>7, <1>8

-----------------------------------------------------------------------------
\* Calls in a row.

\* The pool after k calls, and what call k returns.
PoolAfter(p, k) == TakeSamples(p, Clean, k).pool
Drawn(p, k) == Take(PoolAfter(p, k - 1), Clean, Word(PoolAfter(p, k - 1).draws)).result

\* A sequence of images and one more.
LEMMA OneImageMore ==
    ASSUME NEW n \in Nat, NEW s \in Seq(Images), NEW x \in Images, Len(s) = n, NEW z, z = Append(s, x)
    PROVE  z \in Seq(Images) /\ Len(z) = n + 1 /\ z[n + 1] = x /\ \A j \in 1 .. n : z[j] = s[j]
  OBVIOUS

\* They return images, one after the other.
CleanlySampled(p, k) ==
    LET a == TakeSamples(p, Clean, k)
    IN  /\ IsSteady(a.pool) /\ (k > 0 => Steady(a.pool))
        /\ a.samples \in Seq(Images) /\ Len(a.samples) = k
        /\ \A j \in 1 .. k : a.samples[j] = Drawn(p, j)

\* However many are made.
LEMMA CleanSamples ==
    ASSUME WordsAreNumbers, NEW p, IsSteady(p), NEW k \in 0 .. Window
    PROVE  CleanlySampled(p, k)
<1> DEFINE a(n) == TakeSamples(p, Clean, n)
           T == {n \in 0 .. Window : CleanlySampled(p, n)}
<1>1. Window \in Nat
  BY RunConstants
<1>2. 0 \in T
  <2>1. a(0) = [pool |-> p, samples |-> <<>>]
    BY TakeSamplesIterates
  <2>2. <<>> \in Seq(Images) /\ Len(<<>>) = 0 /\ 1 .. 0 = {} /\ ~(0 > 0)
    OBVIOUS
  <2>3. a(0).pool = p /\ a(0).samples = <<>>
    BY <2>1
  <2>4. CleanlySampled(p, 0)
    BY <2>2, <2>3 DEF CleanlySampled
  <2>5. 0 \in 0 .. Window
    BY <1>1
  <2> HIDE DEF a
  <2>6. QED BY <2>4, <2>5
<1>3. ASSUME NEW n \in 0 .. Window - 1, n \in T PROVE n + 1 \in T
  <2>1. n \in Nat /\ n + 1 \in 1 .. Window /\ n + 1 \in 0 .. Window /\ (n + 1) - 1 = n /\ n + 1 > 0
    BY <1>1, <1>3
  <2>2. /\ IsSteady(a(n).pool) /\ a(n).samples \in Seq(Images) /\ Len(a(n).samples) = n
        /\ \A j \in 1 .. n : a(n).samples[j] = Drawn(p, j)
    BY <1>3 DEF CleanlySampled
  <2>3. a(n + 1) = TakeSample(a(n), Clean)
    BY <2>1, TakeSamplesIterates
  <2> DEFINE t == Take(a(n).pool, Clean, Word(a(n).pool.draws))
  <2>4. a(n + 1) = [pool |-> t.pool, samples |-> Append(a(n).samples, t.result)]
    BY <2>3 DEF TakeSample, Sampled
  <2>5. Drawn(p, n + 1) = t.result
    BY <2>1 DEF Drawn, PoolAfter
  <2>6. a(n).pool.draws \in Nat
    <3>1. a(n).pool \in PoolRecords
      <4> HIDE DEF a
      <4>1. NewPool(ShuffleBuffer) \in PoolRecords
        <5>1. <<>> \in Seq(Int)
          OBVIOUS
        <5>2. QED BY <5>1, RunConstants DEF NewPool, PoolRecords
      <4>2. QED BY <2>2, <4>1 DEF IsSteady, Steady
    <3>2. QED BY <3>1, PoolShape
  <2>7. Word(a(n).pool.draws) \in Nat
    BY <2>6 DEF WordsAreNumbers
  <2> DEFINE w == Word(a(n).pool.draws)
  <2>8. Steady(t.pool) /\ t.result \in Images
    <3> HIDE DEF a, w, t
    <3>1. w \in Nat /\ t = Take(a(n).pool, Clean, w)
      BY <2>7 DEF w, t
    <3>2. QED BY <2>2, <3>1, DrawFrom
  <2> HIDE DEF t, w
  <2>9. a(n + 1).pool = t.pool /\ a(n + 1).samples = Append(a(n).samples, t.result)
    BY <2>4
  <2> DEFINE z == a(n + 1).samples
  <2> HIDE DEF a
  <2>10. z \in Seq(Images) /\ Len(z) = n + 1 /\ z[n + 1] = t.result /\ \A j \in 1 .. n : z[j] = a(n).samples[j]
    <3> HIDE DEF z
    <3>1. z = Append(a(n).samples, t.result)
      BY <2>9 DEF z
    <3>2. QED BY <2>1, <2>2, <2>8, <3>1, OneImageMore
  <2>11. \A j \in 1 .. n + 1 : z[j] = Drawn(p, j)
    <3>1. \A j \in 1 .. n + 1 : j \in 1 .. n \/ j = n + 1
      BY <2>1
    <3>2. QED BY <2>2, <2>5, <2>10, <3>1
  <2>12. Steady(a(n + 1).pool) /\ IsSteady(a(n + 1).pool)
    BY <2>8, <2>9 DEF IsSteady
  <2>13. CleanlySampled(p, n + 1)
    BY <2>10, <2>11, <2>12 DEF CleanlySampled, a
  <2>14. QED BY <2>1, <2>13
<1> HIDE DEF T
<1>4. k \in T
  BY <1>1, <1>2, <1>3, CountUp
<1>5. QED BY <1>4 DEF T

-----------------------------------------------------------------------------
\* A partner comes.

\* A multiple and less than the divisor.
LEMMA Remainder ==
    ASSUME NEW d \in Nat \ {0}, NEW q \in Nat, NEW r \in 0 .. d - 1
    PROVE  (q * d + r) % d = r
  OBVIOUS
\* The same, divided.
LEMMA Quotient ==
    ASSUME NEW d \in Nat \ {0}, NEW q \in Nat, NEW r \in 0 .. d - 1
    PROVE  (q * d + r) \div d = q
  OBVIOUS

\* Two numbers whose sum is a multiple, one of them less than the divisor.
LEMMA Opposite ==
    ASSUME NEW d \in Nat \ {0}, NEW s \in Nat, NEW x \in 0 .. d - 1
    PROVE  ((s + (d - x)) % d = 0) <=> (s % d = x)
<1> DEFINE q == s \div d
           r == s % d
<1>1. q \in Nat /\ r \in 0 .. d - 1 /\ s = q * d + r
  OBVIOUS
<1> HIDE DEF q, r
<1>2. CASE r = x
  <2>1. s + (d - x) = (q + 1) * d
    BY <1>1, <1>2
  <2>2. ((q + 1) * d) % d = 0
    BY <1>1, Multiples
  <2>3. QED BY <1>2, <2>1, <2>2 DEF r
<1>3. CASE r > x
  <2>1. s + (d - x) = (q + 1) * d + (r - x) /\ r - x \in 1 .. d - 1
    BY <1>1, <1>3
  <2>2. ((q + 1) * d + (r - x)) % d = r - x
    BY <1>1, <2>1, Remainder
  <2>3. QED BY <1>3, <2>1, <2>2 DEF r
<1>4. CASE r < x
  <2> DEFINE e == d - (x - r)
  <2>1. e \in 1 .. d - 1 /\ s + (d - x) = q * d + e
    BY <1>1, <1>4
  <2> HIDE DEF e
  <2>2. e \in 0 .. d - 1 /\ e # 0
    BY <2>1
  <2>3. (q * d + e) % d = e
    BY <1>1, <2>2, Remainder
  <2>4. QED BY <1>4, <2>1, <2>2, <2>3 DEF r
<1>5. QED BY <1>1, <1>2, <1>3, <1>4

\* Multiples added to a number.
LEMMA Beyond ==
    ASSUME NEW d \in Nat \ {0}, NEW a \in Nat, NEW c \in Nat
    PROVE  (a + c * d) \div d = (a \div d) + c
<1> DEFINE q == a \div d
           r == a % d
<1>1. q \in Nat /\ r \in 0 .. d - 1 /\ a = q * d + r
  OBVIOUS
<1> HIDE DEF q, r
<1>2. a + c * d = (q + c) * d + r /\ q + c \in Nat
  BY <1>1
<1>3. ((q + c) * d + r) \div d = q + c
  BY <1>1, <1>2, Quotient
<1>4. QED BY <1>2, <1>3 DEF q

\* Reads of image x among those before number m.
ReadsOf(x, m) == (StartImage + m + ImageCount - 1 - x) \div ImageCount

\* The read with number m is one of x, or the count does not change.
LEMMA ReadsCount ==
    ASSUME NEW x \in Images, NEW m \in Nat
    PROVE  /\ ReadsOf(x, m) \in Nat
           /\ ReadsOf(x, m + 1) = IF Clean[m] = x THEN ReadsOf(x, m) + 1 ELSE ReadsOf(x, m)
           /\ \A c \in Nat : ReadsOf(x, m + c * ImageCount) = ReadsOf(x, m) + c
<1> DEFINE I == ImageCount
           a == StartImage + m + I - 1 - x
<1>1. I \in Nat \ {0} /\ StartImage \in Nat /\ x \in 0 .. I - 1 /\ a \in Nat
  BY RunConstants DEF Images
<1>2. Clean[m] = (StartImage + m) % I
  <2>1. NoFault \in FaultyReads
    BY DEF FaultyReads
  <2>2. QED BY <2>1, SourceFacts
<1>3. a + 1 = StartImage + (m + 1) + I - 1 - x /\ a + 1 = (StartImage + m) + (I - x)
  BY <1>1
<1>4. ((a + 1) % I = 0) <=> ((StartImage + m) % I = x)
  <2> DEFINE s == StartImage + m
  <2>1. s \in Nat /\ a + 1 = s + (I - x)
    BY <1>1
  <2> HIDE DEF s, a
  <2>2. ((s + (I - x)) % I = 0) <=> (s % I = x)
    BY <1>1, <2>1, Opposite
  <2>3. QED BY <2>1, <2>2 DEF s
<1>5. ReadsOf(x, m) = a \div I /\ ReadsOf(x, m + 1) = (a + 1) \div I
  BY <1>3 DEF ReadsOf
<1>6. /\ a \div I \in Nat
      /\ (a + 1) \div I = (IF (a + 1) % I = 0 THEN (a \div I) + 1 ELSE a \div I)
  <2> HIDE DEF a
  <2>1. QED BY <1>1, OneMore
<1>7. ASSUME NEW c \in Nat PROVE ReadsOf(x, m + c * I) = ReadsOf(x, m) + c
  <2>1. c * I \in Nat
    BY <1>1
  <2>2. ReadsOf(x, m + c * I) = (a + c * I) \div I
    <3>1. StartImage + (m + c * I) + I - 1 - x = a + c * I
      BY <1>1, <2>1
    <3>2. QED BY <3>1 DEF ReadsOf
  <2> HIDE DEF a
  <2>3. (a + c * I) \div I = (a \div I) + c
    BY <1>1, Beyond
  <2>4. QED BY <1>5, <2>2, <2>3
<1>8. QED BY <1>2, <1>4, <1>5, <1>6, <1>7

\* One call after the others.
LEMMA PoolStep ==
    ASSUME WordsAreNumbers, NEW p, IsSteady(p), NEW k \in 1 .. Window - 1
    PROVE  \E word \in Nat :
              /\ Steady(PoolAfter(p, k)) /\ PoolAfter(p, k).reads \in Nat
              /\ PoolAfter(p, k + 1) = Take(PoolAfter(p, k), Clean, word).pool
              /\ Drawn(p, k + 1) = Take(PoolAfter(p, k), Clean, word).result
<1> DEFINE q == PoolAfter(p, k)
           word == Word(q.draws)
<1>1. k \in 0 .. Window /\ k + 1 \in 1 .. Window /\ (k + 1) - 1 = k /\ k > 0
  BY RunConstants
<1>2. Steady(q)
  BY <1>1, CleanSamples DEF CleanlySampled, PoolAfter
<1>3. q.reads \in Nat /\ q.draws \in Nat
  BY <1>2, PoolShape DEF Steady
<1>4. word \in Nat
  BY <1>3 DEF WordsAreNumbers
<1>5. TakeSamples(p, Clean, k + 1) = TakeSample(TakeSamples(p, Clean, k), Clean)
  BY <1>1, TakeSamplesIterates
<1>6. PoolAfter(p, k + 1) = Take(q, Clean, word).pool
  BY <1>5 DEF PoolAfter, TakeSample, Sampled
<1>7. Drawn(p, k + 1) = Take(q, Clean, word).result
  BY <1>1 DEF Drawn
<1> HIDE DEF word, q
<1>8. QED BY <1>2, <1>3, <1>4, <1>6, <1>7 DEF q

\* Some image has a box.  After as many reads of it as there are places, while
\* images without one were drawn, the pool has nothing but images with a box.
LEMMA PartnerComes ==
    ASSUME WordsAreNumbers, NEW p, IsSteady(p), NEW own \in 1 .. MosaicSize, NEW x \in Images, x \notin EmptyImages
    PROVE  \E k \in own + 1 .. own + Reach : TakeSamples(p, Clean, own + Reach).samples[k] \notin EmptyImages
<1> DEFINE C == ShuffleBuffer
           I == ImageCount
           P(m) == PoolAfter(p, own + m)
           N(m) == Cardinality(BoxedIn(P(m)))
           r == P(0).reads
           Counted(m) == P(m).reads = r + m /\ N(m) >= ReadsOf(x, r + m) - ReadsOf(x, r)
           T == {m \in 0 .. Reach : Counted(m)}
<1>1. /\ own \in Nat /\ own + Reach \in 1 .. Window /\ C \in Nat \ {0} /\ I \in Nat \ {0} /\ C * I \in Nat
      /\ Reach = C * I + 1 /\ Reach \in Nat /\ Window \in Nat /\ Window = MosaicSize + Reach /\ MosaicSize \in Nat
  <2>1. C * I \in Nat
    BY RunConstants
  <2>2. QED BY <2>1, RunConstants DEF Window, Reach
<1>2. SUFFICES ASSUME \A k \in own + 1 .. own + Reach : TakeSamples(p, Clean, own + Reach).samples[k] \in EmptyImages
               PROVE  FALSE
  OBVIOUS
<1>3. ASSUME NEW m \in 0 .. Reach - 1
      PROVE  /\ Drawn(p, own + (m + 1)) \in EmptyImages
             /\ \E word \in Nat :
                   /\ Steady(P(m)) /\ P(m).reads \in Nat
                   /\ P(m + 1) = Take(P(m), Clean, word).pool
                   /\ Drawn(p, own + (m + 1)) = Take(P(m), Clean, word).result
  <2> DEFINE k == own + m
  <2>1. /\ k \in 1 .. Window - 1 /\ k + 1 = own + (m + 1) /\ k + 1 \in own + 1 .. own + Reach
        /\ k + 1 \in 1 .. own + Reach /\ own + Reach \in 0 .. Window
    BY <1>1, <1>3
  <2>2. TakeSamples(p, Clean, own + Reach).samples[k + 1] = Drawn(p, k + 1)
    <3> HIDE DEF k
    <3>1. QED BY <2>1, CleanSamples DEF CleanlySampled
  <2>3. Drawn(p, k + 1) \in EmptyImages
    <3> HIDE DEF k
    <3>1. QED BY <1>2, <2>1, <2>2
  <2>4. \E word \in Nat :
           /\ Steady(PoolAfter(p, k)) /\ PoolAfter(p, k).reads \in Nat
           /\ PoolAfter(p, k + 1) = Take(PoolAfter(p, k), Clean, word).pool
           /\ Drawn(p, k + 1) = Take(PoolAfter(p, k), Clean, word).result
    <3> HIDE DEF k
    <3>1. QED BY <2>1, PoolStep
  <2>5. QED BY <2>1, <2>3, <2>4
<1>4. ASSUME NEW m \in 0 .. Reach - 1
      PROVE  /\ P(m).reads \in Nat /\ P(m + 1).reads = P(m).reads + 1
             /\ N(m + 1) = IF Clean[P(m).reads] \in EmptyImages THEN N(m) ELSE N(m) + 1
             /\ N(m) # C
  <2>1. PICK word \in Nat :
           /\ Steady(P(m)) /\ P(m).reads \in Nat
           /\ P(m + 1) = Take(P(m), Clean, word).pool
           /\ Take(P(m), Clean, word).result \in EmptyImages
    BY <1>3
  <2> DEFINE q == P(m)
  <2> HIDE DEF P, q
  <2>2. P(m + 1).reads = q.reads + 1
    <3>1. Steady(q) /\ P(m + 1) = Take(q, Clean, word).pool
      BY <2>1 DEF q
    <3>2. Take(q, Clean, word).pool.reads = q.reads + 1
      BY <3>1, DrawSteady
    <3>3. QED BY <3>1, <3>2
  <2>3. Cardinality(BoxedIn(P(m + 1))) = IF Clean[q.reads] \in EmptyImages THEN Cardinality(BoxedIn(q))
                                          ELSE Cardinality(BoxedIn(q)) + 1
    BY <2>1, BoxesGrow DEF q
  <2>4. Cardinality(BoxedIn(q)) # C
    <3>1. PICK i \in 1 .. C : Take(q, Clean, word).result = q.items[i]
      BY <2>1, DrawSteady DEF q
    <3>2. i \notin BoxedIn(q)
      BY <2>1, <3>1 DEF BoxedIn, q
    <3>3. QED BY <3>2, BoxesBounded
  <2>5. QED BY <2>1, <2>2, <2>3, <2>4 DEF q
<1>5. r \in Nat /\ 0 \in 0 .. Reach - 1 /\ 0 \in 0 .. Reach /\ r + 0 = r
  BY <1>1, <1>4
<1>6. ASSUME NEW m \in 0 .. Reach PROVE N(m) \in 0 .. C
  BY BoxesBounded
<1> HIDE DEF N, P, r
<1>7. 0 \in T
  <2>1. ReadsOf(x, r) \in Nat /\ N(0) \in Nat
    BY <1>1, <1>5, <1>6, ReadsCount
  <2>2. P(0).reads = r
    BY DEF r
  <2>3. QED BY <1>5, <2>1, <2>2
<1>8. ASSUME NEW m \in 0 .. Reach - 1, m \in T PROVE m + 1 \in T
  <2>1. /\ m \in Nat /\ m + 1 \in 0 .. Reach /\ m \in 0 .. Reach /\ r + m \in Nat
        /\ r + (m + 1) = (r + m) + 1
    BY <1>1, <1>5, <1>8
  <2>2. P(m).reads = r + m /\ N(m) >= ReadsOf(x, r + m) - ReadsOf(x, r)
    BY <1>8
  <2>3. P(m + 1).reads = r + (m + 1)
    BY <1>4, <2>1, <2>2
  <2>4. /\ ReadsOf(x, r) \in Nat /\ ReadsOf(x, r + m) \in Nat
        /\ ReadsOf(x, (r + m) + 1) = IF Clean[r + m] = x THEN ReadsOf(x, r + m) + 1 ELSE ReadsOf(x, r + m)
    BY <1>5, <2>1, ReadsCount
  <2>5. N(m + 1) = IF Clean[r + m] \in EmptyImages THEN N(m) ELSE N(m) + 1
    BY <1>4, <2>2
  <2>6. N(m) \in Nat
    BY <1>1, <1>6, <2>1
  <2>7. N(m + 1) >= ReadsOf(x, r + (m + 1)) - ReadsOf(x, r)
    BY <2>1, <2>2, <2>4, <2>5, <2>6
  <2>8. QED BY <2>1, <2>3, <2>7
<1> DEFINE full == C * I
<1>9. full \in 0 .. Reach /\ full \in 0 .. Reach - 1
  BY <1>1
<1>10. full \in T
  <2> HIDE DEF T, full
  <2>1. \A m \in 0 .. Reach : m \in T
    BY <1>1, <1>7, <1>8, CountUp
  <2>2. QED BY <1>9, <2>1
<1>11. ReadsOf(x, r + full) = ReadsOf(x, r) + C /\ ReadsOf(x, r) \in Nat
  BY <1>1, <1>5, ReadsCount
<1>12. N(full) >= C /\ N(full) \in 0 .. C /\ N(full) # C
  <2> HIDE DEF full
  <2>1. QED BY <1>1, <1>4, <1>6, <1>9, <1>10, <1>11
<1>13. QED BY <1>1, <1>12

-----------------------------------------------------------------------------
\* Clean batches.

\* An image is not an error.
LEMMA ImagesAreGood == \A x \in Images : ~IsError(x)
  BY RunConstants DEF Images, IsError, Failure, Exhausted

\* A group of one sample, not mixed with another.
Plain == [samples : {s \in Seq(Images) : Len(s) = 1}, mixup : {<<>>}]

\* A batch that has not failed, plain once mosaic and mixup are switched off.
GoodBatch(st, step) ==
    /\ ~st.failed /\ "failed" \in DOMAIN st /\ IsSteady(st.pool)
    /\ ~(step < MosaicSteps) => st.groups \in Seq(Plain)

\* With a partner, if one of the own samples has a box.
LEMMA CleanPartner ==
    ASSUME WordsAreNumbers, NEW st, NEW step, GoodBatch(st, step), step < MosaicSteps,
           NEW samples, Len(samples) \in 1 .. MosaicSize,
           NEW x \in Images, x \notin EmptyImages
    PROVE  GoodBatch(WithPartner(st, Clean, samples), step)
<1> DEFINE own == Len(samples)
           A(k) == TakeSamples(st.pool, Clean, k)
           seen == A(own + Reach).samples
           ends == {k \in own + 1 .. own + Reach : seen[k] \notin EmptyImages}
           n == Min(ends)
           w == WithPartner(st, Clean, samples)
<1>1. own \in Nat /\ Reach \in Nat /\ own + Reach \in 0 .. Window /\ own + Reach \in Nat /\ Window \in Nat
      /\ own \in 1 .. MosaicSize
  BY RunConstants DEF Window
<1>2. w = IF ends = {} \/ IsError(seen[n]) THEN Fails(st)
          ELSE Grouped(st, A(n).pool, samples, <<seen[n]>>)
  BY DEF WithPartner
<1>3. IsSteady(st.pool)
  BY DEF GoodBatch
<1>4. ends # {}
  <2>1. \E k \in own + 1 .. own + Reach : seen[k] \notin EmptyImages
    BY <1>1, <1>3, PartnerComes
  <2>2. QED BY <2>1
<1>5. ends \in SUBSET Nat
  BY <1>1
<1> HIDE DEF w
<1>6. n \in ends
  <2> HIDE DEF ends
  <2>1. QED BY <1>4, <1>5, MinExists
<1>7. n \in own + 1 .. own + Reach /\ n \in 1 .. own + Reach /\ n \in 0 .. Window
  BY <1>1, <1>6
<1> HIDE DEF n, ends, own
<1>8. seen \in Seq(Images) /\ Len(seen) = own + Reach /\ IsSteady(A(n).pool)
  <2>1. CleanlySampled(st.pool, own + Reach) /\ CleanlySampled(st.pool, n)
    BY <1>1, <1>3, <1>7, CleanSamples
  <2>2. QED BY <2>1 DEF CleanlySampled
<1>9. ~IsError(seen[n])
  <2> HIDE DEF seen
  <2>1. seen[n] \in Images
    BY <1>1, <1>7, <1>8
  <2>2. QED BY <2>1, ImagesAreGood
<1> HIDE DEF A, seen
<1>10. w = Grouped(st, A(n).pool, samples, <<seen[n]>>)
  BY <1>2, <1>4, <1>9
<1>11. ~w.failed /\ "failed" \in DOMAIN w /\ IsSteady(w.pool)
  BY <1>8, <1>10 DEF Grouped
<1>12. QED BY <1>11 DEF GoodBatch, w

\* One more sample of a batch.
LEMMA CleanGroup ==
    ASSUME WordsAreNumbers, NEW st, NEW step, GoodBatch(st, step), NEW number
    PROVE  GoodBatch(Group(st, Clean, step, number), step)
<1> DEFINE mosaic == step < MosaicSteps /\ Mosaic(number)
           m == IF mosaic THEN MosaicSize ELSE 1
           mixup == mosaic /\ Mixup(number)
           a == TakeSamples(st.pool, Clean, m)
           w == Group(st, Clean, step, number)
<1>1. w = Mixed(st, Clean, a, mixup)
  BY DEF Group, GoodBatch
<1>2. m \in 1 .. MosaicSize /\ m \in 0 .. Window /\ (~(step < MosaicSteps) => m = 1)
      /\ (mixup => step < MosaicSteps)
  BY RunConstants DEF Window
<1> HIDE DEF m, mixup, w
<1>3. a.samples \in Seq(Images) /\ Len(a.samples) = m /\ IsSteady(a.pool)
  <2>1. IsSteady(st.pool)
    BY DEF GoodBatch
  <2>2. CleanlySampled(st.pool, m)
    BY <1>2, <2>1, CleanSamples
  <2>3. QED BY <2>2 DEF CleanlySampled
<1> HIDE DEF a
<1>4. \A k \in DOMAIN a.samples : a.samples[k] \in Images /\ ~IsError(a.samples[k])
  BY <1>3, ImagesAreGood
<1>5. CASE mixup /\ \E k \in DOMAIN a.samples : a.samples[k] \notin EmptyImages
  <2>1. w = WithPartner(st, Clean, a.samples)
    BY <1>1, <1>4, <1>5 DEF Mixed
  <2>2. PICK k \in DOMAIN a.samples : a.samples[k] \notin EmptyImages
    BY <1>5
  <2>3. a.samples[k] \in Images /\ step < MosaicSteps /\ Len(a.samples) \in 1 .. MosaicSize
    BY <1>2, <1>3, <1>4, <1>5
  <2>4. QED BY <2>1, <2>2, <2>3, CleanPartner DEF w
<1>6. CASE ~(mixup /\ \E k \in DOMAIN a.samples : a.samples[k] \notin EmptyImages)
  <2>1. w = Grouped(st, a.pool, a.samples, <<>>)
    BY <1>1, <1>4, <1>6 DEF Mixed
  <2>2. /\ ~w.failed /\ "failed" \in DOMAIN w /\ w.pool = a.pool
        /\ w.groups = Append(st.groups, [samples |-> a.samples, mixup |-> <<>>])
    BY <2>1 DEF Grouped
  <2>3. ASSUME ~(step < MosaicSteps) PROVE w.groups \in Seq(Plain)
    <3>1. [samples |-> a.samples, mixup |-> <<>>] \in Plain
      BY <1>2, <1>3, <2>3 DEF Plain
    <3>2. st.groups \in Seq(Plain)
      BY <2>3 DEF GoodBatch
    <3> HIDE DEF Plain
    <3>3. QED BY <2>2, <3>1, <3>2
  <2>4. QED BY <1>3, <2>2, <2>3 DEF GoodBatch, w
<1>7. QED BY <1>5, <1>6

\* A whole batch.
LEMMA CleanGroups ==
    ASSUME WordsAreNumbers, NEW p, IsSteady(p), NEW step
    PROVE  GoodBatch(Groups(p, Clean, step), step)
<1>1. PICK v : /\ v[0] = NoGroups(p) /\ Groups(p, Clean, step) = v[BatchSize]
               /\ \A k \in 1 .. BatchSize :
                     v[k] = Group(v[k - 1], Clean, step, step * BatchSize + k - 1)
  BY GroupsIterate
<1> DEFINE T == {k \in 0 .. BatchSize : GoodBatch(v[k], step)}
<1>2. BatchSize \in Nat
  BY RunConstants
<1>3. 0 \in T
  <2>1. <<>> \in Seq(Plain)
    OBVIOUS
  <2>2. GoodBatch(NoGroups(p), step)
    BY <2>1 DEF NoGroups, GoodBatch
  <2>3. QED BY <1>1, <1>2, <2>2
<1>4. ASSUME NEW k \in 0 .. BatchSize - 1, k \in T PROVE k + 1 \in T
  <2>1. GoodBatch(v[k], step)
    BY <1>4
  <2>2. k + 1 \in 1 .. BatchSize /\ (k + 1) - 1 = k /\ k + 1 \in 0 .. BatchSize
    BY <1>2, <1>4
  <2>3. \E number : v[k + 1] = Group(v[k], Clean, step, number)
    BY <1>1, <2>2
  <2>4. GoodBatch(v[k + 1], step)
    BY <2>1, <2>3, CleanGroup
  <2>5. QED BY <2>2, <2>4
<1> HIDE DEF T
<1>5. BatchSize \in T
  BY <1>2, <1>3, <1>4, CountUp
<1>6. QED BY <1>1, <1>5 DEF T

\* Without a fault the data never ends early: the undisturbed iterator stays on
\* course, and its batches are good.
LEMMA CleanReplay ==
    ASSUME WordsAreNumbers, NEW k \in 0 .. TotalMicroSteps
    PROVE  /\ OnCourse(Replay(Clean, k), k) /\ IsSteady(Replay(Clean, k).pool)
           /\ Replay(Clean, k).remaining = TotalMicroSteps - k
<1> DEFINE P(j) == Replay(Clean, j)
           T == {j \in 0 .. TotalMicroSteps : OnCourse(P(j), j) /\ IsSteady(P(j).pool)}
<1>1. TotalMicroSteps \in Nat /\ NoFault \in FaultyReads /\ Source(NoFault) = Clean
  BY RunConstants DEF FaultyReads, Clean
<1>2. 0 \in T
  <2>1. 0 \in 0 .. TotalMicroSteps /\ 0 .. 0 - 1 = {}
    BY <1>1
  <2>2. OnCourse(P(0), 0)
    BY <1>1, <2>1, ReplayAlike
  <2>3. P(0).pool = NewPool(ShuffleBuffer)
    BY ReplayIterates DEF NewPlan
  <2>4. QED BY <2>1, <2>2, <2>3 DEF IsSteady
<1>3. ASSUME NEW j \in 0 .. TotalMicroSteps - 1, j \in T PROVE j + 1 \in T
  <2>1. j + 1 \in 0 .. TotalMicroSteps /\ j + 1 \in 1 .. TotalMicroSteps /\ (j + 1) - 1 = j
    BY <1>1, <1>3
  <2>2. OnCourse(P(j), j) /\ IsSteady(P(j).pool)
    BY <1>3
  <2>3. P(j + 1) = Called(P(j), Clean)
    BY <2>1, ReplayIterates
  <2> DEFINE q == P(j)
  <2> HIDE DEF P
  <2>4. q.step = j /\ q.remaining = TotalMicroSteps - j /\ q.remaining \in Nat \ {0}
    BY <1>1, <1>3, <2>2 DEF OnCourse, P
  <2> DEFINE n == NextBatch(q, Clean)
             g == Groups(q.pool, Clean, q.step)
  <2>5. P(j + 1) = n.plan
    BY <2>3, <2>4 DEF Called
  <2>6. GoodBatch(g, q.step)
    BY <2>2, CleanGroups
  <2>7. n = Planned(q, g)
    BY DEF NextBatch
  <2> HIDE DEF n, g, q
  <2>8. n.result # <<>> /\ n.plan.pool = g.pool
    BY <2>6, <2>7 DEF GoodBatch, Planned
  <2>9. OnCourse(n.plan, j + 1)
    BY <1>1, <1>3, <2>2, <2>4, <2>8, NextAlike DEF n, q
  <2>10. QED BY <2>1, <2>5, <2>6, <2>8, <2>9 DEF GoodBatch
<1> HIDE DEF T
<1>4. k \in T
  BY <1>1, <1>2, <1>3, CountUp
<1>5. OnCourse(P(k), k) /\ IsSteady(P(k).pool)
  BY <1>4 DEF T
<1>6. QED BY <1>5 DEF OnCourse

\* What CleanBatch is: one batch, plain in the last steps.
LEMMA CleanBatches ==
    ASSUME WordsAreNumbers, NEW k \in 0 .. TotalMicroSteps - 1
    PROVE  CleanBatch(k) # <<>> /\ (~(k < MosaicSteps) => CleanBatch(k)[1].groups \in Seq(Plain))
<1> DEFINE q == Replay(Clean, k)
           g == Groups(q.pool, Clean, q.step)
<1>1. CleanBatch(k) = Planned(q, g).result
  BY DEF CleanBatch, NextBatch, Clean
<1>2. k \in 0 .. TotalMicroSteps
  BY RunConstants
<1>3. IsSteady(q.pool) /\ q.step = k
  BY <1>2, CleanReplay DEF OnCourse
<1> HIDE DEF q
<1>4. GoodBatch(g, k)
  BY <1>3, CleanGroups
<1> HIDE DEF g
<1>5. CleanBatch(k) = <<[groups |-> g.groups, size |-> StepSize(q.step)]>>
  BY <1>1, <1>4 DEF GoodBatch, Planned
<1>6. QED BY <1>4, <1>5 DEF GoodBatch

\* The next batch of an iterator that is where the undisturbed one is.
LEMMA NextClean ==
    ASSUME WordsAreNumbers, NEW k \in 0 .. TotalMicroSteps - 1,
           NEW p, p.step = k, p.pool = Replay(Clean, k).pool
    PROVE  LET n == NextBatch(p, Clean)
           IN  n.result # <<>> /\ n.plan.pool = Replay(Clean, k + 1).pool
<1> DEFINE q == Replay(Clean, k)
           g == Groups(p.pool, Clean, k)
           n == NextBatch(p, Clean)
           o == NextBatch(q, Clean)
<1>1. k \in 0 .. TotalMicroSteps /\ k + 1 \in 1 .. TotalMicroSteps /\ (k + 1) - 1 = k
      /\ TotalMicroSteps - k # 0
  BY RunConstants
<1>2. q.step = k /\ q.remaining # 0 /\ IsSteady(q.pool)
  BY <1>1, CleanReplay DEF OnCourse
<1>3. Replay(Clean, k + 1) = Called(q, Clean)
  BY <1>1, ReplayIterates
<1>4. n = Planned(p, g) /\ o = Planned(q, g)
  BY <1>2 DEF NextBatch
<1>5. p.pool = q.pool
  OBVIOUS
<1> HIDE DEF q, o
<1>6. Replay(Clean, k + 1) = o.plan
  BY <1>2, <1>3 DEF Called, o
<1>7. GoodBatch(g, k)
  BY <1>2, <1>5, CleanGroups
<1> HIDE DEF g, n
<1>8. n.result # <<>> /\ n.plan.pool = g.pool /\ o.plan.pool = g.pool
  BY <1>4, <1>7 DEF GoodBatch, Planned
<1>9. QED BY <1>6, <1>8 DEF n

\* The first n entries of the undisturbed run.
LEMMA UndisturbedIs ==
    ASSUME NEW n \in 0 .. TotalMicroSteps
    PROVE  /\ Len(UndisturbedTo(n)) = n /\ DOMAIN UndisturbedTo(n) = 1 .. n
           /\ \A k \in 1 .. n : UndisturbedTo(n)[k] = Entry(CleanBatch(k - 1)[1], (k - 1) \div Accumulation)
<1> DEFINE e(k) == Entry(CleanBatch(k - 1)[1], (k - 1) \div Accumulation)
           S == {e(k) : k \in 1 .. TotalMicroSteps}
<1>1. TotalMicroSteps \in Nat /\ n \in Nat /\ n <= TotalMicroSteps
  BY RunConstants
<1>2. Undisturbed = [k \in 1 .. TotalMicroSteps |-> e(k)]
  BY DEF Undisturbed
<1> HIDE DEF e
<1>3. Undisturbed \in Seq(S) /\ Len(Undisturbed) = TotalMicroSteps
      /\ \A k \in 1 .. TotalMicroSteps : Undisturbed[k] = e(k)
  BY <1>1, <1>2
<1> HIDE DEF S
<1>4. /\ Len(SubSeq(Undisturbed, 1, n)) = n /\ DOMAIN SubSeq(Undisturbed, 1, n) = 1 .. n
      /\ \A k \in 1 .. n : SubSeq(Undisturbed, 1, n)[k] = Undisturbed[k]
  BY <1>1, <1>3
<1>5. \A k \in 1 .. n : k \in 1 .. TotalMicroSteps
  BY <1>1
<1>6. QED BY <1>3, <1>4, <1>5 DEF UndisturbedTo, e

-----------------------------------------------------------------------------
\* The schedules.

\* What a session is trained on with the L1 loss is plain.
LEMMA LastStepsPlain == WordsAreNumbers /\ SessionInv => AugmentationEndsWithL1
<1> SUFFICES ASSUME WordsAreNumbers, SessionInv, NEW k \in DOMAIN session, session[k].l1
             PROVE  \A g \in DOMAIN session[k].groups :
                       Len(session[k].groups[g].samples) = 1 /\ session[k].groups[g].mixup = <<>>
  BY DEF AugmentationEndsWithL1
<1> DEFINE step == (k - 1) \div Accumulation
<1>1. /\ micro \in 0 .. TotalMicroSteps /\ k \in 1 .. micro /\ session[k] = Entry(CleanBatch(k - 1)[1], step)
  BY UndisturbedIs DEF SessionInv
<1>2. k - 1 \in Nat /\ k - 1 \in 0 .. TotalMicroSteps - 1
  BY <1>1, RunConstants
<1>3. step \in TotalSteps - NoAugmentationSteps .. TotalSteps - 1
      /\ session[k].groups = CleanBatch(k - 1)[1].groups
  <2> DEFINE D == TotalSteps - NoAugmentationSteps .. TotalSteps - 1
             b == CleanBatch(k - 1)[1]
  <2> HIDE DEF step, b
  <2> DEFINE last == step \in D
  <2>1. session[k] = [groups |-> b.groups, size |-> b.size, rate |-> step, l1 |-> last]
    BY <1>1 DEF Entry, b
  <2>6. last \in BOOLEAN
    OBVIOUS
  <2> HIDE DEF D, last
  <2>2. session[k].groups = b.groups
    BY <2>1
  <2>3. session[k].l1 = last
    BY <2>1
  <2>4. last = TRUE
    BY <2>3, <2>6
  <2>5. QED BY <2>2, <2>4 DEF D, b, last
<1>4. step >= TotalSteps - NoAugmentationSteps /\ step \in Nat
  <2>1. step \in Nat
    BY <1>2, OneMore, RunConstants
  <2> HIDE DEF step
  <2>2. QED BY <1>3, <2>1, RunConstants
<1>5. ~(k - 1 < MosaicSteps)
  <2> DEFINE a == k - 1
             b == TotalSteps - NoAugmentationSteps
  <2>1. a \in Nat /\ b \in Nat /\ Accumulation \in Nat \ {0} /\ a \div Accumulation >= b
    BY <1>2, <1>4, RunConstants
  <2>2. MosaicSteps = b * Accumulation /\ a \div Accumulation \in Nat
    BY <1>4 DEF MosaicSteps
  <2> HIDE DEF a, b
  <2>3. b * Accumulation \in Nat
    BY <2>1, Multiples
  <2>4. ASSUME a < b * Accumulation PROVE FALSE
    <3>1. a \div Accumulation < b
      BY <2>1, <2>3, <2>4, NotMore
    <3>2. QED BY <2>1, <2>2, <3>1
  <2>5. QED BY <2>1, <2>2, <2>3, <2>4 DEF a
<1>6. session[k].groups \in Seq(Plain)
  BY <1>2, <1>3, <1>5, CleanBatches
<1> HIDE DEF step
<1>7. QED
  <2> SUFFICES ASSUME NEW g \in DOMAIN session[k].groups
               PROVE  Len(session[k].groups[g].samples) = 1 /\ session[k].groups[g].mixup = <<>>
    OBVIOUS
  <2>1. session[k].groups[g] \in Plain
    <3> HIDE DEF Plain
    <3>1. QED BY <1>6
  <2>2. QED BY <2>1 DEF Plain

-----------------------------------------------------------------------------
\* Why a run ends.

\* Without a fault nothing in the queue is an error and the iterator is where the
\* undisturbed one is.
NoErrors ==
    phase # "down" /\ run.fault = NoFault =>
        /\ \A j \in 1 .. Len(queue) : queue[j] # <<>>
        /\ producing => plan.pool = Replay(Clean, micro + Len(queue)).pool
RunShape ==
    /\ runs \in 0 .. MaxRuns
    /\ phase \in {"down", "training", "snapshot", "saving model", "saving state"}
    /\ reason \in {"none", "data", "exists", "panic", "count", "crash"}
    /\ Len(queue) \in 0 .. QueueSize
    /\ plan.step \in Nat /\ plan.remaining \in Nat /\ plan.step + plan.remaining <= TotalMicroSteps
ScheduleInv == RunShape /\ NoErrors /\ (reason = "data" => run.fault # NoFault)

\* The program has not been started.
LEMMA ScheduleStarts == RunInit => ScheduleInv
<1> SUFFICES ASSUME RunInit PROVE ScheduleInv
  OBVIOUS
<1>1. /\ runs = 0 /\ phase = "down" /\ reason = "none" /\ queue = <<>>
      /\ plan.step = 0 /\ plan.remaining = 0
  BY DEF RunInit, NewPlan
<1>2. Len(queue) = 0 /\ MaxRuns \in Nat /\ QueueSize \in Nat /\ TotalMicroSteps \in Nat
  BY <1>1, RunConstants
<1>3. QED BY <1>1, <1>2 DEF ScheduleInv, RunShape, NoErrors

\* A run that starts replays the data it is resumed behind, which only a fault can end.
LEMMA StartExplained ==
    ASSUME WordsAreNumbers, TrainingInv, ScheduleInv, Start
    PROVE  ScheduleInv'
<1>1. PICK from \in Snapshots \union {NoFile}, output \in Outputs, limit \in RunLimits,
           fault \in FailingReads \union {NoFault} : Begin(from, output, limit, fault)
  BY DEF Start
<1> DEFINE resumedAt == IF from = NoFile THEN 0 ELSE disk[from].completed
           first == resumedAt * Accumulation
           replayed == Replay(Source(fault), first)
           remaining == Min({replayed.remaining, limit * Accumulation})
<1>2. BeginAt(from, output, limit, fault, resumedAt, replayed)
  BY <1>1 DEF Begin
<1>3. resumedAt \in 0 .. TotalSteps
  <2>1. CASE from = NoFile
    BY <2>1, RunConstants
  <2>2. CASE from # NoFile
    <3>1. from \in Files /\ disk[from] # NoFile
      BY <2>2 DEF Snapshots
    <3>2. QED BY <2>2, <3>1 DEF TrainingInv, DiskInv
  <2>3. QED BY <2>1, <2>2
<1>4. first \in 0 .. TotalMicroSteps
  <2>1. TotalSteps \in Nat /\ Accumulation \in Nat \ {0} /\ resumedAt \in Nat /\ resumedAt <= TotalSteps
        /\ TotalMicroSteps \in Nat
    BY <1>3, RunConstants
  <2> HIDE DEF resumedAt
  <2>2. first \in Nat /\ first <= TotalSteps * Accumulation
    BY <2>1, Multiples, MultipleOrder
  <2> HIDE DEF first
  <2>3. QED BY <2>1, <2>2 DEF TotalMicroSteps
<1>5. fault = NoFault => replayed.step = first /\ replayed = Replay(Clean, first)
  <2> HIDE DEF first
  <2>1. fault = NoFault => replayed = Replay(Clean, first)
    BY DEF Clean
  <2>2. QED BY <1>4, <2>1, CleanReplay DEF OnCourse
<1>6. /\ runs' = runs + 1
      /\ run' = [resumedAt |-> resumedAt, fault |-> fault, output |-> output,
                 expected |-> first + remaining, variants |-> ActiveSizes(first, remaining)]
      /\ IF first > 0 /\ replayed.step # first
         THEN /\ phase' = "down" /\ reason' = "data"
              /\ UNCHANGED <<plan, producing, current, session, completed, micro>>
         ELSE /\ phase' = "training" /\ reason' = "none"
              /\ plan' = [replayed EXCEPT !.remaining = remaining]
              /\ producing' = TRUE
              /\ micro' = first
      /\ queue' = <<>>
  BY <1>2 DEF BeginAt
<1> HIDE DEF replayed, remaining, first, resumedAt
<1>7. runs' \in 0 .. MaxRuns
  <2>1. runs < MaxRuns
    BY DEF Start
  <2>2. runs \in 0 .. MaxRuns /\ MaxRuns \in Nat
    BY RunConstants DEF ScheduleInv, RunShape
  <2>3. QED BY <1>6, <2>1, <2>2
<1>8. Len(queue') = 0 /\ Len(queue') \in 0 .. QueueSize /\ 1 .. 0 = {} /\ first + 0 = first
  BY <1>4, <1>6, RunConstants
<1>9. CASE first > 0 /\ replayed.step # first
  <2>1. phase' = "down" /\ reason' = "data" /\ plan' = plan /\ run'.fault = fault /\ fault # NoFault
    BY <1>5, <1>6, <1>9
  <2>2. QED BY <1>7, <1>8, <2>1 DEF ScheduleInv, RunShape, NoErrors
<1>10. CASE ~(first > 0 /\ replayed.step # first)
  <2>1. /\ phase' = "training" /\ reason' = "none" /\ producing' /\ micro' = first /\ run'.fault = fault
        /\ plan' = [replayed EXCEPT !.remaining = remaining]
    BY <1>6, <1>10
  <2>2. QueueInv' /\ ActiveInv'
    <3>1. TrainingInv'
      BY StartKeeps
    <3>2. QED BY <2>1, <3>1 DEF TrainingInv, ActiveInv
  <2>3. /\ plan'.step = first /\ plan'.remaining = run'.expected - first /\ plan'.remaining \in Nat
        /\ run'.expected \in 0 .. TotalMicroSteps /\ "pool" \in DOMAIN plan'
    <3>1. micro' + Len(queue') = first
      BY <1>8, <2>1
    <3>2. OnCourse(plan', micro' + Len(queue')) /\ plan'.remaining = run'.expected - (micro' + Len(queue'))
          /\ plan'.remaining \in Nat /\ run'.expected \in 0 .. TotalMicroSteps
      BY <2>1, <2>2 DEF QueueInv, ActiveInv, OnCourse, IsPlan
    <3>3. QED BY <3>1, <3>2 DEF OnCourse, IsPlan
  <2>4. plan'.pool = replayed.pool
    BY <2>1, <2>3
  <2>5. plan'.step \in Nat /\ plan'.step + plan'.remaining <= TotalMicroSteps
    BY <1>4, <2>3, RunConstants
  <2>6. RunShape'
    BY <1>7, <1>8, <2>1, <2>3, <2>5 DEF RunShape
  <2>7. NoErrors'
    <3>1. micro' + Len(queue') = first
      BY <1>8, <2>1
    <3>2. fault = NoFault => plan'.pool = Replay(Clean, first).pool
      BY <1>5, <2>4
    <3>3. fault = NoFault => (plan.pool = Replay(Clean, micro + Len(queue)).pool)'
      BY <3>1, <3>2
    <3>4. QED BY <1>8, <2>1, <3>3 DEF NoErrors
  <2>8. QED BY <2>1, <2>6, <2>7 DEF ScheduleInv
<1>11. QED BY <1>9, <1>10

\* Without a fault the source worker adds no error.
LEMMA ProduceExplained ==
    ASSUME WordsAreNumbers, TrainingInv, ScheduleInv, Produce
    PROVE  ScheduleInv'
<1> DEFINE l == Len(queue)
           k == micro + l
           n == NextBatch(plan, Source(run.fault))
<1>1. /\ phase # "down" /\ producing /\ l < QueueSize
      /\ IF plan.remaining = 0
         THEN producing' = FALSE /\ UNCHANGED <<plan, queue>>
         ELSE Prepared(n)
      /\ UNCHANGED <<disk, runs, phase, reason, run, current, session, completed, micro>>
  BY DEF Produce
<1>2. /\ ActiveInv /\ queue \in Seq(Batches) /\ run.fault \in FaultyReads
      /\ OnCourse(plan, k) /\ plan.remaining = run.expected - k /\ plan.remaining \in Nat
  BY <1>1 DEF TrainingInv, ActiveInv, QueueInv
<1>3. micro \in Nat /\ l \in Nat /\ k \in Nat /\ run.expected \in Nat /\ run.expected <= TotalMicroSteps
      /\ TotalMicroSteps \in Nat
  BY <1>1, RunCounts
<1>4. CASE plan.remaining = 0
  BY <1>1, <1>4 DEF ScheduleInv, RunShape, NoErrors
<1>5. CASE plan.remaining # 0
  <2>1. /\ plan' = n.plan /\ queue' = Append(queue, n.result) /\ producing' = (n.result # <<>>)
        /\ micro' = micro /\ run' = run /\ phase' = phase /\ reason' = reason /\ runs' = runs
    BY <1>1, <1>5 DEF Prepared
  <2>2. k \in 0 .. TotalMicroSteps - 1 /\ k + 1 <= run.expected /\ plan.remaining \in Nat \ {0}
    BY <1>2, <1>3, <1>5
  <2> HIDE DEF n, k
  <2>3. \/ n.result = <<>> /\ n.plan.remaining = 0 /\ n.plan.step = k
        \/ n.plan.step = k + 1 /\ n.plan.remaining = plan.remaining - 1 /\ n.result = CleanBatch(k)
    BY <1>2, <2>2, NextAlike DEF n, OnCourse
  <2>4. n.plan.step \in Nat /\ n.plan.remaining \in Nat /\ n.plan.step + n.plan.remaining <= TotalMicroSteps
    <3>1. /\ k \in Nat /\ TotalMicroSteps \in Nat /\ plan.remaining \in Nat \ {0}
          /\ k + plan.remaining <= TotalMicroSteps /\ k <= TotalMicroSteps
      BY <1>2, <1>3, <2>2
    <3>2. CASE n.plan.remaining = 0 /\ n.plan.step = k
      BY <3>1, <3>2
    <3>3. CASE n.plan.step = k + 1 /\ n.plan.remaining = plan.remaining - 1
      BY <3>1, <3>3
    <3>4. QED BY <2>3, <3>2, <3>3
  <2>5. n.result \in Batches
    BY <2>2, <2>3 DEF Batches
  <2>6. /\ Len(queue') = l + 1 /\ queue'[l + 1] = n.result /\ \A j \in 1 .. l : queue'[j] = queue[j]
    BY <1>2, <2>1, <2>5
  <2>7. RunShape'
    <3>1. l + 1 \in 0 .. QueueSize
      BY <1>1, <1>3, RunConstants
    <3>2. QED BY <2>1, <2>4, <2>6, <3>1 DEF ScheduleInv, RunShape
  <2>8. ASSUME run.fault = NoFault
        PROVE  n.result # <<>> /\ n.plan.pool = Replay(Clean, k + 1).pool
    <3>1. n = NextBatch(plan, Clean)
      BY <2>8 DEF n, Clean
    <3>2. plan.step = k
      BY <1>2 DEF OnCourse
    <3>3. plan.pool = Replay(Clean, k).pool
      BY <1>1, <2>8 DEF ScheduleInv, NoErrors, k
    <3>4. QED BY <2>2, <3>1, <3>2, <3>3, NextClean
  <2>9. NoErrors'
    <3>1. \A j \in 1 .. l + 1 : j \in 1 .. l \/ j = l + 1
      BY <1>3
    <3>2. micro' + Len(queue') = k + 1
      BY <1>3, <2>1, <2>6 DEF k
    <3>3. run.fault = NoFault => \A j \in 1 .. Len(queue') : queue'[j] # <<>>
      BY <1>1, <2>6, <2>8, <3>1 DEF ScheduleInv, NoErrors
    <3>4. run.fault = NoFault => (plan.pool = Replay(Clean, micro + Len(queue)).pool)'
      BY <2>1, <2>8, <3>2
    <3>5. QED BY <2>1, <3>3, <3>4 DEF NoErrors
  <2>10. QED BY <2>1, <2>7, <2>9 DEF ScheduleInv
<1>6. QED BY <1>4, <1>5

\* A turn of the loop takes the first batch of the queue.
LEMMA TrainExplained ==
    ASSUME WordsAreNumbers, TrainingInv, ScheduleInv, Train
    PROVE  ScheduleInv'
<1> DEFINE b == Head(queue)
<1>1. /\ phase = "training" /\ queue # <<>> /\ queue' = Tail(queue)
      /\ UNCHANGED <<disk, runs, run, plan, producing>>
      /\ IF b = <<>>
         THEN phase' = "down" /\ reason' = "data"
         ELSE IF b[1].size \notin run.variants
         THEN phase' = "down" /\ reason' = "panic"
         ELSE /\ micro' = micro + 1 /\ reason' = reason
              /\ phase' \in {"snapshot", "training"}
  BY DEF Train
<1>2. /\ queue \in Seq(Batches) /\ Len(queue) \in Nat \ {0} /\ b = queue[1] /\ micro \in Nat
      /\ Len(Tail(queue)) = Len(queue) - 1
      /\ \A j \in 1 .. Len(queue) - 1 : Tail(queue)[j] = queue[j + 1]
  <2>1. queue \in Seq(Batches)
    BY <1>1 DEF TrainingInv, ActiveInv, QueueInv
  <2>2. micro \in Nat
    BY RunCounts
  <2>3. QED BY <1>1, <2>1, <2>2
<1> HIDE DEF b
<1>3. Len(queue') \in 0 .. QueueSize /\ Len(queue') = Len(queue) - 1
  BY <1>1, <1>2, RunConstants DEF ScheduleInv, RunShape
<1>4. RunShape'
  BY <1>1, <1>3 DEF ScheduleInv, RunShape
<1>5. b = <<>> => run.fault # NoFault
  <2>1. 1 \in 1 .. Len(queue)
    BY <1>2
  <2>2. QED BY <1>1, <1>2, <2>1 DEF ScheduleInv, NoErrors
<1>6. CASE phase' = "down"
  <2>1. reason' = "data" => b = <<>>
    BY <1>1, <1>6
  <2>2. QED BY <1>1, <1>4, <1>5, <1>6, <2>1 DEF ScheduleInv, NoErrors
<1>7. CASE phase' # "down"
  <2>1. micro' = micro + 1 /\ reason' = reason /\ run' = run /\ plan' = plan /\ producing' = producing
    BY <1>1, <1>7
  <2>2. micro' + Len(queue') = micro + Len(queue)
    BY <1>2, <1>3, <2>1
  <2>3. ASSUME run.fault = NoFault
        PROVE  (\A j \in 1 .. Len(queue) : queue[j] # <<>>)'
    <3>1. \A j \in 1 .. Len(queue) - 1 : j + 1 \in 1 .. Len(queue)
      BY <1>2
    <3>2. \A j \in 1 .. Len(queue) : queue[j] # <<>>
      BY <1>1, <2>3 DEF ScheduleInv, NoErrors
    <3>3. QED BY <1>1, <1>2, <1>3, <3>1, <3>2
  <2>4. ASSUME run.fault = NoFault, producing
        PROVE  (plan.pool = Replay(Clean, micro + Len(queue)).pool)'
    <3>1. plan.pool = Replay(Clean, micro + Len(queue)).pool
      BY <1>1, <2>4 DEF ScheduleInv, NoErrors
    <3>2. QED BY <2>1, <2>2, <3>1
  <2>5. NoErrors'
    BY <2>1, <2>3, <2>4 DEF NoErrors
  <2>6. QED BY <1>4, <2>1, <2>5 DEF ScheduleInv
<1>8. QED BY <1>6, <1>7

\* Publishing, finishing and dying touch neither the queue nor the iterator.
LEMMA StillExplained ==
    ASSUME ScheduleInv, phase # "down",
           phase' \in {"down", "training", "saving model", "saving state"},
           reason' = reason \/ reason' \in {"exists", "crash"},
           UNCHANGED <<runs, run, plan, queue, producing, micro>>
    PROVE  ScheduleInv'
<1>1. RunShape /\ NoErrors /\ (reason = "data" => run.fault # NoFault)
  BY DEF ScheduleInv
<1>2. RunShape'
  BY <1>1 DEF RunShape
<1>3. NoErrors'
  BY <1>1 DEF NoErrors
<1>4. QED BY <1>1, <1>2, <1>3 DEF ScheduleInv

\* Every step keeps that.
LEMMA ScheduleSteps ==
    ASSUME WordsAreNumbers, TrainingInv, ScheduleInv, [RunNext]_runVars
    PROVE  ScheduleInv'
<1>1. CASE Start
  BY <1>1, StartExplained
<1>2. CASE Produce
  BY <1>2, ProduceExplained
<1>3. CASE Train
  BY <1>3, TrainExplained
<1> DEFINE Saves(file, to) ==
              /\ phase # "down" /\ to \in {"down", "training", "saving state"} /\ Publish(file, to)
              /\ UNCHANGED <<runs, run, plan, queue, producing, current, session, completed, micro>>
<1>4. ASSUME NEW file, NEW to, Saves(file, to) PROVE ScheduleInv'
  <2>1. /\ phase' \in {"down", "training", "saving state"}
        /\ reason' = reason \/ reason' = "exists"
    BY <1>4 DEF Publish
  <2>2. QED BY <1>4, <2>1, StillExplained
<1>9. CASE SavePeriodic
  <2>1. Saves(PeriodicFile(run.output, completed), "training")
    BY <1>9 DEF SavePeriodic
  <2> HIDE DEF Saves
  <2>2. QED BY <1>4, <2>1
<1>10. CASE SaveModel
  <2>1. Saves(ModelFile(run.output), "saving state")
    BY <1>10 DEF SaveModel
  <2> HIDE DEF Saves
  <2>2. QED BY <1>4, <2>1
<1>11. CASE SaveTraining
  <2>1. Saves(TrainingFile(run.output), "down")
    BY <1>11 DEF SaveTraining
  <2> HIDE DEF Saves
  <2>2. QED BY <1>4, <2>1
<1>5. CASE Finish
  <2>1. TrainingInv'
    BY <1>5, TrainingSteps DEF RunNext
  <2>2. /\ phase = "training" /\ phase' \in {"down", "saving model"}
        /\ reason' = reason \/ reason' = "count"
        /\ UNCHANGED <<runs, run, plan, queue, producing, micro>>
    BY <1>5 DEF Finish
  <2>3. reason' = reason
    BY <2>1, <2>2 DEF TrainingInv
  <2>4. QED BY <2>2, <2>3, StillExplained
<1>6. CASE Crash
  BY <1>6, StillExplained DEF Crash
<1>7. CASE UNCHANGED runVars
  <2>1. NoErrors => NoErrors'
    BY <1>7 DEF runVars, NoErrors
  <2>2. QED BY <1>7, <2>1 DEF runVars, ScheduleInv, RunShape
<1>8. QED BY <1>1, <1>2, <1>3, <1>5, <1>6, <1>7, <1>9, <1>10, <1>11 DEF RunNext

\* The two invariants have what the run's part of SchedulesAgree says.
LEMMA SchedulesOfRun ==
    WordsAreNumbers /\ TrainingInv /\ ScheduleInv
        => RunTypeOK /\ AugmentationEndsWithL1 /\ FailuresExplained
<1> SUFFICES ASSUME WordsAreNumbers, TrainingInv, ScheduleInv
             PROVE  RunTypeOK /\ AugmentationEndsWithL1 /\ FailuresExplained
  OBVIOUS
<1>1. SessionInv
  BY DEF TrainingInv
<1>2. AugmentationEndsWithL1
  BY <1>1, LastStepsPlain
<1>3. FailuresExplained
  BY DEF TrainingInv, ScheduleInv, FailuresExplained
<1>4. micro = Len(session) /\ completed = micro \div Accumulation /\ micro \in 0 .. TotalMicroSteps
  BY <1>1, UndisturbedIs DEF SessionInv
<1>5. completed \in 0 .. TotalSteps
  BY RunCounts
<1>6. Len(queue) <= QueueSize
  <2>1. Len(queue) \in 0 .. QueueSize /\ QueueSize \in Nat
    BY RunConstants DEF ScheduleInv, RunShape
  <2>2. QED BY <2>1
<1>7. RunTypeOK
  BY <1>4, <1>5, <1>6 DEF RunTypeOK, ScheduleInv, RunShape
<1>8. QED BY <1>2, <1>3, <1>7

-----------------------------------------------------------------------------
\* The slots of the training session.

TrainingNames == Weights \cup ModelState \cup TransformState
InferenceNames == Weights \cup ModelState

\* The constants, one by one.
LEMMA StepConstants ==
    /\ Prime \in Nat \ {0} /\ 1 \in 0 .. Prime - 1 /\ 0 \in 0 .. Prime - 1
    /\ Steps \in Nat \ {0} /\ Steps - 1 \in 0 .. Prime - 1
    /\ MaxUpdates \in Nat /\ MaxUpdates <= Prime - 1
    /\ LearningRate \in Int /\ (\A u \in 0 .. MaxUpdates : Decay(u) \in Int)
    /\ \A p \in Params : /\ Options[p].momentum \in Int /\ Options[p].dampening \in Int
                         /\ Options[p].decay \in Int /\ Options[p].nesterov \in BOOLEAN
    /\ Statistics \subseteq Int /\ (\A g \in Gradients : \A p \in Params : g[p] \in Int)
  BY StepAssumption

\* An element of the field.
LEMMA ElemTyped == \A x \in Int : Elem(x) \in Numbers /\ Elem(x) \in Int
  BY StepConstants DEF Elem, Numbers

\* The inverse of Steps is one.
LEMMA InverseOfSteps ==
    /\ FieldInverse(Steps) \in Numbers /\ FieldInverse(Steps) \in Int
    /\ Elem(Steps * FieldInverse(Steps)) = 1
<1>1. \E y \in 0 .. Prime - 1 : Elem(Steps * y) = 1
  BY StepAssumption
<1>2. FieldInverse(Steps) \in 0 .. Prime - 1 /\ Elem(Steps * FieldInverse(Steps)) = 1
  BY <1>1 DEF FieldInverse
<1>3. QED BY <1>2, StepConstants DEF Numbers

\* The names are those of different slots.
LEMMA NamesDiffer ==
    /\ \A p : Weight(p)[2] = p /\ Accumulator(p)[2] = p /\ Momentum(p)[2] = p
    /\ Count \notin InferenceNames /\ Average \notin InferenceNames /\ Updates \notin InferenceNames
    /\ Count # Updates /\ Count # Average /\ Updates # Average
    /\ \A p : /\ {Accumulator(p), Momentum(p)} \cap InferenceNames = {}
              /\ {Weight(p), Accumulator(p), Momentum(p)} \cap {Count, Updates, Average} = {}
              /\ Weight(p) \notin ModelState
              /\ \A q : Accumulator(p) # Momentum(q) /\ Accumulator(p) # Weight(q) /\ Momentum(p) # Weight(q)
    /\ Running # Draws
<1>1. \A p, q : /\ Weight(p)[1] = "parameter" /\ Accumulator(p)[1] = "gradient_accumulator"
                /\ Momentum(p)[1] = "momentum"
  BY DEF Weight, Accumulator, Momentum
<1>2. /\ Running[1] = "state" /\ Draws[1] = "state" /\ Count[1] = "sgd" /\ Updates[1] = "ema" /\ Average[1] = "ema"
      /\ Running[2] = "running" /\ Draws[2] = "draws" /\ Updates[2] = "updates" /\ Average[2] = "parameters"
  BY DEF Running, Draws, Count, Updates, Average
<1>3. \A p : Weight(p)[2] = p /\ Accumulator(p)[2] = p /\ Momentum(p)[2] = p
  BY DEF Weight, Accumulator, Momentum
<1>4. \A n \in InferenceNames : n[1] = "parameter" \/ n[1] = "state"
  BY <1>1, <1>2 DEF InferenceNames, Weights, ModelState
<1>5. \A n \in ModelState : n[1] = "state"
  BY <1>2 DEF ModelState
<1>6. QED BY <1>1, <1>2, <1>3, <1>4, <1>5

\* All slots have values of their kind, and the counter counts the batches seen.
GoodSlots(s, seen) ==
    /\ IsSlots(s, TrainingNames)
    /\ s[Count] \in 0 .. Steps - 1 /\ s[Count] = Len(seen)
    /\ s[Updates] \in 0 .. MaxUpdates
StepInv ==
    /\ slots # Absent => GoodSlots(slots, batch.here)
    /\ inference # Absent => IsSlots(inference, InferenceNames)
    /\ buffers # Absent => IsSlots(buffers, InferenceNames) \/ GoodSlots(buffers, batch.taken)
    /\ batch \in [here : Seq(Gradients), taken : Seq(Gradients)]

\* What it says of single slots.
LEMMA SlotsTyped ==
    ASSUME NEW s, IsSlots(s, TrainingNames)
    PROVE  /\ DOMAIN s = TrainingNames
           /\ \A n \in TrainingNames \ {Average} : s[n] \in Numbers /\ s[n] \in Int
           /\ s[Average] \in [DOMAIN PackedNames -> Numbers]
           /\ {Running, Draws, Count, Updates, Average} \subseteq TrainingNames
           /\ \A p \in Params : /\ Weight(p) \in TrainingNames \ {Average}
                                /\ Accumulator(p) \in TrainingNames \ {Average}
                                /\ p \in WithMomentum => Momentum(p) \in TrainingNames \ {Average}
           /\ \A n \in {Running, Draws, Count, Updates} : n \in TrainingNames \ {Average}
<1>1. Numbers \subseteq Int
  BY StepConstants DEF Numbers
<1>2. {Running, Draws, Count, Updates, Average} \subseteq TrainingNames
  BY DEF TrainingNames, ModelState, TransformState
<1>3. \A p \in Params : /\ Weight(p) \in TrainingNames /\ Accumulator(p) \in TrainingNames
                        /\ p \in WithMomentum => Momentum(p) \in TrainingNames
  BY DEF TrainingNames, Weights, TransformState
<1>4. /\ \A p : Weight(p) # Average /\ Accumulator(p) # Average /\ Momentum(p) # Average
      /\ \A n \in {Running, Draws, Count, Updates} : n # Average
  <2>1. \A n \in ModelState : n # Average
    BY NamesDiffer DEF InferenceNames
  <2>2. QED BY <2>1, NamesDiffer DEF ModelState
<1>5. QED BY <1>1, <1>2, <1>3, <1>4 DEF IsSlots

\* The packed entries: every parameter, and the running statistic.
LEMMA PackedTyped ==
    /\ \A k \in DOMAIN PackedNames : PackedNames[k] \in Weights \cup {Running}
    /\ \A p \in Params : \E k \in DOMAIN PackedNames : PackedNames[k] = Weight(p)
    /\ \E k \in DOMAIN PackedNames : PackedNames[k] = Running
<1> DEFINE e(k) == Weight(ParameterList[k])
           n == Len(ParameterList)
           w == [k \in DOMAIN ParameterList |-> e(k)]
           S == Weights \cup {Running}
<1>1. ParameterList \in Seq(Params)
  BY StepAssumption
<1>2. n \in Nat /\ DOMAIN ParameterList = 1 .. n /\ \A k \in 1 .. n : ParameterList[k] \in Params
  BY <1>1
<1>3. \A k \in 1 .. n : e(k) \in S
  BY <1>2 DEF Weights
<1>4. w = [k \in 1 .. n |-> e(k)] /\ PackedNames = w \o <<Running>>
  BY <1>2 DEF PackedNames
<1> HIDE DEF e, w, n
<1>5. w \in Seq(S) /\ Len(w) = n /\ \A k \in 1 .. n : w[k] = e(k)
  BY <1>2, <1>3, <1>4
<1>6. Running \in S
  OBVIOUS
<1> HIDE DEF S
<1>7. /\ DOMAIN (w \o <<Running>>) = 1 .. n + 1 /\ (w \o <<Running>>)[n + 1] = Running
      /\ \A k \in 1 .. n : (w \o <<Running>>)[k] = w[k]
  BY <1>2, <1>5, <1>6
<1>8. /\ DOMAIN PackedNames = 1 .. n + 1 /\ PackedNames[n + 1] = Running
      /\ \A k \in 1 .. n : PackedNames[k] = e(k)
  BY <1>4, <1>5, <1>7
<1>9. \A k \in 1 .. n + 1 : k \in 1 .. n \/ k = n + 1
  BY <1>2
<1>10. \A p \in Params : \E k \in 1 .. n : p = ParameterList[k]
  BY <1>2 DEF Params, Range
<1>11. n + 1 \in 1 .. n + 1 /\ \A k \in 1 .. n : k \in 1 .. n + 1
  BY <1>2
<1>12. QED BY <1>3, <1>6, <1>8, <1>9, <1>10, <1>11 DEF S, e

\* Every slot has one of these names.
LEMMA NamesAre ==
    ASSUME NEW n \in TrainingNames
    PROVE  \/ n \in {Running, Draws, Count, Updates, Average}
           \/ \E p \in Params : n = Weight(p) \/ n = Accumulator(p) \/ (n = Momentum(p) /\ p \in WithMomentum)
<1>1. \A q \in WithMomentum : q \in Params
  BY DEF WithMomentum
<1>2. CASE n \in Weights
  BY <1>2 DEF Weights
<1>3. CASE n \in ModelState
  BY <1>3 DEF ModelState
<1>4. CASE n \in TransformState
  BY <1>1, <1>4 DEF TransformState
<1>5. QED BY <1>2, <1>3, <1>4 DEF TrainingNames

\* What one run leaves in the slots.
LEMMA RunSlots ==
    ASSUME NEW g \in Gradients, NEW t \in Statistics, Run(g, t), IsSlots(slots, TrainingNames)
    PROVE  /\ slots' = [n \in TrainingNames |-> slots'[n]]
           /\ slots'[Count] = Masked(0, NextCount)
           /\ slots'[Updates] = slots[Updates] + Masked(1, 0)
           /\ slots'[Running] = Masked(Elem(slots[Running] + t), slots[Running])
           /\ slots'[Draws] = Elem(slots[Draws] + 1)
           /\ \A p \in Params : /\ slots'[Weight(p)] = NextWeight(g, p)
                                /\ slots'[Accumulator(p)] = NextAccumulator(Total(g, p))
                                /\ p \in WithMomentum =>
                                     slots'[Momentum(p)] = Masked(CandidateVelocity(g, p), slots[Momentum(p)])
           /\ \E written : /\ written[Running] = Elem(slots[Running] + t)
                           /\ \A p \in Params : written[Weight(p)] = NextWeight(g, p)
                           /\ slots'[Average] = NextAverage(written)
<1> DEFINE forward == [slots EXCEPT ![Running] = Elem(@ + t), ![Draws] = Elem(@ + 1)]
           written == [n \in DOMAIN slots |-> IF n \in Weights THEN NextWeight(g, n[2]) ELSE forward[n]]
           new(n) == IF n = Count THEN Masked(0, NextCount)
               ELSE IF n = Updates THEN slots[n] + Masked(1, 0)
               ELSE IF n = Average THEN NextAverage(written)
               ELSE IF n = Running THEN Gated(written[n])
               ELSE IF n \in {Accumulator(p) : p \in Params} THEN NextAccumulator(Total(g, n[2]))
               ELSE IF n \in {Momentum(p) : p \in WithMomentum}
                    THEN Masked(CandidateVelocity(g, n[2]), slots[n])
               ELSE written[n]
<1>1. slots' = [n \in DOMAIN slots |-> new(n)]
  BY DEF Run
<1>2. DOMAIN slots = TrainingNames
  BY SlotsTyped
<1> HIDE DEF new
<1>3. slots' = [n \in TrainingNames |-> new(n)]
  BY <1>1, <1>2
<1>4. \A n \in TrainingNames : slots'[n] = new(n)
  BY <1>3
<1>5. /\ {Running, Draws, Count, Updates, Average} \subseteq TrainingNames
      /\ \A p \in Params : /\ Weight(p) \in TrainingNames /\ Accumulator(p) \in TrainingNames
                           /\ p \in WithMomentum => Momentum(p) \in TrainingNames
  BY SlotsTyped
<1>6. /\ Running \in ModelState /\ Draws \in ModelState /\ Running \in InferenceNames /\ Draws \in InferenceNames
      /\ \A n \in ModelState : n \in InferenceNames
      /\ \A p \in Params : Weight(p) \in Weights
      /\ \A n \in Weights : \E p \in Params : n = Weight(p)
      /\ \A q \in WithMomentum : q \in Params
  BY DEF ModelState, InferenceNames, Weights, WithMomentum
<1>7. /\ forward[Running] = Elem(slots[Running] + t) /\ forward[Draws] = Elem(slots[Draws] + 1)
  BY <1>2, <1>5, NamesDiffer
<1> HIDE DEF forward
<1>8. \A n \in TrainingNames : written[n] = IF n \in Weights THEN NextWeight(g, n[2]) ELSE forward[n]
  BY <1>2
<1>9. Running \notin Weights /\ Draws \notin Weights
  BY <1>6, NamesDiffer
<1>10. /\ written[Running] = Elem(slots[Running] + t) /\ written[Draws] = Elem(slots[Draws] + 1)
       /\ \A p \in Params : written[Weight(p)] = NextWeight(g, p)
  <2> HIDE DEF written
  <2>1. QED BY <1>5, <1>6, <1>7, <1>8, <1>9, NamesDiffer
<1> HIDE DEF written
<1>11. /\ new(Count) = Masked(0, NextCount)
       /\ new(Updates) = slots[Updates] + Masked(1, 0)
       /\ new(Average) = NextAverage(written)
  BY NamesDiffer DEF new
<1>12. \A n \in {Running, Draws} : /\ n # Count /\ n # Updates /\ n # Average
                                   /\ \A p : n # Accumulator(p) /\ n # Momentum(p)
  BY <1>6, NamesDiffer
<1>13. new(Running) = Masked(Elem(slots[Running] + t), slots[Running]) /\ new(Draws) = Elem(slots[Draws] + 1)
  <2>1. Running # Draws
    BY NamesDiffer
  <2>2. QED BY <1>10, <1>12, <2>1 DEF new, Gated
<1>14. ASSUME NEW p \in Params
       PROVE  /\ new(Weight(p)) = NextWeight(g, p)
              /\ new(Accumulator(p)) = NextAccumulator(Total(g, p))
              /\ p \in WithMomentum => new(Momentum(p)) = Masked(CandidateVelocity(g, p), slots[Momentum(p)])
  <2>1. /\ \A n \in {Weight(p), Accumulator(p), Momentum(p)} : n # Count /\ n # Updates /\ n # Average /\ n # Running
        /\ \A q : /\ Weight(p) # Accumulator(q) /\ Weight(p) # Momentum(q) /\ Momentum(p) # Accumulator(q)
                  /\ Accumulator(p) # Momentum(q)
    BY <1>6, NamesDiffer
  <2>2. Weight(p)[2] = p /\ Accumulator(p)[2] = p /\ Momentum(p)[2] = p
    BY NamesDiffer
  <2>3. new(Weight(p)) = NextWeight(g, p)
    BY <1>10, <2>1 DEF new
  <2>4. new(Accumulator(p)) = NextAccumulator(Total(g, p))
    BY <2>1, <2>2 DEF new
  <2>5. p \in WithMomentum => new(Momentum(p)) = Masked(CandidateVelocity(g, p), slots[Momentum(p)])
    BY <2>1, <2>2 DEF new
  <2>6. QED BY <2>3, <2>4, <2>5
<1>15. slots' = [n \in TrainingNames |-> slots'[n]]
  BY <1>3
<1>16. QED BY <1>4, <1>5, <1>10, <1>11, <1>13, <1>14, <1>15

\* The values a run computes are elements of the field.
LEMMA RunTyped ==
    ASSUME NEW g \in Gradients, IsSlots(slots, TrainingNames), NEW p \in Params
    PROVE  /\ Total(g, p) \in Numbers /\ MeanGradient(g, p) \in Numbers /\ Decayed(g, p) \in Numbers
           /\ p \in WithMomentum => CandidateVelocity(g, p) \in Numbers
           /\ Direction(g, p) \in Numbers /\ NextWeight(g, p) \in Numbers
           /\ NextAccumulator(Total(g, p)) \in Numbers
<1>1. /\ slots[Weight(p)] \in Numbers /\ slots[Weight(p)] \in Int /\ slots[Accumulator(p)] \in Int
      /\ p \in WithMomentum => slots[Momentum(p)] \in Int /\ slots[Momentum(p)] \in Numbers
  BY SlotsTyped
<1>2. /\ g[p] \in Int /\ Options[p].momentum \in Int /\ Options[p].dampening \in Int
      /\ Options[p].decay \in Int /\ LearningRate \in Int /\ FieldInverse(Steps) \in Int
  BY StepConstants, InverseOfSteps
<1>3. \A a, b \in Int : a + b \in Int /\ a * b \in Int /\ a - b \in Int
  OBVIOUS
<1>4. Total(g, p) \in Numbers /\ Total(g, p) \in Int
  BY <1>1, <1>2, <1>3, ElemTyped DEF Total
<1>5. MeanGradient(g, p) \in Numbers /\ MeanGradient(g, p) \in Int
  BY <1>2, <1>3, <1>4, ElemTyped DEF MeanGradient
<1>6. Decayed(g, p) \in Numbers /\ Decayed(g, p) \in Int
  <2>1. Options[p].decay * slots[Weight(p)] \in Int
    BY <1>1, <1>2, <1>3
  <2>2. Elem(MeanGradient(g, p) + Options[p].decay * slots[Weight(p)]) \in Numbers
    BY <1>5, <2>1, <1>3, ElemTyped
  <2>3. Decayed(g, p) \in Numbers
    BY <1>5, <2>2 DEF Decayed
  <2>4. Numbers \subseteq Int
    BY StepConstants DEF Numbers
  <2>5. QED BY <2>3, <2>4
<1>7. ASSUME p \in WithMomentum PROVE CandidateVelocity(g, p) \in Numbers /\ CandidateVelocity(g, p) \in Int
  <2>1. Options[p].momentum * slots[Momentum(p)] \in Int /\ (1 - Options[p].dampening) * Decayed(g, p) \in Int
    BY <1>1, <1>2, <1>3, <1>6, <1>7
  <2>2. QED BY <1>3, <2>1, ElemTyped DEF CandidateVelocity
<1>8. Direction(g, p) \in Numbers /\ Direction(g, p) \in Int
  <2>1. CASE p \notin WithMomentum
    BY <1>6, <2>1 DEF Direction
  <2>2. CASE p \in WithMomentum
    <3>1. Options[p].momentum * CandidateVelocity(g, p) \in Int
      BY <1>2, <1>3, <1>7, <2>2
    <3>2. Elem(Decayed(g, p) + Options[p].momentum * CandidateVelocity(g, p)) \in Numbers
      BY <1>3, <1>6, <3>1, ElemTyped
    <3>3. Direction(g, p) \in Numbers
      BY <1>7, <2>2, <3>2 DEF Direction
    <3>4. Numbers \subseteq Int
      BY StepConstants DEF Numbers
    <3>5. QED BY <3>3, <3>4
  <2>3. QED BY <2>1, <2>2
<1>9. NextWeight(g, p) \in Numbers
  <2>1. slots[Weight(p)] - LearningRate * Direction(g, p) \in Int
    BY <1>1, <1>2, <1>3, <1>8
  <2>2. QED BY <1>1, <2>1, ElemTyped DEF NextWeight, Masked
<1>10. NextAccumulator(Total(g, p)) \in Numbers
  <2>1. Total(g, p) * 0 \in Int
    BY <1>3, <1>4
  <2>2. QED BY <1>4, <2>1, ElemTyped DEF NextAccumulator, Masked
<1>11. QED BY <1>4, <1>5, <1>6, <1>7, <1>8, <1>9, <1>10

\* Packed, the parameters and the running statistic are numbers, and so is the new average.
LEMMA AverageTyped ==
    ASSUME IsSlots(slots, TrainingNames), slots[Updates] \in 0 .. MaxUpdates - 1,
           NEW written, written[Running] \in Numbers, \A p \in Params : written[Weight(p)] \in Numbers
    PROVE  /\ Pack(slots) \in [DOMAIN PackedNames -> Numbers] /\ Pack(written) \in [DOMAIN PackedNames -> Numbers]
           /\ slots[Average] \in [DOMAIN PackedNames -> Numbers]
           /\ NextAverage(written) \in [DOMAIN PackedNames -> Numbers]
<1> DEFINE updates == slots[Updates] + Masked(1, 0)
           previous == IF slots[Updates] = 0 THEN Pack(slots) ELSE slots[Average]
           candidate(k) == Elem(previous[k] + (Pack(written)[k] - previous[k]) * (1 - Decay(updates)))
           D == DOMAIN PackedNames
<1>1. \A n \in Weights \cup {Running} : slots[n] \in Numbers /\ written[n] \in Numbers
  BY SlotsTyped DEF Weights
<1>2. Pack(slots) \in [D -> Numbers] /\ Pack(written) \in [D -> Numbers]
  BY <1>1, PackedTyped DEF Pack
<1>3. slots[Average] \in [D -> Numbers]
  BY SlotsTyped
<1>4. Decay(updates) \in Int /\ Numbers \subseteq Int
  BY StepConstants DEF Masked, Numbers
<1>5. previous \in [D -> Numbers] /\ DOMAIN previous = D
  BY <1>2, <1>3
<1>6. NextAverage(written) = [k \in DOMAIN previous |-> Masked(candidate(k), previous[k])]
  BY DEF NextAverage
<1> DEFINE packed == Pack(written)
<1> HIDE DEF updates, previous, D, packed
<1>7. ASSUME NEW k \in D PROVE candidate(k) \in Numbers
  <2>1. previous[k] \in Int /\ packed[k] \in Int
    BY <1>2, <1>4, <1>5 DEF packed
  <2>2. previous[k] + (packed[k] - previous[k]) * (1 - Decay(updates)) \in Int
    BY <1>4, <2>1
  <2>3. QED BY <2>2, ElemTyped DEF packed
<1> HIDE DEF candidate
<1>8. \A k \in D : Masked(candidate(k), previous[k]) \in Numbers
  BY <1>5, <1>7 DEF Masked
<1>9. NextAverage(written) \in [D -> Numbers]
  BY <1>5, <1>6, <1>8
<1>10. QED BY <1>2, <1>3, <1>9 DEF D

\* One run keeps the slots good.
LEMMA RunKeepsSlots ==
    ASSUME NEW g \in Gradients, NEW t \in Statistics, Run(g, t), GoodSlots(slots, batch.here),
           batch \in [here : Seq(Gradients), taken : Seq(Gradients)]
    PROVE  /\ GoodSlots(slots', batch'.here) /\ batch' \in [here : Seq(Gradients), taken : Seq(Gradients)]
           /\ batch'.taken = batch.taken
<1>1. /\ IsSlots(slots, TrainingNames) /\ slots[Count] \in 0 .. Steps - 1 /\ slots[Count] = Len(batch.here)
      /\ slots[Updates] \in 0 .. MaxUpdates
  BY DEF GoodSlots
<1>2. slots[Updates] < MaxUpdates /\ slots[Updates] \in 0 .. MaxUpdates - 1
  BY <1>1, StepConstants DEF Run
<1>3. batch' = [batch EXCEPT !.here = IF Len(batch.here) + 1 = Steps THEN <<>> ELSE Append(batch.here, g)]
  BY DEF Run
<1>4. batch.here \in Seq(Gradients) /\ batch.taken \in Seq(Gradients)
  OBVIOUS
<1>5. batch' = [here |-> IF Len(batch.here) + 1 = Steps THEN <<>> ELSE Append(batch.here, g),
                taken |-> batch.taken]
  BY <1>3
<1>6. batch' \in [here : Seq(Gradients), taken : Seq(Gradients)] /\ batch'.taken = batch.taken
  <2>1. Append(batch.here, g) \in Seq(Gradients) /\ <<>> \in Seq(Gradients)
    BY <1>4
  <2>2. QED BY <1>4, <1>5, <2>1
<1>7. /\ slots'[Count] \in 0 .. Steps - 1 /\ slots'[Count] = Len(batch'.here)
  <2>1. slots'[Count] = Masked(0, NextCount) /\ NextCount = Len(batch.here) + 1
    BY <1>1, RunSlots DEF NextCount
  <2>2. CASE NextCount = Steps
    <3>1. slots'[Count] = 0 /\ batch'.here = <<>>
      BY <1>5, <2>1, <2>2 DEF Masked, Applied
    <3>2. QED BY <3>1, StepConstants
  <2>3. CASE NextCount # Steps
    <3>1. slots'[Count] = NextCount /\ batch'.here = Append(batch.here, g)
      BY <1>5, <2>1, <2>3 DEF Masked, Applied
    <3>2. Len(batch'.here) = Len(batch.here) + 1
      BY <1>4, <3>1
    <3>3. QED BY <1>1, <2>1, <2>3, <3>1, <3>2, StepConstants
  <2>4. QED BY <2>2, <2>3
<1>8. slots'[Updates] \in 0 .. MaxUpdates
  <2>1. slots'[Updates] = slots[Updates] + Masked(1, 0)
    BY <1>1, RunSlots
  <2>2. QED BY <1>2, <2>1, StepConstants DEF Masked
<1>9. 0 .. Steps - 1 \subseteq Numbers /\ 0 .. MaxUpdates \subseteq Numbers
  BY StepConstants DEF Numbers
<1>10. slots'[Running] \in Numbers /\ slots'[Draws] \in Numbers
       /\ Elem(slots[Running] + t) \in Numbers
  <2>1. slots[Running] \in Numbers /\ slots[Running] \in Int /\ slots[Draws] \in Int /\ t \in Int
    BY <1>1, SlotsTyped, StepConstants
  <2>2. Elem(slots[Running] + t) \in Numbers /\ Elem(slots[Draws] + 1) \in Numbers
    <3>1. slots[Running] + t \in Int /\ slots[Draws] + 1 \in Int
      BY <2>1
    <3>2. QED BY <3>1, ElemTyped
  <2>3. QED BY <1>1, <2>1, <2>2, RunSlots DEF Masked
<1>11. ASSUME NEW p \in Params
       PROVE  /\ slots'[Weight(p)] \in Numbers /\ slots'[Accumulator(p)] \in Numbers
              /\ p \in WithMomentum => slots'[Momentum(p)] \in Numbers
  <2>1. p \in WithMomentum => slots[Momentum(p)] \in Numbers
    BY <1>1, SlotsTyped
  <2>2. QED BY <1>1, <2>1, RunTyped, RunSlots DEF Masked
<1>12. slots'[Average] \in [DOMAIN PackedNames -> Numbers]
  <2>1. PICK written : /\ written[Running] = Elem(slots[Running] + t)
                       /\ \A p \in Params : written[Weight(p)] = NextWeight(g, p)
                       /\ slots'[Average] = NextAverage(written)
    BY <1>1, RunSlots
  <2>2. \A p \in Params : written[Weight(p)] \in Numbers
    BY <1>1, <2>1, RunTyped
  <2>3. written[Running] \in Numbers
    BY <1>10, <2>1
  <2>4. NextAverage(written) \in [DOMAIN PackedNames -> Numbers]
    BY <1>1, <1>2, <2>2, <2>3, AverageTyped
  <2>5. QED BY <2>1, <2>4
<1>13. DOMAIN slots' = TrainingNames
  <2>1. slots' = [n \in TrainingNames |-> slots'[n]]
    BY <1>1, RunSlots
  <2>2. QED BY <2>1
<1>14. ASSUME NEW n \in TrainingNames
       PROVE  slots'[n] \in IF n = Average THEN [DOMAIN PackedNames -> Numbers] ELSE Numbers
  <2>1. CASE n \in {Running, Draws, Count, Updates, Average}
    <3>1. CASE n = Average
      BY <1>12, <3>1
    <3>2. CASE n # Average
      BY <1>7, <1>8, <1>9, <1>10, <2>1, <3>2
    <3>3. QED BY <3>1, <3>2
  <2>2. CASE \E p \in Params : n = Weight(p) \/ n = Accumulator(p) \/ (n = Momentum(p) /\ p \in WithMomentum)
    <3>1. slots'[n] \in Numbers
      BY <1>11, <2>2
    <3>2. n # Average
      BY <2>2, NamesDiffer
    <3>3. QED BY <3>1, <3>2
  <2>3. QED BY <2>1, <2>2, NamesAre
<1>15. IsSlots(slots', TrainingNames)
  BY <1>13, <1>14 DEF IsSlots
<1>16. QED BY <1>6, <1>7, <1>8, <1>15 DEF GoodSlots

\* The first trace's session, and no other.
LEMMA StepStarts == TrainInit => StepInv
<1> SUFFICES ASSUME TrainInit PROVE StepInv
  OBVIOUS
<1> DEFINE zeros == [k \in DOMAIN PackedNames |-> 0]
           value(n) == IF n \in Weights THEN 1 ELSE IF n = Average THEN zeros ELSE 0
<1>1. /\ slots = [n \in TrainingNames |-> value(n)] /\ inference = Absent /\ buffers = Absent
      /\ batch = [here |-> <<>>, taken |-> <<>>]
  BY DEF TrainInit, TrainingNames
<1>2. 0 \in Numbers /\ 1 \in Numbers
  BY StepConstants DEF Numbers
<1>3. zeros \in [DOMAIN PackedNames -> Numbers]
  BY <1>2
<1>4. Average \notin Weights /\ Count \notin Weights /\ Updates \notin Weights
      /\ Count # Average /\ Updates # Average
  BY NamesDiffer DEF InferenceNames
<1> HIDE DEF zeros
<1>5. \A n \in TrainingNames : value(n) \in IF n = Average THEN [DOMAIN PackedNames -> Numbers] ELSE Numbers
  BY <1>2, <1>3, <1>4
<1>6. value(Count) = 0 /\ value(Updates) = 0
  BY <1>4
<1> HIDE DEF value
<1>7. Count \in TrainingNames /\ Updates \in TrainingNames
  BY DEF TrainingNames, TransformState
<1>8. IsSlots(slots, TrainingNames) /\ slots[Count] = 0 /\ slots[Updates] = 0
  BY <1>1, <1>5, <1>6, <1>7 DEF IsSlots
<1>9. Len(batch.here) = 0 /\ batch \in [here : Seq(Gradients), taken : Seq(Gradients)]
  <2>1. <<>> \in Seq(Gradients) /\ Len(<<>>) = 0
    OBVIOUS
  <2>2. QED BY <1>1, <2>1
<1>10. GoodSlots(slots, batch.here)
  BY <1>8, <1>9, StepConstants DEF GoodSlots
<1>11. QED BY <1>1, <1>9, <1>10 DEF StepInv

\* Part of the slots of a session that has them all.
LEMMA PartGood ==
    ASSUME NEW s, IsSlots(s, TrainingNames) \/ IsSlots(s, InferenceNames)
    PROVE  IsSlots([n \in InferenceNames |-> s[n]], InferenceNames)
  BY DEF IsSlots, TrainingNames, InferenceNames

\* Every step keeps the slots of every session good.
LEMMA StepSteps ==
    ASSUME StepInv, [TrainNext]_trainVars
    PROVE  StepInv'
<1>1. /\ slots # Absent => GoodSlots(slots, batch.here)
      /\ inference # Absent => IsSlots(inference, InferenceNames)
      /\ buffers # Absent => IsSlots(buffers, InferenceNames) \/ GoodSlots(buffers, batch.taken)
      /\ batch \in [here : Seq(Gradients), taken : Seq(Gradients)]
  BY DEF StepInv
<1>2. ASSUME NEW g \in Gradients, NEW t \in Statistics, Run(g, t) PROVE StepInv'
  <2>1. slots # Absent /\ inference' = inference /\ buffers' = buffers
    BY <1>2 DEF Run
  <2>2. /\ GoodSlots(slots', batch'.here) /\ batch' \in [here : Seq(Gradients), taken : Seq(Gradients)]
        /\ batch'.taken = batch.taken
    BY <1>1, <1>2, <2>1, RunKeepsSlots
  <2>3. buffers # Absent => IsSlots(buffers, InferenceNames)' \/ GoodSlots(buffers, batch.taken)'
    BY <1>1, <2>1, <2>2 DEF GoodSlots, IsSlots
  <2>4. (inference # Absent => IsSlots(inference, InferenceNames))'
    BY <1>1, <2>1 DEF IsSlots
  <2>5. GoodSlots(slots, batch.here)'
    BY <2>2 DEF GoodSlots, IsSlots
  <2>6. QED BY <2>1, <2>2, <2>3, <2>4, <2>5 DEF StepInv
<1>3. CASE TakeSession
  <2>1. /\ slots # Absent /\ buffers' = slots /\ slots' = Absent /\ inference' = inference
        /\ batch' = [batch EXCEPT !.taken = batch.here, !.here = <<>>]
    BY <1>3 DEF TakeSession
  <2>2. batch' = [here |-> <<>>, taken |-> batch.here]
    BY <1>1, <2>1
  <2>3. batch' \in [here : Seq(Gradients), taken : Seq(Gradients)] /\ batch'.taken = batch.here
    <3>1. <<>> \in Seq(Gradients) /\ batch.here \in Seq(Gradients)
      BY <1>1
    <3>2. QED BY <2>2, <3>1
  <2>4. GoodSlots(buffers, batch.taken)'
    BY <1>1, <2>1, <2>3 DEF GoodSlots, IsSlots
  <2>5. (inference # Absent => IsSlots(inference, InferenceNames))'
    BY <1>1, <2>1 DEF IsSlots
  <2>6. QED BY <2>1, <2>3, <2>4, <2>5 DEF StepInv
<1>4. CASE TakeInference
  <2>1. inference # Absent /\ buffers' = inference /\ inference' = Absent /\ slots' = slots /\ batch' = batch
    BY <1>4 DEF TakeInference
  <2>2. IsSlots(buffers, InferenceNames)'
    BY <1>1, <2>1 DEF IsSlots
  <2>3. (slots # Absent => GoodSlots(slots, batch.here))'
    BY <1>1, <2>1 DEF GoodSlots, IsSlots
  <2>4. QED BY <1>1, <2>1, <2>2, <2>3 DEF StepInv
<1>5. CASE RestoreTraining
  <2>1. /\ slots = Absent /\ buffers # Absent /\ TrainingNames \subseteq DOMAIN buffers
        /\ slots' = [n \in TrainingNames |-> buffers[n]]
        /\ batch' = [batch EXCEPT !.here = batch.taken] /\ inference' = inference /\ buffers' = buffers
    BY <1>5 DEF RestoreTraining, Restorable, Restored, TrainingNames
  <2>2. GoodSlots(buffers, batch.taken)
    <3>1. Count \in TrainingNames /\ Count \notin InferenceNames
      BY NamesDiffer DEF TrainingNames, TransformState
    <3>2. ~IsSlots(buffers, InferenceNames)
      BY <2>1, <3>1 DEF IsSlots
    <3>3. QED BY <1>1, <2>1, <3>2
  <2>3. batch' = [here |-> batch.taken, taken |-> batch.taken]
    BY <1>1, <2>1
  <2>4. /\ batch' \in [here : Seq(Gradients), taken : Seq(Gradients)]
        /\ batch'.here = batch.taken /\ batch'.taken = batch.taken
    BY <1>1, <2>3
  <2>5. GoodSlots(slots, batch.here)'
    <3>1. Count \in TrainingNames /\ Updates \in TrainingNames
      BY DEF TrainingNames, TransformState
    <3>2. DOMAIN slots' = TrainingNames /\ \A n \in TrainingNames : slots'[n] = buffers[n]
      BY <2>1
    <3>3. QED BY <2>2, <2>4, <3>1, <3>2 DEF GoodSlots, IsSlots
  <2>6. GoodSlots(buffers, batch.taken)'
    BY <2>1, <2>2, <2>4 DEF GoodSlots, IsSlots
  <2>7. (inference # Absent => IsSlots(inference, InferenceNames))'
    BY <1>1, <2>1 DEF IsSlots
  <2>8. QED BY <2>4, <2>5, <2>6, <2>7 DEF StepInv
<1>6. CASE RestoreInference
  <2>1. /\ buffers # Absent /\ inference' = [n \in InferenceNames |-> buffers[n]]
        /\ slots' = slots /\ buffers' = buffers /\ batch' = batch
    BY <1>6 DEF RestoreInference, Restorable, Restored, InferenceNames
  <2>2. IsSlots([n \in InferenceNames |-> buffers[n]], InferenceNames)
    BY <1>1, <2>1, PartGood DEF GoodSlots
  <2>3. IsSlots(inference, InferenceNames)'
    BY <2>1, <2>2 DEF IsSlots
  <2>4. (slots # Absent => GoodSlots(slots, batch.here))'
    BY <1>1, <2>1 DEF GoodSlots, IsSlots
  <2>5. (buffers # Absent => IsSlots(buffers, InferenceNames) \/ GoodSlots(buffers, batch.taken))'
    BY <1>1, <2>1 DEF GoodSlots, IsSlots
  <2>6. QED BY <1>1, <2>1, <2>3, <2>4, <2>5 DEF StepInv
<1>7. CASE UNCHANGED trainVars
  BY <1>1, <1>7 DEF trainVars, StepInv, GoodSlots, IsSlots
<1>8. QED BY <1>2, <1>3, <1>4, <1>5, <1>6, <1>7 DEF TrainNext

\* What that has to do with the type invariant.
LEMMA StepTyped == StepInv => TrainTypeOK
  BY DEF StepInv, GoodSlots, IsSlots, TrainTypeOK, TrainingNames, InferenceNames

-----------------------------------------------------------------------------
\* Arithmetic modulo a number.

\* A number is a multiple and a rest.
LEMMA Divided ==
    ASSUME NEW d \in Nat \ {0}, NEW a \in Int
    PROVE  \E q \in Int : a = q * d + (a % d) /\ a % d \in 0 .. d - 1
<1>1. a \div d \in Int /\ a = (a \div d) * d + (a % d) /\ a % d \in 0 .. d - 1
  OBVIOUS
<1>2. QED BY <1>1

\* The rest is the only one.
LEMMA RestUnique ==
    ASSUME NEW d \in Nat \ {0}, NEW q \in Int, NEW r \in 0 .. d - 1
    PROVE  (q * d + r) % d = r
  OBVIOUS

\* Numbers that differ by a multiple have one rest.
LEMMA Congruent ==
    ASSUME NEW d \in Nat \ {0}, NEW a \in Int, NEW b \in Int
    PROVE  a % d = b % d <=> \E k \in Int : a = k * d + b
<1>1. PICK qa \in Int : a = qa * d + (a % d) /\ a % d \in 0 .. d - 1
  BY Divided
<1>2. PICK qb \in Int : b = qb * d + (b % d) /\ b % d \in 0 .. d - 1
  BY Divided
<1>3. \A x, y \in Int : (x - y) * d = x * d - y * d /\ (x + y) * d = x * d + y * d
      /\ x - y \in Int /\ x + y \in Int /\ x * d \in Int
  OBVIOUS
<1>4. ASSUME a % d = b % d PROVE \E k \in Int : a = k * d + b
  <2>1. qa - qb \in Int /\ (qa - qb) * d = qa * d - qb * d /\ qa * d \in Int /\ qb * d \in Int
    BY <1>3
  <2>2. a = (qa - qb) * d + b
    BY <1>1, <1>2, <1>4, <2>1
  <2>3. QED BY <2>1, <2>2
<1>5. ASSUME NEW k \in Int, a = k * d + b PROVE a % d = b % d
  <2>1. k + qb \in Int /\ (k + qb) * d = k * d + qb * d /\ k * d \in Int /\ qb * d \in Int
    BY <1>3
  <2>2. a = (k + qb) * d + (b % d)
    BY <1>2, <1>5, <2>1
  <2>3. QED BY <1>2, <2>1, <2>2, RestUnique
<1>6. QED BY <1>4, <1>5

\* Sums and products have the rests of those of the rests.
LEMMA RestsAdd ==
    ASSUME NEW d \in Nat \ {0}, NEW a \in Int, NEW b \in Int, NEW c \in Int, a % d = b % d
    PROVE  (a + c) % d = (b + c) % d /\ (a * c) % d = (b * c) % d
<1>1. PICK k \in Int : a = k * d + b
  BY Congruent
<1>2. k * d \in Int /\ k * c \in Int /\ a + c \in Int /\ b + c \in Int /\ a * c \in Int /\ b * c \in Int
  OBVIOUS
<1>3. a + c = k * d + (b + c)
  BY <1>1, <1>2
<1>4. a * c = (k * c) * d + b * c
  <2>1. a * c = (k * d + b) * c
    BY <1>1
  <2>2. (k * d + b) * c = (k * c) * d + b * c
    OBVIOUS
  <2>3. QED BY <2>1, <2>2
<1> DEFINE u == a + c
           v == b + c
           x == a * c
           y == b * c
           z == k * c
<1>5. u \in Int /\ v \in Int /\ x \in Int /\ y \in Int /\ z \in Int
      /\ u = k * d + v /\ x = z * d + y
  BY <1>2, <1>3, <1>4
<1>6. SUFFICES u % d = v % d /\ x % d = y % d
  OBVIOUS
<1> HIDE DEF u, v, x, y, z
<1>7. (\E j \in Int : u = j * d + v) /\ (\E j \in Int : x = j * d + y)
  BY <1>2, <1>5
<1>8. u % d = v % d
  BY <1>5, <1>7, Congruent
<1>9. x % d = y % d
  <2>1. x \in Int /\ y \in Int /\ \E j \in Int : x = j * d + y
    BY <1>5, <1>7
  <2>2. QED BY <2>1, Congruent
<1>10. QED BY <1>8, <1>9

\* Taking the rest early changes nothing.
LEMMA ElemsAdd ==
    ASSUME NEW a \in Int, NEW b \in Int
    PROVE  /\ Elem(Elem(a) + b) = Elem(a + b) /\ Elem(Elem(a) * b) = Elem(a * b)
           /\ (a \in Numbers => Elem(a) = a)
<1>1. Prime \in Nat \ {0}
  BY StepConstants
<1> DEFINE e == a % Prime
<1>2. e \in Int /\ e % Prime = a % Prime
  BY <1>1
<1> HIDE DEF e
<1>3. (e + b) % Prime = (a + b) % Prime /\ (e * b) % Prime = (a * b) % Prime
  BY <1>1, <1>2, RestsAdd
<1>4. Elem(Elem(a) + b) = Elem(a + b) /\ Elem(Elem(a) * b) = Elem(a * b)
  BY <1>3 DEF Elem, e
<1>5. a \in Numbers => Elem(a) = a
  BY <1>1 DEF Elem, Numbers
<1>6. QED BY <1>4, <1>5
\* The quotient by Steps is the product with the inverse.
LEMMA QuotientIs ==
    ASSUME NEW s \in Int
    PROVE  Loop!Quotient(s, Steps) = Elem(Elem(s) * FieldInverse(Steps))
<1> DEFINE i == FieldInverse(Steps)
           Fits(q) == Elem(q * Steps) = Elem(s)
<1>1. i \in Int /\ Steps \in Int /\ Elem(Steps * i) = 1 /\ Elem(s * i) \in Numbers /\ Elem(s) \in Int
      /\ Elem(s * i) \in Int /\ s * i \in Int
  <2>1. i \in Int /\ Steps \in Int /\ Elem(Steps * i) = 1
    BY InverseOfSteps, StepConstants
  <2>2. s * i \in Int
    BY <2>1
  <2>3. QED BY <2>1, <2>2, ElemTyped
<1>2. Loop!Quotient(s, Steps) = CHOOSE q \in Numbers : Fits(q)
  BY DEF Loop!Quotient, Loop!Mod, Elem, Numbers
<1>3. \A x, y \in Int : x * y \in Int /\ x * y = y * x /\ x * 1 = x
  OBVIOUS
<1>4. \A x, y, z \in Int : (x * y) * z = x * (y * z)
  OBVIOUS
<1> HIDE DEF i
\* Multiplied by both, a number is what it was.
<1>5. ASSUME NEW x \in Int PROVE Elem((x * Steps) * i) = Elem(x)
  <2>1. Steps * i \in Int /\ (x * Steps) * i = (Steps * i) * x
    BY <1>1, <1>3, <1>4
  <2>2. Elem(Elem(Steps * i) * x) = Elem((Steps * i) * x)
    BY <2>1, ElemsAdd
  <2>3. QED BY <1>1, <1>3, <2>1, <2>2
<1>6. Fits(Elem(s * i))
  <2>1. Elem(Elem(s * i) * Steps) = Elem((s * i) * Steps)
    BY <1>1, ElemsAdd
  <2>2. (s * i) * Steps = (s * Steps) * i
    BY <1>1, <1>3, <1>4
  <2>3. QED BY <1>5, <2>1, <2>2
<1>7. ASSUME NEW q \in Numbers, Fits(q) PROVE q = Elem(s * i)
  <2>1. q \in Int /\ Elem(q) = q
    <3>1. Numbers \subseteq Int
      BY StepConstants DEF Numbers
    <3>2. QED BY <3>1, ElemsAdd
  <2>2. q * Steps \in Int /\ Elem(Elem(q * Steps) * i) = Elem((q * Steps) * i)
    <3>1. q * Steps \in Int
      BY <1>1, <1>3, <2>1
    <3>2. QED BY <1>1, <3>1, ElemsAdd
  <2>3. Elem(Elem(s) * i) = Elem(s * i)
    BY <1>1, ElemsAdd
  <2>4. QED BY <1>5, <1>7, <2>1, <2>2, <2>3
<1> HIDE DEF Fits
<1>8. (CHOOSE q \in Numbers : Fits(q)) = Elem(s * i)
  BY <1>1, <1>6, <1>7
<1>9. Elem(Elem(s) * i) = Elem(s * i)
  BY <1>1, ElemsAdd
<1>10. QED BY <1>2, <1>8, <1>9 DEF i

\* The sum of the gradients of a batch.
SumsUp(v, b, p) == v[0] = 0 /\ \A k \in 1 .. Len(b) : v[k] = v[k - 1] + b[k][p]

\* The recursion of the sum has its solution.
LEMMA GradientsSum ==
    ASSUME NEW p \in Params, NEW b \in Seq(Gradients)
    PROVE  \E sums : /\ SumsUp(sums, b, p) /\ Loop!GradientSum(b, p) = sums[Len(b)]
                     /\ \A k \in 0 .. Len(b) : sums[k] \in Int
<1> DEFINE n == Len(b)
           Sofar(m, v) == v[0] = 0 /\ \A k \in 1 .. m : v[k] = v[k - 1] + b[k][p]
           T == {m \in 0 .. n : \E v : Sofar(m, v)}
           Iterates(v) == v = [k \in 0 .. n |-> IF k = 0 THEN 0 ELSE v[k - 1] + b[k][p]]
<1>1. n \in Nat /\ \A k \in 1 .. n : b[k] \in Gradients /\ b[k][p] \in Int
  BY StepConstants
<1>2. \E v : Sofar(n, v)
  <2>1. 0 \in T
    <3>1. Sofar(0, [k \in {0} |-> 0])
      OBVIOUS
    <3> HIDE DEF Sofar
    <3>2. QED BY <1>1, <3>1
  <2>2. ASSUME NEW m \in 0 .. n - 1, m \in T PROVE m + 1 \in T
    <3>1. PICK v : Sofar(m, v)
      BY <2>2
    <3> DEFINE longer == [k \in 0 .. m + 1 |-> IF k = m + 1 THEN v[k - 1] + b[k][p] ELSE v[k]]
    <3>2. \A k \in 0 .. m : longer[k] = v[k]
      OBVIOUS
    <3>3. longer[m + 1] = v[m] + b[m + 1][p]
      OBVIOUS
    <3> HIDE DEF longer
    <3>4. ASSUME NEW k \in 1 .. m + 1 PROVE longer[k] = longer[k - 1] + b[k][p]
      <4>1. longer[k - 1] = v[k - 1]
        BY <3>2
      <4>2. CASE k = m + 1
        BY <3>3, <4>1, <4>2
      <4>3. CASE k # m + 1
        <5>1. k \in 1 .. m /\ k \in 0 .. m
          BY <4>3
        <5>2. QED BY <3>1, <3>2, <4>1, <5>1
      <4>4. QED BY <4>2, <4>3
    <3>5. longer[0] = 0
      BY <3>1, <3>2
    <3>6. Sofar(m + 1, longer)
      BY <3>4, <3>5
    <3> HIDE DEF Sofar
    <3>7. m + 1 \in 0 .. n
      BY <1>1
    <3>8. QED BY <3>6, <3>7
  <2> HIDE DEF T
  <2>3. \A m \in 0 .. n : m \in T
    BY <1>1, <2>1, <2>2, CountUp
  <2>4. n \in 0 .. n
    BY <1>1
  <2>5. QED BY <2>3, <2>4 DEF T
<1>3. \E v : Iterates(v)
  <2>1. PICK v : Sofar(n, v)
    BY <1>2
  <2> DEFINE w == [k \in 0 .. n |-> v[k]]
  <2>2. w = [k \in 0 .. n |-> IF k = 0 THEN 0 ELSE w[k - 1] + b[k][p]]
    <3>1. ASSUME NEW k \in 0 .. n PROVE w[k] = IF k = 0 THEN 0 ELSE w[k - 1] + b[k][p]
      <4>1. CASE k = 0
        BY <2>1, <4>1
      <4>2. CASE k # 0
        <5>1. k \in 1 .. n /\ k - 1 \in 0 .. n
          BY <4>2
        <5>2. QED BY <2>1, <4>2, <5>1
      <4>3. QED BY <4>1, <4>2
    <3>2. QED BY <3>1
  <2>3. QED BY <2>2
<1> DEFINE c == CHOOSE v : Iterates(v)
<1>4. Loop!GradientSum(b, p) = c[n]
  BY DEF Loop!GradientSum
<1>5. Iterates(c)
  <2> HIDE DEF Iterates
  <2>1. QED BY <1>3
<1> HIDE DEF c
<1>6. c[0] = 0 /\ \A k \in 1 .. n : c[k] = c[k - 1] + b[k][p]
  <2>1. \A k \in 0 .. n : c[k] = IF k = 0 THEN 0 ELSE c[k - 1] + b[k][p]
    BY <1>5
  <2>2. 0 \in 0 .. n /\ \A k \in 1 .. n : k \in 0 .. n /\ k # 0
    BY <1>1
  <2>3. QED BY <2>1, <2>2
<1>7. \A k \in 0 .. n : c[k] \in Int
  <2> DEFINE U == {k \in 0 .. n : c[k] \in Int}
  <2>1. 0 \in U
    BY <1>1, <1>6
  <2>2. ASSUME NEW m \in 0 .. n - 1, m \in U PROVE m + 1 \in U
    <3>1. m + 1 \in 1 .. n /\ (m + 1) - 1 = m /\ m + 1 \in 0 .. n
      BY <1>1
    <3>2. c[m + 1] = c[m] + b[m + 1][p]
      BY <1>6, <3>1
    <3>3. QED BY <1>1, <2>2, <3>1, <3>2
  <2> HIDE DEF U
  <2>3. \A m \in 0 .. n : m \in U
    BY <1>1, <2>1, <2>2, CountUp
  <2>4. QED BY <2>3 DEF U
<1>8. SumsUp(c, b, p)
  BY <1>6 DEF SumsUp
<1>9. QED BY <1>4, <1>7, <1>8

\* The empty batch has no sum, and a gradient more adds what it has.
LEMMA GradientsAdd ==
    ASSUME NEW p \in Params, NEW b \in Seq(Gradients), NEW g \in Gradients
    PROVE  /\ Loop!GradientSum(<<>>, p) = 0 /\ Loop!GradientSum(b, p) \in Int
           /\ Loop!GradientSum(Append(b, g), p) = Loop!GradientSum(b, p) + g[p]
<1> DEFINE a == Append(b, g)
           n == Len(b)
           empty == <<>>
<1>1. /\ empty \in Seq(Gradients) /\ Len(empty) = 0
      /\ a \in Seq(Gradients) /\ n \in Nat /\ Len(a) = n + 1 /\ a[n + 1] = g /\ \A k \in 1 .. n : a[k] = b[k]
  OBVIOUS
<1> HIDE DEF a, empty
<1>2. PICK u : /\ SumsUp(u, empty, p) /\ Loop!GradientSum(empty, p) = u[Len(empty)]
  BY <1>1, GradientsSum
<1>3. Loop!GradientSum(<<>>, p) = 0
  BY <1>1, <1>2 DEF SumsUp, empty
<1>4. PICK v : /\ SumsUp(v, b, p) /\ Loop!GradientSum(b, p) = v[n]
               /\ \A k \in 0 .. n : v[k] \in Int
  BY GradientsSum
<1>5. PICK w : SumsUp(w, a, p) /\ Loop!GradientSum(a, p) = w[Len(a)]
  BY <1>1, GradientsSum
<1>6. /\ v[0] = 0 /\ w[0] = 0 /\ \A k \in 1 .. n : v[k] = v[k - 1] + b[k][p]
      /\ \A k \in 1 .. n + 1 : w[k] = w[k - 1] + a[k][p]
  BY <1>1, <1>4, <1>5 DEF SumsUp
<1>7. \A k \in 0 .. n : w[k] = v[k]
  <2> DEFINE T == {k \in 0 .. n : w[k] = v[k]}
  <2>1. 0 \in T
    BY <1>1, <1>6
  <2>2. ASSUME NEW m \in 0 .. n - 1, m \in T PROVE m + 1 \in T
    <3>1. m + 1 \in 1 .. n /\ m + 1 \in 1 .. n + 1 /\ (m + 1) - 1 = m /\ m + 1 \in 0 .. n
      BY <1>1
    <3>2. w[m + 1] = w[m] + a[m + 1][p] /\ v[m + 1] = v[m] + b[m + 1][p] /\ a[m + 1] = b[m + 1]
      BY <1>1, <1>6, <3>1
    <3>3. QED BY <2>2, <3>1, <3>2
  <2> HIDE DEF T
  <2>3. \A m \in 0 .. n : m \in T
    BY <1>1, <2>1, <2>2, CountUp
  <2>4. QED BY <2>3 DEF T
<1>8. w[n + 1] = w[n] + g[p] /\ n \in 0 .. n
  <2>1. n + 1 \in 1 .. n + 1 /\ (n + 1) - 1 = n
    BY <1>1
  <2>2. QED BY <1>1, <1>6, <2>1
<1>9. QED BY <1>1, <1>3, <1>4, <1>5, <1>7, <1>8 DEF a

-----------------------------------------------------------------------------
\* What the accumulators stand for.

Accumulated(s, seen) == \A p \in Params : s[Accumulator(p)] = Elem(Loop!GradientSum(seen, p))
SumInv ==
    /\ slots # Absent => Accumulated(slots, batch.here)
    /\ buffers # Absent /\ Average \in DOMAIN buffers => Accumulated(buffers, batch.taken)

\* A training session that is full, with accumulators that are right.
Full == slots # Absent /\ GoodSlots(slots, batch.here) /\ Accumulated(slots, batch.here)
        /\ batch \in [here : Seq(Gradients), taken : Seq(Gradients)]

\* With its gradient, an accumulator holds the sum of the batch and one more.
LEMMA TotalIs ==
    ASSUME Full, NEW g \in Gradients, NEW p \in Params
    PROVE  /\ Total(g, p) = Elem(Loop!GradientSum(Append(batch.here, g), p))
           /\ MeanGradient(g, p) = Loop!Mean(Append(batch.here, g), p)
<1> DEFINE s == Loop!GradientSum(batch.here, p)
           t == Loop!GradientSum(Append(batch.here, g), p)
           x == g[p]
<1>1. s \in Int /\ t = s + x /\ slots[Accumulator(p)] = Elem(s) /\ x \in Int
  <2>1. batch.here \in Seq(Gradients)
    BY DEF Full
  <2>2. s \in Int /\ t = s + g[p]
    BY <2>1, GradientsAdd
  <2>3. QED BY <2>2, StepConstants DEF Full, Accumulated
<1>2. Total(g, p) = Elem(Elem(s) + x)
  BY <1>1 DEF Total
<1> HIDE DEF s, t, x
<1>3. Total(g, p) = Elem(t) /\ t \in Int
  <2>1. Elem(Elem(s) + x) = Elem(s + x)
    BY <1>1, ElemsAdd
  <2>2. QED BY <1>1, <1>2, <2>1
<1>4. Loop!Quotient(t, Steps) = Elem(Elem(t) * FieldInverse(Steps))
  BY <1>3, QuotientIs
<1>5. QED BY <1>3, <1>4 DEF MeanGradient, Loop!Mean, t

-----------------------------------------------------------------------------
\* The step of the loop, and of the program.

\* For one parameter they go the same way.
LEMMA DirectionIs ==
    ASSUME Full, NEW g \in Gradients, NEW p \in Params,
           NEW m, m.batch = Append(batch.here, g), m.weights[p] = slots[Weight(p)],
           m.velocity[p] = IF p \in WithMomentum THEN slots[Momentum(p)] ELSE 0
    PROVE  /\ p \in WithMomentum => Loop!Velocity(m, p) = CandidateVelocity(g, p)
           /\ Loop!Direction(m, p) = Direction(g, p)
<1> DEFINE mean == MeanGradient(g, p)
           w == slots[Weight(p)]
           decay == Options[p].decay
<1>1. mean = Loop!Mean(m.batch, p)
  BY TotalIs
<1>2. mean \in Numbers /\ mean \in Int /\ w \in Int /\ decay \in Int
  <2>1. IsSlots(slots, TrainingNames)
    BY DEF Full, GoodSlots
  <2>2. mean \in Numbers
    BY <2>1, RunTyped
  <2>3. Numbers \subseteq Int
    BY StepConstants DEF Numbers
  <2>4. w \in Int /\ decay \in Int
    BY <2>1, SlotsTyped, StepConstants
  <2>5. QED BY <2>2, <2>3, <2>4
<1>3. Loop!Gradient(m, p) = Elem(mean + decay * w)
  BY <1>1 DEF Loop!Gradient, Loop!Mod, Elem
<1>4. Decayed(g, p) = IF decay = 0 THEN mean ELSE Elem(mean + decay * w)
  BY DEF Decayed
<1> HIDE DEF mean, w, decay
<1>5. decay = 0 => Elem(mean + decay * w) = mean
  <2>1. decay = 0 => mean + decay * w = mean
    BY <1>2
  <2>2. Elem(mean) = mean
    BY <1>2, ElemsAdd
  <2>3. QED BY <2>1, <2>2
<1>6. Loop!Gradient(m, p) = Decayed(g, p)
  BY <1>3, <1>4, <1>5
<1>7. p \in WithMomentum <=> Options[p].momentum # 0
  BY DEF WithMomentum
<1>8. p \in WithMomentum => Loop!Velocity(m, p) = CandidateVelocity(g, p)
  BY <1>6 DEF Loop!Velocity, CandidateVelocity, Loop!Mod, Elem
<1>9. Loop!Direction(m, p) = Direction(g, p)
  <2>1. CASE p \notin WithMomentum
    BY <1>6, <1>7, <2>1 DEF Loop!Direction, Direction
  <2>2. CASE p \in WithMomentum
    BY <1>6, <1>7, <1>8, <2>2 DEF Loop!Direction, Direction, Loop!Mod, Elem
  <2>3. QED BY <2>1, <2>2
<1>10. QED BY <1>8, <1>9

\* The state of the loop, field by field.
State(w, v, r, d, b, u, a) ==
    [weights |-> w, velocity |-> v, running |-> r, draws |-> d, batch |-> b, updates |-> u, average |-> a]

AverageNames == Params \cup {"running"}

\* What a step makes of the weights, the velocities and the average.
Moved(m, w) == [p \in Params |-> Loop!Mod(w[p] - LearningRate * Loop!Direction(m, p))]
Fast(m) == [p \in Params |-> IF Options[p].momentum = 0 THEN 0 ELSE Loop!Velocity(m, p)]
Before(w, r, u, a) == IF u = 0 THEN [n \in AverageNames |-> IF n = "running" THEN r ELSE w[n]] ELSE a
After(old, rest, new, u) ==
    [n \in DOMAIN old |->
        Loop!Mod(Decay(u + 1) * old[n] + (1 - Decay(u + 1)) * (IF n = "running" THEN rest ELSE new[n]))]

\* One step of the loop, field by field.
LEMMA SteppedIs ==
    ASSUME NEW w, NEW v, NEW r, NEW d, NEW b, NEW u, NEW a, NEW m, m = State(w, v, r, d, b, u, a), NEW t,
           u = 0 \/ DOMAIN a = AverageNames
    PROVE  Loop!Stepped(m, t) =
               State(Moved(m, w), Fast(m), Loop!Mod(r + t), d, <<>>, u + 1,
                     After(Before(w, r, u, a), Loop!Mod(r + t), Moved(m, w), u))
<1> DEFINE new == [p \in Params |-> Loop!Mod(w[p] - LearningRate * Loop!Direction(m, p))]
           fast == [p \in Params |-> IF Options[p].momentum = 0 THEN 0 ELSE Loop!Velocity(m, p)]
           rest == Loop!Mod(r + t)
           old == IF u = 0 THEN [n \in AverageNames |-> IF n = "running" THEN r ELSE w[n]] ELSE a
           M == [m EXCEPT !.weights = [p \in Params |-> Loop!Mod(@[p] - LearningRate * Loop!Direction(m, p))],
                          !.velocity = fast, !.running = Loop!Mod(@ + t), !.batch = <<>>, !.updates = @ + 1]
           follow == [n \in DOMAIN old |-> Loop!Mod(Decay(M.updates) * old[n]
                                      + (1 - Decay(M.updates)) * Loop!Averaged(M)[n])]
           next == [n \in DOMAIN old |->
                       Loop!Mod(Decay(u + 1) * old[n]
                                + (1 - Decay(u + 1)) * (IF n = "running" THEN rest ELSE new[n]))]
<1> SUFFICES Loop!Stepped(m, t) = State(new, fast, rest, d, <<>>, u + 1, next)
  BY DEF Moved, Fast, Before, After
<1>1. m.weights = w /\ m.running = r /\ m.updates = u /\ m.average = a
  BY DEF State
<1>2. Loop!Averaged(m) = [n \in AverageNames |-> IF n = "running" THEN r ELSE w[n]]
  BY <1>1 DEF Loop!Averaged, AverageNames
<1>3. Loop!Stepped(m, t) = [M EXCEPT !.average = follow]
  BY <1>1, <1>2 DEF Loop!Stepped
<1>4. M = State(new, fast, rest, d, <<>>, u + 1, a)
  <2> HIDE DEF fast
  <2> DEFINE new2 == [p \in Params |-> Loop!Mod(m.weights[p] - LearningRate * Loop!Direction(m, p))]
             rest2 == Loop!Mod(m.running + t)
  <2>1. new2 = new /\ rest2 = rest
    BY <1>1
  <2>2. M = [m EXCEPT !.weights = new2, !.velocity = fast, !.running = rest2, !.batch = <<>>, !.updates = m.updates + 1]
    OBVIOUS
  <2> HIDE DEF M, new, new2, rest, rest2
  <2>3. M = [m EXCEPT !.weights = new, !.velocity = fast, !.running = rest, !.batch = <<>>, !.updates = u + 1]
    BY <1>1, <2>1, <2>2
  <2>4. QED BY <2>3 DEF State
<1> HIDE DEF M, fast, rest, new
<1>5. M.updates = u + 1 /\ M.weights = new /\ M.running = rest
  BY <1>4 DEF State
<1>6. \A n \in AverageNames : Loop!Averaged(M)[n] = IF n = "running" THEN rest ELSE new[n]
  BY <1>5 DEF Loop!Averaged, AverageNames
<1>7. DOMAIN old = AverageNames
  OBVIOUS
<1> HIDE DEF old
<1>8. follow = next
  BY <1>5, <1>6, <1>7
<1> HIDE DEF follow, next
<1>9. QED BY <1>3, <1>4, <1>8 DEF State

\* Where an entry of the average is packed.
Slot(n) == IF n = "running" THEN Running ELSE Weight(n)
PackedAt(n) == CHOOSE k \in DOMAIN PackedNames : PackedNames[k] = Slot(n)

\* Every entry has a place.
LEMMA PackedAtIs ==
    ASSUME NEW n \in AverageNames
    PROVE  PackedAt(n) \in DOMAIN PackedNames /\ PackedNames[PackedAt(n)] = Slot(n)
<1>1. \E k \in DOMAIN PackedNames : PackedNames[k] = Slot(n)
  BY PackedTyped DEF Slot, AverageNames
<1>2. QED BY <1>1 DEF PackedAt

\* What the slots of a session stand for, field by field.
WeightsOf(s) == [p \in Params |-> s[Weight(p)]]
VelocityOf(s) == [p \in Params |-> IF p \in WithMomentum THEN s[Momentum(p)] ELSE 0]
AverageOf(s) == IF s[Updates] = 0 THEN Absent ELSE [n \in AverageNames |-> s[Average][PackedAt(n)]]
StateOf(s, seen) == State(WeightsOf(s), VelocityOf(s), s[Running], s[Draws], seen, s[Updates], AverageOf(s))
LEMMA MeaningIs ==
    ASSUME NEW s, NEW seen, s # Absent, Average \in DOMAIN s
    PROVE  Meaning(s, seen) = StateOf(s, seen)
  BY DEF Meaning, StateOf, State, WeightsOf, VelocityOf, AverageOf, AverageNames, PackedAt, Slot

\* It is not nothing.
LEMMA MeaningThere ==
    ASSUME NEW s, NEW seen \in Seq(Gradients), GoodSlots(s, seen), s # Absent
    PROVE  Meaning(s, seen) = StateOf(s, seen) /\ Meaning(s, seen) # Absent
<1>1. IsSlots(s, TrainingNames) /\ s[Updates] \in 0 .. MaxUpdates
  BY DEF GoodSlots
<1>2. Average \in DOMAIN s
  BY <1>1, SlotsTyped
<1>3. Meaning(s, seen) = StateOf(s, seen)
  BY <1>2, MeaningIs
<1>4. WeightsOf(s) \in [Params -> Numbers]
  <2>1. \A p \in Params : s[Weight(p)] \in Numbers
    BY <1>1, SlotsTyped
  <2>2. QED BY <2>1 DEF WeightsOf
<1>5. VelocityOf(s) \in [Params -> Numbers]
  <2>1. \A p \in Params : (IF p \in WithMomentum THEN s[Momentum(p)] ELSE 0) \in Numbers
    BY <1>1, SlotsTyped, StepConstants DEF Numbers
  <2>2. QED BY <2>1 DEF VelocityOf
<1>6. s[Running] \in Numbers /\ s[Draws] \in Numbers /\ s[Updates] \in Numbers
  BY <1>1, SlotsTyped
<1>7. AverageOf(s) \in {Absent} \cup [AverageNames -> Numbers]
  <2>1. \A n \in AverageNames : s[Average][PackedAt(n)] \in Numbers
    BY <1>1, SlotsTyped, PackedAtIs
  <2>2. QED BY <2>1 DEF AverageOf
<1>8. StateOf(s, seen) \in [weights : [Params -> Numbers], velocity : [Params -> Numbers],
                      running : Numbers, draws : Numbers, batch : Seq(Gradients), updates : Numbers,
                      average : {Absent} \cup [AverageNames -> Numbers]]
  BY <1>4, <1>5, <1>6, <1>7 DEF StateOf, State
<1>9. QED BY <1>3, <1>8, AbsentAssumption DEF AverageNames

\* Nor are full slots.
LEMMA SlotsThere ==
    ASSUME NEW s, s = [n \in TrainingNames |-> s[n]], IsSlots(s, TrainingNames)
    PROVE  s # Absent
<1>1. \A n \in TrainingNames : s[n] \in Numbers \cup [DOMAIN PackedNames -> Numbers]
  BY DEF IsSlots
<1>2. s \in [TrainingNames -> Numbers \cup [DOMAIN PackedNames -> Numbers]]
  BY <1>1
<1>3. QED BY <1>2, AbsentAssumption DEF TrainingNames

\* What one run does to the batch, and when it applies a step.
LEMMA RunBatch ==
    ASSUME Full, NEW g \in Gradients, NEW t \in Statistics, Run(g, t)
    PROVE  /\ batch'.here = (IF Applied THEN <<>> ELSE Append(batch.here, g)) /\ batch'.taken = batch.taken
           /\ Append(batch.here, g) \in Seq(Gradients)
           /\ Applied <=> ~(Len(Append(batch.here, g)) < Steps)
           /\ GoodSlots(slots', batch'.here) /\ slots' # Absent
           /\ batch' \in [here : Seq(Gradients), taken : Seq(Gradients)]
<1>1. /\ IsSlots(slots, TrainingNames) /\ slots[Count] \in 0 .. Steps - 1 /\ slots[Count] = Len(batch.here)
      /\ batch \in [here : Seq(Gradients), taken : Seq(Gradients)] /\ GoodSlots(slots, batch.here)
  BY DEF Full, GoodSlots
<1>2. /\ GoodSlots(slots', batch'.here) /\ batch' \in [here : Seq(Gradients), taken : Seq(Gradients)]
      /\ batch'.taken = batch.taken
  BY <1>1, RunKeepsSlots
<1>3. batch' = [batch EXCEPT !.here = IF Len(batch.here) + 1 = Steps THEN <<>> ELSE Append(batch.here, g)]
  BY DEF Run
<1>4. batch.here \in Seq(Gradients) /\ Append(batch.here, g) \in Seq(Gradients)
      /\ Len(Append(batch.here, g)) = Len(batch.here) + 1
  BY <1>1
<1>5. Applied <=> Len(batch.here) + 1 = Steps
  BY <1>1 DEF Applied, NextCount
<1>6. batch'.here = (IF Applied THEN <<>> ELSE Append(batch.here, g))
  BY <1>1, <1>3, <1>5
<1>7. Applied <=> ~(Len(Append(batch.here, g)) < Steps)
  BY <1>1, <1>4, <1>5, StepConstants
<1>8. slots' = [n \in TrainingNames |-> slots'[n]]
  BY <1>1, RunSlots
<1>9. IsSlots(slots', TrainingNames)
  BY <1>2 DEF GoodSlots
<1>10. slots' # Absent
  <2> DEFINE s == slots'
  <2>1. s = [n \in TrainingNames |-> s[n]] /\ IsSlots(s, TrainingNames)
    BY <1>8, <1>9
  <2> HIDE DEF s
  <2>2. s # Absent
    BY <2>1, SlotsThere
  <2>3. QED BY <2>2 DEF s
<1>11. QED BY <1>2, <1>4, <1>6, <1>7, <1>10

\* The accumulators keep up with the batch, and start over after a step.
LEMMA RunAccumulates ==
    ASSUME Full, NEW g \in Gradients, NEW t \in Statistics, Run(g, t)
    PROVE  Accumulated(slots', batch'.here)
<1> SUFFICES ASSUME NEW p \in Params
             PROVE  slots'[Accumulator(p)] = Elem(Loop!GradientSum(batch'.here, p))
  BY DEF Accumulated
<1>1. IsSlots(slots, TrainingNames)
  BY DEF Full, GoodSlots
<1>2. slots'[Accumulator(p)] = NextAccumulator(Total(g, p))
  BY <1>1, RunSlots
<1>3. Total(g, p) \in Int /\ Total(g, p) = Elem(Loop!GradientSum(Append(batch.here, g), p))
  <2>1. Total(g, p) \in Numbers /\ Numbers \subseteq Int
    BY <1>1, RunTyped, StepConstants DEF Numbers
  <2>2. QED BY <2>1, TotalIs
<1>4. CASE Applied
  <2>1. batch'.here = <<>>
    BY <1>4, RunBatch
  <2>2. Loop!GradientSum(<<>>, p) = 0
    <3>1. batch.here \in Seq(Gradients)
      BY DEF Full
    <3>2. QED BY <3>1, GradientsAdd
  <2>3. Total(g, p) * 0 = 0
    BY <1>3
  <2>4. QED BY <1>2, <1>4, <2>1, <2>2, <2>3 DEF NextAccumulator, Masked
<1>5. CASE ~Applied
  <2>1. batch'.here = Append(batch.here, g)
    BY <1>5, RunBatch
  <2>2. QED BY <1>2, <1>3, <1>5, <2>1 DEF NextAccumulator, Masked
<1>6. QED BY <1>4, <1>5

\* The state of the loop with one gradient more.
Seen(g) == State(WeightsOf(slots), VelocityOf(slots), slots[Running], Elem(slots[Draws] + 1),
                 Append(batch.here, g), slots[Updates], AverageOf(slots))

\* A run that does not apply a step leaves the rest alone.
LEMMA RunWaits ==
    ASSUME Full, NEW g \in Gradients, NEW t \in Statistics, Run(g, t), ~Applied
    PROVE  StateOf(slots', batch'.here) = Seen(g)
<1>1. IsSlots(slots, TrainingNames) /\ slots[Updates] \in Int
  <2>1. IsSlots(slots, TrainingNames)
    BY DEF Full, GoodSlots
  <2>2. QED BY <2>1, SlotsTyped
<1>2. /\ slots'[Running] = slots[Running] /\ slots'[Draws] = Elem(slots[Draws] + 1)
      /\ slots'[Updates] = slots[Updates]
  BY <1>1, RunSlots DEF Masked
<1>3. WeightsOf(slots') = WeightsOf(slots)
  <2>1. \A p \in Params : slots'[Weight(p)] = slots[Weight(p)]
    BY <1>1, RunSlots DEF NextWeight, Masked
  <2>2. QED BY <2>1 DEF WeightsOf
<1>4. VelocityOf(slots') = VelocityOf(slots)
  <2>1. \A p \in Params : p \in WithMomentum => slots'[Momentum(p)] = slots[Momentum(p)]
    BY <1>1, RunSlots DEF Masked
  <2>2. QED BY <2>1 DEF VelocityOf
<1>5. AverageOf(slots') = AverageOf(slots)
  <2>1. CASE slots[Updates] = 0
    BY <1>2, <2>1 DEF AverageOf
  <2>2. CASE slots[Updates] # 0
    <3>1. PICK written : slots'[Average] = NextAverage(written)
      BY <1>1, RunSlots
    <3>2. DOMAIN slots[Average] = DOMAIN PackedNames
      BY <1>1, SlotsTyped
    <3>3. \A k \in DOMAIN PackedNames : NextAverage(written)[k] = slots[Average][k]
      BY <2>2, <3>2 DEF NextAverage, Masked
    <3>4. \A n \in AverageNames : slots'[Average][PackedAt(n)] = slots[Average][PackedAt(n)]
      BY <3>1, <3>3, PackedAtIs
    <3>5. QED BY <1>2, <2>2, <3>4 DEF AverageOf
  <2>3. QED BY <2>1, <2>2
<1>6. batch'.here = Append(batch.here, g)
  BY RunBatch
<1>7. QED BY <1>2, <1>3, <1>4, <1>5, <1>6 DEF StateOf, Seen
\* The average of the two is one number.
LEMMA AveragesAgree ==
    ASSUME NEW x \in Int, NEW y \in Int, NEW d \in Int
    PROVE  x + (y - x) * (1 - d) = d * x + (1 - d) * y
<1>1. (y - x) * (1 - d) = (y - x) - (y - x) * d
  OBVIOUS
<1>2. (y - x) * d = y * d - x * d /\ y * d \in Int /\ x * d \in Int
  OBVIOUS
<1>3. (1 - d) * y = y - y * d /\ d * x = x * d
  OBVIOUS
<1>4. QED BY <1>1, <1>2, <1>3

\* A run that applies a step is the step of the loop.
LEMMA RunApplies ==
    ASSUME Full, NEW g \in Gradients, NEW t \in Statistics, Run(g, t), Applied
    PROVE  StateOf(slots', batch'.here) = Loop!Stepped(Seen(g), t)
<1> DEFINE w == WeightsOf(slots)
           v == VelocityOf(slots)
           r == slots[Running]
           e == Elem(slots[Draws] + 1)
           b == Append(batch.here, g)
           u == slots[Updates]
           a == AverageOf(slots)
           m == Seen(g)
           new == Moved(m, w)
           fast == Fast(m)
           rest == Loop!Mod(r + t)
           old == Before(w, r, u, a)
           new2(n) == IF n = "running" THEN rest ELSE new[n]
           next == After(old, rest, new, u)
<1>1. m = State(w, v, r, e, b, u, a)
  BY DEF Seen
<1>2. u = 0 \/ DOMAIN a = AverageNames
  BY DEF AverageOf
<1>3. Loop!Stepped(m, t) = State(new, fast, rest, e, <<>>, u + 1, next)
  <2> HIDE DEF w, v, r, e, b, u, a, m
  <2>1. QED BY <1>1, <1>2, SteppedIs
<1>4. IsSlots(slots, TrainingNames) /\ u \in 0 .. MaxUpdates - 1 /\ r \in Int /\ t \in Int
  <2>1. IsSlots(slots, TrainingNames) /\ u \in 0 .. MaxUpdates
    BY DEF Full, GoodSlots
  <2>2. u < MaxUpdates
    BY DEF Run
  <2>3. QED BY <2>1, <2>2, SlotsTyped, StepConstants
<1>5. PICK written : /\ written[Running] = Elem(slots[Running] + t)
                     /\ \A p \in Params : written[Weight(p)] = NextWeight(g, p)
                     /\ slots'[Average] = NextAverage(written)
  BY <1>4, RunSlots
<1>6. /\ slots'[Running] = rest /\ slots'[Draws] = e /\ slots'[Updates] = u + 1 /\ batch'.here = <<>>
      /\ written[Running] = rest
  BY <1>4, <1>5, RunSlots, RunBatch DEF Masked, Loop!Mod, Elem
<1>7. \A p \in Params : w[p] = slots[Weight(p)] /\ v[p] = IF p \in WithMomentum THEN slots[Momentum(p)] ELSE 0
  BY DEF WeightsOf, VelocityOf
<1>8. ASSUME NEW p \in Params
      PROVE  /\ p \in WithMomentum => Loop!Velocity(m, p) = CandidateVelocity(g, p)
             /\ Loop!Direction(m, p) = Direction(g, p)
  <2>1. m.batch = b /\ m.weights[p] = slots[Weight(p)]
        /\ m.velocity[p] = IF p \in WithMomentum THEN slots[Momentum(p)] ELSE 0
    <3> HIDE DEF w, v, r, e, b, u, a, m
    <3>1. m.batch = b /\ m.weights = w /\ m.velocity = v
      BY <1>1 DEF State
    <3>2. QED BY <1>7, <3>1
  <2> HIDE DEF m
  <2>2. QED BY <2>1, DirectionIs
<1> HIDE DEF m
<1>9. ASSUME NEW p \in Params
      PROVE  slots'[Weight(p)] = new[p] /\ written[Weight(p)] = new[p] /\ new[p] \in Numbers
  <2>1. NextWeight(g, p) = Elem(slots[Weight(p)] - LearningRate * Direction(g, p))
    BY DEF NextWeight, Masked
  <2>2. new[p] = Elem(slots[Weight(p)] - LearningRate * Direction(g, p))
    BY <1>7, <1>8 DEF Moved, Loop!Mod, Elem
  <2>3. NextWeight(g, p) \in Numbers
    BY <1>4, RunTyped
  <2>4. QED BY <1>4, <1>5, <2>1, <2>2, <2>3, RunSlots
<1>10. WeightsOf(slots') = new
  BY <1>9 DEF WeightsOf, Moved
<1>11. VelocityOf(slots') = fast
  <2>1. ASSUME NEW p \in Params PROVE (IF p \in WithMomentum THEN slots'[Momentum(p)] ELSE 0) = fast[p]
    <3>1. p \in WithMomentum <=> Options[p].momentum # 0
      BY DEF WithMomentum
    <3>2. p \in WithMomentum => slots'[Momentum(p)] = CandidateVelocity(g, p)
      BY <1>4, RunSlots DEF Masked
    <3>3. QED BY <1>8, <3>1, <3>2 DEF Fast
  <2>2. QED BY <2>1 DEF VelocityOf, Fast
<1>12. rest \in Numbers /\ Numbers \subseteq Int
  <2>1. Elem(r + t) \in Numbers
    <3>1. r + t \in Int
      BY <1>4
    <3>2. QED BY <3>1, ElemTyped
  <2>2. QED BY <2>1, StepConstants DEF Loop!Mod, Elem, Numbers
<1> HIDE DEF new, fast, rest, old
<1>13. AverageOf(slots') = next
  <2> DEFINE before == IF u = 0 THEN Pack(slots) ELSE slots[Average]
             new3 == Pack(written)
  <2>1. ASSUME NEW n \in AverageNames
        PROVE  /\ before[PackedAt(n)] = old[n] /\ new3[PackedAt(n)] = new2(n) /\ PackedAt(n) \in DOMAIN before
               /\ old[n] \in Int /\ new2(n) \in Int
    <3>1. PackedAt(n) \in DOMAIN PackedNames /\ PackedNames[PackedAt(n)] = Slot(n)
      BY PackedAtIs
    <3>2. Pack(slots)[PackedAt(n)] = slots[Slot(n)] /\ new3[PackedAt(n)] = written[Slot(n)]
          /\ PackedAt(n) \in DOMAIN Pack(slots) /\ PackedAt(n) \in DOMAIN slots[Average]
          /\ slots[Average][PackedAt(n)] \in Numbers
      BY <1>4, <3>1, SlotsTyped DEF Pack
    <3>3. u = 0 => old[n] = slots[Slot(n)]
      BY <1>7 DEF Slot, AverageNames, Before, old
    <3>4. u # 0 => old[n] = slots[Average][PackedAt(n)]
      BY DEF AverageOf, Before, old
    <3>5. slots[Slot(n)] \in Numbers
      BY <1>4, SlotsTyped DEF Slot, AverageNames
    <3>6. new2(n) = written[Slot(n)] /\ new2(n) \in Numbers
      BY <1>6, <1>9, <1>12 DEF Slot, AverageNames
    <3> HIDE DEF old, new2, new3
    <3>7. QED BY <1>12, <3>2, <3>3, <3>4, <3>5, <3>6
  <2>2. DOMAIN old = AverageNames
    BY <1>2 DEF Before, old
  <2>3. Decay(u + 1) \in Int /\ u + 1 # 0
    <3>1. u + 1 \in 0 .. MaxUpdates /\ u + 1 # 0
      BY <1>4, StepConstants
    <3>2. QED BY <3>1, StepConstants
  <2>4. NextAverage(written) = [k \in DOMAIN before |->
                                   Elem(before[k] + (new3[k] - before[k]) * (1 - Decay(u + 1)))]
    BY DEF NextAverage, Masked
  <2> HIDE DEF before, new3, old, new2
  <2>5. ASSUME NEW n \in AverageNames
        PROVE  slots'[Average][PackedAt(n)] = Loop!Mod(Decay(u + 1) * old[n] + (1 - Decay(u + 1)) * new2(n))
    <3>1. slots'[Average][PackedAt(n)] = Elem(old[n] + (new2(n) - old[n]) * (1 - Decay(u + 1)))
      BY <1>5, <2>1, <2>4
    <3>2. old[n] + (new2(n) - old[n]) * (1 - Decay(u + 1)) = Decay(u + 1) * old[n] + (1 - Decay(u + 1)) * new2(n)
      BY <2>1, <2>3, AveragesAgree
    <3>3. QED BY <3>1, <3>2 DEF Loop!Mod, Elem
  <2>6. AverageOf(slots') = [n \in AverageNames |-> slots'[Average][PackedAt(n)]]
    BY <1>6, <2>3 DEF AverageOf
  <2>7. next = [n \in AverageNames |-> Loop!Mod(Decay(u + 1) * old[n] + (1 - Decay(u + 1)) * new2(n))]
    BY <2>2 DEF After, new2
  <2>8. QED BY <2>5, <2>6, <2>7
<1> HIDE DEF next
<1>14. StateOf(slots', batch'.here) = State(new, fast, rest, e, <<>>, u + 1, next)
  BY <1>6, <1>10, <1>11, <1>13 DEF StateOf
<1>15. QED BY <1>3, <1>14 DEF m

\* Every run of the step is a micro-batch of the loop.
LEMMA RunIsMicroBatch ==
    ASSUME Full, NEW g \in Gradients, NEW t \in Statistics, Run(g, t)
    PROVE  Loop!MicroBatch(g, t)
<1> DEFINE m == Meaning(slots, batch.here)
           seen == [m EXCEPT !.batch = Append(@, g), !.draws = Loop!Mod(@ + 1)]
           after == Meaning(slots', batch'.here)
<1>1. slots # Absent /\ batch.here \in Seq(Gradients) /\ GoodSlots(slots, batch.here) /\ slots[Updates] < MaxUpdates
  BY DEF Full, Run
<1>2. m = StateOf(slots, batch.here) /\ m # Absent
  BY <1>1, MeaningThere
<1>3. after = StateOf(slots', batch'.here)
  <2> DEFINE s == slots'
             b == batch'.here
  <2>1. s # Absent /\ GoodSlots(s, b) /\ batch' \in [here : Seq(Gradients), taken : Seq(Gradients)]
    BY RunBatch
  <2>2. b \in Seq(Gradients)
    BY <2>1
  <2> HIDE DEF s, b
  <2>3. Meaning(s, b) = StateOf(s, b)
    BY <2>1, <2>2, MeaningThere
  <2>4. QED BY <2>3 DEF s, b
<1>4. m.updates = slots[Updates] /\ seen = Seen(g) /\ seen.batch = Append(batch.here, g)
  <2> DEFINE d == Loop!Mod(slots[Draws] + 1)
             b == Append(batch.here, g)
  <2>1. m.batch = batch.here /\ m.draws = slots[Draws] /\ m.updates = slots[Updates]
    BY <1>2 DEF StateOf, State
  <2>2. seen = [m EXCEPT !.batch = b, !.draws = d]
    BY <2>1
  <2>3. d = Elem(slots[Draws] + 1)
    BY DEF Loop!Mod, Elem
  <2> HIDE DEF seen, m, b, d
  <2>4. seen = State(WeightsOf(slots), VelocityOf(slots), slots[Running], d, b, slots[Updates], AverageOf(slots))
    BY <1>2, <2>2 DEF StateOf, State
  <2>5. seen = Seen(g)
    BY <2>3, <2>4 DEF Seen, b
  <2>6. seen.batch = b
    BY <2>4 DEF State
  <2>7. QED BY <2>1, <2>5, <2>6 DEF b
<1>5. after = IF Len(seen.batch) < Steps THEN seen ELSE Loop!Stepped(seen, t)
  <2>1. CASE Applied
    <3>1. ~(Len(seen.batch) < Steps) /\ after = Loop!Stepped(Seen(g), t)
      BY <1>3, <1>4, <2>1, RunBatch, RunApplies
    <3>2. QED BY <1>4, <3>1
  <2>2. CASE ~Applied
    <3>1. Len(seen.batch) < Steps /\ after = Seen(g)
      BY <1>3, <1>4, <2>2, RunBatch, RunWaits
    <3>2. QED BY <1>4, <3>1
  <2>3. QED BY <2>1, <2>2
<1>6. Meaning(buffers', batch'.taken) = Meaning(buffers, batch.taken)
  BY RunBatch DEF Run
<1>7. m # Absent /\ m.updates < MaxUpdates
  BY <1>1, <1>2, <1>4
<1>8. QED BY <1>5, <1>6, <1>7 DEF Loop!MicroBatch

\* Restored, the slots stand for what the buffers did.
LEMMA RestoredAlike ==
    ASSUME NEW s, IsSlots(s, TrainingNames), NEW q, q = [n \in TrainingNames |-> s[n]], NEW seen
    PROVE  /\ StateOf(q, seen) = StateOf(s, seen) /\ (Accumulated(s, seen) => Accumulated(q, seen))
           /\ q # Absent /\ IsSlots(q, TrainingNames) /\ q = [n \in TrainingNames |-> q[n]]
<1>1. \A n \in TrainingNames : q[n] = s[n]
  OBVIOUS
<1>2. /\ {Running, Draws, Count, Updates, Average} \subseteq TrainingNames
      /\ \A p \in Params : /\ Weight(p) \in TrainingNames /\ Accumulator(p) \in TrainingNames
                           /\ p \in WithMomentum => Momentum(p) \in TrainingNames
  BY SlotsTyped
<1>3. /\ q[Running] = s[Running] /\ q[Draws] = s[Draws] /\ q[Updates] = s[Updates] /\ q[Average] = s[Average]
      /\ \A p \in Params : /\ q[Weight(p)] = s[Weight(p)] /\ q[Accumulator(p)] = s[Accumulator(p)]
                           /\ p \in WithMomentum => q[Momentum(p)] = s[Momentum(p)]
  BY <1>1, <1>2
<1>4. WeightsOf(q) = WeightsOf(s) /\ VelocityOf(q) = VelocityOf(s) /\ AverageOf(q) = AverageOf(s)
  BY <1>3 DEF WeightsOf, VelocityOf, AverageOf
<1>5. StateOf(q, seen) = StateOf(s, seen)
  BY <1>3, <1>4 DEF StateOf
<1>6. IsSlots(q, TrainingNames) /\ q = [n \in TrainingNames |-> q[n]]
  BY <1>1 DEF IsSlots
<1>7. QED BY <1>3, <1>5, <1>6, SlotsThere DEF Accumulated

\* Every step keeps the accumulators, and is a step of the loop or none.
LEMMA StepImplements ==
    ASSUME StepInv, SumInv, [TrainNext]_trainVars
    PROVE  SumInv' /\ [Loop!Next]_(Loop!vars)
<1> DEFINE inUse == Meaning(slots, batch.here)
           kept == Meaning(buffers, batch.taken)
<1>1. /\ slots # Absent => GoodSlots(slots, batch.here) /\ Accumulated(slots, batch.here)
      /\ inference # Absent => IsSlots(inference, InferenceNames)
      /\ buffers # Absent => IsSlots(buffers, InferenceNames) \/ GoodSlots(buffers, batch.taken)
      /\ batch \in [here : Seq(Gradients), taken : Seq(Gradients)]
      /\ buffers # Absent /\ Average \in DOMAIN buffers => Accumulated(buffers, batch.taken)
  BY DEF StepInv, SumInv
<1>2. slots # Absent => Full
  BY <1>1 DEF Full
<1>3. Average \notin InferenceNames /\ Average \in TrainingNames
  BY NamesDiffer DEF TrainingNames, TransformState
<1>4. ASSUME NEW g \in Gradients, NEW t \in Statistics, Run(g, t) PROVE SumInv' /\ Loop!Next
  <2>1. Full /\ buffers' = buffers
    BY <1>2, <1>4 DEF Run
  <2>2. Accumulated(slots', batch'.here) /\ batch'.taken = batch.taken
    BY <1>4, <2>1, RunAccumulates, RunBatch
  <2>3. SumInv'
    BY <1>1, <2>1, <2>2 DEF SumInv, Accumulated
  <2>4. Loop!MicroBatch(g, t)
    BY <1>4, <2>1, RunIsMicroBatch
  <2>5. QED BY <2>3, <2>4 DEF Loop!Next
<1>5. CASE TakeSession
  <2>1. /\ slots # Absent /\ buffers' = slots /\ slots' = Absent
        /\ batch' = [batch EXCEPT !.taken = batch.here, !.here = <<>>]
    BY <1>5 DEF TakeSession
  <2>2. batch'.taken = batch.here /\ batch'.here = <<>>
    BY <1>1, <2>1
  <2>3. inUse # Absent
    <3>1. batch.here \in Seq(Gradients)
      BY <1>1
    <3>2. QED BY <1>1, <2>1, <3>1, MeaningThere
  <2>4. Meaning(buffers', batch'.taken) = inUse /\ Meaning(slots', batch'.here) = Absent
    BY <2>1, <2>2 DEF Meaning
  <2>5. Loop!Save
    BY <2>3, <2>4 DEF Loop!Save
  <2>6. SumInv'
    BY <1>1, <2>1, <2>2 DEF SumInv, Accumulated
  <2>7. QED BY <2>5, <2>6 DEF Loop!Next
<1>6. CASE TakeInference
  <2>1. inference # Absent /\ buffers' = inference /\ slots' = slots /\ batch' = batch
    BY <1>6 DEF TakeInference
  <2>2. Average \notin DOMAIN buffers'
    BY <1>1, <1>3, <2>1 DEF IsSlots
  <2>3. Meaning(buffers', batch'.taken) = Absent /\ Meaning(slots', batch'.here) = inUse
    BY <2>1, <2>2 DEF Meaning
  <2>4. Loop!Forget
    BY <2>3 DEF Loop!Forget
  <2>5. SumInv'
    BY <1>1, <2>1, <2>2 DEF SumInv, Accumulated
  <2>6. QED BY <2>4, <2>5 DEF Loop!Next
<1>7. CASE RestoreTraining
  <2>1. /\ slots = Absent /\ buffers # Absent /\ TrainingNames \subseteq DOMAIN buffers
        /\ slots' = [n \in TrainingNames |-> buffers[n]]
        /\ batch' = [batch EXCEPT !.here = batch.taken] /\ buffers' = buffers
    BY <1>7 DEF RestoreTraining, Restorable, Restored, TrainingNames
  <2>2. GoodSlots(buffers, batch.taken) /\ Accumulated(buffers, batch.taken) /\ Average \in DOMAIN buffers
    BY <1>1, <1>3, <2>1 DEF IsSlots
  <2>3. batch'.here = batch.taken /\ batch'.taken = batch.taken /\ batch.taken \in Seq(Gradients)
    BY <1>1, <2>1
  <2>4. IsSlots(buffers, TrainingNames)
    BY <2>2 DEF GoodSlots
  <2> DEFINE q == slots'
  <2>5. q = [n \in TrainingNames |-> buffers[n]]
    BY <2>1
  <2> HIDE DEF q
  <2>6. /\ StateOf(q, batch.taken) = StateOf(buffers, batch.taken) /\ Accumulated(q, batch.taken)
        /\ q # Absent /\ IsSlots(q, TrainingNames)
    BY <2>2, <2>4, <2>5, RestoredAlike
  <2>7. Meaning(q, batch.taken) = StateOf(q, batch.taken)
    BY <1>3, <2>6, MeaningIs DEF IsSlots
  <2>8. kept = StateOf(buffers, batch.taken) /\ kept # Absent
    BY <2>1, <2>2, <2>3, MeaningThere
  <2>9. Meaning(slots', batch'.here) = kept /\ Meaning(buffers', batch'.taken) = kept /\ inUse = Absent
    BY <2>1, <2>3, <2>6, <2>7, <2>8 DEF q, Meaning
  <2>10. Loop!Restore
    BY <2>8, <2>9 DEF Loop!Restore
  <2>11. SumInv'
    BY <2>1, <2>2, <2>3, <2>6 DEF SumInv, Accumulated, q
  <2>12. QED BY <2>10, <2>11 DEF Loop!Next
<1>8. ASSUME UNCHANGED <<slots, buffers, batch>> PROVE SumInv' /\ UNCHANGED Loop!vars
  <2>1. slots' = slots /\ buffers' = buffers /\ batch' = batch
    BY <1>8
  <2>2. QED BY <1>1, <2>1 DEF SumInv, Accumulated, Loop!vars, Meaning
<1>9. CASE RestoreInference
  BY <1>8, <1>9 DEF RestoreInference
<1>10. CASE UNCHANGED trainVars
  BY <1>8, <1>10 DEF trainVars
<1>11. QED BY <1>4, <1>5, <1>6, <1>7, <1>9, <1>10 DEF TrainNext

\* The first session has summed up nothing, and stands for a fresh loop.
LEMMA StepStartsFresh == TrainInit => SumInv /\ Loop!Init
<1> SUFFICES ASSUME TrainInit PROVE SumInv /\ Loop!Init
  OBVIOUS
<1> DEFINE zeros == [k \in DOMAIN PackedNames |-> 0]
           value(n) == IF n \in Weights THEN 1 ELSE IF n = Average THEN zeros ELSE 0
           none == <<>>
<1>1. /\ slots = [n \in TrainingNames |-> value(n)] /\ buffers = Absent /\ inference = Absent
      /\ batch.here = none /\ batch.taken = none
  BY DEF TrainInit, TrainingNames
<1>2. StepInv
  BY StepStarts
<1>3. none \in Seq(Gradients) /\ Len(none) = 0
  OBVIOUS
<1>4. /\ \A n \in {Running, Draws, Count, Updates} : value(n) = 0
      /\ \A p \in Params : value(Weight(p)) = 1 /\ value(Accumulator(p)) = 0 /\ value(Momentum(p)) = 0
  <2>1. /\ \A n \in {Running, Draws, Count, Updates} : n # Average /\ n \notin Weights
        /\ \A p \in Params : /\ Accumulator(p) # Average /\ Momentum(p) # Average
                             /\ Accumulator(p) \notin Weights /\ Momentum(p) \notin Weights
    BY NamesDiffer DEF InferenceNames, ModelState, Weights
  <2>2. \A p \in Params : Weight(p) \in Weights
    BY DEF Weights
  <2>3. QED BY <2>1, <2>2
<1> HIDE DEF value, none
<1>5. /\ {Running, Draws, Count, Updates, Average} \subseteq TrainingNames
      /\ \A p \in Params : /\ Weight(p) \in TrainingNames /\ Accumulator(p) \in TrainingNames
                           /\ p \in WithMomentum => Momentum(p) \in TrainingNames
  BY DEF TrainingNames, ModelState, TransformState, Weights
<1>6. /\ slots[Running] = 0 /\ slots[Draws] = 0 /\ slots[Updates] = 0 /\ slots[Count] = 0
      /\ \A p \in Params : /\ slots[Weight(p)] = 1 /\ slots[Accumulator(p)] = 0
                           /\ p \in WithMomentum => slots[Momentum(p)] = 0
  BY <1>1, <1>4, <1>5
<1>7. slots # Absent /\ GoodSlots(slots, none)
  <2>1. ASSUME slots # Absent PROVE GoodSlots(slots, none)
    BY <1>1, <1>2, <2>1 DEF StepInv
  <2>2. \A n \in TrainingNames : slots[n] \in Numbers \cup [DOMAIN PackedNames -> Numbers]
    <3>1. 0 \in Numbers /\ 1 \in Numbers
      BY StepConstants DEF Numbers
    <3>2. QED BY <1>1, <3>1 DEF value
  <2>3. slots \in [TrainingNames -> Numbers \cup [DOMAIN PackedNames -> Numbers]]
    BY <1>1, <2>2
  <2>4. QED BY <2>1, <2>3, AbsentAssumption DEF TrainingNames
<1>8. Accumulated(slots, none)
  <2> SUFFICES ASSUME NEW p \in Params PROVE slots[Accumulator(p)] = Elem(Loop!GradientSum(none, p))
    BY DEF Accumulated
  <2>1. PICK v : SumsUp(v, none, p) /\ Loop!GradientSum(none, p) = v[Len(none)]
    BY <1>3, GradientsSum
  <2>2. Loop!GradientSum(none, p) = 0
    BY <1>3, <2>1 DEF SumsUp
  <2>3. Elem(0) = 0
    BY StepConstants, ElemsAdd DEF Numbers
  <2>4. QED BY <1>6, <2>2, <2>3
<1>9. SumInv
  BY <1>1, <1>8 DEF SumInv
<1>10. Meaning(slots, batch.here) = StateOf(slots, none)
  BY <1>1, <1>3, <1>7, MeaningThere
<1> DEFINE ones == [p \in Params |-> 1]
<1>11. StateOf(slots, none) = Loop!Fresh(ones)
  <2>1. WeightsOf(slots) = ones /\ VelocityOf(slots) = [p \in Params |-> 0] /\ AverageOf(slots) = Absent
    BY <1>6 DEF WeightsOf, VelocityOf, AverageOf
  <2> HIDE DEF ones
  <2>2. QED BY <1>6, <2>1 DEF StateOf, State, Loop!Fresh, none
<1>12. ones \in [Params -> {1}]
  OBVIOUS
<1> HIDE DEF ones
<1>13. Meaning(buffers, batch.taken) = Absent
  BY <1>1 DEF Meaning
<1>14. Loop!Init
  BY <1>10, <1>11, <1>12, <1>13 DEF Loop!Init
<1>15. QED BY <1>9, <1>14

\* For every list of parameters with their options, every modulus, number of
\* accumulated batches, gradients and schedule of decays: the compiled, masked step
\* is the host-side loop. Sums over the masks are its mean gradients, and a session
\* taken apart in the middle of an accumulation goes on where it was.
THEOREM OptimizerImplemented == TrainSpec => ImplementsOptimizerLoop
<1> DEFINE Inv == StepInv /\ SumInv
<1>1. TrainInit => Inv /\ Loop!Init
  BY StepStarts, StepStartsFresh
<1>2. ASSUME Inv, [TrainNext]_trainVars PROVE Inv' /\ [Loop!Next]_(Loop!vars)
  BY <1>2, StepSteps, StepImplements
<1> HIDE DEF Inv
<1>3. QED BY <1>1, <1>2, PTL DEF TrainSpec, ImplementsOptimizerLoop, Loop!Spec

-----------------------------------------------------------------------------
\* The schedules, for the components side by side.

\* A step of one component is a step or a stutter of every other.
LEMMA OneMoves ==
    ASSUME [Next]_allVars
    PROVE  [TrainNext]_trainVars /\ [ChainNext]_chainVars /\ [RunNext]_runVars
<1>1. CASE UNCHANGED allVars
  BY <1>1 DEF allVars
<1>2. CASE part = "step" /\ TrainNext /\ UNCHANGED <<chainVars, runVars, randomVars, abiVars>>
  BY <1>2
<1>3. CASE part = "chain" /\ ChainNext /\ UNCHANGED <<trainVars, runVars, randomVars, abiVars>>
  BY <1>3
<1>4. CASE part = "run" /\ RunNext /\ UNCHANGED <<trainVars, chainVars, randomVars, abiVars>>
  BY <1>4
<1>5. CASE UNCHANGED <<trainVars, chainVars, runVars>>
  BY <1>5
<1>6. QED BY <1>1, <1>2, <1>3, <1>4, <1>5 DEF Next

\* For every data set, schedule, batch, pool and queue, and every number of batches
\* the optimizer accumulates: a step trains with the L1 loss only when its batch
\* is without mosaic and mixup, every batch comes in a size that has a program, the
\* steps counted are those planned, and no run runs out of data unless a read
\* failed.
THEOREM SchedulesAlwaysAgree == WordsAreNumbers /\ Spec => []SchedulesAgree
<1> DEFINE Inv == StepInv /\ ChainInv /\ TrainingInv /\ ScheduleInv
<1> SUFFICES ASSUME WordsAreNumbers PROVE Spec => []SchedulesAgree
  OBVIOUS
<1>1. Init => Inv
  BY StepStarts, ChainStarts, TrainingStarts, ScheduleStarts DEF Init
<1>2. ASSUME Inv, [Next]_allVars PROVE Inv'
  <2>1. [TrainNext]_trainVars /\ [ChainNext]_chainVars /\ [RunNext]_runVars
    BY <1>2, OneMoves
  <2>2. StepInv'
    BY <1>2, <2>1, StepSteps
  <2>3. ChainInv'
    BY <1>2, <2>1, ChainInvNext
  <2>4. TrainingInv' /\ ScheduleInv'
    BY <1>2, <2>1, TrainingSteps, ScheduleSteps
  <2>5. QED BY <2>2, <2>3, <2>4
<1>3. Inv => SchedulesAgree
  BY StepTyped, ChainTyped, SchedulesOfRun DEF SchedulesAgree
<1> HIDE DEF Inv
<1>4. QED BY <1>1, <1>2, <1>3, PTL DEF Spec
=============================================================================
