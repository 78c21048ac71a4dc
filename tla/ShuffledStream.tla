---------------------------- MODULE ShuffledStream ----------------------------
(***************************************************************************)
(* What a shuffled pipeline promises its consumer.  Items are numbered in  *)
(* source order.  Each is received at most once, no earlier than its place *)
(* minus the pool's size allows.  The source's error comes at a place that *)
(* no random choice can move, the first error is the last thing received,  *)
(* and a clean end comes only after every item or after that error, or     *)
(* where a panic has cut the stream off.                                   *)
(***************************************************************************)
EXTENDS Integers, Sequences, SequencesExt

CONSTANTS ItemCount,   \* items before the source ends or fails
          PoolSize     \* the shuffle pool's capacity

VARIABLES broken,      \* whether the source fails after ItemCount items
          failing,     \* items whose transformation fails
          panicking,   \* items whose transformation panics
          received,    \* items, and Failure for the source's
          stream       \* "open", "ended" or "abandoned"

Failure == -1

vars == <<broken, failing, panicking, received, stream>>

Failed ==
    \E k \in DOMAIN received : received[k] = Failure \/ received[k] \in failing
\* Items delivered before the source's error: those whose replacement was read.
BeforeError == IF ItemCount < PoolSize THEN 0 ELSE ItemCount - PoolSize + 1
Limit == IF broken THEN BeforeError ELSE ItemCount

Init ==
    /\ broken \in BOOLEAN
    /\ failing \in SUBSET (0 .. ItemCount - 1)
    /\ panicking \in SUBSET ((0 .. ItemCount - 1) \ failing)
    /\ received = <<>>
    /\ stream = "open"

Deliver ==
    /\ stream = "open" /\ ~Failed
    /\ Len(received) < Limit
    /\ \E item \in 0 .. ItemCount - 1 :
        /\ item \notin Range(received) \union panicking
        /\ item < Len(received) + PoolSize
        /\ received' = Append(received, item)
    /\ UNCHANGED <<broken, failing, panicking, stream>>

DeliverError ==
    /\ stream = "open" /\ ~Failed
    /\ broken /\ Len(received) = BeforeError
    /\ received' = Append(received, Failure)
    /\ UNCHANGED <<broken, failing, panicking, stream>>

End ==
    /\ stream = "open"
    /\ \/ Failed
       \/ ~broken /\ Len(received) = ItemCount
       \/ \E item \in panicking : item < Len(received) + PoolSize
    /\ stream' = "ended"
    /\ UNCHANGED <<broken, failing, panicking, received>>

Abandon ==
    /\ stream # "abandoned"
    /\ stream' = "abandoned"
    /\ UNCHANGED <<broken, failing, panicking, received>>

Next == Deliver \/ DeliverError \/ End \/ Abandon

Spec == Init /\ [][Next]_vars
=============================================================================
