------------------------------ MODULE ShufflePool ------------------------------
(***************************************************************************)
(* ShufflePool of rxla-train/src/pipeline.rs, an iterator that shuffles a  *)
(* sequential input through a bounded pool.  `source` is what the input's  *)
(* n-th call yields: an item (a natural number), an error, or (outside its *)
(* domain) the end.                                                        *)
(* The random word of a draw is a parameter: it depends on the seed and    *)
(* the number of the draw only.                                            *)
(***************************************************************************)
EXTENDS Integers, Sequences, FiniteSetsExt

Failure == -1
Exhausted == -2

Pulled(source, n) == IF n \in DOMAIN source THEN source[n] ELSE Exhausted
Items(source) == {n \in DOMAIN source : source[n] # Failure}

NewPool(capacity) ==
    [capacity |-> capacity, items |-> <<>>, reads |-> 0, draws |-> 0,
     initialized |-> FALSE, exhausted |-> FALSE, pending |-> FALSE]

\* fill: read until the pool is full or the input fails or ends.
Fill(p, source) ==
    LET full == p.reads + p.capacity - Len(p.items)
        stops == {n \in p.reads .. full - 1 : n \notin Items(source)}
        stop == IF stops = {} THEN full ELSE Min(stops)
    IN  [p EXCEPT
            !.items = @ \o [k \in 1 .. stop - p.reads |-> source[p.reads + k - 1]],
            !.reads = IF stops = {} THEN stop ELSE stop + 1,
            !.exhausted = stops # {},
            !.pending = stops # {} /\ Pulled(source, stop) = Failure,
            !.initialized = TRUE]

SwapRemove(items, i) ==
    [k \in 1 .. Len(items) - 1 |-> IF k = i THEN items[Len(items)] ELSE items[k]]

\* Read the replacement of the item just chosen.  An error stays pending: it
\* is returned by the next call.
Replace(p, source) ==
    IF p.exhausted THEN p
    ELSE IF p.reads \in Items(source)
    THEN [p EXCEPT !.items = Append(@, source[p.reads]), !.reads = @ + 1]
    ELSE [p EXCEPT !.exhausted = TRUE, !.reads = @ + 1,
                      !.pending = Pulled(source, p.reads) = Failure]

\* next, once the pool has been filled: the pool after the call and what the call returned.
TakeFrom(p, source, word) ==
    LET index == (word % Len(p.items)) + 1
    IN  IF p.pending
        THEN [pool |-> [p EXCEPT !.items = <<>>, !.pending = FALSE], result |-> Failure]
        ELSE IF p.items = <<>> THEN [pool |-> p, result |-> Exhausted]
        ELSE [pool |-> Replace([p EXCEPT !.items = SwapRemove(@, index), !.draws = @ + 1], source),
              result |-> p.items[index]]
\* next: the first call fills the pool.
Take(p, source, word) == TakeFrom(IF p.initialized THEN p ELSE Fill(p, source), source, word)
=============================================================================
