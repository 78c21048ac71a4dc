---------------------------- MODULE OrderedStream ----------------------------
(***************************************************************************)
(* What a BoundedPipeline promises its consumer, whatever threads run      *)
(* behind it: `recv` yields the source's items in source order, the first  *)
(* failing item is the last one, and a clean end (`None`) comes only after *)
(* the whole source or after that failing item.  The consumer may abandon  *)
(* the stream at any point.  ParallelPipeline is checked to implement this *)
(* specification.                                                          *)
(***************************************************************************)
EXTENDS Naturals, Sequences

CONSTANTS ItemCount    \* how many items the source iterator holds

VARIABLES failing,     \* the items whose Result is an Err at the consumer
          received,    \* the items `recv` has returned, in order
          stream       \* "open", "ended" (recv gave None) or "abandoned"

vars == <<failing, received, stream>>

Items == 0 .. ItemCount - 1

\* The consumer has been handed an error: nothing may follow it.
Failed == \E i \in 1 .. Len(received) : received[i] \in failing

Init ==
    /\ failing \in SUBSET Items
    /\ received = <<>>
    /\ stream = "open"

Deliver ==
    /\ stream = "open"
    /\ ~Failed
    /\ Len(received) < ItemCount
    /\ received' = Append(received, Len(received))
    /\ UNCHANGED <<failing, stream>>

End ==
    /\ stream = "open"
    /\ Failed \/ Len(received) = ItemCount
    /\ stream' = "ended"
    /\ UNCHANGED <<failing, received>>

Abandon ==
    /\ stream # "abandoned"
    /\ stream' = "abandoned"
    /\ UNCHANGED <<failing, received>>

Next == Deliver \/ End \/ Abandon

Spec == Init /\ [][Next]_vars
=============================================================================
