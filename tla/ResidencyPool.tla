---------------------------- MODULE ResidencyPool ----------------------------
(***************************************************************************)
(* WeightResidencyPool (rxla-safetensors/src/residency.rs): prefetches     *)
(* running on threads of their own reserve logical bytes of one budget,    *)
(* copy a component's buffers into device memory, and give the reservation *)
(* back when the resident bundle, and the model bound to it, are dropped.  *)
(* The device memory is shared with allocations the pool knows nothing of. *)
(***************************************************************************)
EXTENDS Integers, Sequences, FiniteSets, Functions

CONSTANTS Components,
          Sizes,        \* Sizes[c]: bytes of the buffers of component c
          Limit,        \* weight_budget_bytes
          Capacity,     \* bytes of the device allocator
          Headroom,     \* allocator_headroom_bytes, -1 without it
          OtherBytes    \* what the other allocations may use

ASSUME PoolAssumption ==
    /\ IsFiniteSet(Components)
    /\ Sizes \in [Components -> Seq(Nat)]
    /\ {Limit, Capacity, Headroom + 1} \subseteq Nat
    /\ OtherBytes \subseteq Nat /\ 0 \in OtherBytes

VARIABLES reserved, phase, copies, holders, other

poolVars == <<reserved, phase, copies, holders, other>>

Payload(c) == SumFunction(Sizes[c])
CopiedBytes(c) == SumFunctionOnSet(Sizes[c], 1 .. copies[c])
WeightBytes == SumFunction([c \in Components |-> CopiedBytes(c)])
InUse == WeightBytes + other

PoolInit ==
    /\ reserved = 0
    /\ phase = [c \in Components |-> "idle"]
    /\ copies = [c \in Components |-> 0]
    /\ holders = [c \in Components |-> {}]
    /\ other = 0

Move(c, from, to) == phase[c] = from /\ phase' = [phase EXCEPT ![c] = to]

\* prefetch, first half: the allocator's free bytes are read before anything is
\* reserved.  Too little room is an error that changes nothing.
CheckHeadroom(c) ==
    /\ Headroom # -1 => Payload(c) + Headroom <= Capacity - InUse
    /\ Move(c, "idle", "checked")
    /\ UNCHANGED <<reserved, copies, holders, other>>

\* Budget::reserve: one atomic update, or an error.
Reserve(c) ==
    /\ IF reserved + Payload(c) <= Limit
       THEN Move(c, "checked", "copying") /\ reserved' = reserved + Payload(c)
       ELSE Move(c, "checked", "idle") /\ UNCHANGED reserved
    /\ UNCHANGED <<copies, holders, other>>

\* prefetch_to copies one buffer after the other; an error drops those made, and
\* only then the reservation.
CopyBuffer(c) ==
    /\ phase[c] = "copying" /\ copies[c] < Len(Sizes[c])
    /\ \/ /\ InUse + Sizes[c][copies[c] + 1] <= Capacity
          /\ copies' = [copies EXCEPT ![c] = @ + 1]
          /\ IF copies'[c] = Len(Sizes[c])
             THEN /\ Move(c, "copying", "resident")
                  /\ holders' = [holders EXCEPT ![c] = {"bundle"}]
             ELSE UNCHANGED <<phase, holders>>
       \/ /\ Move(c, "copying", "releasing")
          /\ copies' = [copies EXCEPT ![c] = 0]
          /\ UNCHANGED holders
    /\ UNCHANGED <<reserved, other>>

\* Mutant: the model clones the handles and lets the bundle go.
BindAlone(c) ==
    /\ Move(c, "resident", "releasing")
    /\ holders' = [holders EXCEPT ![c] = {"model"}]
    /\ UNCHANGED <<reserved, copies, other>>

\* bind clones the buffer handles into the model and keeps the bundle next to it.
Bind(c) ==
    /\ Move(c, "resident", "bound")
    /\ holders' = [holders EXCEPT ![c] = @ \cup {"model"}]
    /\ UNCHANGED <<reserved, copies, other>>

\* Drop in field order: the bound model, then the bundle's buffers (a failed bind
\* and a discarded PendingWeightPrefetch drop the bundle alone), then the
\* reservation.  Memory is free when the last handle is gone.
LetGo(c, who) ==
    /\ holders' = [holders EXCEPT ![c] = @ \ {who}]
    /\ copies' = [copies EXCEPT ![c] = IF holders'[c] = {} THEN 0 ELSE @]
    /\ UNCHANGED <<reserved, other>>

DropModel(c) == Move(c, "bound", "unbinding") /\ LetGo(c, "model")
DropBundle(c) ==
    /\ \/ Move(c, "resident", "releasing") \/ Move(c, "unbinding", "releasing")
    /\ LetGo(c, "bundle")

DropReservation(c) ==
    /\ Move(c, "releasing", "idle")
    /\ reserved' = reserved - Payload(c)
    /\ UNCHANGED <<copies, holders, other>>

\* Activations and buffers made outside the pool.
OtherAllocation ==
    /\ other' \in OtherBytes \ {other}
    /\ other' < other \/ InUse - other + other' <= Capacity
    /\ UNCHANGED <<reserved, phase, copies, holders>>

PoolNext ==
    \/ \E c \in Components :
          \/ CheckHeadroom(c) \/ Reserve(c) \/ CopyBuffer(c) \/ Bind(c)
          \/ DropModel(c) \/ DropBundle(c) \/ DropReservation(c)
    \/ OtherAllocation

PoolSpec == PoolInit /\ [][PoolNext]_poolVars

-----------------------------------------------------------------------------
PoolTypeOK ==
    /\ reserved \in Nat /\ other \in OtherBytes
    /\ phase \in [Components -> {"idle", "checked", "copying", "resident", "bound",
                                 "unbinding", "releasing"}]
    /\ \A c \in Components : /\ copies[c] \in 0 .. Len(Sizes[c])
                             /\ holders[c] \subseteq {"bundle", "model"}

\* Every prefetch gives back exactly what it took: when no prefetch, bundle or
\* bound model is left, nothing is reserved and nothing is copied.
NothingKept ==
    (\A c \in Components : phase[c] \in {"idle", "checked"}) =>
        reserved = 0 /\ WeightBytes = 0

\* However prefetches, failures, binds and drops interleave, the weights the
\* pool's clients have in device memory never exceed what is reserved, the
\* reservations never exceed the budget, and all of them come back.
WithinBudget ==
    /\ PoolTypeOK
    /\ WeightBytes <= reserved /\ reserved <= Limit
    /\ NothingKept
==============================================================================
