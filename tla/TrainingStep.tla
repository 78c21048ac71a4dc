----------------------------- MODULE TrainingStep -----------------------------
(***************************************************************************)
(* The training step rxla-train compiles into one program: gradients of a  *)
(* micro-batch are accumulated in resident state, and a mask computed on   *)
(* the device lets momentum SGD (model_sgd.rs), the exponential average    *)
(* (model_ema.rs) and gated model state (rxla-nn/applied.rs) advance once  *)
(* every Steps runs.  Each run reads all slots, computes and commits all   *)
(* of them together, or fails and leaves them alone.                       *)
(*                                                                         *)
(* The session can be taken apart into named buffers and restored, into    *)
(* the training trace or an inference trace with fewer slots.              *)
(*                                                                         *)
(* Numbers are elements of the integers modulo a prime; the step counters  *)
(* are whole F32 numbers, exact far beyond the bound.                      *)
(***************************************************************************)
EXTENDS Integers, Sequences, FiniteSets, SequencesExt, TLC

CONSTANTS
    Prime,
    ParameterList,     \* the selected parameters, in schema order
    Options,           \* per parameter: momentum, dampening, decay, nesterov
    Steps,             \* accumulation_steps
    LearningRate,
    Decay(_),          \* effective EMA decay after so many updates
    Gradients,         \* what one backward pass may yield
    Statistics,        \* what one forward pass may add to the running statistic
    MaxUpdates,        \* bound: optimizer steps
    Absent

VARIABLES slots,       \* the training session by slot name, Absent without one
          inference,   \* an inference session, Absent without one
          buffers,     \* ModelSessionBuffers taken from a session
          batch        \* history: gradients since the last step, here and in buffers

trainVars == <<slots, inference, buffers, batch>>

Params == Range(ParameterList)
Elem(x) == x % Prime
FieldInverse(x) == CHOOSE y \in 0 .. Prime - 1 : Elem(x * y) = 1
WithMomentum == {p \in Params : Options[p].momentum # 0}

\* Slot names: parameters, model state, then the transform-owned state.
Weight(p) == <<"parameter", p>>
Accumulator(p) == <<"gradient_accumulator", p>>
Momentum(p) == <<"momentum", p>>
Running == <<"state", "running">>
Draws == <<"state", "draws">>
ModelState == {Running, Draws}
Count == <<"sgd", "accumulation_step">>
Updates == <<"ema", "updates">>
Average == <<"ema", "parameters">>
TransformState ==
    {Count, Updates, Average}
    \union {Accumulator(p) : p \in Params} \union {Momentum(p) : p \in WithMomentum}
Weights == {Weight(p) : p \in Params}

\* The F32 entries EMA packs into one vector: parameters, then model state.
\* The integer counter Draws is left out.
PackedNames == [k \in DOMAIN ParameterList |-> Weight(ParameterList[k])] \o <<Running>>
Pack(values) == [k \in DOMAIN PackedNames |-> values[PackedNames[k]]]

\* The options are numbers, the counters stay below the modulus, and the number of
\* accumulated batches has an inverse.
ASSUME StepAssumption ==
    /\ Prime \in Nat \ {0, 1} /\ Steps \in 1 .. Prime /\ MaxUpdates \in 0 .. Prime - 1
    /\ \E y \in 0 .. Prime - 1 : Elem(Steps * y) = 1
    /\ ParameterList \in Seq(Params)
    /\ LearningRate \in Int /\ \A u \in 0 .. MaxUpdates : Decay(u) \in Int
    /\ \A p \in Params : Options[p] \in [momentum : Int, dampening : Int, decay : Int, nesterov : BOOLEAN]
    /\ Statistics \subseteq Int /\ \A g \in Gradients : g \in [Params -> Int]

\* ModelSessionBuilder::build: parameters as given, all state zeros.
TrainInit ==
    /\ slots = [n \in Weights \union ModelState \union TransformState |->
                    IF n \in Weights THEN 1
                    ELSE IF n = Average THEN [k \in DOMAIN PackedNames |-> 0] ELSE 0]
    /\ inference = Absent
    /\ buffers = Absent
    /\ batch = [here |-> <<>>, taken |-> <<>>]

-----------------------------------------------------------------------------
\* One run of the step, from the values the slots had when it started.

\* The counter, and whether this run applies an optimizer step.
NextCount == slots[Count] + 1
Applied == NextCount = Steps
Masked(new, old) == IF Applied THEN new ELSE old

\* Mutant: the sum keeps the batch that has been applied.
NextAccumulatorKept(total) == total
NextAccumulator(total) == Masked(Elem(total * 0), total)

Total(gradient, p) == Elem(slots[Accumulator(p)] + gradient[p])
MeanGradient(gradient, p) == Elem(Total(gradient, p) * FieldInverse(Steps))

Decayed(gradient, p) ==
    IF Options[p].decay = 0 THEN MeanGradient(gradient, p)
    ELSE Elem(MeanGradient(gradient, p) + Options[p].decay * slots[Weight(p)])
CandidateVelocity(gradient, p) ==
    Elem(Options[p].momentum * slots[Momentum(p)] + (1 - Options[p].dampening) * Decayed(gradient, p))
Direction(gradient, p) ==
    IF p \notin WithMomentum THEN Decayed(gradient, p)
    ELSE IF Options[p].nesterov
    THEN Elem(Decayed(gradient, p) + Options[p].momentum * CandidateVelocity(gradient, p))
    ELSE CandidateVelocity(gradient, p)
NextWeight(gradient, p) ==
    Masked(Elem(slots[Weight(p)] - LearningRate * Direction(gradient, p)), slots[Weight(p)])

\* apply_model_ema_when, after the optimizer: previous values are this run's
\* initial ones until the first update; current ones include its writes.
NextAverage(current) ==
    LET updates == slots[Updates] + Masked(1, 0)
        previous == IF slots[Updates] = 0 THEN Pack(slots) ELSE slots[Average]
        candidate(k) == Elem(previous[k] + (Pack(current)[k] - previous[k]) * (1 - Decay(updates)))
    IN  [k \in DOMAIN previous |-> Masked(candidate(k), previous[k])]

\* gate_model_state_updates_where, for the running statistic only.
Gated(new) == Masked(new, slots[Running])

Run(gradient, statistic) ==
    /\ slots # Absent /\ slots[Updates] < MaxUpdates
    /\ LET forward == [slots EXCEPT ![Running] = Elem(@ + statistic), ![Draws] = Elem(@ + 1)]
           written == [n \in DOMAIN slots |->
               IF n \in Weights THEN NextWeight(gradient, n[2]) ELSE forward[n]]
       IN  slots' = [n \in DOMAIN slots |->
               IF n = Count THEN Masked(0, NextCount)
               ELSE IF n = Updates THEN slots[n] + Masked(1, 0)
               ELSE IF n = Average THEN NextAverage(written)
               ELSE IF n = Running THEN Gated(written[n])
               ELSE IF n \in {Accumulator(p) : p \in Params} THEN NextAccumulator(Total(gradient, n[2]))
               ELSE IF n \in {Momentum(p) : p \in WithMomentum}
                    THEN Masked(CandidateVelocity(gradient, n[2]), slots[n])
               ELSE written[n]]
    /\ batch' = [batch EXCEPT !.here = IF Len(@) + 1 = Steps THEN <<>> ELSE Append(@, gradient)]
    /\ UNCHANGED <<inference, buffers>>

\* A run that fails commits nothing (Session::run_with): no step.

-----------------------------------------------------------------------------
\* Handing the state on.

\* AppliedModel::take_session.
TakeSession ==
    /\ slots # Absent
    /\ buffers' = slots
    /\ slots' = Absent
    /\ batch' = [batch EXCEPT !.taken = batch.here, !.here = <<>>]
    /\ UNCHANGED inference
TakeInference ==
    /\ inference # Absent
    /\ buffers' = inference
    /\ inference' = Absent
    /\ UNCHANGED <<slots, batch>>

\* ModelSessionBuffers::restore_model: every slot of the target must be there,
\* the resident parameters must be exactly its own, other state is dropped.
Restored(names) == [n \in names |-> buffers[n]]
Restorable(names) ==
    /\ buffers # Absent
    /\ names \subseteq DOMAIN buffers
    /\ Weights \intersect DOMAIN buffers \subseteq names
RestoreTraining ==
    /\ slots = Absent
    /\ Restorable(Weights \union ModelState \union TransformState)
    /\ slots' = Restored(Weights \union ModelState \union TransformState)
    /\ batch' = [batch EXCEPT !.here = batch.taken]
    /\ UNCHANGED <<inference, buffers>>
RestoreInference ==
    /\ inference = Absent
    /\ Restorable(Weights \union ModelState)
    /\ inference' = Restored(Weights \union ModelState)
    /\ UNCHANGED <<slots, buffers, batch>>

TrainNext ==
    \/ \E g \in Gradients, s \in Statistics : Run(g, s)
    \/ TakeSession
    \/ TakeInference
    \/ RestoreTraining
    \/ RestoreInference

TrainSpec == TrainInit /\ [][TrainNext]_trainVars

-----------------------------------------------------------------------------
\* Properties.

Numbers == 0 .. Prime - 1
IsSlots(s, names) ==
    /\ DOMAIN s = names
    /\ \A n \in names : s[n] \in IF n = Average THEN [DOMAIN PackedNames -> Numbers] ELSE Numbers

\* The training session has all slots, with values of their kind; the
\* accumulation counter stays below Steps; an inference session has the
\* parameters and the model state (ModelSessionBuilder::build).
TrainTypeOK ==
    /\ slots # Absent =>
        /\ IsSlots(slots, Weights \union ModelState \union TransformState)
        /\ slots[Count] \in 0 .. Steps - 1
        /\ slots[Count] = Len(batch.here)
    /\ inference # Absent => IsSlots(inference, Weights \union ModelState)
    /\ buffers # Absent => DOMAIN buffers \in
        {Weights \union ModelState, Weights \union ModelState \union TransformState}

\* The host-side training state a set of slots stands for, with the gradients
\* seen since the last optimizer step.
Meaning(s, seen) ==
    IF s = Absent \/ Average \notin DOMAIN s THEN Absent ELSE
    [weights |-> [p \in Params |-> s[Weight(p)]],
     velocity |-> [p \in Params |-> IF p \in WithMomentum THEN s[Momentum(p)] ELSE 0],
     running |-> s[Running], draws |-> s[Draws], batch |-> seen,
     updates |-> s[Updates],
     average |-> IF s[Updates] = 0 THEN Absent
                 ELSE [n \in Params \union {"running"} |->
                    LET slot == IF n = "running" THEN Running ELSE Weight(n)
                        place == CHOOSE k \in DOMAIN PackedNames : PackedNames[k] = slot
                    IN  s[Average][place]]]

\* Absent is neither the slots of a session nor what they stand for.
ASSUME AbsentAssumption ==
    /\ Absent \notin [Weights \union ModelState \union TransformState ->
                         Numbers \union [DOMAIN PackedNames -> Numbers]]
    /\ Absent \notin [weights : [Params -> Numbers], velocity : [Params -> Numbers],
                      running : Numbers, draws : Numbers, batch : Seq(Gradients), updates : Numbers,
                      average : {Absent} \union [Params \union {"running"} -> Numbers]]

Loop == INSTANCE OptimizerLoop WITH
    Rate <- LearningRate,
    model <- Meaning(slots, batch.here), saved <- Meaning(buffers, batch.taken)

\* The compiled, masked step is the host-side loop: Steps runs are one
\* optimizer step over their mean gradient, the average and the gated model
\* state follow it, the draw counter does not wait for it, and a session taken
\* apart in the middle of an accumulation and restored loses nothing of it.
ImplementsOptimizerLoop == Loop!Spec
=============================================================================
