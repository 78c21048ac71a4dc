----------------------------- MODULE OptimizerLoop -----------------------------
(***************************************************************************)
(* The host-side training loop that the compiled training step stands for: *)
(*                                                                         *)
(*     for each micro-batch: loss.backward()                               *)
(*     after every Steps micro-batches:                                    *)
(*         optimizer.step(); ema.update(model); optimizer.zero_grad()      *)
(*                                                                         *)
(* with weight decay, momentum and Nesterov as in torch.optim.SGD, and an  *)
(* average that starts as a copy of the model.  Values are elements of the *)
(* integers modulo a prime, where the arithmetic is exact.                 *)
(***************************************************************************)
EXTENDS Integers, Sequences, TLC

CONSTANTS Prime, Params, Options, Steps, Rate, Decay(_),
          Gradients, Statistics, MaxUpdates, Absent

VARIABLES model,    \* the training state, Absent while there is no session
          saved     \* a snapshot of it, Absent if there is none

vars == <<model, saved>>

Mod(x) == x % Prime
\* The quotient x / y in the field.
Quotient(x, y) == CHOOSE q \in 0 .. Prime - 1 : Mod(q * y) = Mod(x)
GradientSum(batch, p) ==
    LET sum[k \in 0 .. Len(batch)] == IF k = 0 THEN 0 ELSE sum[k - 1] + batch[k][p]
    IN  sum[Len(batch)]
Mean(batch, p) == Quotient(GradientSum(batch, p), Steps)

Fresh(weights) ==
    [weights |-> weights, velocity |-> [p \in Params |-> 0], running |-> 0, draws |-> 0,
     batch |-> <<>>, updates |-> 0, average |-> Absent]

\* optimizer.step() for one parameter: its new velocity and weight.
Gradient(m, p) == Mod(Mean(m.batch, p) + Options[p].decay * m.weights[p])
Velocity(m, p) == Mod(Options[p].momentum * m.velocity[p] + (1 - Options[p].dampening) * Gradient(m, p))
Direction(m, p) ==
    IF Options[p].momentum = 0 THEN Gradient(m, p)
    ELSE IF Options[p].nesterov THEN Mod(Gradient(m, p) + Options[p].momentum * Velocity(m, p))
    ELSE Velocity(m, p)

\* What the average covers: every parameter and the running statistic.
Averaged(m) == [n \in Params \union {"running"} |-> IF n = "running" THEN m.running ELSE m.weights[n]]

Stepped(m, statistic) ==
    LET new == [m EXCEPT !.weights = [p \in Params |-> Mod(@[p] - Rate * Direction(m, p))],
                         !.velocity = [p \in Params |->
                             IF Options[p].momentum = 0 THEN 0 ELSE Velocity(m, p)],
                         !.running = Mod(@ + statistic),
                         !.batch = <<>>, !.updates = @ + 1]
        old == IF m.updates = 0 THEN Averaged(m) ELSE m.average
    IN  [new EXCEPT !.average =
            [n \in DOMAIN old |-> Mod(Decay(new.updates) * old[n]
                                      + (1 - Decay(new.updates)) * Averaged(new)[n])]]

MicroBatch(gradient, statistic) ==
    /\ model # Absent /\ model.updates < MaxUpdates
    /\ LET seen == [model EXCEPT !.batch = Append(@, gradient), !.draws = Mod(@ + 1)]
       IN  model' = IF Len(seen.batch) < Steps THEN seen ELSE Stepped(seen, statistic)
    /\ UNCHANGED saved

Save ==
    /\ model # Absent
    /\ saved' = model
    /\ model' = Absent

Restore ==
    /\ model = Absent /\ saved # Absent
    /\ model' = saved
    /\ UNCHANGED saved

\* The snapshot is replaced by one that cannot be resumed from.
Forget ==
    /\ saved' = Absent
    /\ UNCHANGED model

Init ==
    /\ \E weights \in [Params -> {1}] : model = Fresh(weights)
    /\ saved = Absent

Next ==
    \/ \E g \in Gradients, s \in Statistics : MicroBatch(g, s)
    \/ Save
    \/ Restore
    \/ Forget

Spec == Init /\ [][Next]_vars
=============================================================================
