------------------------------ MODULE MCTraining ------------------------------
(***************************************************************************)
(* The training components side by side; in a behaviour one of them moves: *)
(*   "step"   TrainingStep: three parameters with different options, two   *)
(*            micro-batches to a step, two steps, modulo 7;                *)
(*   "chain"  StageChain: four items, a pool of two, two maps, at most two *)
(*            faulty items, next to each other;                            *)
(*   "run"    TrainingRun: three steps of two micro-steps, three starts;   *)
(*   "random", "rng"  RandomStream: core's sequences, or a model's stream, *)
(*            eight values to a word, three blocks, two executions;         *)
(*   "model"  ModelAbi: two inputs, two parameters, a state, a state of an *)
(*            optimizer, and second traces of up to three declarations.    *)
(***************************************************************************)
EXTENDS TrainingStep, StageChain, TrainingRun, RandomStream, ModelAbi

VARIABLE part

MCParameters == <<"a", "b", "c">>
MCOptions ==
    [a |-> [momentum |-> 3, dampening |-> 0, decay |-> 2, nesterov |-> TRUE],
     b |-> [momentum |-> 0, dampening |-> 0, decay |-> 0, nesterov |-> FALSE],
     c |-> [momentum |-> 2, dampening |-> 4, decay |-> 0, nesterov |-> FALSE]]
MCDecay(updates) == updates + 1
MCGradients == {[a |-> 1, b |-> 2, c |-> 1], [a |-> 3, b |-> 0, c |-> 5]}

MCFault == (0 .. 3) \X {1, 2} \X {"fail", "panic"}
MCFaultings == {{}} \union {{f, g} : f, g \in MCFault}
MCNeighbours == {F \in MCFaultings : \A f, g \in F : f = g \/ f[1] - g[1] \in {-1, 1}}

MCWord(draw) == (draw * draw + draw \div 2) % 5
MCMosaic(sample) == sample % 3 # 1
MCMixup(sample) == sample % 2 = 0
MCSize(block) == IF block = 0 THEN 64 ELSE 32

\* One start just before the low word carries, one just before the end of the
\* period.
MCCounters == {[low |-> -2, high |-> 0], [low |-> -2, high |-> -1]}

allVars == <<part, trainVars, chainVars, runVars, randomVars, abiVars>>

Init ==
    /\ part \in {"step", "chain", "run", "random", "rng", "model"}
    /\ TrainInit
    /\ ChainInit /\ (part # "chain" => ~broken /\ faulty = {})
    /\ RunInit
    /\ RandomInit /\ (part \notin {"random", "rng"} => slot["model"].counter.high = 0)
    /\ AbiInit /\ (part # "model" => model[1].residency = {})

Next ==
    /\ UNCHANGED part
    /\ \/ part = "step" /\ TrainNext /\ UNCHANGED <<chainVars, runVars, randomVars, abiVars>>
       \/ part = "chain" /\ ChainNext /\ UNCHANGED <<trainVars, runVars, randomVars, abiVars>>
       \/ part = "run" /\ RunNext /\ UNCHANGED <<trainVars, chainVars, randomVars, abiVars>>
       \/ part = "random" /\ SequenceNext /\ UNCHANGED <<trainVars, chainVars, runVars, abiVars>>
       \/ part = "rng" /\ StreamNext /\ UNCHANGED <<trainVars, chainVars, runVars, abiVars>>
       \/ part \in {"random", "rng"} /\ EndRun /\ UNCHANGED <<trainVars, chainVars, runVars, abiVars>>
       \/ part = "model" /\ AbiNext /\ UNCHANGED <<trainVars, chainVars, runVars, randomVars>>

\* The operating system runs every thread of the pipeline, and finish once the
\* consumer has called it; when the consumer calls what is up to it.
Fairness ==
    /\ \A t \in ChainThreads : WF_chainVars(part = "chain" /\ ThreadStep(t))
    /\ WF_chainVars(part = "chain" /\ Join)

Spec == Init /\ [][Next]_allVars /\ Fairness

\* The schedules of a training run agree, and the variables keep their types: the
\* L1 loss is used exactly while mosaic and mixup are switched off, although
\* the one counts applied steps and the other planned micro-steps; no batch
\* comes in a size without a compiled program, and a run that ends with an
\* error has a reason outside its own counting.
SchedulesAgree ==
    /\ TrainTypeOK /\ ChainTypeOK /\ RunTypeOK
    /\ AugmentationEndsWithL1
    /\ FailuresExplained
=============================================================================
