------------------------------ MODULE TrainingRun ------------------------------
(***************************************************************************)
(* The training program of rxla-safetensors/examples/                      *)
(* yolox_coco_train_step.rs: a deterministic shuffled and augmented data   *)
(* stream, one session handed between programs of different input sizes,   *)
(* snapshots on disk, and runs that crash, stop early or fail and are      *)
(* resumed from any snapshot there is.                                     *)
(*                                                                         *)
(* The session's state is the sequence of everything it was run on, which  *)
(* tells any two states apart.  Prefetching keeps the order (module        *)
(* OrderedStream), so the pipeline is one queue here.                      *)
(***************************************************************************)
EXTENDS ShufflePool, SequencesExt

CONSTANTS
    ImageCount, StartImage,   \* the dataset, and the image a run starts with
    EmptyImages,              \* images without a box
    ShuffleBuffer, BatchSize, Accumulation, TotalSteps, NoAugmentationSteps,
    MosaicSize,               \* samples of one mosaic: 4 in the code
    ResizeEvery,              \* steps between changes of size: 10 in the code
    Word(_), Mosaic(_), Mixup(_), Size(_),   \* what the seed makes of a number
    QueueSize,                \* batches prepared ahead of the training loop
    CheckpointEvery,
    Outputs,                  \* output paths a run may be given
    RunLimits,                \* values of --run-steps
    FailingReads,             \* source reads that may fail
    MaxRuns,                  \* bound: program starts
    NoFile

TotalMicroSteps == TotalSteps * Accumulation
NoFault == -1

\* Bound: how far a mixup looks for its partner, which is never farther: by then
\* the pool has nothing but images with a box.
Reach == ShuffleBuffer * ImageCount + 1

\* The checks of main, of resume_step and of TrainingSource::open.
ASSUME RunAssumption ==
    /\ {ImageCount, ShuffleBuffer, BatchSize, Accumulation, TotalSteps, MosaicSize,
        ResizeEvery, QueueSize, CheckpointEvery} \subseteq Nat \ {0}
    /\ StartImage \in 0 .. ImageCount - 1 /\ EmptyImages \subseteq Nat
    /\ NoAugmentationSteps \in 0 .. TotalSteps
    /\ RunLimits \subseteq Nat \ {0} /\ FailingReads \subseteq Nat /\ MaxRuns \in Nat

VARIABLES disk,      \* file -> its session state and completed_steps, or NoFile
          runs,      \* program starts so far
          phase,     \* where the program is; "down" if it is not running
          reason,    \* why the last run failed
          run,       \* its arguments and what it derived from them
          plan,      \* PlannedBatches, in the source worker
          queue,     \* prepared batches, each the one element of a sequence; empty for an error
          producing, \* the source worker is still there
          current,   \* current_size
          session,   \* state of the training session
          completed, micro   \* completed, completed_micro_steps

runVars == <<disk, runs, phase, reason, run, plan, queue, producing, current, session, completed, micro>>

-----------------------------------------------------------------------------
\* The data stream.

\* SourceSamples over TrainingSource::Coco: after the last image comes image 0.
Source(fault) == [n \in Nat |-> IF n = fault THEN Failure ELSE (StartImage + n) % ImageCount]

\* take_training_sample, so many times: the pool and what it has yielded.  Errors
\* are listed too; what comes after one is of no use to anybody.
IsError(sample) == sample \in {Failure, Exhausted}
Sampled(st, taken) == [pool |-> taken.pool, samples |-> Append(st.samples, taken.result)]
TakeSample(st, source) == Sampled(st, Take(st.pool, source, Word(st.pool.draws)))
TakeSamples(p, source, calls) ==
    LET after[k \in 0 .. MosaicSize + Reach] ==
            IF k = 0 THEN [pool |-> p, samples |-> <<>>] ELSE TakeSample(after[k - 1], source)
    IN  after[calls]

\* A batch so far; an error ends it.
NoGroups(p) == [pool |-> p, groups |-> <<>>, failed |-> FALSE]
Fails(st) == [st EXCEPT !.failed = TRUE]
Grouped(st, p, samples, mixup) ==
    [pool |-> p, failed |-> FALSE,
     groups |-> Append(st.groups, [samples |-> samples, mixup |-> mixup])]

\* The partner of a mixup is the next sample with a box.
WithPartner(st, source, samples) ==
    LET own == Len(samples)
        seen == TakeSamples(st.pool, source, own + Reach).samples
        ends == {k \in own + 1 .. own + Reach : seen[k] \notin EmptyImages}
    IN  IF ends = {} \/ IsError(seen[Min(ends)]) THEN Fails(st)
        ELSE Grouped(st, TakeSamples(st.pool, source, Min(ends)).pool, samples, <<seen[Min(ends)]>>)
Mixed(st, source, own, mixup) ==
    IF \E k \in DOMAIN own.samples : IsError(own.samples[k]) THEN Fails(st)
    ELSE IF mixup /\ \E k \in DOMAIN own.samples : own.samples[k] \notin EmptyImages
    THEN WithPartner(st, source, own.samples)
    ELSE Grouped(st, own.pool, own.samples, <<>>)

\* Mutant: the last steps are counted as micro-steps.
MosaicStepsMixed == TotalSteps * Accumulation - NoAugmentationSteps
MosaicSteps == (TotalSteps - NoAugmentationSteps) * Accumulation
\* One sample of a batch: random decisions depend on its number alone.
Group(st, source, step, number) ==
    LET mosaic == step < MosaicSteps /\ Mosaic(number)
    IN  IF st.failed THEN st
        ELSE Mixed(st, source, TakeSamples(st.pool, source, IF mosaic THEN MosaicSize ELSE 1),
                   mosaic /\ Mixup(number))
Groups(p, source, step) ==
    LET after[k \in 0 .. BatchSize] ==
            IF k = 0 THEN NoGroups(p)
            ELSE Group(after[k - 1], source, step, step * BatchSize + k - 1)
    IN  after[BatchSize]

\* training_sizes, and step_sizes with one entry for every micro-step.
StepSize(step) == LET block == (step \div Accumulation) \div ResizeEvery IN Size(block)

NewPlan(remaining) == [pool |-> NewPool(ShuffleBuffer), remaining |-> remaining, step |-> 0]
\* PlannedBatches::next, while batches remain: the iterator after the call, and
\* the batch or, without one, the error.
Planned(p, filled) ==
    IF filled.failed
    THEN [plan |-> [p EXCEPT !.remaining = 0], result |-> <<>>]
    ELSE [plan |-> [pool |-> filled.pool, remaining |-> p.remaining - 1, step |-> p.step + 1],
          result |-> <<[groups |-> filled.groups, size |-> StepSize(p.step)]>>]
NextBatch(p, source) == Planned(p, Groups(p.pool, source, p.step))

\* The iterator after so many calls: at the start of a run, the batches of the
\* steps a snapshot has behind it are drawn again and dropped.
Called(p, source) == IF p.remaining = 0 THEN p ELSE NextBatch(p, source).plan
Replay(source, calls) ==
    LET after[k \in 0 .. TotalMicroSteps] ==
            IF k = 0 THEN NewPlan(TotalMicroSteps) ELSE Called(after[k - 1], source)
    IN  after[calls]

-----------------------------------------------------------------------------
\* Files.

ModelFile(output) == <<"model", output, 0>>
TrainingFile(output) == <<"training", output, 0>>
\* periodic_checkpoint_path: a versioned sibling of the training output.
PeriodicFile(output, step) == <<"periodic", output, step>>
Files == {ModelFile(o) : o \in Outputs} \union {TrainingFile(o) : o \in Outputs}
    \union {PeriodicFile(o, s) : o \in Outputs, s \in 1 .. TotalSteps}
Snapshots == {f \in Files : f[1] # "model" /\ disk[f] # NoFile}

\* save_buffers_new never replaces a file; the snapshot of the session and the
\* metadata are published as one.
Publish(file, to) ==
    IF disk[file] # NoFile
    THEN /\ phase' = "down" /\ reason' = "exists"
         /\ UNCHANGED disk
    ELSE /\ disk' = [disk EXCEPT ![file] = [session |-> session, completed |-> completed]]
         /\ phase' = to
         /\ UNCHANGED reason

-----------------------------------------------------------------------------
\* The program.

NoRun == [resumedAt |-> 0, fault |-> NoFault, output |-> NoFile, expected |-> 0, variants |-> {}]
RunInit ==
    /\ disk = [f \in Files |-> NoFile]
    /\ runs = 0 /\ phase = "down" /\ reason = "none"
    /\ run = NoRun /\ plan = NewPlan(0) /\ queue = <<>> /\ producing = FALSE
    /\ current = Size(0) /\ session = <<>> /\ completed = 0 /\ micro = 0

\* The sizes a run compiles a program for.
ActiveSizes(first, remaining) ==
    {StepSize(s) : s \in IF remaining > 0 THEN first .. first + remaining - 1 ELSE {TotalMicroSteps - 1}}

\* main up to the loop, from a snapshot or from scratch.  An error while the
\* data is replayed ends it.
BeginAt(from, output, limit, fault, resumedAt, replayed) ==
    LET remaining == Min({replayed.remaining, limit * Accumulation})
        first == resumedAt * Accumulation
    IN  /\ runs' = runs + 1
        /\ run' = [resumedAt |-> resumedAt, fault |-> fault, output |-> output,
                   expected |-> first + remaining, variants |-> ActiveSizes(first, remaining)]
        /\ IF first > 0 /\ replayed.step # first
           THEN /\ phase' = "down" /\ reason' = "data"
                /\ UNCHANGED <<plan, producing, current, session, completed, micro>>
           ELSE /\ phase' = "training" /\ reason' = "none"
                /\ plan' = [replayed EXCEPT !.remaining = remaining]
                /\ producing' = TRUE
                /\ current' = StepSize(Min({first, TotalMicroSteps - 1}))
                /\ session' = IF from = NoFile THEN <<>> ELSE disk[from].session
                /\ completed' = resumedAt
                /\ micro' = first
        /\ queue' = <<>>
        /\ UNCHANGED disk
Begin(from, output, limit, fault) ==
    LET resumedAt == IF from = NoFile THEN 0 ELSE disk[from].completed
    IN  BeginAt(from, output, limit, fault, resumedAt,
                Replay(Source(fault), resumedAt * Accumulation))
Start ==
    /\ phase = "down" /\ runs < MaxRuns
    /\ \E from \in Snapshots \union {NoFile}, output \in Outputs, limit \in RunLimits,
          fault \in FailingReads \union {NoFault} : Begin(from, output, limit, fault)

\* The source worker prepares the next batch, or finds that there is none.
Prepared(next) ==
    /\ plan' = next.plan
    /\ queue' = Append(queue, next.result)
    /\ producing' = (next.result # <<>>)
Produce ==
    /\ phase # "down" /\ producing
    /\ Len(queue) < QueueSize
    /\ IF plan.remaining = 0
       THEN producing' = FALSE /\ UNCHANGED <<plan, queue>>
       ELSE Prepared(NextBatch(plan, Source(run.fault)))
    /\ UNCHANGED <<disk, runs, phase, reason, run, current, session, completed, micro>>

\* The schedule position of the learning rate, and whether the L1 loss is used.
\* Mutant: the rate starts over with every run.
StepRateOfRun == completed - run.resumedAt
StepRate == completed
UseL1 == NoAugmentationSteps # 0 /\ completed >= TotalSteps - NoAugmentationSteps
Due(done, stepped) ==
    stepped /\ done # run.expected \div Accumulation /\ done % CheckpointEvery = 0

Done(stepped) == IF stepped THEN completed + 1 ELSE completed

\* One turn of the training loop.  If the batch has another size, the session's
\* buffers move to the program of that size first.
Train ==
    /\ phase = "training" /\ queue # <<>>
    /\ queue' = Tail(queue)
    /\ IF Head(queue) = <<>>
       THEN /\ phase' = "down" /\ reason' = "data"
            /\ UNCHANGED <<current, session, completed, micro>>
       ELSE LET batch == Head(Head(queue))
                stepped == (micro + 1) % Accumulation = 0
                done == Done(stepped)
            IN  IF batch.size \notin run.variants
                THEN /\ phase' = "down" /\ reason' = "panic"
                     /\ UNCHANGED <<current, session, completed, micro>>
                ELSE /\ current' = batch.size
                     /\ session' = Append(session,
                            [groups |-> batch.groups, size |-> batch.size, rate |-> StepRate, l1 |-> UseL1])
                     /\ micro' = micro + 1
                     /\ completed' = done
                     /\ phase' = (IF Due(done, stepped) THEN "snapshot" ELSE phase)
                     /\ UNCHANGED reason
    /\ UNCHANGED <<disk, runs, run, plan, producing>>

SavePeriodic ==
    /\ phase = "snapshot"
    /\ Publish(PeriodicFile(run.output, completed), "training")
    /\ UNCHANGED <<runs, run, plan, queue, producing, current, session, completed, micro>>

\* After the loop: the counts must be what was planned, then both outputs.
Finish ==
    /\ phase = "training" /\ queue = <<>> /\ ~producing
    /\ IF micro # run.expected \/ completed # run.expected \div Accumulation
       THEN phase' = "down" /\ reason' = "count"
       ELSE phase' = "saving model" /\ UNCHANGED reason
    /\ UNCHANGED <<disk, runs, run, plan, queue, producing, current, session, completed, micro>>
SaveModel ==
    /\ phase = "saving model"
    /\ Publish(ModelFile(run.output), "saving state")
    /\ UNCHANGED <<runs, run, plan, queue, producing, current, session, completed, micro>>
SaveTraining ==
    /\ phase = "saving state"
    /\ Publish(TrainingFile(run.output), "down")
    /\ UNCHANGED <<runs, run, plan, queue, producing, current, session, completed, micro>>

\* The program dies; what it had in memory is gone.
Crash ==
    /\ phase # "down"
    /\ phase' = "down" /\ reason' = "crash"
    /\ UNCHANGED <<disk, runs, run, plan, queue, producing, current, session, completed, micro>>

RunNext ==
    \/ Start \/ Produce \/ Train \/ SavePeriodic \/ Finish \/ SaveModel \/ SaveTraining
    \/ Crash

-----------------------------------------------------------------------------
\* Properties.

RunTypeOK ==
    /\ runs \in 0 .. MaxRuns
    /\ phase \in {"down", "training", "snapshot", "saving model", "saving state"}
    /\ reason \in {"none", "data", "exists", "panic", "count", "crash"}
    /\ completed \in 0 .. TotalSteps /\ micro \in 0 .. TotalMicroSteps
    /\ Len(queue) <= QueueSize /\ plan.step + plan.remaining <= TotalMicroSteps
    /\ phase # "down" => micro = Len(session) /\ completed = micro \div Accumulation

\* The batches of a run that is never disturbed, and what it is trained on with
\* them: the rate and the L1 loss change between optimizer steps only.
CleanBatch(step) == NextBatch(Replay(Source(NoFault), step), Source(NoFault)).result
Entry(b, step) ==
    [groups |-> b.groups, size |-> b.size, rate |-> step,
     l1 |-> step \in TotalSteps - NoAugmentationSteps .. TotalSteps - 1]
Undisturbed ==
    [k \in 1 .. TotalMicroSteps |-> Entry(CleanBatch(k - 1)[1], (k - 1) \div Accumulation)]
UndisturbedTo(n) == SubSeq(Undisturbed, 1, n)

\* However often the program crashed, failed or was stopped, and whichever
\* snapshots it resumed from, the session and every file hold exactly what an
\* undisturbed run would have there: no batch skipped, repeated or augmented
\* otherwise, no rate or loss out of place.
ResumeIsExact ==
    /\ phase # "down" => session = UndisturbedTo(micro)
    /\ \A f \in Files : disk[f] # NoFile =>
           disk[f].session = UndisturbedTo(disk[f].completed * Accumulation)

\* A run fails because the source failed, because a file it would write is
\* already there, or because it was killed: the size of every batch has been
\* compiled for, and the steps it counts are those it planned.
FailuresExplained ==
    /\ reason \notin {"panic", "count"}
    /\ reason = "data" => run.fault # NoFault

\* The L1 loss is used exactly while mosaic and mixup are switched off.
AugmentationEndsWithL1 ==
    \A k \in DOMAIN session : session[k].l1 =>
        \A g \in DOMAIN session[k].groups :
            Len(session[k].groups[g].samples) = 1 /\ session[k].groups[g].mixup = <<>>
=============================================================================
