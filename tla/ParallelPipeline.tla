--------------------------- MODULE ParallelPipeline ---------------------------
(***************************************************************************)
(* A BoundedPipeline built by `from_iter` followed by                      *)
(* `map_parallel_ordered` (rxla-train/src/pipeline.rs).                    *)
(*                                                                         *)
(* Threads: the source worker, WorkerCount transform workers that share    *)
(* one locked receiver and one claim counter, the collector that restores  *)
(* source order, and the consumer that owns the BoundedPipeline value.     *)
(* They communicate through three bounded channels (`inbox`, `completed`,  *)
(* `output`) and the closeable semaphore PipelineCredits, whose condition  *)
(* variable is modelled with its wait set: a worker in pc "waiting" runs   *)
(* again only when notified (or spuriously).                               *)
(*                                                                         *)
(* An item is its position in the source; a payload is never needed.  The  *)
(* user's iterator and transform are the function `outcome`, chosen once   *)
(* in Init: what happens at item i.                                        *)
(***************************************************************************)
EXTENDS Naturals, Sequences, FiniteSets

CONSTANTS ItemCount,      \* items held by the source iterator
          WorkerCount,    \* worker_count
          InputCapacity,  \* capacity given to from_iter
          Capacity,       \* capacity given to map_parallel_ordered
          Outcomes        \* the outcomes Init may give to an item

Errors == {"sourceErr", "transformErr"}
Panics == {"sourcePanic", "transformPanic"}

ASSUME PipelineAssumption ==
    /\ ItemCount \in Nat
    /\ WorkerCount \in Nat \ {0}     \* ensure!(worker_count != 0)
    /\ InputCapacity \in Nat \ {0}   \* ensure!(capacity != 0)
    /\ Capacity \in Nat \ {0}
    /\ Outcomes \subseteq {"ok"} \cup Errors \cup Panics

Items == 0 .. ItemCount - 1
Source == 0
Workers == 1 .. WorkerCount
Collector == WorkerCount + 1
Threads == 0 .. WorkerCount + 1      \* in the order `workers` was pushed

VARIABLES
    outcome,     \* what the iterator and the transform do at each item
    pc,          \* where each thread is
    panicked,    \* threads that ended by a panic
    sent,        \* items the source has sent
    inbox,       \* channel source -> workers
    inputLock,   \* the worker holding Mutex<(Receiver, usize)>, or 0
    claimed,     \* the counter input.1
    claim,       \* per worker: the (index, item) it is transforming
    credits,     \* PipelineCredits.state.0
    closed,      \* PipelineCredits.state.1
    completed,   \* channel workers -> collector
    pending,     \* the collector's reorder map: index -> item
    expected,    \* the collector's next index
    output,      \* channel collector -> consumer
    received,    \* what recv has returned to the consumer
    consumer,    \* the owner of the pipeline value
    joining      \* the thread `finish` is joining

sourceVars == <<sent>>
inputVars == <<inputLock, claimed, claim>>
creditVars == <<credits, closed>>
collectorVars == <<pending, expected>>
consumerVars == <<received, consumer, joining>>
vars == <<outcome, pc, panicked, sourceVars, inbox, inputVars, creditVars,
          completed, collectorVars, output, consumerVars>>

Fails(item) == outcome[item] \in Errors
Alive(t) == pc[t] # "exited"
OutputOpen == consumer \in {"running", "ended"}
InputOpen == \E w \in Workers : Alive(w)

Goto(t, to) == pc' = [pc EXCEPT ![t] = to]

\* Condvar::notify_one: at most one waiter returns to the test of its loop.
\* Condvar::notify_all: every waiter does.  `t` itself moves to `to`.
Waiting == {w \in Workers : pc[w] = "waiting"}
\* Mutants: the notification is forgotten.
NotifyOneForgotten(t, to) == Goto(t, to)
NotifyAllForgotten(t, to) == Goto(t, to)

NotifyOne(t, to) ==
    IF Waiting = {} THEN Goto(t, to)
    ELSE \E w \in Waiting : pc' = [pc EXCEPT ![t] = to, ![w] = "acquire"]
NotifyAll(t, to) ==
    pc' = [u \in Threads |-> IF u = t THEN to
                             ELSE IF u \in Waiting THEN "acquire" ELSE pc[u]]

\* Mutant: one credit more than the completed channel has slots.
InitExtraCredit ==
    /\ outcome \in [Items -> Outcomes]
    /\ pc = [t \in Threads |-> IF t = Source THEN "produce"
                               ELSE IF t = Collector THEN "recv" ELSE "acquire"]
    /\ panicked = {} /\ sent = 0 /\ inbox = <<>> /\ inputLock = 0 /\ claimed = 0
    /\ claim = [w \in Workers |-> [index |-> 0, item |-> 0]]
    /\ credits = Capacity + 1 /\ closed = FALSE
    /\ completed = <<>> /\ pending = [i \in {} |-> 0] /\ expected = 0
    /\ output = <<>> /\ received = <<>> /\ consumer = "running"
    /\ joining = Collector

Init ==
    /\ outcome \in [Items -> Outcomes]
    /\ pc = [t \in Threads |-> IF t = Source THEN "produce"
                               ELSE IF t = Collector THEN "recv" ELSE "acquire"]
    /\ panicked = {}
    /\ sent = 0
    /\ inbox = <<>>
    /\ inputLock = 0
    /\ claimed = 0
    /\ claim = [w \in Workers |-> [index |-> 0, item |-> 0]]
    /\ credits = Capacity
    /\ closed = FALSE
    /\ completed = <<>>
    /\ pending = [i \in {} |-> 0]
    /\ expected = 0
    /\ output = <<>>
    /\ received = <<>>
    /\ consumer = "running"
    /\ joining = Collector

-----------------------------------------------------------------------------
\* The source worker of from_iter.

SourceSend ==
    /\ pc[Source] = "produce"
    /\ sent < ItemCount
    /\ outcome[sent] # "sourcePanic"
    /\ InputOpen
    /\ Len(inbox) < InputCapacity
    /\ inbox' = Append(inbox, sent)
    /\ sent' = sent + 1
    /\ Goto(Source, IF outcome[sent] = "sourceErr" THEN "exited" ELSE "produce")
    /\ UNCHANGED <<outcome, panicked, inputVars, creditVars, completed,
                   collectorVars, output, consumerVars>>

SourceStop ==  \* the iterator ends, or every receiver of `inbox` is gone
    /\ pc[Source] = "produce"
    /\ sent < ItemCount => outcome[sent] # "sourcePanic" /\ ~InputOpen
    /\ Goto(Source, "exited")
    /\ UNCHANGED <<outcome, panicked, sourceVars, inbox, inputVars, creditVars,
                   completed, collectorVars, output, consumerVars>>

SourcePanic ==
    /\ pc[Source] = "produce"
    /\ sent < ItemCount
    /\ outcome[sent] = "sourcePanic"
    /\ Goto(Source, "exited")
    /\ panicked' = panicked \cup {Source}
    /\ UNCHANGED <<outcome, sourceVars, inbox, inputVars, creditVars,
                   completed, collectorVars, output, consumerVars>>

-----------------------------------------------------------------------------
\* The parallel workers of map_parallel_ordered.

Acquire(w) ==  \* PipelineCredits::acquire, one pass of its while loop
    /\ pc[w] = "acquire"
    /\ \/ /\ closed
          /\ Goto(w, "exiting")
          /\ UNCHANGED credits
       \/ /\ ~closed
          /\ credits > 0
          /\ credits' = credits - 1
          /\ Goto(w, "lock")
       \/ /\ ~closed
          /\ credits = 0
          /\ Goto(w, "waiting")
          /\ UNCHANGED credits
    /\ UNCHANGED <<outcome, panicked, sourceVars, inbox, inputVars, closed,
                   completed, collectorVars, output, consumerVars>>

SpuriousWakeup(w) ==
    /\ pc[w] = "waiting"
    /\ Goto(w, "acquire")
    /\ UNCHANGED <<outcome, panicked, sourceVars, inbox, inputVars, creditVars,
                   completed, collectorVars, output, consumerVars>>

LockInput(w) ==
    /\ pc[w] = "lock"
    /\ inputLock = 0
    /\ inputLock' = w
    /\ Goto(w, "recv")
    /\ UNCHANGED <<outcome, panicked, sourceVars, inbox, claimed, claim,
                   creditVars, completed, collectorVars, output, consumerVars>>

ClaimInput(w) ==  \* recv, number the value, drop the guard
    /\ pc[w] = "recv"
    /\ inbox # <<>>
    /\ inbox' = Tail(inbox)
    /\ claim' = [claim EXCEPT ![w] = [index |-> claimed, item |-> Head(inbox)]]
    /\ claimed' = claimed + 1
    /\ inputLock' = 0
    /\ Goto(w, "work")
    /\ UNCHANGED <<outcome, panicked, sourceVars, creditVars, completed,
                   collectorVars, output, consumerVars>>

InputEnded(w) ==  \* recv fails: the source is gone and the channel is empty
    /\ pc[w] = "recv"
    /\ inbox = <<>>
    /\ ~Alive(Source)
    /\ Goto(w, "closing")
    /\ UNCHANGED <<outcome, panicked, sourceVars, inbox, inputVars, creditVars,
                   completed, collectorVars, output, consumerVars>>

SendCompleted(w) ==  \* transform, then completed_sender.send
    /\ pc[w] = "work"
    /\ outcome[claim[w].item] # "transformPanic"
    /\ \/ /\ Alive(Collector)
          /\ Len(completed) < Capacity
          /\ completed' = Append(completed, claim[w])
          /\ Goto(w, IF Fails(claim[w].item) THEN "closing" ELSE "acquire")
       \/ /\ ~Alive(Collector)
          /\ Goto(w, "closing")
          /\ UNCHANGED completed
    /\ UNCHANGED <<outcome, panicked, sourceVars, inbox, inputVars, creditVars,
                   collectorVars, output, consumerVars>>

\* The last share of the input receiver discards the channel with it.
DropInput(w) ==
    inbox' = IF \A v \in Workers \ {w} : ~Alive(v) THEN <<>> ELSE inbox

TransformPanic(w) ==  \* unwinding drops the thread's handles, not the credit
    /\ pc[w] = "work"
    /\ outcome[claim[w].item] = "transformPanic"
    /\ Goto(w, "exited")
    /\ panicked' = panicked \cup {w}
    /\ DropInput(w)
    /\ UNCHANGED <<outcome, sourceVars, inputVars, creditVars,
                   completed, collectorVars, output, consumerVars>>

CloseCredits(w) ==  \* PipelineCredits::close by a worker
    /\ pc[w] = "closing"
    /\ closed' = TRUE
    /\ NotifyAll(w, "exiting")
    /\ UNCHANGED <<outcome, panicked, sourceVars, inbox, inputVars, credits,
                   completed, collectorVars, output, consumerVars>>

\* Leaving the loop drops the input guard, this worker's share of the receiver
\* and its completed_sender.
WorkerExit(w) ==
    /\ pc[w] = "exiting"
    /\ Goto(w, "exited")
    /\ inputLock' = IF inputLock = w THEN 0 ELSE inputLock
    /\ DropInput(w)
    /\ UNCHANGED <<outcome, panicked, sourceVars, claimed, claim, creditVars,
                   completed, collectorVars, output, consumerVars>>

-----------------------------------------------------------------------------
\* The collector of map_parallel_ordered.

\* The test of `while let Some(value) = pending.remove(&expected)`.
AfterInsert(index, map) == IF index \in DOMAIN map THEN "send" ELSE "recv"

CollectorRecv ==
    /\ pc[Collector] = "recv"
    /\ completed # <<>>
    /\ completed' = Tail(completed)
    /\ pending' = [i \in DOMAIN pending \cup {Head(completed).index} |->
                      IF i = Head(completed).index THEN Head(completed).item
                      ELSE pending[i]]
    /\ Goto(Collector, AfterInsert(expected, pending'))
    /\ UNCHANGED <<outcome, panicked, sourceVars, inbox, inputVars, creditVars,
                   expected, output, consumerVars>>

CollectorEnd ==  \* every completed_sender is dropped
    /\ pc[Collector] = "recv"
    /\ completed = <<>>
    /\ ~InputOpen
    /\ Goto(Collector, "closing")
    /\ UNCHANGED <<outcome, panicked, sourceVars, inbox, inputVars, creditVars,
                   completed, collectorVars, output, consumerVars>>

\* Mutants: an error does not stop the collector; a closed output makes it
\* return without closing the credits.
CollectorSendPastError ==
    /\ pc[Collector] = "send"
    /\ pending' = [i \in DOMAIN pending \ {expected} |-> pending[i]]
    /\ IF OutputOpen
       THEN /\ Len(output) < Capacity
            /\ output' = Append(output, pending[expected])
            /\ Goto(Collector, "release")
       ELSE Goto(Collector, "closing") /\ UNCHANGED output
    /\ UNCHANGED <<outcome, panicked, sourceVars, inbox, inputVars, creditVars,
                   completed, expected, consumerVars>>
CollectorSendNoClose ==
    /\ pc[Collector] = "send"
    /\ pending' = [i \in DOMAIN pending \ {expected} |-> pending[i]]
    /\ IF OutputOpen
       THEN /\ Len(output) < Capacity
            /\ output' = Append(output, pending[expected])
            /\ Goto(Collector, IF Fails(pending[expected]) THEN "closing"
                               ELSE "release")
       ELSE Goto(Collector, "exiting") /\ UNCHANGED output
    /\ UNCHANGED <<outcome, panicked, sourceVars, inbox, inputVars, creditVars,
                   completed, expected, consumerVars>>

CollectorSend ==
    /\ pc[Collector] = "send"
    /\ pending' = [i \in DOMAIN pending \ {expected} |-> pending[i]]
    /\ \/ /\ OutputOpen
          /\ Len(output) < Capacity
          /\ output' = Append(output, pending[expected])
          /\ Goto(Collector, IF Fails(pending[expected]) THEN "closing"
                             ELSE "release")
       \/ /\ ~OutputOpen
          /\ Goto(Collector, "closing")
          /\ UNCHANGED output
    /\ UNCHANGED <<outcome, panicked, sourceVars, inbox, inputVars, creditVars,
                   completed, expected, consumerVars>>

ReleaseCredit ==  \* PipelineCredits::release, expected += 1, next loop test
    /\ pc[Collector] = "release"
    /\ credits' = credits + 1
    /\ expected' = expected + 1
    /\ NotifyOne(Collector, AfterInsert(expected + 1, pending))
    /\ UNCHANGED <<outcome, panicked, sourceVars, inbox, inputVars, closed,
                   completed, pending, output, consumerVars>>

CollectorClose ==
    /\ pc[Collector] = "closing"
    /\ closed' = TRUE
    /\ NotifyAll(Collector, "exiting")
    /\ UNCHANGED <<outcome, panicked, sourceVars, inbox, inputVars, credits,
                   completed, collectorVars, output, consumerVars>>

CollectorExit ==  \* drops completed_receiver with what it still holds
    /\ pc[Collector] = "exiting"
    /\ Goto(Collector, "exited")
    /\ completed' = <<>>
    /\ UNCHANGED <<outcome, panicked, sourceVars, inbox, inputVars, creditVars,
                   collectorVars, output, consumerVars>>

-----------------------------------------------------------------------------
\* The consumer: recv, finish, or dropping the pipeline value.

Recv ==
    /\ consumer = "running"
    /\ \/ /\ output # <<>>
          /\ received' = Append(received, Head(output))
          /\ output' = Tail(output)
          /\ UNCHANGED consumer
       \/ /\ output = <<>>
          /\ ~Alive(Collector)
          /\ consumer' = "ended"
          /\ UNCHANGED <<received, output>>
    /\ UNCHANGED <<outcome, pc, panicked, sourceVars, inbox, inputVars,
                   creditVars, completed, collectorVars, joining>>

\* Both begin by dropping the final receiver and its buffered values.
Finish ==
    /\ OutputOpen
    /\ consumer' = "joining"
    /\ output' = <<>>
    /\ UNCHANGED <<outcome, pc, panicked, sourceVars, inbox, inputVars,
                   creditVars, completed, collectorVars, received, joining>>

Drop ==
    /\ OutputOpen
    /\ consumer' = "dropped"
    /\ output' = <<>>
    /\ UNCHANGED <<outcome, pc, panicked, sourceVars, inbox, inputVars,
                   creditVars, completed, collectorVars, received, joining>>

\* Mutant: the result of join is ignored.
JoinIgnoringPanics ==
    /\ consumer = "joining"
    /\ ~Alive(joining)
    /\ IF joining = Source THEN consumer' = "finished" /\ UNCHANGED joining
                           ELSE joining' = joining - 1 /\ UNCHANGED consumer
    /\ UNCHANGED <<outcome, pc, panicked, sourceVars, inbox, inputVars,
                   creditVars, completed, collectorVars, output, received>>

Join ==  \* workers.pop().join()?, downstream first
    /\ consumer = "joining"
    /\ ~Alive(joining)
    /\ \/ /\ joining \in panicked
          /\ consumer' = "panicked"
          /\ UNCHANGED joining
       \/ /\ joining \notin panicked
          /\ joining # Source
          /\ joining' = joining - 1
          /\ UNCHANGED consumer
       \/ /\ joining \notin panicked
          /\ joining = Source
          /\ consumer' = "finished"
          /\ UNCHANGED joining
    /\ UNCHANGED <<outcome, pc, panicked, sourceVars, inbox, inputVars,
                   creditVars, completed, collectorVars, output, received>>

\* Nothing is left to run.
Done ==
    /\ \A t \in Threads : ~Alive(t)
    /\ consumer \in {"finished", "panicked", "dropped"}
    /\ UNCHANGED vars

-----------------------------------------------------------------------------

SourceStep == SourceSend \/ SourceStop \/ SourcePanic
WorkerStep(w) ==
    \/ Acquire(w) \/ LockInput(w) \/ ClaimInput(w) \/ InputEnded(w)
    \/ SendCompleted(w) \/ TransformPanic(w) \/ CloseCredits(w) \/ WorkerExit(w)
CollectorStep ==
    \/ CollectorRecv \/ CollectorEnd \/ CollectorSend
    \/ ReleaseCredit \/ CollectorClose \/ CollectorExit

Next ==
    \/ SourceStep
    \/ \E w \in Workers : WorkerStep(w) \/ SpuriousWakeup(w)
    \/ CollectorStep
    \/ Recv \/ Finish \/ Drop \/ Join
    \/ Done

Spec == Init /\ [][Next]_vars

\* Every thread that can run does run, a recv or a join that can return does
\* return.  A condition variable is not obliged to wake anyone spuriously, and
\* nobody is obliged to call finish or to drop the pipeline.
Fairness ==
    /\ WF_vars(SourceStep)
    /\ \A w \in Workers : WF_vars(WorkerStep(w))
    /\ WF_vars(CollectorStep)
    /\ WF_vars(Recv)
    /\ WF_vars(Join)

FairSpec == Spec /\ Fairness

-----------------------------------------------------------------------------
\* Properties.

WorkerStates == {"acquire", "waiting", "lock", "recv", "work", "closing",
                 "exiting", "exited"}
CollectorStates == {"recv", "send", "release", "closing", "exiting", "exited"}
Claims == [index : Nat, item : Nat]

States == WorkerStates \cup CollectorStates \cup {"produce"}

PcOK ==
    /\ pc \in [Threads -> States]
    /\ pc[Source] \in {"produce", "exited"}
    /\ \A w \in Workers : pc[w] \in WorkerStates
    /\ pc[Collector] \in CollectorStates

InputOK ==
    /\ outcome \in [Items -> Outcomes]
    /\ panicked \subseteq Threads
    /\ sent \in 0 .. ItemCount
    /\ inbox \in Seq(Nat)
    /\ inputLock \in Workers \cup {0}
    /\ claimed \in Nat
    /\ claim \in [Workers -> Claims]
    /\ credits \in Nat
    /\ closed \in BOOLEAN

PendingOK ==
    /\ DOMAIN pending \subseteq Nat
    /\ pending \in [DOMAIN pending -> Nat]

CollectorOK ==
    /\ PendingOK
    /\ completed \in Seq(Claims)
    /\ expected \in Nat
    /\ output \in Seq(Nat)

ConsumerOK ==
    /\ received \in Seq(Nat)
    /\ consumer \in {"running", "ended", "joining", "finished", "panicked",
                     "dropped"}
    /\ joining \in Threads

\* A collector about to send has found the value under `expected`.
SendHasValue == pc[Collector] = "send" => expected \in DOMAIN pending

\* Every variable keeps the shape its Rust counterpart has.
TypeOK == PcOK /\ InputOK /\ CollectorOK /\ ConsumerOK

\* Workers between a successful acquire and the send of their result.
Holding == {w \in Workers : pc[w] \in {"lock", "recv", "work"}}

\* pipeline.rs:265 "Credits bound the whole parallel stage, including items
\* waiting in the reorder map": free credits, workers holding one, results in
\* the completed channel, the reorder map and the value being released never
\* add up to more than the stage's capacity.
StageBounded ==
    credits + Cardinality(Holding) + Len(completed)
        + Cardinality(DOMAIN pending)
        + (IF pc[Collector] = "release" THEN 1 ELSE 0) <= Capacity

\* A worker that has a result always finds room in the completed channel, so
\* it never blocks there while the collector waits for a lower index: the
\* reorder cannot deadlock on a full channel.
CompletedHasRoom ==
    \A w \in Workers :
        pc[w] = "work" /\ Alive(Collector) => Len(completed) < Capacity

\* What finish returning Ok certifies: every thread has been joined and none
\* of them panicked.
FinishMeansJoined ==
    consumer = "finished" => panicked = {} /\ \A t \in Threads : ~Alive(t)

\* pipeline.rs:168-173: the consumer sees an ordered stream, cut at the first
\* error and ended only there or at the end of the source.  A stream that ends
\* because a thread panicked counts as given up: it is a prefix of the source,
\* and finish reports the panic.
Stream == INSTANCE OrderedStream WITH
    failing <- {i \in Items : Fails(i)},
    stream <- IF consumer = "running" THEN "open"
              ELSE IF consumer = "ended" /\ panicked = {} THEN "ended"
              ELSE "abandoned"
ImplementsStream == Stream!Spec

\* pipeline.rs:334-336: a call of finish returns.
FinishReturns == consumer = "joining" ~> consumer \in {"finished", "panicked"}

\* No worker has a panicking transform while another one could wait for the
\* credit that the panic does not give back.
Intact == WorkerCount = 1 \/ \A i \in Items : outcome[i] # "transformPanic"

\* A call of finish returns, whatever fails and even if the source panics, as
\* long as no credit is lost with a worker.
FinishReturnsIntact ==
    consumer = "joining" /\ Intact ~> consumer \in {"finished", "panicked"}

\* pipeline.rs:173-175 "blocked upstream workers then observe disconnection and
\* exit": after the pipeline value is dropped every thread ends.
DropReleasesThreads ==
    consumer = "dropped" /\ Intact ~> \A t \in Threads : ~Alive(t)

\* A consumer that keeps calling recv reaches the end of the stream (or gives
\* the pipeline up), and by then an open stream has no stuck producer.
StreamEnds == consumer = "running" /\ Intact ~> consumer # "running"
=============================================================================
